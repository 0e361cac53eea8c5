---------------------------- MODULE MCCommandLine ----------------------------
(***************************************************************************)
(* Every command line of up to three of the arguments below, with a table  *)
(* of another driver, registered before or after the clock's, and tables   *)
(* that grow several times: 8 entries, then 4, 3 and 2.                    *)
(***************************************************************************)
EXTENDS CommandLine

Arg(name, value) == [name |-> name, value |-> value]

MCArguments ==
  {Arg(name, NONE) : name \in {"rt", "no-rt", "rtc-reset", "no-color", "force-color",
                               "color", "eth", "eth-if", "testargs", "help",
                               "stop_at"}}
    \cup {Arg("stop_at", 0), Arg("stop_at", 3), Arg("stop_at", -1),
          Arg("stop_at", NaN)}
    \cup {Arg("rt-ratio", v) : v \in {1, 0, NaN}}
    \cup {Arg("rt-drift", v) : v \in {-1, -2, NaN}}
    \cup {Arg("rtc-offset", v) : v \in {-1, TEXT}}
    \cup {Arg("rt", EMPTY), Arg("eth-if", TEXT)}

MCDriverTables == {<< Switch("eth"), Number("eth-if", NONE) >>}
MCDriverNames == {"eth", "eth-if"}
MCUndefined == {0, -7}
=============================================================================
