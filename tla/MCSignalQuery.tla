---------------------------- MODULE MCSignalQuery ----------------------------
(***************************************************************************)
(* SignalQuery with one initial command of each kind (a command, and the   *)
(* one that opens the connection), console lines of each kind, and a queue *)
(* that overflows.                                                         *)
(***************************************************************************)
EXTENDS SignalQuery

MCInitCommands == <<"At+creg=1", "At+ktcpstart=1">>
MCConsoleInputs == {"+++", "+KCNX", "AT+CSQ", "At+ktcpstart=1", "text"}
MCStrengths == {7, 20}
=============================================================================
