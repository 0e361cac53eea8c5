----------------------------- MODULE CommandLine -----------------------------
(***************************************************************************)
(* The start of the native_posix process (posix_init): native tasks        *)
(* register command line options in one growing table, the arguments are   *)
(* parsed against it (cmdline.c, cmdline_common.c), their callbacks        *)
(* configure the simulated clocks (timer_model.c) and the colours of the   *)
(* traces (tracing.c), and the hardware models start.                      *)
(*                                                                         *)
(* An argument is a name and a value; how many dashes precede it, and      *)
(* whether ':' or '=' separates them, is left out, and so is the help text.*)
(* A double is NaN or a number of halves: 1.0 is 2.                        *)
(***************************************************************************)
EXTENDS Integers, Sequences, FiniteSets

CONSTANTS Arguments,     \* arguments of the process
          MaxArgs,       \* bound: how many there are
          DriverTables,  \* option tables of other drivers, each registered once
          DriverNames,   \* the names of their options
          ChunkSize,     \* ARGS_ALLOC_CHUNK_SIZE, 20
          SlowDown,      \* CONFIG_NATIVE_POSIX_SLOWDOWN_TO_REAL_TIME
          HostMonotonic, \* the host's monotonic clock at boot, ...
          HostRealtime,  \* ... and its time of day, in microseconds
          Undefined,     \* what converting a NaN to an integer may give
          NEVER,         \* UINT64_MAX
          NaN,
          TEXT,          \* a value that is not a number
          EMPTY,         \* an argument that ends after '='
          NONE,          \* no value; no destination
          END,           \* ARG_TABLE_ENDMARKER
          JUNK           \* a table entry not written yet

Values == Int \cup {NaN, TEXT, EMPTY, NONE}
Dests == {"stop_at", "rtc_offset", "rt_drift", "rt_ratio"}
Names == {"rt", "no-rt", "rt-drift", "rt-ratio", "rtc-offset", "rtc-reset", "stop_at",
          "color", "no-color", "force-color", "testargs"}
HelpNames == {"?", "h", "help"}
Option == [name : Names \cup DriverNames, manual : BOOLEAN, is_switch : BOOLEAN,
           dest : Dests \cup {NONE}]

(* Options of other drivers: their values stay with their drivers. *)
DriverOption == [name : DriverNames, manual : BOOLEAN, is_switch : BOOLEAN, dest : {NONE}]
DriverOptions == UNION {{list[n] : n \in DOMAIN list} : list \in DriverTables}

ASSUME CommandLineAssumption ==
  /\ \A arg \in Arguments : DOMAIN arg = {"name", "value"} /\ arg.value \in Values
  /\ {NaN, TEXT, EMPTY, NONE} \cap Int = {}
  /\ NaN \notin {TEXT, EMPTY, NONE} /\ TEXT \notin {EMPTY, NONE} /\ EMPTY # NONE
  /\ NONE \notin Dests
  /\ NEVER \in Int
  /\ DriverNames \cap (Names \cup HelpNames) = {}
  /\ DriverTables \subseteq Seq(DriverOption)
  /\ \A option, other \in DriverOptions : option.name = other.name => option = other
  /\ MaxArgs \in Nat
  /\ ChunkSize \in Nat \ {0}
  /\ SlowDown \in BOOLEAN
  /\ HostMonotonic \in Nat /\ HostRealtime \in Nat
  /\ Undefined \subseteq Int
  /\ {END, JUNK} \cap Option = {}   \* only an end marker has no name
  /\ END # JUNK

VARIABLES argv,
          phase,       \* how far posix_init is; "exited" after posix_exit
          exit_code,
          tasks,       \* PRE_BOOT_1 tasks that have not run: their tables
          table,       \* args_struct with used_args and args_aval
          registered,  \* history: every option added, in order
          i,           \* the argument native_handle_cmd_line looks at
          test_argc,
          args,        \* the values read last, by destination
          end_of_time, real_time_mode, clock_ratio, rtc_offset, reset_rtc,
          boot_time,   \* also last_radj_rtime
          is_a_tty

config == <<end_of_time, real_time_mode, clock_ratio, rtc_offset, reset_rtc, is_a_tty>>
options == <<argv, tasks, table, registered>>
vars == <<options, config, phase, exit_code, i, test_argc, args, boot_time>>

-----------------------------------------------------------------------------
(* The table of options. *)
Switch(name) == [name |-> name, manual |-> FALSE, is_switch |-> TRUE, dest |-> NONE]
Number(name, dest) ==
  [name |-> name, manual |-> FALSE, is_switch |-> FALSE, dest |-> dest]

TimerOptions ==
  << Switch("rt"), Switch("no-rt"), Number("rt-drift", "rt_drift"),
     Number("rt-ratio", "rt_ratio"), Number("rtc-offset", "rtc_offset"),
     Switch("rtc-reset"), Number("stop_at", "stop_at") >>

TraceOptions == << Switch("color"), Switch("no-color"), Switch("force-color") >>

TestargsOptions ==
  << [name |-> "testargs", manual |-> TRUE, is_switch |-> FALSE, dest |-> NONE] >>

Realloc(struct, size) ==
  [n \in 0 .. size - 1 |-> IF n \in DOMAIN struct THEN struct[n] ELSE JUNK]

(* memcpy of a list and its end marker; writing past the table adds to it. *)
CopyTo(struct, at, list) ==
  [n \in DOMAIN struct \cup at .. at + Len(list) |->
     IF n \notin at .. at + Len(list) THEN struct[n]
     ELSE IF n = at + Len(list) THEN END
     ELSE list[n - at + 1]]

AddOneChunk(t, list) ==
  LET size == IF t.used_args + Len(list) + 1 >= t.args_aval
              THEN t.args_aval + ChunkSize
              ELSE t.args_aval
  IN  [args_struct |-> CopyTo(Realloc(t.args_struct, size), t.used_args, list),
       args_aval |-> size,
       used_args |-> t.used_args + Len(list)]

AddAfterMarker(t, list) ==
  LET count == Len(list) + 1
      growby == IF count < ChunkSize THEN ChunkSize ELSE count
      size == IF t.used_args + count >= t.args_aval THEN t.args_aval + growby
              ELSE t.args_aval
  IN  [args_struct |-> CopyTo(Realloc(t.args_struct, size), t.used_args, list),
       args_aval |-> size,
       used_args |-> t.used_args + count]

(* native_add_command_line_opts *)
AddOpts(t, list) ==
  LET count == Len(list) + 1
      growby == IF count < ChunkSize THEN ChunkSize ELSE count
      size == IF t.used_args + count >= t.args_aval THEN t.args_aval + growby
              ELSE t.args_aval
  IN  [args_struct |-> CopyTo(Realloc(t.args_struct, size), t.used_args, list),
       args_aval |-> size,
       used_args |-> t.used_args + count - 1]

(* The entries a scan of the table visits: those before an end marker. *)
Scanned ==
  0 .. (CHOOSE n \in DOMAIN table.args_struct :
          /\ table.args_struct[n] = END
          /\ \A m \in 0 .. n - 1 : table.args_struct[m] # END) - 1

-----------------------------------------------------------------------------
Init ==
  /\ \E n \in 0 .. MaxArgs : argv \in [1 .. n -> Arguments]
  /\ phase = "registering"
  /\ exit_code = 0
  /\ tasks = {TimerOptions} \cup DriverTables
  /\ table = [args_struct |-> <<>>, used_args |-> 0, args_aval |-> 0]
  /\ registered = <<>>
  /\ i = 1
  /\ test_argc = 0
  /\ args = [d \in Dests |-> 0]
  /\ end_of_time = NEVER
  /\ real_time_mode = SlowDown
  /\ clock_ratio = 2
  /\ rtc_offset = 0
  /\ reset_rtc = FALSE
  /\ boot_time = 0
  /\ is_a_tty = [file \in 0 .. 1 |-> -1]

(* A PRE_BOOT_1 task: native_add_time_options, or the like of a driver. *)
RunTask(list) ==
  /\ phase = "registering"
  /\ tasks' = tasks \ {list}
  /\ table' = AddOpts(table, list)
  /\ registered' = registered \o list
  /\ UNCHANGED <<config, argv, phase, exit_code, i, test_argc, args, boot_time>>

(* cmd_args_set_defaults finds this destination. *)
HasStorage(dest) == \E n \in Scanned : table.args_struct[n].dest = dest

(* native_handle_cmd_line up to its loop: the two last tables, and the     *)
(* defaults; every destination is a double.                                *)
StartParsing ==
  /\ phase = "registering"
  /\ tasks = {}
  /\ phase' = "parsing"
  /\ table' = AddOpts(AddOpts(table, TraceOptions), TestargsOptions)
  /\ registered' = registered \o TraceOptions \o TestargsOptions
  /\ args' = [d \in Dests |-> IF HasStorage(d)' THEN NaN ELSE args[d]]
  /\ UNCHANGED <<config, argv, tasks, exit_code, i, test_argc, boot_time>>

-----------------------------------------------------------------------------
(* native_handle_cmd_line, argument by argument. *)
IsTestargs(arg) == arg.name = "testargs" /\ arg.value = NONE
IsHelpOption(arg) == arg.name \in HelpNames /\ arg.value = NONE

(* cmd_is_option finds the name: with any value at all, or none if it is a *)
(* switch.                                                                 *)
IsOption(arg, option) ==
  arg.name = option.name /\ (option.is_switch => arg.value = NONE)

(* The entry cmd_parse_one_arg stops at: the first that is not manual and  *)
(* matches.                                                                *)
Matching(arg) == {n \in Scanned : /\ ~table.args_struct[n].manual
                                  /\ IsOption(arg, table.args_struct[n])}
Matched(arg) ==
  LET matching == Matching(arg)
  IN  {table.args_struct[n] : n \in {n \in matching : \A m \in matching : n <= m}}

AtArgument == phase = "parsing" /\ i <= Len(argv)

(* posix_exit, which frees the table *)
PosixExit(code) ==
  /\ phase' = "exited"
  /\ exit_code' = code
  /\ table' = [table EXCEPT !.args_struct = <<>>]
  /\ UNCHANGED <<config, argv, tasks, registered, i, test_argc, boot_time>>

(* "-testargs" ends the loop; the rest is for the test. *)
TestargsFound ==
  /\ AtArgument
  /\ IsTestargs(argv[i])
  /\ test_argc' = Len(argv) - i
  /\ phase' = "parsed"
  /\ UNCHANGED <<options, config, exit_code, i, args, boot_time>>

ArgumentsEnd ==
  /\ phase = "parsing"
  /\ i > Len(argv)
  /\ phase' = "parsed"
  /\ UNCHANGED <<options, config, exit_code, i, test_argc, args, boot_time>>

HelpFound ==
  /\ AtArgument
  /\ IsHelpOption(argv[i])
  /\ PosixExit(0)
  /\ UNCHANGED args

(* print_invalid_opt_error *)
InvalidOption ==
  /\ AtArgument
  /\ ~IsTestargs(argv[i])
  /\ ~IsHelpOption(argv[i])
  /\ Matched(argv[i]) = {}
  /\ PosixExit(1)
  /\ UNCHANGED args

(* cmd_is_option: "we need a value to follow". *)
ValueMissing(option) ==
  /\ ~option.is_switch
  /\ argv[i].value \in {NONE, EMPTY}
  /\ PosixExit(1)
  /\ UNCHANGED args

(* cmd_read_option_value exits, having stored what strtod made of it. *)
ValueUnreadable(option) ==
  /\ option.dest # NONE
  /\ argv[i].value = TEXT
  /\ PosixExit(1)
  /\ args' = [args EXCEPT ![option.dest] = 0]

(* cmd_handle_this_matched_arg comes to the callback of this option. *)
Calls(option, name) ==
  /\ option.name = name
  /\ ~option.is_switch => argv[i].value \notin {NONE, EMPTY}
  /\ option.dest # NONE => argv[i].value # TEXT

ValueRead(dest) == args' = [args EXCEPT ![dest] = argv[i].value]

Advance == i' = i + 1

(* The callback returns, and the loop goes on. *)
NextArgument ==
  /\ Advance
  /\ UNCHANGED <<options, phase, exit_code, test_argc, boot_time>>

(* Comparisons of doubles: none holds of a NaN. *)
Above(x, y) == NaN \notin {x, y} /\ x > y

StopAllowed(stop_at) == ~Above(0, stop_at)
RatioOrZeroAllowed(ratio) == ~Above(0, ratio)
RatioAllowed(ratio) == ~(ratio = 0 \/ Above(0, ratio))
DriftAllowed(drift) == Above(drift, -2)

Microseconds(x) == IF x = NaN THEN Undefined ELSE {x * 500000}

CmdStopAtFound(option) ==
  /\ Calls(option, "stop_at")
  /\ StopAllowed(argv[i].value)
  /\ ValueRead("stop_at")
  /\ end_of_time' \in Microseconds(argv[i].value)
  /\ UNCHANGED <<real_time_mode, clock_ratio, rtc_offset, reset_rtc, is_a_tty>>
  /\ NextArgument

CmdRtRatioFound(option) ==
  /\ Calls(option, "rt-ratio")
  /\ RatioAllowed(argv[i].value)
  /\ ValueRead("rt_ratio")
  /\ clock_ratio' = argv[i].value
  /\ UNCHANGED <<end_of_time, real_time_mode, rtc_offset, reset_rtc, is_a_tty>>
  /\ NextArgument

RatioOfDrift(drift) == drift + 2

CmdRtDriftFound(option) ==
  /\ Calls(option, "rt-drift")
  /\ DriftAllowed(argv[i].value)
  /\ clock_ratio' = RatioOfDrift(argv[i].value)
  /\ args' = [args EXCEPT !["rt_drift"] = argv[i].value, !["rt_ratio"] = clock_ratio']
  /\ UNCHANGED <<end_of_time, real_time_mode, rtc_offset, reset_rtc, is_a_tty>>
  /\ NextArgument

CmdRtcoffsetFound(option) ==
  /\ Calls(option, "rtc-offset")
  /\ ValueRead("rtc_offset")
  /\ rtc_offset' \in Microseconds(argv[i].value)
  /\ UNCHANGED <<end_of_time, real_time_mode, clock_ratio, reset_rtc, is_a_tty>>
  /\ NextArgument

(* A callback exits: the value is out of range. *)
OutOfRange(option) ==
  /\ \/ /\ Calls(option, "stop_at")
        /\ ~StopAllowed(argv[i].value)
        /\ ValueRead("stop_at")
     \/ /\ Calls(option, "rt-ratio")
        /\ ~RatioAllowed(argv[i].value)
        /\ ValueRead("rt_ratio")
     \/ /\ Calls(option, "rt-drift")
        /\ ~DriftAllowed(argv[i].value)
        /\ ValueRead("rt_drift")
  /\ PosixExit(1)

(* cmd_realtime_found and cmd_no_realtime_found *)
SetRealTimeMode(option, name, new_rt) ==
  /\ Calls(option, name)
  /\ real_time_mode' = new_rt
  /\ UNCHANGED <<args, end_of_time, clock_ratio, rtc_offset, reset_rtc, is_a_tty>>
  /\ NextArgument

CmdRtcresetFound(option) ==
  /\ Calls(option, "rtc-reset")
  /\ reset_rtc' = TRUE
  /\ UNCHANGED <<args, end_of_time, real_time_mode, clock_ratio, rtc_offset, is_a_tty>>
  /\ NextArgument

(* trace_enable_color, trace_disable_color, trace_force_color *)
SetColor(option, name, tty) ==
  /\ Calls(option, name)
  /\ is_a_tty' = [file \in 0 .. 1 |-> tty]
  /\ UNCHANGED <<args, end_of_time, real_time_mode, clock_ratio, rtc_offset, reset_rtc>>
  /\ NextArgument

(* An option of another driver. *)
DriverOptionFound(option) ==
  /\ \E name \in DriverNames : Calls(option, name)
  /\ UNCHANGED <<args, config>>
  /\ NextArgument

-----------------------------------------------------------------------------
(* PRE_BOOT_2 *)
DecideAboutColor ==
  /\ phase = "parsed"
  /\ phase' = "decided"
  /\ is_a_tty' \in [0 .. 1 -> 0 .. 1]
  /\ \A file \in 0 .. 1 : is_a_tty[file] # -1 => is_a_tty'[file] = is_a_tty[file]
  /\ UNCHANGED <<options, exit_code, i, test_argc, args, end_of_time,
                 real_time_mode, clock_ratio, rtc_offset, reset_rtc, boot_time>>

RtcFromHost == IF reset_rtc THEN rtc_offset ELSE HostRealtime
RtcOnBoot == IF reset_rtc THEN rtc_offset ELSE rtc_offset + HostRealtime

(* hwm_init: hwtimer_init reads both clocks of the host; HwModels has the  *)
(* timers.                                                                 *)
HwmInit ==
  /\ phase = "decided"
  /\ phase' = "running"
  /\ boot_time' = IF real_time_mode THEN HostMonotonic ELSE boot_time
  /\ rtc_offset' = RtcOnBoot
  /\ UNCHANGED <<options, exit_code, i, test_argc, args, end_of_time,
                 real_time_mode, clock_ratio, reset_rtc, is_a_tty>>

(* cmd_parse_one_arg found the option. *)
HandleMatched(option) ==
  \/ ValueMissing(option)
  \/ ValueUnreadable(option)
  \/ OutOfRange(option)
  \/ CmdStopAtFound(option)
  \/ CmdRtRatioFound(option)
  \/ CmdRtDriftFound(option)
  \/ CmdRtcoffsetFound(option)
  \/ SetRealTimeMode(option, "rt", TRUE)
  \/ SetRealTimeMode(option, "no-rt", FALSE)
  \/ CmdRtcresetFound(option)
  \/ SetColor(option, "color", -1)
  \/ SetColor(option, "no-color", 0)
  \/ SetColor(option, "force-color", 1)
  \/ DriverOptionFound(option)

ParseArgument ==
  /\ AtArgument
  /\ ~IsTestargs(argv[i])
  /\ ~IsHelpOption(argv[i])
  /\ \E option \in Matched(argv[i]) : HandleMatched(option)

Next ==
  \/ \E list \in tasks : RunTask(list)
  \/ StartParsing
  \/ TestargsFound
  \/ HelpFound
  \/ InvalidOption
  \/ ParseArgument
  \/ ArgumentsEnd
  \/ DecideAboutColor
  \/ HwmInit

Spec == Init /\ [][Next]_vars

-----------------------------------------------------------------------------
(* native_add_command_line_opts has never written past the memory it has   *)
(* allocated for the table (cmdline.c:50-71).                              *)
TableInBounds ==
  phase # "exited" => DOMAIN table.args_struct = 0 .. table.args_aval - 1

(* Type correctness, the bounds of the table among it.                     *)
TypeOK ==
  /\ TableInBounds
  /\ argv \in Seq(Arguments)
  /\ phase \in {"registering", "parsing", "parsed", "decided", "running", "exited"}
  /\ exit_code \in {0, 1}
  /\ tasks \subseteq {TimerOptions} \cup DriverTables
  /\ table.used_args \in Nat
  /\ table.args_aval \in Nat
  /\ registered \in Seq(Option)
  /\ i \in 1 .. Len(argv) + 1
  /\ test_argc \in 0 .. Len(argv)
  /\ args \in [Dests -> Int \cup {NaN}]
  /\ end_of_time \in Int
  /\ real_time_mode \in BOOLEAN
  /\ clock_ratio \in Int \cup {NaN}
  /\ rtc_offset \in Int
  /\ reset_rtc \in BOOLEAN
  /\ boot_time \in {0, HostMonotonic}
  /\ is_a_tty \in [0 .. 1 -> -1 .. 1]

(* Whatever the order and sizes of the tables, every option added is in    *)
(* front of the first end marker, where cmd_parse_one_arg finds it         *)
(* (cmdline.c:70-77, cmdline_common.c:402).                                *)
OptionsReachable ==
  (registered # <<>> /\ phase # "exited") =>
    /\ Scanned = 0 .. Len(registered) - 1
    /\ \A n \in Scanned : table.args_struct[n] = registered[n + 1]

-----------------------------------------------------------------------------
(* What the arguments ask for, read off argv without the table.            *)
Stops == {n \in DOMAIN argv : IsTestargs(argv[n])}
Heeded == {n \in DOMAIN argv : \A m \in 1 .. n : m \notin Stops}

Given(names) == {n \in Heeded : argv[n].name \in names}
LastGiven(names) ==
  argv[CHOOSE n \in Given(names) : \A m \in Given(names) : m <= n]

(* An option of another driver, with a value if it takes one.              *)
AllowedByDriver(arg) ==
  \E option \in DriverOptions :
    /\ ~option.manual
    /\ option.name = arg.name
    /\ IF option.is_switch THEN arg.value = NONE ELSE arg.value \notin {NONE, EMPTY}

(* An argument that the program's messages allow: "stop-at must be         *)
(* positive", "The drift needs to be > -1", "The ratio needs to be > 0"   *)
(* (timer_model.c:423, 455, 467); none is about the offset of the RTC.     *)
Allowed(arg) ==
  \/ AllowedByDriver(arg)
  \/ /\ arg.value = NONE
     /\ arg.name \in {"rt", "no-rt", "rtc-reset", "color", "no-color", "force-color"}
  \/ arg.name = "rtc-offset" /\ arg.value = NaN
  \/ /\ arg.value \in Int
     /\ \/ arg.name = "rtc-offset"
        \/ arg.name = "stop_at" /\ arg.value >= 0
        \/ arg.name = "rt-ratio" /\ arg.value > 0
        \/ arg.name = "rt-drift" /\ arg.value > -2

(* A NaN is neither positive nor > 0, and yet what the code compares lets  *)
(* it pass: here the code does not do what its own messages say.           *)
SlipsThrough(arg) == arg.name \in {"stop_at", "rt-ratio"} /\ arg.value = NaN

Passes(arg) == Allowed(arg) \/ SlipsThrough(arg)

(* The hardware starts exactly when every argument before -testargs is     *)
(* allowed, or is one of the two NaNs that slip through; else the first    *)
(* one that is not decides how the process exits (cmdline.c:126-138).      *)
ExitsAsAsked ==
  /\ phase \in {"parsed", "decided", "running"} => \A n \in Heeded : Passes(argv[n])
  /\ phase = "exited" =>
       /\ i \in Heeded
       /\ ~Passes(argv[i])
       /\ \A n \in 1 .. i - 1 : Passes(argv[n])
       /\ exit_code = IF IsHelpOption(argv[i]) THEN 0 ELSE 1

(* "At boot offset the RTC clock by this amount of seconds" and "Start the *)
(* simulated real time clock at 0" (timer_model.c:527, 533), in whichever  *)
(* order the two are given: hwtimer_get_simu_rtc_time when time is 0.      *)
RtcAsAsked ==
  LET start == IF Given({"rtc-reset"}) = {} THEN HostRealtime ELSE 0 IN
  IF Given({"rtc-offset"}) = {} THEN rtc_offset = start
  ELSE rtc_offset - start \in Microseconds(LastGiven({"rtc-offset"}).value)

(* The last of several options that concern the same setting wins, and     *)
(* what follows -testargs configures nothing (timer_model.c:160-167,       *)
(* 419-471, tracing.c:71-103).                                             *)
ConfiguredAsAsked ==
  phase = "running" =>
    /\ LET asked == {"rt", "no-rt"} IN
       real_time_mode = IF Given(asked) = {} THEN SlowDown
                        ELSE LastGiven(asked).name = "rt"
    /\ boot_time = IF real_time_mode THEN HostMonotonic ELSE 0
    /\ LET asked == {"rt-ratio", "rt-drift"} IN
       clock_ratio = IF Given(asked) = {} THEN 2
                     ELSE IF LastGiven(asked).name = "rt-ratio" THEN LastGiven(asked).value
                     ELSE LastGiven(asked).value + 2
    /\ RtcAsAsked
    /\ IF Given({"stop_at"}) = {} THEN end_of_time = NEVER
       ELSE end_of_time \in Microseconds(LastGiven({"stop_at"}).value)
    /\ LET asked == {"color", "no-color", "force-color"} IN
       \A file \in 0 .. 1 :
         /\ is_a_tty[file] # -1
         /\ Given(asked) # {} =>
              /\ LastGiven(asked).name = "no-color" => is_a_tty[file] = 0
              /\ LastGiven(asked).name = "force-color" => is_a_tty[file] = 1
    /\ test_argc = Cardinality(DOMAIN argv \ Heeded)
                     - (IF Heeded = DOMAIN argv THEN 0 ELSE 1)

=============================================================================
