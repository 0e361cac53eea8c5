-------------------------- MODULE CommandLineProofs --------------------------
(***************************************************************************)
(* For every set of option tables of other drivers, of any sizes and       *)
(* registered in any order, and for every command line:                    *)
(*   - the table that native_add_command_line_opts grows is never written  *)
(*     beyond its end and holds every option where the parser scans;       *)
(*   - the process exits, or the hardware starts, as the arguments ask;    *)
(*   - the clocks and the colours are set as the last option that concerns *)
(*     them asks, and RealTime can begin with them.                        *)
(***************************************************************************)
EXTENDS CommandLine, FiniteSetTheorems, WellFoundedInduction, TLAPS

-----------------------------------------------------------------------------
(* The table of options.                                                   *)

(* The table t holds the options reg, followed by an end marker.           *)
TableHolds(t, reg) ==
  /\ DOMAIN t = {"args_struct", "used_args", "args_aval"}
  /\ t.args_aval \in Nat
  /\ t.used_args = Len(reg)
  /\ Len(reg) <= t.args_aval
  /\ DOMAIN t.args_struct = 0 .. t.args_aval - 1
  /\ \A n \in 0 .. Len(reg) - 1 : t.args_struct[n] = reg[n + 1]
  /\ reg # <<>> => Len(reg) < t.args_aval /\ t.args_struct[Len(reg)] = END

(* The inductive invariant.                                                *)
TableInv ==
  /\ registered \in Seq(Option)
  /\ tasks \subseteq {TimerOptions} \cup DriverTables
  /\ phase # "exited" => TableHolds(table, registered)

LEMMA DriverTablesHoldOptions ==
  /\ DriverTables \subseteq Seq(Option)
  /\ DriverOptions \subseteq DriverOption
<1>1. DriverOption \subseteq Option
  BY DEF DriverOption, Option
<1>2. DriverTables \subseteq Seq(DriverOption)
  BY CommandLineAssumption DEF CommandLineAssumption
<1>3. DriverTables \subseteq Seq(Option)
  BY <1>1, <1>2
<1>4. DriverOptions \subseteq DriverOption
  BY <1>2 DEF DriverOptions
<1> QED BY <1>3, <1>4

LEMMA OwnTables ==
  /\ TimerOptions \in Seq(Option)
  /\ TraceOptions \in Seq(Option)
  /\ TestargsOptions \in Seq(Option)
<1>1. ASSUME NEW name \in Names
      PROVE  Switch(name) \in Option
  BY DEF Switch, Option
<1>2. ASSUME NEW name \in Names, NEW dest \in Dests
      PROVE  Number(name, dest) \in Option
  BY DEF Number, Option
<1>3. TimerOptions \in Seq(Option)
  <2>1. /\ Switch("rt") \in Option
        /\ Switch("no-rt") \in Option
        /\ Switch("rtc-reset") \in Option
    BY <1>1 DEF Names
  <2>2. /\ Number("rt-drift", "rt_drift") \in Option
        /\ Number("rt-ratio", "rt_ratio") \in Option
        /\ Number("rtc-offset", "rtc_offset") \in Option
        /\ Number("stop_at", "stop_at") \in Option
    BY <1>2 DEF Dests, Names
  <2> QED BY <2>1, <2>2 DEF TimerOptions
<1>4. TraceOptions \in Seq(Option)
  <2>1. /\ Switch("color") \in Option
        /\ Switch("no-color") \in Option
        /\ Switch("force-color") \in Option
    BY <1>1 DEF Names
  <2> QED BY <2>1 DEF TraceOptions
<1>5. TestargsOptions \in Seq(Option)
  <2>1. [name |-> "testargs", manual |-> TRUE, is_switch |-> FALSE, dest |-> NONE] \in Option
    BY DEF Option, Names
  <2> QED BY <2>1 DEF TestargsOptions
<1> QED BY <1>3, <1>4, <1>5

(* Adding a list keeps what the table held and fits the list behind it.    *)
LEMMA AddOptsHolds ==
  ASSUME NEW t, NEW reg \in Seq(Option), NEW list \in Seq(Option),
         TableHolds(t, reg)
  PROVE  TableHolds(AddOpts(t, list), reg \o list)
<1> DEFINE count == Len(list) + 1
           growby == IF count < ChunkSize THEN ChunkSize ELSE count
           size == IF t.used_args + count >= t.args_aval THEN t.args_aval + growby
                   ELSE t.args_aval
           used == t.used_args
           grown == Realloc(t.args_struct, size)
           written == CopyTo(grown, used, list)
<1>1. /\ Len(list) \in Nat /\ Len(reg) \in Nat /\ used = Len(reg)
      /\ t.args_aval \in Nat /\ used <= t.args_aval /\ ChunkSize \in Nat
  BY CommandLineAssumption DEF CommandLineAssumption, TableHolds
<1>2. size \in Nat /\ used + Len(list) < size
  BY <1>1
<1>3. /\ AddOpts(t, list).args_struct = written
      /\ AddOpts(t, list).args_aval = size
      /\ AddOpts(t, list).used_args = used + count - 1
      /\ DOMAIN AddOpts(t, list) = {"args_struct", "used_args", "args_aval"}
  BY DEF AddOpts
<1>4. /\ reg \o list \in Seq(Option)
      /\ Len(reg \o list) = Len(reg) + Len(list)
      /\ \A n \in 1 .. Len(reg) + Len(list) :
           (reg \o list)[n] = IF n <= Len(reg) THEN reg[n] ELSE list[n - Len(reg)]
  OBVIOUS
<1>5. /\ DOMAIN grown = 0 .. size - 1
      /\ \A n \in 0 .. used - 1 : grown[n] = t.args_struct[n]
  <2> HIDE DEF size
  <2>1. DOMAIN t.args_struct = 0 .. t.args_aval - 1
    BY DEF TableHolds
  <2> QED BY <1>1, <1>2, <2>1 DEF Realloc
<1>6. DOMAIN written = 0 .. size - 1
  <2> HIDE DEF size, grown
  <2> QED BY <1>1, <1>2, <1>5 DEF CopyTo
<1>7. \A n \in 0 .. used - 1 : written[n] = t.args_struct[n]
  <2> HIDE DEF size, grown
  <2> QED BY <1>1, <1>2, <1>5 DEF CopyTo
<1>8. /\ \A n \in used .. used + Len(list) - 1 : written[n] = list[n - used + 1]
      /\ written[used + Len(list)] = END
  <2> HIDE DEF size, grown
  <2> QED BY <1>1, <1>2, <1>5 DEF CopyTo
<1>9. \A n \in 0 .. Len(reg \o list) - 1 : written[n] = (reg \o list)[n + 1]
  <2> TAKE n \in 0 .. Len(reg \o list) - 1
  <2> HIDE DEF written
  <2>1. CASE n < Len(reg)
    <3>1. t.args_struct[n] = reg[n + 1]
      BY <1>1, <2>1 DEF TableHolds
    <3>2. (reg \o list)[n + 1] = reg[n + 1]
      BY <1>1, <1>4, <2>1
    <3>3. written[n] = t.args_struct[n]
      BY <1>1, <1>7, <2>1
    <3> QED BY <3>1, <3>2, <3>3
  <2>2. CASE n >= Len(reg)
    <3>1. written[n] = list[n - used + 1]
      BY <1>1, <1>4, <1>8, <2>2
    <3>2. (reg \o list)[n + 1] = list[n + 1 - Len(reg)]
      BY <1>1, <1>4, <2>2
    <3>3. n - used + 1 = n + 1 - Len(reg)
      BY <1>1, <1>4
    <3> QED BY <3>1, <3>2, <3>3
  <2> QED BY <1>1, <1>4, <2>1, <2>2
<1> HIDE DEF written, size
<1> QED BY <1>1, <1>2, <1>3, <1>4, <1>6, <1>8, <1>9 DEF TableHolds

LEMMA InitTable == Init => TableInv
<1>1. TableHolds([args_struct |-> <<>>, used_args |-> 0, args_aval |-> 0], <<>>)
  <2>1. DOMAIN <<>> = 0 .. 0 - 1
    OBVIOUS
  <2> QED BY <2>1 DEF TableHolds
<1> QED BY <1>1 DEF Init, TableInv

LEMMA StepTable == TableInv /\ [Next]_vars => TableInv'
<1> SUFFICES ASSUME TableInv, [Next]_vars
             PROVE  TableInv'
  OBVIOUS
<1>1. ASSUME NEW list \in tasks, RunTask(list)
      PROVE  TableInv'
  <2>1. list \in Seq(Option)
    BY OwnTables, DriverTablesHoldOptions DEF TableInv
  <2>2. TableHolds(AddOpts(table, list), registered \o list)
    BY <1>1, <2>1, AddOptsHolds DEF RunTask, TableInv
  <2>3. registered \o list \in Seq(Option)
    BY <2>1 DEF TableInv
  <2> QED BY <1>1, <2>2, <2>3 DEF RunTask, TableInv
<1>2. CASE StartParsing
  <2> DEFINE reg == registered \o TraceOptions
             tab == AddOpts(table, TraceOptions)
  <2>1. reg \in Seq(Option) /\ reg \o TestargsOptions \in Seq(Option)
    BY OwnTables DEF TableInv
  <2>2. TableHolds(tab, reg)
    BY <1>2, AddOptsHolds, OwnTables DEF StartParsing, TableInv
  <2>3. TableHolds(AddOpts(tab, TestargsOptions), reg \o TestargsOptions)
    <3> HIDE DEF tab, reg
    <3> QED BY <2>1, <2>2, AddOptsHolds, OwnTables
  <2>4. /\ table' = AddOpts(tab, TestargsOptions)
        /\ registered' = reg \o TestargsOptions
        /\ tasks' = tasks
    BY <1>2 DEF StartParsing
  <2> HIDE DEF tab, reg
  <2> QED BY <2>1, <2>3, <2>4 DEF TableInv
<1>3. ASSUME UNCHANGED <<tasks, registered>>,
             phase' = "exited"
      PROVE  TableInv'
  BY <1>3 DEF TableInv
<1>4. ASSUME UNCHANGED <<tasks, registered, table>>,
             phase # "exited" \/ phase' = phase
      PROVE  TableInv'
  BY <1>4 DEF TableInv
<1>5. CASE HelpFound \/ InvalidOption
  BY <1>3, <1>5 DEF HelpFound, InvalidOption, PosixExit
<1>6. CASE TestargsFound \/ ArgumentsEnd
  BY <1>4, <1>6 DEF TestargsFound, ArgumentsEnd, AtArgument, options
<1>7. CASE DecideAboutColor \/ HwmInit
  BY <1>4, <1>7 DEF DecideAboutColor, HwmInit, options
<1>8. ASSUME NEW option, HandleMatched(option)
      PROVE  TableInv'
  <2>1. CASE ValueMissing(option) \/ ValueUnreadable(option) \/ OutOfRange(option)
    BY <1>3, <2>1 DEF ValueMissing, ValueUnreadable, OutOfRange, PosixExit
  <2>2. ASSUME NextArgument
        PROVE  TableInv'
    BY <1>4, <2>2 DEF NextArgument, options
  <2>3. CASE \/ CmdStopAtFound(option) \/ CmdRtRatioFound(option)
             \/ CmdRtDriftFound(option) \/ CmdRtcoffsetFound(option)
             \/ CmdRtcresetFound(option) \/ DriverOptionFound(option)
    BY <2>2, <2>3 DEF CmdStopAtFound, CmdRtRatioFound, CmdRtDriftFound,
       CmdRtcoffsetFound, CmdRtcresetFound, DriverOptionFound
  <2>4. CASE \/ SetRealTimeMode(option, "rt", TRUE)
             \/ SetRealTimeMode(option, "no-rt", FALSE)
             \/ SetColor(option, "color", -1)
             \/ SetColor(option, "no-color", 0)
             \/ SetColor(option, "force-color", 1)
    BY <2>2, <2>4 DEF SetRealTimeMode, SetColor
  <2> QED BY <1>8, <2>1, <2>3, <2>4 DEF HandleMatched
<1>9. CASE ParseArgument
  BY <1>8, <1>9 DEF ParseArgument
<1>10. CASE UNCHANGED vars
  BY <1>4, <1>10 DEF vars, options
<1> QED BY <1>1, <1>2, <1>5, <1>6, <1>7, <1>9, <1>10 DEF Next

LEMMA Reachable == TableInv => OptionsReachable
<1> SUFFICES ASSUME TableInv, registered # <<>>, phase # "exited"
             PROVE  /\ Scanned = 0 .. Len(registered) - 1
                    /\ \A n \in Scanned : table.args_struct[n] = registered[n + 1]
  BY DEF OptionsReachable
<1> DEFINE end == Len(registered)
           IsEnd(n) == /\ table.args_struct[n] = END
                       /\ \A m \in 0 .. n - 1 : table.args_struct[m] # END
<1>1. /\ end \in Nat /\ end < table.args_aval /\ table.args_aval \in Nat
      /\ DOMAIN table.args_struct = 0 .. table.args_aval - 1
      /\ table.args_struct[end] = END
      /\ \A n \in 0 .. end - 1 : table.args_struct[n] = registered[n + 1]
  BY DEF TableInv, TableHolds
<1>2. \A n \in 0 .. end - 1 : registered[n + 1] \in Option
  BY <1>1 DEF TableInv
<1>3. \A n \in 0 .. end - 1 : table.args_struct[n] # END
  BY <1>1, <1>2, CommandLineAssumption DEF CommandLineAssumption
<1>4. end \in DOMAIN table.args_struct /\ IsEnd(end)
  BY <1>1, <1>3
<1>5. \A n \in DOMAIN table.args_struct : IsEnd(n) => n = end
  BY <1>1, <1>3
<1>6. (CHOOSE n \in DOMAIN table.args_struct : IsEnd(n)) = end
  <2> HIDE DEF IsEnd, end
  <2> QED BY <1>4, <1>5
<1>7. Scanned = 0 .. end - 1
  BY <1>6 DEF Scanned
<1> QED BY <1>1, <1>7


-----------------------------------------------------------------------------
(* The options the parser finds.                                           *)

OptionsOf(list) == {list[n] : n \in DOMAIN list}
ClockAndDrivers == OptionsOf(TimerOptions) \cup DriverOptions
AllOptions ==
  ClockAndDrivers \cup OptionsOf(TraceOptions) \cup OptionsOf(TestargsOptions)

(* No option is lost between its task and the parser, and none comes from  *)
(* elsewhere.                                                              *)
KnownInv ==
  /\ phase = "registering" =>
       OptionsOf(registered) \cup UNION {OptionsOf(list) : list \in tasks} = ClockAndDrivers
  /\ phase = "parsing" => OptionsOf(registered) = AllOptions

LEMMA OptionsOfBoth ==
  ASSUME NEW S, NEW list \in Seq(S), NEW other \in Seq(S)
  PROVE  OptionsOf(list \o other) = OptionsOf(list) \cup OptionsOf(other)
<1> DEFINE both == list \o other
<1>1. /\ both \in Seq(S)
      /\ DOMAIN both = 1 .. Len(list) + Len(other)
      /\ DOMAIN list = 1 .. Len(list) /\ Len(list) \in Nat
      /\ DOMAIN other = 1 .. Len(other) /\ Len(other) \in Nat
      /\ \A n \in 1 .. Len(list) + Len(other) :
           both[n] = IF n <= Len(list) THEN list[n] ELSE other[n - Len(list)]
  OBVIOUS
<1> HIDE DEF both
<1>2. ASSUME NEW n \in DOMAIN both
      PROVE  both[n] \in OptionsOf(list) \cup OptionsOf(other)
  <2>1. CASE n <= Len(list)
    BY <1>1, <2>1 DEF OptionsOf
  <2>2. CASE n > Len(list)
    <3>1. n - Len(list) \in DOMAIN other /\ both[n] = other[n - Len(list)]
      BY <1>1, <2>2
    <3> QED BY <3>1 DEF OptionsOf
  <2> QED BY <1>1, <2>1, <2>2
<1>3. ASSUME NEW n \in DOMAIN list
      PROVE  list[n] \in OptionsOf(both)
  <2>1. n \in DOMAIN both /\ both[n] = list[n]
    BY <1>1
  <2> QED BY <2>1 DEF OptionsOf
<1>4. ASSUME NEW n \in DOMAIN other
      PROVE  other[n] \in OptionsOf(both)
  <2>1. n + Len(list) \in DOMAIN both /\ both[n + Len(list)] = other[n]
    BY <1>1
  <2> QED BY <2>1 DEF OptionsOf
<1>5. OptionsOf(both) = OptionsOf(list) \cup OptionsOf(other)
  BY <1>2, <1>3, <1>4 DEF OptionsOf
<1> QED BY <1>5 DEF both

LEMMA InitKnown == Init => KnownInv
<1> SUFFICES ASSUME Init
             PROVE  KnownInv
  OBVIOUS
<1>1. OptionsOf(registered) = {}
  BY DEF Init, OptionsOf
<1>2. UNION {OptionsOf(list) : list \in tasks} = ClockAndDrivers
  BY DEF Init, OptionsOf, ClockAndDrivers, DriverOptions
<1> QED BY <1>1, <1>2 DEF Init, KnownInv

(* The two steps that add to the table.                                    *)
LEMMA RunTaskKnown ==
  ASSUME TableInv, KnownInv, NEW list \in tasks, RunTask(list)
  PROVE  KnownInv'
<1> DEFINE left(t) == UNION {OptionsOf(other) : other \in t}
<1>1. registered \in Seq(Option) /\ list \in Seq(Option)
  BY OwnTables, DriverTablesHoldOptions DEF TableInv
<1>2. OptionsOf(registered \o list) = OptionsOf(registered) \cup OptionsOf(list)
  BY <1>1, OptionsOfBoth
<1>3. left(tasks) = left(tasks \ {list}) \cup OptionsOf(list)
  OBVIOUS
<1>4. OptionsOf(registered) \cup left(tasks) = ClockAndDrivers
  BY DEF RunTask, KnownInv
<1>5. OptionsOf(registered \o list) \cup left(tasks \ {list}) = ClockAndDrivers
  BY <1>2, <1>3, <1>4
<1> QED BY <1>5 DEF RunTask, KnownInv

LEMMA StartParsingKnown ==
  ASSUME TableInv, KnownInv, StartParsing
  PROVE  KnownInv'
<1>1. /\ registered \in Seq(Option)
      /\ registered \o TraceOptions \in Seq(Option)
  BY OwnTables DEF TableInv
<1>2. OptionsOf(registered \o TraceOptions)
        = OptionsOf(registered) \cup OptionsOf(TraceOptions)
  BY <1>1, OptionsOfBoth, OwnTables
<1>3. OptionsOf((registered \o TraceOptions) \o TestargsOptions)
        = OptionsOf(registered \o TraceOptions) \cup OptionsOf(TestargsOptions)
  BY <1>1, OptionsOfBoth, OwnTables
<1>4. OptionsOf(registered) = ClockAndDrivers
  BY DEF StartParsing, KnownInv
<1> QED BY <1>2, <1>3, <1>4 DEF StartParsing, KnownInv, AllOptions

-----------------------------------------------------------------------------
LEMMA LeastNatural ==
  ASSUME NEW S \in SUBSET Nat, S # {}
  PROVE  \E n \in S : \A m \in S : n <= m
<1> DEFINE R == {pair \in Nat \X Nat : pair[1] < pair[2]}
<1>1. IsWellFoundedOn(R, Nat)
  BY NatLessThanWellFounded DEF OpToRel
<1>2. \A m, n \in Nat : m < n => <<m, n>> \in R
  OBVIOUS
<1> HIDE DEF R
<1>3. PICK n \in S : \A m \in S : <<m, n>> \notin R
  BY <1>1, WFMin
<1>4. \A m \in S : m \in Nat
  OBVIOUS
<1>5. \A m \in S : ~(m < n)
  BY <1>2, <1>3, <1>4
<1> QED BY <1>4, <1>5

(* cmd_parse_one_arg stops at an option that matches, and at none only     *)
(* when none does.                                                         *)
LEMMA MatchedOption ==
  ASSUME TableInv, KnownInv, phase = "parsing", NEW arg
  PROVE  /\ \A option \in Matched(arg) :
              option \in AllOptions /\ ~option.manual /\ IsOption(arg, option)
         /\ Matched(arg) = {} =>
              \A option \in AllOptions : option.manual \/ ~IsOption(arg, option)
<1>1. OptionsOf(registered) = AllOptions /\ registered \in Seq(Option)
  BY DEF KnownInv, TableInv
<1>2. registered # <<>>
  <2>1. TimerOptions[1] \in OptionsOf(TimerOptions)
    BY DEF TimerOptions, OptionsOf
  <2>2. TimerOptions[1] \in OptionsOf(registered)
    BY <1>1, <2>1 DEF AllOptions, ClockAndDrivers
  <2> QED BY <2>2 DEF OptionsOf
<1>3. /\ Scanned = 0 .. Len(registered) - 1
      /\ \A n \in Scanned : table.args_struct[n] = registered[n + 1]
  BY <1>2, Reachable DEF OptionsReachable
<1>4. \A n \in Scanned : table.args_struct[n] \in AllOptions
  <2>1. \A n \in Scanned : n + 1 \in DOMAIN registered
    BY <1>1, <1>3
  <2> QED BY <1>1, <1>3, <2>1 DEF OptionsOf
<1>5. \A option \in AllOptions : \E n \in Scanned : table.args_struct[n] = option
  <2> TAKE option \in AllOptions
  <2>1. PICK m \in DOMAIN registered : registered[m] = option
    BY <1>1 DEF OptionsOf
  <2>2. m - 1 \in Scanned /\ (m - 1) + 1 = m
    BY <1>1, <1>3
  <2> QED BY <1>3, <2>1, <2>2
<1>6. ASSUME NEW option \in Matched(arg)
      PROVE  option \in AllOptions /\ ~option.manual /\ IsOption(arg, option)
  <2>1. PICK n \in Matching(arg) : option = table.args_struct[n]
    BY DEF Matched
  <2> QED BY <1>4, <2>1 DEF Matching
<1>7. ASSUME Matched(arg) = {}, NEW option \in AllOptions,
             ~option.manual, IsOption(arg, option)
      PROVE  FALSE
  <2>1. PICK n \in Scanned : table.args_struct[n] = option
    BY <1>5
  <2>2. n \in Matching(arg)
    BY <1>7, <2>1 DEF Matching
  <2>3. Matching(arg) \in SUBSET Nat
    BY <1>1, <1>3 DEF Matching
  <2>4. PICK first \in Matching(arg) : \A m \in Matching(arg) : first <= m
    BY <2>2, <2>3, LeastNatural
  <2>5. table.args_struct[first] \in Matched(arg)
    BY <2>4 DEF Matched
  <2> QED BY <1>7, <2>5
<1> QED BY <1>6, <1>7

-----------------------------------------------------------------------------
(* Which arguments are allowed, by the option they match.                  *)

SwitchNames == {"rt", "no-rt", "rtc-reset", "color", "no-color", "force-color"}
NumberNames == {"stop_at", "rtc-offset", "rt-ratio", "rt-drift"}
Storage(name) == CASE name = "stop_at" -> "stop_at"
                   [] name = "rtc-offset" -> "rtc_offset"
                   [] name = "rt-ratio" -> "rt_ratio"
                   [] name = "rt-drift" -> "rt_drift"

LEMMA ListedOptions ==
  AllOptions = {Switch(name) : name \in SwitchNames}
                 \cup {Number(name, Storage(name)) : name \in NumberNames}
                 \cup OptionsOf(TestargsOptions) \cup DriverOptions
<1>1. OptionsOf(TimerOptions) =
        {Switch("rt"), Switch("no-rt"), Switch("rtc-reset"),
         Number("rt-drift", "rt_drift"), Number("rt-ratio", "rt_ratio"),
         Number("rtc-offset", "rtc_offset"), Number("stop_at", "stop_at")}
  <2>1. DOMAIN TimerOptions = {1, 2, 3, 4, 5, 6, 7}
    BY DEF TimerOptions
  <2>2. OptionsOf(TimerOptions) =
          {TimerOptions[1], TimerOptions[2], TimerOptions[3], TimerOptions[4],
           TimerOptions[5], TimerOptions[6], TimerOptions[7]}
    BY <2>1 DEF OptionsOf
  <2> QED BY <2>2 DEF TimerOptions
<1>2. OptionsOf(TraceOptions) = {Switch("color"), Switch("no-color"), Switch("force-color")}
  <2>1. DOMAIN TraceOptions = {1, 2, 3}
    BY DEF TraceOptions
  <2>2. OptionsOf(TraceOptions) = {TraceOptions[1], TraceOptions[2], TraceOptions[3]}
    BY <2>1 DEF OptionsOf
  <2> QED BY <2>2 DEF TraceOptions
<1>3. {Switch(name) : name \in SwitchNames} =
        {Switch("rt"), Switch("no-rt"), Switch("rtc-reset"),
         Switch("color"), Switch("no-color"), Switch("force-color")}
  BY DEF SwitchNames
<1>4. {Number(name, Storage(name)) : name \in NumberNames} =
        {Number("rt-drift", "rt_drift"), Number("rt-ratio", "rt_ratio"),
         Number("rtc-offset", "rtc_offset"), Number("stop_at", "stop_at")}
  <2>1. /\ Storage("stop_at") = "stop_at"
        /\ Storage("rtc-offset") = "rtc_offset"
        /\ Storage("rt-ratio") = "rt_ratio"
        /\ Storage("rt-drift") = "rt_drift"
    BY DEF Storage
  <2> QED BY <2>1 DEF NumberNames
<1> QED BY <1>1, <1>2, <1>3, <1>4 DEF AllOptions, ClockAndDrivers

(* The name of an option tells the rest of it.                             *)
LEMMA OptionByName ==
  ASSUME NEW option \in AllOptions
  PROVE  \/ /\ option.name \in SwitchNames
            /\ option = Switch(option.name)
         \/ /\ option.name \in NumberNames
            /\ option = Number(option.name, Storage(option.name))
         \/ /\ option.name = "testargs"
            /\ option.manual
         \/ /\ option.name \in DriverNames
            /\ option \in DriverOptions
            /\ option.dest = NONE
<1>1. CASE option \in {Switch(name) : name \in SwitchNames}
  BY <1>1 DEF Switch
<1>2. CASE option \in {Number(name, Storage(name)) : name \in NumberNames}
  BY <1>2 DEF Number
<1>3. CASE option \in OptionsOf(TestargsOptions)
  <2>1. DOMAIN TestargsOptions = {1} /\ TestargsOptions[1].name = "testargs"
          /\ TestargsOptions[1].manual
    BY DEF TestargsOptions
  <2> QED BY <1>3, <2>1 DEF OptionsOf
<1>4. CASE option \in DriverOptions
  BY <1>4, DriverTablesHoldOptions DEF DriverOption
<1> QED BY <1>1, <1>2, <1>3, <1>4, ListedOptions

LEMMA NamesApart ==
  /\ DriverNames \cap (SwitchNames \cup NumberNames \cup HelpNames \cup {"testargs"}) = {}
  /\ SwitchNames \cap (NumberNames \cup HelpNames \cup {"testargs"}) = {}
  /\ NumberNames \cap (HelpNames \cup {"testargs"}) = {}
<1>1. SwitchNames \cup NumberNames \cup {"testargs"} \subseteq Names
  BY DEF SwitchNames, NumberNames, Names
<1>2. DriverNames \cap (SwitchNames \cup NumberNames \cup HelpNames \cup {"testargs"}) = {}
  BY <1>1, CommandLineAssumption DEF CommandLineAssumption
<1>3. /\ SwitchNames \cap (NumberNames \cup HelpNames \cup {"testargs"}) = {}
      /\ NumberNames \cap (HelpNames \cup {"testargs"}) = {}
  BY DEF SwitchNames, NumberNames, HelpNames
<1> QED BY <1>2, <1>3

(* The value an argument must have, by its name.                           *)
NumberPasses(arg) ==
  \/ arg.name # "rt-drift" /\ arg.value = NaN
  \/ /\ arg.value \in Int
     /\ arg.name = "stop_at" => arg.value >= 0
     /\ arg.name = "rt-ratio" => arg.value > 0
     /\ arg.name = "rt-drift" => arg.value > -2

LEMMA PassesByName ==
  ASSUME NEW arg
  PROVE  /\ Passes(arg) => arg.name \in SwitchNames \cup NumberNames \cup DriverNames
         /\ arg.name \in SwitchNames => (Passes(arg) <=> arg.value = NONE)
         /\ arg.name \in NumberNames => (Passes(arg) <=> NumberPasses(arg))
         /\ arg.name \in DriverNames => (Passes(arg) <=> AllowedByDriver(arg))
<1>1. AllowedByDriver(arg) => arg.name \in DriverNames
  BY DriverTablesHoldOptions DEF AllowedByDriver, DriverOption
<1>2. Passes(arg) => \/ AllowedByDriver(arg)
                     \/ arg.name \in SwitchNames /\ arg.value = NONE
                     \/ arg.name \in NumberNames /\ NumberPasses(arg)
  <2>1. Allowed(arg) => \/ AllowedByDriver(arg)
                        \/ arg.name \in SwitchNames /\ arg.value = NONE
                        \/ arg.name \in NumberNames /\ NumberPasses(arg)
    BY DEF Allowed, SwitchNames, NumberNames, NumberPasses
  <2>2. SlipsThrough(arg) => arg.name \in NumberNames /\ NumberPasses(arg)
    BY DEF SlipsThrough, NumberNames, NumberPasses
  <2> QED BY <2>1, <2>2 DEF Passes
<1>3. /\ arg.name \in SwitchNames /\ arg.value = NONE => Passes(arg)
      /\ arg.name \in NumberNames /\ NumberPasses(arg) => Passes(arg)
      /\ AllowedByDriver(arg) => Passes(arg)
  <2>1. arg.name \in SwitchNames /\ arg.value = NONE => Allowed(arg)
    BY DEF Allowed, SwitchNames
  <2>2. arg.name \in NumberNames /\ NumberPasses(arg) => Allowed(arg) \/ SlipsThrough(arg)
    BY DEF Allowed, SlipsThrough, NumberNames, NumberPasses
  <2>3. AllowedByDriver(arg) => Allowed(arg)
    BY DEF Allowed
  <2> QED BY <2>1, <2>2, <2>3 DEF Passes
<1> QED BY <1>1, <1>2, <1>3, NamesApart

LEMMA PassesIsNoOther ==
  ASSUME NEW arg, Passes(arg)
  PROVE  ~IsTestargs(arg) /\ ~IsHelpOption(arg)
<1>1. arg.name \in SwitchNames \cup NumberNames \cup DriverNames
  BY PassesByName
<1> QED BY <1>1, NamesApart DEF IsTestargs, IsHelpOption

(* An allowed argument matches an option.                                  *)
LEMMA PassingMatches ==
  ASSUME NEW arg, Passes(arg)
  PROVE  \E option \in AllOptions : ~option.manual /\ IsOption(arg, option)
<1>1. CASE arg.name \in SwitchNames
  <2>1. Switch(arg.name) \in AllOptions
    BY <1>1, ListedOptions
  <2>2. arg.value = NONE
    BY <1>1, PassesByName
  <2> QED BY <2>1, <2>2 DEF Switch, IsOption
<1>2. CASE arg.name \in NumberNames
  <2>1. Number(arg.name, Storage(arg.name)) \in AllOptions
    BY <1>2, ListedOptions
  <2> QED BY <2>1 DEF Number, IsOption
<1>3. CASE arg.name \in DriverNames
  <2>1. AllowedByDriver(arg)
    BY <1>3, PassesByName
  <2>2. PICK option \in DriverOptions :
          /\ ~option.manual
          /\ option.name = arg.name
          /\ IF option.is_switch THEN arg.value = NONE ELSE arg.value \notin {NONE, EMPTY}
    BY <2>1 DEF AllowedByDriver
  <2> QED BY <2>2, ListedOptions DEF IsOption
<1> QED BY <1>1, <1>2, <1>3, PassesByName

(* When an argument has come to its option, whether it is allowed is a     *)
(* matter of its value.                                                    *)
LEMMA PassesByOption ==
  ASSUME NEW arg \in Arguments, NEW option \in AllOptions,
         ~option.manual, IsOption(arg, option)
  PROVE  /\ option.name = arg.name
         /\ option.name \in SwitchNames => Passes(arg) /\ option.dest = NONE /\ option.is_switch
         /\ option.name \in NumberNames =>
              /\ option.dest = Storage(option.name)
              /\ option.dest # NONE
              /\ ~option.is_switch
              /\ Passes(arg) <=> NumberPasses(arg)
         /\ option.name \in DriverNames =>
              /\ option.dest = NONE
              /\ Passes(arg) <=> (option.is_switch \/ arg.value \notin {NONE, EMPTY})
         /\ option.name \in SwitchNames \cup NumberNames \cup DriverNames
<1>1. option.name = arg.name /\ (option.is_switch => arg.value = NONE)
  BY DEF IsOption
<1>2. option.name \in SwitchNames \cup NumberNames \cup DriverNames
  BY OptionByName
<1>3. ASSUME option.name \in SwitchNames
      PROVE  Passes(arg) /\ option.dest = NONE /\ option.is_switch
  <2>1. option = Switch(option.name)
    BY <1>3, OptionByName, NamesApart
  <2>2. option.is_switch /\ option.dest = NONE
    BY <2>1 DEF Switch
  <2> QED BY <1>1, <1>3, <2>2, PassesByName
<1>4. ASSUME option.name \in NumberNames
      PROVE  /\ option.dest = Storage(option.name)
             /\ option.dest # NONE
             /\ ~option.is_switch
             /\ Passes(arg) <=> NumberPasses(arg)
  <2>1. option = Number(option.name, Storage(option.name))
    BY <1>4, OptionByName, NamesApart
  <2>2. ~option.is_switch /\ option.dest = Storage(option.name)
    BY <2>1 DEF Number
  <2>3. Storage(option.name) \in Dests
    BY <1>4 DEF Storage, NumberNames, Dests
  <2>4. option.dest # NONE
    BY <2>2, <2>3, CommandLineAssumption DEF CommandLineAssumption
  <2> QED BY <1>1, <1>4, <2>2, <2>4, PassesByName
<1>5. ASSUME option.name \in DriverNames
      PROVE  /\ option.dest = NONE
             /\ Passes(arg) <=> (option.is_switch \/ arg.value \notin {NONE, EMPTY})
  <2>1. option \in DriverOptions /\ option.dest = NONE
    BY <1>5, OptionByName, NamesApart
  <2>2. \A other \in DriverOptions : other.name = option.name => other = option
    BY <2>1, CommandLineAssumption DEF CommandLineAssumption
  <2>3. AllowedByDriver(arg) <=> (option.is_switch \/ arg.value \notin {NONE, EMPTY})
    BY <1>1, <2>1, <2>2 DEF AllowedByDriver
  <2> QED BY <1>1, <1>5, <2>1, <2>3, PassesByName
<1> QED BY <1>1, <1>2, <1>3, <1>4, <1>5

-----------------------------------------------------------------------------
(* The inductive invariant: what the arguments parsed so far have done.    *)

(* Every argument before the present one is allowed, and the present one   *)
(* is why the loop has ended.                                              *)
ArgvInv ==
  /\ \A n \in 1 .. i - 1 : Passes(argv[n])
  /\ phase \in {"registering", "parsing"} => test_argc = 0
  /\ phase \in {"parsed", "decided", "running"} =>
       IF i <= Len(argv) THEN IsTestargs(argv[i]) /\ test_argc = Len(argv) - i
       ELSE test_argc = 0
  /\ phase = "exited" =>
       /\ i <= Len(argv)
       /\ ~IsTestargs(argv[i])
       /\ ~Passes(argv[i])
       /\ exit_code = IF IsHelpOption(argv[i]) THEN 0 ELSE 1

RtNames == {"rt", "no-rt"}
RatioNames == {"rt-ratio", "rt-drift"}
ColorNames == {"color", "no-color", "force-color"}

(* Of the arguments before j, none has one of the names; k is the last.    *)
Unnamed(names, j) == \A n \in 1 .. j - 1 : argv[n].name \notin names
LastNamed(k, names, j) ==
  /\ k \in 1 .. j - 1
  /\ argv[k].name \in names
  /\ \A n \in k + 1 .. j - 1 : argv[n].name \notin names

RtInv ==
  \/ Unnamed(RtNames, i) /\ real_time_mode = SlowDown
  \/ \E k \in 1 .. i - 1 :
       LastNamed(k, RtNames, i) /\ real_time_mode = (argv[k].name = "rt")

RatioAsked(arg) == IF arg.name = "rt-ratio" THEN arg.value ELSE arg.value + 2
RatioInv ==
  \/ Unnamed(RatioNames, i) /\ clock_ratio = 2
  \/ \E k \in 1 .. i - 1 :
       LastNamed(k, RatioNames, i) /\ clock_ratio = RatioAsked(argv[k])

StopInv ==
  \/ Unnamed({"stop_at"}, i) /\ end_of_time = NEVER
  \/ \E k \in 1 .. i - 1 :
       LastNamed(k, {"stop_at"}, i) /\ end_of_time \in Microseconds(argv[k].value)

ResetInv == reset_rtc <=> ~Unnamed({"rtc-reset"}, i)

(* What -rtc-offset has set, before or after hwtimer_init adds the host's  *)
(* time.                                                                   *)
OffsetRead == IF phase = "running" /\ ~reset_rtc THEN rtc_offset - HostRealtime ELSE rtc_offset
OffsetInv ==
  \/ Unnamed({"rtc-offset"}, i) /\ OffsetRead = 0
  \/ \E k \in 1 .. i - 1 :
       LastNamed(k, {"rtc-offset"}, i) /\ OffsetRead \in Microseconds(argv[k].value)

ColorOf(name) == IF name = "no-color" THEN 0 ELSE IF name = "force-color" THEN 1 ELSE -1
ColorInv ==
  /\ \/ Unnamed(ColorNames, i)
     \/ \E k \in 1 .. i - 1 :
          /\ LastNamed(k, ColorNames, i)
          /\ \A file \in 0 .. 1 : ColorOf(argv[k].name) \in {-1, is_a_tty[file]}
  /\ phase \in {"decided", "running"} => \A file \in 0 .. 1 : is_a_tty[file] # -1

BootInv == boot_time = IF phase = "running" /\ real_time_mode THEN HostMonotonic ELSE 0

SettingsInv ==
  /\ RtInv
  /\ RatioInv
  /\ StopInv
  /\ ResetInv
  /\ OffsetInv
  /\ ColorInv
  /\ BootInv

IInv ==
  /\ TypeOK
  /\ TableInv
  /\ KnownInv
  /\ ArgvInv
  /\ SettingsInv

-----------------------------------------------------------------------------
(* What native_handle_cmd_line does with one argument, whatever its option *)
(* is: it refuses the argument and exits, ...                              *)
ArgumentRefused ==
  /\ phase = "parsing" /\ phase' = "exited"
  /\ i <= Len(argv)
  /\ ~IsTestargs(argv[i])
  /\ ~Passes(argv[i])
  /\ exit_code' = IF IsHelpOption(argv[i]) THEN 0 ELSE 1
  /\ table' = [table EXCEPT !.args_struct = <<>>]
  /\ args' \in [Dests -> Int \cup {NaN}]
  /\ UNCHANGED <<config, argv, tasks, registered, i, test_argc, boot_time>>

(* ... or its callback sets what the argument is about, and nothing else.  *)
ArgumentHeeded ==
  /\ phase = "parsing" /\ phase' = phase
  /\ i <= Len(argv) /\ i' = i + 1
  /\ Passes(argv[i])
  /\ args' \in [Dests -> Int \cup {NaN}]
  /\ real_time_mode' =
       IF argv[i].name \in RtNames THEN argv[i].name = "rt" ELSE real_time_mode
  /\ clock_ratio' =
       IF argv[i].name \in RatioNames THEN RatioAsked(argv[i]) ELSE clock_ratio
  /\ IF argv[i].name = "stop_at" THEN end_of_time' \in Microseconds(argv[i].value)
     ELSE end_of_time' = end_of_time
  /\ IF argv[i].name = "rtc-offset" THEN rtc_offset' \in Microseconds(argv[i].value)
     ELSE rtc_offset' = rtc_offset
  /\ reset_rtc' = (reset_rtc \/ argv[i].name = "rtc-reset")
  /\ is_a_tty' =
       IF argv[i].name \in ColorNames THEN [file \in 0 .. 1 |-> ColorOf(argv[i].name)]
       ELSE is_a_tty
  /\ UNCHANGED <<argv, tasks, table, registered, exit_code, test_argc, boot_time>>

LEMMA PresentArgument ==
  ASSUME TypeOK, i <= Len(argv)
  PROVE  argv[i] \in Arguments /\ argv[i].value \in Values
<1>1. argv \in Seq(Arguments) /\ i \in 1 .. Len(argv) + 1 /\ Len(argv) \in Nat
  BY DEF TypeOK
<1>2. argv[i] \in Arguments
  BY <1>1
<1> QED BY <1>2, CommandLineAssumption DEF CommandLineAssumption

(* A value that comes to the callback of a number is one.                  *)
LEMMA NumberRead ==
  ASSUME NEW value \in Values, value \notin {NONE, EMPTY, TEXT}
  PROVE  value \in Int \cup {NaN}
BY DEF Values

LEMMA ArgsStored ==
  ASSUME TypeOK, NEW dest \in Dests, NEW value \in Int \cup {NaN},
         args' = [args EXCEPT ![dest] = value]
  PROVE  args' \in [Dests -> Int \cup {NaN}]
BY DEF TypeOK

LEMMA HelpOrInvalid ==
  ASSUME TypeOK, TableInv, KnownInv, HelpFound \/ InvalidOption
  PROVE  ArgumentRefused
<1>1. args \in [Dests -> Int \cup {NaN}]
  BY DEF TypeOK
<1>2. CASE HelpFound
  <2>1. ~Passes(argv[i]) /\ ~IsTestargs(argv[i])
    <3>1. IsHelpOption(argv[i])
      BY <1>2 DEF HelpFound
    <3> QED BY <3>1, PassesIsNoOther DEF IsHelpOption, IsTestargs, HelpNames
  <2> QED BY <1>1, <1>2, <2>1 DEF HelpFound, AtArgument, PosixExit, ArgumentRefused
<1>3. CASE InvalidOption
  <2>1. phase = "parsing" /\ Matched(argv[i]) = {}
    BY <1>3 DEF InvalidOption, AtArgument
  <2>2. ~Passes(argv[i])
    BY <2>1, MatchedOption, PassingMatches
  <2> QED BY <1>1, <1>3, <2>2 DEF InvalidOption, AtArgument, PosixExit, ArgumentRefused
<1> QED BY <1>2, <1>3

LEMMA OptionRefuses ==
  ASSUME TypeOK, phase = "parsing", i <= Len(argv),
         ~IsTestargs(argv[i]), ~IsHelpOption(argv[i]),
         NEW option \in AllOptions, ~option.manual, IsOption(argv[i], option),
         ValueMissing(option) \/ ValueUnreadable(option) \/ OutOfRange(option)
  PROVE  ArgumentRefused
<1> DEFINE arg == argv[i]
<1>1. arg \in Arguments /\ arg.value \in Values
  BY PresentArgument
<1>2. /\ option.name = arg.name
      /\ option.name \in SwitchNames => Passes(arg) /\ option.dest = NONE /\ option.is_switch
      /\ option.name \in NumberNames =>
           /\ option.dest = Storage(option.name)
           /\ option.dest # NONE
           /\ ~option.is_switch
           /\ Passes(arg) <=> NumberPasses(arg)
      /\ option.name \in DriverNames =>
           /\ option.dest = NONE
           /\ Passes(arg) <=> (option.is_switch \/ arg.value \notin {NONE, EMPTY})
      /\ option.name \in SwitchNames \cup NumberNames \cup DriverNames
  BY <1>1, PassesByOption
<1>3. /\ {NaN, TEXT, EMPTY, NONE} \cap Int = {}
      /\ NaN \notin {TEXT, EMPTY, NONE} /\ TEXT \notin {EMPTY, NONE} /\ EMPTY # NONE
  BY CommandLineAssumption DEF CommandLineAssumption
<1> HIDE DEF arg
<1>4. CASE ValueMissing(option)
  <2>1. ~option.is_switch /\ arg.value \in {NONE, EMPTY}
    BY <1>4 DEF ValueMissing, arg
  <2>2. ~Passes(arg)
    BY <1>2, <1>3, <2>1 DEF NumberPasses
  <2>3. args' = args /\ PosixExit(1)
    BY <1>4 DEF ValueMissing
  <2> QED BY <2>2, <2>3 DEF PosixExit, ArgumentRefused, TypeOK, arg
<1>5. CASE ValueUnreadable(option)
  <2>1. option.dest # NONE /\ arg.value = TEXT
    BY <1>5 DEF ValueUnreadable, arg
  <2>2. option.name \in NumberNames
    BY <1>2, <2>1
  <2>3. ~Passes(arg)
    BY <1>2, <1>3, <2>1, <2>2 DEF NumberPasses
  <2>4. args' \in [Dests -> Int \cup {NaN}]
    <3>1. option.dest \in Dests
      BY <1>2, <2>2 DEF Storage, NumberNames, Dests
    <3>2. args' = [args EXCEPT ![option.dest] = 0] /\ 0 \in Int \cup {NaN}
      BY <1>5 DEF ValueUnreadable
    <3> QED BY <3>1, <3>2, ArgsStored
  <2>5. PosixExit(1)
    BY <1>5 DEF ValueUnreadable
  <2> QED BY <2>3, <2>4, <2>5 DEF PosixExit, ArgumentRefused, arg
<1>6. CASE OutOfRange(option)
  <2>1. /\ option.name \in {"stop_at", "rt-ratio", "rt-drift"}
        /\ ~option.is_switch => arg.value \notin {NONE, EMPTY}
        /\ option.dest # NONE => arg.value # TEXT
        /\ PosixExit(1)
    BY <1>6 DEF OutOfRange, Calls, arg
  <2>2. option.name \in NumberNames
    BY <2>1 DEF NumberNames
  <2>3. arg.value \in Int \cup {NaN}
    BY <1>1, <1>2, <2>1, <2>2, NumberRead
  <2>4. ~NumberPasses(arg)
    <3>1. CASE Calls(option, "stop_at") /\ ~StopAllowed(arg.value)
      BY <1>2, <1>3, <2>3, <3>1 DEF Calls, StopAllowed, Above, NumberPasses
    <3>2. CASE Calls(option, "rt-ratio") /\ ~RatioAllowed(arg.value)
      BY <1>2, <1>3, <2>3, <3>2 DEF Calls, RatioAllowed, Above, NumberPasses
    <3>3. CASE Calls(option, "rt-drift") /\ ~DriftAllowed(arg.value)
      BY <1>2, <1>3, <2>3, <3>3 DEF Calls, DriftAllowed, Above, NumberPasses
    <3> QED BY <1>6, <3>1, <3>2, <3>3 DEF OutOfRange, arg
  <2>5. args' \in [Dests -> Int \cup {NaN}]
    <3>1. {"stop_at", "rt_ratio", "rt_drift"} \subseteq Dests
      BY DEF Dests
    <3>2. \E dest \in Dests : args' = [args EXCEPT ![dest] = arg.value]
      BY <1>6, <3>1 DEF OutOfRange, ValueRead, arg
    <3> QED BY <2>3, <3>2, ArgsStored
  <2>6. ~Passes(arg)
    BY <1>2, <2>2, <2>4
  <2> QED BY <2>1, <2>5, <2>6 DEF PosixExit, ArgumentRefused, arg
<1> QED BY <1>4, <1>5, <1>6

LEMMA OptionHeeds ==
  ASSUME TypeOK, phase = "parsing", i <= Len(argv),
         NEW option \in AllOptions, ~option.manual, IsOption(argv[i], option),
         HandleMatched(option),
         ~(ValueMissing(option) \/ ValueUnreadable(option) \/ OutOfRange(option))
  PROVE  ArgumentHeeded
<1> DEFINE arg == argv[i]
<1>1. arg \in Arguments /\ arg.value \in Values
  BY PresentArgument
<1>2. /\ option.name = arg.name
      /\ option.name \in SwitchNames => Passes(arg) /\ option.dest = NONE /\ option.is_switch
      /\ option.name \in NumberNames =>
           /\ option.dest = Storage(option.name)
           /\ option.dest # NONE
           /\ ~option.is_switch
           /\ Passes(arg) <=> NumberPasses(arg)
      /\ option.name \in DriverNames =>
           /\ option.dest = NONE
           /\ Passes(arg) <=> (option.is_switch \/ arg.value \notin {NONE, EMPTY})
      /\ option.name \in SwitchNames \cup NumberNames \cup DriverNames
  BY <1>1, PassesByOption
<1>3. /\ {NaN, TEXT, EMPTY, NONE} \cap Int = {}
      /\ NaN \notin {TEXT, EMPTY, NONE} /\ TEXT \notin {EMPTY, NONE} /\ EMPTY # NONE
  BY CommandLineAssumption DEF CommandLineAssumption
<1> HIDE DEF arg
<1>4. ASSUME NEW name \in NumberNames, Calls(option, name)
      PROVE  arg.name = name /\ arg.value \in Int \cup {NaN}
  BY <1>1, <1>2, <1>4, NumberRead DEF Calls, arg
<1>5. args \in [Dests -> Int \cup {NaN}] /\ reset_rtc \in BOOLEAN
  BY DEF TypeOK
<1>6. ASSUME NextArgument
      PROVE  /\ phase' = phase /\ i' = i + 1
             /\ UNCHANGED <<argv, tasks, table, registered, exit_code, test_argc, boot_time>>
  BY <1>6 DEF NextArgument, Advance, options
<1>7. CASE CmdStopAtFound(option)
  <2>1. /\ arg.name = "stop_at" /\ arg.value \in Int \cup {NaN}
        /\ StopAllowed(arg.value)
        /\ args' = [args EXCEPT !["stop_at"] = arg.value]
        /\ end_of_time' \in Microseconds(arg.value)
        /\ NextArgument
        /\ UNCHANGED <<real_time_mode, clock_ratio, rtc_offset, reset_rtc, is_a_tty>>
    BY <1>4, <1>7 DEF CmdStopAtFound, ValueRead, NumberNames, arg
  <2>2. Passes(arg)
    <3>1. NumberPasses(arg)
      BY <1>3, <2>1 DEF StopAllowed, Above, NumberPasses
    <3> QED BY <1>2, <2>1, <3>1 DEF NumberNames
  <2>3. args' \in [Dests -> Int \cup {NaN}]
    BY <2>1, ArgsStored DEF Dests
  <2> QED BY <1>5, <1>6, <2>1, <2>2, <2>3
      DEF ArgumentHeeded, RtNames, RatioNames, ColorNames, arg
<1>8. CASE CmdRtRatioFound(option)
  <2>1. /\ arg.name = "rt-ratio" /\ arg.value \in Int \cup {NaN}
        /\ RatioAllowed(arg.value)
        /\ args' = [args EXCEPT !["rt_ratio"] = arg.value]
        /\ clock_ratio' = arg.value
        /\ NextArgument
        /\ UNCHANGED <<end_of_time, real_time_mode, rtc_offset, reset_rtc, is_a_tty>>
    BY <1>4, <1>8 DEF CmdRtRatioFound, ValueRead, NumberNames, arg
  <2>2. Passes(arg)
    BY <1>2, <1>3, <2>1 DEF RatioAllowed, Above, NumberPasses, NumberNames
  <2>3. args' \in [Dests -> Int \cup {NaN}]
    BY <2>1, ArgsStored DEF Dests
  <2>4. clock_ratio' = RatioAsked(arg)
    BY <2>1 DEF RatioAsked
  <2> QED BY <1>5, <1>6, <2>1, <2>2, <2>3, <2>4
      DEF ArgumentHeeded, RtNames, RatioNames, ColorNames, arg
<1>9. CASE CmdRtDriftFound(option)
  <2>1. /\ arg.name = "rt-drift" /\ arg.value \in Int \cup {NaN}
        /\ DriftAllowed(arg.value)
        /\ clock_ratio' = arg.value + 2
        /\ args' = [args EXCEPT !["rt_drift"] = arg.value, !["rt_ratio"] = clock_ratio']
        /\ NextArgument
        /\ UNCHANGED <<end_of_time, real_time_mode, rtc_offset, reset_rtc, is_a_tty>>
    BY <1>4, <1>9 DEF CmdRtDriftFound, RatioOfDrift, NumberNames, arg
  <2>2. arg.value \in Int /\ Passes(arg)
    BY <1>2, <1>3, <2>1 DEF DriftAllowed, Above, NumberPasses, NumberNames
  <2>3. args' \in [Dests -> Int \cup {NaN}]
    <3>1. clock_ratio' \in Int
      BY <2>1, <2>2
    <3> QED BY <1>5, <2>1, <3>1
  <2>4. clock_ratio' = RatioAsked(arg)
    BY <2>1 DEF RatioAsked
  <2> QED BY <1>5, <1>6, <2>1, <2>2, <2>3, <2>4
      DEF ArgumentHeeded, RtNames, RatioNames, ColorNames, arg
<1>10. CASE CmdRtcoffsetFound(option)
  <2>1. /\ arg.name = "rtc-offset" /\ arg.value \in Int \cup {NaN}
        /\ args' = [args EXCEPT !["rtc_offset"] = arg.value]
        /\ rtc_offset' \in Microseconds(arg.value)
        /\ NextArgument
        /\ UNCHANGED <<end_of_time, real_time_mode, clock_ratio, reset_rtc, is_a_tty>>
    BY <1>4, <1>10 DEF CmdRtcoffsetFound, ValueRead, NumberNames, arg
  <2>2. Passes(arg)
    BY <1>2, <1>3, <2>1 DEF NumberPasses, NumberNames
  <2>3. args' \in [Dests -> Int \cup {NaN}]
    BY <2>1, ArgsStored DEF Dests
  <2> QED BY <1>5, <1>6, <2>1, <2>2, <2>3
      DEF ArgumentHeeded, RtNames, RatioNames, ColorNames, arg
<1>11. ASSUME NEW name \in RtNames, NEW new_rt \in BOOLEAN, new_rt = (name = "rt"),
              SetRealTimeMode(option, name, new_rt)
       PROVE  ArgumentHeeded
  <2>1. /\ option.name = name /\ real_time_mode' = new_rt
        /\ NextArgument
        /\ UNCHANGED <<args, end_of_time, clock_ratio, rtc_offset, reset_rtc, is_a_tty>>
    BY <1>11 DEF SetRealTimeMode, Calls
  <2>2. arg.name = name /\ Passes(arg)
    BY <1>2, <2>1 DEF RtNames, SwitchNames
  <2> QED BY <1>5, <1>6, <1>11, <2>1, <2>2
      DEF ArgumentHeeded, RtNames, RatioNames, ColorNames, arg
<1>12. CASE CmdRtcresetFound(option)
  <2>1. /\ option.name = "rtc-reset" /\ reset_rtc' = TRUE
        /\ NextArgument
        /\ UNCHANGED <<args, end_of_time, real_time_mode, clock_ratio, rtc_offset, is_a_tty>>
    BY <1>12 DEF CmdRtcresetFound, Calls
  <2>2. arg.name = "rtc-reset" /\ Passes(arg)
    BY <1>2, <2>1 DEF SwitchNames
  <2> QED BY <1>5, <1>6, <2>1, <2>2
      DEF ArgumentHeeded, RtNames, RatioNames, ColorNames, arg
<1>13. ASSUME NEW name \in ColorNames, SetColor(option, name, ColorOf(name))
       PROVE  ArgumentHeeded
  <2>1. /\ option.name = name /\ is_a_tty' = [file \in 0 .. 1 |-> ColorOf(name)]
        /\ NextArgument
        /\ UNCHANGED <<args, end_of_time, real_time_mode, clock_ratio, rtc_offset, reset_rtc>>
    BY <1>13 DEF SetColor, Calls
  <2>2. arg.name = name /\ Passes(arg)
    BY <1>2, <2>1 DEF ColorNames, SwitchNames
  <2> QED BY <1>5, <1>6, <2>1, <2>2
      DEF ArgumentHeeded, RtNames, RatioNames, ColorNames, arg
<1>14. CASE DriverOptionFound(option)
  <2>1. /\ option.name \in DriverNames
        /\ ~option.is_switch => arg.value \notin {NONE, EMPTY}
        /\ UNCHANGED <<args, config>> /\ NextArgument
    BY <1>14 DEF DriverOptionFound, Calls, arg
  <2>2. arg.name \in DriverNames /\ Passes(arg)
    BY <1>2, <2>1
  <2>3. arg.name \notin SwitchNames \cup NumberNames
    BY <2>2, NamesApart
  <2>4. RtNames \cup RatioNames \cup ColorNames \cup {"stop_at", "rtc-offset", "rtc-reset"}
          \subseteq SwitchNames \cup NumberNames
    BY DEF RtNames, RatioNames, ColorNames, SwitchNames, NumberNames
  <2> QED BY <1>5, <1>6, <2>1, <2>2, <2>3, <2>4 DEF ArgumentHeeded, config, arg
<1>15. /\ SetRealTimeMode(option, "rt", TRUE) => ArgumentHeeded
       /\ SetRealTimeMode(option, "no-rt", FALSE) => ArgumentHeeded
  BY <1>11 DEF RtNames
<1>16. /\ SetColor(option, "color", -1) => ArgumentHeeded
       /\ SetColor(option, "no-color", 0) => ArgumentHeeded
       /\ SetColor(option, "force-color", 1) => ArgumentHeeded
  <2>1. ColorOf("color") = -1 /\ ColorOf("no-color") = 0 /\ ColorOf("force-color") = 1
    BY DEF ColorOf
  <2> QED BY <1>13, <2>1 DEF ColorNames
<1> QED BY <1>7, <1>8, <1>9, <1>10, <1>12, <1>14, <1>15, <1>16 DEF HandleMatched

(* Every argument is refused or heeded.                                    *)
LEMMA EveryArgument ==
  ASSUME TypeOK, TableInv, KnownInv, HelpFound \/ InvalidOption \/ ParseArgument
  PROVE  ArgumentRefused \/ ArgumentHeeded
<1>1. CASE HelpFound \/ InvalidOption
  BY <1>1, HelpOrInvalid
<1>2. CASE ParseArgument
  <2>1. /\ phase = "parsing" /\ i <= Len(argv)
        /\ ~IsTestargs(argv[i]) /\ ~IsHelpOption(argv[i])
    BY <1>2 DEF ParseArgument, AtArgument
  <2>2. PICK option \in Matched(argv[i]) : HandleMatched(option)
    BY <1>2 DEF ParseArgument
  <2>3. option \in AllOptions /\ ~option.manual /\ IsOption(argv[i], option)
    BY <2>1, MatchedOption
  <2>4. CASE ValueMissing(option) \/ ValueUnreadable(option) \/ OutOfRange(option)
    BY <2>1, <2>3, <2>4, OptionRefuses
  <2>5. CASE ~(ValueMissing(option) \/ ValueUnreadable(option) \/ OutOfRange(option))
    BY <2>1, <2>2, <2>3, <2>5, OptionHeeds
  <2> QED BY <2>4, <2>5
<1> QED BY <1>1, <1>2

-----------------------------------------------------------------------------
(* The invariant is inductive.                                             *)

LEMMA InitInv == Init => IInv
<1> SUFFICES ASSUME Init
             PROVE  IInv
  OBVIOUS
<1>1. TableInv /\ KnownInv
  BY InitTable, InitKnown
<1>2. PICK n \in 0 .. MaxArgs : argv \in [1 .. n -> Arguments]
  BY DEF Init
<1>3. argv \in Seq(Arguments) /\ Len(argv) \in Nat
  BY <1>2, CommandLineAssumption DEF CommandLineAssumption
<1>4. TypeOK
  <2>1. TableInBounds
    BY DEF Init, TableInBounds
  <2>2. args \in [Dests -> Int \cup {NaN}] /\ is_a_tty \in [0 .. 1 -> -1 .. 1]
    BY DEF Init
  <2>3. i \in 1 .. Len(argv) + 1 /\ test_argc \in 0 .. Len(argv)
    BY <1>3 DEF Init
  <2>4. /\ end_of_time \in Int /\ clock_ratio \in Int \cup {NaN} /\ rtc_offset \in Int
        /\ real_time_mode \in BOOLEAN /\ reset_rtc \in BOOLEAN
    <3>1. NEVER \in Int /\ SlowDown \in BOOLEAN
      BY CommandLineAssumption DEF CommandLineAssumption
    <3>2. real_time_mode = SlowDown /\ reset_rtc = FALSE
      BY DEF Init
    <3>3. end_of_time = NEVER /\ clock_ratio = 2 /\ rtc_offset = 0
      BY DEF Init
    <3>4. real_time_mode \in BOOLEAN /\ reset_rtc \in BOOLEAN
      BY <3>1, <3>2, Zenon
    <3>5. end_of_time \in Int /\ clock_ratio \in Int \cup {NaN} /\ rtc_offset \in Int
      BY <3>1, <3>3
    <3> QED BY <3>4, <3>5
  <2>5. /\ registered \in Seq(Option) /\ tasks \subseteq {TimerOptions} \cup DriverTables
        /\ table.used_args \in Nat /\ table.args_aval \in Nat
    BY DEF Init
  <2>6. /\ phase = "registering" /\ exit_code \in {0, 1} /\ boot_time \in {0, HostMonotonic}
    BY DEF Init
  <2> QED BY <1>3, <2>1, <2>2, <2>3, <2>4, <2>5, <2>6 DEF TypeOK
<1>5. ArgvInv
  BY DEF Init, ArgvInv
<1>6. SettingsInv
  <2>1. \A names : Unnamed(names, i)
    BY DEF Init, Unnamed
  <2>2. OffsetRead = 0
    BY DEF Init, OffsetRead
  <2> QED BY <2>1, <2>2 DEF Init, SettingsInv, RtInv, RatioInv, StopInv, ResetInv,
                            OffsetInv, ColorInv, BootInv
<1> QED BY <1>1, <1>4, <1>5, <1>6 DEF IInv

LEMMA StepKnown ==
  ASSUME TypeOK, TableInv, KnownInv, [Next]_vars
  PROVE  KnownInv'
<1>1. ASSUME UNCHANGED <<tasks, registered>>, phase' = phase
      PROVE  KnownInv'
  BY <1>1 DEF KnownInv
<1>2. ASSUME phase' \notin {"registering", "parsing"}
      PROVE  KnownInv'
  BY <1>2 DEF KnownInv
<1>3. ASSUME NEW list \in tasks, RunTask(list)
      PROVE  KnownInv'
  BY <1>3, RunTaskKnown
<1>4. CASE StartParsing
  BY <1>4, StartParsingKnown
<1>5. CASE TestargsFound \/ ArgumentsEnd \/ DecideAboutColor \/ HwmInit
  BY <1>2, <1>5 DEF TestargsFound, ArgumentsEnd, DecideAboutColor, HwmInit
<1>6. CASE HelpFound \/ InvalidOption \/ ParseArgument
  <2>1. CASE ArgumentRefused
    BY <1>2, <2>1 DEF ArgumentRefused
  <2>2. CASE ArgumentHeeded
    BY <1>1, <2>2 DEF ArgumentHeeded
  <2> QED BY <1>6, <2>1, <2>2, EveryArgument
<1>7. CASE UNCHANGED vars
  BY <1>1, <1>7 DEF vars, options
<1> QED BY <1>3, <1>4, <1>5, <1>6, <1>7 DEF Next

LEMMA MicrosecondsAreInt ==
  ASSUME NEW value \in Int \cup {NaN}
  PROVE  Microseconds(value) \subseteq Int
BY CommandLineAssumption DEF Microseconds, CommandLineAssumption

LEMMA NumberPassesIsRead ==
  ASSUME NEW arg, Passes(arg), arg.name \in NumberNames
  PROVE  /\ arg.value \in Int \cup {NaN}
         /\ arg.name = "rt-drift" => arg.value \in Int
BY PassesByName DEF NumberPasses

(* Once the table is full, what the types of the states of the parsing say *)
LEMMA HeededTypes ==
  ASSUME TypeOK, ArgumentHeeded, TableInv'
  PROVE  TypeOK'
<1>1. i' \in 1 .. Len(argv') + 1
  BY DEF TypeOK, ArgumentHeeded
<1>2. Passes(argv[i])
  BY DEF ArgumentHeeded
<1>3. clock_ratio' \in Int \cup {NaN}
  <2>1. CASE argv[i].name \in RatioNames
    <3>1. argv[i].name \in NumberNames
      BY <2>1 DEF RatioNames, NumberNames
    <3>2. RatioAsked(argv[i]) \in Int \cup {NaN}
      BY <1>2, <2>1, <3>1, NumberPassesIsRead DEF RatioAsked, RatioNames
    <3> QED BY <2>1, <3>2 DEF ArgumentHeeded
  <2>2. CASE argv[i].name \notin RatioNames
    BY <2>2 DEF ArgumentHeeded, TypeOK
  <2> QED BY <2>1, <2>2
<1>4. end_of_time' \in Int
  <2>1. CASE argv[i].name = "stop_at"
    BY <1>2, <2>1, NumberPassesIsRead, MicrosecondsAreInt DEF ArgumentHeeded, NumberNames
  <2>2. CASE argv[i].name # "stop_at"
    BY <2>2 DEF ArgumentHeeded, TypeOK
  <2> QED BY <2>1, <2>2
<1>5. rtc_offset' \in Int
  <2>1. CASE argv[i].name = "rtc-offset"
    BY <1>2, <2>1, NumberPassesIsRead, MicrosecondsAreInt DEF ArgumentHeeded, NumberNames
  <2>2. CASE argv[i].name # "rtc-offset"
    BY <2>2 DEF ArgumentHeeded, TypeOK
  <2> QED BY <2>1, <2>2
<1>6. real_time_mode' \in BOOLEAN /\ reset_rtc' \in BOOLEAN
  BY DEF ArgumentHeeded, TypeOK
<1>7. is_a_tty' \in [0 .. 1 -> -1 .. 1]
  <2>1. \A name : ColorOf(name) \in -1 .. 1
    BY DEF ColorOf
  <2> QED BY <2>1 DEF ArgumentHeeded, TypeOK
<1>8. TableInBounds'
  BY DEF TableInv, TableHolds, TableInBounds
<1> QED BY <1>1, <1>3, <1>4, <1>5, <1>6, <1>7, <1>8 DEF ArgumentHeeded, TypeOK

LEMMA StepTypes ==
  ASSUME TypeOK, TableInv, KnownInv, [Next]_vars, TableInv'
  PROVE  TypeOK'
<1>1. /\ TableInBounds'
      /\ registered' \in Seq(Option)
      /\ tasks' \subseteq {TimerOptions} \cup DriverTables
  BY DEF TableInv, TableHolds, TableInBounds
<1>2. phase' # "exited" => table'.used_args \in Nat /\ table'.args_aval \in Nat
  BY <1>1 DEF TableInv, TableHolds
<1>3. Len(argv) \in Nat
  BY DEF TypeOK
<1>4. ASSUME NEW list \in tasks, RunTask(list)
      PROVE  TypeOK'
  BY <1>1, <1>2, <1>4 DEF RunTask, config, TypeOK
<1>5. CASE StartParsing
  <2>1. args' \in [Dests -> Int \cup {NaN}]
    BY <1>5 DEF StartParsing, TypeOK
  <2>2. phase' = "parsing"
    BY <1>5 DEF StartParsing
  <2> QED BY <1>1, <1>2, <1>5, <2>1, <2>2 DEF StartParsing, config, TypeOK
<1>6. CASE TestargsFound
  <2>1. test_argc' \in 0 .. Len(argv)
    BY <1>3, <1>6 DEF TestargsFound, AtArgument, TypeOK
  <2> QED BY <1>1, <1>6, <2>1 DEF TestargsFound, config, options, TypeOK
<1>7. CASE ArgumentsEnd
  BY <1>1, <1>7 DEF ArgumentsEnd, config, options, TypeOK
<1>8. CASE ArgumentRefused
  <2>1. /\ DOMAIN table = {"args_struct", "used_args", "args_aval"}
        /\ table.used_args \in Nat /\ table.args_aval \in Nat
    BY <1>8 DEF ArgumentRefused, TableInv, TableHolds, TypeOK
  <2>2. table'.used_args \in Nat /\ table'.args_aval \in Nat
    BY <1>8, <2>1 DEF ArgumentRefused
  <2> QED BY <1>1, <1>8, <2>2 DEF ArgumentRefused, config, TypeOK
<1>9. CASE ArgumentHeeded
  BY <1>9, HeededTypes
<1>10. CASE DecideAboutColor
  BY <1>1, <1>10 DEF DecideAboutColor, options, TypeOK
<1>11. CASE HwmInit
  <2>1. rtc_offset' \in Int
    BY <1>11, CommandLineAssumption DEF HwmInit, RtcOnBoot, TypeOK, CommandLineAssumption
  <2> QED BY <1>1, <1>11, <2>1 DEF HwmInit, options, TypeOK
<1>12. CASE UNCHANGED vars
  BY <1>1, <1>12 DEF vars, options, config, TypeOK
<1> QED BY <1>4, <1>5, <1>6, <1>7, <1>8, <1>9, <1>10, <1>11, <1>12, EveryArgument DEF Next

LEMMA StepArgv ==
  ASSUME TypeOK, TableInv, KnownInv, ArgvInv, [Next]_vars
  PROVE  ArgvInv'
<1>1. i \in 1 .. Len(argv) + 1 /\ Len(argv) \in Nat
  BY DEF TypeOK
<1>2. ASSUME NEW list \in tasks, RunTask(list)
      PROVE  ArgvInv'
  BY <1>2 DEF RunTask, ArgvInv
<1>3. CASE StartParsing
  BY <1>3 DEF StartParsing, ArgvInv
<1>4. CASE TestargsFound
  BY <1>4 DEF TestargsFound, AtArgument, options, ArgvInv
<1>5. CASE ArgumentsEnd
  BY <1>1, <1>5 DEF ArgumentsEnd, options, ArgvInv
<1>6. CASE ArgumentRefused
  BY <1>6 DEF ArgumentRefused, ArgvInv
<1>7. CASE ArgumentHeeded
  <2>1. i' = i + 1 /\ argv' = argv /\ Passes(argv[i]) /\ phase = "parsing"
        /\ phase' = phase /\ test_argc' = test_argc
    BY <1>7 DEF ArgumentHeeded
  <2>2. \A n \in 1 .. i' - 1 : Passes(argv[n])
    BY <1>1, <2>1 DEF ArgvInv
  <2> QED BY <2>1, <2>2 DEF ArgvInv
<1>8. CASE DecideAboutColor \/ HwmInit
  BY <1>8 DEF DecideAboutColor, HwmInit, options, ArgvInv
<1>9. CASE UNCHANGED vars
  BY <1>9 DEF vars, options, ArgvInv
<1> QED BY <1>2, <1>3, <1>4, <1>5, <1>6, <1>7, <1>8, <1>9, EveryArgument DEF Next

-----------------------------------------------------------------------------
(* The last option that concerns a setting, argument by argument.          *)

LEMMA NamedNext ==
  ASSUME NEW names, i \in Nat \ {0}, i' = i + 1, argv' = argv
  PROVE  /\ argv[i].name \in names =>
              /\ ~Unnamed(names, i)'
              /\ \E k \in 1 .. i' - 1 : k = i /\ LastNamed(k, names, i)'
         /\ argv[i].name \notin names =>
              /\ Unnamed(names, i)' <=> Unnamed(names, i)
              /\ \A k \in 1 .. i - 1 :
                   k \in 1 .. i' - 1 /\ (LastNamed(k, names, i) => LastNamed(k, names, i)')
<1>1. \A n : n \in 1 .. i' - 1 <=> n \in 1 .. i - 1 \/ n = i
  OBVIOUS
<1>2. ASSUME argv[i].name \in names
      PROVE  /\ ~Unnamed(names, i)'
             /\ \E k \in 1 .. i' - 1 : k = i /\ LastNamed(k, names, i)'
  <2>1. ~Unnamed(names, i)' /\ i \in 1 .. i' - 1
    BY <1>1, <1>2 DEF Unnamed
  <2>2. i + 1 .. i' - 1 = {}
    OBVIOUS
  <2> QED BY <1>2, <2>1, <2>2 DEF LastNamed
<1>3. ASSUME argv[i].name \notin names
      PROVE  /\ Unnamed(names, i)' <=> Unnamed(names, i)
             /\ \A k \in 1 .. i - 1 :
                  k \in 1 .. i' - 1 /\ (LastNamed(k, names, i) => LastNamed(k, names, i)')
  <2>1. Unnamed(names, i)' <=> Unnamed(names, i)
    BY <1>1, <1>3 DEF Unnamed
  <2>2. ASSUME NEW k \in 1 .. i - 1, LastNamed(k, names, i)
        PROVE  LastNamed(k, names, i)'
    <3>1. \A n \in k + 1 .. i' - 1 : n \in k + 1 .. i - 1 \/ n = i
      OBVIOUS
    <3> QED BY <1>1, <1>3, <2>2, <3>1 DEF LastNamed
  <2> QED BY <1>1, <2>1, <2>2
<1> QED BY <1>2, <1>3

LEMMA HeededSettings ==
  ASSUME TypeOK, SettingsInv, ArgumentHeeded
  PROVE  SettingsInv'
<1>1. /\ i \in Nat \ {0} /\ i' = i + 1 /\ argv' = argv
      /\ phase = "parsing" /\ phase' = "parsing"
  BY DEF TypeOK, ArgumentHeeded
<1>2. RtInv'
  <2>1. CASE argv[i].name \in RtNames
    <3>1. PICK k \in 1 .. i' - 1 : k = i /\ LastNamed(k, RtNames, i)'
      BY <1>1, <2>1, NamedNext
    <3> QED BY <1>1, <2>1, <3>1 DEF RtInv, ArgumentHeeded
  <2>2. CASE argv[i].name \notin RtNames
    BY <1>1, <2>2, NamedNext DEF RtInv, ArgumentHeeded, SettingsInv
  <2> QED BY <2>1, <2>2
<1>3. RatioInv'
  <2>1. CASE argv[i].name \in RatioNames
    <3>1. PICK k \in 1 .. i' - 1 : k = i /\ LastNamed(k, RatioNames, i)'
      BY <1>1, <2>1, NamedNext
    <3>2. clock_ratio' = RatioAsked(argv'[k])
      BY <1>1, <2>1, <3>1 DEF ArgumentHeeded
    <3> QED BY <3>1, <3>2 DEF RatioInv
  <2>2. CASE argv[i].name \notin RatioNames
    <3>1. clock_ratio' = clock_ratio
      BY <2>2 DEF ArgumentHeeded
    <3> QED BY <1>1, <2>2, <3>1, NamedNext DEF RatioInv, SettingsInv
  <2> QED BY <2>1, <2>2
<1>4. StopInv'
  <2>1. CASE argv[i].name \in {"stop_at"}
    <3>1. PICK k \in 1 .. i' - 1 : k = i /\ LastNamed(k, {"stop_at"}, i)'
      BY <1>1, <2>1, NamedNext
    <3>2. end_of_time' \in Microseconds(argv'[k].value)
      BY <1>1, <2>1, <3>1 DEF ArgumentHeeded
    <3> QED BY <3>1, <3>2 DEF StopInv
  <2>2. CASE argv[i].name \notin {"stop_at"}
    <3>1. end_of_time' = end_of_time
      BY <2>2 DEF ArgumentHeeded
    <3> QED BY <1>1, <2>2, <3>1, NamedNext DEF StopInv, SettingsInv
  <2> QED BY <2>1, <2>2
<1>5. ResetInv'
  <2>1. reset_rtc' <=> (reset_rtc \/ argv[i].name \in {"rtc-reset"})
    BY DEF ArgumentHeeded, TypeOK
  <2>2. Unnamed({"rtc-reset"}, i)' <=>
          (Unnamed({"rtc-reset"}, i) /\ argv[i].name \notin {"rtc-reset"})
    BY <1>1 DEF Unnamed
  <2> QED BY <2>1, <2>2 DEF ResetInv, SettingsInv
<1>6. OffsetInv'
  <2>1. OffsetRead = rtc_offset /\ OffsetRead' = rtc_offset'
    BY <1>1 DEF OffsetRead
  <2>2. CASE argv[i].name \in {"rtc-offset"}
    <3>1. PICK k \in 1 .. i' - 1 : k = i /\ LastNamed(k, {"rtc-offset"}, i)'
      BY <1>1, <2>2, NamedNext
    <3>2. OffsetRead' \in Microseconds(argv'[k].value)
      BY <1>1, <2>1, <2>2, <3>1 DEF ArgumentHeeded
    <3> QED BY <3>1, <3>2 DEF OffsetInv
  <2>3. CASE argv[i].name \notin {"rtc-offset"}
    <3>1. OffsetRead' = OffsetRead
      BY <2>1, <2>3 DEF ArgumentHeeded
    <3> QED BY <1>1, <2>3, <3>1, NamedNext DEF OffsetInv, SettingsInv
  <2> QED BY <2>2, <2>3
<1>7. ColorInv'
  <2>1. CASE argv[i].name \in ColorNames
    <3>1. PICK k \in 1 .. i' - 1 : k = i /\ LastNamed(k, ColorNames, i)'
      BY <1>1, <2>1, NamedNext
    <3>2. \A file \in 0 .. 1 : ColorOf(argv'[k].name) \in {-1, is_a_tty'[file]}
      BY <1>1, <2>1, <3>1 DEF ArgumentHeeded
    <3> QED BY <1>1, <3>1, <3>2 DEF ColorInv
  <2>2. CASE argv[i].name \notin ColorNames
    <3>1. is_a_tty' = is_a_tty
      BY <2>2 DEF ArgumentHeeded
    <3> QED BY <1>1, <2>2, <3>1, NamedNext DEF ColorInv, SettingsInv
  <2> QED BY <2>1, <2>2
<1>8. BootInv'
  BY <1>1 DEF ArgumentHeeded, BootInv, SettingsInv
<1> QED BY <1>2, <1>3, <1>4, <1>5, <1>6, <1>7, <1>8 DEF SettingsInv

LEMMA StepSettings ==
  ASSUME TypeOK, TableInv, KnownInv, SettingsInv, [Next]_vars
  PROVE  SettingsInv'
<1>1. ASSUME UNCHANGED <<config, argv, i, boot_time>>,
             phase' # phase => phase # "running" /\ phase' \notin {"decided", "running"}
      PROVE  SettingsInv'
  <2>1. UNCHANGED <<end_of_time, real_time_mode, clock_ratio, rtc_offset, reset_rtc,
                    is_a_tty, argv, i, boot_time>>
    BY <1>1 DEF config
  <2>2. OffsetRead' = OffsetRead
    BY <1>1, <2>1 DEF OffsetRead
  <2>3. /\ RtInv' /\ RatioInv' /\ StopInv' /\ ResetInv' /\ OffsetInv'
    BY <2>1, <2>2 DEF SettingsInv, RtInv, RatioInv, StopInv, ResetInv, OffsetInv,
                      Unnamed, LastNamed
  <2>4. ColorInv' /\ BootInv'
    BY <1>1, <2>1 DEF SettingsInv, ColorInv, BootInv, Unnamed, LastNamed
  <2> QED BY <2>3, <2>4 DEF SettingsInv
<1>2. ASSUME NEW list \in tasks, RunTask(list)
      PROVE  SettingsInv'
  BY <1>1, <1>2 DEF RunTask
<1>3. CASE StartParsing
  BY <1>1, <1>3 DEF StartParsing
<1>4. CASE TestargsFound \/ ArgumentsEnd
  BY <1>1, <1>4 DEF TestargsFound, ArgumentsEnd, AtArgument, options
<1>5. CASE ArgumentRefused
  BY <1>1, <1>5 DEF ArgumentRefused
<1>6. CASE ArgumentHeeded
  BY <1>6, HeededSettings
<1>7. CASE DecideAboutColor
  <2>1. /\ phase = "parsed" /\ phase' = "decided"
        /\ UNCHANGED <<end_of_time, real_time_mode, clock_ratio, rtc_offset, reset_rtc,
                       argv, i, boot_time>>
    BY <1>7 DEF DecideAboutColor, options
  <2>2. OffsetRead' = OffsetRead
    BY <2>1 DEF OffsetRead
  <2>3. /\ RtInv' /\ RatioInv' /\ StopInv' /\ ResetInv' /\ OffsetInv' /\ BootInv'
    BY <2>1, <2>2 DEF SettingsInv, RtInv, RatioInv, StopInv, ResetInv, OffsetInv,
                      BootInv, Unnamed, LastNamed
  <2>4. \A file \in 0 .. 1 :
          /\ is_a_tty'[file] \in 0 .. 1
          /\ is_a_tty[file] # -1 => is_a_tty'[file] = is_a_tty[file]
    BY <1>7 DEF DecideAboutColor
  <2>5. ColorInv'
    <3>1. \A file \in 0 .. 1 : is_a_tty'[file] # -1
      BY <2>4
    <3>2. ASSUME NEW k \in 1 .. i - 1, LastNamed(k, ColorNames, i),
                 \A file \in 0 .. 1 : ColorOf(argv[k].name) \in {-1, is_a_tty[file]}
          PROVE  \A file \in 0 .. 1 : ColorOf(argv[k].name) \in {-1, is_a_tty'[file]}
      BY <2>4, <3>2
    <3> QED BY <2>1, <3>1, <3>2 DEF SettingsInv, ColorInv, Unnamed, LastNamed
  <2> QED BY <2>3, <2>5 DEF SettingsInv
<1>8. CASE HwmInit
  <2>1. /\ phase = "decided" /\ phase' = "running"
        /\ UNCHANGED <<end_of_time, real_time_mode, clock_ratio, reset_rtc, is_a_tty,
                       argv, i>>
        /\ boot_time' = IF real_time_mode THEN HostMonotonic ELSE boot_time
        /\ rtc_offset' = IF reset_rtc THEN rtc_offset ELSE rtc_offset + HostRealtime
    BY <1>8 DEF HwmInit, RtcOnBoot, options
  <2>2. OffsetRead' = OffsetRead
    BY <2>1, CommandLineAssumption DEF OffsetRead, TypeOK, CommandLineAssumption
  <2>3. /\ RtInv' /\ RatioInv' /\ StopInv' /\ ResetInv' /\ OffsetInv' /\ ColorInv'
    BY <2>1, <2>2 DEF SettingsInv, RtInv, RatioInv, StopInv, ResetInv, OffsetInv,
                      ColorInv, Unnamed, LastNamed
  <2>4. BootInv'
    BY <2>1 DEF SettingsInv, BootInv
  <2> QED BY <2>3, <2>4 DEF SettingsInv
<1>9. CASE UNCHANGED vars
  BY <1>1, <1>9 DEF vars, options
<1> QED BY <1>2, <1>3, <1>4, <1>5, <1>6, <1>7, <1>8, <1>9, EveryArgument DEF Next

THEOREM Invariant == Spec => []IInv
<1>1. IInv /\ [Next]_vars => IInv'
  <2> SUFFICES ASSUME IInv, [Next]_vars
               PROVE  IInv'
    OBVIOUS
  <2>1. TypeOK /\ TableInv /\ KnownInv /\ ArgvInv /\ SettingsInv
    BY DEF IInv
  <2>2. TableInv'
    BY <2>1, StepTable
  <2>3. TypeOK' /\ KnownInv' /\ ArgvInv' /\ SettingsInv'
    BY <2>1, <2>2, StepTypes, StepKnown, StepArgv, StepSettings
  <2> QED BY <2>2, <2>3 DEF IInv
<1> QED BY <1>1, InitInv, PTL DEF Spec

(* The type invariant, the bounds of the table in it: nothing is ever      *)
(* written beyond the memory of the table (native_add_command_line_opts),  *)
(* whatever tables the drivers register.                                   *)
THEOREM TypeCorrect == Spec => []TypeOK
<1>1. IInv => TypeOK
  BY DEF IInv
<1> QED BY <1>1, Invariant, PTL

(* Every option registered is found by the parser's scan, and nothing else *)
(* is (cmd_parse_one_arg, cmd_args_set_defaults).                          *)
THEOREM EveryOptionReachable == Spec => []OptionsReachable
<1>1. IInv => OptionsReachable
  BY Reachable DEF IInv
<1> QED BY <1>1, Invariant, PTL

-----------------------------------------------------------------------------
(* From the loop's index to what the command line asks for.                *)

LEMMA NoStopBefore ==
  ASSUME TypeOK, ArgvInv
  PROVE  \A n \in 1 .. i - 1 : n \in DOMAIN argv /\ n \notin Stops
<1>1. argv \in Seq(Arguments) /\ i \in 1 .. Len(argv) + 1
  BY DEF TypeOK
<1>2. \A n \in 1 .. i - 1 : Passes(argv[n])
  BY DEF ArgvInv
<1> QED BY <1>1, <1>2, PassesIsNoOther DEF Stops

LEMMA HeededWhenParsed ==
  ASSUME TypeOK, ArgvInv, phase \in {"parsed", "decided", "running"}
  PROVE  Heeded = 1 .. i - 1
<1>1. argv \in Seq(Arguments) /\ i \in 1 .. Len(argv) + 1 /\ Len(argv) \in Nat
        /\ DOMAIN argv = 1 .. Len(argv)
  BY DEF TypeOK
<1>2. 1 .. i - 1 \subseteq Heeded
  BY <1>1, NoStopBefore DEF Heeded
<1>3. i <= Len(argv) => i \in Stops
  BY <1>1 DEF ArgvInv, Stops
<1>4. Heeded \subseteq 1 .. i - 1
  BY <1>1, <1>3 DEF Heeded
<1> QED BY <1>2, <1>4

(* Whatever the command line, the hardware starts only if every argument   *)
(* before -testargs is allowed; otherwise the process exits at the first   *)
(* that is not, with 0 only when that one asks for help.                   *)
THEOREM ExitsAsArgumentsAsk == Spec => []ExitsAsAsked
<1>1. IInv => ExitsAsAsked
  <2> SUFFICES ASSUME TypeOK, ArgvInv
               PROVE  ExitsAsAsked
    BY DEF IInv
  <2>1. ASSUME phase \in {"parsed", "decided", "running"}
        PROVE  \A n \in Heeded : Passes(argv[n])
    BY <2>1, HeededWhenParsed DEF ArgvInv
  <2>2. ASSUME phase = "exited"
        PROVE  i \in Heeded
    <3>1. argv \in Seq(Arguments) /\ i \in 1 .. Len(argv) + 1
      BY DEF TypeOK
    <3>2. i \in DOMAIN argv /\ i \notin Stops
      BY <2>2, <3>1 DEF ArgvInv, Stops
    <3>3. \A n \in 1 .. i : n \notin Stops
      BY <3>1, <3>2, NoStopBefore
    <3> QED BY <3>2, <3>3 DEF Heeded
  <2> QED BY <2>1, <2>2 DEF ArgvInv, ExitsAsAsked
<1> QED BY <1>1, Invariant, PTL

LEMMA LastGivenIsLast ==
  ASSUME TypeOK, ArgvInv, phase \in {"parsed", "decided", "running"}, NEW names
  PROVE  /\ Unnamed(names, i) <=> Given(names) = {}
         /\ \A k \in 1 .. i - 1 : LastNamed(k, names, i) =>
              Given(names) # {} /\ LastGiven(names) = argv[k]
<1>1. Given(names) = {n \in 1 .. i - 1 : argv[n].name \in names}
  BY HeededWhenParsed DEF Given
<1>2. Unnamed(names, i) <=> Given(names) = {}
  BY <1>1 DEF Unnamed
<1>3. ASSUME NEW k \in 1 .. i - 1, LastNamed(k, names, i)
      PROVE  Given(names) # {} /\ LastGiven(names) = argv[k]
  <2>1. i \in Int
    BY DEF TypeOK
  <2>2. k \in Given(names) /\ \A m \in Given(names) : m <= k
    BY <1>1, <1>3, <2>1 DEF LastNamed
  <2>3. \A n \in Given(names) : (\A m \in Given(names) : m <= n) => n = k
    BY <1>1, <2>1, <2>2
  <2>4. (CHOOSE n \in Given(names) : \A m \in Given(names) : m <= n) = k
    BY <2>2, <2>3
  <2> QED BY <2>2, <2>4 DEF LastGiven
<1> QED BY <1>2, <1>3

LEMMA TestArguments ==
  ASSUME TypeOK, ArgvInv, phase \in {"parsed", "decided", "running"}
  PROVE  test_argc = Cardinality(DOMAIN argv \ Heeded)
                       - (IF Heeded = DOMAIN argv THEN 0 ELSE 1)
<1>1. i \in 1 .. Len(argv) + 1 /\ Len(argv) \in Nat /\ DOMAIN argv = 1 .. Len(argv)
  BY DEF TypeOK
<1>2. DOMAIN argv \ Heeded = i .. Len(argv)
  BY <1>1, HeededWhenParsed
<1>3. Cardinality(DOMAIN argv \ Heeded) = IF i > Len(argv) THEN 0 ELSE Len(argv) - i + 1
  <2>1. i \in Int /\ Len(argv) \in Int
    BY <1>1
  <2> QED BY <1>2, <2>1, FS_Interval
<1>4. CASE i <= Len(argv)
  <2>1. i \in DOMAIN argv /\ i \notin Heeded
    BY <1>1, <1>4, HeededWhenParsed
  <2>2. test_argc = Len(argv) - i
    BY <1>4 DEF ArgvInv
  <2>3. Cardinality(DOMAIN argv \ Heeded) = Len(argv) - i + 1
    BY <1>1, <1>3, <1>4
  <2>4. Heeded # DOMAIN argv
    BY <2>1
  <2> QED BY <1>1, <2>2, <2>3, <2>4
<1>5. CASE i > Len(argv)
  <2>1. Heeded = DOMAIN argv
    BY <1>1, <1>5, HeededWhenParsed
  <2>2. test_argc = 0
    BY <1>1, <1>5 DEF ArgvInv
  <2>3. Cardinality(DOMAIN argv \ Heeded) = 0
    BY <1>1, <1>3, <1>5
  <2> QED BY <2>1, <2>2, <2>3
<1> QED BY <1>1, <1>4, <1>5

(* Whatever the command line, the clocks, the stop time and the colours    *)
(* are when the hardware starts what the last option about each asks for.  *)
THEOREM ConfiguredAsArgumentsAsk == Spec => []ConfiguredAsAsked
<1>1. IInv => ConfiguredAsAsked
  <2> SUFFICES ASSUME TypeOK, ArgvInv, SettingsInv, phase = "running"
               PROVE  ConfiguredAsAsked
    BY DEF IInv, ConfiguredAsAsked
  <2>1. real_time_mode = IF Given(RtNames) = {} THEN SlowDown
                         ELSE LastGiven(RtNames).name = "rt"
    BY LastGivenIsLast DEF SettingsInv, RtInv
  <2>2. boot_time = IF real_time_mode THEN HostMonotonic ELSE 0
    BY DEF SettingsInv, BootInv
  <2>3. clock_ratio = IF Given(RatioNames) = {} THEN 2 ELSE RatioAsked(LastGiven(RatioNames))
    BY LastGivenIsLast DEF SettingsInv, RatioInv
  <2>4. RtcAsAsked
    <3>1. reset_rtc <=> Given({"rtc-reset"}) # {}
      BY LastGivenIsLast DEF SettingsInv, ResetInv
    <3>2. rtc_offset \in Int /\ HostRealtime \in Int
      BY CommandLineAssumption DEF TypeOK, CommandLineAssumption
    <3>3. OffsetRead = rtc_offset - (IF Given({"rtc-reset"}) = {} THEN HostRealtime ELSE 0)
      BY <3>1, <3>2 DEF OffsetRead
    <3>4. CASE Unnamed({"rtc-offset"}, i) /\ OffsetRead = 0
      <4>1. Given({"rtc-offset"}) = {}
        BY <3>4, LastGivenIsLast
      <4> QED BY <3>2, <3>3, <3>4, <4>1 DEF RtcAsAsked
    <3>5. ASSUME NEW k \in 1 .. i - 1, LastNamed(k, {"rtc-offset"}, i),
                 OffsetRead \in Microseconds(argv[k].value)
          PROVE  RtcAsAsked
      <4>1. Given({"rtc-offset"}) # {} /\ LastGiven({"rtc-offset"}) = argv[k]
        BY <3>5, LastGivenIsLast
      <4> QED BY <3>3, <3>5, <4>1 DEF RtcAsAsked
    <3> QED BY <3>4, <3>5 DEF SettingsInv, OffsetInv
  <2>5. IF Given({"stop_at"}) = {} THEN end_of_time = NEVER
        ELSE end_of_time \in Microseconds(LastGiven({"stop_at"}).value)
    BY LastGivenIsLast DEF SettingsInv, StopInv
  <2>6. ASSUME NEW file \in 0 .. 1
        PROVE  /\ is_a_tty[file] # -1
               /\ Given(ColorNames) # {} =>
                    /\ LastGiven(ColorNames).name = "no-color" => is_a_tty[file] = 0
                    /\ LastGiven(ColorNames).name = "force-color" => is_a_tty[file] = 1
    <3>1. is_a_tty[file] # -1
      BY DEF SettingsInv, ColorInv
    <3>2. ASSUME NEW k \in 1 .. i - 1, LastNamed(k, ColorNames, i),
                 ColorOf(argv[k].name) \in {-1, is_a_tty[file]}
          PROVE  /\ LastGiven(ColorNames).name = "no-color" => is_a_tty[file] = 0
                 /\ LastGiven(ColorNames).name = "force-color" => is_a_tty[file] = 1
      <4>1. LastGiven(ColorNames) = argv[k]
        BY <3>2, LastGivenIsLast
      <4> QED BY <3>2, <4>1 DEF ColorOf
    <3>3. Unnamed(ColorNames, i) => Given(ColorNames) = {}
      BY LastGivenIsLast
    <3> QED BY <3>1, <3>2, <3>3 DEF SettingsInv, ColorInv
  <2>7. test_argc = Cardinality(DOMAIN argv \ Heeded)
                      - (IF Heeded = DOMAIN argv THEN 0 ELSE 1)
    BY TestArguments
  <2> QED BY <2>1, <2>2, <2>3, <2>4, <2>5, <2>6, <2>7
      DEF ConfiguredAsAsked, RtNames, RatioNames, ColorNames, RatioAsked
<1> QED BY <1>1, Invariant, PTL

-----------------------------------------------------------------------------
(* RealTime begins where the command line ends.                            *)

(* What happens to the clocks at run time.                                 *)
CONSTANTS Corrections, OffsetDeltas, TickPeriods, WORD, MaxTime, MaxHost, MaxAdjustments

(* A ratio of n halves. *)
Halves(n) == <<n, 2>>
AllRatios == {Halves(n) : n \in Nat \ {0}}

Clocks == INSTANCE RealTime WITH
  Boot <- HostMonotonic, Ratios <- AllRatios, RtcOffsets <- Int,
  clock_ratio <- Halves(clock_ratio), last_radj_rtime <- boot_time, host <- HostMonotonic,
  ideal <- <<HostMonotonic, 1>>, simu_time <- 0, hw_timer_tick_timer <- 0, tick_p <- 0,
  last_radj_stime <- 0, signaled_end <- FALSE, exited <- FALSE, adjustments <- 0

LEMMA RatioIsPositive ==
  ASSUME TypeOK, ArgvInv, RatioInv, clock_ratio # NaN
  PROVE  clock_ratio \in Nat \ {0}
<1>1. CASE clock_ratio = 2
  BY <1>1
<1>2. ASSUME NEW k \in 1 .. i - 1, LastNamed(k, RatioNames, i),
             clock_ratio = RatioAsked(argv[k])
      PROVE  clock_ratio \in Nat \ {0}
  <2>1. Passes(argv[k]) /\ argv[k].name \in RatioNames
    BY <1>2 DEF ArgvInv, LastNamed
  <2>2. NumberPasses(argv[k])
    BY <2>1, PassesByName DEF RatioNames, NumberNames
  <2>3. CASE argv[k].name = "rt-ratio"
    BY <1>2, <2>2, <2>3 DEF RatioAsked, NumberPasses
  <2>4. CASE argv[k].name = "rt-drift"
    BY <1>2, <2>2, <2>4 DEF RatioAsked, NumberPasses
  <2> QED BY <2>1, <2>3, <2>4 DEF RatioNames
<1> QED BY <1>1, <1>2 DEF RatioInv

(* Whatever is asked for, unless it makes the ratio a NaN, the hardware    *)
(* starts in a state from which RealTime's theorems hold: with a positive  *)
(* ratio, and with a host time of the last adjustment that goes with the   *)
(* mode (hwtimer_init, timer_model.c:150-168, and the tests of             *)
(* cmd_rt_drift_found and cmd_rt_ratio_found, timer_model.c:452-471).      *)
THEOREM ClocksStart == Spec => [](phase = "running" /\ clock_ratio # NaN => Clocks!Init)
<1>1. ASSUME IInv, phase = "running", clock_ratio # NaN
      PROVE  Clocks!Init
  <2>1. Halves(clock_ratio) \in AllRatios
    BY <1>1, RatioIsPositive DEF IInv, SettingsInv, AllRatios
  <2>2. boot_time = IF real_time_mode THEN HostMonotonic ELSE 0
    BY <1>1 DEF IInv, SettingsInv, BootInv
  <2>3. real_time_mode \in BOOLEAN /\ rtc_offset \in Int
    BY <1>1 DEF IInv, TypeOK
  <2> QED BY <2>1, <2>2, <2>3 DEF Clocks!Init
<1> QED BY <1>1, Invariant, PTL
=============================================================================
