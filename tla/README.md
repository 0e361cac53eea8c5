# Verification of the mesh node firmware

TLA+ models of the program under `samples/mesh`: a Zephyr application for a
battery-backed node with a 4G (GSM) modem and a LoRa radio, together with the
`native_posix` board that the repository carries to run it, and its unit tests,
on a PC. TLC checks small instances; TLAPS proves the safety results that matter
most for every value of the constants. Paths below are relative to
`src/samples/mesh/`.

## 1. The system

| Part | State it keeps | Operations | Interacts with |
|---|---|---|---|
| Receive path of the GSM driver, `src/gsm_driver.c:21-58, 101-135` | `rx_buf[1280]`, the 8-bit `rx_buf_pos`, `uart_msgq` (20 messages), `tx_buf` | `gsm_driver_init`, `serial_cb` (interrupt), `read_msg_q` | the modem's bytes; readers of `uart_msgq` |
| Command path of the GSM driver, `src/gsm_driver.c:60-99, 142-161` | `my_sync_timer`, where in a call the thread is | `send_at_command`, `gsm_modem_init`, `get_signal_strength`, the console loop of `src/main.c:81-117` | the modem's command and data mode; `uart_msgq` |
| Node identifier, `src/node.c` | none | `generate_id`, `uuid_to_str`, `is_valid_uuid_v6` | used at boot |
| Node identity at boot, `src/sram_setup.c`, `src/main.c:51-72` | 16 bytes of backup SRAM, `n.id`, `uuid_str`, `n.status` | `sram_load`, `sram_store`, the decision in `main` | resets, the VBAT supply |
| LoRa driver, `src/lora_driver.c` | `config`, the radio's configuration, `lora_msgq` (20 packets) | `lora_driver_init/_send/_receive/_start_callback/_stop_callback`, `lora_callback_handler` | the radio, a reader of `lora_msgq` |
| Heartbeat, `src/heartbeat_handler.c` | `global_node`, `heartbeat_timer` | `start_heartbeat`, `heartbeat_handler`, `send_heartbeat` | `get_signal_strength`, both channels |
| Interrupt controller and handler, `boards/posix/native_posix/irq_ctrl.c`, `irq_handler.c` | `irq_status`, `irq_premask`, `irq_mask`, lock flags, priorities, the running priority; `irq_vector_table`, `may_swap`, `off_routine` | raise (from software and from hardware), enable, disable, clear, lock, `posix_irq_handler`, `posix_irq_offload` | kernel, hardware models, the wake-up timer |
| Simulated time, `hw_models_top.c`, `timer_model.c`, `hw_counter.c`, `cpu_wait.c` (same directory) | simulated time, three model timers, the cached next timer, the waits of software | the event loop, ticks, `hwtimer_wake_in_time`, the counter, `arch_busy_wait`, `posix_cpu_hold` | the interrupt controller |
| Command line and process start, `cmdline.c`, `cmdline_common.c`, `main.c`, the callbacks in `timer_model.c:412-546` and `tracing.c` (same directory) | the growing table of options, the values read, clock settings | registering options, parsing, callbacks, `posix_exit`, `hwtimer_init` | the clocks and the stop time of simulated time |
| RTC and real-time pace at run time, `native_rtc.c`, `timer_model.c:187-228, 309-410` (same directory) | `clock_ratio`, `rtc_offset`, host and simulated time of the last adjustment | `native_rtc_adjust_clock`, `native_rtc_offset`, `native_rtc_gettime_us`, the wait before each tick | the host's clock, signals, the event loop |
| Board support, `src/state_machine.c` (all commented out), `unit_test_prototype/`, `flash_cig.py` | - | - | - |

What is hard here, and which property answers it:

* **A byte-driven interrupt handler with a narrow index and a bounded queue.**
  No byte order, no overflow of the queue and no overlong line may make it write
  outside its buffer, glue lines together, or block.
* **A radio callback that purges a queue that somebody reads.** The purge must
  end, and may lose only old packets.
* **Resets in the middle of a write to memory that survives them.** A running
  node must have a valid identity, the one that is stored.
* **A modem whose mode depends on silence.** `AT+CSQ` is payload for the server
  unless the guard times were kept around `+++`.
* **A timer that interrupts the function that starts it.**
* **Interrupts that raise, enable, mask and unlock interrupts.** None may be
  forgotten, run in the wrong order, or leave a halted CPU asleep.
* **A cached minimum of timers** that software and hardware change, with waits
  of several contexts sharing one timer.
* **A handler's request to switch threads** kept in a static variable that nested
  handlers share, and **a routine handed to an interrupt** that may be locked out,
  disabled, or overtaken before it is served.
* **Two clocks tied by a ratio that changes while they run**, with truncation at
  every change and waits that a signal cuts short.
* **A table of options that grows while others register, and options that
  overrule each other** before the clocks start.

`PROJECT.json` lists the hazards with the line at which they bite.

## 2. Modules

| Module | What it is |
|---|---|
| `LineQueue` | abstract: characters, whole lines, a bounded FIFO queue, what may happen to an overlong line |
| `SerialRx` | receive path of the GSM driver; implements `LineQueue` |
| `SerialRxProofs` | its type correctness, its buffer invariant, the refinement, what a wrapping index loses |
| `SignalQuery`, `SignalQueryProofs` | command path of the GSM driver against an external modem |
| `NodeId` | identifiers as operators over bytes and digits |
| `IdentityRegister` | abstract: a register that is written once |
| `NodeIdentity`, `NodeIdentityProofs` | boot, with resets and loss of the battery; extends `NodeId`, implements `IdentityRegister`; the proofs also say what the validator accepts |
| `LoraDriver` | the LoRa driver and its reception callback |
| `Heartbeat` | `start_heartbeat` against its own timer |
| `LoraHeartbeatProofs` | the proofs of both |
| `CpuWakeUp` | abstract: what wakes a halted CPU, the part that `IrqCtrl` and `HwModels` have in common |
| `IrqCtrl` | interrupt controller and nested interrupt handling |
| `IrqOffload` | extends `IrqCtrl` by the table of handlers, the thread switch and `irq_offload`, and implements it |
| `IrqOffloadProofs` | the proofs of both |
| `TimedWaits` | abstract: contexts that sleep until a time, or for a time of their own |
| `HwModels`, `HwModelsProofs` | simulated time and the waits of software; implements `TimedWaits` |
| `RealTime`, `RealTimeProofs` | simulated time against the host's clock, and the RTC |
| `CommandLine`, `CommandLineProofs` | start of the process: option table, parsing, settings of the clocks |
| `MC*` | values of the constants for TLC |

Each module names its bounds among its constants. Definitions that stand between
the model and its properties with no line of their own in `PROJECT.json` (helper
operators such as `Plus`, history variables, and alternatives such as
`CopyDown` that the source does *not* do and that show that a property is able
to fail) are marked as such or named for what they do.

### SerialRx: `serial_cb`

`rdr` is the data register of the USART, which the interrupt empties; `in_isr`
keeps readers out while the interrupt runs, but bytes go on arriving.
`IsrTerminator`, `IsrStore` and `IsrIgnore` are the two branches of the loop and
the case that meets neither. The three terminators are one value. `line` is a
history variable: what has been read since the last terminator. The index wraps
at `PosRange` (256 in the code), which is smaller than `BufSize` (1280) in every
instance, as in the code.

`Limit` is the smaller of the two: a shorter line fits. `Offset` says which part
of a longer line the buffer holds: an index that wraps keeps the end, a buffer
that fills up keeps the start. So `BufferHoldsLine` and the refinement need no
assumption on what the modem sends: in `LineQueue` a line of `Limit` characters
or more may be lost or reach the reader as a part of itself (`EndOverlongLine`),
a shorter one is lost only when the queue is full (`EndLine`), and no line leaves
a trace on another.

### SignalQuery: talking to the modem

One thread walks through `send_at_command` (`tx`), inside `gsm_modem_init`, the
console loop, or `get_signal_strength` (`at`). In the present `main` the call of
`get_signal_strength` is commented out; the model lets it be made from the
console loop, where the commented code has it. A timer counts ticks, with the
second sleep of `gsm_modem_init` as a `tx` step of its own. The modem listens
for `+++` with silence on both sides, in data mode only. Received lines come
whole: `SerialRx` justifies that. `reported` is history: the strength that
the modem reported last, whether or not it found room in `uart_msgq`, and `dropped`
says that it did not.

### NodeId and NodeIdentity: who am I

`GeneratedId` computes the sixteen bytes with their shifts and truncations;
`UuidToStr` prints nibbles and dashes; `IsValidUuidV6` is the validator, dash
positions included. `NodeIdentity` follows `main`: `sram_load` copies before it
validates and leaves a pointer into its own frame (`n_str = "sram_load"`),
`sram_store` copies byte by byte with a reset possible between any two, its
result is ignored by `main`. That the copy runs upwards is an assumption about the C
library's `memcpy` (Zephyr's and newlib's do, a word or a byte at a time; the language
promises no order); the mutant that copies downwards shows what depends on it. The SRAM after a loss of VBAT is any value of
`PowerUpValues`, one of which looks like a valid id. `whole` is history: ids that came about in
one piece.

`IdentityRegister` says what this amounts to. Its register is the SRAM, empty
while the SRAM holds no valid id or a `memcpy` is under way; it is filled by the
last byte of a store, or by a reset that cuts a store short after the version
byte; from then on every node with a working SRAM shows that id, until VBAT
fails. A node whose SRAM does not work shows some id.

### LoraDriver

Calls of the application are single steps whose results may fail where the code
tests or ignores a result. The callback is a loop of steps (`CbPut`, `CbPurge`)
between which a reader may take a message. Packets are numbered. `lora_q` is
initialised by the code and never used; it is left out.

### Heartbeat

`start_heartbeat` is two steps, and the timer of an earlier call may expire
before, between or after them. The expiry takes the handler into
`get_signal_strength`; while it is there, in interrupt context, neither a thread nor
a further tick comes. Only in the build of the unit tests (`mocked`), whose mock in
`unit_test_prototype/src` returns the present strength, does it come out again and
send; the application's call has no way out of its loop (`gsm_driver.c:147`, run
`signal_query_returns`), so that its first heartbeat never ends and there is no
second. What Zephyr makes of a wait in interrupt context is not modelled. The
names of its specification carry the module's, because `LoraHeartbeatProofs`
extends it beside `LoraDriver`.

### IrqCtrl

Software runs while the CPU runs, hardware models while it is halted, as on the
board: `hwm_one_event` is executed by the simulator only when the CPU thread has
stopped. `running` is the stack of nested calls of `posix_irq_handler`, each
with the priority it will restore. `ConnectIrq` sets a priority from a thread,
while the interrupt is neither enabled nor pending, which is how the kernel uses
`IRQ_CONNECT`.

### IrqOffload

Every action is one of `IrqCtrl` with what it does to five more pieces of state,
or leaves `IrqCtrl`'s alone, so that all that holds of `IrqCtrl` holds here; the
run checks both at once. `posix_irq_offload` is three steps between which other
handlers run and threads switch: store the routine and enable its interrupt, raise
it, disable it. A handler may ready a thread (`ready`); the tail of the outermost
`posix_irq_handler` switches to it (`ReturnToThread`). The kernel is external, and
the model takes from it that a thread does not enable an interrupt before its
handler is declared, that a direct handler which readies a thread says so, that
handlers return with interrupts unlocked, and that one thread is inside
`irq_offload` at a time (Zephyr guards the call with a semaphore). That thread may
be switched away in the middle (`away`) and come back. `owed` is history, the routine
that is still to be called, and `lost` says that one was replaced before its call.

### HwModels

Time stands still while software runs. `OneEvent` is `hwm_one_event`: it jumps
to the cached next timer and lets its model react. Contexts are the threads and
interrupt handlers that wait; `Switch` lets another go on wherever interrupts
are unlocked. All sums are taken modulo `NEVER + 1`, as for a `uint64_t`, with
`NEVER` for `UINT64_MAX`. Waiting for the host's clock does not touch this state;
`RealTime` has it.

`TimedWaits` is what a context that waits sees of all this: it begins a wait for a
point of time (`arch_busy_wait`) or for an amount of its own time
(`posix_cpu_hold`), the CPU sleeps in it once or in several pieces, others run in
between, and it finishes when the wait is over. Time passes only in `Sleep`, which
never goes past the end of the sleeper's wait. `Wait` and `Left` map one to the
other; what the awake timer, the ticks, the counter, the lock and the event loop do
appears as `Sleep` or not at all.

`CpuWakeUp` is the part of the interrupt controller that `IrqCtrl` and `HwModels`
both model: the lock, the phony interrupt and the timer that wakes a halted CPU.

### RealTime

Of the event loop only this is kept: time goes from event to event, ticks are some
of them, software runs in between. `host` is the host's monotonic clock, which
goes on by itself (`HostAdvances`) and while a tick waits for it (`SlowDown`):
`nanosleep` may take longer than asked, or end early when a signal comes, after
which the loop exits instead of running the next event. Ratios are fractions;
what the code truncates to whole microseconds is truncated, the rounding of a
double is not modelled. `ideal` is history: the host time that belongs to the
present simulated time by all the ratios that were in force, an exact fraction in
lowest terms (`Reduced`), so that equal times are equal states. The clocks are read
by operators: `GettimeUs` is `native_rtc_gettime_us`, unsigned for every clock, and
the sum of `last_radj_stime` and `rtc_offset` in `PseudohostRtcTime` is unsigned too
(`% WORD`). Where the pseudo-host clock would be below 0 its conversion is undefined
in C; nothing is said of it there (`ClocksInRange`). The instance starts from the settings that
`CommandLine` ends with: real-time mode or not, a ratio, an offset.

### CommandLine

`posix_init`, in order: the `PRE_BOOT_1` tasks register their options in any order
(`RunTask`; tables of other drivers stand beside the clocks' own),
`native_handle_cmd_line` adds the last two tables and sets the defaults
(`StartParsing`), arguments are looked at one by one, `decide_about_color` runs,
and `hwtimer_init` reads both clocks of the host (`HwmInit`): the monotonic one, for
`boot_time`, and the time of day, for the RTC. `AddOpts` is
`native_add_command_line_opts` with its memory: a copy beyond the allocated
entries adds entries to the table, which `TableInBounds` would see. One argument
is one step: `TestargsFound`, `HelpFound`, `InvalidOption`, or the option found in
the table (`Matched`) with the way its handling ends: an exit (`ValueMissing`,
`ValueUnreadable`, `OutOfRange`) or its callback. Doubles are NaN or multiples of
one half; comparisons with NaN are false, and what a conversion of NaN to an
integer gives is any member of `Undefined`. The properties read what was asked
for off `argv` without the table. The timers that `hwm_init` sets are
`HwModels`' initial state, the event loop after it is `HwModels`. Assumed
of other drivers (`CommandLineAssumption`): their options have names of their own,
none of them one for help; an option that two tables have is the same in both;
and their values stay with them.

## 3. What is checked

| Run | Instance | Question and answer |
|---|---|---|
| `serial_rx` | index of 4, buffer of 6, queue of 2, lines of up to 9, 10 bytes, two characters | No write leaves the buffer and no message is empty or malformed (`TypeOK`), the buffer is a part of the line, all of it within the limit (`BufferHoldsLine`), the handler implements `LineQueue` (`RefinesLineQueue`), and a byte is taken even if the queue is full and nobody reads it (`ByteAlwaysTaken`). |
| `serial_rx_loss` | lines of up to 6 | **Violated**: a line is lost although the queue is empty (section 6). |
| `node_identity` | two uptimes, two random numbers, three SRAM contents | A running node has a valid id and prints it (`RunningNodeHasId`), and boot implements a register that is written once (`ImplementsRegister`): the id is the one in a working SRAM, through all resets; after a store that was cut short its bytes 0 to 6, the time and the version, are those of one id that came whole (`TornIdKeepsItsTime`; byte 7, which repeats bits of the time, and the random half may be others, and a `memcpy` that copies upwards is assumed). |
| `lora_driver` | queue of 3, 9 packets | Purging neither splits, duplicates nor reorders (`QueueIsRecent`), the newest packet gets in (`NewestSurvives`), the retry loop ends without a reader (`HandlerReturns`). |
| `signal_query` | two initial commands, 2 console lines of five kinds, 4 modem lines, queue of 2 | `AT+CSQ` goes out in command mode only (`QueryInCommandMode`), the strength parsed is the one the modem reported last, unless a full queue dropped that report (`StrengthIsLatest`), every command ends (`CommandEnds`). |
| `signal_query_returns` | one console line, two modem lines | **Violated**: the reading loop has no exit. |
| `heartbeat` | two nodes, strengths 9, 10 and 99, interval 3, three starts | The handler always has a node, wherever it interrupts (`HeartbeatTypeOK`), the node of the call that returned last (`HeartbeatOfStartedNode`), in the application and with the unit tests' mock. |
| `irq_ctrl` | `IrqOffload` with three interrupts, one of them for `irq_offload`, three priorities, two routines | Nothing is forgotten or invented (`PendingIsRaised`), no urgent interrupt waits for less urgent software (`NoUrgentIrqWaits`), handlers nest by priority (`NestedByPriority`), no wake-up is lost (`NoLostWakeUp`) and a CPU with work wakes (`PendingWakesCpu`); a routine handed to `irq_offload` is called at most once, and by the time the call returns or interrupts are unlocked (`OffloadedOnce`); it is not called at all only if the next `irq_offload` comes while interrupts are still locked and replaces it (`LostOnlyWhenLocked`); a thread made ready by any handler runs when the outermost one returns (`NoLostPreemption`). |
| `irq_ctrl_mask` | two interrupts | **Violated**: an interrupt disabled while pending is still taken. |
| `hw_models` | two contexts, waits of 1 and 3, ticks every 2, a counter of 3, stop at 3 or never, time up to 6 | The cached next timer is the earliest (`NextTimerIsEarliest`); no tick is lost or late (`TicksOnTime`); to software that waits all this amounts to `TimedWaits` (`ImplementsWaits`), so that nobody sleeps past the end of a wait (`NoOversleep`, which follows), and whoever sleeps in one is woken (`WaitIsWoken`); `posix_cpu_hold` spends exactly its time (`HoldIsExact`); nothing but the exit happens past the stop time (`TypeOK`). |
| `real_time` | ratios 1 and 2, corrections 3/2 and 1/2, RTC offsets 1 and 20, changed by -2 and 5, up to 3 adjustments, ticks every 2 or 3, time up to 7, host time up to 14, words of 1000 | No tick is earlier than all ratios so far ask for, but for a microsecond per adjustment and one more, and a late one is not delayed (`TicksPaced`); while no clock is before 0, the pseudo-host clock is ahead of the RTC by what simulated time lags behind the host times the ratio now in force, to less than a microsecond below and at most `adjustments` times the ratio above, however ratio and offset were adjusted before (`PseudohostAhead`); an adjustment of the ratio during a lag moves it to the lag at the new ratio (section 6). |
| `command_line` | every command line of up to three of 25 arguments, one more driver's table, chunks of 2 | The table is never overrun (`TypeOK`) and every option in it is found (`OptionsReachable`); the hardware starts exactly if all arguments are what the program's messages allow, or one of the two NaNs that slip through (`SlipsThrough`, section 6), else the first bad one decides the exit (`ExitsAsAsked`); of options that compete the last one wins and what follows `-testargs` does not count, and the RTC starts as asked (`ConfiguredAsAsked`). |

For every property of a passing run `PROJECT.json` names a mutant: a change a
plausible bug would make, with which the run violates it.

### Bounds

* *SerialRx.* Only the order `MaxLineLen`, `PosRange`, `BufSize` matters to the
  code: with 4 and 6 the index wraps before the buffer is full, as with 256 and
  1280; lines of 3 fit, of 4 wrap exactly to 0, of more wrap past it, of 8 wrap
  twice. Ten bytes are an overlong line between two short ones, or three lines
  that overflow a queue of 2. Two characters tell positions apart.
* *NodeIdentity.* The uptimes differ in the bytes that share the version nibble;
  boots, resets and losses of the supply are not bounded.
* *LoraDriver.* Nine packets fill and purge a queue of three twice, with any
  reading between.
* *SignalQuery.* A guard time of 2 covers the silence of 2 that the modem asks
  for, as 1000 ms does for the usual guard time of such modems; one line less or
  more fills the queue of 2 before or during the query.
* *Heartbeat.* Three starts: the first, one that replaces its node, one that
  replaces that; strengths below, at and above the limit, 99 for unknown.
* *IrqOffload.* Three interrupts with priorities that may tie, or nest three deep,
  around the one of `irq_offload`; a routine replaced by the next one needs two;
  there is no other bound.
* *RealTime.* Every ratio but the first two truncates some conversion; three
  adjustments come before, between and after ticks, with a host that is early
  (ticks wait) or late (they catch up). From the offset of 1 the unsigned sum goes
  below 0 and wraps, and the clock can be read before 0, where `PseudohostAhead` says
  nothing; from 20 neither happens. A word of 1000 is beyond all other values.
* *HwModels.* Time up to 6 lets ticks, counter and waits coincide in every
  combination (6 is a multiple of all periods). `NEVER = 20` is beyond every sum
  of reachable times, as `UINT64_MAX` is; an event at `NEVER` is not executed,
  because the bound on time excludes it: on the board the kernel has enabled the
  ticks by then, so that some timer is always set. The counter is started only
  once its period is set, as its comment demands.
* *CommandLine.* Two options compete for a setting and a third may come between
  or after; with chunks of 2 the table grows by a list's own length and by a
  chunk, where the board's chunk of 20 holds all of its own options at once.

`CHECK_DEADLOCK FALSE` stands where the model really may stop: when the modem
has sent its last byte or line (`SerialRx`, `SignalQuery`) and when the
simulation has exited or reached the bound on time (`HwModels`, `RealTime`); `CommandLine`
ends where the event loop begins.

### Fairness

* `SerialRx`: steps of `serial_cb`. An enabled interrupt preempts every thread.
  No fairness of a reader, nor of the modem.
* `LoraDriver`: the thread that runs the callback goes on with it. No fairness of
  a reader.
* `SignalQuery`: the thread runs when it can (it is the only one), time passes,
  and the modem answers what it was asked; typing is not fair.
* `IrqOffload`: a due wake-up timer is executed, a woken CPU runs; raising, locking
  and halting are not fair.
* `HwModels`: `boards/posix/native_posix/main.c:110-116` calls `hwm_one_event` for
  ever; software is free.

## 4. What is proved

All theorems hold for every value of the constants that satisfies the module's
named assumption, for an invariant that is proved inductive (initial states, every
step) and implies the properties.

* **SerialRx** (`SerialRxAssumption`: the terminator, the zero byte and the
  empty register are no characters; sizes are positive). `TypeCorrect`: `TypeOK`
  with `BufferIsText`, that what lies before the index are characters, is
  inductive. `LineInv` adds `BufferHoldsLine` and `FillsUp`, that a buffer no
  larger than the range of the index holds the whole line until it is full. `BufferCorrect` follows, and, because the
  zero byte put at the end is the first one, that `CString` reads that part back.
  `Refinement` maps `IsrTerminator` to `EndLine` or `EndOverlongLine`, `IsrStore`
  to `AddChar`, `ReadMsg` to `Take`, `IsrIgnore` to `AddChar`, `EndOverlongLine` or
  a stutter, and every other step to a stutter. There is no assumption on the
  length of lines.
  `LostExactly` counts what a wrapping index loses (section 6): by `WrapInv` the index is
  the length of the line modulo its range, so the reader gets the last
  `Len(line) % PosRange` characters of a line, and nothing of it if that is 0.
* **NodeId** (in `NodeIdentityProofs`). `ValidIffVersion6`: the validator accepts the printed form of
  sixteen bytes exactly if the high nibble of byte 6 is 6. `GeneratedIdIsValid`:
  every generated id passes.
* **NodeIdentity** (`IdentityAssumption`: uptimes, random numbers and SRAM
  contents are of their types; in particular *any* content). `IInv` adds to
  `TypeOK` what holds on the way: from `loaded` on, the verdict of `sram_load`
  agrees with what was copied (`LoadVerdict`); from `store` on the id is valid
  and printed (`ChosenId`); the SRAM equals the id in the bytes already copied,
  and is no id before the seventh of them (`CopyProgress`); at the end it holds
  the id (`IdInSram`). `Refinement` follows: only the last byte of a store or a
  reset after the seventh fills the register, and a store is reached with a
  working SRAM only if the register is empty. `IdsTimely`, that a valid id in the
  SRAM shares its first seven bytes, time and version, with one that came whole,
  gives `TornIdIsTimely`. It needs the upward `memcpy`; of byte 7 (`node.c:23`, time
  bits once more) and the random half nothing is said: they may come from another id.
* **LoraDriver** (`LoraAssumption`: the queue is not empty by construction).
  `IInv` joins `TypeOK`, `QueueIsRecent`, `NewestSurvives` and the fact that a
  callback under way has a packet. `QueueIsRecent` is stated with indices counted
  from the newest packet handled, so that putting, purging and taking each
  preserve it by arithmetic. `PacketsTakenInOrder`, an action property, follows: the
  packet at the head of the queue is newer than the last one taken.
* **Heartbeat** (`HeartbeatAssumption`: the null pointer is no node, the interval is
  positive; in `LoraHeartbeatProofs`). `NodeInv` adds to `HeartbeatTypeOK` that the
  remembered node is the one `start_heartbeat` is working on, without which the
  timer could start with no node, and, while no other call has begun, the one
  of the last call that returned: that is `HeartbeatIsOfStartedNode`.
* **CpuWakeUp** (in `IrqOffloadProofs` and in `HwModelsProofs`, as `WakesAsPromised`
  of each). Both modules implement it, which is what lets each leave the other's half
  out: they agree on what the lock, the phony interrupt and the timer do to a halted
  CPU. In `HwModels` a tick and a wait that end together set two interrupts in one
  event, the timer is one of the event loop's, set when it is not `NEVER`, and that it
  is never set to `NEVER` by accident is the bound on time. `PhonyIsServed` needs
  nothing but `CpuWakeUp`. No run checks the two refinements.
* **IrqCtrl** (`IrqAssumption`; in `IrqOffloadProofs`). `IInv` is the conjunction of the five
  invariants: `NoLostWakeUp` needs `NoUrgentIrqWaits` at the moment of halting,
  and popping the stack needs `NestedByPriority`.
* **IrqOffload** (`OffloadAssumption`). `ImplementsIrqCtrl`: every step is a step
  of `IrqCtrl` or leaves its variables alone, so `IrqCtrl`'s theorems carry over.
  `RoutineCalledOnce`, `RoutineLostOnlyWhenLocked` and `ReadyThreadRuns` rest on an invariant that ties the
  progress of `posix_irq_offload` to the interrupt's bits, and `may_swap` to
  `ready`: while a handler is entered a thread made ready has its request.
* **SignalQuery** (`QueryAssumption`: `ModemGuard <= GuardTicks`, that the second
  the driver waits covers the silence the modem asks for, without which
  `QueryInCommandMode` is false). `IInv` adds to `TypeOK` four conjuncts.
  `GuardInv`: while a guard time runs, what is left of it and the silence so far
  make up the modem's guard time. `EscapeInv`: an escape sequence is pending only
  until the silence is long enough. `CallInv` walks through
  `get_signal_strength`: after the second guard time the modem is in command mode,
  and stays there until `AT+CSQ` has gone out. `LatestInv` is what
  `StrengthIsLatest` is while the queue is not empty: the last strength in it is
  the last one reported, and if it holds none that one has been parsed; it is
  void from a report that a full queue dropped to the next one that is queued.
* **HwModels** (`HwAssumption`: no wait or period that starts within the bound on
  time reaches `NEVER`, so that sums do not wrap, as microseconds in a `uint64_t`
  do not). `TimersInv` says that both cached minima and the index are those of
  the timers, and that no timer is in the past. `TickInv`
  places the tick timer at the end of the period that is running, from which
  `TicksOnTime` follows by the uniqueness of quotients. `SleepInv` is what makes
  `NoOversleep` inductive: a CPU halted in a wait has the awake timer at the end of
  that wait or earlier, or it has just expired and the interrupt that wakes the CPU
  is the next event. It holds because a context brings the awake timer forward to
  the end of its wait before it halts, and because nobody is switched to while the
  CPU is halted. `HoldInv` says what
  is left of a `posix_cpu_hold`, also between being woken and taking off the time
  slept. `Refinement` maps `OneEvent` and `Stop` to `Sleep`, `BusyWaitHalt`,
  `CpuHoldHalt` and `Idle` to `FallAsleep`, the calls and returns of the two waits to
  `Begin` and `Finish`, and all else, the taking off of the time slept
  (`CpuHoldWoken`) too, to a stutter. `SleepInv` makes `Sleep` end in time, and
  `HoldInv` makes a hold that returns have nothing left.
* **RealTime** (`RealTimeAssumption`: ratios and corrections are positive
  fractions, and a word has some length). `PaceInv` bounds what truncation has cost: `Lost` is the
  exact host time of the present simulated time less what the code computes for
  it, and lies between 0 and one microsecond per adjustment, whatever the ratios.
  It is kept in integers, multiplied by the denominators, so that each step is an
  identity (`LostAtAdvance`, `LostAtAdjustment`) and one bound on a quotient. That
  a fraction in lowest terms equals the one it was made from (`ReducedIsEqual`)
  rests on there being a least denominator (`LeastNatural`, from the library's fact
  that `<` on the naturals is well-founded). `ExpectedAgainstIdeal` takes
  `TicksKeepPace` from there, an action property, and `ClocksApart`
  `ClocksStayTogether`, which holds while no clock is before 0 or beyond a word.
* **CommandLine** (`CommandLineAssumption`, as in section 2; the special values
  are no integers). `IInv` has four parts beside `TypeOK`. `TableInv`: the table holds
  what was registered, in order, with an end marker behind it inside the allocated
  memory; `AddOptsHolds`, that adding a list keeps this, is the arithmetic of the
  growth. `KnownInv`: what is registered, with what the tasks that have not run
  will register, are the board's and the drivers' options, none lost and none
  invented; it is why a name is matched exactly if the properties, which do not look
  at the table, know it, and why two options of one name are the same. `ArgvInv`: the
  arguments before the present one pass. `SettingsInv`: each setting is
  what the last argument that concerns it asked for. This argument is a *witness*:
  the invariant says that there is one, that none after it competes with it, and
  that the setting has its value, so that each argument read either keeps the witness
  or becomes it, and no induction over the command line is needed. At the end of
  the arguments the parts give `ExitsAsArgumentsAsk` and `ConfiguredAsArgumentsAsk`
  for command lines of every length. `ClocksStart` joins the module to `RealTime`:
  when the hardware starts, the settings are those of an initial state of `RealTime`,
  for all positive ratios and all offsets, with a host time of the last adjustment
  that goes with the mode. A ratio of NaN is excepted, which `-rt-ratio` lets pass
  (section 6).

Each inductive invariant `IInv` was checked by TLC on the instance of section 3
before it was proved. Where a lemma says what an operator of the model returns
(`AddOptsHolds`, `ReducedIsEqual`, `PlusExact`, `CStringIsPrefix`), the step proofs cite
it and do not open the operator.

### Only model-checked

Liveness (`ByteAlwaysTaken`, `HandlerReturns`, `CommandEnds`,
`PendingWakesCpu`, `WaitIsWoken`) is beyond this prover, and so is `ENABLED`.
Every safety property of a passing run has its theorem. No module declares a
recursive operator.

## 5. What is not modelled

* Formatting of the heartbeat's JSON and of the help text, logging, console
  editing, the delays of `main` (`src/main.c:56-57, 73-80`): no state that another
  part reads.
* Contents of LoRa packets, and so the copy of 255 bytes whatever the size.
* The blocking of `get_signal_strength` in interrupt context: Zephyr forbids it,
  and `signal_query_returns` shows that the call does not return anyway.
* Two threads in the GSM driver at a time: only `main` calls it.
* Tracing hooks of the interrupt handler, and `posix_irq_check_idle_exit`, which
  belongs to the kernel's power management.
* The rounding of doubles in clock ratios, and what a pseudo-host clock before
  time 0 reads: a negative offset beyond the time so far makes unsigned sums and
  results wrap, which is modelled, but the conversion of a negative `long double` to
  an unsigned integer is undefined.
* `native_rtc_gettime`, which splits what `native_rtc_gettime_us` returns into seconds
  and nanoseconds, but for the difference in section 6.

## 6. Disagreements between code and documentation

Shown by a run of their own:

* `serial_rx_loss`: `rx_buf_pos` is a `uint8_t` over 1280 bytes. The 256th
  character of a line takes it back to 0: a line of exactly 256 characters is
  ignored, the end of a longer one overwrites its start. The comment at
  `src/gsm_driver.c:119` allows loss only when the queue is full.
  `LostExactly` says for every length which part of the line is lost.
* `signal_query_returns`: `get_signal_strength` waits with `K_FOREVER` in a loop
  whose only exit is a failed wait.
* `irq_ctrl_mask`: disabling an interrupt leaves it pending in `irq_status`,
  which alone decides what is taken, contrary to the comment on `irq_mask`.

Seen while modelling, followed by the models, and without a run:
`posix_irq_offload`, "Run a function in interrupt context" (`irq_handler.c:288`), does
not run it at all when interrupts stay locked until the next call, which overwrites
`off_routine` (`lost`, `LostOnlyWhenLocked`);
a full `uart_msgq`, which nobody reads outside `read_msg_q` and the query, drops the
modem's answer to `AT+CSQ` itself (`src/gsm_driver.c:119-120`), and
`get_signal_strength` then parses an older strength from the queue as the answer, or
none (`StrengthIsLatest` excepts just this case);
`lora_driver_receive` returns on both paths before it copies the packet to the
caller's buffer (`src/lora_driver.c:88-98`), where `inc/lora_driver.h:67` says that
the data will be stored;
`gsm_driver_init` returns 0, which its header calls failure, on every path;
`lora_driver_init` ignores the result of `config_lora` and reports success;
`uart_msgq` holds 20 messages where its comment says 10; the heartbeat timer is
periodic (`src/heartbeat_handler.c:14`) where `inc/heartbeat_handler.h:25` says that
it "is started in one-shot mode", while in the application the first heartbeat is the
last in any case, stuck in `get_signal_strength` in interrupt context; `sizeof(gsm_init_commands) / 4` counts
the commands only where pointers have 4 bytes, as on the target; `-rt-ratio=nan`
passes the test behind "The ratio needs to be > 0" (`timer_model.c:466`), which a
NaN drift does not (`timer_model.c:454`), and `-stop_at=nan` passes the one behind
"stop-at must be positive" (`timer_model.c:422`): `Allowed` is what the messages say,
`SlipsThrough` names these two, and `ConfiguredAsAsked` shows that the NaN becomes the
ratio and decides the stop time;
`last_radj_rtime` is called the real time of the last adjustment
(`timer_model.c:115`, `timer_model.c:390`, `doc/index.rst:246`) and is the host time
that belongs to the simulated time of it, which differs when simulated time lags: by
the documented formula the pseudo-host clock would go on smoothly through an
adjustment, and in the code it jumps by the lag times the change of the ratio
(`PseudohostAhead` states the code's distance, at the ratio in force);
without real-time mode that
clock counts from the host's time 0 and not from the start, as
`hwtimer_init` leaves `last_radj_rtime` at 0; for an unknown clock
`native_rtc_gettime` returns the pseudo-host clock where `native_rtc_gettime_us`
exits; and where the unsigned sum behind the pseudo-host clock has wrapped (an offset
that was beyond the last adjustment), `native_rtc_gettime_us` wraps back to the right
value but `native_rtc_gettime` returns the seconds of the wrapped one.

## 7. Plan

Done, in this order: `LineQueue` and `SerialRx` with proofs; `NodeId` and
`NodeIdentity` with proofs; `LoraDriver` with proofs; `SignalQuery`;
`Heartbeat`; `IrqCtrl` with proofs; `HwModels`; `CommandLine` with proofs;
`IrqOffload` with proofs; `RealTime`; `IdentityRegister` and the proof that
`NodeIdentity` implements it; proofs of `HwModels`, `SignalQuery`, `RealTime` and
of what `CommandLine` says of exits and settings; `TimedWaits` and the proof that
`HwModels` implements it; `CpuWakeUp` and the proofs that `IrqCtrl` and `HwModels` do;
proofs of `Heartbeat`, and of the step from `CommandLine` to `RealTime`.

Next:

1. Composition of `SerialRx` and `SignalQuery` with one queue, so that the lines
   of the query arrive byte by byte.
2. Composition of `IrqOffload` and `HwModels` along `CpuWakeUp`: the priority of the
   context that waits, and its handlers, in simulated time.
3. From `CommandLine` to `HwModels`: the stop time, with what the conversion of a NaN,
   or of a time beyond `NEVER`, may make of it.
