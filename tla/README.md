# Verification of the MSPM0G brushed DC motor driver

TLA+ models of the firmware under `src/`, the TLC runs that check them on small
instances, and TLAPS proofs of the safety properties for every value of the
parameters.  Paths below are relative to `src/`; `User/Application/Src/comm_task.c`
is written `comm_task.c` where that is unambiguous.

    tlc -config MCFrameQueue.cfg MCFrameQueue.tla      # a run; PROJECT.json lists them all
    tlapm FrameQueue_proofs.tla                        # a module's proofs

## 1. The system

A module that drives one brushed motor for a master, over CAN or UART.

| component | state it keeps | operations | hard part |
|---|---|---|---|
| UART receive queue (`abstract_queue.c`, `comm_task.c`) | `length`, `header_index`, `pointer_index`, slots | `Add` (interrupt), `Drop` (task, and `Add` when full) | both contexts read-modify-write the count and, on overflow, the same index, with no lock |
| Motor state machine (`motor_task.c`, `motor_runner.c`, `brushed_motor.c`, `bsp_time.c`) | `status`, `set_omega`, `is_running`, compare values, PID | `MotorTask_Run`: start, drive, brake, stop | two commanders; a latch of `status` against its change; compare values kept while stopped |
| Communication task (`comm_task.c`) | mode, counters, set mode, key setting | frames, feedback, keys, LED | everything meets here; busy-waits |
| Stored parameters (`motor_module_manager.c`, `at24cxx.c`, `bsp_mspm0g_i2c.c`, `crc_ref.c`) | record and CRC in EEPROM and in memory | `Read`, `Write` | byte-wise writes cut by power loss, failed transfers, a hung bus, retries |
| Offline detection (`detect_task.c`, `comm_task.c`) | `cnt`, two `is_online`, LED frequency | `Feed`, `Check`, callback, recovery | a CAN frame feeds in the middle of a check |
| PID (`pid.c`) | errors, `Iout`, `Output`, `first_flag` | `PIDCalculate`, `PIDClear` | limits, the first call after a clear |
| Key settings (`comm_key.c`, `key_manager.c`, `comm_task.c`) | debouncing, setting in progress, confirmation timer | `Touch`, `Scan`, `CommTask_KEY` | a setting replaced before it is confirmed |
| UART protocol and transmitter (`motor_uart_control.c`, `bsp_mspm0g_usart.c`, `comm_task.c`) | one transmit buffer, one DMA | `Encode`, `TransmitDMA` | the buffer is encoded anew while DMA sends it |
| CAN receiver (`bsp_can.c`, `motor_can_control.c`) | receive FIFO, its flag, mode and counter | `CANFD0_IRQHandler`, `RX_Callback` | the flag is cleared after the FIFO was emptied |
| System time (`bsp_mspm0g_tim_base.c`) | last count, wraps | time, delta, delay | two reads of a running counter; float32 seconds lose their milliseconds |
| Encoder (`qei_encoder.c`, `bsp_time.c`) | one counter | `getSpeed`, `getDelta` | counts on while it is read and reset |
| Scheduler (`freertos_manager.c`, FreeRTOS) | ready, delayed and suspended lists, tick count, pended ticks and yields | creation, `vTaskDelay`, tick, switch | suspension against ticks, two delayed lists across the wrap, round robin by `pxIndex` |

How they interact:

- `CommTask_UartRXCallback` (UART interrupt) puts frames into the queue; `CommTask`
  takes at most one per turn, commands the motor, the store or the watchdog, and
  answers from the buffer its feedback uses too.
- `CommTask_CAN_Decode` (CAN interrupt) writes `motor_task.status` and `set_omega`
  itself and feeds the watchdog; from its fourth frame on CAN is in charge and the
  feedback goes there.
- `MotorTask` reads `status` once per run and acts on it.
- `DetectTask` calls back into `CommTask`'s state; `CommTask` polls the watchdog's.
- A save, by UART or by key, ends in `NVIC_SystemReset`.

Scheduling decides which interleavings exist.  All three tasks have priority 2
(`Core/Src/freertos_manager.c:23-29`) and `configUSE_TIME_SLICING` is 0
(`FreeRTOSConfig.h:92`), so a task keeps the processor until its `vTaskDelay`, its
busy-waits included: **tasks do not interrupt each other, interrupts interrupt all
of them**.  `Scheduler` models the kernel and `TasksCooperate` proves that much of it;
the other modules take it from there.  An interrupt runs to completion between two steps of a task, so each
handler is one action; a task's operation is cut into steps exactly where an
interrupt can tell the difference (a load and its store, two writes of a pair, a
test and what depends on it).  The UART interrupt touches only the queue, the CAN
interrupt only the command, the CAN counters and mode, and the watchdog.

`PROJECT.json` lists every hazard found in the code with the line where it bites and
the properties that cover it, or a note on why none does.

## 2. Modules

| module | models | checked by | proved in |
|---|---|---|---|
| `Scheduler` | FreeRTOS as the firmware uses it | `scheduler` | `Scheduler_proofs` |
| `FrameFifo` | what the queue promises, abstractly | as a property of `FrameQueue` | |
| `FrameQueue` | interrupt, queue and the task that drains it | `frame_queue` | `FrameQueue_proofs` |
| `MotorControl` | both commanders, `MotorTask`, the PWM legs, the two tasks' scheduling | `motor_control` | `MotorControl_proofs` |
| `AtomicStore` | what the stored parameters promise, abstractly | as a property of `ParamStore` | |
| `ParamStore` | `Read`, `Write`, both callers, faults, restarts | `param_store`, `param_identity` | `ParamStore_proofs` |
| `SoftWDT` | `DetectTask`, feeding, `CommTask`'s recovery, the LED frequency | `soft_wdt` | `SoftWDT_proofs` |
| `CommKey` | the push button: debouncing, clicks, holds | `key_gesture` | with `KeySetting` |
| `KeyGesture` | the levels sampled and what gestures they are; extends `CommKey` | `key_gesture` | with `KeySetting` |
| `KeySetting` | `KeyManager`, confirmation, LED series, save; extends `CommKey` | `key_setting` | `KeySetting_proofs` |
| `KeyIntent` | what setting an ID by key promises, abstractly | as a property of `KeySetting` | |
| `CanRx` | the receive FIFO and the CAN interrupt | with `CommLink` | with `CommLink` |
| `CommLink` | requests, answers, feedback, the transmit buffer; extends `CanRx` | `comm_link`, `comm_ack`, `comm_address` | `CommLink_proofs` |
| `SysTime` | the running counter and its extension by software | with `ControlLoop` | with `ControlLoop` |
| `ControlLoop` | time step, encoder reading and PID of one turn; extends `SysTime` | `control_loop` | `ControlLoop_proofs` |

`MC*` modules name the values a `.cfg` cannot write.  Operators called `Slip...`
are plausible mistakes, each used by a mutant of `PROJECT.json` and by nothing else.
History variables (marked `history:` where declared) record what the properties speak
of; no guard reads one.

### FrameQueue

State is the queue's fields under their own names and `CommTask_Uart_SetValue`'s
place.  `UartRXCallback` is the interrupt with `Add` (`AddFull`: a full queue drops
its oldest frame *and* refuses the new one; `AddRoom`).  `Drop` is cut into copy,
load and store of `length--`, load and store of `pointer_index++` and its wrap.  A
frame that does not decode is followed by `Drop(NULL)`, as in `comm_task.c:323`.
A frame is a model value; `Malformed` says which do not decode.  The indices are
`uint16_t`: `header_index` starts at `MaxU16` and wraps.

Three windows are unprotected: the store of `length`, and, on a full queue, the load
of `length` and the store of `pointer_index`.  `torn` records that an interrupt has
hit one.  `TypeOK` (no index and no count ever out of range) holds **always**;
`RingExactUnlessTorn` and the refinement `KeepsFifoPromise` hold until a window is
hit; `Drained` holds always, so a corrupted count never hangs the task.  After a window
was hit the count no longer says how many frames there are, and old frames are delivered
late or twice.

### MotorControl

`ReadStatus` latches `status` into `motor_pc`; `Stop`, `Start`, `Drive`, `Break` are
the branches with all they call, down to the compare values of the two legs (`duty`)
and `SetPWM`'s clamp.  `Start` only starts the counters: the legs run on the values
they were stopped with until the next run, which is why the property speaks of two
runs.  The PID is reduced to what its output can be: unchanged (0) in the first call
after a clear, then anything within `MaxOut`; a cleared one has output 0.
`Uart_SetSpeed` writes `status` and then `set_omega`, with room for a CAN command in
between; `cut_omega` is the speed of the UART command a CAN one fell into, which takes
the place of CAN's a step later.  `LastCommandGoverns` says that this is the only mixture
of two commands there is, and that the next command ends it.  `CommTask`'s other work appears as what it does to the processor: a turn is
ready, tail, possibly waiting, sending or saving, asleep.  `Tick` is the kernel's tick.
A save ends in `Reset`.

### ParamStore

A record is a function from cells to values; cell 1 holds the IDs.  A CRC is
represented by the record it was computed over, that is, CRC collisions are left out.
`ReadWhole`/`ReadPart` are one attempt of `Read`, with the bus reset after a bad CRC;
three bad ones end in the defaults of `comm_task.c:203-207`.  `Transmit` and
`KeySetSave` begin a `Write`; `WriteCell`, `WriteCrc` are its bytes in order, the CRC
last; a failing byte (which may have reached the EEPROM) ends the attempt, the third
failure ends in a reset (UART) or in a bus reset and another `Write` (key).
`PowerLoss` may fall anywhere, and inside the CRC.  `BusSticks` is a slave that holds
the lines until nine clocks are sent; writing does not reset the bus, boot and the key
loop do.  Branch `SET_DEFAULT_VALUE` (0) is not compiled in and not modelled.

`ImplementsAtomicStore` is the refinement of `AtomicStore`, a store of one record that is
written at once.  It says that no boot ever takes parts of two records (`NeverAMix`, proved on its own as
well), and what the invariants do not: what is in the EEPROM changes only
while a save goes on, a boot takes exactly that, and so one boot takes what the one before
took.  `possible` is as wide as it has to be: a save that was cut off leaves cells of its
record under an older CRC, and a later save, cut off as well, may complete the older record
again; it is then one that no save has replaced yet.

### SoftWDT

One watchdog, as the program has.  `Check` is cut into the read of `cnt`, the store of
`--cnt`, the store of `is_online` and the callback.  Only a feed by the CAN interrupt
can fall into it; `torn` records that the last one did.  `CommTask` turns are
UART frame (which feeds whichever slave it is for), key, recovery.  The LED is its
frequency only.

### CommKey and KeySetting

One action, `Turn`, is one turn of `CommTask`: the level at the pin goes through
`Touch`, `GetState`, `Scan`, `GetResult`, `CommTask_KEY` and `CommTask_LED` without an
interruption that matters, so these are operators of one action.  `output_lock` and
`has_answer` are set and taken back within a turn and are not state; `output` is the
gesture of the turn.  Deadlines are the time left, in units of the shortest turn; the
real debouncing time (100 us) is less than a turn (1 ms), hence `WaitTime = 0` in the
runs: a touch seen in one turn only is noise.  `Deltas` are the times a turn may come
after the last one, late ones included.

`Touch` has one operator per state and level.  In `Turn` the alternatives are the
outcomes of `CommTask_KEY`: a display of the ID begins (`KeyShowID`), a number is taken
(`KeyNumber`), the time is up (`EndShow`, `KeySetSave`), or not (`Pending`,
`NothingPending`); a change of mode goes with any of the last four.  `KeySetSave` stops
the task until `Saved`, which restarts the module, as a record sent by UART does
(`HostSave`).  The status LED's own blinking (`comm_led.c`) is a free choice of `lit`.

`DecodesGestures` compares every turn's gesture with a definition of clicks, pauses and
holds on the whole sequence of levels.  A touch that is too short forgets the clicks
before it (`comm_key.c:94`), which the definition follows: a series is one of clicks
*only*.  `HonoursIntent` is the refinement of `KeyIntent`; it shows that leaving a mode
by a hold does not take a number back, and that a click outside the modes does.
`NumberIsTold` has the condition under which the confirmation is long enough for the
series; the real times allow it up to 16 of the 19 numbers.

### Scheduler

State is the kernel's under its own names.  A ready list is a circle; it is written as a
sequence whose last member is the one at `pxIndex`, with `End` for `xListEnd`.  A thread
step is what no interrupt can look into: `vTaskDelay` is `vTaskSuspendAll`,
`prvAddCurrentTaskToDelayedList`, `xTaskResumeAll` with the ticks it unwinds (in a
critical section), and the yield.  The tick handler counts (`CountTick`), wakes one
sleeper per loop turn (`WakeOne`) and ends (`TickDone`); the switch is the PendSV handler.
`SysTick` runs from `FreeRTOS_Run`'s set-up on, hence before the kernel's own tasks
exist; the timer task has no timers and sleeps for ever, on the suspended list.  A task's
turn has no inside here: the other modules are about it.

`left` is how many ticks a sleeper still has to be counted, `beats` the ticks of the
timer, `overtook[u][v]` how many turns `v` began while `u` was waiting for its own.
`OvertakenTwice` is what round robin comes to: `list.h:348` promises one, and the window
between the removal of the running task (which takes `pxIndex` back) and the switch costs
a second.  `SleepsItsTime` includes that no tick is lost.  The firmware's parameters are
three tasks, delays of 1, 1 and 10 ticks (`motor_task.c:38`, `comm_task.c:84`,
`detect_task.c:25`) and 32 bits; the run's are 1, 1 and 2 ticks and a count that wraps
after 2, so that a sleeper is on either list at any phase of the wrap.

### CanRx and CommLink

`CommLink` is a turn of `CommTask` again, from the host's side.  `Encode` writes the
buffer whoever is reading it; `TransmitDMA` waits until the line is idle and starts the
DMA on what is in the buffer (`Send`), or gives up after ten looks in 50 ms (`GiveUp`);
`LineStep` is the DMA and the FIFO behind it.  `whole` records that the buffer was left
alone while the DMA read what it was started on last, `lost` that the last frame was given
up.  A line that moves sends the longest frame (128 bytes, `mcu_config.h:39`) in 12 ms, so
giving up takes one that stands still: `Stall` lets it, and lets it go on, at any point of
a frame.  Nothing in the firmware makes it do so (there is no flow control,
`ti_msp_dl_config.c:451`); it is the fault the code provides for.  Only an ACK is tried
again, up to `Tries` times (`comm_task.c:394`); nobody else looks at what `TransmitDMA`
returns.  Its other failures cannot occur: the driver is initialised before the tasks are
created, and a channel just enabled is only found disabled again if an interrupt lasts
until the DMA has moved all but the four bytes that fit into the transmit FIFO.
A request is its command and whether its ID is this module's; a TRANSMIT is `good` or
`junk` by its CRC.  `FallThrough` is the missing `break` of `comm_task.c:382`.

`CanRx` is one frame at a time: stored with its flag raised, taken by the loop of
`RX_Callback`, and the flag cleared **after** that.  `hit` counts the frames
whose flag was cleared unseen; `NoFrameStrands` says that just those wait without an
interrupt.  The handler's steps interleave with the hardware's `Arrive`, never with the
task's (guard `irq = "none"`).

### SysTime and ControlLoop

`SysTime` reads the counter twice in a call, as `EasyFrameSysTimeUpdate` does, and counts
a wrap if the second read is behind the last one.  Its environment is the source's own
assumption (`bsp_mspm0g_tim_base.c:109`): not more than one wrap between two calls.
`ControlLoop` is `MotorTask_Run` cut at each access to a counter that runs by itself.
`Seconds` maps a count to the float of it: any function, so the proofs hold for whatever
rounding; the run drops the last bit, so that `dt` is often zero.  `Start` may find the
encoder's counter anywhere.  The controller's gains are left open: `Terms` are the values
its terms can take, the filter gives anything between its two inputs.  The encoder is
assumed to move `Base` pulses at most between two readings, and between a reading and the
putting back of the counter by the one before.  Pulses between the read and the reset of
one `getDelta` are counted in `slipped`: those, and no others, are missing from the next
reading.

## 3. Runs

| run | instance | what it shows |
|---|---|---|
| `frame_queue` | 3 slots, 8 frames in all, a good and a malformed one | ranges, ring, FIFO promise, draining |
| `motor_control` | full duty 1, `MaxOut` 2, two speeds | realisation within two runs, soft start, the last command governs, liveness |
| `param_store` | two cells and the CRC, two values, 4 faults | durability, defaults only if needed, saves end; an atomic store, never a mix of two records |
| `param_identity` | the same | **violated**: after a failed read the default IDs are not used everywhere |
| `soft_wdt` | 3 checks, 2 ticks between two | no false, late, lost or stuck alarm |
| `key_gesture` | all sequences of 14 levels; hold after 2, pause after 1, mark 3 | every click and hold is reported, once, when it is due |
| `key_setting` | numbers up to 2, confirmation 9, turns of 1 or 2 | the number saved is the last one entered, shown in full, left alone long enough; every setting ends |
| `scheduler` | three tasks sleeping 1, 1 and 2 ticks, ticks counted 0 to 2, at most 2 in a suspension | who runs, who is woken when, who waits how long; every task runs again and again |
| `comm_link` | a FIFO of 2 frames, feedback every third turn, one more try for an ACK | the feedback's period and its two ways, the last word of a turn, frames given up, stranded frames |
| `comm_ack` | the same | **violated**: a refused TRANSMIT is answered by ACK, after FAIL |
| `comm_address` | the same | **violated**: frames for other modules are served |
| `control_loop` | a counter of 3 values wrapping twice, an encoder of 5, limits of 1 | the time line, pulses and time that belong together, the limits |

Why the bounds are enough.  A ring of 3 wraps, fills, overflows and empties within
8 frames, several times over, and every window is hit at every fill.  A duty of 0 and
of full, and a `MaxOut` beyond it, make the clamp matter; the sign of the output
chooses the leg; two speeds tell two commands apart.  Two cells are what a mix of two
records needs, and the CRC follows; four faults allow a stuck bus, a power loss and
two failed transfers in one history, and a boot that loses all its three attempts.
A watchdog that lasts 3 checks has a first, a middle and a last one.  In 14 levels fit
three clicks with their final pause, one click more than the mark allows, and a series
cut by noise or ended by a hold.  A confirmation of 9 lasts for a correction, and is
just long enough for two blinks in turns that are all late; 3 clicks, which enter the
master's mode, are no number there.  A tick count of three values wraps within every
second sleep, and two pended ticks let one of them wrap and the other wake.  A FIFO of two
strands one frame behind another; three turns to a feedback are one that is due, one after
and one before it; of two tries for an ACK one is followed by another and one is the last.  A counter of 3 values and an encoder of 5 put every read next to a
wrap.  Counters that
have no bound in the code (frames received, faults, wraps, ticks in one suspension) are
capped by `MaxRx`, `MaxFaults`, `MaxLaps` and `MaxPended`.  The proofs lift all of these bounds for the
safety properties.

`frame_queue` sets `CHECK_DEADLOCK FALSE`: when the bound on frames is reached and the
queue is empty, there is nothing left to do.  `key_gesture` does because its sequences
end.  Every other passing run checks deadlock.

Fairness.  Ticks and task steps are weakly fair: the kernel's tick is a timer, every
task sleeps by `vTaskDelay` and is made ready again, and a step of a running task is
just the processor going on.  The wait in `TransmitDMA` is bounded by ten rounds
(`bsp_mspm0g_usart.c:389`), and the tries of an ACK by eleven.  No fairness is assumed of anything outside: that a frame
arrives, that a key is pressed, that a fault happens or stops.  A save in
`MotorControl` may go on for ever (no fairness on `Reset`), because the retry loop of
`comm_task.c:641` does when the EEPROM is dead; `StatusRealised` therefore assumes it
does not.  `KeySetting` does assume that the write succeeds in the end (`Saved`): what
it takes is `SaveEnds`.  `SettingEnds` speaks of a key left alone; nothing makes a user
let go of it.  In `Scheduler` the timer ticks (weak fairness of `Tick`) and what a tick
interrupts goes on (strong fairness of `Processor`: a handler is done long before the next
tick, but switches the thread off and on); every turn of a task ends, which is what
`EveryoneRuns` takes.  `SaveEnds` holds once the faults stop, which the cap on faults makes them.

## 4. What is proved

Every theorem is of the form `Spec => []P`, `Spec => [][A]_vars` or, for the three
refinements, `Spec => HonoursIntent`, `Spec => KeepsFifoPromise` and
`Spec => ImplementsAtomicStore`, for every value of the constants allowed by the module's
`ASSUME`.  Each rests on an inductive invariant, proved by one lemma per action:

- `FrameQueue_proofs`: `TypeOK` and `RingExactUnlessTorn`, for every capacity from 2 to
  65535.  `TypeOK` is not inductive: it needs that the task past its test always finds a
  frame to drop (`SomethingToDrop` - the interrupt can drop a frame of a full queue but,
  with two slots or more, never the last one) and that its register holds a positive
  count; the ring needs, in addition, that a register of an untorn `Drop` still equals
  the memory (`RegisterFresh`).  That `FrameQueue` implements `FrameFifo`
  (`QueueKeepsPromise`) rests on this invariant, on what the task holds at each place of
  its turn (`HeldPlaces`, and `HeldFrames` until a window is hit), and on four lemmas
  about `Window`, the `n` slots of the ring from one on: it is a sequence, the same
  counted from one ring on, its tail begins a slot later, and writing the slot behind it
  appends.  With them the copy of a `Drop` is `Take`, the store of `length` of a
  `Drop(NULL)` is `Discard`, `Add` is `Arrive`, and the store of the pointer a stutter.
- `MotorControl_proofs`: `TypeOK`, `RealisedInTwoRuns`, `SoftStart`,
  `LastCommandGoverns`, for every reload value, `MaxOut` and set of speeds.
  `ClearedWhenStopped` makes soft start inductive (a stopped motor has a cleared PID,
  and a cleared one has output 0); `RunningAfterOne` is the half-way point of two runs;
  `PendingTold` carries a UART command across its cut, told or cut into.
- `ParamStore_proofs`: `TypeOK`, `NeverAMix`, `SavedIsDurable`, `DefaultsOnlyIfNeeded`,
  for every record length and number of faults.  `CrcKnown` (the EEPROM's CRC is that of
  a record tried or saved, or of none) and `Writing` (the cells passed in this attempt
  are in the EEPROM) are what makes a CRC written last certify the whole record;
  `AttemptsPaid` charges every failed attempt at a good record to a fault.  That
  `ParamStore` implements `AtomicStore` (`StoreIsAtomic`) needs one fact more: a CRC that
  boot has in memory came with its record (`ReadTogether`; a read that failed half-way
  brings no CRC), so that only what is in the EEPROM is ever accepted.  A `Read` is then
  `Boot` or a stutter, a byte of a `Write` is `Continue`, its CRC `Finish`.
- `SoftWDT_proofs`: `TypeOK`, `NoFalseAlarm`, `AlarmInTime`, `LinkAgrees`, for every
  `Load` and `Period`.  `CountAtMost` and `CountAtLeast` bound `cnt` by the silence from
  both sides: the upper bound survives a torn feed, which is why an alarm is never late,
  the lower one does not, which is why it may be early.
- `KeySetting_proofs`: `TypeOK`, `NumberIsTold`, `ConfirmedInTime`, and that `KeySetting`
  implements `KeyIntent` (`SettingHonoursIntent`), for all times, thresholds, limits and
  IDs.  `LedCounts` (the LED's own count is what the light does), `FirstSeriesOnTime`
  (after `n` blinks no more than `n` late blinks' time has passed) and `TimerCounts` are
  the strengthening; the refinement has one step per alternative of a turn.  Besides
  `SettingAssumption` and `KeyAssumption` (positive times; numbers below the mark of a
  hold) nothing is assumed.  The last part is about the button alone: `DecodesGestures`
  for a sequence of levels of any length (`GesturesDecoded`).  Its inductive invariant
  `Gestures` says, state by state, what the fields know of the sequence: while the key is
  down they time the run of pressed samples and hold the clicks the run found (`RunTimed`,
  `Carried`), between clicks they hold the series and the time since its last press
  (`Pausing`), and at rest a click now would begin a new series (`Resting`).  A sample
  changes the presses only if it lets go of the key, which adds one after all others
  (`QuietSample`, `ReleaseSample`); whether the series goes on, begins or ends is
  `ReleaseSeries`.  Past the mark of a hold nothing is claimed, as in the property.

- `Scheduler_proofs`: all safety properties of the run, for any number of tasks, any
  delays and any width of the tick count: the action property `Cooperative`
  (`TasksCooperate`), `TypeOK`, `HighestRuns`, `SleepsItsTime` and `OvertakenTwice`.
  There are four invariants, each used by the next.
  *Threads*: at most one is inside a kernel call (`OneThread`), the scheduler is suspended
  by just that one (`SuspendedByOne`), a switch that is due finds its task already gone
  (`SwitchFindsNobody`), all sleepers with a time belong to the application
  (`SleepersAreApps`), so that none of them outranks the task that runs, and hence no
  yield is ever pended (`NeverPends`).
  *`Lists`*: every circle has `End` and each of its tasks once, nobody is ready and asleep,
  whoever has not put itself to sleep is ready (`TurnsReady`), and none of the ready
  outranks the current task unless a switch is pending (`Highest`).  What the kernel's list
  operations do to a circle is lemmas (`InsertEndPuts`, `RemovePuts`, `NextEntry`).
  *`Sleeping`*: both delayed lists are in the order of waking, a sleeper's waking time is
  the count and what it still has to sleep, one wrap less on the overflow list, and
  `xNextTaskUnblockTime` is not past the first of them (`UnblockInTime`): the kernel looks
  at the head only, so without the order it would wake late.  That `vListInsert` keeps the
  order is `InsertInOrder`; the places not later than the new one are an interval
  (`PrefixIsInterval`).
  *`Overtaking`*: `Bound` ties `overtook[u][v]` to where `u`, `v` and `End` stand in the
  circle.  While `End` is still to come before `u`, `v` has overtaken once at most, and not
  yet if it comes before `End` itself; after that twice at most, and once if it is still
  to come before `u`.  One that joins the circle takes nobody's place
  (`NewcomerOvertakesNone`), so there is no third time, however many tasks there are.
- `CommLink_proofs`: all five properties of the run, for every FIFO and every reload
  value and number of tries.  The counter and `gap` run side by side; what `pc` says of
  `word`, `sent` and `lost` carries the last word through the turn; `late` is 0 until the
  mode is CAN, and from then on only a frame already encoded can add one; from the last look
  at the FIFO until the flag is raised again `hit` is its fill.
- `ControlLoop_proofs`: `TypeOK`, `TimeIsTrue`, `SpeedIsTrue`, for every width of the
  counters, every rounding, all limits and gains.  `CYCCNT_RountCount` is `laps`, or one
  less with the counter behind its last value; `known` makes `moved - slipped` the distance
  of the counter from `Base`; while not paused, the readings are one `dt` apart, zero ones left
  out.

Only model-checked: liveness (`Drained`, `StatusRealised`, `SaveEnds`,
`SilenceIsNoticed`, `TalkIsNoticed`, `SettingEnds`, `EveryoneRuns`), which is out of the
prover's reach.  Every safety property of a passing run is a theorem.

## 5. What the code does not do as its comments say

Three runs end in a violation; each is a finding of `PROJECT.json` with the comment it
quotes: after a failed read only the CAN side gets the default IDs (`comm_task.c:97`), a
refused TRANSMIT is answered by ACK after FAIL (`comm_task.c:387`), and only DRIVE looks
at the slave ID (`comm_task.c:299`).

Met while modelling, and not a run of its own:

- `abstract_queue.h:18` calls `length` the amount of data present; an interrupt inside
  `Drop` makes it differ (that is what `torn` excuses in `RingExactUnlessTorn`).
- `motor_task.c:31` says 1 kHz: a busy-wait of `CommTask` keeps the task off the processor.
- `comm_task.h:36` says that set mode forces the motor limp; nothing looks at it.
- The end of an ID display sets the LED to blink as online, offline or not (`comm_task.c:726`).
- `comm_task.c:422` says that three frames switch to CAN; the fourth does.
- A request served in a turn of feedback may have its ACK overwritten in the buffer, and
  the FAIL of a save that failed is cut short by the reset that follows (`comm_task.c:374`).
- One feedback frame may go out by UART after the switch to CAN.
- A time step across a wrap is one count short per wrap (`UINT32_MAX` for 2^32), and a wrap
  between the two reads of one call puts the time line a lap ahead, until the next call.
- As a float32, time is known to about 2 ms after 16384 s: the controller then sees `dt`
  of zero or of twice a turn.  `pid.c:163` divides by its own `dt`, unchecked; the model's
  terms are integers, so the limits say nothing of a float that is none (NaN).  That takes two
  calls at the same count of the timer.
- As many CAN frames as the FIFO holds (3, `ti_msp_dl_config.h:226`), all between the last
  look at the FIFO and the clearing of the flag, fill it for good: a full FIFO stores
  nothing and raises no flag that is enabled.  It takes three frames within a few
  instructions.
- `TransmitDMA` gives a frame up without a word when the line stands still; only an ACK is
  tried again, and the next frame is encoded over what the DMA has not sent yet.
- A pulse between the read and the reset of the encoder's counter is lost; the first speed
  after a brake divides all pulses since by the time of the last turn; `lp_speed` is never cleared.
- `pid.c:190` says that the dead band clears the integral; it clears its last increment and
  the output, `Iout` stays.
- `list.h:348` says that a task inserted is the last to run; one woken while another is
  leaving is not.

Design facts no comment contradicts: losing the link changes only the LED and never stops
the motor; UART speeds are scaled by 1/10000 and CAN speeds by 1/100
(`comm_task.c:452,491`); a stopped PWM counter leaves the pins at their last level; a
record saved by key after a failed read is whatever the last attempt left in memory, under
a good CRC; in a setting mode without a number the status LED stands still until a hold
ends the mode; a number is saved even while its correction is being clicked.

## 6. Plan

Done: the receive queue, the motor, the store, the watchdog, the key; and since then the
kernel, the link to the host, CAN reception, time and control loop.  Left:

1. TRANSMITs shorter or longer than a record, in `ParamStore`.
2. What a feedback frame says (the last speed of a stopped motor).

Not modelled: register set-up, GPIO, the conversion of pulses to a speed (products with
constants), the CAN transmitter, RTT, generated SysConfig code, the status LED's own
blinking, the unused `master_slave_codec.c`, and the host tool.  Of FreeRTOS, what the
firmware does not use: queues, event groups, stream buffers, notifications, mutexes,
software timers, the MPU wrappers, other priorities or cores.  These vendored files are by
far the larger part of the tree's C code (some 50000 of 56000 lines, against 6000 of
the firmware), so the share of all lines that the map covers stays small whatever is
modelled of the firmware.
