# Jabez: a verification project

Jabez is a dual-redundant motor controller. Two controller boards ("string A"
and "string B") run the same firmware; a failure detection unit (FDU) in an
FPGA watches both, names one of them *prime* and power-on resets a board that
fails; the prime board drives a motor board over UDP broadcasts; a fourth board
and a second FPGA (the BTE, bench test equipment) inject errors and record what
happens. This directory holds TLA+ modules for the parts that decide and
coordinate, TLC runs for small instances, and TLAPS proofs.

## 1. Inventory

| Part | Source | State | Operations | Talks to |
|---|---|---|---|---|
| watchdog (two of them) | `fdu_fpga/wdt.v` | `state`, `next_state`, `count`, `clear`, `health`, `fdu_d1` | clock edge, asynchronous reset | pins of a board in, `health_int` out |
| FDU selection and resets | `fdu_fpga/fdu.v` | `state`, `next_state`, `prime`, `to_count`, `to_reached`, per string `health`, `health_d1`, `por`, `por_count` | clock edge, reset button | watchdogs in; prime lines and reset lines of the boards out |
| FDU error mask | `fdu.v:77-137,206-228`, `clk_cntr.v` | `error_bte_d1..3`, `error_bte_diff`, `fdu_tri`, start-up counter | clock edge, reset | BTE error lines, slide switches |
| FDU ranger, LEDs, display | `fdu.v:138-204,230-238`, `ssd.v` | counters | clock edge | ultrasonic sensor, DAC |
| controller library | `firmware/libraries/fdu/fdu.c` | `ISPRIME`, `fdu_mode`, `aliveValue`, the stroking task's `i` and pins | `stroke_wdt` (task), `aliveIRQCallback` (interrupt, 100 us), `error_injector` (task, 5 ms), `run_away` | prime line, watchdog pins, alive pin, error inputs |
| command protocol | `firmware/projects/heavy/make.c` | `waiting_for_response`, `error_count`, `error_noresponse_count` | `sendMotorCommandTask`, `receiveMotorCommandTask`, `sendDataMessage`, `tellMotorBoard`, `sendNAck`, `tellController` | UDP broadcast, `TaskDelete(stroke_wdt)` |
| motor board | `make.c:109-119,507-548` | stepper position and target, `motorZeroPoint` | calibration in `Run`, `doMotorCommand` | stepper, index sensor, controllers |
| monitor board | `make.c:365-414` | echo buffer and pointers, `echoRunning` | echo task, 10 us interrupt | BTE monitor shifter |
| checksums | `make.c:164-193,417-458` | none | `crc32`, `char2int`, `int2char` | |
| BTE monitors | `ALIVE_FSM.v`, `PRIME_ALIVE_MONITOR.v`, `MONITOR_SHIFTER.v` | timeout state machines, shift register, a one-entry data register | clock edges, every 100 ns | alive and prime lines, echo bits, FIFOs |
| BTE recorder | `FIFO_ARBITER.v`, `FIFO_TO_ASCII.v`, `UART.v`, FIFO cores | FIFOs, position in a record, shift state | clock edges | serial line to `jabezserver/juart.pl` |
| BTE error injection | `ERROR.v`, `DEBOUNCER.v` | debounced buttons, 5 ms pulses | clock edges | error inputs of boards and FDU |
| CAN library | `libraries/can/` | bit-banged frame state | interrupt per bit | not started by `heavy` |
| log receivers, viewer | `jabezserver/*.pl`, `jabezhelper/` | - | print what arrives | |
| fast timer | `firmware/core/makingthings/fasttimer.c`, `fasttimer_isr.c` | list of timers, compare register, pointers of the handler | `FastTimer_Set`, `FastTimer_Cancel` (tasks and callbacks), `FastTimer_Isr` | alive pin, echo, stepper, servo |
| base system | rest of `firmware/core/` (FreeRTOS, lwIP, MakingThings) | - | scheduling, UDP | third party |

What is hard here:

* **Two clock domains and a race in the Verilog.** Both `wdt.v` and `fdu.v`
  assign `next_state` with a blocking assignment in a clocked block and read it
  in other clocked blocks. Synthesis makes a flip-flop of it, so that `state`
  and `next_state` become *two* state machines that take turns; a simulator may
  behave like one machine. Any input that changes between the turns can make
  the two differ.
* **Boundaries of counters**: `==` and `>=` tests of the same timeout, a reset
  pulse that is retriggered near its end, 20 discarded packets against more
  than 10 unanswered commands, a loop variable that wraps below zero.
* **Unlocked sharing** between the sender and the receiver task, and between a
  polling task and an interrupt.
* **A list that changes under its reader**: the callbacks of the fast timer set and
  cancel timers while the interrupt handler walks the list and the counter runs on.
* **Links without acknowledgement**: the monitor board sends bits on two pins, the
  recorder of the BTE reads them with its own clock, and none of its FIFOs can say
  that it is full.
* **Failure and recovery**: boards that are reset at any moment, packets that
  are lost or corrupt, a motor board that falls silent, error modes that begin
  or end in the middle of a stroke cycle.

The complete list, line by line, is under `hazards` in `PROJECT.json`.

## 2. Modules

```
 WdtBlocks <- Wdt <- WdtMonitor <- WdtProofs          (wdt.v)
                 \
 FduBlocks <------ Stroke <- WdtProofs                (fdu.c + wdt.v + power-on reset of fdu.v)
      \       ErrorModes /  \
       Fdu <- FduMonitor <- FduErrors <- FduProofs          (fdu.v, clk_cntr.v)
                 |      \ FduRace
                 | implements
              Selector <- Redundancy <- RedundancyProofs   (abstract FDU; boards of fdu.c)
 MotorBus <- MotorBusProofs                           (make.c, protocol)
 MotorBoard <- MCMotorBoard, MotorProofs              (make.c, motor; stepper.c)
 MonitorLink <- MonitorLinkProofs                     (make.c, echo; MONITOR_SHIFTER.v)
 AliveMonitor <- Recorder <- RecorderProofs           (BTE, from the lines to the serial port)
 FastTimer <- MCFastTimer, TimerInterval, FastTimerProofs   (fasttimer.c, fasttimer_isr.c)
    | implements
 TimerService
```

**WdtBlocks / Wdt** follow `wdt.v` register for register: one operator per
`always` block (`CountNew`, `ClearNew`, `HealthNew`, `StateNew`,
`NextStateNew`), put together by `Clock` (an edge with reset low),
`ClockInReset`, `AssertReset`, `ReleaseReset`. `ReadOrder` is the outcome of the
race on `next_state`: `"old"` on the FPGA, `"new"` in a simulator that runs that
block first. `Inputs` are the samples the pins may carry (8 is an undriven pin,
`3'bzzz`), `MinHold` the least number of edges a sample lasts. The case statement
of the source, 150 lines, is one rule: a state waits for its Gray code, goes on
with the next code, and everything else is an error.

**WdtMonitor** adds history variables (`matched`, `age`, `upset`, ...) that
remember what the pins did, and states the contract of `health` over them. The two
machines that take turns must each see the 000 that starts a cycle: `zeros` counts
how often it was seen, and `since` runs from the last cycle that was seen whole.

**FduBlocks / Fdu** are the selection (`NextPrime`), the power-on reset (`PorNew`,
`PorCountNew`) and the power-up delay of `fdu.v`. The watchdogs are represented
by what they report (`WatchdogsReport`): any verdict at any edge, except that a
board held in reset is not healthy for more than `Drain` edges. That is what
theorem `WdtHealthNeedsStroke` provides: 6 500 003 edges against a reset of
12 500 000. `Reset` is the push button, held for at least one edge.

**FduMonitor** states what the selection promises, over history variables. The race
on `next_state` makes two interleaved selections of one, which see every other
sample and may come to different results: the selection is then *divided*, and the
prime lines alternate. Nothing is assumed about the distance of events.
`SelectionSettles` says which divisions can last (A and B, both healthy; B and
nobody, during the power-up delay), `FailoverToB` what a B that was ready for it
gets. **FduRace** follows a failover in which B was not ready, for finding 1.

**FduErrors** adds the error inputs: `clk_cntr` (`CntNew`), which masks the lines of
the test equipment for `MAX_CNT` edges, their three registers and the latch
(`DiffNew`), and the switches. An error cuts the pins off the watchdog; `floating`
counts for how long, and as in `WatchdogsReport` a watchdog without strokes is not
healthy for more than `Drain` edges. `struck` is a history variable: the edges
since a line was first high and not masked.

**Selector** is the abstract specification of the FDU. `held` is everybody the
selection holds, in `Fdu` the contents of the registers `prime`, `state` and
`next_state`; the prime lines name one of them. It promises that a holder is given
up only when its board is in reset by then, that a single holder gets no other put
beside it before that, and that a board is let out of reset only when it is no
holder. `FduMonitor` states that `Fdu` implements it, for any timing of the events
(`ImplementsSelector`), and `Redundancy` builds on it for any set of boards.

**Stroke** is one string from end to end: the loop of `stroke_wdt` pin by pin
with its error modes, the registers of `fdu.v` in front of the watchdog, `Wdt`
itself, and the power-on reset that restarts the board. Time is counted in edges
of the FPGA's clock. A board in reset leaves its pins at some constant level.

**ErrorModes** holds the codes of `error_injector`, shared by `Stroke` and `Redundancy`.

**Redundancy** has the rest of `fdu.c` for several boards: `StrokePoll` (the poll
of the prime line at the head of `stroke_wdt`), `AliveIRQ`, `ErrorInjector`, and
the FDU's actions with the reboot they cause. A board in reset has its outputs at
any level, until `Boot`, where `main()` turns them off. A runaway board runs nothing.

**MotorBus** is the protocol of `make.c` seen from one controller. The sender task
is split where the receiver can see the difference (test of the flag, NAck,
announcement, sending); the receiver task where the sender can (judging a packet,
clearing the flag). Packets are records of the fields receivers test. `Transmit`
is `sendDataMessage`: dropped unless prime, wrong crc in error mode 1. `Reboot` is
a power-on reset, `OtherTalks` the traffic of the other controller while it is
prime, NAcks and corrupt packets included. `Lose` loses a packet, and `SenderWakes`
may end the wait with packets still on their way: a late answer then meets the next
command. Both are bounded by `Losses`. A refusal carries -1 if the motor happens to
be passing there (`"passing"`).

**MotorBoard** is the calibration loop and `doMotorCommand`. The stepper moves one
step per action towards its target; the position in an answer is read again after
the tests and may be a step further.

**MonitorLink** has the monitor board (`EchoStarts`, and the interrupt in two steps,
`IrqData` and `IrqClock`, because the pins are written one after the other) and
`MONITOR_SHIFTER.v` (`Edge`). Edges of the BTE's clock and actions of the board
interleave freely within the times the board's timer guarantees. The board may be
reset at any moment, which leaves its pins at any level until `main()` turns them
off (`OutputsOff`), and somebody may move the switch `INHIBIT`. A packet is a sequence of bits, all of them tried.

**AliveMonitor** is `PRIME_ALIVE_MONITOR.v` with an `ALIVE_FSM.v` per controller. The
pipe of a prime line is the number of its latest samples that were high; the
alive pipes, which only delay, are left out. The three states of the state
machine share one rule, since an edge of the line is possible only towards the
other level.

**Recorder** extends it by everything up to the serial line. `Clock` is one edge, at
which all registers change together: `Arbiter` (three sources and the register
`arb_sel_d1`), `Ascii` (big FIFO and `nibble_counter`), `Uart`. Records have no
contents, FIFOs are counters that drop what does not fit, characters are numbered
by their place in a line. `owed` and `told` remember which records are due and
what the last record of the lines said. The distance of presses is the
debouncer's, that of loads the shifter's.

**FastTimer** is the linked list (`first`, `nxt`), the handler that walks it timer by
timer (`IsrEnter`, `IsrCalls`, `IsrReturns`, `IsrPasses`, `IsrExit`) and the counter
(`Tick`), which runs on meanwhile. A callback makes up to `CallbackOps` calls of
`FastTimer_Set` and `_Cancel`. A call by a task is one step: the stepper driver
switches the fast interrupt off around it and the other users set their timer
when the list is empty. The arithmetic is that of an `int` (`Wrapped`, `HALF`): a timer
shorter than the slices falls behind, below zero, and may come to -1, which
`FastTimer.nextTime` takes for "none yet" (`NextTimeWith`). `lapse` is a history
variable: since the last interrupt that has happened, or `FastTimer_Set` has put the
compare register behind the counter. **TimerService** is the abstract service, a set of active
timers and who is being called back; `ImplementsService` is the refinement.
**TimerInterval** adds a stop-watch per timer, for the finding.

`map` in `PROJECT.json` gives the source lines of every definition.

## 3. Runs

All bounds are constants of the `.cfg` files.

| Run | Question | Result |
|---|---|---|
| `wdt_hardware` | Does `health` of the synthesised watchdog mean what it says, for any codes that last two edges? `HealthNeedsStroke`, `StrokeRaisesHealth`, `NoFalseAlarm` | holds |
| `fdu_hardware` | The synthesised FDU with its error inputs, verdicts that change at any edge: is prime healthy, does B wait, is somebody in charge, does the selection settle but for the divisions named, fail over to a B that was ready, implement `Selector`, start boards afresh, and shut out an injected string for good? | holds |
| `fdu_race` | The testbench's "only prime[1] can assert after prime[0] fails", B healthy one edge after A fails | violated |
| `stroke` | Are error modes of the strokes detected and ended, and stroking boards left alone? `NoFalseReset`, `FaultsEnd`, `ServiceResumes` | holds |
| `redundancy` | `OneMaster`, `OneAlive` under any FDU that keeps `Selector`, divided or not | holds |
| `bus_faults` | Does a healthy controller keep going through power-up (`NoFalseGiveUp`)? Corruption, silence, a packet lost or late, refusals at -1, button: are they noticed? `CorruptionNoticed`, `SilenceNoticed`, `TimeoutsNoticed` | holds |
| `bus_handover` | The comment "Didn't get a response the last time we sent a command" | violated |
| `motor_board` | `TravelLimits`, `SentinelSafe`, `CalibrationEnds` | holds |
| `timers` | Callbacks do what they like to the list: does the timer keep `TimerService`, oversleep nobody but for the two lapses (`NotOverslept`), and serve everybody in the end (`Served`)? | holds |
| `timer_interval` | The comment "after the interval specified" | violated |
| `monitor_link` | Are packets recorded as they were sent (`Faithful`), at once (`PromptlyRecorded`), and in step again after resets and inhibition? | holds |
| `recorder` | `LogComplete`, `ServedInTime`, `LogTellsState`, `LinesWhole` | holds |

Every property of a passing run is also checked against a mutated model
(`mutants` in `PROJECT.json`) and found violated there.

### Bounds

* Watchdog: `TIMEOUT` 36 instead of 6 500 000: the shortest cycle of eight codes at
  two edges takes 16, so a cycle may be complete in time, in the last moment, too
  late, or torn by a timeout, and a torn cycle and a whole one fit into one
  `TIMEOUT`. The torn one may leave health up without clearing the counter, so that
  the timeout comes amid the whole one: that needs some 30. All nine samples
  occur.
* FDU: `TIMEOUT` 10, `POR_TERMINAL_COUNT` 6, `Drain` 0, `MAX_CNT` 1: a reset begins
  and ends before, across and after the end of the power-up delay, and an error
  falls on any moment of it and of the mask. Errors are injected into A only,
  which is the string with more to lose; the theorems cover both, and every value
  of the constants. `fdu_race` has a power-up delay of 25, which a failover, the
  reset of A and its return fit into.
* Stroke: a nap of 30 or 31 edges, one edge per pin write, so 64 or 65 edges per
  cycle and 94 or 95 in slow mode, around a `TIMEOUT` of 72: the proportions of
  100 ms, 200 ms and 130 ms (6 500 000 edges of the 50 MHz clock of the pin
  constraints). The pin writes take far more edges in reality, which gives the
  watchdog more time to look. `ROUNDS` is 4: `error_injector` sleeps 1000 ms,
  some ten rounds, first, and a smaller number only allows errors earlier.
* Redundancy: two boards, all error codes; proved for any set of boards.
* MotorBus: 2 packets discarded and a limit of 1 unanswered command, the proportions of
  20 and 10 in `make.c`, and 2 errors for its 10: each limit is passed, met and missed,
  and the result is as tight as there (with 3 discarded packets `NoFalseGiveUp` fails, as
  with 21 in the code). Counters are not told apart beyond the limit. One packet may
  be lost, or one wait end early, and one packet of the other controller be queued.
* MotorBoard: first target 10 and steps of 4 as in the code, a track of 20 instead
  of 980, and the sensor anywhere from -2 to 15.
* MonitorLink: packets of 3 bits, all eight of them, instead of 96; an interrupt at
  least every 3 edges and a watchdog of 8 keep the order of 100 and 1000. A packet
  may follow the last one before or after the watchdog would run out.
* Recorder: one controller; `STABLE` is 5 as in the code, `TIMEOUT` 4 instead of
  2000, which makes changes of the alive line as frequent as those of prime and
  stands for the second controller's. The big FIFO has 2 places, so that it
  overflows; the small ones have 3 and do not. A record of 2 characters of 2 bits
  at 1 edge per bit: the handshakes do not depend on these (`LinesWhole` is proved
  for all of them).
* Timers: intervals 5, 3 and 1 with slices of at most 4, so that one timer is longer
  than a slice and one so short that it falls behind, as `dietimer` is (6 ticks
  against a shortest slice of 20); the handler may take as long as 1 tick, a callback
  makes one call on any timer. The counter wraps at 5, an `int` at 6: both wrap.

### Fairness

* `Stroke`: weak fairness of the clock edge; the oscillator never stops.
* `FastTimer`: weak fairness of the counter's tick, and of the handler: a fast
  interrupt is interrupted by nothing and its steps are bounded. (One callback never
  returns, that of `run_away`, which is there to hang the board.)
* `MotorBus`: weak fairness of the sender, the receiver and the motor board's
  receiver; FreeRTOS runs ready tasks of one priority in turn. No fairness for
  faults, reboots or the prime line. `SenderWakes` waits for the network to be
  empty, but for `Losses` times: `Sleep(30)` is much longer than an exchange.
* `MotorBoard`: weak fairness of the calibration loop and the stepper.

## 4. Findings

1. `fdu_race`. The two interleaved selections of the synthesised FDU can stay divided.
   A is prime and fails; at the next edge B becomes healthy; the power-up delay is not
   over. One selection, in PRIME_A, elects B; the other saw nobody healthy and is in
   NO_PRIME, from where B has to wait for the delay. The prime lines alternate between
   10 and 00, and when A comes back, healthy for long enough, between 01 and 10, with
   both strings healthy: the division lasts until one of them fails. The testbench
   says that only prime[1] can assert there; it has B healthy well before A fails, and
   for that case `FailoverToB` is proved. What the boards make of a divided selection
   is in `OneMaster` and `OneAlive`: either may poll the line while it is named, so that
   both act as master and both show life, and this is the only way for that but for
   the reset button.
2. `bus_handover`. The receiver's `waiting_for_response = 0` comes after its
   judgement of a packet and is not protected. A command announced in between
   loses its flag; if that command is not answered in time, the sender takes it for
   answered and resets its counter. `TimeoutsNoticed` shows that without this race a
   command has been followed by a packet when the sender counts it as answered. It
   does not show that the packet was its answer: packets name no command, so a late
   answer to an earlier one, or a packet of the other controller, counts as well.
3. `timer_interval`. `FastTimer_GetTime` reads `TC0`, everything else `TC2`. A timer
   set while another runs believes that the slice has only just begun. In the
   counterexample the new compare value lies behind the counter, which has to
   wrap before anybody is called. `NotOverslept` shows that this is one of two ways to
   oversleep a timer, the other being a timer that has fallen behind to exactly -1;
   `Served` shows that nobody is lost by it: late, not never. In this repository it hits `run_away` of `fdu.c`, whose timer
   is set while the alive timer runs, and any board with stepper and servo.

Also seen, without a property: a 000 that is on the pins for three edges, out of
order or left over by a timeout, lets one of the two state machines of `wdt.v` start a
cycle and not the other, which can cost the first strokes after boot their health and the board
a second power-on reset (why `NoFalseReset` excepts them); the testbench of the
watchdog, whose codes last far longer, does not meet it; the NAck word `0x00500000` has the bit that
`checkAck` reads as an acknowledgement; `TaskDelete` is called with a function
instead of a task; `Free(packet)` is inside the receive loop; a press of the FDU's
button takes health down without the falling edge that would start a power-on
reset, so a board that is dead or runaway at that moment is never reset; with
`ROUNDS = 1`, that is, errors injected before a board was healthy once, `FaultsEnd`
fails for the same reason; the comments of `fdu.v` count 40 ns per edge where the
pin constraints give 20 ns, so that its "5 second" are 2.5.

## 5. Proofs

TLAPS checks every theorem from the named assumptions on the constants.

| Module | Theorems | Argument |
|---|---|---|
| `WdtProofs` | `WdtTypeCorrect`, `WdtHealthNeedsStroke`, `WdtStrokeRaisesHealth`, `WdtNoFalseAlarm` | `WdtInv`. `TypeOK` is inductive. `HealthNeedsStroke` needs to know that both state machines follow the same history of codes (`Tracking`), that the end of a cycle is noticed at once or not at all (`Prompt`), and that the counter is at most three edges behind the age of the last cycle (`Clocked`). `ContractInv` adds the other direction: how often each machine has seen the 000 (`Begun`), so that both are in the cycle (`Engaged`), and that the counter is never ahead of the time since the last whole cycle, but for the three edges a clear takes (`OnTime`, `Clearing`). Assumes `ReadOrder = "old"` and that codes last at least two edges, as on the FPGA; any `TIMEOUT` and any inputs. |
| `WdtProofs` | `StrokeTypeCorrect` | `StrokeInv`, for board, watchdog and power-on reset together. The range of `por_count` is the point: health falling once more at the terminal count would carry it past the end. `InPor` follows the reset edge by edge: the pins rest, so do the registers behind them, so every state of the watchdog is one its code does not lead out of (`SettledOn`), so nothing clears the counter until it runs out, and from then on there is no health to lose (`Starved`). Assumes `POR_TERMINAL_COUNT >= TIMEOUT + 7` (12 500 000 and 6 500 000 in the source); either outcome of the race, any naps and pin activity. `StrokeDrained` draws from the same invariant what `Fdu` assumes of its watchdogs (`WatchdogsReport`), with `TIMEOUT + 5` for `Drain`. |
| `WdtProofs` | `StrokeNoFalseReset` | `CalmInv`, for a board that has not been disturbed since it booted. `Place` and `Lap` say where in a round the task is and how many edges have passed, at most, since the last code of the round before. Between two writes everything behind the pins comes to rest (`Resting`), the pins show the codes in order (`Coded`), and no register is more than one code behind the one before it (`Linked`), so that a machine in the cycle stays in it. A round finishes long before the timeout (`Early`), so from the second round on no timeout falls on the 000 that begins it, and both machines begin together (`Joined`); the code 100 reaches the counter within five edges of its write (`Ending`); hence from the third round on health rests on two machines that go together and on a counter that keeps to the lap (`Paired`), and does not fall. Assumes `ReadOrder = "old"` and `InGoodTime`: a write takes at least 6 edges, a nap at least 4, and a nap with its jitter and 35 writes is shorter than `TIMEOUT` (5 000 000 edges of `Sleep(100)` against 6 500 000 leave 30 ms for jitter and writes). |
| `FduProofs` | `FduTypeCorrect`, `FduPrimeIsHealthy`, `FduStringBWaits`, `FduSomebodyInCharge`, `FduFreshStart` | `FduInv`. `Trail` bounds how stale the health behind each register of the selection is; `Entitled` says who entitles B; `Drained` bounds the counter of a power-on reset by the promise that a board in reset loses its health, which keeps a reset from being retriggered at its end and gives the bound in `TypeOK`; `Aged`, `Ready` and `Charged` follow the decision for a string that stays healthy from register to register. Both outcomes of the race, any spacing of events. |
| `FduProofs` | `FduErrorsImplement`, `FduMaskTypeCorrect`, `FduErrorForGood` | With its error inputs the FDU implements the FDU without them, so that the theorems above carry over. `Struck` says how far a pulse has come: line, registers, latch, watchdog, prime. |
| `FduProofs` | `FduSelectionSettles`, `FduFailoverToB`, `FduImplementsSelector` | `ChainsInv`, without any assumption on the distance of events or the outcome of the race. `Held`: a string in one of the registers of the selection is healthy or in a power-on reset that is well under way and far from its end, and one that the next decision leaves is in reset, because deciding against it takes as many edges as its reset needs to begin. `Calmed`: once nothing new is to be seen, register after register holds a decision that decides for itself, and such decisions differ only in the two ways `SelectionSettles` names. `HeirKept`: a B that was ready when A failed is elected by both selections. The refinement is proved step by step: every step of `fdu.v` is a step of `Selector` with `held` the set of the three registers. |
| `RedundancyProofs` | `RedundancyTypeCorrect`, `RedundancyOneMaster`, `RedundancyOneAlive` | `Belief`: a board that has polled since the button believes it is prime only if the selection holds it, and once it has booted its alive pin shows no more than that; a board in reset believes nothing, and its pin is at any level. Any number of boards. |
| `MotorProofs` | `MotorTravelLimits`, `MotorSentinelSafe` | `Track`: target and position stay in bounds relative to the zero point and the sensor, which depends on the calibration stopping within a step of the sensor; `Parity`: only even positions are asked for. Any track, step size and sensor position. |
| `RecorderProofs` | `RecorderServedInTime`, `RecorderNothingLost` | `WaitBounded`, for two controllers. A change of the lines goes first and takes an edge from whoever waits, which costs 6 of a credit. Credit is earned: 2 per edge by a PRIME line, because its filter lets at most two changes through in six edges, and 12 at most by an ALIVE line, because no more than two of its changes fall into a wait shorter than `TIMEOUT`. Two lines earn 4 per edge, so each edge of a wait uses up 2 of the 72 there can be at its start, and no wait lasts `WAIT`, 38 edges. The record of a press is one more change to a monitor record that waits. Then `RecorderLogComplete` needs no hypothesis. Assumes `STABLE >= 5`, `SMALL > 1`, and `TIMEOUT`, `LoadGap` and `PressGap` of at least 38 edges (2000, 1000 and 500 000 in the source). |
| `RecorderProofs` | `RecorderTypeCorrect`, `RecorderLogComplete`, `RecorderLogTellsState`, `RecorderLinesWhole` | `LinesTold`: where each sample of a line has got to, from the filter over `curr_state` to the record; `CharactersOut`: how `idle`, `total_counter`, `nibble_counter` and the shifter move together. `NothingInvented`: no source is read when it is empty, which keeps the counters in range. `RecorderLogComplete` has `[]ServedInTime` as a hypothesis: completeness follows from timeliness, and the changes of state, which come first (`FirstServed`), need none; it assumes `SMALL > 1`. Any number of controllers, filter, timeout, record length and baud rate. |
| `MotorBusProofs` | `BusTypeCorrect`, `BusTimeoutsNoticed`, `BusNoFalseGiveUp` | `BusInv`. `Queued` bounds what is on its way to the motor board by where the sender is; `Flagged`: an unanswered command keeps its flag. `NoFalseGiveUp` is an account of the power-up (`Unpaid`): every unanswered round costs the motor board two of the packets it throws away, a command and a NAck, wherever those are at the moment; a packet that is lost or late is a fault. Assumes `DISCARDED <= 2 * NO_RESPONSE_LIMIT`, which 20 and 10 of `make.c` just satisfy; with 21 it is false. Any backlog, losses and faults. |
| `MonitorLinkProofs` | `LinkTypeCorrect`, `LinkPrompt`, `LinkFaithful` | `LinkInv` places every bit between pin and shifter. `Slow` and `Quick` bound the time between two clock changes, `Synchronised` says what the synchroniser shows of the last one, `Watched` that the shifter's watchdog measures the time without a bit, hence cannot run out amid a packet; `InStep`: while aligned the shifter has exactly the bits that are out, but for one in the synchroniser. Any packet length and contents, any timing within `LinkAssumption` (a packet has more than one bit, a period more than two edges, and the watchdog is longer than the longest bit). |
| `FastTimerProofs` | `TimerTypeCorrect`, `TimerNotOverslept`, `TimerImplementsService` | `TimerInv`. The list is the least set closed under the pointers (`Reach`), about which lemmas say what prepending and unlinking do; `Acyclic` keeps a timer that is unlinked out of the list, `Pointed` keeps the handler on it whatever a callback cancels. `Clocked`: the compare register is ahead of the counter unless a lapse has happened. `Accounted`, unless a lapse has happened: the present slice ends before any listed timer is due, and while the handler runs the next one is short enough for the timers it is through with; so the counter itself does not pass the time anybody is due. Any set of timers and any intervals that fit an `int`; `TimerAssumption` orders the constants of the header file only (a handler and the shortest slice fit into the longest, which is below the wrap of the counter). |

Only model-checked are the liveness properties (`FaultsEnd`, `ServiceResumes`,
`CorruptionNoticed`, `SilenceNoticed`, `CalibrationEnds`, `Served`): the prover does
not treat fairness. Every invariant and every action property of the passing runs is
stated by a theorem.

Two of these theorems reach further than their runs. `recorder` has one controller and
a short `TIMEOUT`, the theorem two controllers and the source's proportions; `stroke`
has writes of one edge, which is less than `InGoodTime` asks for. The invariants
`CalmInv` and `WaitBounded` were checked by TLC where their theorems apply
(`SLEEP` 5, `JITTER` 2, `WRITE` 6, `TIMEOUT` 218, `ROUNDS` 3; two controllers, gaps of
38), before they were proved. More controllers than two are out of their reach: three
PRIME lines that change as fast as their filters let them may starve the other
sources.

`NoFalseAlarm` is an example of why the proofs are worth their effort. An earlier form
restarted `since` after every cycle and was checked with a `TIMEOUT` of 20, where it
holds; it fails with 30, because a torn cycle does not clear the counter. The
proof needs a counter that is never ahead of `since`, and so `since` runs on.

## 6. Not modelled

Vendored code (FreeRTOS, lwIP, the rest of MakingThings with its register headers)
and the generated FIFO cores. They are nearly all of the roughly 111 000 lines of
implementation in the repository, so that the lines this project maps are a small
share of them; of the program's own logic (`fdu_fpga/`, `bte_source_code/` without
the cores, `libraries/fdu/`, `projects/heavy/`) the parts that decide and coordinate
are covered.

* The CAN library: no project starts it, and `Can_Stop` calls itself without end.
* The ranger of `fdu.v`: it drives a converter nothing else reads.
* `crc32`, `char2int`, `int2char`: pure functions; packets are abstracted to what the
  receivers test, and 2^32 values are out of TLC's reach.
* `DEBOUNCER.v`, and the switch of `ERROR.v` that routes an error to its target for
  5 ms: presses keep their distance in `Recorder`, and errors arrive at any moment or
  never in the models of the controllers and the FDU.
* Timers that do not repeat, and the use count of the fast timer (`removed` in the handler is not reset after a
  timer that does not repeat, and `users` is a `char`: neither matters to the callers
  there are).
* LEDs and displays, the Perl log printers, the Java viewer.

Memory allocation is not modelled; neither is what `TaskDelete` does to a function
pointer (`gaveUp` records the call). The direction of a command (an analogue input)
is any direction.

## 7. Plan

* *Injection*: `DEBOUNCER.v` and `ERROR.v` with the polling of `error_injector`, a pulse
  of a little less than 5 ms against a poll every 5 ms.
