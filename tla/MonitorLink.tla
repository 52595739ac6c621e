---------------------------- MODULE MonitorLink -----------------------------
(***************************************************************************)
(* How a packet heard by the monitor board reaches the test equipment      *)
(* (BTE): receiveMotorCommandEcho of src/firmware/projects/heavy/make.c    *)
(* puts its bits on a data pin and toggles a clock pin, from a timer       *)
(* interrupt, and src/bte_source_code/MONITOR_SHIFTER.v, which runs on its *)
(* own clock, collects them into records.  A record ends after BITS bits,  *)
(* or when no bit has come for WATCHDOG edges.                             *)
(*                                                                         *)
(* Edge is a rising edge of the BTE's clock; the actions of the board fall *)
(* between edges, and since counts the edges from one to the next.         *)
(***************************************************************************)
EXTENDS Integers, Sequences

CONSTANTS
  BITS,         \* bits of a packet (96: the 12 bytes of make.c)
  WATCHDOG,     \* edges without a bit that end a record (MONITOR_SHIFTER.v: 1000)
  PERIOD,       \* edges between two timer interrupts, at least (10 us: 100)
  SETUP,        \* edges from the data pin to the clock pin, at least
  JITTER        \* bound: edges a wait of the board takes longer

ASSUME LinkAssumption ==
  /\ {BITS, WATCHDOG, PERIOD, SETUP, JITTER} \subseteq Nat
  /\ BITS > 1 /\ SETUP > 0 /\ PERIOD > 2 /\ SETUP + PERIOD + 2 * JITTER < WATCHDOG

Bit == {0, 1}
Packets == [1..BITS -> Bit]
NONE == << >>

VARIABLES
  echo,                  \* the board: "idle", "run"ning an echo, in "reset", "boot"ing
  packet, pointer,       \* echoData, and the bits of it that are out
  irq,                   \* the interrupt: "out", or between the two pins: "pins"
  since,                 \* edges since the board's last action
  dataPin, clkPin,
  data_delay, clk_delay, \* the BTE's synchronisers, newest first
  shifter, shifter_counter, shifter_watchdog,
  record,                \* MONITOR_FIFO_DATA
  INHIBIT,               \* the switch that makes the shifter ignore the board
  still,                 \* history: edges since the clock pin last changed
  aligned,               \* history: neither a bit lost nor one too many since the last pause
  due                    \* history: the packet sent completely and not recorded yet

board   == <<echo, packet, pointer, irq, since>>
pins    == <<dataPin, clkPin>>
bte     == <<data_delay, clk_delay, shifter, shifter_counter, shifter_watchdog, record>>
history == <<still, aligned, due>>
vars    == <<board, pins, bte, INHIBIT, history>>

\* After so many edges without a change of the clock pin the shifter is empty.
Pause == WATCHDOG + 5
Longest == Pause + PERIOD + JITTER

TypeOK ==
  /\ echo \in {"idle", "run", "reset", "boot"} /\ irq \in {"out", "pins"}
  /\ packet \in Packets /\ pointer \in 0..BITS /\ since \in 0..Longest
  /\ dataPin \in Bit /\ clkPin \in Bit
  /\ data_delay \in [1..3 -> Bit] /\ clk_delay \in [1..3 -> Bit]
  /\ shifter \in Packets /\ record \in Packets
  /\ shifter_counter \in 0..BITS /\ shifter_watchdog \in 0..WATCHDOG
  /\ INHIBIT \in BOOLEAN /\ aligned \in BOOLEAN
  /\ still \in 0..Pause /\ due \in Packets \cup {NONE}

Zeros == [i \in 1..BITS |-> 0]

Init ==
  /\ echo = "idle" /\ packet = Zeros /\ pointer = 0 /\ irq = "out" /\ since = 0
  /\ dataPin = 0 /\ clkPin = 0
  /\ data_delay = <<0, 0, 0>> /\ clk_delay = <<0, 0, 0>>
  /\ shifter = Zeros /\ shifter_counter = 0 /\ shifter_watchdog = 0 /\ record = Zeros
  /\ INHIBIT = FALSE /\ still = Pause /\ aligned = TRUE /\ due = NONE

-----------------------------------------------------------------------------
(***************************************************************************)
(* Mutated forms, used to confirm that the properties notice a mistake.    *)
(***************************************************************************)
\* The counter is not reset by a load.
CounterKept == IF clk_delay[3] # clk_delay[2] THEN shifter_counter + 1 ELSE shifter_counter

\* The watchdog does not count.
WatchdogStuck == 0

\* The last bit of a record is not counted, so that only the watchdog ends one.
CounterOneShort ==
  IF shifter_watchdog = WATCHDOG THEN 0
  ELSE IF ~INHIBIT /\ clk_delay[3] # clk_delay[2] /\ shifter_counter < BITS - 1
    THEN shifter_counter + 1 ELSE shifter_counter

-----------------------------------------------------------------------------
\* receiveMotorCommandEcho: a packet is copied and the timer set.
EchoStarts(p) ==
  /\ echo = "idle"
  /\ echo' = "run" /\ packet' = p /\ pointer' = 0 /\ since' = 0
  /\ UNCHANGED <<irq, pins, bte, INHIBIT, history>>

\* The interrupt: the next bit of the packet on the data pin, ...
Output(p, k) == p[k + 1]

IrqData ==
  /\ echo = "run" /\ irq = "out" /\ since >= PERIOD /\ pointer < BITS
  /\ dataPin' = Output(packet, pointer)
  /\ irq' = "pins" /\ since' = 0
  /\ UNCHANGED <<echo, packet, pointer, clkPin, bte, INHIBIT, history>>

\* ... then a change of the clock pin.
IrqClock ==
  /\ echo = "run" /\ irq = "pins" /\ since >= SETUP
  /\ clkPin' = 1 - clkPin
  /\ pointer' = pointer + 1
  /\ irq' = "out" /\ since' = 0 /\ still' = 0
  /\ due' = IF pointer' = BITS /\ aligned THEN packet ELSE due
  /\ UNCHANGED <<echo, packet, dataPin, bte, INHIBIT, aligned>>

\* The interrupt after the last bit: the timer is cancelled, echoRunning cleared.
IrqDone ==
  /\ echo = "run" /\ irq = "out" /\ since >= PERIOD /\ pointer = BITS
  /\ echo' = "idle" /\ since' = 0
  /\ UNCHANGED <<packet, pointer, irq, pins, bte, INHIBIT, history>>

\* The board is reset, possibly amid a packet; its pins are left at any level ...
BoardResets ==
  /\ echo # "reset" /\ echo' = "reset"
  /\ irq' = "out" /\ pointer' = 0 /\ since' = 0
  /\ dataPin' \in Bit /\ clkPin' \in Bit
  /\ still' = IF clkPin' # clkPin THEN 0 ELSE still
  /\ aligned' = (aligned /\ clkPin' = clkPin /\ (echo = "run" => pointer \in {0, BITS}))
  /\ due' = IF aligned' THEN due ELSE NONE
  /\ packet' = Zeros
  /\ UNCHANGED <<bte, INHIBIT>>

\* ... until main() turns them off.
OutputsOff ==
  /\ echo = "reset" /\ echo' = "boot" /\ since' = 0
  /\ dataPin' = 0 /\ clkPin' = 0
  /\ still' = IF clkPin = 1 THEN 0 ELSE still
  /\ aligned' = (aligned /\ clkPin = 0)
  /\ due' = IF aligned' THEN due ELSE NONE
  /\ UNCHANGED <<packet, pointer, irq, bte, INHIBIT>>

\* Booting takes seconds.
BoardBooted ==
  /\ echo = "boot" /\ since >= Pause
  /\ echo' = "idle" /\ since' = 0
  /\ UNCHANGED <<packet, pointer, irq, pins, bte, INHIBIT, history>>

Board ==
  \/ \E p \in Packets : EchoStarts(p)
  \/ IrqData \/ IrqClock \/ IrqDone \/ BoardBooted

\* Somebody moves the switch INHIBIT of the BTE.
MoveSwitch ==
  /\ INHIBIT' = ~INHIBIT
  /\ UNCHANGED <<board, pins, bte, history>>

-----------------------------------------------------------------------------
\* MONITOR_SHIFTER: a bit is taken at a change of the delayed clock.
ClockChange == clk_delay[3] # clk_delay[2]
write_shifter == ~INHIBIT /\ ClockChange

load_data == shifter_counter = BITS \/ shifter_watchdog = WATCHDOG

CounterNew ==
  IF load_data THEN 0
  ELSE IF write_shifter THEN shifter_counter + 1 ELSE shifter_counter

WatchdogNew ==
  IF load_data \/ write_shifter THEN 0
  ELSE IF shifter_counter # 0 THEN shifter_watchdog + 1 ELSE shifter_watchdog

\* A rising edge, no later than the board's next action allows.
Edge ==
  /\ echo = "run" => since < (IF irq = "pins" THEN SETUP ELSE PERIOD) + JITTER
  /\ echo = "boot" => since < Longest
  /\ data_delay' = <<dataPin, data_delay[1], data_delay[2]>>
  /\ clk_delay' = <<clkPin, clk_delay[1], clk_delay[2]>>
  /\ shifter' = IF write_shifter THEN Append(Tail(shifter), data_delay[3]) ELSE shifter
  /\ shifter_counter' = CounterNew
  /\ shifter_watchdog' = WatchdogNew
  /\ record' = IF load_data THEN shifter ELSE record
  /\ since' = IF echo \in {"idle", "reset"} THEN since ELSE since + 1
  /\ still' = IF still < Pause THEN still + 1 ELSE still
  /\ aligned' = IF INHIBIT /\ ClockChange THEN FALSE
                ELSE aligned \/ (still = Pause /\ pointer \in {0, BITS})
  /\ due' = IF load_data \/ ~aligned' THEN NONE ELSE due
  /\ UNCHANGED <<echo, packet, pointer, irq, pins, INHIBIT>>

Next == Board \/ BoardResets \/ OutputsOff \/ MoveSwitch \/ Edge

Spec == Init /\ [][Next]_vars

-----------------------------------------------------------------------------
\* Packets arrive as they were sent: MONITOR_SHIFTER.v records nothing but what
\* receiveMotorCommandEcho sent, bit for bit, unless a reset of the board or the
\* switch has cost or added a bit since the last pause.
Faithful == [][Edge /\ load_data /\ aligned => due # NONE /\ record' = due]_vars

\* And they are recorded at once, not when the watchdog runs out: from the last
\* bit's clock to the record it takes at most 4 edges.
PromptlyRecorded == due # NONE => still <= 4

-----------------------------------------------------------------------------
(***************************************************************************)
(* The inductive invariants behind the theorems of MonitorLinkProofs.      *)
(***************************************************************************)
\* still, or where it stopped counting.
Quiet(n) == still >= n \/ still = Pause

\* The interrupt holds the data pin while it waits to move the clock pin.
AmidBit ==
  /\ irq = "pins" =>
       /\ echo = "run" /\ pointer < BITS /\ dataPin = packet[pointer + 1]
       /\ since > 0 => data_delay[1] = dataPin
       /\ Quiet(since + PERIOD)
  /\ echo # "run" => pointer \in {0, BITS}

\* The clock pin moves no more often than the timer allows ...
Slow ==
  /\ irq = "out" /\ echo # "idle" => Quiet(since)
  /\ echo = "reset" => since = 0 /\ pointer = 0
  /\ irq = "out" /\ echo = "run" /\ pointer = 0 => Quiet(since + 3)
  /\ echo = "idle" => still >= 3

\* ... and, amid a packet, no less often than jitter allows.
Quick ==
  0 < pointer /\ pointer < BITS =>
    /\ irq = "out" => still <= since /\ since <= PERIOD + JITTER
    /\ irq = "pins" => still <= PERIOD + JITTER + since /\ since <= SETUP + JITTER

\* The synchroniser shows the last change of the clock pin; while aligned, no other.
Synchronised ==
  \A i \in 1..3 : /\ still >= i => clk_delay[i] = clkPin
                  /\ aligned /\ still < i => clk_delay[i] = 1 - clkPin

\* The watchdog measures the time without a bit.
Watched ==
  /\ shifter_counter = 0 => shifter_watchdog = 0
  /\ shifter_counter # 0 /\ still >= 3 => shifter_watchdog >= still - 3
  /\ aligned /\ shifter_counter # 0 =>
       /\ still >= 3 => shifter_watchdog <= still - 3
       /\ still < 3 => shifter_watchdog <= PERIOD + SETUP + 2 * JITTER - 3 + still

\* A packet sent completely is recorded before anything else is sent.
DueSoon ==
  due # NONE => aligned /\ still <= 3 /\ (pointer = BITS \/ (pointer = 0 /\ irq = "out"))

\* The packet the shifter is about to collect, and its bits that are out.
Incoming == IF due # NONE THEN due ELSE packet
Out == IF due # NONE THEN BITS ELSE IF pointer = BITS THEN 0 ELSE pointer

\* While aligned the shifter has every bit that is out, but for the last one as
\* long as that is still in the synchroniser.
Collected(n) ==
  /\ shifter_counter = n
  /\ \A i \in 1..n : shifter[BITS - n + i] = Incoming[i]

InStep ==
  aligned =>
    \/ Out = 0 /\ shifter_counter = 0 /\ still >= 3
    \/ Out > 0 /\ still >= 3 /\ Collected(Out)
    \/ Out > 0 /\ still < 3 /\ Collected(Out - 1) /\ data_delay[still + 1] = Incoming[Out]

LinkInv ==
  TypeOK /\ AmidBit /\ Slow /\ Quick /\ Synchronised /\ Watched /\ DueSoon /\ InStep

=============================================================================
