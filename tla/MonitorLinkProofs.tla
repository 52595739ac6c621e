------------------------- MODULE MonitorLinkProofs --------------------------
(***************************************************************************)
(* The line from the monitor board to the test equipment, for every length *)
(* of a packet, every watchdog and every timing of the board that keeps    *)
(* LinkAssumption: what is recorded is what was sent, bit for bit, and at  *)
(* once.                                                                   *)
(***************************************************************************)
EXTENDS MonitorLink, SequenceTheorems, TLAPS

LEMMA Constants ==
  /\ BITS \in Nat /\ WATCHDOG \in Nat /\ PERIOD \in Nat /\ SETUP \in Nat /\ JITTER \in Nat
  /\ BITS > 1 /\ SETUP > 0 /\ PERIOD > 2 /\ SETUP + PERIOD + 2 * JITTER < WATCHDOG
  BY LinkAssumption

LEMMA PacketIsSeq ==
  ASSUME NEW p \in Packets
  PROVE  p \in Seq(Bit) /\ Len(p) = BITS /\ p # NONE
  <1>1. p \in Seq(Bit) /\ Len(p) = BITS
    BY Constants DEF Packets
  <1>2. Len(NONE) = 0
    BY EmptySeq DEF NONE
  <1> QED
    BY <1>1, <1>2, Constants

\* What the shifter holds after one more bit.
LEMMA Shifted ==
  ASSUME NEW s \in Packets, NEW b \in Bit
  PROVE  /\ Append(Tail(s), b) \in Packets
         /\ \A i \in 1..(BITS - 1) : Append(Tail(s), b)[i] = s[i + 1]
         /\ Append(Tail(s), b)[BITS] = b
  <1>1. s \in Seq(Bit) /\ Len(s) = BITS /\ s # << >>
    BY PacketIsSeq DEF NONE
  <1> DEFINE t == Tail(s)
  <1>2. /\ t \in Seq(Bit) /\ Len(t) = BITS - 1
        /\ \A i \in 1..(BITS - 1) : t[i] = s[i + 1]
    BY <1>1, HeadTailProperties
  <1> HIDE DEF t
  <1> DEFINE u == Append(t, b)
  <1>3. /\ u \in Seq(Bit) /\ Len(u) = BITS
        /\ \A i \in 1..(BITS - 1) : u[i] = t[i]
        /\ u[BITS] = b
    BY <1>2, AppendProperties, Constants
  <1> HIDE DEF u
  <1>4. u \in [1..BITS -> Bit]
    BY <1>3, LenProperties
  <1>5. u \in Packets /\ (\A i \in 1..(BITS - 1) : u[i] = s[i + 1]) /\ u[BITS] = b
    BY <1>2, <1>3, <1>4 DEF Packets
  <1> QED
    BY <1>5 DEF u, t

-----------------------------------------------------------------------------
(***************************************************************************)
(* Types.                                                                  *)
(***************************************************************************)
LEMMA ZerosType == Zeros \in Packets
  BY DEF Zeros, Packets, Bit

LEMMA LinkInit == Init => LinkInv
  <1> SUFFICES ASSUME Init PROVE LinkInv
    OBVIOUS
  <1>1. Zeros \in Packets
    BY ZerosType
  <1>2. TypeOK
    <2>1. <<0, 0, 0>> \in [1..3 -> Bit]
      BY DEF Bit
    <2>2. INHIBIT \in BOOLEAN /\ aligned \in BOOLEAN
      BY DEF Init
    <2>3. /\ since \in 0..Longest /\ still \in 0..Pause /\ pointer \in 0..BITS
          /\ shifter_counter \in 0..BITS /\ shifter_watchdog \in 0..WATCHDOG
      BY Constants DEF Init, Pause, Longest
    <2> QED
      BY <1>1, <2>1, <2>2, <2>3 DEF Init, TypeOK, Bit
  <1>3. AmidBit /\ Slow /\ Quick
    BY Constants DEF Init, AmidBit, Slow, Quick, Pause
  <1>4. Synchronised /\ Watched /\ DueSoon
    BY Constants DEF Init, Synchronised, Watched, DueSoon, Pause
  <1>5. InStep
    BY Constants DEF Init, InStep, Out, Pause
  <1> QED
    BY <1>2, <1>3, <1>4, <1>5 DEF LinkInv

LEMMA BoardTypes ==
  ASSUME TypeOK, AmidBit, Board \/ BoardResets \/ OutputsOff \/ MoveSwitch
  PROVE  TypeOK'
  <1> USE Constants DEF TypeOK, bte, pins, history, board, Longest, Pause, Bit
  <1>1. ASSUME NEW p \in Packets, EchoStarts(p)
        PROVE  TypeOK'
    BY <1>1 DEF EchoStarts
  <1>2. CASE IrqData
    BY <1>2 DEF IrqData, Output, Packets
  <1>3. CASE IrqClock
    BY <1>3 DEF IrqClock, AmidBit
  <1>4. CASE IrqDone
    BY <1>4 DEF IrqDone
  <1>5. CASE BoardBooted
    BY <1>5 DEF BoardBooted
  <1>6. CASE BoardResets
    BY <1>6, ZerosType DEF BoardResets
  <1>7. CASE OutputsOff
    BY <1>7 DEF OutputsOff
  <1>8. CASE MoveSwitch
    BY <1>8 DEF MoveSwitch
  <1> QED
    BY <1>1, <1>2, <1>3, <1>4, <1>5, <1>6, <1>7, <1>8 DEF Board

LEMMA EdgeTypes ==
  ASSUME TypeOK, Edge
  PROVE  TypeOK'
  <1> USE Constants
  <1>1. UNCHANGED <<echo, packet, pointer, irq, dataPin, clkPin, INHIBIT>>
    BY DEF Edge, pins
  <1>2. data_delay' \in [1..3 -> Bit] /\ clk_delay' \in [1..3 -> Bit]
    BY DEF Edge, TypeOK
  <1>3. shifter' \in Packets /\ record' \in Packets
    BY Shifted DEF Edge, TypeOK
  <1>4. shifter_counter' \in 0..BITS /\ shifter_watchdog' \in 0..WATCHDOG
    BY DEF Edge, TypeOK, CounterNew, WatchdogNew, load_data
  <1>5. since' \in 0..Longest
    <2>1. SETUP + JITTER <= Longest /\ PERIOD + JITTER <= Longest /\ Longest \in Nat
      BY DEF Longest, Pause
    <2>2. echo \notin {"idle", "reset"} => since < Longest
      BY <2>1 DEF Edge, TypeOK
    <2> QED
      BY <2>1, <2>2 DEF Edge, TypeOK
  <1>6. still' \in 0..Pause
    BY DEF Edge, TypeOK, Pause
  <1>7. aligned' \in BOOLEAN /\ due' \in Packets \cup {NONE}
    BY DEF Edge, TypeOK
  <1> QED
    BY <1>1, <1>2, <1>3, <1>4, <1>5, <1>6, <1>7 DEF TypeOK

-----------------------------------------------------------------------------
(***************************************************************************)
(* The board.                                                              *)
(***************************************************************************)
\* The numbers among the variables.
LEMMA Numbers ==
  ASSUME TypeOK
  PROVE  /\ pointer \in Nat /\ pointer <= BITS /\ since \in Nat
         /\ shifter_counter \in Nat /\ shifter_counter <= BITS
         /\ shifter_watchdog \in Nat /\ shifter_watchdog <= WATCHDOG
         /\ still \in Nat /\ still <= Pause /\ Pause = WATCHDOG + 5
         /\ clkPin \in {0, 1} /\ \A i \in 1..3 : clk_delay[i] \in {0, 1}
         /\ echo \in {"idle", "run", "reset", "boot"} /\ irq \in {"out", "pins"}
         /\ aligned \in BOOLEAN
  BY Constants DEF TypeOK, Pause, Bit

LEMMA EchoStartsStep ==
  ASSUME LinkInv, NEW p \in Packets, EchoStarts(p)
  PROVE  LinkInv'
  <1> USE Constants, Numbers DEF LinkInv
  <1>1. /\ TypeOK' /\ echo = "idle" /\ irq = "out" /\ pointer \in {0, BITS} /\ still >= 3
        /\ echo' = "run" /\ packet' = p /\ pointer' = 0 /\ since' = 0
        /\ UNCHANGED <<irq, dataPin, clkPin, data_delay, clk_delay, shifter, shifter_counter,
                       shifter_watchdog, still, aligned, due>>
    BY BoardTypes DEF EchoStarts, Board, AmidBit, Slow, pins, bte, history
  <1>2. AmidBit' /\ Slow' /\ Quick'
    BY <1>1 DEF AmidBit, Slow, Quick, Quiet
  <1>3. Synchronised' /\ Watched'
    BY <1>1 DEF Synchronised, Watched
  <1>4. DueSoon'
    BY <1>1 DEF DueSoon
  <1>5. InStep'
    <2>1. CASE due # NONE
      BY <1>1, <2>1 DEF InStep, Incoming, Out, Collected
    <2>2. CASE due = NONE
      BY <1>1, <2>2 DEF InStep, Incoming, Out, Collected
    <2> QED
      BY <2>1, <2>2
  <1> QED
    BY <1>1, <1>2, <1>3, <1>4, <1>5

LEMMA IrqDataStep ==
  ASSUME LinkInv, IrqData
  PROVE  LinkInv'
  <1> USE Constants, Numbers DEF LinkInv
  <1>1. /\ TypeOK' /\ echo = "run" /\ irq = "out" /\ since >= PERIOD /\ pointer < BITS
        /\ dataPin' = packet[pointer + 1] /\ irq' = "pins" /\ since' = 0
        /\ UNCHANGED <<echo, packet, pointer, clkPin, data_delay, clk_delay, shifter,
                       shifter_counter, shifter_watchdog, still, aligned, due>>
    BY BoardTypes DEF IrqData, Board, Output, bte, history
  <1>2. AmidBit' /\ Slow' /\ Quick'
    BY <1>1 DEF AmidBit, Slow, Quick, Quiet
  <1>3. Synchronised' /\ Watched'
    BY <1>1 DEF Synchronised, Watched
  <1>4. DueSoon'
    BY <1>1 DEF DueSoon, Slow, Quiet
  <1>5. InStep'
    BY <1>1 DEF InStep, Incoming, Out, Collected
  <1> QED
    BY <1>1, <1>2, <1>3, <1>4, <1>5

LEMMA IrqClockStep ==
  ASSUME LinkInv, IrqClock
  PROVE  LinkInv'
  <1> USE Constants, Numbers DEF LinkInv
  <1>1. /\ TypeOK' /\ echo = "run" /\ irq = "pins" /\ since > 0 /\ pointer < BITS
        /\ clkPin' = 1 - clkPin /\ pointer' = pointer + 1
        /\ irq' = "out" /\ since' = 0 /\ still' = 0
        /\ due' = (IF pointer' = BITS /\ aligned THEN packet ELSE due)
        /\ UNCHANGED <<echo, packet, dataPin, data_delay, clk_delay, shifter,
                       shifter_counter, shifter_watchdog, aligned>>
    BY BoardTypes DEF IrqClock, Board, AmidBit, bte
  <1>2. /\ still >= 3 /\ due = NONE
        /\ data_delay[1] = packet[pointer + 1]
    BY <1>1 DEF AmidBit, Quiet, DueSoon
  <1>3. AmidBit' /\ Slow' /\ Quick'
    BY <1>1 DEF AmidBit, Slow, Quick, Quiet
  <1>4. Synchronised'
    BY <1>1, <1>2 DEF Synchronised
  <1>5. Watched'
    <2>1. aligned /\ shifter_counter # 0 =>
            shifter_watchdog <= PERIOD + SETUP + 2 * JITTER - 3
      <3> SUFFICES ASSUME aligned, shifter_counter # 0
                   PROVE  still <= PERIOD + SETUP + 2 * JITTER
        BY <1>2 DEF Watched
      <3>1. pointer > 0
        BY <1>1, <1>2 DEF InStep, Out
      <3> QED
        BY <1>1, <3>1 DEF Quick
    <2> QED
      BY <1>1, <2>1 DEF Watched
  <1>6. DueSoon'
    BY <1>1, <1>2 DEF DueSoon
  <1>7. InStep'
    <2> SUFFICES ASSUME aligned PROVE InStep'
      BY <1>1 DEF InStep
    <2>1. shifter_counter = pointer /\ \A i \in 1..pointer : shifter[BITS - pointer + i] = packet[i]
      BY <1>1, <1>2 DEF InStep, Out, Incoming, Collected
    <2>2. packet # NONE
      BY PacketIsSeq DEF TypeOK
    <2>3. Out' = pointer + 1 /\ Incoming' = packet
      BY <1>1, <1>2, <2>2 DEF Out, Incoming
    <2>4. Collected(Out - 1)'
      BY <1>1, <2>1, <2>3 DEF Collected
    <2> QED
      BY <1>1, <1>2, <2>3, <2>4 DEF InStep
  <1> QED
    BY <1>1, <1>3, <1>4, <1>5, <1>6, <1>7

LEMMA RestStep ==
  ASSUME LinkInv, IrqDone \/ BoardBooted
  PROVE  LinkInv'
  <1> USE Constants, Numbers DEF LinkInv
  <1>1. /\ TypeOK' /\ irq = "out" /\ still >= 3 /\ pointer \in {0, BITS}
        /\ echo' = "idle" /\ since' = 0
        /\ UNCHANGED <<packet, pointer, irq, dataPin, clkPin, data_delay, clk_delay, shifter,
                       shifter_counter, shifter_watchdog, still, aligned, due>>
    <2>1. CASE IrqDone
      BY <2>1, BoardTypes DEF IrqDone, Board, Slow, Quiet, pins, bte, history
    <2>2. CASE BoardBooted
      <3>1. irq = "out"
        BY <2>2 DEF BoardBooted, AmidBit
      <3> QED
        BY <2>2, <3>1, BoardTypes DEF BoardBooted, Board, AmidBit, Slow, Quiet, pins, bte, history
    <2> QED
      BY <2>1, <2>2
  <1>2. AmidBit' /\ Slow' /\ Quick'
    BY <1>1 DEF AmidBit, Slow, Quick, Quiet
  <1>3. Synchronised' /\ Watched' /\ DueSoon'
    BY <1>1 DEF Synchronised, Watched, DueSoon
  <1>4. InStep'
    BY <1>1 DEF InStep, Incoming, Out, Collected
  <1> QED
    BY <1>1, <1>2, <1>3, <1>4

LEMMA BoardResetsStep ==
  ASSUME LinkInv, BoardResets \/ OutputsOff
  PROVE  LinkInv'
  <1> USE Constants, Numbers DEF LinkInv
  <1>1. /\ TypeOK'
        /\ echo' \in {"reset", "boot"} /\ irq' = "out" /\ pointer' = 0 /\ since' = 0
        /\ still' = (IF clkPin' # clkPin THEN 0 ELSE still)
        /\ UNCHANGED <<data_delay, clk_delay, shifter, shifter_counter, shifter_watchdog>>
    <2>1. CASE BoardResets
      BY <2>1, BoardTypes DEF BoardResets, bte
    <2>2. CASE OutputsOff
      <3>1. TypeOK' /\ irq = "out" /\ pointer = 0 /\ clkPin \in Bit
        BY <2>2, BoardTypes DEF OutputsOff, AmidBit, Slow, TypeOK
      <3> QED
        BY <2>2, <3>1 DEF OutputsOff, bte, Bit
    <2> QED
      BY <2>1, <2>2
  <1>2. /\ aligned' => aligned /\ clkPin' = clkPin /\ pointer \in {0, BITS} /\ due' = due
        /\ ~aligned' => due' = NONE
    <2>1. CASE BoardResets
      BY <2>1 DEF BoardResets, AmidBit
    <2>2. CASE OutputsOff
      BY <2>2 DEF OutputsOff, AmidBit
    <2> QED
      BY <2>1, <2>2
  <1>3. AmidBit' /\ Slow' /\ Quick'
    BY <1>1 DEF AmidBit, Slow, Quick, Quiet
  <1>4. Synchronised'
    BY <1>1, <1>2 DEF Synchronised
  <1>5. Watched'
    <2>1. CASE clkPin' # clkPin
      BY <1>1, <1>2, <2>1 DEF Watched
    <2>2. CASE clkPin' = clkPin
      BY <1>1, <1>2, <2>2 DEF Watched
    <2> QED
      BY <2>1, <2>2
  <1>6. DueSoon'
    BY <1>1, <1>2 DEF DueSoon
  <1>7. InStep'
    <2> SUFFICES ASSUME aligned' PROVE InStep'
      BY DEF InStep
    <2>1. still' = still /\ Out' = Out /\ (due # NONE => Incoming' = Incoming)
      <3>1. due' = due /\ pointer \in {0, BITS} /\ pointer' = 0 /\ still' = still
        BY <1>1, <1>2
      <3>2. Out' = Out
        BY <3>1 DEF Out
      <3>3. due # NONE => Incoming' = Incoming
        BY <3>1 DEF Incoming
      <3> QED
        BY <3>1, <3>2, <3>3
    <2>2. due = NONE => Out = 0
      BY <1>2 DEF Out
    <2>3. CASE due = NONE
      <3>1. shifter_counter = 0 /\ still >= 3
        BY <1>2, <2>2, <2>3 DEF InStep
      <3>2. Out' = 0 /\ shifter_counter' = 0 /\ still' >= 3
        BY <1>1, <2>1, <2>2, <2>3, <3>1
      <3> QED
        BY <3>2 DEF InStep
    <2>4. CASE due # NONE
      <3>1. UNCHANGED <<data_delay, shifter, shifter_counter, still, Out, Incoming>>
        BY <1>1, <2>1, <2>4
      <3> QED
        BY <1>2, <3>1 DEF InStep, Collected
    <2> QED
      BY <2>3, <2>4
  <1> QED
    BY <1>1, <1>3, <1>4, <1>5, <1>6, <1>7

-----------------------------------------------------------------------------
(***************************************************************************)
(* An edge of the test equipment's clock.                                  *)
(***************************************************************************)
\* When a change of the clock pin comes out of the synchroniser, and what ends a
\* record: while aligned, nothing but a complete packet.
LEMMA EdgeSees ==
  ASSUME LinkInv
  PROVE  /\ still >= 3 => ~ClockChange
         /\ aligned => (ClockChange <=> still = 2)
         /\ aligned => shifter_watchdog < WATCHDOG
         /\ aligned => (load_data <=> due # NONE /\ still >= 3)
  <1> USE Constants, Numbers DEF LinkInv
  <1>1. still >= 3 => ~ClockChange
    BY DEF ClockChange, Synchronised
  <1>2. aligned => (ClockChange <=> still = 2)
    BY DEF ClockChange, Synchronised
  <1>3. aligned => shifter_watchdog < WATCHDOG
    <2> SUFFICES ASSUME aligned, shifter_counter # 0 PROVE shifter_watchdog < WATCHDOG
      BY DEF Watched
    <2>1. CASE still < 3
      BY <2>1 DEF Watched
    <2>2. CASE still >= 3 /\ due # NONE
      BY <2>2 DEF Watched, DueSoon
    <2>3. CASE still >= 3 /\ due = NONE
      <3>1. 0 < pointer /\ pointer < BITS
        BY <2>3 DEF InStep, Out
      <3>2. still <= PERIOD + SETUP + 2 * JITTER
        BY <3>1 DEF Quick
      <3> QED
        BY <2>3, <3>2 DEF Watched
    <2> QED
      BY <2>1, <2>2, <2>3
  <1>4. aligned => (shifter_counter = BITS <=> due # NONE /\ still >= 3)
    BY DEF InStep, Out, Collected
  <1> QED
    BY <1>1, <1>2, <1>3, <1>4 DEF load_data

LEMMA EdgeTiming ==
  ASSUME LinkInv, Edge
  PROVE  AmidBit' /\ Slow' /\ Quick' /\ Synchronised'
  <1> USE Constants, Numbers DEF LinkInv
  <1>1. /\ UNCHANGED <<echo, packet, pointer, irq, dataPin, clkPin>>
        /\ echo = "run" => since < (IF irq = "pins" THEN SETUP ELSE PERIOD) + JITTER
        /\ since' = (IF echo \in {"idle", "reset"} THEN since ELSE since + 1)
        /\ still' = (IF still < Pause THEN still + 1 ELSE still)
        /\ data_delay' = <<dataPin, data_delay[1], data_delay[2]>>
        /\ clk_delay' = <<clkPin, clk_delay[1], clk_delay[2]>>
    BY DEF Edge, pins
  <1>2. data_delay'[1] = dataPin
    BY <1>1
  <1>3. clk_delay'[1] = clkPin /\ clk_delay'[2] = clk_delay[1] /\ clk_delay'[3] = clk_delay[2]
    BY <1>1
  <1>4. AmidBit'
    BY <1>1, <1>2 DEF AmidBit, Quiet
  <1>5. Slow'
    BY <1>1 DEF Slow, Quiet
  <1>6. Quick'
    BY <1>1 DEF Quick, AmidBit
  <1>7. aligned' => aligned \/ still = Pause
    BY DEF Edge
  <1>8. Synchronised'
    BY <1>1, <1>3, <1>7 DEF Synchronised
  <1> QED
    BY <1>4, <1>5, <1>6, <1>8

LEMMA EdgeWatched ==
  ASSUME LinkInv, Edge
  PROVE  Watched'
  <1> USE Constants, Numbers DEF LinkInv
  <1>1. /\ shifter_counter' = CounterNew /\ shifter_watchdog' = WatchdogNew
        /\ still' = (IF still < Pause THEN still + 1 ELSE still)
        /\ aligned' => aligned \/ still = Pause
    BY DEF Edge
  <1>2. CASE load_data
    BY <1>1, <1>2 DEF CounterNew, WatchdogNew, Watched
  <1>3. CASE ~load_data /\ write_shifter
    <2>1. still < 3 /\ (aligned => still = 2)
      BY <1>3, EdgeSees DEF write_shifter
    <2>2. shifter_counter' = shifter_counter + 1 /\ shifter_watchdog' = 0
      BY <1>1, <1>3 DEF CounterNew, WatchdogNew
    <2> QED
      BY <1>1, <2>1, <2>2 DEF Watched
  <1>4. CASE ~load_data /\ ~write_shifter
    <2>1. /\ shifter_counter' = shifter_counter
          /\ shifter_watchdog' = IF shifter_counter # 0 THEN shifter_watchdog + 1
                                 ELSE shifter_watchdog
      BY <1>1, <1>4 DEF CounterNew, WatchdogNew
    <2>2. shifter_watchdog < WATCHDOG
      BY <1>4 DEF load_data, TypeOK
    <2>3. aligned' /\ still < 3 => aligned /\ still # 2
      <3>1. aligned' => ~(INHIBIT /\ ClockChange)
        BY DEF Edge
      <3>2. ClockChange => INHIBIT
        BY <1>4 DEF write_shifter
      <3> QED
        BY <1>1, <3>1, <3>2, EdgeSees
    <2>4. shifter_counter # 0 => still < Pause
      BY <2>2 DEF Watched
    <2> QED
      BY <1>1, <2>1, <2>2, <2>3, <2>4 DEF Watched
  <1> QED
    BY <1>2, <1>3, <1>4

\* A step out of alignment, or back into it.
LEMMA EdgeUnaligned ==
  ASSUME LinkInv, Edge, ~aligned
  PROVE  DueSoon' /\ InStep'
  <1> USE Constants, Numbers DEF LinkInv
  <1>1. due = NONE /\ due' = NONE
    BY DEF DueSoon, Edge
  <1>2. DueSoon'
    BY <1>1 DEF DueSoon
  <1>3. InStep'
    <2> SUFFICES ASSUME aligned' PROVE InStep'
      BY DEF InStep
    <2>1. still = Pause /\ pointer \in {0, BITS}
      BY DEF Edge
    <2>2. shifter_counter = 0
      BY <2>1 DEF Watched
    <2>3. ~write_shifter
      BY <2>1, EdgeSees DEF write_shifter
    <2>4. shifter_counter' = 0 /\ still' = still /\ pointer' = pointer
      BY <2>1, <2>2, <2>3 DEF Edge, CounterNew
    <2>5. Out' = 0
      BY <1>1, <2>1, <2>4 DEF Out
    <2> QED
      BY <2>1, <2>4, <2>5 DEF InStep
  <1> QED
    BY <1>2, <1>3

LEMMA EdgeAligned ==
  ASSUME LinkInv, Edge, aligned
  PROVE  DueSoon' /\ InStep'
  <1> USE Constants, Numbers DEF LinkInv
  <1>1. CASE ~aligned'
    BY <1>1 DEF Edge, DueSoon, InStep
  <1>2. CASE aligned'
    <2>1. /\ ~(INHIBIT /\ ClockChange)
          /\ still' = (IF still < Pause THEN still + 1 ELSE still)
          /\ UNCHANGED <<packet, pointer, irq>>
          /\ due' = IF load_data THEN NONE ELSE due
          /\ shifter_counter' = CounterNew
          /\ shifter' = IF write_shifter THEN Append(Tail(shifter), data_delay[3]) ELSE shifter
          /\ data_delay'[2] = data_delay[1] /\ data_delay'[3] = data_delay[2]
      BY <1>2 DEF Edge
    <2>2. CASE due # NONE /\ still >= 3
      <3>1. due' = NONE /\ shifter_counter' = 0 /\ still' >= 3
        BY <2>1, <2>2, EdgeSees DEF CounterNew
      <3>2. Out' = 0
        BY <2>1, <2>2, <3>1 DEF Out, DueSoon
      <3> QED
        BY <3>1, <3>2 DEF DueSoon, InStep
    <2>3. CASE ~(due # NONE /\ still >= 3)
      <3>1. ~load_data /\ due' = due
        BY <2>1, <2>3, EdgeSees
      <3>2. Out' = Out /\ Incoming' = Incoming
        BY <2>1, <3>1 DEF Out, Incoming
      <3>3. DueSoon'
        BY <1>2, <2>1, <2>3, <3>1 DEF DueSoon
      <3>4. InStep'
        <4>1. CASE still = 2
          <5>1. /\ Out \in 1..BITS /\ shifter_counter = Out - 1
                /\ \A i \in 1..(Out - 1) : shifter[BITS - (Out - 1) + i] = Incoming[i]
                /\ data_delay[3] = Incoming[Out]
            BY <4>1 DEF InStep, Collected, Out
          <5>2. write_shifter
            BY <2>1, <4>1, EdgeSees DEF write_shifter
          <5>3. shifter_counter' = Out /\ still' = 3
            BY <2>1, <3>1, <4>1, <5>1, <5>2 DEF CounterNew
          <5>4. /\ \A i \in 1..(BITS - 1) : shifter'[i] = shifter[i + 1]
                /\ shifter'[BITS] = data_delay[3]
            <6>1. shifter' = Append(Tail(shifter), data_delay[3])
              BY <2>1, <5>2
            <6>2. shifter \in Packets /\ data_delay[3] \in Bit
              BY DEF TypeOK
            <6> QED
              BY <6>1, <6>2, Shifted
          <5>5. \A i \in 1..Out : shifter'[BITS - Out + i] = Incoming[i]
            <6> SUFFICES ASSUME NEW i \in 1..Out
                         PROVE  shifter'[BITS - Out + i] = Incoming[i]
              OBVIOUS
            <6>1. CASE i = Out
              BY <5>1, <5>4, <6>1
            <6>2. CASE i < Out
              <7>1. /\ BITS - Out + i \in 1..(BITS - 1)
                    /\ BITS - Out + i + 1 = BITS - (Out - 1) + i
                    /\ i \in 1..(Out - 1)
                BY <5>1, <6>2
              <7> QED
                BY <5>1, <5>4, <7>1
            <6> QED
              BY <5>1, <6>1, <6>2
          <5>6. Collected(Out)'
            BY <3>2, <5>3, <5>5 DEF Collected
          <5> QED
            BY <3>2, <5>1, <5>3, <5>6 DEF InStep
        <4>2. CASE still < 2
          <5>1. ~write_shifter
            BY <4>2, EdgeSees DEF write_shifter
          <5>2. /\ shifter' = shifter /\ shifter_counter' = shifter_counter
                /\ still' = still + 1 /\ data_delay'[still' + 1] = data_delay[still + 1]
            BY <2>1, <3>1, <4>2, <5>1 DEF CounterNew
          <5>3. Out > 0 /\ Collected(Out - 1) /\ data_delay[still + 1] = Incoming[Out]
            BY <4>2 DEF InStep
          <5>4. Collected(Out - 1)'
            BY <3>2, <5>2, <5>3 DEF Collected
          <5> QED
            BY <3>2, <4>2, <5>2, <5>3, <5>4 DEF InStep
        <4>3. CASE still >= 3
          <5>1. ~write_shifter
            BY <4>3, EdgeSees DEF write_shifter
          <5>2. shifter' = shifter /\ shifter_counter' = shifter_counter /\ still' >= 3
            BY <2>1, <3>1, <4>3, <5>1 DEF CounterNew
          <5>3. CASE Out = 0
            BY <3>2, <4>3, <5>2, <5>3 DEF InStep
          <5>4. CASE Out > 0
            <6>1. Collected(Out)
              BY <4>3, <5>4 DEF InStep
            <6>2. Collected(Out)'
              BY <3>2, <5>2, <6>1 DEF Collected
            <6> QED
              BY <3>2, <5>2, <5>4, <6>2 DEF InStep
          <5> QED
            BY <4>3, <5>3, <5>4 DEF InStep
        <4> QED
          BY <4>1, <4>2, <4>3
      <3> QED
        BY <3>3, <3>4
    <2> QED
      BY <2>2, <2>3
  <1> QED
    BY <1>1, <1>2

LEMMA LinkInvariant == Spec => []LinkInv
  <1>1. LinkInv /\ [Next]_vars => LinkInv'
    <2> SUFFICES ASSUME LinkInv, [Next]_vars PROVE LinkInv'
      OBVIOUS
    <2>1. CASE Board
      BY <2>1, EchoStartsStep, IrqDataStep, IrqClockStep, RestStep DEF Board
    <2>2. CASE BoardResets \/ OutputsOff
      BY <2>2, BoardResetsStep
    <2>3. CASE MoveSwitch \/ UNCHANGED vars
      <3>1. UNCHANGED <<board, pins, bte, history>> /\ TypeOK'
        <4>1. CASE MoveSwitch
          BY <4>1, BoardTypes DEF MoveSwitch, LinkInv
        <4>2. CASE UNCHANGED vars
          BY <4>2 DEF vars, board, pins, bte, history, LinkInv, TypeOK
        <4> QED
          BY <2>3, <4>1, <4>2
      <3>2. AmidBit' /\ Slow' /\ Quick' /\ Synchronised' /\ Watched' /\ DueSoon'
        BY <3>1 DEF LinkInv, AmidBit, Slow, Quick, Synchronised, Watched, DueSoon, Quiet,
                    board, pins, bte, history
      <3>3. InStep'
        BY <3>1 DEF LinkInv, InStep, Out, Incoming, Collected, board, bte, history
      <3> QED
        BY <3>1, <3>2, <3>3 DEF LinkInv
    <2>4. CASE Edge
      <3>1. TypeOK'
        BY <2>4, EdgeTypes DEF LinkInv
      <3>2. DueSoon' /\ InStep'
        BY <2>4, EdgeAligned, EdgeUnaligned
      <3> QED
        BY <2>4, <3>1, <3>2, EdgeTiming, EdgeWatched DEF LinkInv
    <2> QED
      BY <2>1, <2>2, <2>3, <2>4 DEF Next
  <1> QED
    BY <1>1, LinkInit, PTL DEF Spec

-----------------------------------------------------------------------------
(***************************************************************************)
(* The pointer of receiveMotorCommandEcho stays inside the packet, and the *)
(* counters of MONITOR_SHIFTER.v within their limits.                      *)
(***************************************************************************)
THEOREM LinkTypeCorrect == Spec => []TypeOK
  BY LinkInvariant, PTL DEF LinkInv

(***************************************************************************)
(* MONITOR_SHIFTER.v records a packet within 4 edges of its last bit.      *)
(***************************************************************************)
THEOREM LinkPrompt == Spec => []PromptlyRecorded
  <1>1. LinkInv => PromptlyRecorded
    BY Numbers DEF LinkInv, DueSoon, PromptlyRecorded
  <1> QED
    BY <1>1, LinkInvariant, PTL

(***************************************************************************)
(* What MONITOR_SHIFTER.v records is the packet receiveMotorCommandEcho    *)
(* sent, bit for bit, whatever the board and the switch did before the     *)
(* last pause.                                                             *)
(***************************************************************************)
THEOREM LinkFaithful == Spec => Faithful
  <1>1. LinkInv /\ [Next]_vars =>
          [Edge /\ load_data /\ aligned => due # NONE /\ record' = due]_vars
    <2> SUFFICES ASSUME LinkInv, Edge, load_data, aligned
                 PROVE  due # NONE /\ record' = due
      OBVIOUS
    <2> USE Constants, Numbers DEF LinkInv
    <2>1. due # NONE /\ still >= 3
      BY EdgeSees
    <2>2. \A i \in 1..BITS : shifter[i] = due[i]
      <3>1. Collected(BITS) /\ Incoming = due
        BY <2>1 DEF InStep, Out, Incoming
      <3> QED
        BY <3>1 DEF Collected
    <2>3. shifter \in [1..BITS -> Bit] /\ due \in [1..BITS -> Bit]
      BY <2>1 DEF TypeOK, Packets
    <2>4. shifter = due
      BY <2>2, <2>3
    <2> QED
      BY <2>1, <2>4 DEF Edge
  <1> QED
    BY <1>1, LinkInvariant, PTL DEF Spec, Faithful

=============================================================================
