--------------------------- MODULE RecorderProofs ---------------------------
(***************************************************************************)
(* Machine-checked theorems about the log of the test equipment, for every *)
(* number of controllers, every STABLE and TIMEOUT, every size of a record *)
(* and every baud rate; and, in the last part, for the two controllers     *)
(* there are.                                                              *)
(***************************************************************************)
EXTENDS Recorder, TLAPS

-----------------------------------------------------------------------------
\* The registers of FIFO_TO_ASCII.v and UART.v stay in range.
UartTypeOK ==
  /\ nibble_counter \in 0..NIBBLES /\ char \in 0..NIBBLES
  /\ bits \in 0..CHAR /\ total_counter \in 0..FRAME
  /\ idle \in BOOLEAN /\ fifo_read_d1 \in BOOLEAN

LEMMA UartInit == Init => UartTypeOK /\ CharactersOut
  <1> SUFFICES ASSUME Init PROVE UartTypeOK /\ CharactersOut
    OBVIOUS
  <1>1. /\ nibble_counter = 0 /\ char = 0 /\ bits = 0 /\ total_counter = 0
        /\ idle = TRUE /\ fifo_read_d1 = FALSE
    BY DEF Init
  <1>2. 0 \in 0..NIBBLES /\ 0 \in 0..CHAR /\ 0 \in 0..FRAME /\ ~(0 > 0)
    BY RecorderAssumption DEF FRAME
  <1> QED
    BY <1>1, <1>2, Zenon DEF UartTypeOK, CharactersOut

\* A character is asked for only when the line is idle.
LEMMA ReadWhenIdle == ASCII_READ => idle
  BY DEF ASCII_READ

LEMMA UartStep ==
  ASSUME UartTypeOK, CharactersOut, Ascii, Uart
  PROVE  UartTypeOK' /\ CharactersOut'
  <1>0. NIBBLES \in Nat \ {0} /\ CHAR \in Nat \ {0} /\ FRAME = CHAR + 2
    BY RecorderAssumption DEF FRAME
  <1>1. /\ nibble_counter \in 0..NIBBLES /\ char \in 0..NIBBLES
        /\ bits \in 0..CHAR /\ total_counter \in 0..FRAME
    BY DEF UartTypeOK
  <1>2. /\ fifo_read_d1' = ASCII_READ
        /\ idle' = (~ASCII_READ /\ (idle \/ total_counter = 0))
    BY DEF Uart, IdleNext
  <1>3. idle' \in BOOLEAN /\ fifo_read_d1' \in BOOLEAN
    BY <1>2, Zenon DEF ASCII_READ
  <1>4. CASE ASCII_READ
    <2>1. idle /\ ~fifo_read_d1 /\ bits = 0 /\ nibble_counter = char
      BY <1>4, ReadWhenIdle, Zenon DEF CharactersOut
    <2>2. fifo_read_d1' /\ ~idle'
      BY <1>2, <1>4, Zenon
    <2>3. bits' = 0 /\ total_counter' = FRAME /\ char' = char
      BY <2>1, <1>1, <1>4 DEF Uart
    <2>4. nibble_counter' = IF nibble_counter = 0 THEN NIBBLES ELSE nibble_counter - 1
      BY <1>4 DEF Ascii, fifo_big_read
    <2>5. nibble_counter' = IF char' = 0 THEN NIBBLES ELSE char' - 1
      BY <2>1, <2>3, <2>4
    <2>6. /\ nibble_counter' \in 0..NIBBLES /\ char' \in 0..NIBBLES
          /\ bits' \in 0..CHAR /\ total_counter' \in 0..FRAME /\ ~(bits' > 0)
      BY <1>0, <1>1, <2>3, <2>5
    <2> QED
      BY <1>3, <2>2, <2>3, <2>5, <2>6, Zenon DEF UartTypeOK, CharactersOut
  <1>5. CASE ~ASCII_READ /\ fifo_read_d1
    <2>1. /\ ~idle /\ total_counter = FRAME
          /\ nibble_counter = IF char = 0 THEN NIBBLES ELSE char - 1
      BY <1>5, Zenon DEF CharactersOut
    <2>2. total_counter # 0
      BY <2>1, <1>0
    <2>3. ~fifo_read_d1' /\ ~idle'
      BY <1>2, <1>5, <2>1, <2>2, Zenon
    <2>4. bits' = CHAR /\ char' = nibble_counter /\ nibble_counter' = nibble_counter
      BY <1>5 DEF Uart, Ascii, fifo_big_read
    <2>5. total_counter' = FRAME \/ total_counter' = FRAME - 1
      BY <1>5, <2>1 DEF Uart
    <2>6. /\ nibble_counter' \in 0..NIBBLES /\ char' \in 0..NIBBLES
          /\ bits' \in 0..CHAR /\ total_counter' \in 0..FRAME /\ total_counter' > bits'
      BY <1>0, <1>1, <2>4, <2>5
    <2> QED
      BY <1>3, <2>3, <2>4, <2>6, Zenon DEF UartTypeOK, CharactersOut
  <1>6. CASE ~ASCII_READ /\ ~fifo_read_d1
    <2>1. nibble_counter = char /\ (idle => bits = 0) /\ (bits > 0 => total_counter > bits)
      BY <1>6, Zenon DEF CharactersOut
    <2>2. ~fifo_read_d1' /\ (idle' => idle \/ total_counter = 0)
      BY <1>2, <1>6, Zenon
    <2>3. char' = char /\ nibble_counter' = nibble_counter
      BY <1>6 DEF Uart, Ascii, fifo_big_read
    <2>4. /\ bits' = IF baud_counter_done /\ bits > 0 THEN bits - 1 ELSE bits
          /\ total_counter' = IF baud_counter_done /\ total_counter > 0
                              THEN total_counter - 1 ELSE total_counter
      BY <1>6 DEF Uart
    <2>5. /\ bits' \in 0..CHAR /\ total_counter' \in 0..FRAME
          /\ bits' > 0 => total_counter' > bits'
          /\ bits = 0 => bits' = 0
      BY <1>0, <1>1, <2>1, <2>4
    <2>6. total_counter = 0 => bits = 0
      BY <1>1, <2>1
    <2>7. nibble_counter' = char' /\ nibble_counter' \in 0..NIBBLES /\ char' \in 0..NIBBLES
      BY <1>1, <2>1, <2>3
    <2> QED
      BY <1>3, <2>1, <2>2, <2>5, <2>6, <2>7, Zenon DEF UartTypeOK, CharactersOut
  <1> QED
    BY <1>4, <1>5, <1>6

LEMMA UartInvariant == Spec => [](UartTypeOK /\ CharactersOut)
  <1>1. UartTypeOK /\ CharactersOut /\ [Next]_vars => UartTypeOK' /\ CharactersOut'
    <2> SUFFICES ASSUME UartTypeOK, CharactersOut, [Next]_vars
                 PROVE  UartTypeOK' /\ CharactersOut'
      OBVIOUS
    <2>1. CASE Next
      BY <2>1, UartStep DEF Next, Clock
    <2>2. CASE UNCHANGED vars
      BY <2>2 DEF vars, ascii, uart, UartTypeOK, CharactersOut
    <2> QED
      BY <2>1, <2>2
  <1> QED
    BY <1>1, UartInit, PTL DEF Spec

\* Lines are whole: for every size of a record and every baud rate the
\* characters of FIFO_TO_ASCII.v follow each other in UART.v, each of them only
\* when the last bit of the one before is out, whatever the sources do.
THEOREM RecorderLinesWhole == Spec => LinesWhole
  <1>1. UartTypeOK /\ CharactersOut /\ [Next]_vars
          => [fifo_read_d1 =>
                bits = 0 /\ char' = (IF char = 0 THEN NIBBLES ELSE char - 1)]_vars
    <2> SUFFICES ASSUME CharactersOut, Next, fifo_read_d1
                 PROVE  bits = 0 /\ char' = (IF char = 0 THEN NIBBLES ELSE char - 1)
      OBVIOUS
    <2>1. char' = nibble_counter
      BY DEF Next, Clock, Uart
    <2> QED
      BY <2>1, Zenon DEF CharactersOut
  <1> QED
    BY <1>1, UartInvariant, PTL DEF Spec, LinesWhole

-----------------------------------------------------------------------------
\* The registers of the monitors and the last record stay in range.
LinesTypeOK == MonitorTypeOK /\ told \in States

\* What the types say of one controller.
LEMMA LineTypes ==
  ASSUME LinesTypeOK, NEW c \in Controllers
  PROVE  /\ STABLE \in Nat /\ STABLE > 1 /\ TIMEOUT \in Nat /\ TIMEOUT > 0
         /\ prime_ones[c] \in 0..STABLE /\ alive_counter[c] \in 0..(TIMEOUT + 1)
         /\ alive_state[c] \in {"IDLE", "LOW", "HIGH"} /\ stored_alive[c] \in Bit
         /\ level[c] \in Bit /\ held[c] \in 1..(STABLE + 2) /\ quiet[c] \in 0..(TIMEOUT + 3)
         /\ curr_state[c].prime \in Bit /\ curr_state[c].alive \in Bit
         /\ told[c].prime \in Bit /\ told[c].alive \in Bit
  <1>1. curr_state[c] \in Status /\ told[c] \in Status
    BY DEF LinesTypeOK, MonitorTypeOK, States
  <1> QED
    BY <1>1, AliveAssumption
    DEF LinesTypeOK, MonitorTypeOK, PrimeSettled, AliveSettled, Status

\* The status of a line is a record of two bits.
LEMMA NextStateType ==
  /\ next_state \in States
  /\ \A c \in Controllers :
       /\ next_state[c].prime = IF prime_ones[c] = STABLE THEN 1 ELSE 0
       /\ next_state[c].alive = IF alive_state[c] # "IDLE" THEN 1 ELSE 0
  BY DEF next_state, States, Status, Bit

LEMMA LinesInit == Init => LinesTypeOK /\ LinesTold
  <1> SUFFICES ASSUME Init PROVE LinesTypeOK /\ LinesTold
    OBVIOUS
  <1> USE AliveAssumption
  <1>1. AllQuiet \in States
    BY DEF AllQuiet, States, Status, Bit
  <1>2. LinesTypeOK
    <2>1. /\ prime_ones \in [Controllers -> 0..STABLE]
          /\ alive_state \in [Controllers -> {"IDLE", "LOW", "HIGH"}]
          /\ stored_alive \in [Controllers -> Bit]
          /\ alive_counter \in [Controllers -> 0..(TIMEOUT + 1)]
          /\ level \in [Controllers -> Bit]
          /\ held \in [Controllers -> 1..PrimeSettled(1)]
          /\ quiet \in [Controllers -> 0..AliveSettled]
      BY DEF Init, MonitorInit, Bit, PrimeSettled, AliveSettled
    <2>2. curr_state \in States /\ told \in States
      BY <1>1 DEF Init, MonitorInit
    <2>3. state_change \in BOOLEAN
      BY DEF Init, MonitorInit
    <2> QED
      BY <2>1, <2>2, <2>3 DEF LinesTypeOK, MonitorTypeOK
  <1>3. LinesTold
    <2>1. told = curr_state
      BY DEF Init, MonitorInit
    <2>2. ASSUME NEW c \in Controllers
          PROVE  /\ prime_ones[c] = 0 /\ level[c] = 0 /\ held[c] = 3
                 /\ curr_state[c].prime = 0 /\ curr_state[c].alive = 0
                 /\ told[c].prime = 0 /\ told[c].alive = 0
                 /\ alive_state[c] = "IDLE" /\ quiet[c] = TIMEOUT + 3
      BY DEF Init, MonitorInit, AllQuiet, PrimeSettled, AliveSettled
    <2> QED
      BY <2>1, <2>2 DEF LinesTold
  <1> QED
    BY <1>2, <1>3

\* The last record is the state of an edge ago.
LEMMA ToldStep ==
  ASSUME ~state_change => told = curr_state, told' = IF state_change THEN curr_state ELSE told
  PROVE  told' = curr_state
  OBVIOUS

LEMMA LinesTypeStep ==
  ASSUME LinesTypeOK, LinesTold,
         NEW PRIME \in [Controllers -> Bit], NEW ALIVE \in [Controllers -> Bit],
         Sample(PRIME, ALIVE), told' = curr_state
  PROVE  LinesTypeOK'
  <1> USE AliveAssumption
  <1>1. curr_state' \in States /\ told' \in States
    BY NextStateType DEF Sample, LinesTypeOK, MonitorTypeOK
  <1>2. state_change' \in BOOLEAN
    BY Zenon DEF Sample
  <1>3. prime_ones' \in [Controllers -> 0..STABLE]
    BY DEF Sample, OnesNext, UpTo, LinesTypeOK, MonitorTypeOK
  <1>4. alive_state' \in [Controllers -> {"IDLE", "LOW", "HIGH"}]
    BY DEF Sample, FsmNext, LinesTypeOK, MonitorTypeOK
  <1>5. stored_alive' \in [Controllers -> Bit] /\ level' \in [Controllers -> Bit]
    BY DEF Sample
  <1>6. held' \in [Controllers -> 1..PrimeSettled(1)]
    BY DEF Sample, UpTo, PrimeSettled, LinesTypeOK, MonitorTypeOK
  <1>7. quiet' \in [Controllers -> 0..AliveSettled]
    BY DEF Sample, UpTo, AliveSettled, LinesTypeOK, MonitorTypeOK
  <1>8. alive_counter' \in [Controllers -> 0..(TIMEOUT + 1)]
    <2>1. ASSUME NEW c \in Controllers PROVE CounterNext(c, ALIVE[c]) \in 0..(TIMEOUT + 1)
      BY LineTypes DEF CounterNext, LinesTold
    <2> QED
      BY <2>1 DEF Sample
  <1> QED
    BY <1>1, <1>2, <1>3, <1>4, <1>5, <1>6, <1>7, <1>8 DEF LinesTypeOK, MonitorTypeOK

\* A sample of PRIME on its way to the record.
LEMMA PrimeStep ==
  ASSUME LinesTypeOK, LinesTypeOK', LinesTold,
         NEW PRIME \in [Controllers -> Bit], NEW ALIVE \in [Controllers -> Bit],
         Sample(PRIME, ALIVE), told' = curr_state, NEW c \in Controllers
  PROVE  /\ prime_ones'[c] = (IF level'[c] = 0 THEN 0
                              ELSE IF held'[c] < STABLE THEN held'[c] ELSE STABLE)
         /\ level'[c] = 1 /\ held'[c] >= STABLE + 1 => curr_state'[c].prime = 1
         /\ level'[c] = 0 /\ held'[c] >= 2 => curr_state'[c].prime = 0
         /\ level'[c] = 1 /\ held'[c] >= STABLE + 2 => told'[c].prime = 1
         /\ level'[c] = 0 /\ held'[c] >= 3 => told'[c].prime = 0
  <1>1. /\ STABLE \in Nat /\ STABLE > 1 /\ prime_ones[c] \in 0..STABLE
        /\ level[c] \in {0, 1} /\ held[c] \in 1..(STABLE + 2) /\ PRIME[c] \in {0, 1}
    BY LineTypes DEF Bit
  <1>2. /\ prime_ones[c] = (IF level[c] = 0 THEN 0
                            ELSE IF held[c] < STABLE THEN held[c] ELSE STABLE)
        /\ level[c] = 1 /\ held[c] >= STABLE + 1 => curr_state[c].prime = 1
        /\ level[c] = 0 /\ held[c] >= 2 => curr_state[c].prime = 0
    BY DEF LinesTold
  <1>3. /\ level'[c] = PRIME[c]
        /\ prime_ones'[c] = (IF PRIME[c] = 1 THEN UpTo(prime_ones[c], STABLE) ELSE 0)
        /\ held'[c] = (IF PRIME[c] = level[c] THEN UpTo(held[c], PrimeSettled(PRIME[c])) ELSE 1)
    BY DEF Sample, OnesNext
  <1>4. curr_state'[c].prime = IF prime_ones[c] = STABLE THEN 1 ELSE 0
    BY NextStateType DEF Sample
  <1>5. CASE PRIME[c] # level[c]
    <2>1. held'[c] = 1 /\ prime_ones'[c] = (IF PRIME[c] = 0 THEN 0 ELSE 1)
      BY <1>1, <1>2, <1>3, <1>5 DEF UpTo
    <2> QED
      BY <1>1, <1>3, <2>1
  <1>6. CASE PRIME[c] = 0 /\ level[c] = 0
    <2>1. prime_ones'[c] = 0 /\ curr_state'[c].prime = 0
      BY <1>1, <1>2, <1>3, <1>4, <1>6
    <2>2. held'[c] >= 3 => held[c] >= 2
      BY <1>1, <1>3, <1>6 DEF UpTo, PrimeSettled
    <2> QED
      BY <1>1, <1>2, <1>3, <1>6, <2>1, <2>2
  <1>7. CASE PRIME[c] = 1 /\ level[c] = 1
    <2>1. held'[c] = IF held[c] < STABLE + 2 THEN held[c] + 1 ELSE STABLE + 2
      BY <1>3, <1>7 DEF UpTo, PrimeSettled
    <2>2. prime_ones'[c] = IF held'[c] < STABLE THEN held'[c] ELSE STABLE
      BY <1>1, <1>2, <1>3, <1>7, <2>1 DEF UpTo
    <2>3. held'[c] >= STABLE + 1 => prime_ones[c] = STABLE
      BY <1>1, <1>2, <1>7, <2>1
    <2>4. held'[c] >= STABLE + 2 => held[c] >= STABLE + 1
      BY <1>1, <2>1
    <2> QED
      BY <1>1, <1>2, <1>3, <1>4, <1>7, <2>2, <2>3, <2>4
  <1> QED
    BY <1>1, <1>5, <1>6, <1>7

\* A sample of ALIVE on its way to the record.
LEMMA AliveStep ==
  ASSUME LinesTypeOK, LinesTypeOK', LinesTold,
         NEW PRIME \in [Controllers -> Bit], NEW ALIVE \in [Controllers -> Bit],
         Sample(PRIME, ALIVE), told' = curr_state, NEW c \in Controllers
  PROVE  /\ alive_state'[c] # "IDLE" => alive_counter'[c] = quiet'[c] /\ quiet'[c] <= TIMEOUT
         /\ alive_state'[c] = "IDLE" => quiet'[c] > TIMEOUT
         /\ quiet'[c] >= 1 => (curr_state'[c].alive = 1 <=> quiet'[c] <= TIMEOUT + 1)
         /\ quiet'[c] >= 2 => (told'[c].alive = 1 <=> quiet'[c] <= TIMEOUT + 2)
  <1>1. /\ TIMEOUT \in Nat /\ TIMEOUT > 0 /\ alive_counter[c] \in 0..(TIMEOUT + 1)
        /\ quiet[c] \in 0..(TIMEOUT + 3)
    BY LineTypes
  <1>2. /\ alive_state[c] # "IDLE" => alive_counter[c] = quiet[c] /\ quiet[c] <= TIMEOUT
        /\ alive_state[c] = "IDLE" => quiet[c] > TIMEOUT
        /\ quiet[c] >= 1 => (curr_state[c].alive = 1 <=> quiet[c] <= TIMEOUT + 1)
    BY DEF LinesTold
  <1>3. /\ alive_state'[c] = FsmNext(c, ALIVE[c])
        /\ alive_counter'[c] = CounterNext(c, ALIVE[c])
        /\ quiet'[c] = IF ALIVE[c] = stored_alive[c] THEN UpTo(quiet[c], AliveSettled) ELSE 0
    BY DEF Sample
  <1>4. curr_state'[c].alive = IF alive_state[c] # "IDLE" THEN 1 ELSE 0
    BY NextStateType DEF Sample
  <1>5. CASE ALIVE[c] # stored_alive[c]
    <2>1. quiet'[c] = 0 /\ alive_counter'[c] = 0 /\ alive_state'[c] # "IDLE"
      BY <1>3, <1>5 DEF FsmNext, CounterNext
    <2> QED
      BY <1>1, <2>1
  <1>6. CASE ALIVE[c] = stored_alive[c]
    <2>1. quiet'[c] = IF quiet[c] < TIMEOUT + 3 THEN quiet[c] + 1 ELSE TIMEOUT + 3
      BY <1>3, <1>6 DEF UpTo, AliveSettled
    <2>2. curr_state'[c].alive = 1 <=> quiet[c] <= TIMEOUT
      BY <1>1, <1>2, <1>4
    <2>3. curr_state'[c].alive = 1 <=> quiet'[c] <= TIMEOUT + 1
      BY <1>1, <2>1, <2>2
    <2>4. quiet'[c] >= 2 => (told'[c].alive = 1 <=> quiet'[c] <= TIMEOUT + 2)
      BY <1>1, <1>2, <2>1
    <2>5. CASE alive_state[c] = "IDLE"
      <3>1. alive_state'[c] = "IDLE"
        BY <1>3, <1>6, <2>5 DEF FsmNext
      <3>2. quiet'[c] > TIMEOUT
        BY <1>1, <1>2, <2>1, <2>5
      <3> QED
        BY <3>1, <3>2, <2>3, <2>4
    <2>6. CASE alive_state[c] # "IDLE"
      <3>1. /\ alive_state'[c] = IF quiet[c] = TIMEOUT THEN "IDLE" ELSE alive_state[c]
            /\ alive_counter'[c] = quiet[c] + 1
        BY <1>2, <1>3, <1>6, <2>6 DEF FsmNext, CounterNext
      <3>2. quiet'[c] = quiet[c] + 1 /\ quiet[c] <= TIMEOUT
        BY <1>1, <1>2, <2>1, <2>6
      <3> QED
        BY <1>1, <3>1, <3>2, <2>3, <2>4, <2>6
    <2> QED
      BY <2>5, <2>6
  <1> QED
    BY <1>5, <1>6

LEMMA LinesInvariant == Spec => [](LinesTypeOK /\ LinesTold)
  <1>1. LinesTypeOK /\ LinesTold /\ [Next]_vars => LinesTypeOK' /\ LinesTold'
    <2> SUFFICES ASSUME LinesTypeOK, LinesTold, [Next]_vars
                 PROVE  LinesTypeOK' /\ LinesTold'
      OBVIOUS
    <2>1. CASE Next
      <3>1. PICK PRIME \in [Controllers -> Bit], ALIVE \in [Controllers -> Bit],
                 press \in BOOLEAN, load \in BOOLEAN : Clock(PRIME, ALIVE, press, load)
        BY <2>1 DEF Next
      <3>2. Sample(PRIME, ALIVE) /\ told' = curr_state
        BY <3>1, ToldStep DEF Clock, Owe, LinesTold
      <3>3. LinesTypeOK'
        BY <3>2, LinesTypeStep
      <3>4. ~state_change' => told' = curr_state'
        BY <3>2 DEF Sample
      <3> QED
        BY <3>2, <3>3, <3>4, PrimeStep, AliveStep DEF LinesTold
    <2>2. CASE UNCHANGED vars
      BY <2>2 DEF vars, monitor, fsm, lines, history, LinesTypeOK, MonitorTypeOK, LinesTold
    <2> QED
      BY <2>1, <2>2
  <1> QED
    BY <1>1, LinesInit, PTL DEF Spec

\* The log tells the state of the lines, for any number of controllers: by the
\* last record of PRIME_ALIVE_MONITOR.v a settled PRIME is what it is, and a
\* controller is alive exactly if ALIVE_FSM.v saw its line change in time.
THEOREM RecorderLogTellsState == Spec => []LogTellsState
  <1>1. LinesTypeOK /\ LinesTold => LogTellsState
    <2> SUFFICES ASSUME LinesTypeOK, LinesTold, NEW c \in Controllers
                 PROVE  /\ held[c] = PrimeSettled(level[c]) => told[c].prime = level[c]
                        /\ quiet[c] >= 2 => (told[c].alive = 1 <=> quiet[c] < AliveSettled)
      BY DEF LogTellsState
    <2>1. /\ STABLE \in Nat /\ TIMEOUT \in Nat /\ level[c] \in {0, 1}
          /\ held[c] \in 1..(STABLE + 2) /\ quiet[c] \in 0..(TIMEOUT + 3)
      BY LineTypes DEF Bit
    <2>2. /\ level[c] = 1 /\ held[c] >= STABLE + 2 => told[c].prime = 1
          /\ level[c] = 0 /\ held[c] >= 3 => told[c].prime = 0
          /\ quiet[c] >= 2 => (told[c].alive = 1 <=> quiet[c] <= TIMEOUT + 2)
      BY DEF LinesTold
    <2>3. held[c] = PrimeSettled(level[c]) => told[c].prime = level[c]
      BY <2>1, <2>2 DEF PrimeSettled
    <2>4. quiet[c] <= TIMEOUT + 2 <=> quiet[c] < AliveSettled
      BY <2>1 DEF AliveSettled
    <2> QED
      BY <2>2, <2>3, <2>4
  <1> QED
    BY <1>1, LinesInvariant, PTL

-----------------------------------------------------------------------------
(***************************************************************************)
(* The way of a record from its source to the big FIFO.                    *)
(***************************************************************************)
LEMMA Sizes ==
  /\ SMALL \in Nat /\ SMALL > 0 /\ DEPTH \in Nat /\ DEPTH > 0
  /\ BAUD_PERIOD \in Nat /\ BAUD_PERIOD > 0
  /\ LoadGap \in Nat /\ LoadGap > 0 /\ PressGap \in Nat /\ PressGap > 0
  BY RecorderAssumption

\* The registers of FIFO_ARBITER.v, of the FIFOs and of the sources.
SmallTypeOK ==
  /\ prime_alive_fifo \in 0..SMALL /\ error_fifo \in 0..SMALL
  /\ since_load \in 0..LoadGap /\ since_press \in 0..PressGap
  /\ arb_sel_d1 \in Sources \cup {NONE} /\ MONITOR_FIFO_EMPTY \in BOOLEAN
  /\ owed \in [Sources -> Nat]

BigTypeOK == fifo_big \in 0..DEPTH /\ baud_counter \in 0..(BAUD_PERIOD - 1)

\* FIFO_ARBITER.v reads no source that is empty.
LEMMA ReadsWhatIsThere ==
  ASSUME SmallTypeOK
  PROVE  /\ arb_sel \in Sources \cup {NONE}
         /\ arb_sel = "prime_alive" <=> prime_alive_fifo > 0
         /\ arb_sel = "error" => error_fifo > 0
         /\ arb_sel = "monitor" => ~MONITOR_FIFO_EMPTY
  BY DEF SmallTypeOK, arb_sel, Sources, NONE

\* What a FIFO core does, if it is not read when it is empty.
LEMMA FifoFacts ==
  ASSUME NEW depth \in Nat, depth > 0, NEW n \in 0..depth,
         NEW write \in BOOLEAN, NEW read \in BOOLEAN, read => n > 0
  PROVE  /\ FifoNext(n, depth, write, read) \in 0..depth
         /\ FifoNext(n, depth, write, read) <=
              n + (IF write THEN 1 ELSE 0) - (IF read THEN 1 ELSE 0)
         /\ n < depth => FifoNext(n, depth, write, read) =
                           n + (IF write THEN 1 ELSE 0) - (IF read THEN 1 ELSE 0)
  BY DEF FifoNext

LEMMA SmallTypeStep ==
  ASSUME SmallTypeOK, NothingInvented, state_change \in BOOLEAN,
         NEW press \in BOOLEAN, NEW load \in BOOLEAN, Arbiter(press, load), Owe(press, load)
  PROVE  SmallTypeOK'
  <1> USE Sizes
  <1>1. /\ prime_alive_fifo \in 0..SMALL /\ error_fifo \in 0..SMALL
        /\ (arb_sel = "prime_alive") \in BOOLEAN /\ (arb_sel = "error") \in BOOLEAN
    BY DEF SmallTypeOK
  <1>2. prime_alive_fifo' \in 0..SMALL /\ error_fifo' \in 0..SMALL
    BY <1>1, ReadsWhatIsThere, FifoFacts DEF Arbiter
  <1>3. since_load' \in 0..LoadGap /\ since_press' \in 0..PressGap
    BY DEF Arbiter, UpTo, SmallTypeOK
  <1>4. arb_sel_d1' \in Sources \cup {NONE}
    BY ReadsWhatIsThere DEF Arbiter
  <1>5. MONITOR_FIFO_EMPTY' \in BOOLEAN
    BY Zenon DEF Arbiter, EmptyNext
  <1>6. owed' \in [Sources -> Nat]
    <2>1. ASSUME NEW s \in Sources
          PROVE  owed[s] + (IF Happened(s, press, load) THEN 1 ELSE 0)
                   - (IF FIFO_WRITE /\ arb_sel_d1 = s THEN 1 ELSE 0) \in Nat
      <3>1. owed[s] \in Nat
        BY DEF SmallTypeOK
      <3>2. arb_sel_d1 = s => owed[s] > 0
        BY <3>1 DEF NothingInvented, OnTheWay, SmallTypeOK
      <3> QED
        BY <3>1, <3>2
    <2> QED
      BY <2>1 DEF Owe
  <1> QED
    BY <1>2, <1>3, <1>4, <1>5, <1>6 DEF SmallTypeOK

\* An edge, source by source: what is owed and what is on the way.
LEMMA WayStep ==
  ASSUME SmallTypeOK, state_change \in BOOLEAN,
         NEW press \in BOOLEAN, NEW load \in BOOLEAN, Arbiter(press, load), Owe(press, load)
  PROVE  /\ OnTheWay("prime_alive")' - owed'["prime_alive"] <=
              OnTheWay("prime_alive") - owed["prime_alive"]
         /\ prime_alive_fifo < SMALL =>
              OnTheWay("prime_alive")' - owed'["prime_alive"] =
                OnTheWay("prime_alive") - owed["prime_alive"]
         /\ OnTheWay("error")' - owed'["error"] <= OnTheWay("error") - owed["error"]
         /\ error_fifo < SMALL \/ ~press =>
              OnTheWay("error")' - owed'["error"] = OnTheWay("error") - owed["error"]
         /\ OnTheWay("monitor")' - owed'["monitor"] <= OnTheWay("monitor") - owed["monitor"]
         /\ MONITOR_FIFO_EMPTY \/ ~load =>
              OnTheWay("monitor")' - owed'["monitor"] = OnTheWay("monitor") - owed["monitor"]
  <1> USE Sizes
  <1>1. /\ prime_alive_fifo \in 0..SMALL /\ error_fifo \in 0..SMALL
        /\ (arb_sel = "prime_alive") \in BOOLEAN /\ (arb_sel = "error") \in BOOLEAN
    BY DEF SmallTypeOK
  <1>2. arb_sel_d1' = arb_sel
    BY DEF Arbiter
  <1>3. ASSUME NEW s \in Sources
        PROVE  /\ owed[s] \in Nat
               /\ owed'[s] = owed[s] + (IF Happened(s, press, load) THEN 1 ELSE 0)
                                - (IF arb_sel_d1 = s THEN 1 ELSE 0)
    BY DEF Owe, SmallTypeOK, FIFO_WRITE, Sources, NONE
  <1>4. /\ Happened("prime_alive", press, load) <=> state_change
        /\ Happened("error", press, load) <=> press
        /\ Happened("monitor", press, load) <=> load
    BY Zenon DEF Happened
  <1>5. /\ OnTheWay("prime_alive")' - owed'["prime_alive"] <=
              OnTheWay("prime_alive") - owed["prime_alive"]
        /\ prime_alive_fifo < SMALL =>
              OnTheWay("prime_alive")' - owed'["prime_alive"] =
                OnTheWay("prime_alive") - owed["prime_alive"]
    <2> DEFINE new == FifoNext(prime_alive_fifo, SMALL, state_change, arb_sel = "prime_alive")
    <2> DEFINE sum == prime_alive_fifo + (IF state_change THEN 1 ELSE 0)
                        - (IF arb_sel = "prime_alive" THEN 1 ELSE 0)
    <2>1. new \in 0..SMALL /\ new <= sum /\ (prime_alive_fifo < SMALL => new = sum)
      <3>1. arb_sel = "prime_alive" => prime_alive_fifo > 0
        BY ReadsWhatIsThere
      <3> QED
        BY <1>1, <3>1 DEF FifoNext
    <2>2. /\ OnTheWay("prime_alive") =
               (IF arb_sel_d1 = "prime_alive" THEN 1 ELSE 0) + prime_alive_fifo
          /\ OnTheWay("prime_alive")' =
               (IF arb_sel = "prime_alive" THEN 1 ELSE 0) + new
      BY <1>2 DEF OnTheWay, Arbiter
    <2>3. /\ owed["prime_alive"] \in Nat
          /\ owed'["prime_alive"] = owed["prime_alive"] + (IF state_change THEN 1 ELSE 0)
                                     - (IF arb_sel_d1 = "prime_alive" THEN 1 ELSE 0)
      BY <1>3, <1>4 DEF Sources
    <2> HIDE DEF new
    <2> QED
      BY <1>1, <2>1, <2>2, <2>3
  <1>6. /\ OnTheWay("error")' - owed'["error"] <= OnTheWay("error") - owed["error"]
        /\ error_fifo < SMALL \/ ~press =>
              OnTheWay("error")' - owed'["error"] = OnTheWay("error") - owed["error"]
    <2> DEFINE new == FifoNext(error_fifo, SMALL, press, arb_sel = "error")
    <2> DEFINE sum == error_fifo + (IF press THEN 1 ELSE 0)
                        - (IF arb_sel = "error" THEN 1 ELSE 0)
    <2>1. new \in 0..SMALL /\ new <= sum /\ (error_fifo < SMALL => new = sum)
      <3>1. arb_sel = "error" => error_fifo > 0
        BY ReadsWhatIsThere
      <3> QED
        BY <1>1, <3>1 DEF FifoNext
    <2>2. ~press => new = sum
      BY <1>1 DEF FifoNext
    <2>3. /\ OnTheWay("error") = (IF arb_sel_d1 = "error" THEN 1 ELSE 0) + error_fifo
          /\ OnTheWay("error")' = (IF arb_sel = "error" THEN 1 ELSE 0) + new
      BY <1>2 DEF OnTheWay, Arbiter
    <2>4. /\ owed["error"] \in Nat
          /\ owed'["error"] = owed["error"] + (IF press THEN 1 ELSE 0)
                               - (IF arb_sel_d1 = "error" THEN 1 ELSE 0)
      BY <1>3, <1>4 DEF Sources
    <2> HIDE DEF new
    <2> QED
      BY <1>1, <2>1, <2>2, <2>3, <2>4
  <1>7. /\ OnTheWay("monitor")' - owed'["monitor"] <= OnTheWay("monitor") - owed["monitor"]
        /\ MONITOR_FIFO_EMPTY \/ ~load =>
              OnTheWay("monitor")' - owed'["monitor"] = OnTheWay("monitor") - owed["monitor"]
    <2> DEFINE full == IF MONITOR_FIFO_EMPTY THEN 0 ELSE 1
    <2> DEFINE new == IF load THEN 1 ELSE IF arb_sel = "monitor" THEN 0 ELSE full
    <2>1. arb_sel = "monitor" => full = 1
      BY ReadsWhatIsThere
    <2>2. MONITOR_FIFO_EMPTY' = (~load /\ (MONITOR_FIFO_EMPTY \/ arb_sel = "monitor"))
      BY DEF Arbiter, EmptyNext
    <2>3. (IF MONITOR_FIFO_EMPTY' THEN 0 ELSE 1) = new
      BY <2>2, Zenon
    <2>4. /\ OnTheWay("monitor") = (IF arb_sel_d1 = "monitor" THEN 1 ELSE 0) + full
          /\ OnTheWay("monitor")' = (IF arb_sel = "monitor" THEN 1 ELSE 0) + new
      BY <1>2, <2>3 DEF OnTheWay
    <2>5. /\ owed["monitor"] \in Nat
          /\ owed'["monitor"] = owed["monitor"] + (IF load THEN 1 ELSE 0)
                                 - (IF arb_sel_d1 = "monitor" THEN 1 ELSE 0)
      BY <1>3, <1>4 DEF Sources
    <2>6. full \in {0, 1} /\ (full = 0 <=> MONITOR_FIFO_EMPTY)
      OBVIOUS
    <2> QED
      BY <2>1, <2>4, <2>5, <2>6
  <1> QED
    BY <1>5, <1>6, <1>7

\* The big FIFO of FIFO_TO_ASCII.v is not read when it is empty.
LEMMA BigTypeStep ==
  ASSUME BigTypeOK, UartTypeOK, Ascii, Uart
  PROVE  BigTypeOK'
  <1> USE Sizes
  <1>1. fifo_big \in 0..DEPTH /\ baud_counter \in 0..(BAUD_PERIOD - 1)
    BY DEF BigTypeOK
  <1>2. fifo_big_read => fifo_big > 0
    <2>1. fifo_big_read => fifo_big # 0
      BY Zenon DEF fifo_big_read, ASCII_READ, ASCII_EMPTY
    <2> QED
      BY <2>1, <1>1
  <1>3. fifo_big' \in 0..DEPTH
    BY <1>1, <1>2 DEF Ascii, FifoNext
  <1>4. baud_counter' \in 0..(BAUD_PERIOD - 1)
    BY <1>1 DEF Uart, baud_counter_done
  <1> QED
    BY <1>3, <1>4 DEF BigTypeOK

\* No record without its cause, and everything in range.
LEMMA WayInvariant == Spec => [](SmallTypeOK /\ BigTypeOK /\ NothingInvented)
  <1> DEFINE I == SmallTypeOK /\ BigTypeOK /\ NothingInvented
  <1>1. Init => I
    <2> SUFFICES ASSUME Init PROVE I
      OBVIOUS
    <2> USE Sizes
    <2>1. SmallTypeOK
      BY DEF Init, SmallTypeOK
    <2>2. BigTypeOK
      BY DEF Init, BigTypeOK
    <2>3. NothingInvented
      BY DEF Init, NothingInvented, OnTheWay, Sources, NONE
    <2> QED
      BY <2>1, <2>2, <2>3
  <1>2. I /\ UartTypeOK /\ LinesTypeOK /\ [Next]_vars => I'
    <2> SUFFICES ASSUME I, UartTypeOK, LinesTypeOK, [Next]_vars PROVE I'
      OBVIOUS
    <2>1. CASE Next
      <3>1. PICK PRIME \in [Controllers -> Bit], ALIVE \in [Controllers -> Bit],
                 press \in BOOLEAN, load \in BOOLEAN : Clock(PRIME, ALIVE, press, load)
        BY <2>1 DEF Next
      <3>2. Arbiter(press, load) /\ Owe(press, load) /\ Ascii /\ Uart /\ state_change \in BOOLEAN
        BY <3>1 DEF Clock, LinesTypeOK, MonitorTypeOK
      <3>3. SmallTypeOK'
        BY <3>2, SmallTypeStep
      <3>4. BigTypeOK'
        BY <3>2, BigTypeStep
      <3>5. ASSUME NEW s \in Sources PROVE OnTheWay(s)' <= owed'[s]
        <4>1. OnTheWay(s) \in Int /\ OnTheWay(s)' \in Int /\ owed[s] \in Int /\ owed'[s] \in Int
          BY <3>3 DEF OnTheWay, SmallTypeOK, Sources
        <4>2. OnTheWay(s) <= owed[s]
          BY DEF NothingInvented
        <4>3. OnTheWay(s)' - owed'[s] <= OnTheWay(s) - owed[s]
          BY <3>2, WayStep DEF Sources
        <4> QED
          BY <4>1, <4>2, <4>3
      <3> QED
        BY <3>3, <3>4, <3>5 DEF NothingInvented
    <2>2. CASE UNCHANGED vars
      BY <2>2 DEF vars, small, ascii, uart, history,
                  SmallTypeOK, BigTypeOK, NothingInvented, OnTheWay
    <2> QED
      BY <2>1, <2>2
  <1> HIDE DEF I
  <1>3. Spec => []I
    BY <1>1, <1>2, UartInvariant, LinesInvariant, PTL DEF Spec
  <1> QED
    BY <1>3 DEF I

\* Type correctness of the recorder: no FIFO, counter or register of the test
\* equipment leaves its range, and no record is written that was not owed; for
\* every size of the FIFOs, rate of the sources and number of controllers.
THEOREM RecorderTypeCorrect == Spec => []TypeOK
  <1>1. UartTypeOK /\ LinesTypeOK /\ SmallTypeOK /\ BigTypeOK => TypeOK
    BY Zenon DEF TypeOK, UartTypeOK, LinesTypeOK, SmallTypeOK, BigTypeOK
  <1> QED
    BY <1>1, UartInvariant, LinesInvariant, WayInvariant, PTL

\* The source with the highest priority is served at once.
LEMMA FirstServedStep ==
  ASSUME FirstServed, SmallTypeOK, state_change \in BOOLEAN,
         NEW press \in BOOLEAN, NEW load \in BOOLEAN, Arbiter(press, load)
  PROVE  FirstServed' /\ (prime_alive_fifo' > 0 => state_change)
  <1>1. /\ arb_sel = "prime_alive" <=> prime_alive_fifo > 0
        /\ prime_alive_fifo \in 0..SMALL /\ prime_alive_fifo <= 1
    BY ReadsWhatIsThere DEF FirstServed, SmallTypeOK
  <1>2. prime_alive_fifo' =
          FifoNext(prime_alive_fifo, SMALL, state_change, arb_sel = "prime_alive")
    BY DEF Arbiter
  <1> QED
    BY <1>1, <1>2, Sizes DEF FifoNext, FirstServed

\* An edge at which the sources are served in time loses no record.
LEMMA CompleteStep ==
  ASSUME SMALL > 1, LogComplete, FirstServed, SmallTypeOK, SmallTypeOK', LinesTypeOK,
         ServedInTime, NEW press \in BOOLEAN, NEW load \in BOOLEAN,
         Arbiter(press, load), Owe(press, load)
  PROVE  LogComplete' /\ FirstServed'
  <1> USE Sizes
  <1>1. state_change \in BOOLEAN
    BY DEF LinesTypeOK, MonitorTypeOK
  <1>2. prime_alive_fifo < SMALL
    BY DEF FirstServed, SmallTypeOK
  <1>3. error_fifo < SMALL \/ ~press
    <2> SUFFICES ASSUME press PROVE error_fifo < SMALL
      OBVIOUS
    <2>1. owed["error"] = 0
      BY DEF Arbiter, ServedInTime
    <2>2. OnTheWay("error") = 0
      BY <2>1 DEF LogComplete, Sources
    <2> QED
      BY <2>2 DEF OnTheWay, SmallTypeOK
  <1>4. MONITOR_FIFO_EMPTY \/ ~load
    BY DEF Arbiter, ServedInTime
  <1>5. ASSUME NEW s \in Sources PROVE OnTheWay(s)' = owed'[s]
    <2>1. OnTheWay(s)' \in Int /\ owed[s] \in Int /\ owed'[s] \in Int
      BY DEF OnTheWay, SmallTypeOK, Sources
    <2>2. OnTheWay(s) = owed[s]
      BY DEF LogComplete
    <2>3. OnTheWay(s)' - owed'[s] = OnTheWay(s) - owed[s]
      BY <1>1, <1>2, <1>3, <1>4, WayStep DEF Sources
    <2> QED
      BY <2>1, <2>2, <2>3
  <1>6. LogComplete'
    BY <1>5 DEF LogComplete
  <1> QED
    BY <1>1, <1>6, FirstServedStep

LEMMA CompleteInit == Init => LogComplete /\ FirstServed
  BY DEF Init, LogComplete, FirstServed, OnTheWay, Sources, NONE

\* The log is complete as long as FIFO_ARBITER.v serves its sources in time: the
\* full outputs that BTE.v leaves open are then not needed.  For the changes of
\* state, which come first, a FIFO of two places does at any rate; presses and
\* loads rest on ServedInTime.
THEOREM RecorderLogComplete ==
  ASSUME SMALL > 1
  PROVE  Spec /\ []ServedInTime => []LogComplete
  <1> DEFINE K == LogComplete /\ FirstServed
  <1>1. Init => K
    BY CompleteInit
  <1>2. K /\ SmallTypeOK /\ SmallTypeOK' /\ LinesTypeOK /\ ServedInTime /\ [Next]_vars => K'
    <2> SUFFICES ASSUME K, SmallTypeOK, SmallTypeOK', LinesTypeOK, ServedInTime, [Next]_vars
                 PROVE  K'
      OBVIOUS
    <2>1. CASE Next
      <3>1. PICK PRIME \in [Controllers -> Bit], ALIVE \in [Controllers -> Bit],
                 press \in BOOLEAN, load \in BOOLEAN : Clock(PRIME, ALIVE, press, load)
        BY <2>1 DEF Next
      <3> QED
        BY <3>1, CompleteStep DEF Clock
    <2>2. CASE UNCHANGED vars
      BY <2>2 DEF vars, small, history, LogComplete, FirstServed, OnTheWay
    <2> QED
      BY <2>1, <2>2
  <1> HIDE DEF K
  <1>3. K => LogComplete
    BY DEF K
  <1> QED
    BY <1>1, <1>2, <1>3, LinesInvariant, WayInvariant, PTL DEF Spec

-----------------------------------------------------------------------------
(***************************************************************************)
(* The inductive invariant behind ServedInTime, for two controllers a and  *)
(* b.  An edge that a change of state takes away from the other sources    *)
(* costs 6 of a credit.  A PRIME line earns 2 per edge, since its filter   *)
(* lets at most two changes through in six edges; of an ALIVE line no more *)
(* than two changes can fall into a wait that is shorter than TIMEOUT.     *)
(* Two lines earn 4 per edge, so that every edge of a wait uses up 2.      *)
(***************************************************************************)
PrimeCredit(c) ==
  IF prime_ones[c] = STABLE THEN 4 ELSE IF prime_ones[c] < 4 THEN 2 * prime_ones[c] ELSE 8

\* A line whose last edge lies within the wait of w edges stays alive for its rest.
AliveCredit(c, w) ==
  IF quiet[c] > TIMEOUT THEN 6 ELSE IF quiet[c] > w THEN 12 ELSE 0

LineCredit(c, w) == PrimeCredit(c) + AliveCredit(c, w)

\* Changes that are on their way through the registers.
ChangeCredit ==
  (IF prime_alive_fifo > 0 THEN 6 ELSE 0) + (IF state_change THEN 6 ELSE 0)
    + (IF curr_state # next_state THEN 6 ELSE 0)

Credit(a, b, w) == LineCredit(a, w) + LineCredit(b, w) + ChangeCredit

\* The record of a press that the monitor has to wait for, and one still to come.
PressCredit ==
  (IF error_fifo > 0 THEN 6 ELSE 0) + (IF since_press >= since_load THEN 6 ELSE 0)

WaitBounded(a, b) ==
  /\ error_fifo <= 1 /\ since_load > 0
  /\ error_fifo > 0 => Credit(a, b, since_press) + 2 * since_press <= 60
  /\ arb_sel_d1 = "error" => since_press <= 31
  /\ ~MONITOR_FIFO_EMPTY => Credit(a, b, since_load) + PressCredit + 2 * since_load <= 72
  /\ arb_sel_d1 = "monitor" => since_load <= 37

\* The longest wait, and an edge more.
WAIT == 38

\* The filter of a PRIME line lets at most two changes through in six edges.
LEMMA PrimeCreditStep ==
  ASSUME LinesTypeOK, STABLE >= 5,
         NEW PRIME \in [Controllers -> Bit], NEW ALIVE \in [Controllers -> Bit],
         Sample(PRIME, ALIVE), NEW c \in Controllers
  PROVE  /\ PrimeCredit(c) \in 0..8 /\ PrimeCredit(c)' \in 0..8
         /\ PrimeCredit(c)' <= PrimeCredit(c) + 2
         /\ next_state[c].prime # next_state'[c].prime => PrimeCredit(c)' <= PrimeCredit(c) - 4
  <1>1. STABLE \in Nat /\ prime_ones[c] \in 0..STABLE
    BY LineTypes
  <1>2. prime_ones'[c] = IF PRIME[c] = 1 THEN UpTo(prime_ones[c], STABLE) ELSE 0
    BY DEF Sample, OnesNext
  <1>3. next_state[c].prime = IF prime_ones[c] = STABLE THEN 1 ELSE 0
    BY NextStateType
  <1>4. next_state'[c].prime = IF prime_ones'[c] = STABLE THEN 1 ELSE 0
    BY DEF next_state
  <1> QED
    BY <1>1, <1>2, <1>3, <1>4 DEF PrimeCredit, UpTo

\* Into a wait shorter than TIMEOUT fall at most two changes of an ALIVE line.
LEMMA AliveCreditStep ==
  ASSUME LinesTypeOK, LinesTold, LinesTold', LinesTypeOK',
         NEW PRIME \in [Controllers -> Bit], NEW ALIVE \in [Controllers -> Bit],
         Sample(PRIME, ALIVE), NEW c \in Controllers, NEW w \in Nat, w < TIMEOUT
  PROVE  /\ AliveCredit(c, w) \in 0..12 /\ AliveCredit(c, w + 1)' \in 0..12
         /\ AliveCredit(c, w + 1)' <= AliveCredit(c, w)
         /\ next_state[c].alive # next_state'[c].alive =>
              AliveCredit(c, w + 1)' <= AliveCredit(c, w) - 6
  <1>1. TIMEOUT \in Nat /\ quiet[c] \in 0..(TIMEOUT + 3)
    BY LineTypes
  <1>2. quiet'[c] = IF ALIVE[c] = stored_alive[c] THEN UpTo(quiet[c], TIMEOUT + 3) ELSE 0
    BY DEF Sample, AliveSettled
  <1>3. next_state[c].alive = IF quiet[c] > TIMEOUT THEN 0 ELSE 1
    BY <1>1, NextStateType DEF LinesTold
  <1>4. next_state'[c].alive = IF quiet'[c] > TIMEOUT THEN 0 ELSE 1
    <2>1. next_state'[c].alive = IF alive_state'[c] # "IDLE" THEN 1 ELSE 0
      BY DEF next_state
    <2>2. /\ alive_state'[c] # "IDLE" => quiet'[c] <= TIMEOUT
          /\ alive_state'[c] = "IDLE" => quiet'[c] > TIMEOUT
      BY DEF LinesTold
    <2> QED
      BY <1>1, <1>2, <2>1, <2>2 DEF UpTo
  <1> QED
    BY <1>1, <1>2, <1>3, <1>4 DEF AliveCredit, UpTo

\* The status of the lines changes only if a bit of a controller does.
LEMMA ChangedBit ==
  ASSUME next_state # next_state'
  PROVE  \E c \in Controllers : \/ next_state[c].prime # next_state'[c].prime
                                \/ next_state[c].alive # next_state'[c].alive
  <1>1. /\ next_state = [c \in Controllers |->
                           [prime |-> next_state[c].prime, alive |-> next_state[c].alive]]
        /\ next_state' = [c \in Controllers |->
                           [prime |-> next_state'[c].prime, alive |-> next_state'[c].alive]]
    BY DEF next_state
  <1> QED
    BY <1>1

\* A credit has its bounds, before and after a step.
LEMMA CreditRange ==
  ASSUME NEW a \in Controllers, NEW b \in Controllers, NEW w \in Nat, LinesTypeOK, STABLE >= 5
  PROVE  Credit(a, b, w) \in 0..58
  <1>1. ASSUME NEW c \in Controllers PROVE LineCredit(c, w) \in 0..20
    BY LineTypes DEF LineCredit, PrimeCredit, AliveCredit
  <1>2. ChangeCredit \in 0..18
    BY DEF ChangeCredit
  <1> QED
    BY <1>1, <1>2 DEF Credit

LEMMA ChangeCreditNext ==
  /\ ChangeCredit' \in 0..18
  /\ ChangeCredit' = (IF prime_alive_fifo' > 0 THEN 6 ELSE 0) + (IF state_change' THEN 6 ELSE 0)
                       + (IF curr_state' # next_state' THEN 6 ELSE 0)
  <1> DEFINE x == IF state_change' THEN 6 ELSE 0
             y == IF curr_state' # next_state' THEN 6 ELSE 0
             z == IF prime_alive_fifo' > 0 THEN 6 ELSE 0
  <1>1. x \in {0, 6} /\ y \in {0, 6} /\ z \in {0, 6}
    OBVIOUS
  <1>2. ChangeCredit' = z + x + y
    BY DEF ChangeCredit
  <1>3. z + x + y \in 0..18
    <2> HIDE DEF x, y, z
    <2> QED
      BY <1>1
  <1> QED
    BY <1>2, <1>3

LEMMA CreditRangeNext ==
  ASSUME NEW a \in Controllers, NEW b \in Controllers, NEW w \in Nat, LinesTypeOK', STABLE >= 5
  PROVE  Credit(a, b, w)' \in 0..58
  <1>1. ASSUME NEW c \in Controllers PROVE LineCredit(c, w)' \in 0..20
    <2>1. /\ STABLE \in Nat /\ TIMEOUT \in Nat /\ prime_ones'[c] \in 0..STABLE
          /\ quiet'[c] \in 0..(TIMEOUT + 3)
      BY AliveAssumption DEF LinesTypeOK, MonitorTypeOK, AliveSettled
    <2> QED
      BY <2>1 DEF LineCredit, PrimeCredit, AliveCredit
  <1> QED
    BY <1>1, ChangeCreditNext DEF Credit

LEMMA CreditSum ==
  ASSUME NEW la \in 0..20, NEW lb \in 0..20, NEW laNext \in 0..20, NEW lbNext \in 0..20,
         NEW ch \in 0..18, NEW chNext \in 0..18, NEW new \in {0, 6}, NEW fifo \in {0, 6},
         chNext <= ch - fifo + new, laNext + lbNext + new <= la + lb + 4
  PROVE  laNext + lbNext + chNext <= la + lb + ch + 4 - fifo
  OBVIOUS

\* An edge that a change of state takes costs 6, and two lines earn no more than 4.
LEMMA CreditStep ==
  ASSUME NEW a, NEW b, Controllers = {a, b}, NEW w \in Nat, w < TIMEOUT, STABLE >= 5,
         LinesTypeOK, LinesTypeOK', LinesTold, LinesTold', SmallTypeOK, FirstServed,
         NEW PRIME \in [Controllers -> Bit], NEW ALIVE \in [Controllers -> Bit],
         NEW press \in BOOLEAN, NEW load \in BOOLEAN,
         Sample(PRIME, ALIVE), Arbiter(press, load)
  PROVE  /\ Credit(a, b, w + 1)' <= Credit(a, b, w) + 4
         /\ prime_alive_fifo > 0 => Credit(a, b, w + 1)' <= Credit(a, b, w) - 2
  <1>1. prime_alive_fifo' > 0 => state_change
    BY FirstServedStep DEF LinesTypeOK, MonitorTypeOK
  <1>2. /\ curr_state' = next_state
        /\ state_change' = (curr_state # next_state)
    BY DEF Sample
  <1> DEFINE new == IF next_state # next_state' THEN 6 ELSE 0
             diff == IF curr_state # next_state THEN 6 ELSE 0
             chg == IF state_change THEN 6 ELSE 0
             fifo == IF prime_alive_fifo > 0 THEN 6 ELSE 0
             fifoNext == IF prime_alive_fifo' > 0 THEN 6 ELSE 0
  <1>3. ChangeCredit' <= ChangeCredit - fifo + new
    <2>1. (IF state_change' THEN 6 ELSE 0) = diff
      BY <1>2, Zenon
    <2>2. (IF curr_state' # next_state' THEN 6 ELSE 0) = new
      BY <1>2
    <2>3. ChangeCredit' = fifoNext + diff + new
      BY <2>1, <2>2, ChangeCreditNext
    <2>4. ChangeCredit = fifo + chg + diff
      BY DEF ChangeCredit
    <2>5. /\ diff \in {0, 6} /\ new \in {0, 6} /\ chg \in {0, 6}
          /\ fifo \in {0, 6} /\ fifoNext \in {0, 6}
      OBVIOUS
    <2>6. fifoNext <= chg
      BY <1>1
    <2> HIDE DEF diff, new, chg, fifo, fifoNext
    <2> QED
      BY <2>3, <2>4, <2>5, <2>6
  <1>4. ASSUME NEW c \in Controllers
        PROVE  /\ LineCredit(c, w) \in 0..20 /\ LineCredit(c, w + 1)' \in 0..20
               /\ LineCredit(c, w + 1)' <= LineCredit(c, w) + 2
               /\ \/ next_state[c].prime # next_state'[c].prime
                  \/ next_state[c].alive # next_state'[c].alive
                  => LineCredit(c, w + 1)' <= LineCredit(c, w) - 4
    <2>1. /\ PrimeCredit(c) \in 0..8 /\ PrimeCredit(c)' \in 0..8
          /\ PrimeCredit(c)' <= PrimeCredit(c) + 2
          /\ next_state[c].prime # next_state'[c].prime => PrimeCredit(c)' <= PrimeCredit(c) - 4
      BY PrimeCreditStep
    <2>2. /\ AliveCredit(c, w) \in 0..12 /\ AliveCredit(c, w + 1)' \in 0..12
          /\ AliveCredit(c, w + 1)' <= AliveCredit(c, w)
          /\ next_state[c].alive # next_state'[c].alive =>
               AliveCredit(c, w + 1)' <= AliveCredit(c, w) - 6
      BY AliveCreditStep
    <2> QED
      BY <2>1, <2>2 DEF LineCredit
  <1>5. LineCredit(a, w + 1)' + LineCredit(b, w + 1)' + new
          <= LineCredit(a, w) + LineCredit(b, w) + 4
    <2>1. CASE next_state = next_state'
      BY <1>4, <2>1
    <2>2. CASE next_state # next_state'
      <3>1. PICK c \in Controllers : \/ next_state[c].prime # next_state'[c].prime
                                     \/ next_state[c].alive # next_state'[c].alive
        BY <2>2, ChangedBit
      <3>2. CASE c = a
        <4>1. LineCredit(a, w + 1)' <= LineCredit(a, w) - 4
          BY <3>1, <3>2, <1>4
        <4> QED
          BY <4>1, <1>4
      <3>3. CASE c = b
        <4>1. LineCredit(b, w + 1)' <= LineCredit(b, w) - 4
          BY <3>1, <3>3, <1>4
        <4> QED
          BY <4>1, <1>4
      <3> QED
        BY <3>2, <3>3
    <2> QED
      BY <2>1, <2>2
  <1>6. /\ LineCredit(a, w) \in 0..20 /\ LineCredit(a, w + 1)' \in 0..20
        /\ LineCredit(b, w) \in 0..20 /\ LineCredit(b, w + 1)' \in 0..20
        /\ ChangeCredit' \in 0..18 /\ ChangeCredit \in 0..18 /\ new \in {0, 6}
    <2>1. ChangeCredit \in 0..18
      BY DEF ChangeCredit
    <2> QED
      BY <1>4, <2>1, ChangeCreditNext
  <1>7. /\ Credit(a, b, w) = LineCredit(a, w) + LineCredit(b, w) + ChangeCredit
        /\ Credit(a, b, w + 1)' =
             LineCredit(a, w + 1)' + LineCredit(b, w + 1)' + ChangeCredit'
    BY DEF Credit
  <1>8. fifo \in {0, 6} /\ (prime_alive_fifo > 0 => fifo = 6)
    OBVIOUS
  <1> HIDE DEF new, fifo
  <1>9. LineCredit(a, w + 1)' + LineCredit(b, w + 1)' + ChangeCredit'
          <= LineCredit(a, w) + LineCredit(b, w) + ChangeCredit + 4 - fifo
    BY <1>3, <1>5, <1>6, <1>8, CreditSum
  <1>10. Credit(a, b, w + 1)' <= Credit(a, b, w) + 4 - fifo
    BY <1>7, <1>9
  <1>11. Credit(a, b, w) \in Int /\ Credit(a, b, w + 1)' \in Int
    BY <1>6, <1>7
  <1> QED
    BY <1>8, <1>10, <1>11

\* The constants of the two theorems below: two controllers (PRIME[1:0]), the
\* filter of PRIME_ALIVE_MONITOR.v (five samples), and a timeout of ALIVE_FSM.v
\* and distances of loads and presses that are longer than the longest wait.
TwoControllers(a, b) ==
  /\ Controllers = {a, b} /\ SMALL > 1 /\ STABLE >= 5
  /\ TIMEOUT >= WAIT /\ LoadGap >= WAIT /\ PressGap >= WAIT

\* A wait is over before the credit is used up.
LEMMA WaitsAreShort ==
  ASSUME NEW a, NEW b, TwoControllers(a, b), LinesTypeOK, SmallTypeOK, WaitBounded(a, b)
  PROVE  /\ error_fifo > 0 => since_press <= 30
         /\ ~MONITOR_FIFO_EMPTY => since_load <= 36
  <1> USE DEF TwoControllers
  <1>1. since_press \in Nat /\ since_load \in Nat
    BY Sizes DEF SmallTypeOK
  <1>2. PICK w \in Nat, v \in Nat : w = since_press /\ v = since_load
    BY <1>1
  <1>3. Credit(a, b, since_press) \in 0..58 /\ Credit(a, b, since_load) \in 0..58
    BY <1>2, CreditRange
  <1>4. PressCredit \in 0..12
    BY DEF PressCredit
  <1> QED
    BY <1>1, <1>3, <1>4 DEF WaitBounded

LEMMA WaitsAreServed ==
  ASSUME NEW a, NEW b, TwoControllers(a, b), LinesTypeOK, SmallTypeOK, WaitBounded(a, b),
         LogComplete
  PROVE  ServedInTime
  <1>1. /\ error_fifo > 0 => since_press <= 30
        /\ ~MONITOR_FIFO_EMPTY => since_load <= 36
    BY WaitsAreShort
  <1>2. /\ arb_sel_d1 = "error" => since_press <= 31
        /\ arb_sel_d1 = "monitor" => since_load <= 37
    BY DEF WaitBounded
  <1>3. PressGap >= 38 /\ LoadGap >= 38 /\ error_fifo \in 0..SMALL /\ MONITOR_FIFO_EMPTY \in BOOLEAN
    BY DEF TwoControllers, WAIT, SmallTypeOK
  <1>4. since_press = PressGap => owed["error"] = 0
    <2>1. since_press = PressGap => error_fifo = 0 /\ arb_sel_d1 # "error"
      BY <1>1, <1>2, <1>3, Sizes
    <2>2. owed["error"] = OnTheWay("error")
      BY DEF LogComplete, Sources
    <2> QED
      BY <2>1, <2>2 DEF OnTheWay
  <1>5. since_load = LoadGap => MONITOR_FIFO_EMPTY /\ arb_sel_d1 # "monitor"
    BY <1>1, <1>2, <1>3, Sizes
  <1> QED
    BY <1>4, <1>5 DEF ServedInTime

\* What the arbiter does to the three sources at an edge.
LEMMA ArbiterFacts ==
  ASSUME SmallTypeOK, ServedInTime, LogComplete, SMALL > 1,
         NEW press \in BOOLEAN, NEW load \in BOOLEAN, Arbiter(press, load)
  PROVE  /\ press => error_fifo = 0 /\ since_press = PressGap /\ since_press' = 1
         /\ ~press => /\ error_fifo' = error_fifo - (IF arb_sel = "error" THEN 1 ELSE 0)
                      /\ since_press < PressGap => since_press' = since_press + 1
                      /\ since_press' <= since_press + 1
         /\ load => MONITOR_FIFO_EMPTY /\ since_load' = 1
         /\ ~load => /\ MONITOR_FIFO_EMPTY' <=> MONITOR_FIFO_EMPTY \/ arb_sel = "monitor"
                     /\ since_load < LoadGap => since_load' = since_load + 1
                     /\ since_load' >= since_load
         /\ error_fifo' <= error_fifo + (IF press THEN 1 ELSE 0)
         /\ error_fifo > 0 /\ arb_sel # "error" => prime_alive_fifo > 0
         /\ ~MONITOR_FIFO_EMPTY /\ arb_sel # "monitor" =>
              prime_alive_fifo > 0 \/ (arb_sel = "error" /\ error_fifo > 0)
         /\ arb_sel = "error" => error_fifo > 0
         /\ arb_sel = "monitor" => ~MONITOR_FIFO_EMPTY
  <1> USE Sizes
  <1>1. /\ error_fifo \in 0..SMALL /\ prime_alive_fifo \in 0..SMALL
        /\ since_press \in 0..PressGap /\ since_load \in 0..LoadGap
    BY DEF SmallTypeOK
  <1>2. press => error_fifo = 0 /\ since_press = PressGap /\ since_press' = 1
    <2> SUFFICES ASSUME press PROVE error_fifo = 0 /\ since_press = PressGap /\ since_press' = 1
      OBVIOUS
    <2>1. since_press = PressGap /\ since_press' = 1
      BY DEF Arbiter
    <2>2. OnTheWay("error") = 0
      BY <2>1 DEF ServedInTime, LogComplete, Sources
    <2> QED
      BY <2>1, <2>2, <1>1 DEF OnTheWay
  <1>3. arb_sel = "error" => error_fifo > 0
    BY ReadsWhatIsThere
  <1>4. /\ ~press => error_fifo' = error_fifo - (IF arb_sel = "error" THEN 1 ELSE 0)
        /\ error_fifo' <= error_fifo + (IF press THEN 1 ELSE 0)
    <2>1. error_fifo' = FifoNext(error_fifo, SMALL, press, arb_sel = "error")
      BY DEF Arbiter
    <2> QED
      BY <1>1, <2>1 DEF FifoNext
  <1>5. /\ ~press => /\ since_press < PressGap => since_press' = since_press + 1
                     /\ since_press' <= since_press + 1
        /\ ~load => /\ since_load < LoadGap => since_load' = since_load + 1
                    /\ since_load' >= since_load
    BY <1>1 DEF Arbiter, UpTo
  <1>6. load => MONITOR_FIFO_EMPTY /\ since_load' = 1
    BY DEF Arbiter, ServedInTime
  <1>7. ~load => (MONITOR_FIFO_EMPTY' <=> MONITOR_FIFO_EMPTY \/ arb_sel = "monitor")
    BY Zenon DEF Arbiter, EmptyNext
  <1>8. /\ error_fifo > 0 /\ arb_sel # "error" => prime_alive_fifo > 0
        /\ ~MONITOR_FIFO_EMPTY /\ arb_sel # "monitor" =>
              prime_alive_fifo > 0 \/ (arb_sel = "error" /\ error_fifo > 0)
    BY DEF arb_sel
  <1>9. arb_sel = "monitor" => ~MONITOR_FIFO_EMPTY
    BY ReadsWhatIsThere
  <1> QED
    BY <1>2, <1>3, <1>4, <1>5, <1>6, <1>7, <1>8, <1>9

\* The wait of the record of a press.
LEMMA ErrorWaitStep ==
  ASSUME NEW a, NEW b, TwoControllers(a, b),
         LinesTypeOK, LinesTypeOK', LinesTold, LinesTold', SmallTypeOK, SmallTypeOK',
         LogComplete, FirstServed, WaitBounded(a, b),
         NEW PRIME \in [Controllers -> Bit], NEW ALIVE \in [Controllers -> Bit],
         NEW press \in BOOLEAN, NEW load \in BOOLEAN,
         Sample(PRIME, ALIVE), Arbiter(press, load)
  PROVE  /\ error_fifo' <= 1
         /\ error_fifo' > 0 => Credit(a, b, since_press)' + 2 * since_press' <= 60
         /\ arb_sel_d1' = "error" => since_press' <= 31
  <1> USE Sizes DEF TwoControllers, WAIT
  <1>1. ServedInTime
    BY WaitsAreServed
  <1>2. /\ press => error_fifo = 0 /\ since_press' = 1
        /\ ~press => /\ error_fifo' = error_fifo - (IF arb_sel = "error" THEN 1 ELSE 0)
                     /\ since_press < PressGap => since_press' = since_press + 1
        /\ error_fifo' <= error_fifo + (IF press THEN 1 ELSE 0)
        /\ error_fifo > 0 /\ arb_sel # "error" => prime_alive_fifo > 0
        /\ arb_sel = "error" => error_fifo > 0
    BY <1>1, ArbiterFacts
  <1>3. /\ error_fifo \in 0..SMALL /\ error_fifo' \in 0..SMALL
        /\ since_press \in 0..PressGap /\ error_fifo <= 1
    BY DEF SmallTypeOK, WaitBounded
  <1>4. error_fifo > 0 => since_press <= 30
    BY WaitsAreShort
  <1>5. error_fifo' <= 1
    BY <1>2, <1>3
  <1>6. arb_sel_d1' = "error" => since_press' <= 31
    BY <1>2, <1>3, <1>4 DEF Arbiter
  <1>7. ASSUME error_fifo' > 0
        PROVE  Credit(a, b, since_press)' + 2 * since_press' <= 60
    <2>1. CASE press
      <3>1. Credit(a, b, since_press)' = Credit(a, b, 1)'
        BY <1>2, <2>1 DEF Credit, LineCredit, AliveCredit
      <3>2. Credit(a, b, 1)' \in 0..58
        BY CreditRangeNext
      <3> QED
        BY <3>1, <3>2, <1>2, <2>1
    <2>2. CASE ~press
      <3>1. error_fifo > 0 /\ prime_alive_fifo > 0 /\ since_press' = since_press + 1
        BY <1>2, <1>3, <1>4, <1>7, <2>2
      <3>2. PICK w \in Nat : w = since_press
        BY <1>3
      <3>3. w <= 30
        BY <3>1, <3>2, <1>4
      <3>4. Credit(a, b, since_press)' = Credit(a, b, w + 1)'
        BY <3>1, <3>2 DEF Credit, LineCredit, AliveCredit
      <3>5. Credit(a, b, w + 1)' <= Credit(a, b, w) - 2
        BY <3>1, <3>3, CreditStep, AliveAssumption
      <3>6. Credit(a, b, w) + 2 * w <= 60
        BY <3>1, <3>2 DEF WaitBounded
      <3>7. Credit(a, b, w) \in 0..58 /\ Credit(a, b, w + 1)' \in 0..58
        BY CreditRange, CreditRangeNext
      <3>8. Credit(a, b, w + 1)' + 2 * (w + 1) <= 60
        BY <3>5, <3>6, <3>7
      <3> QED
        BY <3>1, <3>2, <3>4, <3>8
    <2> QED
      BY <2>1, <2>2
  <1> QED
    BY <1>5, <1>6, <1>7

\* The wait of the register of MONITOR_SHIFTER.v.
LEMMA MonitorWaitStep ==
  ASSUME NEW a, NEW b, TwoControllers(a, b),
         LinesTypeOK, LinesTypeOK', LinesTold, LinesTold', SmallTypeOK, SmallTypeOK',
         LogComplete, FirstServed, WaitBounded(a, b),
         NEW PRIME \in [Controllers -> Bit], NEW ALIVE \in [Controllers -> Bit],
         NEW press \in BOOLEAN, NEW load \in BOOLEAN,
         Sample(PRIME, ALIVE), Arbiter(press, load)
  PROVE  /\ since_load' > 0
         /\ ~MONITOR_FIFO_EMPTY' =>
              Credit(a, b, since_load)' + PressCredit' + 2 * since_load' <= 72
         /\ arb_sel_d1' = "monitor" => since_load' <= 37
  <1> USE Sizes DEF TwoControllers, WAIT
  <1>1. ServedInTime
    BY WaitsAreServed
  <1>2. /\ press => error_fifo = 0 /\ since_press = PressGap /\ since_press' = 1
        /\ ~press => /\ error_fifo' = error_fifo - (IF arb_sel = "error" THEN 1 ELSE 0)
                     /\ since_press' <= since_press + 1
        /\ load => MONITOR_FIFO_EMPTY /\ since_load' = 1
        /\ ~load => /\ MONITOR_FIFO_EMPTY' <=> MONITOR_FIFO_EMPTY \/ arb_sel = "monitor"
                    /\ since_load < LoadGap => since_load' = since_load + 1
                    /\ since_load' >= since_load
        /\ ~MONITOR_FIFO_EMPTY /\ arb_sel # "monitor" =>
              prime_alive_fifo > 0 \/ (arb_sel = "error" /\ error_fifo > 0)
        /\ arb_sel = "monitor" => ~MONITOR_FIFO_EMPTY
    BY <1>1, ArbiterFacts
  <1>3. /\ error_fifo \in 0..SMALL /\ error_fifo' \in 0..SMALL /\ error_fifo <= 1
        /\ since_press \in 0..PressGap /\ since_press' \in 0..PressGap
        /\ since_load \in 0..LoadGap /\ since_load' \in 0..LoadGap /\ since_load > 0
    BY DEF SmallTypeOK, WaitBounded
  <1>4. ~MONITOR_FIFO_EMPTY => since_load <= 36
    BY WaitsAreShort
  <1>5. since_load' > 0
    BY <1>2, <1>3
  <1>6. arb_sel_d1' = "monitor" => since_load' <= 37
    <2> SUFFICES ASSUME arb_sel_d1' = "monitor" PROVE since_load' <= 37
      OBVIOUS
    <2>1. arb_sel = "monitor"
      BY DEF Arbiter
    <2>2. ~MONITOR_FIFO_EMPTY /\ ~load
      BY <2>1, <1>2
    <2> QED
      BY <2>2, <1>2, <1>3, <1>4
  <1>7. ASSUME ~MONITOR_FIFO_EMPTY'
        PROVE  Credit(a, b, since_load)' + PressCredit' + 2 * since_load' <= 72
    <2>1. PressCredit \in 0..12 /\ PressCredit' \in 0..12
      BY DEF PressCredit
    <2>2. CASE load
      <3>1. Credit(a, b, since_load)' = Credit(a, b, 1)'
        BY <1>2, <2>2 DEF Credit, LineCredit, AliveCredit
      <3>2. Credit(a, b, 1)' \in 0..58
        BY CreditRangeNext
      <3>3. since_load' = 1
        BY <1>2, <2>2
      <3>4. Credit(a, b, 1)' + PressCredit' + 2 * 1 <= 72
        BY <3>2, <2>1
      <3> QED
        BY <3>1, <3>3, <3>4
    <2>3. CASE ~load
      <3>1. ~MONITOR_FIFO_EMPTY /\ arb_sel # "monitor"
        BY <1>2, <1>7, <2>3
      <3>2. since_load <= 36 /\ since_load' = since_load + 1
        BY <1>2, <1>3, <1>4, <2>3, <3>1
      <3>3. PICK w \in Nat : w = since_load
        BY <1>3
      <3>4. Credit(a, b, since_load)' = Credit(a, b, w + 1)'
        BY <3>2, <3>3 DEF Credit, LineCredit, AliveCredit
      <3>5. /\ Credit(a, b, w + 1)' <= Credit(a, b, w) + 4
            /\ prime_alive_fifo > 0 => Credit(a, b, w + 1)' <= Credit(a, b, w) - 2
        <4>1. w < TIMEOUT
          BY <3>2, <3>3, AliveAssumption
        <4> QED
          BY <4>1, CreditStep
      <3>6. Credit(a, b, w) + PressCredit + 2 * w <= 72
        BY <3>1, <3>3 DEF WaitBounded
      <3>7. Credit(a, b, w) \in 0..58 /\ Credit(a, b, w + 1)' \in 0..58
        BY CreditRange, CreditRangeNext
      <3>8. PressCredit' <= PressCredit
        <4>1. CASE press
          BY <4>1, <1>2, <1>3, <3>2 DEF PressCredit
        <4>2. CASE ~press
          BY <4>2, <1>2, <1>3, <3>2 DEF PressCredit
        <4> QED
          BY <4>1, <4>2
      <3>9. Credit(a, b, w + 1)' + PressCredit' + 2 * (w + 1) <= 72
        <4>1. CASE prime_alive_fifo > 0
          <5>1. Credit(a, b, w + 1)' <= Credit(a, b, w) - 2
            BY <4>1, <3>5
          <5> QED
            BY <5>1, <2>1, <3>6, <3>7, <3>8
        <4>2. CASE arb_sel = "error" /\ error_fifo > 0
          <5>1. ~press /\ error_fifo' = 0
            BY <4>2, <1>2, <1>3
          <5>2. PressCredit' <= PressCredit - 6
            BY <5>1, <4>2, <1>2, <1>3, <3>2 DEF PressCredit
          <5> QED
            BY <5>2, <2>1, <3>5, <3>6, <3>7
        <4> QED
          BY <4>1, <4>2, <3>1, <1>2
      <3> QED
        BY <3>2, <3>3, <3>4, <3>9
    <2> QED
      BY <2>2, <2>3
  <1> QED
    BY <1>5, <1>6, <1>7

\* The waits stay bounded, and so no record is lost.
LEMMA WaitInvariant ==
  ASSUME NEW a, NEW b, TwoControllers(a, b)
  PROVE  Spec => [](LogComplete /\ FirstServed /\ WaitBounded(a, b))
  <1> DEFINE K == LogComplete /\ FirstServed /\ WaitBounded(a, b)
  <1>1. Init => K
    <2> SUFFICES ASSUME Init PROVE WaitBounded(a, b)
      BY CompleteInit
    <2>1. /\ error_fifo = 0 /\ MONITOR_FIFO_EMPTY = TRUE /\ arb_sel_d1 = NONE
          /\ since_load = LoadGap
      BY DEF Init
    <2> QED
      BY <2>1, Sizes DEF WaitBounded, NONE
  <1>2. /\ K /\ SmallTypeOK /\ SmallTypeOK' /\ LinesTypeOK /\ LinesTypeOK'
        /\ LinesTold /\ LinesTold' /\ [Next]_vars
        => K'
    <2> SUFFICES ASSUME K, SmallTypeOK, SmallTypeOK', LinesTypeOK, LinesTypeOK',
                        LinesTold, LinesTold', [Next]_vars
                 PROVE  K'
      OBVIOUS
    <2>1. CASE Next
      <3>1. PICK PRIME \in [Controllers -> Bit], ALIVE \in [Controllers -> Bit],
                 press \in BOOLEAN, load \in BOOLEAN : Clock(PRIME, ALIVE, press, load)
        BY <2>1 DEF Next
      <3>2. Sample(PRIME, ALIVE) /\ Arbiter(press, load) /\ Owe(press, load)
        BY <3>1 DEF Clock
      <3>3. ServedInTime
        BY WaitsAreServed
      <3>4. LogComplete' /\ FirstServed'
        BY <3>2, <3>3, CompleteStep DEF TwoControllers
      <3>5. /\ error_fifo' <= 1
            /\ error_fifo' > 0 => Credit(a, b, since_press)' + 2 * since_press' <= 60
            /\ arb_sel_d1' = "error" => since_press' <= 31
        BY <3>2, ErrorWaitStep
      <3>6. /\ since_load' > 0
            /\ ~MONITOR_FIFO_EMPTY' =>
                 Credit(a, b, since_load)' + PressCredit' + 2 * since_load' <= 72
            /\ arb_sel_d1' = "monitor" => since_load' <= 37
        BY <3>2, MonitorWaitStep
      <3> QED
        BY <3>4, <3>5, <3>6 DEF WaitBounded
    <2>2. CASE UNCHANGED vars
      <3>1. LogComplete' /\ FirstServed'
        BY <2>2 DEF vars, small, history, LogComplete, FirstServed, OnTheWay
      <3>2. /\ UNCHANGED <<prime_ones, quiet, alive_state, curr_state, state_change,
                           prime_alive_fifo, error_fifo, MONITOR_FIFO_EMPTY>>
            /\ UNCHANGED <<since_load, since_press, arb_sel_d1>>
        BY <2>2 DEF vars, small, monitor, fsm, lines
      <3>3. next_state' = next_state
        BY <3>2 DEF next_state
      <3>4. WaitBounded(a, b)'
        BY <3>2, <3>3 DEF WaitBounded, Credit, LineCredit, PrimeCredit, AliveCredit,
                          ChangeCredit, PressCredit
      <3> QED
        BY <3>1, <3>4
    <2> QED
      BY <2>1, <2>2
  <1> HIDE DEF K
  <1>3. Spec => []K
    BY <1>1, <1>2, LinesInvariant, WayInvariant, PTL DEF Spec
  <1> QED
    BY <1>3 DEF K

\* Nobody waits long for FIFO_ARBITER.v: with two controllers, whatever their
\* lines do, the record of a press and the register of MONITOR_SHIFTER.v are in
\* the big FIFO less than WAIT edges later, hence before the next press or load,
\* although a change of state always goes first.
THEOREM RecorderServedInTime ==
  ASSUME NEW a, NEW b, TwoControllers(a, b)
  PROVE  Spec => []ServedInTime
  <1>1. /\ LinesTypeOK /\ SmallTypeOK /\ LogComplete /\ FirstServed /\ WaitBounded(a, b)
        => ServedInTime
    BY WaitsAreServed
  <1> QED
    BY <1>1, WaitInvariant, LinesInvariant, WayInvariant, PTL

\* No record is lost on its way to the big FIFO: with two controllers the full
\* outputs of the small FIFOs, which BTE.v leaves open, are never needed.
THEOREM RecorderNothingLost ==
  ASSUME NEW a, NEW b, TwoControllers(a, b)
  PROVE  Spec => []LogComplete
  <1>1. LogComplete /\ FirstServed /\ WaitBounded(a, b) => LogComplete
    OBVIOUS
  <1> QED
    BY <1>1, WaitInvariant, PTL

=============================================================================
