------------------------------ MODULE Recorder ------------------------------
(***************************************************************************)
(* How the test equipment (BTE) writes its log: three sources of records,  *)
(* FIFO_ARBITER.v, FIFO_TO_ASCII.v and UART.v of src/bte_source_code, all  *)
(* on one clock.  The sources are the status of the controllers' lines     *)
(* (AliveMonitor), the error button (ERROR.v) and the monitor board        *)
(* (MONITOR_SHIFTER.v, whose one register MonitorLink fills).              *)
(*                                                                         *)
(* Clock is one edge: every register takes its next value from the values  *)
(* all of them had before it.  What a record says is left out: a FIFO is   *)
(* the number of its records.                                              *)
(***************************************************************************)
EXTENDS AliveMonitor

CONSTANTS
  SMALL, DEPTH,        \* depths of the FIFOs (16 and 1024)
  NIBBLES,             \* characters of a record (32)
  BAUD_PERIOD,         \* edges per bit on the serial line (UART.v: 43)
  CHAR,                \* bits of a character on the serial line (10)
  LoadGap,             \* edges between two monitor records, at least (1000)
  PressGap             \* edges between two presses, at least (DEBOUNCER.v: 10 * 50000)

ASSUME RecorderAssumption ==
  {SMALL, DEPTH, NIBBLES, BAUD_PERIOD, CHAR, LoadGap, PressGap} \subseteq Nat \ {0}

Sources == {"prime_alive", "error", "monitor"}
NONE == "none"

VARIABLES
  prime_alive_fifo, error_fifo,
  MONITOR_FIFO_EMPTY,
  since_load, since_press,     \* edges since the register was loaded, the button pressed
  arb_sel_d1,                  \* the source read at the last edge
  fifo_big, nibble_counter,
  idle, fifo_read_d1, baud_counter, total_counter,
  char, bits,                  \* data_shifter: its character, the bits not sent yet
  owed,                        \* history: per source, the records not in the big FIFO yet
  told                         \* history: the state in the last record of the lines

small   == <<prime_alive_fifo, error_fifo, MONITOR_FIFO_EMPTY, since_load, since_press>>
ascii   == <<fifo_big, nibble_counter>>
uart    == <<idle, fifo_read_d1, baud_counter, total_counter, char, bits>>
history == <<owed, told>>
vars    == <<monitor, lines, small, arb_sel_d1, ascii, uart, history>>

FRAME == CHAR + 2              \* UART.v: 11 + INTERFRAME_WAIT

TypeOK ==
  /\ MonitorTypeOK
  /\ prime_alive_fifo \in 0..SMALL /\ error_fifo \in 0..SMALL
  /\ MONITOR_FIFO_EMPTY \in BOOLEAN
  /\ since_load \in 0..LoadGap /\ since_press \in 0..PressGap
  /\ arb_sel_d1 \in Sources \cup {NONE}
  /\ fifo_big \in 0..DEPTH /\ nibble_counter \in 0..NIBBLES
  /\ idle \in BOOLEAN /\ fifo_read_d1 \in BOOLEAN
  /\ baud_counter \in 0..(BAUD_PERIOD - 1) /\ total_counter \in 0..FRAME
  /\ char \in 0..NIBBLES /\ bits \in 0..CHAR
  /\ owed \in [Sources -> Nat] /\ told \in States

Init ==
  /\ MonitorInit
  /\ prime_alive_fifo = 0 /\ error_fifo = 0 /\ MONITOR_FIFO_EMPTY = TRUE
  /\ since_load = LoadGap /\ since_press = PressGap
  /\ arb_sel_d1 = NONE
  /\ fifo_big = 0 /\ nibble_counter = 0
  /\ idle = TRUE /\ fifo_read_d1 = FALSE /\ baud_counter = 0 /\ total_counter = 0
  /\ char = 0 /\ bits = 0
  /\ owed = [s \in Sources |-> 0] /\ told = AllQuiet

-----------------------------------------------------------------------------
(***************************************************************************)
(* Mutated forms, used to confirm that the properties notice a mistake.    *)
(***************************************************************************)
\* A record that has been read stays in the register.
EmptyNextKept(load) == ~load /\ MONITOR_FIFO_EMPTY

\* The next character is asked for before the last one is out.
IdleNextAtOnce == ~(idle /\ (fifo_big > 0 \/ nibble_counter > 0))

-----------------------------------------------------------------------------
\* A FIFO core, external: a record that meets a full FIFO is dropped.
FifoNext(n, depth, write, read) ==
  n + (IF write /\ n < depth THEN 1 ELSE 0) - (IF read THEN 1 ELSE 0)

\* FIFO_ARBITER: the first source that has a record is read, and its record
\* written to the big FIFO at the next edge.
arb_sel ==
  IF prime_alive_fifo > 0 THEN "prime_alive"
  ELSE IF error_fifo > 0 THEN "error"
  ELSE IF ~MONITOR_FIFO_EMPTY THEN "monitor" ELSE NONE

FIFO_WRITE == arb_sel_d1 # NONE

\* MONITOR_SHIFTER: the register is filled by a load, emptied by a read.
EmptyNext(load) == ~load /\ (MONITOR_FIFO_EMPTY \/ arb_sel = "monitor")

\* A record for each change of state, each press of the button, each load.
Arbiter(press, load) ==
  /\ press => since_press = PressGap
  /\ load => since_load = LoadGap
  /\ prime_alive_fifo' = FifoNext(prime_alive_fifo, SMALL, state_change, arb_sel = "prime_alive")
  /\ error_fifo' = FifoNext(error_fifo, SMALL, press, arb_sel = "error")
  /\ MONITOR_FIFO_EMPTY' = EmptyNext(load)
  /\ since_press' = IF press THEN 1 ELSE UpTo(since_press, PressGap)
  /\ since_load' = IF load THEN 1 ELSE UpTo(since_load, LoadGap)
  /\ arb_sel_d1' = arb_sel

-----------------------------------------------------------------------------
\* UART: a character is asked for when there is one and the last has gone.
ASCII_EMPTY == fifo_big = 0 /\ nibble_counter = 0
ASCII_READ == ~ASCII_EMPTY /\ idle

\* FIFO_TO_ASCII: a line is a newline (character NIBBLES) and the nibbles of a
\* record, the last of them character 0.
fifo_big_read == ASCII_READ /\ nibble_counter = 0

Ascii ==
  /\ fifo_big' = FifoNext(fifo_big, DEPTH, FIFO_WRITE, fifo_big_read)
  /\ nibble_counter' = IF fifo_big_read THEN NIBBLES
                       ELSE IF ASCII_READ THEN nibble_counter - 1 ELSE nibble_counter

baud_counter_done == baud_counter = BAUD_PERIOD - 1

IdleNext == ~ASCII_READ /\ (idle \/ total_counter = 0)

Uart ==
  /\ baud_counter' = IF baud_counter_done \/ ASCII_READ THEN 0 ELSE baud_counter + 1
  /\ fifo_read_d1' = ASCII_READ
  /\ char' = IF fifo_read_d1 THEN nibble_counter ELSE char
  /\ bits' = IF fifo_read_d1 THEN CHAR
             ELSE IF baud_counter_done /\ bits > 0 THEN bits - 1 ELSE bits
  /\ total_counter' = IF ASCII_READ THEN FRAME
                      ELSE IF baud_counter_done /\ total_counter > 0
                        THEN total_counter - 1 ELSE total_counter
  /\ idle' = IdleNext

-----------------------------------------------------------------------------
\* History: a record is owed from its cause until it is written to the big FIFO.
Happened(s, press, load) ==
  \/ s = "prime_alive" /\ state_change
  \/ s = "error" /\ press
  \/ s = "monitor" /\ load

Owe(press, load) ==
  /\ owed' = [s \in Sources |->
       owed[s] + (IF Happened(s, press, load) THEN 1 ELSE 0)
               - (IF FIFO_WRITE /\ arb_sel_d1 = s THEN 1 ELSE 0)]
  /\ told' = IF state_change THEN curr_state ELSE told

\* An edge of the clock, with what the lines, the button and the shifter bring.
Clock(PRIME, ALIVE, press, load) ==
  /\ Arbiter(press, load)
  /\ Sample(PRIME, ALIVE)
  /\ Ascii
  /\ Uart
  /\ Owe(press, load)

Next ==
  \E PRIME, ALIVE \in [Controllers -> Bit], press, load \in BOOLEAN :
    Clock(PRIME, ALIVE, press, load)

Spec == Init /\ [][Next]_vars

-----------------------------------------------------------------------------
\* The records of a source on their way to the big FIFO.
OnTheWay(s) ==
  (IF arb_sel_d1 = s THEN 1 ELSE 0)
    + (IF s = "prime_alive" THEN prime_alive_fifo
       ELSE IF s = "error" THEN error_fifo
       ELSE IF MONITOR_FIFO_EMPTY THEN 0 ELSE 1)

\* The log is complete as far as the big FIFO: every change of state, press and
\* load has its record on the way or in there, once.  The small FIFOs, whose
\* full outputs nobody looks at (BTE.v asks whether there is any need to), do
\* not overflow, and FIFO_ARBITER.v reads nothing twice.
LogComplete == \A s \in Sources : OnTheWay(s) = owed[s]

\* Although FIFO_ARBITER.v has priorities, nobody waits long: the record of a
\* press and the one register of MONITOR_SHIFTER.v are in the big FIFO before the
\* next press or load can come.
ServedInTime ==
  /\ since_press = PressGap => owed["error"] = 0
  /\ since_load = LoadGap => MONITOR_FIFO_EMPTY /\ arb_sel_d1 # "monitor"

\* The log tells the state of the lines: according to the last record of
\* PRIME_ALIVE_MONITOR.v a line that has settled is what it is, and a controller
\* is alive if and only if its line has changed in the last TIMEOUT edges.
LogTellsState ==
  \A c \in Controllers :
    /\ held[c] = PrimeSettled(level[c]) => told[c].prime = level[c]
    /\ quiet[c] >= 2 => (told[c].alive = 1 <=> quiet[c] < AliveSettled)

\* Lines are whole: whatever arrives meanwhile, and even if the big FIFO is
\* full, the characters of a record follow each other after a newline, and none
\* is replaced in the shifter of UART.v before its last bit is out.
LinesWhole ==
  [][fifo_read_d1 =>
       bits = 0 /\ char' = (IF char = 0 THEN NIBBLES ELSE char - 1)]_vars

-----------------------------------------------------------------------------
(***************************************************************************)
(* The inductive invariants behind the theorems of RecorderProofs: where   *)
(* each sample of the lines has got to, and how far a character is out.    *)
(***************************************************************************)
LinesTold ==
  /\ ~state_change => told = curr_state
  /\ \A c \in Controllers :
       /\ prime_ones[c] = (IF level[c] = 0 THEN 0 ELSE IF held[c] < STABLE THEN held[c] ELSE STABLE)
       /\ level[c] = 1 /\ held[c] >= STABLE + 1 => curr_state[c].prime = 1
       /\ level[c] = 0 /\ held[c] >= 2 => curr_state[c].prime = 0
       /\ level[c] = 1 /\ held[c] >= STABLE + 2 => told[c].prime = 1
       /\ level[c] = 0 /\ held[c] >= 3 => told[c].prime = 0
       /\ alive_state[c] # "IDLE" => alive_counter[c] = quiet[c] /\ quiet[c] <= TIMEOUT
       /\ alive_state[c] = "IDLE" => quiet[c] > TIMEOUT
       /\ quiet[c] >= 1 => (curr_state[c].alive = 1 <=> quiet[c] <= TIMEOUT + 1)
       /\ quiet[c] >= 2 => (told[c].alive = 1 <=> quiet[c] <= TIMEOUT + 2)

CharactersOut ==
  /\ idle => ~fifo_read_d1 /\ bits = 0
  /\ fifo_read_d1 => bits = 0 /\ total_counter = FRAME
  /\ bits > 0 => total_counter > bits
  /\ fifo_read_d1 => nibble_counter = (IF char = 0 THEN NIBBLES ELSE char - 1)
  /\ ~fifo_read_d1 => nibble_counter = char

\* No record gets into the log that nobody caused.
NothingInvented == \A s \in Sources : OnTheWay(s) <= owed[s]

\* The source with the highest priority never has to wait.
FirstServed == prime_alive_fifo <= 1

=============================================================================
