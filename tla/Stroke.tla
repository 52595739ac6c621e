------------------------------- MODULE Stroke -------------------------------
(***************************************************************************)
(* One string from end to end: the stroking task of                        *)
(* src/firmware/libraries/fdu/fdu.c with its error modes, the watchdog it  *)
(* strokes (module Wdt) and the power-on reset by which fdu.v answers a    *)
(* falling health (module FduBlocks).  A step is a rising edge of the      *)
(* FPGA's clock, in which the board gets on with its task, or a new error  *)
(* mode.  The board's times are counted in clock edges.                    *)
(***************************************************************************)
EXTENDS Wdt, FduBlocks, ErrorModes

CONSTANTS
  SLEEP,     \* edges of Sleep(100)
  JITTER,    \* edges by which a nap may be longer
  WRITE,     \* edges DigitalOut_SetValue takes
  ROUNDS     \* rounds of stroke_wdt before error_injector has slept its second

ASSUME SleepAssumption == SLEEP \in Nat \ {0}
ASSUME JitterAssumption == JITTER \in Nat
ASSUME WriteAssumption == WRITE \in Nat \ {0}
ASSUME RoundsAssumption == ROUNDS \in Nat

VARIABLES
  pins,          \* the three watchdog outputs of the board
  fdu_tri,       \* their first register in fdu.v
  health_d1, por, por_count,
  pc,            \* where stroke_wdt is: "head", "sleep", "loop", "write"
  wait,          \* edges until it goes on
  i, bit,        \* the loop variable, the output written next
  fdu_mode,
  rounds,        \* history: rounds since boot, up to ROUNDS
  faulty         \* history: an error mode that concerns the strokes was set since boot

task   == <<pins, pc, wait, i, bit, rounds>>
allVars == <<vars, task, fdu_tri, health_d1, por, por_count, fdu_mode, faulty>>

\* The error modes that disturb the strokes.
StrokeFaults == {STUCK, OUT_OF_ORDER, SLOW, RUNAWAY}

StrokeTypeOK ==
  /\ pins \in Codes /\ fdu_tri \in Codes
  /\ health_d1 \in BOOLEAN /\ por \in BOOLEAN /\ por_count \in 0..(POR_TERMINAL_COUNT + 1)
  /\ pc \in {"head", "sleep", "loop", "write"} /\ wait \in 0..(2 * SLEEP + JITTER + WRITE)
  /\ i \in 0..255 /\ bit \in 0..2
  /\ fdu_mode \in Modes /\ rounds \in 0..ROUNDS /\ faulty \in BOOLEAN

\* Power-up.
InitS ==
  /\ Init /\ reset = FALSE
  /\ pins \in Codes /\ fdu_tri = 0
  /\ health_d1 = FALSE /\ por = FALSE /\ por_count = 0
  /\ pc = "head" /\ wait = 0 /\ i = 0 /\ bit = 0
  /\ fdu_mode = NORMAL /\ rounds = 0 /\ faulty = FALSE

-----------------------------------------------------------------------------
(***************************************************************************)
(* Mutated forms, used to confirm that the properties notice a mistake.    *)
(***************************************************************************)
\* The loop variable is a signed number.
FirstIndexSigned(k) == IF fdu_mode = OUT_OF_ORDER THEN k - 2 ELSE k

\* The pause is too long for the watchdog.
NapLong == 2 * SLEEP

\* The out-of-order mode repeats codes in order.
FirstIndexSame(k) == k

-----------------------------------------------------------------------------
Nap == IF fdu_mode = SLOW THEN 2 * SLEEP ELSE SLEEP

\* i is an unsigned char: 0 - 2 is 254.
FirstIndex(k) == IF fdu_mode = OUT_OF_ORDER THEN (k - 2) % 256 ELSE k

\* wdt_bits[b] for the loop variable k.
WdtBit(k, b) == ((k \div 2^b) + (k \div 2^(b + 1))) % 2

\* DigitalOut_SetValue(b, v).
SetPin(b, v) == pins + (v - ((pins \div 2^b) % 2)) * 2^b

\* The head of the loop of stroke_wdt: the prime line is polled, and a nap taken.
Head ==
  /\ pc = "head" /\ pc' = "sleep" /\ wait' \in Nap..(Nap + JITTER)
  /\ rounds' = IF rounds < ROUNDS THEN rounds + 1 ELSE rounds
  /\ UNCHANGED <<pins, i, bit>>

Awake ==
  /\ pc = "sleep" /\ pc' = "loop" /\ i' = 0
  /\ UNCHANGED <<pins, wait, bit, rounds>>

\* The for loop: its end, a round without strokes, and a round with three writes.
LoopEnds ==
  /\ pc = "loop" /\ i >= 8 /\ pc' = "head"
  /\ UNCHANGED <<pins, wait, i, bit, rounds>>

LoopSkips ==
  /\ pc = "loop" /\ i < 8 /\ fdu_mode = STUCK
  /\ i' = i + 1
  /\ UNCHANGED <<pins, pc, wait, bit, rounds>>

LoopStrokes ==
  /\ pc = "loop" /\ i < 8 /\ fdu_mode # STUCK
  /\ i' = FirstIndex(i) /\ bit' = 0 /\ pc' = "write"
  /\ UNCHANGED <<pins, wait, rounds>>

WritePin ==
  /\ pc = "write"
  /\ pins' = SetPin(bit, WdtBit(i, bit))
  /\ wait' = WRITE - 1
  /\ IF bit < 2 THEN bit' = bit + 1 /\ UNCHANGED <<pc, i>>
                ELSE bit' = 0 /\ pc' = "loop" /\ i' = (i + 1) % 256
  /\ UNCHANGED rounds

\* stroke_wdt goes on, unless it sleeps or the processor is lost.
BoardRuns ==
  IF wait > 0 \/ fdu_mode = RUNAWAY
  THEN /\ wait' = IF fdu_mode = RUNAWAY THEN wait ELSE wait - 1
       /\ UNCHANGED <<pins, pc, i, bit, rounds>>
  ELSE Head \/ Awake \/ LoopEnds \/ LoopSkips \/ LoopStrokes \/ WritePin

\* A power-on reset leaves the outputs at some level and the task at its start.
BoardResets ==
  /\ IF por THEN UNCHANGED pins ELSE pins' \in Codes
  /\ pc' = "head" /\ wait' = 0 /\ i' = 0 /\ bit' = 0 /\ rounds' = 0

\* A rising clock edge.
Edge ==
  /\ Clock /\ fdu_d1' = fdu_tri
  /\ fdu_tri' = pins
  /\ health_d1' = health
  /\ por' = PorNew(por, por_count, health, health_d1)
  /\ por_count' = PorCountNew(por, por_count)
  /\ IF por' THEN /\ BoardResets
                  /\ fdu_mode' = NORMAL /\ faulty' = FALSE
             ELSE /\ BoardRuns
                  /\ UNCHANGED <<fdu_mode, faulty>>

\* error_injector finds a code on its inputs, every 5 ms after the first second.
ErrorInjector(err) ==
  /\ ~por /\ rounds = ROUNDS /\ fdu_mode # RUNAWAY
  /\ fdu_mode' = Injected(err)
  /\ faulty' = (faulty \/ fdu_mode' \in StrokeFaults)
  /\ UNCHANGED <<vars, task, fdu_tri, health_d1, por, por_count>>

NextS == Edge \/ \E err \in ErrorCodes : ErrorInjector(err)

SpecS == InitS /\ [][NextS]_allVars

\* The oscillator never stops.
FairSpecS == SpecS /\ WF_allVars(Edge)

-----------------------------------------------------------------------------
\* A board that strokes is not reset: fdu.v asserts por only after an error mode
\* that concerns the strokes was set in fdu.c, or on the first strokes after
\* boot, which a timeout of the watchdog may have torn.
NoFalseReset == [][~por /\ por' => faulty \/ rounds <= 2]_allVars

\* No error mode of the strokes is for ever: unless another mode is selected
\* before, the watchdog notices it and the power-on reset ends it.
FaultsEnd == \A m \in StrokeFaults : []<>(fdu_mode # m)

\* A board left in peace is in service again and again.
ServiceResumes == <>[](fdu_mode \notin StrokeFaults) => []<>health

-----------------------------------------------------------------------------
(***************************************************************************)
(* The inductive invariant behind StrokeTypeOK: a power-on reset is not    *)
(* started again at its end, because the pins of a board in reset do not   *)
(* move and the watchdog has given it up by then.                          *)
(***************************************************************************)
\* A state that the pins, as they are now, do not lead out of.
SettledOn(s) == s \in 0..7 => Gray[s] = pins

Starved == ~health /\ {state, next_state} \subseteq {ERROR, IDLE, ZERO}

InPor ==
  por =>
    /\ por_count <= POR_TERMINAL_COUNT
    /\ por_count >= 1 => fdu_tri = pins
    /\ por_count >= 2 => fdu_d1 = pins
    /\ por_count >= 3 => SettledOn(next_state)
    /\ por_count >= 4 => SettledOn(state)
    /\ por_count >= 5 => Starved \/ (~clear /\ count >= por_count - 5)
    /\ por_count >= TIMEOUT + 6 => Starved
    /\ por_count >= TIMEOUT + 7 => ~health_d1

StrokeInv == TypeOK /\ ~reset /\ StrokeTypeOK /\ InPor

=============================================================================
