----------------------------- MODULE ErrorModes -----------------------------
(***************************************************************************)
(* The error modes of src/firmware/libraries/fdu/fdu.c, by which the test  *)
(* equipment makes a board misbehave.                                      *)
(***************************************************************************)
EXTENDS Integers

NORMAL == 0
CORRUPT == 1        \* crc of packets corrupt
STUCK == 4          \* Gray code stuck
OUT_OF_ORDER == 5   \* Gray code out of order
SLOW == 6           \* Gray code slow
RUNAWAY == 7        \* the processor is lost

Modes == {NORMAL, CORRUPT, STUCK, OUT_OF_ORDER, SLOW, RUNAWAY}

\* Codes on the four error inputs that error_injector acts upon.
ErrorCodes == 1..15

\* A mutated form: an undefined code is taken for a mode.
InjectedRaw(err) == err

\* The switch of error_injector: an undefined code clears the mode.
Injected(err) == IF err \in Modes THEN err ELSE NORMAL

=============================================================================
