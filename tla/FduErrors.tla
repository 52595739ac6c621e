----------------------------- MODULE FduErrors -----------------------------
(***************************************************************************)
(* The FDU with its error inputs, from src/fdu_fpga/fdu.v and clk_cntr.v:  *)
(* a switch per string, and a line per string from the test equipment,     *)
(* which is masked for some time after a reset and latched until the next. *)
(* While either is on the watchdog sees floating pins instead of strokes.  *)
(***************************************************************************)
EXTENDS FduMonitor

CONSTANTS
  MAX_CNT,       \* edges for which the lines are masked (fdu.v: 25000000)
  Injectable     \* bound: the strings whose error inputs are used

ASSUME MaskAssumption == MAX_CNT \in Nat \ {0} /\ Injectable \subseteq Strings

VARIABLES
  clk_cnt, ignore_bte,   \* clk_cntr; ignore_bte is up when the lines count
  error_bte_d,           \* per string: error_bte_d1, _d2, _d3
  error_bte_diff,        \* per string: the latched error
  floating,              \* per string: edges its pins have been cut off, up to Drain + 1
  struck                 \* history, per string: edges since its line was first high and
                         \* not masked, up to StruckOut; 0 if it never was

mask == <<clk_cnt, ignore_bte, error_bte_d, error_bte_diff, floating, struck>>
errVars == <<allvars, mask>>

\* From the line to the latch 4 edges, until the watchdog runs out, until prime
\* has moved.
StruckOut == 4 + Drain + 2 + Settle

MaskTypeOK ==
  /\ clk_cnt \in 0..MAX_CNT /\ ignore_bte \in BOOLEAN
  /\ error_bte_d \in [Strings -> [1..3 -> BOOLEAN]]
  /\ error_bte_diff \in [Strings -> BOOLEAN] /\ struck \in [Strings -> 0..StruckOut]
  /\ floating \in [Strings -> 0..(Drain + 1)]

InitE ==
  /\ InitH
  /\ clk_cnt = 0 /\ ignore_bte = FALSE
  /\ error_bte_d = AllStrings(<<FALSE, FALSE, FALSE>>) /\ error_bte_diff = AllStrings(FALSE)
  /\ floating = AllStrings(0) /\ struck = AllStrings(0)

-----------------------------------------------------------------------------
(***************************************************************************)
(* Mutated forms, used to confirm that the properties notice a mistake.    *)
(***************************************************************************)
\* The error follows the line instead of being latched.
DiffNewFollows(s) == error_bte_d[s][2]

-----------------------------------------------------------------------------
\* clk_cntr, without ROLLOVER.
CntNew == IF clk_cnt < MAX_CNT THEN clk_cnt + 1 ELSE clk_cnt

\* error_bte_d0.
Unmasked(line) == line /\ ignore_bte

\* A rising edge of the line is remembered.
DiffNew(s) == error_bte_diff[s] \/ (error_bte_d[s][2] /\ ~error_bte_d[s][3])

\* A rising clock edge, with the lines and the switches as they are.
MaskClock(error_bte, error_sw) ==
  /\ clk_cnt' = CntNew
  /\ ignore_bte' = (ignore_bte \/ clk_cnt = MAX_CNT)
  /\ error_bte_d' = [s \in Strings |->
       <<Unmasked(error_bte[s]), error_bte_d[s][1], error_bte_d[s][2]>>]
  /\ error_bte_diff' = [s \in Strings |-> DiffNew(s)]
  /\ floating' = [s \in Strings |->
       IF ~error_sw[s] /\ ~error_bte_diff[s] THEN 0
       ELSE IF floating[s] <= Drain THEN floating[s] + 1 ELSE floating[s]]
  /\ struck' = [s \in Strings |->
       IF struck[s] = 0 THEN IF error_bte[s] /\ ignore_bte THEN 1 ELSE 0
       ELSE IF struck[s] < StruckOut THEN struck[s] + 1 ELSE StruckOut]

\* A watchdog without strokes does not stay healthy.
ClockE ==
  /\ ClockH
  /\ \A s \in Strings : health_int'[s] => floating[s] <= Drain
  /\ \E error_bte, error_sw \in [Strings -> BOOLEAN] :
       /\ \A s \in Strings \ Injectable : ~error_bte[s] /\ ~error_sw[s]
       /\ MaskClock(error_bte, error_sw)

ResetE ==
  /\ Reset /\ ObserveReset
  /\ clk_cnt' = 0 /\ ignore_bte' = FALSE
  /\ error_bte_d' = AllStrings(<<FALSE, FALSE, FALSE>>) /\ error_bte_diff' = AllStrings(FALSE)
  /\ floating' = AllStrings(0) /\ struck' = AllStrings(0)

NextE == ClockE \/ ResetE

SpecE == InitE /\ [][NextE]_errVars

-----------------------------------------------------------------------------
\* An error of the test equipment is for good: however short the pulse on the
\* line, its string is out of service soon after, and stays so until somebody
\* presses the reset button of the FDU.  What the line does while it is masked
\* harms nobody.
ErrorForGood ==
  \A s \in Strings :
    /\ struck[s] = StruckOut => ~health_int[s] /\ prime # s
    /\ struck[s] = 0 => ~error_bte_diff[s]

-----------------------------------------------------------------------------
\* The inductive invariant behind ErrorForGood: how far a pulse on the line has
\* come, and what it has done.
Struck ==
  \A s \in Strings :
    LET d == error_bte_d[s] IN
      /\ struck[s] = 0 => ~d[1] /\ ~d[2] /\ ~d[3] /\ ~error_bte_diff[s]
      /\ struck[s] = 1 => d[1] /\ ~d[2] /\ ~d[3]
      /\ struck[s] = 2 => d[2] /\ ~d[3]
      /\ struck[s] >= 3 => error_bte_diff[s]
      /\ struck[s] >= 3 => floating[s] = Drain + 1 \/ floating[s] >= struck[s] - 3
      /\ struck[s] >= Drain + 5 => ~health_int[s]
      /\ struck[s] >= Drain + 5 => age[s] = MaxAge \/ age[s] >= struck[s] - (Drain + 5)

=============================================================================
