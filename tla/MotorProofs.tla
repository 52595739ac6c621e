---------------------------- MODULE MotorProofs -----------------------------
(***************************************************************************)
(* The shuttle stays on its track, for every track, step size and place of *)
(* the index sensor.                                                       *)
(***************************************************************************)
EXTENDS MotorBoard, TLAPS

LEMMA MotorInit == Init => MotorInv
  <1> SUFFICES ASSUME Init PROVE MotorInv
    OBVIOUS
  <1>1. TypeOK
    BY FirstAssumption, PlacesAssumption DEF Init, TypeOK, Answers
  <1>2. Track
    BY FirstAssumption, TravelAssumption DEF Init, Track
  <1> QED
    BY <1>1, <1>2 DEF MotorInv

LEMMA CalibrationStep ==
  ASSUME MotorInv, Calibration
  PROVE  MotorInv'
  <1> USE FirstAssumption, TravelAssumption, StepAssumption DEF MotorInv, TypeOK
  <1>1. CASE CalibrationTests
    <2>1. CASE ~Tripped
      <3>1. TypeOK'
        BY <1>1, <2>1 DEF CalibrationTests
      <3>2. Track'
        BY <1>1, <2>1 DEF CalibrationTests, Track, Tripped
      <3> QED
        BY <3>1, <3>2
    <2>2. CASE Tripped
      <3>1. TypeOK'
        BY <1>1, <2>2 DEF CalibrationTests
      <3>2. Track'
        BY <1>1, <2>2 DEF CalibrationTests, Track, Tripped
      <3> QED
        BY <3>1, <3>2
    <2> QED
      BY <2>1, <2>2
  <1>2. CASE CalibrationArrives
    <2>1. TypeOK'
      BY <1>2 DEF CalibrationArrives, NextCurrent
    <2>2. Track'
      BY <1>2 DEF CalibrationArrives, NextCurrent, Track
    <2> QED
      BY <2>1, <2>2
  <1> QED
    BY <1>1, <1>2 DEF Calibration

LEMMA StepperStep ==
  ASSUME MotorInv, StepperMoves
  PROVE  MotorInv'
  <1> USE FirstAssumption, TravelAssumption, StepAssumption DEF MotorInv, TypeOK
  <1>1. TypeOK'
    BY DEF StepperMoves, Towards
  <1>2. Track'
    BY DEF StepperMoves, Towards, Track
  <1> QED
    BY <1>1, <1>2

LEMMA AnswerType ==
  ASSUME TypeOK, NEW ok \in BOOLEAN, NEW target \in Int, TellController(ok, target)
  PROVE  answer' \in Answers
  <1>1. PICK val \in {position, Towards(target)} :
          answer' = [ok |-> ok, val |-> val, moving |-> val # target]
    BY DEF TellController
  <1>2. val \in Int
    BY <1>1 DEF Towards, TypeOK
  <1> QED
    BY <1>1, <1>2 DEF Answers

LEMMA CommandStep ==
  ASSUME MotorInv, NEW cmd \in Commands, DoMotorCommand(cmd)
  PROVE  MotorInv'
  <1> USE FirstAssumption, TravelAssumption, StepAssumption DEF MotorInv, TypeOK
  <1>1. /\ phase = "ready"
        /\ UNCHANGED <<index, position, phase, currentPos, motorZeroPoint>>
        /\ \/ UNCHANGED requested
           \/ position = requested /\ ~Tripped /\ requested' = requested + STEP_SIZE
           \/ RoomBehind /\ requested' = requested - STEP_SIZE
    BY DEF DoMotorCommand, Busy, RoomAhead
  <1>2. answer' \in Answers
    <2>1. /\ requested \in Int
          /\ requested + STEP_SIZE \in Int
          /\ requested - STEP_SIZE \in Int
      OBVIOUS
    <2>2. \/ TellController(TRUE, requested)
          \/ TellController(FALSE, requested)
          \/ TellController(TRUE, requested + STEP_SIZE)
          \/ TellController(TRUE, requested - STEP_SIZE)
      BY Zenon DEF DoMotorCommand
    <2> QED
      BY <2>1, <2>2, AnswerType
  <1>3. TypeOK'
    BY <1>1, <1>2
  <1>4. Track'
    BY <1>1 DEF Track, Tripped, RoomBehind
  <1> QED
    BY <1>3, <1>4

LEMMA MotorInvariant == Spec => []MotorInv
  <1>1. MotorInv /\ [Next]_vars => MotorInv'
    <2> SUFFICES ASSUME MotorInv, [Next]_vars PROVE MotorInv'
      OBVIOUS
    <2>1. CASE UNCHANGED vars
      BY <2>1 DEF MotorInv, TypeOK, Track, vars
    <2> QED
      BY <2>1, CalibrationStep, StepperStep, CommandStep DEF Next
  <1> QED
    BY <1>1, MotorInit, PTL DEF Spec

\* No sequence of commands to make.c takes the shuttle off its track.
THEOREM MotorTravelLimits == Spec => []TravelLimits
  <1>1. MotorInv => TravelLimits
    BY TravelAssumption DEF MotorInv, TypeOK, Track, TravelLimits
  <1> QED
    BY <1>1, MotorInvariant, PTL

-----------------------------------------------------------------------------
LEMMA EvenAnswer ==
  ASSUME TypeOK, NEW ok \in BOOLEAN, NEW target \in Int, target % 2 = 0,
         TellController(ok, target)
  PROVE  SentinelSafe'
  <1>1. PICK val \in {position, Towards(target)} :
          answer' = [ok |-> ok, val |-> val, moving |-> val # target]
    BY DEF TellController
  <1>2. target # -1
    OBVIOUS
  <1> QED
    BY <1>1, <1>2 DEF SentinelSafe

LEMMA ParityStep ==
  ASSUME TypeOK, Parity, SentinelSafe, [Next]_vars
  PROVE  Parity' /\ SentinelSafe'
  <1> USE EvenAssumption, FirstAssumption, StepAssumption
  <1>1. CASE UNCHANGED vars
    BY <1>1 DEF vars, Parity, SentinelSafe
  <1>2. CASE Calibration
    <2>1. UNCHANGED answer
      BY <1>2 DEF Calibration, CalibrationTests, CalibrationArrives
    <2>2. Parity'
      BY <1>2 DEF TypeOK, Parity, Calibration, CalibrationTests, CalibrationArrives, NextCurrent
    <2> QED
      BY <2>1, <2>2 DEF SentinelSafe
  <1>3. CASE StepperMoves
    BY <1>3 DEF StepperMoves, Parity, SentinelSafe
  <1>4. ASSUME NEW cmd \in Commands, DoMotorCommand(cmd)
        PROVE  Parity' /\ SentinelSafe'
    <2>1. /\ requested \in Int /\ requested % 2 = 0
          /\ requested + STEP_SIZE \in Int /\ (requested + STEP_SIZE) % 2 = 0
          /\ requested - STEP_SIZE \in Int /\ (requested - STEP_SIZE) % 2 = 0
      BY DEF TypeOK, Parity
    <2>2. \/ TellController(TRUE, requested)
          \/ TellController(FALSE, requested)
          \/ TellController(TRUE, requested + STEP_SIZE)
          \/ TellController(TRUE, requested - STEP_SIZE)
      BY <1>4, Zenon DEF DoMotorCommand
    <2>3. SentinelSafe'
      BY <2>1, <2>2, EvenAnswer
    <2>4. /\ UNCHANGED currentPos
          /\ requested' \in {requested, requested + STEP_SIZE, requested - STEP_SIZE}
      BY <1>4 DEF DoMotorCommand
    <2> QED
      BY <2>1, <2>3, <2>4 DEF Parity
  <1> QED
    BY <1>1, <1>2, <1>3, <1>4 DEF Next

\* make.c never reports a position of -1 for a motor at rest, so no refusal at
\* either end of the track counts as a transmission error at the controller.
THEOREM MotorSentinelSafe == Spec => []SentinelSafe
  <1>1. Init => Parity /\ SentinelSafe
    BY EvenAssumption DEF Init, Parity, SentinelSafe
  <1>2. MotorInv => TypeOK
    BY DEF MotorInv
  <1> QED
    BY <1>1, <1>2, ParityStep, MotorInvariant, PTL DEF Spec

=============================================================================
