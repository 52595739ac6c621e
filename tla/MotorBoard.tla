----------------------------- MODULE MotorBoard -----------------------------
(***************************************************************************)
(* The motor board of src/firmware/projects/heavy/make.c: the calibration  *)
(* in Run(), which drives the shuttle forward until the index sensor       *)
(* trips, and doMotorCommand, which carries out or refuses a command.  The *)
(* stepper and the sensor are modelled from how make.c uses them: the      *)
(* stepper moves towards the requested position a step at a time, and the  *)
(* sensor is tripped from some position, unknown to the program, onwards.  *)
(***************************************************************************)
EXTENDS Integers

CONSTANTS
  FIRST,        \* first position the calibration asks for (make.c: 10)
  TRAVEL,       \* length of the track behind the zero point (make.c: 980)
  STEP_SIZE,    \* magnitude of the controllers' commands (make.c: 4)
  Places        \* positions at which the index sensor may be mounted

ASSUME StepAssumption == STEP_SIZE \in Nat \ {0}
ASSUME FirstAssumption == FIRST \in Nat /\ FIRST >= 2
ASSUME TravelAssumption == TRAVEL \in Nat /\ TRAVEL > FIRST
ASSUME PlacesAssumption == Places \subseteq Int
\* 10 and 4 are even; the calibration advances by 2.
ASSUME EvenAssumption == FIRST % 2 = 0 /\ STEP_SIZE % 2 = 0

VARIABLES
  index,            \* where the index sensor trips
  position,         \* the stepper's position
  requested,        \* and the one it has been asked for
  phase,            \* "test", "move": the calibration loop; "ready": commands
  currentPos, motorZeroPoint,
  answer            \* what the controllers were told last, and if the motor moved then

vars == <<index, position, requested, phase, currentPos, motorZeroPoint, answer>>

STATUS == 0
MOVE_FORWARD == 1
MOVE_BACKWARD == 2
Commands == 0..15

Answers == [ok : BOOLEAN, val : Int, moving : BOOLEAN]

TypeOK ==
  /\ index \in Int /\ position \in Int /\ requested \in Int
  /\ phase \in {"test", "move", "ready"}
  /\ currentPos \in Int /\ motorZeroPoint \in Int /\ answer \in Answers

Init ==
  /\ index \in Places /\ position = 0 /\ requested = 0
  /\ phase = "test" /\ currentPos = FIRST /\ motorZeroPoint = 0
  /\ answer = [ok |-> TRUE, val |-> 0, moving |-> FALSE]

-----------------------------------------------------------------------------
(***************************************************************************)
(* Mutated forms, used to confirm that the properties notice a mistake.    *)
(***************************************************************************)
\* The end of the track is tested against the present position.
RoomBehindLate == motorZeroPoint - TRAVEL < requested

\* The calibration asks for the same position again and again.
NextCurrentSame == currentPos

\* The calibration advances by single steps.
NextCurrentOdd == currentPos + 1

-----------------------------------------------------------------------------
\* AnalogIn_GetValue(2) <= 0x0100.
Tripped == position >= index

NextCurrent == currentPos + 2

\* The calibration loop tests the sensor and asks for the next position, or ends.
CalibrationTests ==
  /\ phase = "test"
  /\ IF ~Tripped
     THEN requested' = currentPos /\ phase' = "move" /\ UNCHANGED motorZeroPoint
     ELSE motorZeroPoint' = currentPos /\ phase' = "ready" /\ UNCHANGED requested
  /\ UNCHANGED <<index, position, currentPos, answer>>

\* ... and waits until the stepper is there.
CalibrationArrives ==
  /\ phase = "move" /\ position = currentPos
  /\ phase' = "test" /\ currentPos' = NextCurrent
  /\ UNCHANGED <<index, position, requested, motorZeroPoint, answer>>

\* One step of the stepper's timer interrupt.
Towards(target) == IF position < target THEN position + 1
                   ELSE IF position > target THEN position - 1 ELSE position

StepperMoves ==
  /\ position # requested
  /\ position' = Towards(requested)
  /\ UNCHANGED <<index, requested, phase, currentPos, motorZeroPoint, answer>>

Busy == position # requested
RoomAhead == ~Tripped
RoomBehind == motorZeroPoint - TRAVEL < requested - STEP_SIZE

\* The position is read again for the answer: a moving stepper may have made a
\* step since doMotorCommand's tests.
TellController(ok, target) ==
  \E val \in {position, Towards(target)} :
    answer' = [ok |-> ok, val |-> val, moving |-> val # target]

\* doMotorCommand: busy, or nothing to do, or a move there is room for, or a
\* refusal.
DoMotorCommand(cmd) ==
  LET Move(target) == requested' = target /\ TellController(TRUE, target)
      Refuse == TellController(FALSE, requested) /\ UNCHANGED requested
  IN /\ phase = "ready"
     /\ \/ Busy /\ Refuse
        \/ ~Busy /\ cmd = STATUS /\ TellController(TRUE, requested) /\ UNCHANGED requested
        \/ ~Busy /\ cmd = MOVE_FORWARD /\ RoomAhead /\ Move(requested + STEP_SIZE)
        \/ ~Busy /\ cmd = MOVE_FORWARD /\ ~RoomAhead /\ Refuse
        \/ ~Busy /\ cmd = MOVE_BACKWARD /\ RoomBehind /\ Move(requested - STEP_SIZE)
        \/ ~Busy /\ cmd = MOVE_BACKWARD /\ ~RoomBehind /\ Refuse
        \/ ~Busy /\ cmd \notin {STATUS, MOVE_FORWARD, MOVE_BACKWARD} /\ Refuse
     /\ UNCHANGED <<index, position, phase, currentPos, motorZeroPoint>>

Calibration == CalibrationTests \/ CalibrationArrives

Next == Calibration \/ StepperMoves \/ \E cmd \in Commands : DoMotorCommand(cmd)

Spec == Init /\ [][Next]_vars

\* The motor moves when it is asked to, and Run() goes on.
FairSpec == Spec /\ WF_vars(Calibration) /\ WF_vars(StepperMoves)

-----------------------------------------------------------------------------
\* The shuttle stays on its track: a command of make.c takes it less than a
\* step beyond the index sensor, or no further than the calibration did, and
\* never TRAVEL or more behind the sensor, wherever that is mounted.
TravelLimits ==
  phase = "ready" =>
    /\ requested < index + STEP_SIZE \/ requested <= motorZeroPoint
    /\ requested > index - TRAVEL
    /\ motorZeroPoint - TRAVEL < position /\ position > index - TRAVEL

\* The value -1, by which make.c reports a bad crc, is never the position of a
\* motor at rest: the refusals at either end of the track are not mistaken for
\* transmission errors.
SentinelSafe == answer.val = -1 => answer.moving

\* The calibration finds the sensor.
CalibrationEnds == <>(phase = "ready")

-----------------------------------------------------------------------------
\* The inductive invariant of MotorProofs.
Track ==
  /\ phase # "ready" => /\ requested <= currentPos /\ 0 <= position /\ position <= requested
                        /\ FIRST <= currentPos
  /\ phase = "test" => position = requested /\ currentPos - TRAVEL < requested
  /\ phase = "move" => requested = currentPos
  /\ phase = "ready" =>
       /\ index <= motorZeroPoint
       /\ motorZeroPoint - TRAVEL < requested /\ motorZeroPoint - TRAVEL < position
       /\ requested < index + STEP_SIZE \/ requested <= motorZeroPoint

MotorInv == TypeOK /\ Track

\* The stepper is asked for even positions only.
Parity == currentPos % 2 = 0 /\ requested % 2 = 0

=============================================================================
