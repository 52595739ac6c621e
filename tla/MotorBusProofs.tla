--------------------------- MODULE MotorBusProofs ---------------------------
(***************************************************************************)
(* The command protocol, for every number of packets thrown away after     *)
(* boot, every pair of limits and every backlog: the queue of the motor    *)
(* board is bounded, a timeout is not overlooked, and a controller does    *)
(* not give up without a fault.                                            *)
(***************************************************************************)
EXTENDS MotorBus, SequenceTheorems, TLAPS

-----------------------------------------------------------------------------
(***************************************************************************)
(* The queues.                                                             *)
(***************************************************************************)
LEMMA EmptyQueue ==
  ASSUME NEW S, NEW s \in Seq(S)
  PROVE  Len(s) \in Nat /\ (s = << >> <=> Len(s) = 0)
  OBVIOUS

LEMMA TailFacts ==
  ASSUME NEW S, NEW s \in Seq(S), s # << >>
  PROVE  /\ Tail(s) \in Seq(S)
         /\ Len(s) \in Nat \ {0}
         /\ Len(Tail(s)) = Len(s) - 1
         /\ Tail(s) = << >> <=> Len(s) = 1
         /\ \A i \in 1..Len(Tail(s)) : Tail(s)[i] = s[i + 1]
         /\ Head(s) = s[1]
         /\ Head(s) \in S
  <1>1. Len(s) \in Nat \ {0}
    BY EmptyQueue
  <1>2. /\ Head(s) \in S /\ Tail(s) \in Seq(S)
        /\ Len(Tail(s)) = Len(s) - 1
        /\ \A i \in 1..Len(Tail(s)) : Tail(s)[i] = s[i + 1]
    BY HeadTailProperties
  <1>3. Tail(s) = << >> <=> Len(s) = 1
    BY <1>1, <1>2, EmptyQueue
  <1>4. Head(s) = s[1]
    OBVIOUS
  <1> QED
    BY <1>1, <1>2, <1>3, <1>4

LEMMA PacketType ==
  ASSUME NEW kind \in {"command", "status"}, NEW ack \in BOOLEAN, NEW minus1 \in BOOLEAN,
         NEW good \in BOOLEAN
  PROVE  /\ Packet(kind, ack, minus1, good) \in Packets
         /\ Packet(kind, ack, minus1, good).kind = kind
         /\ Packet(kind, ack, minus1, good).ack = ack
         /\ Packet(kind, ack, minus1, good).minus1 = minus1
         /\ Packet(kind, ack, minus1, good).good = good
  BY DEF Packet, Packets

\* What a prime controller adds to the queue of the motor board.
LEMMA Transmitted ==
  ASSUME NEW p \in Packets, toMotor \in Seq(Packets), corrupt \in BOOLEAN, Transmit(p)
  PROVE  /\ toMotor' \in Seq(Packets)
         /\ Len(toMotor) \in Nat
         /\ ~ISPRIME => toMotor' = toMotor
         /\ ISPRIME =>
              /\ Len(toMotor') = Len(toMotor) + 1
              /\ toMotor' # << >>
              /\ \A i \in 1..Len(toMotor) : toMotor'[i] = toMotor[i]
              /\ toMotor'[Len(toMotor')].kind = p.kind
              /\ toMotor'[Len(toMotor')].good = ~corrupt
  <1> DEFINE q == [p EXCEPT !.good = ~corrupt]
  <1>1. q \in Packets /\ q.kind = p.kind /\ q.good = ~corrupt
    BY DEF Packets
  <1>2. toMotor' = IF ISPRIME THEN Append(toMotor, q) ELSE toMotor
    BY DEF Transmit
  <1> HIDE DEF q
  <1> QED
    BY <1>1, <1>2, AppendProperties, EmptyQueue

\* What the other controller adds to both queues.
LEMMA OtherSays ==
  ASSUME toMotor \in Seq(Packets), toController \in Seq(Packets), OtherTalks
  PROVE  \E p \in Packets :
           /\ toMotor' = Append(toMotor, p) /\ toController' = Append(toController, p)
           /\ toMotor' \in Seq(Packets) /\ toController' \in Seq(Packets)
           /\ Len(toMotor') = Len(toMotor) + 1
           /\ p.minus1 => p.ack
           /\ faultless' = (faultless /\ p.good)
  <1>1. PICK nack \in BOOLEAN, good \in {TRUE} \cup {FALSE : f \in Faults \cap {"corrupt"}} :
          /\ toMotor' =
               Append(toMotor, Packet(IF nack THEN "status" ELSE "command", nack, nack, good))
          /\ toController' =
               Append(toController, Packet(IF nack THEN "status" ELSE "command", nack, nack, good))
          /\ faultless' = (faultless /\ good)
    BY DEF OtherTalks
  <1> DEFINE kind == IF nack THEN "status" ELSE "command"
             p == Packet(kind, nack, nack, good)
  <1>2. kind \in {"command", "status"} /\ good \in BOOLEAN
    OBVIOUS
  <1> HIDE DEF kind
  <1>3. p \in Packets /\ p.ack = nack /\ p.minus1 = nack /\ p.good = good
    BY <1>2, PacketType
  <1>4. toMotor' = Append(toMotor, p) /\ toController' = Append(toController, p)
    BY <1>1 DEF kind
  <1>5. faultless' = (faultless /\ p.good)
    BY <1>1, <1>3
  <1> HIDE DEF p
  <1>6. /\ toMotor' \in Seq(Packets) /\ toController' \in Seq(Packets)
        /\ Len(toMotor') = Len(toMotor) + 1
    BY <1>3, <1>4, AppendProperties
  <1> QED
    BY <1>3, <1>4, <1>5, <1>6

-----------------------------------------------------------------------------
(***************************************************************************)
(* The types, with the bound on the queue that they need.                  *)
(***************************************************************************)
LEMMA Constants ==
  /\ DISCARDED \in Nat /\ Losses \in Nat /\ Backlog \in Nat
  /\ NO_RESPONSE_LIMIT \in Nat /\ ERROR_LIMIT \in Nat /\ ERROR_LIMIT > 0
  BY DiscardedAssumption, LimitAssumption, BoundAssumption

LEMMA TypesInit == Init => TypeOK /\ Queued
  <1> SUFFICES ASSUME Init PROVE TypeOK /\ Queued
    OBVIOUS
  <1>1. Flags
    BY DEF Init, Flags
  <1>2. Counters
    BY Constants DEF Init, Counters
  <1>3. Queues /\ Queued
    BY Constants, EmptySeq DEF Init, Queues, Queued
  <1> QED
    BY <1>1, <1>2, <1>3 DEF TypeOK

LEMMA FlagsStep ==
  ASSUME TypeOK, Next
  PROVE  Flags'
  <1> USE DEF TypeOK, Flags, tasks, motor, net
  <1>1. CASE Sender
    BY <1>1 DEF Sender, SenderWakes, SenderChecks, SenderNAcks, SenderAnnounces, SenderSends,
                Announced
  <1>2. CASE Receiver
    BY <1>2 DEF Receiver, ControllerReceives, ControllerClears
  <1>3. CASE MotorReceives
    BY <1>3 DEF MotorReceives
  <1>4. CASE OtherTalks
    <2>1. toMotor \in Seq(Packets) /\ toController \in Seq(Packets)
      BY DEF Queues
    <2>2. faultless' \in BOOLEAN
      BY <1>4, <2>1, OtherSays
    <2>3. UNCHANGED <<ISPRIME, waiting_for_response, gaveUp, corrupt, send, receive, silent,
                      unanswered>>
      BY <1>4 DEF OtherTalks
    <2> QED
      BY <2>2, <2>3
  <1>5. CASE PollPrime \/ Reboot
    BY <1>5 DEF PollPrime, Reboot
  <1>6. CASE CorruptCrc \/ MotorFallsSilent \/ Lose
    BY <1>6 DEF CorruptCrc, MotorFallsSilent, Lose
  <1> QED
    BY <1>1, <1>2, <1>3, <1>4, <1>5, <1>6 DEF Next

LEMMA CountersStep ==
  ASSUME TypeOK, Next
  PROVE  Counters'
  <1> USE Constants DEF TypeOK, Counters, tasks, motor
  <1>1. CASE SenderWakes \/ SenderChecks
    <2>1. /\ UNCHANGED <<error_count, heard, motorHeard>>
          /\ error_noresponse_count' \in {error_noresponse_count, 0}
          /\ lossy' = lossy \/ (lossy > 0 /\ lossy' = lossy - 1)
      BY <1>1 DEF SenderWakes, SenderChecks
    <2> QED
      BY <2>1
  <1>2. CASE SenderNAcks
    BY <1>2 DEF SenderNAcks, SilenceCounted
  <1>3. CASE SenderAnnounces \/ SenderSends
    BY <1>3 DEF SenderAnnounces, SenderSends
  <1>4. CASE ControllerReceives
    <2>1. ErrorsCounted(error_count, Head(toController)) \in 0..ERROR_LIMIT
      BY DEF ErrorsCounted
    <2> QED
      BY <1>4, <2>1 DEF ControllerReceives
  <1>5. CASE ControllerClears
    BY <1>5 DEF ControllerClears
  <1>6. CASE MotorReceives
    <2>1. /\ motorHeard' = motorHeard \/ (motorHeard < DISCARDED /\ motorHeard' = motorHeard + 1)
          /\ UNCHANGED <<error_count, error_noresponse_count, heard, lossy>>
      BY <1>6 DEF MotorReceives
    <2> QED
      BY <2>1
  <1>7. CASE OtherTalks
    BY <1>7 DEF OtherTalks
  <1>8. CASE PollPrime \/ CorruptCrc \/ MotorFallsSilent
    BY <1>8 DEF PollPrime, CorruptCrc, MotorFallsSilent
  <1>9. CASE Reboot
    BY <1>9 DEF Reboot
  <1>10. CASE Lose
    BY <1>10 DEF Lose
  <1> QED
    BY <1>1, <1>2, <1>3, <1>4, <1>5, <1>6, <1>7, <1>8, <1>9, <1>10 DEF Next, Sender, Receiver

LEMMA QueuesStep ==
  ASSUME TypeOK, Queued, Next
  PROVE  Queues' /\ Queued'
  <1>0. /\ send \in {"sleep", "check", "nack", "tell", "send"}
        /\ corrupt \in BOOLEAN
        /\ toMotor \in Seq(Packets) /\ toController \in Seq(Packets)
        /\ Len(toMotor) \in Nat /\ lossy \in 0..Losses
        /\ lossy' \in 0..Losses
    BY EmptyQueue, CountersStep DEF TypeOK, Flags, Queues, Counters
  <1>00. Backlog + 2 * (Losses - lossy') \in Nat
    <2> DEFINE late == lossy'
    <2>1. late \in 0..Losses /\ Losses \in Nat /\ Backlog \in Nat
      BY <1>0, Constants
    <2> HIDE DEF late
    <2>2. Backlog + 2 * (Losses - late) \in Nat
      BY <2>1
    <2> QED
      BY <2>2 DEF late
  <1>01. ASSUME Len(toMotor') = 0, send' = "check" PROVE Queued'
    <2> DEFINE late == Backlog + 2 * (Losses - lossy')
                length == Len(toMotor')
    <2>1. late \in Nat /\ length = 0
      BY <1>00, <1>01
    <2> HIDE DEF late, length
    <2>2. length <= late + 0
      BY <2>1
    <2> QED
      BY <2>2, <1>01 DEF late, length, Queued
  <1> USE Constants, <1>0 DEF Queues, net
  <1>1. CASE SenderWakes
    <2>1. /\ send = "sleep" /\ send' = "check" /\ UNCHANGED <<toMotor, toController>>
          /\ toMotor = << >> \/ lossy' = lossy - 1
      BY <1>1 DEF SenderWakes
    <2>2. CASE toMotor = << >>
      <3>1. Len(toMotor') = 0
        BY <2>1, <2>2, EmptySeq
      <3>2. send' = "check"
        BY <2>1
      <3>4. Queued'
        BY <1>01, <3>1, <3>2
      <3>3. Queues'
        BY <2>1, <3>1
      <3> QED
        BY <3>3, <3>4
    <2>3. CASE lossy' = lossy - 1
      BY <2>1, <2>3 DEF Queued
    <2> QED
      BY <2>1, <2>2, <2>3
  <1>2. CASE SenderChecks
    BY <1>2 DEF Queued, SenderChecks
  <1>3. CASE SenderNAcks
    <2>1. Packet("status", TRUE, TRUE, TRUE) \in Packets
      BY PacketType
    <2>2. /\ toMotor' \in Seq(Packets)
          /\ Len(toMotor') <= Len(toMotor) + 1
      <3> DEFINE p == Packet("status", TRUE, TRUE, TRUE)
      <3>1. Transmit(p) /\ p \in Packets
        BY <1>3, <2>1 DEF SenderNAcks
      <3> HIDE DEF p
      <3> QED
        BY <3>1, Transmitted
    <2> QED
      BY <1>3, <2>2, EmptyQueue DEF SenderNAcks, Queued
  <1>4. CASE SenderAnnounces
    BY <1>4 DEF Queued, SenderAnnounces
  <1>5. CASE SenderSends
    <2>1. Packet("command", FALSE, FALSE, TRUE) \in Packets
      BY PacketType
    <2>2. /\ toMotor' \in Seq(Packets)
          /\ Len(toMotor') <= Len(toMotor) + 1
      <3> DEFINE p == Packet("command", FALSE, FALSE, TRUE)
      <3>1. Transmit(p) /\ p \in Packets
        BY <1>5, <2>1 DEF SenderSends
      <3> HIDE DEF p
      <3> QED
        BY <3>1, Transmitted
    <2> QED
      BY <1>5, <2>2, EmptyQueue DEF SenderSends, Queued
  <1>6. CASE ControllerReceives
    BY <1>6, TailFacts DEF ControllerReceives, Queued
  <1>7. CASE ControllerClears
    BY <1>7 DEF ControllerClears, Queued
  <1>8. CASE MotorReceives
    <2>1. /\ toMotor' \in Seq(Packets)
          /\ Len(toMotor') = Len(toMotor) - 1
      BY <1>8, TailFacts DEF MotorReceives
    <2>2. toController' \in Seq(Packets)
      <3>1. \A ack \in BOOLEAN, minus1 \in BOOLEAN :
              Append(toController, Packet("status", ack, minus1, TRUE)) \in Seq(Packets)
        BY PacketType, AppendProperties
      <3> QED
        BY <1>8, <3>1 DEF MotorReceives
    <2> QED
      BY <1>8, <2>1, <2>2 DEF MotorReceives, Queued
  <1>9. CASE OtherTalks
    <2>1. /\ toMotor' \in Seq(Packets) /\ toController' \in Seq(Packets)
          /\ Len(toMotor') = Len(toMotor) + 1
      BY <1>9, OtherSays
    <2>2. Len(toMotor) < Backlog /\ UNCHANGED <<send, lossy>>
      BY <1>9 DEF OtherTalks
    <2> QED
      BY <2>1, <2>2 DEF Queued
  <1>10. CASE PollPrime \/ CorruptCrc \/ MotorFallsSilent
    BY <1>10 DEF PollPrime, CorruptCrc, MotorFallsSilent, Queued
  <1>11. CASE Reboot
    BY <1>11, EmptySeq DEF Reboot, Queued
  <1>12. CASE Lose
    <2>1. /\ toMotor' \in Seq(Packets) /\ toController' \in Seq(Packets)
          /\ Len(toMotor') \in Nat /\ Len(toMotor') <= Len(toMotor)
      <3>1. CASE toMotor # << >> /\ toMotor' = Tail(toMotor) /\ UNCHANGED toController
        BY <3>1, TailFacts
      <3>2. CASE toController # << >> /\ toController' = Tail(toController) /\ UNCHANGED toMotor
        BY <3>2, TailFacts
      <3> QED
        BY <1>12, <3>1, <3>2 DEF Lose
    <2> QED
      BY <1>12, <2>1 DEF Lose, Queued
  <1> QED
    BY <1>1, <1>2, <1>3, <1>4, <1>5, <1>6, <1>7, <1>8, <1>9, <1>10, <1>11, <1>12
    DEF Next, Sender, Receiver

LEMMA TypesStep ==
  ASSUME TypeOK, Queued, [Next]_vars
  PROVE  TypeOK' /\ Queued'
  <1>1. CASE UNCHANGED vars
    BY <1>1 DEF vars, tasks, motor, net, TypeOK, Flags, Counters, Queues, Queued
  <1>2. CASE Next
    BY <1>2, FlagsStep, CountersStep, QueuesStep DEF TypeOK
  <1> QED
    BY <1>1, <1>2

(***************************************************************************)
(* The queue of make.c's motor board is bounded and the counters stay      *)
(* within their limits.                                                    *)
(***************************************************************************)
THEOREM BusTypeCorrect == Spec => []TypeOK
  <1>1. TypeOK /\ Queued /\ [Next]_vars => (TypeOK /\ Queued)'
    BY TypesStep
  <1> QED
    BY <1>1, TypesInit, PTL DEF Spec

-----------------------------------------------------------------------------
(***************************************************************************)
(* No timeout is overlooked.                                               *)
(***************************************************************************)
LEMMA FlaggedStep ==
  ASSUME TypeOK, Flagged, [Next]_vars
  PROVE  Flagged'
  <1> USE DEF TypeOK, Flags, Flagged, tasks
  <1>1. CASE Sender
    BY <1>1 DEF Sender, SenderWakes, SenderChecks, SenderNAcks, SenderAnnounces, SenderSends,
                Announced
  <1>2. CASE Receiver
    BY <1>2 DEF Receiver, ControllerReceives, ControllerClears
  <1>3. CASE MotorReceives
    BY <1>3 DEF MotorReceives
  <1>4. CASE OtherTalks \/ PollPrime \/ Reboot
    BY <1>4 DEF OtherTalks, PollPrime, Reboot
  <1>5. CASE CorruptCrc \/ MotorFallsSilent \/ Lose
    BY <1>5 DEF CorruptCrc, MotorFallsSilent, Lose
  <1>6. CASE UNCHANGED vars
    BY <1>6 DEF vars
  <1> QED
    BY <1>1, <1>2, <1>3, <1>4, <1>5, <1>6 DEF Next

LEMMA OnlyChecked ==
  ASSUME TypeOK, Next, send = "check", send' = "tell"
  PROVE  ~waiting_for_response
  BY DEF TypeOK, Flags, Next, Sender, Receiver, SenderWakes, SenderChecks, SenderNAcks,
         SenderAnnounces, SenderSends, ControllerReceives, ControllerClears, MotorReceives,
         OtherTalks, PollPrime, Reboot, CorruptCrc, MotorFallsSilent, Lose

(***************************************************************************)
(* When sendMotorCommandTask of make.c starts over with a clean counter,   *)
(* a packet came after its last command, unless the receiver was busy.     *)
(***************************************************************************)
THEOREM BusTimeoutsNoticed == Spec => TimeoutsNoticed
  <1> DEFINE I == TypeOK /\ Queued /\ Flagged
  <1>1. Init => I
    BY TypesInit DEF Init, Flagged
  <1>2. I /\ [Next]_vars => I'
    BY TypesStep, FlaggedStep
  <1>3. I /\ [Next]_vars =>
          [send = "check" /\ send' = "tell" => unanswered # "yes"]_vars
    BY OnlyChecked DEF Flagged
  <1> QED
    BY <1>1, <1>2, <1>3, PTL DEF Spec, TimeoutsNoticed

-----------------------------------------------------------------------------
(***************************************************************************)
(* No giving up without a fault.                                           *)
(***************************************************************************)
\* The state before a step without a fault.
LEMMA StillFaultless ==
  ASSUME TypeOK, Good, Next, faultless'
  PROVE  /\ faultless /\ Healthy /\ Unpaid
         /\ ~CorruptCrc /\ ~MotorFallsSilent /\ ~Lose
         /\ PollPrime => ~ISPRIME
         /\ SenderWakes => toMotor = << >> /\ toController = << >>
  <1>1. faultless
    BY DEF TypeOK, Flags, Next, Sender, Receiver, SenderWakes, SenderChecks, SenderNAcks,
         SenderAnnounces, SenderSends, ControllerReceives, ControllerClears, MotorReceives,
         OtherTalks, PollPrime, Reboot, CorruptCrc, MotorFallsSilent, Lose
  <1>2. /\ ~CorruptCrc /\ ~MotorFallsSilent /\ ~Lose
        /\ PollPrime => ~ISPRIME
        /\ SenderWakes => toMotor = << >> /\ toController = << >>
    BY DEF CorruptCrc, MotorFallsSilent, Lose, PollPrime, SenderWakes
  <1> QED
    BY <1>1, <1>2 DEF Good

\* The motor board throws a packet away, or answers a command.
LEMMA MotorSees ==
  ASSUME TypeOK, Healthy, MotorReceives, faultless'
  PROVE  /\ toMotor' = Tail(toMotor) /\ toMotor # << >>
         /\ \/ motorHeard < DISCARDED /\ motorHeard' = motorHeard + 1 /\ UNCHANGED toController
            \/ /\ motorHeard = DISCARDED /\ UNCHANGED motorHeard
               /\ \/ /\ Head(toMotor).kind = "command"
                     /\ \E ok \in BOOLEAN :
                          toController' = Append(toController, Packet("status", ok, FALSE, TRUE))
                  \/ Head(toMotor).kind = "status" /\ UNCHANGED toController
  <1>1. toMotor \in Seq(Packets) /\ toMotor # << >>
    BY DEF TypeOK, Queues, MotorReceives
  <1>2. Head(toMotor) = toMotor[1] /\ 1 \in 1..Len(toMotor)
    BY <1>1, TailFacts
  <1>3. Head(toMotor).good
    BY <1>2 DEF Healthy
  <1>4. ~silent
    BY DEF Healthy
  <1> QED
    BY <1>1, <1>3, <1>4 DEF MotorReceives

\* A task that gives up has heard nothing for more than its limit of rounds,
\* and the motor board throws away only two packets a round.
LEMMA NAckInTime ==
  ASSUME TypeOK, Healthy, Unpaid, DISCARDED <= 2 * NO_RESPONSE_LIMIT, SenderNAcks
  PROVE  /\ ISPRIME /\ waiting_for_response
         /\ toMotor = << >>
         /\ error_noresponse_count' = error_noresponse_count + 1
         /\ motorHeard > 2 * error_noresponse_count
         /\ ~gaveUp'
  <1>1. /\ waiting_for_response /\ toMotor = << >>
        /\ motorHeard > 2 * error_noresponse_count
    BY DEF SenderNAcks, Unpaid, TimedOut
  <1>2. motorHeard \in 0..DISCARDED /\ error_noresponse_count \in 0..(NO_RESPONSE_LIMIT + 1)
    BY DEF TypeOK, Counters
  <1>3. error_noresponse_count < NO_RESPONSE_LIMIT
    BY <1>1, <1>2, Constants
  <1>4. error_noresponse_count' = error_noresponse_count + 1
    BY <1>2, <1>3, Constants DEF SenderNAcks, SilenceCounted
  <1>5. ~TooSilent(error_noresponse_count')
    BY <1>2, <1>3, <1>4, Constants DEF TooSilent
  <1> QED
    BY <1>1, <1>4, <1>5 DEF SenderNAcks, Healthy

LEMMA HealthyStep ==
  ASSUME TypeOK, Healthy, Unpaid, DISCARDED <= 2 * NO_RESPONSE_LIMIT, Next, faultless',
         ~CorruptCrc, ~MotorFallsSilent, ~Lose, PollPrime => ~ISPRIME,
         SenderWakes => toMotor = << >> /\ toController = << >>
  PROVE  Healthy'
  <1>0. /\ toMotor \in Seq(Packets) /\ toController \in Seq(Packets)
        /\ Len(toMotor) \in Nat /\ Len(toController) \in Nat
        /\ corrupt \in BOOLEAN /\ ISPRIME \in BOOLEAN /\ waiting_for_response \in BOOLEAN
        /\ ~corrupt
    BY EmptyQueue DEF TypeOK, Flags, Queues, Healthy
  <1> DEFINE GoodQueues ==
               /\ \A i \in 1..Len(toMotor) : toMotor[i].good
               /\ \A i \in 1..Len(toController) : toController[i].minus1 => toController[i].ack
             Fine == /\ ~corrupt /\ ~silent /\ error_count = 0 /\ ~gaveUp
                     /\ waiting_for_response => ISPRIME
  <1>1. Fine /\ GoodQueues
    BY DEF Healthy
  <1>2. Healthy' = (Fine /\ GoodQueues)'
    BY Zenon DEF Healthy
  <1>3. Fine'
    <2>1. CASE SenderNAcks
      BY <2>1, NAckInTime, <1>1 DEF SenderNAcks, motor
    <2>2. CASE SenderWakes \/ SenderChecks \/ SenderAnnounces \/ SenderSends
      <3>1. UNCHANGED <<corrupt, silent, error_count, gaveUp, ISPRIME>>
        BY <2>2 DEF SenderWakes, SenderChecks, SenderAnnounces, SenderSends, tasks, motor
      <3>2. waiting_for_response' => waiting_for_response \/ ISPRIME
        BY <2>2 DEF SenderWakes, SenderChecks, SenderAnnounces, SenderSends, Announced, tasks
      <3> QED
        BY <3>1, <3>2, <1>1
    <2>3. CASE ControllerReceives
      <3>1. /\ Head(toController) = toController[1]
            /\ 1 \in 1..Len(toController)
        BY <2>3, <1>0, TailFacts DEF ControllerReceives
      <3>2. Head(toController).minus1 => Head(toController).ack
        BY <3>1, <1>1
      <3>3. ErrorsCounted(error_count, Head(toController)) = 0
        BY <3>2, <1>1 DEF ErrorsCounted
      <3>4. ~(0 >= ERROR_LIMIT)
        BY Constants
      <3>5. error_count' = 0 /\ ~gaveUp'
        <4>1. ~gaveUp /\ error_count = 0
          BY <1>1
        <4>2. \/ UNCHANGED <<error_count, gaveUp>>
              \/ /\ error_count' = ErrorsCounted(error_count, Head(toController))
                 /\ gaveUp' = (gaveUp \/ (~Head(toController).ack /\ error_count' >= ERROR_LIMIT))
          BY <2>3 DEF ControllerReceives
        <4>3. error_count' = 0
          BY <4>1, <4>2, <3>3
        <4>4. ~(error_count' >= ERROR_LIMIT)
          BY <4>3, <3>4
        <4> QED
          <5>1. CASE UNCHANGED <<error_count, gaveUp>>
            BY <4>1, <5>1
          <5>2. CASE gaveUp' = (gaveUp \/ (~Head(toController).ack /\ error_count' >= ERROR_LIMIT))
            BY <4>1, <4>3, <4>4, <5>2, Zenon
          <5> QED
            BY <4>2, <5>1, <5>2, Zenon
      <3>6. waiting_for_response' => waiting_for_response
        BY <2>3 DEF ControllerReceives
      <3> QED
        BY <2>3, <3>5, <3>6, <1>1 DEF ControllerReceives, motor
    <2>4. CASE ControllerClears
      BY <2>4, <1>1 DEF ControllerClears, motor
    <2>5. CASE MotorReceives \/ OtherTalks
      <3>1. UNCHANGED <<corrupt, silent, error_count, gaveUp, ISPRIME, waiting_for_response>>
        BY <2>5 DEF MotorReceives, OtherTalks, tasks, motor
      <3> QED
        BY <3>1, <1>1
    <2>6. CASE Reboot
      BY <2>6, <1>1 DEF Reboot, motor
    <2>7. CASE PollPrime
      BY <2>7, <1>0, <1>1 DEF PollPrime, tasks, motor
    <2> QED
      BY <2>1, <2>2, <2>3, <2>4, <2>5, <2>6, <2>7 DEF Next, Sender, Receiver
  <1>4. GoodQueues'
    <2>1. CASE SenderNAcks
      <3> DEFINE p == Packet("status", TRUE, TRUE, TRUE)
      <3>1. Transmit(p) /\ p \in Packets /\ UNCHANGED toController
        BY <2>1, PacketType DEF SenderNAcks
      <3> HIDE DEF p
      <3> QED
        BY <3>1, <1>0, <1>1, Transmitted
    <2>2. CASE SenderSends
      <3> DEFINE p == Packet("command", FALSE, FALSE, TRUE)
      <3>1. Transmit(p) /\ p \in Packets /\ UNCHANGED toController
        BY <2>2, PacketType DEF SenderSends
      <3> HIDE DEF p
      <3> QED
        BY <3>1, <1>0, <1>1, Transmitted
    <2>3. CASE SenderWakes \/ SenderChecks \/ SenderAnnounces \/ ControllerClears \/ PollPrime
      <3>1. UNCHANGED <<toMotor, toController>>
        BY <2>3 DEF SenderWakes, SenderChecks, SenderAnnounces, ControllerClears, PollPrime, net
      <3> QED
        BY <3>1, <1>1
    <2>4. CASE ControllerReceives
      <3>1. toController # << >> /\ toController' = Tail(toController) /\ UNCHANGED toMotor
        BY <2>4 DEF ControllerReceives
      <3> QED
        BY <3>1, <1>0, <1>1, TailFacts
    <2>5. CASE MotorReceives
      <3>1. toMotor # << >> /\ toMotor' = Tail(toMotor)
        BY <2>5 DEF MotorReceives
      <3>2. \A i \in 1..Len(toMotor') : toMotor'[i].good
        BY <3>1, <1>0, <1>1, TailFacts
      <3>3. \/ UNCHANGED toController
            \/ \E ok \in BOOLEAN :
                 toController' = Append(toController, Packet("status", ok, FALSE, TRUE))
        BY <2>5, MotorSees
      <3>4. \A i \in 1..Len(toController') : toController'[i].minus1 => toController'[i].ack
        <4>1. CASE UNCHANGED toController
          BY <4>1, <1>1
        <4>2. ASSUME NEW ok \in BOOLEAN,
                     toController' = Append(toController, Packet("status", ok, FALSE, TRUE))
              PROVE  \A i \in 1..Len(toController') :
                       toController'[i].minus1 => toController'[i].ack
          <5> DEFINE p == Packet("status", ok, FALSE, TRUE)
          <5>1. p \in Packets /\ ~p.minus1 /\ toController' = Append(toController, p)
            BY <4>2, PacketType
          <5> HIDE DEF p
          <5> QED
            BY <5>1, <1>0, <1>1, AppendProperties
        <4> QED
          BY <3>3, <4>1, <4>2
      <3> QED
        BY <3>2, <3>4
    <2>6. CASE OtherTalks
      <3>1. PICK p \in Packets :
              /\ toMotor' = Append(toMotor, p) /\ toController' = Append(toController, p)
              /\ p.minus1 => p.ack
              /\ faultless' = (faultless /\ p.good)
        BY <2>6, <1>0, OtherSays
      <3>2. p.good
        BY <3>1
      <3> QED
        BY <3>1, <3>2, <1>0, <1>1, AppendProperties
    <2>7. CASE Reboot
      BY <2>7, <1>1, EmptySeq DEF Reboot
    <2> QED
      BY <2>1, <2>2, <2>3, <2>4, <2>5, <2>6, <2>7 DEF Next, Sender, Receiver
  <1> QED
    BY <1>2, <1>3, <1>4

LEMMA UnpaidStep ==
  ASSUME TypeOK, Healthy, Unpaid, DISCARDED <= 2 * NO_RESPONSE_LIMIT, Next, faultless',
         ~CorruptCrc, ~MotorFallsSilent, ~Lose, PollPrime => ~ISPRIME,
         SenderWakes => toMotor = << >> /\ toController = << >>
  PROVE  Unpaid'
  <1>0. /\ toMotor \in Seq(Packets) /\ toController \in Seq(Packets)
        /\ Len(toMotor) \in Nat
        /\ corrupt \in BOOLEAN /\ ISPRIME \in BOOLEAN /\ waiting_for_response \in BOOLEAN
        /\ send \in {"sleep", "check", "nack", "tell", "send"}
        /\ motorHeard \in Nat /\ motorHeard <= DISCARDED
        /\ error_noresponse_count \in Nat
        /\ waiting_for_response => ISPRIME
    BY EmptyQueue, Constants DEF TypeOK, Flags, Counters, Queues, Healthy
  <1> USE <1>0, Constants DEF Unpaid
  <1>1. CASE SenderWakes
    BY <1>1 DEF SenderWakes, BeforeCommand, Awaited, TimedOut, tasks, motor, net
  <1>2. CASE SenderChecks
    <2>1. CASE waiting_for_response
      BY <1>2, <2>1 DEF SenderChecks, BeforeCommand, Awaited, TimedOut, motor, net
    <2>2. CASE ~waiting_for_response
      BY <1>2, <2>2 DEF SenderChecks, BeforeCommand, Awaited, TimedOut, Paid, motor, net
    <2> QED
      BY <2>1, <2>2
  <1>3. CASE SenderNAcks
    <2>1. Len(toMotor') = 1
      <3> DEFINE p == Packet("status", TRUE, TRUE, TRUE)
      <3>1. Transmit(p) /\ p \in Packets
        BY <1>3, PacketType DEF SenderNAcks
      <3> HIDE DEF p
      <3>2. ISPRIME /\ Len(toMotor) = 0
        BY <1>3, NAckInTime, EmptySeq
      <3> QED
        BY <3>1, <3>2, Transmitted
    <2>2. /\ send' = "tell" /\ ~waiting_for_response' /\ motorHeard' = motorHeard
          /\ error_noresponse_count' = error_noresponse_count + 1
          /\ motorHeard > 2 * error_noresponse_count
      BY <1>3, NAckInTime DEF SenderNAcks, motor
    <2> QED
      BY <2>1, <2>2 DEF BeforeCommand, Awaited, TimedOut, Paid
  <1>4. CASE SenderAnnounces
    BY <1>4 DEF SenderAnnounces, BeforeCommand, Awaited, TimedOut, Paid, motor, net
  <1>5. CASE SenderSends
    <2>1. ISPRIME => /\ Len(toMotor') = Len(toMotor) + 1 /\ toMotor' # << >>
                     /\ toMotor'[Len(toMotor')].kind = "command"
      <3> DEFINE p == Packet("command", FALSE, FALSE, TRUE)
      <3>1. Transmit(p) /\ p \in Packets /\ p.kind = "command"
        BY <1>5, PacketType DEF SenderSends
      <3> HIDE DEF p
      <3> QED
        BY <3>1, Transmitted
    <2>2. /\ send' = "sleep" /\ Paid(2 * error_noresponse_count)
          /\ UNCHANGED <<waiting_for_response, error_noresponse_count, motorHeard>>
      BY <1>5 DEF SenderSends, BeforeCommand, tasks, motor
    <2> QED
      BY <2>1, <2>2 DEF BeforeCommand, Awaited, TimedOut, Paid
  <1>6. CASE ControllerReceives
    <2>1. /\ UNCHANGED <<send, error_noresponse_count, motorHeard, toMotor>>
          /\ toController # << >>
          /\ ~waiting_for_response' \/ receive' = "clear"
      BY <1>6 DEF ControllerReceives, motor
    <2>2. waiting_for_response' => waiting_for_response
      BY <1>6 DEF ControllerReceives
    <2> QED
      BY <2>1, <2>2 DEF BeforeCommand, Awaited, TimedOut, Paid
  <1>7. CASE ControllerClears
    BY <1>7 DEF ControllerClears, BeforeCommand, Awaited, TimedOut, Paid, motor, net
  <1>8. CASE MotorReceives
    <2>1. /\ Len(toMotor') \in Nat /\ Len(toMotor') = Len(toMotor) - 1
          /\ toMotor # << >>
          /\ toMotor' = << >> => Len(toMotor) = 1 /\ Head(toMotor) = toMotor[Len(toMotor)]
          /\ toMotor' # << >> => toMotor'[Len(toMotor')] = toMotor[Len(toMotor)]
      BY <1>8, TailFacts DEF MotorReceives
    <2>2. \A p \in Packets : Append(toController, p) # << >>
      BY AppendProperties
    <2>3. \A ok \in BOOLEAN : Packet("status", ok, FALSE, TRUE) \in Packets
      BY PacketType
    <2>4. \/ motorHeard < DISCARDED /\ motorHeard' = motorHeard + 1 /\ UNCHANGED toController
          \/ /\ motorHeard = DISCARDED /\ UNCHANGED motorHeard
             /\ \/ Head(toMotor).kind = "command" /\ toController' # << >>
                \/ Head(toMotor).kind = "status" /\ UNCHANGED toController
      BY <1>8, <2>2, <2>3, MotorSees
    <2>5. UNCHANGED <<send, receive, waiting_for_response, error_noresponse_count>>
      BY <1>8 DEF MotorReceives, tasks
    <2>6. BeforeCommand'
      BY <2>1, <2>4, <2>5 DEF BeforeCommand, Paid
    <2>7. Awaited'
      <3> SUFFICES ASSUME send' = "sleep", waiting_for_response'
                   PROVE  Awaited'
        BY DEF Awaited
      <3>1. CASE toController # << >> \/ receive = "clear"
                 \/ motorHeard > 2 * error_noresponse_count
        BY <2>4, <2>5, <3>1 DEF Awaited
      <3>2. CASE /\ toMotor[Len(toMotor)].kind = "command"
                 /\ Paid(2 * error_noresponse_count + 1)
        <4>1. CASE toMotor' = << >>
          <5>1. Len(toMotor) = 1 /\ Head(toMotor).kind = "command"
            BY <2>1, <3>2, <4>1
          <5>2. toController' # << >> \/ motorHeard' > 2 * error_noresponse_count
            BY <2>4, <3>2, <5>1 DEF Paid
          <5> QED
            BY <2>5, <5>2 DEF Awaited
        <4>2. CASE toMotor' # << >>
          BY <2>1, <2>4, <2>5, <3>2, <4>2 DEF Awaited, Paid
        <4> QED
          BY <4>1, <4>2
      <3> QED
        BY <2>5, <3>1, <3>2 DEF Awaited
    <2>8. TimedOut'
      BY <2>1, <2>5 DEF TimedOut
    <2> QED
      BY <2>5, <2>6, <2>7, <2>8
  <1>9. CASE OtherTalks
    <2>1. Len(toMotor') = Len(toMotor) + 1
      BY <1>9, OtherSays
    <2>2. /\ ~ISPRIME
          /\ UNCHANGED <<send, waiting_for_response, error_noresponse_count, motorHeard>>
      BY <1>9 DEF OtherTalks, tasks, motor
    <2> QED
      BY <2>1, <2>2 DEF BeforeCommand, Awaited, TimedOut, Paid
  <1>10. CASE PollPrime
    BY <1>10 DEF PollPrime, BeforeCommand, Awaited, TimedOut, Paid, tasks, motor, net
  <1>11. CASE Reboot
    BY <1>11 DEF Reboot, BeforeCommand, Awaited, TimedOut, Paid, motor
  <1> QED
    BY <1>1, <1>2, <1>3, <1>4, <1>5, <1>6, <1>7, <1>8, <1>9, <1>10, <1>11
    DEF Next, Sender, Receiver

(***************************************************************************)
(* sendMotorCommandTask of make.c does not stop the watchdog without a     *)
(* fault, if the packets the motor board throws away after boot last for   *)
(* no more rounds than the limit allows (make.c: 20 packets, 10 rounds).   *)
(***************************************************************************)
THEOREM BusNoFalseGiveUp ==
  ASSUME DISCARDED <= 2 * NO_RESPONSE_LIMIT
  PROVE  Spec => []NoFalseGiveUp
  <1>1. Init => TypeOK /\ Queued /\ Good
    <2> SUFFICES ASSUME Init PROVE Good
      BY TypesInit
    <2>1. Healthy
      BY EmptySeq DEF Init, Healthy
    <2>2. Unpaid
      BY Constants, EmptySeq DEF Init, Unpaid, BeforeCommand, Awaited, TimedOut
    <2> QED
      BY <2>1, <2>2 DEF Good
  <1>2. TypeOK /\ Queued /\ Good /\ [Next]_vars => (TypeOK /\ Queued /\ Good)'
    <2> SUFFICES ASSUME TypeOK, Queued, Good, [Next]_vars PROVE Good'
      BY TypesStep
    <2>1. CASE UNCHANGED vars
      BY <2>1 DEF vars, tasks, motor, net, Good, Healthy, Unpaid, BeforeCommand, Awaited,
                  TimedOut, Paid
    <2>2. CASE Next /\ faultless'
      BY <2>2, StillFaultless, HealthyStep, UnpaidStep DEF Good
    <2> QED
      BY <2>1, <2>2 DEF Good
  <1>3. Good => NoFalseGiveUp
    BY DEF Good, Healthy, NoFalseGiveUp
  <1> QED
    BY <1>1, <1>2, <1>3, PTL DEF Spec

=============================================================================
