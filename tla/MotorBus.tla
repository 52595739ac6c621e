------------------------------ MODULE MotorBus ------------------------------
(***************************************************************************)
(* The command protocol of src/firmware/projects/heavy/make.c: a           *)
(* controller board with its sender and receiver tasks, the motor board    *)
(* that answers, and the UDP broadcasts between them.  The tasks share     *)
(* waiting_for_response without a lock; an action is what a task does      *)
(* between two points where the other one can see the difference.  The     *)
(* other controller appears as traffic while this one is not prime.        *)
(***************************************************************************)
EXTENDS Integers, Sequences

CONSTANTS
  DISCARDED,           \* packets every receiver throws away after boot (make.c: 20)
  NO_RESPONSE_LIMIT,   \* more unanswered commands in a row: give up (make.c: 10)
  ERROR_LIMIT,         \* that many negative answers: give up (make.c: 10)
  Faults,              \* what may go wrong: "corrupt", "silence", "button", "passing"
  Losses,              \* bound: packets the network may lose, and times it may be late
  Backlog              \* bound: packets of the other controller that may be queued

ASSUME DiscardedAssumption == DISCARDED \in Nat
ASSUME LimitAssumption == NO_RESPONSE_LIMIT \in Nat /\ ERROR_LIMIT \in Nat \ {0}
ASSUME FaultsAssumption == Faults \subseteq {"corrupt", "silence", "button", "passing"}
ASSUME BoundAssumption == Losses \in Nat /\ Backlog \in Nat

VARIABLES
  ISPRIME,                  \* the controller is prime, as stroke_wdt polled it
  waiting_for_response, error_count, error_noresponse_count,
  gaveUp,                   \* TaskDelete(stroke_wdt) has been called
  corrupt,                  \* error mode 1: packets leave with a wrong crc
  send, receive,            \* where the controller's two tasks are
  heard, motorHeard,        \* packets each receiver has thrown away so far
  silent,                   \* the motor board does not answer any more
  toMotor, toController,    \* broadcasts on their way, oldest first
  lossy,                    \* packets the network may still lose, or waits it may outlast
  unanswered,               \* history: "yes" from the announcement of a command to the next
                            \* packet, "raced" if the receiver was busy then, else "no"
  faultless                 \* history: nothing of Faults and no loss has happened so far

tasks == <<waiting_for_response, error_count, error_noresponse_count, gaveUp>>
motor == <<motorHeard, silent>>
net   == <<toMotor, toController>>
vars  == <<ISPRIME, tasks, corrupt, send, receive, heard, motor, net, lossy, unanswered,
          faultless>>

(***************************************************************************)
(* A packet, by the fields the receivers look at: its kind (bits 20, 21    *)
(* and 24 to 26), the acknowledge bit 22, whether its value is 0xFFFFFFFF, *)
(* and whether its crc matches.                                            *)
(***************************************************************************)
Packet(kind, ack, minus1, good) ==
  [kind |-> kind, ack |-> ack, minus1 |-> minus1, good |-> good]
Packets ==
  [kind : {"command", "status"}, ack : BOOLEAN, minus1 : BOOLEAN, good : BOOLEAN]

Flags ==
  /\ ISPRIME \in BOOLEAN /\ waiting_for_response \in BOOLEAN /\ gaveUp \in BOOLEAN
  /\ corrupt \in BOOLEAN /\ silent \in BOOLEAN /\ faultless \in BOOLEAN
  /\ unanswered \in {"no", "yes", "raced"}
  /\ send \in {"sleep", "check", "nack", "tell", "send"} /\ receive \in {"wait", "clear"}

Counters ==
  /\ error_count \in 0..ERROR_LIMIT
  /\ error_noresponse_count \in 0..(NO_RESPONSE_LIMIT + 1)
  /\ heard \in 0..DISCARDED /\ motorHeard \in 0..DISCARDED /\ lossy \in 0..Losses

Queues ==
  /\ toMotor \in Seq(Packets) /\ toController \in Seq(Packets)
  /\ Len(toMotor) <= 2 + Backlog + 2 * Losses

TypeOK == Flags /\ Counters /\ Queues

Init ==
  /\ ISPRIME = FALSE /\ waiting_for_response = FALSE /\ error_count = 0
  /\ error_noresponse_count = 0 /\ gaveUp = FALSE /\ corrupt = FALSE
  /\ send = "check" /\ receive = "wait" /\ heard = 0 /\ unanswered = "no"
  /\ motorHeard = 0 /\ silent = FALSE
  /\ toMotor = << >> /\ toController = << >> /\ lossy = Losses
  /\ faultless = TRUE

-----------------------------------------------------------------------------
(***************************************************************************)
(* Mutated forms, used to confirm that the properties notice a mistake.    *)
(***************************************************************************)
\* Negative answers are not counted up.
ErrorsCountedNever(n, p) == 0

\* Unanswered commands are not counted up.
SilenceCountedOnce(n) == 1

\* The limit is tested with >= where the code has >.
TooSilentEarly(n) == n >= NO_RESPONSE_LIMIT

\* A command is announced without raising the flag.
AnnouncedNever(w) == w

\* Every packet is sent twice.
TransmitTwice(p) ==
  toMotor' = IF ISPRIME THEN toMotor \o <<p, p>> ELSE toMotor

-----------------------------------------------------------------------------
\* sendDataMessage: only a prime controller is heard.
Transmit(p) ==
  toMotor' = IF ISPRIME THEN Append(toMotor, [p EXCEPT !.good = ~corrupt]) ELSE toMotor

\* Counters are not told apart beyond the value that makes the task give up.
SilenceCounted(n) == IF n <= NO_RESPONSE_LIMIT THEN n + 1 ELSE n
TooSilent(n) == n > NO_RESPONSE_LIMIT

ErrorsCounted(n, p) ==
  IF p.ack THEN 0 ELSE IF p.minus1 /\ n < ERROR_LIMIT THEN n + 1 ELSE n

\* tellMotorBoard: a master waits for an answer from now on.
Announced(w) == w \/ ISPRIME

\* Sleep(WAIT_TIME) ends.  30 ms are ample for the receiver to be through with a
\* packet, and for everything on its way to arrive unless the network is late.
SenderWakes ==
  /\ send = "sleep" /\ send' = "check" /\ receive = "wait"
  /\ \/ toMotor = << >> /\ toController = << >> /\ UNCHANGED <<lossy, faultless>>
     \/ lossy > 0 /\ lossy' = lossy - 1 /\ faultless' = FALSE
  /\ UNCHANGED <<ISPRIME, tasks, corrupt, receive, heard, motor, net, unanswered>>

\* sendMotorCommandTask: was the last command answered?
SenderChecks ==
  /\ send = "check"
  /\ send' = IF waiting_for_response THEN "nack" ELSE "tell"
  /\ error_noresponse_count' = IF waiting_for_response THEN error_noresponse_count ELSE 0
  /\ UNCHANGED <<ISPRIME, waiting_for_response, error_count, gaveUp, corrupt, receive,
                 heard, motor, net, unanswered, lossy, faultless>>

\* sendNAck, whose bit pattern 0x00500000 has the acknowledge bit set, and the
\* counting of unanswered commands.
SenderNAcks ==
  /\ send = "nack" /\ send' = "tell"
  /\ waiting_for_response' = FALSE
  /\ Transmit(Packet("status", TRUE, TRUE, TRUE))
  /\ error_noresponse_count' = SilenceCounted(error_noresponse_count)
  /\ gaveUp' = (gaveUp \/ TooSilent(error_noresponse_count'))
  /\ UNCHANGED <<ISPRIME, error_count, corrupt, receive, heard, motor, toController, unanswered, lossy, faultless>>

\* tellMotorBoard up to the send: the flag is set by a master only.
SenderAnnounces ==
  /\ send = "tell" /\ send' = "send"
  /\ waiting_for_response' = Announced(waiting_for_response)
  /\ unanswered' = IF ~ISPRIME THEN "no" ELSE IF receive = "clear" THEN "raced" ELSE "yes"
  /\ UNCHANGED <<ISPRIME, error_count, error_noresponse_count, gaveUp, corrupt, receive,
                 heard, motor, net, lossy, faultless>>

SenderSends ==
  /\ send = "send" /\ send' = "sleep"
  /\ Transmit(Packet("command", FALSE, FALSE, TRUE))
  /\ UNCHANGED <<ISPRIME, tasks, corrupt, receive, heard, motor, toController, unanswered, lossy, faultless>>

\* receiveMotorCommandTask of a controller: the packets after boot clear the
\* flag and are forgotten; then a master judges a packet it is waiting for.
ControllerReceives ==
  /\ receive = "wait" /\ toController # << >>
  /\ toController' = Tail(toController)
  /\ unanswered' = "no"
  /\ LET p == Head(toController) IN
       \/ /\ heard < DISCARDED
          /\ heard' = heard + 1
          /\ waiting_for_response' = FALSE
          /\ UNCHANGED <<error_count, gaveUp, receive>>
       \/ /\ heard = DISCARDED /\ ISPRIME
          /\ receive' = "clear"
          /\ IF waiting_for_response
             THEN /\ error_count' = ErrorsCounted(error_count, p)
                  /\ gaveUp' = (gaveUp \/ (~p.ack /\ error_count' >= ERROR_LIMIT))
             ELSE UNCHANGED <<error_count, gaveUp>>
          /\ UNCHANGED <<heard, waiting_for_response>>
       \/ /\ heard = DISCARDED /\ ~ISPRIME
          /\ UNCHANGED <<heard, waiting_for_response, error_count, gaveUp, receive>>
  /\ UNCHANGED <<ISPRIME, error_noresponse_count, corrupt, send, motor, toMotor, lossy, faultless>>

\* ... and whatever the packet was, it is not waiting any more.
ControllerClears ==
  /\ receive = "clear" /\ receive' = "wait"
  /\ waiting_for_response' = FALSE
  /\ UNCHANGED <<ISPRIME, error_count, error_noresponse_count, gaveUp, corrupt, send, heard,
                 motor, net, unanswered, lossy, faultless>>

\* receiveMotorCommandTask of the motor board: a good command is carried out or
\* refused (module MotorBoard), status is ignored, a bad crc is answered by -1.
\* A refusal reports the position, which is -1 only if the motor is passing there.
MotorReceives ==
  /\ toMotor # << >>
  /\ toMotor' = Tail(toMotor)
  /\ LET p == Head(toMotor)
         Answer(ack, minus1) ==
           toController' = Append(toController, Packet("status", ack, minus1, TRUE))
     IN \/ /\ motorHeard < DISCARDED /\ ~silent
           /\ motorHeard' = motorHeard + 1
           /\ UNCHANGED <<toController, faultless>>
        \/ /\ motorHeard = DISCARDED /\ ~silent
           /\ \/ /\ p.good /\ p.kind = "command"
                 /\ \E ok \in BOOLEAN : Answer(ok, FALSE)
                 /\ UNCHANGED faultless
              \/ /\ p.good /\ p.kind = "command" /\ "passing" \in Faults
                 /\ Answer(FALSE, TRUE)
                 /\ faultless' = FALSE
              \/ p.good /\ p.kind = "status" /\ UNCHANGED <<toController, faultless>>
              \/ ~p.good /\ Answer(FALSE, TRUE) /\ UNCHANGED faultless
           /\ UNCHANGED motorHeard
        \/ silent /\ UNCHANGED <<motorHeard, toController, faultless>>
  /\ UNCHANGED <<ISPRIME, tasks, corrupt, send, receive, heard, silent, unanswered, lossy>>

-----------------------------------------------------------------------------
\* The other controller is prime and talks to the motor board: commands and
\* NAcks, in error mode 1 with a wrong crc.
OtherTalks ==
  /\ ~ISPRIME /\ Len(toMotor) < Backlog /\ Len(toController) < Backlog
  /\ \E nack \in BOOLEAN, good \in {TRUE} \cup {FALSE : f \in Faults \cap {"corrupt"}} :
       /\ LET p == Packet(IF nack THEN "status" ELSE "command", nack, nack, good) IN
            toMotor' = Append(toMotor, p) /\ toController' = Append(toController, p)
       /\ faultless' = (faultless /\ good)
  /\ UNCHANGED <<ISPRIME, tasks, corrupt, send, receive, heard, motor, unanswered, lossy>>

\* stroke_wdt polls the prime line.  Unless somebody presses the FDU's reset
\* button, a controller loses prime only by a power-on reset (Redundancy).
PollPrime ==
  /\ ISPRIME => "button" \in Faults
  /\ ISPRIME' = ~ISPRIME
  /\ faultless' = (faultless /\ ~ISPRIME)
  /\ UNCHANGED <<tasks, corrupt, send, receive, heard, motor, net, unanswered, lossy>>

\* error_injector selects error mode 1.
CorruptCrc ==
  /\ "corrupt" \in Faults /\ ~corrupt /\ corrupt' = TRUE
  /\ faultless' = FALSE
  /\ UNCHANGED <<ISPRIME, tasks, send, receive, heard, motor, net, unanswered, lossy>>

\* A power-on reset of the controller.  It lasts long enough for packets on
\* their way to reach the motor board, and their answers reach nobody.
Reboot ==
  /\ toMotor = << >>
  /\ ISPRIME' = FALSE /\ waiting_for_response' = FALSE /\ error_count' = 0
  /\ error_noresponse_count' = 0 /\ gaveUp' = FALSE /\ corrupt' = FALSE
  /\ send' = "check" /\ receive' = "wait" /\ heard' = 0 /\ unanswered' = "no"
  /\ toController' = << >>
  /\ UNCHANGED <<motor, toMotor, lossy, faultless>>

MotorFallsSilent ==
  /\ "silence" \in Faults /\ ~silent /\ silent' = TRUE
  /\ faultless' = FALSE
  /\ UNCHANGED <<ISPRIME, tasks, corrupt, send, receive, heard, motorHeard, net, unanswered, lossy>>

\* UDP: the oldest packet of a direction is lost.
Lose ==
  /\ lossy > 0 /\ lossy' = lossy - 1
  /\ \/ toMotor # << >> /\ toMotor' = Tail(toMotor) /\ UNCHANGED toController
     \/ toController # << >> /\ toController' = Tail(toController) /\ UNCHANGED toMotor
  /\ faultless' = FALSE
  /\ UNCHANGED <<ISPRIME, tasks, corrupt, send, receive, heard, motor, unanswered>>

Sender == SenderWakes \/ SenderChecks \/ SenderNAcks \/ SenderAnnounces \/ SenderSends
Receiver == ControllerReceives \/ ControllerClears

Next ==
  \/ Sender \/ Receiver \/ MotorReceives
  \/ OtherTalks \/ PollPrime \/ Reboot
  \/ CorruptCrc \/ MotorFallsSilent \/ Lose

Spec == Init /\ [][Next]_vars

\* Every ready task is scheduled: FreeRTOS runs tasks of one priority in turn.
FairSpec == Spec /\ WF_vars(Sender) /\ WF_vars(Receiver) /\ WF_vars(MotorReceives)

-----------------------------------------------------------------------------
\* No giving up without a fault: while the network delivers and the motor board
\* answers, sendMotorCommandTask never stops the watchdog, although the motor
\* board throws its first packets away unanswered and NAcks are sent meanwhile.
NoFalseGiveUp == faultless => ~gaveUp

\* A timeout is not overlooked: when the sender of make.c starts over with a
\* clean counter, the command it announced as a master was followed by a packet,
\* unless the receiver had a packet in hand when the command was announced.
TimeoutsNoticed ==
  [][send = "check" /\ send' = "tell" => unanswered # "yes"]_vars

\* What the comment on the test of waiting_for_response says, "Didn't get a
\* response the last time we sent a command": the test tells an answered command
\* from an unanswered one.
NoResponseDetected ==
  [][send = "check" /\ send' = "tell" => unanswered = "no"]_vars

\* A controller whose packets are corrupt stops its watchdog in the end, unless
\* it stops being prime or is reset first.
CorruptionNoticed == corrupt /\ ISPRIME ~> gaveUp \/ ~ISPRIME \/ ~corrupt

\* The same for a motor board that does not answer any more.
SilenceNoticed == silent /\ ISPRIME ~> gaveUp \/ ~ISPRIME

-----------------------------------------------------------------------------
(***************************************************************************)
(* The inductive invariants behind the theorems of MotorBusProofs.         *)
(***************************************************************************)
\* The motor board's queue: at most a NAck and a command per round.
Queued ==
  Len(toMotor) <= Backlog + 2 * (Losses - lossy)
                          + (IF send \in {"check", "nack"} THEN 0
                             ELSE IF send = "sleep" THEN 2 ELSE 1)

\* A command that nobody has answered keeps its flag until the next check.
Flagged ==
  unanswered = "yes" =>
    receive = "wait" /\ (send \in {"send", "sleep", "check", "nack"} => waiting_for_response)

\* Without a fault only the packets after boot go unanswered: no packet is bad,
\* no answer is -1, and only a master waits.
Healthy ==
  /\ ~corrupt /\ ~silent /\ error_count = 0 /\ ~gaveUp
  /\ waiting_for_response => ISPRIME
  /\ \A i \in 1..Len(toMotor) : toMotor[i].good
  /\ \A i \in 1..Len(toController) : toController[i].minus1 => toController[i].ack

\* An unanswered round costs the motor board two of the packets it throws away,
\* a command and a NAck.
Paid(n) == motorHeard = DISCARDED \/ motorHeard + Len(toMotor) >= n

BeforeCommand == send \in {"tell", "send"} => Paid(2 * error_noresponse_count)

Awaited ==
  send = "sleep" /\ waiting_for_response =>
    \/ /\ toMotor # << >> /\ toMotor[Len(toMotor)].kind = "command"
       /\ Paid(2 * error_noresponse_count + 1)
    \/ toController # << >>
    \/ receive = "clear"
    \/ motorHeard > 2 * error_noresponse_count

TimedOut ==
  send = "nack" \/ (send = "check" /\ waiting_for_response) =>
    /\ waiting_for_response /\ receive = "wait"
    /\ toMotor = << >> /\ toController = << >>
    /\ motorHeard > 2 * error_noresponse_count

Unpaid ==
  2 * error_noresponse_count <= DISCARDED + 1 /\ BeforeCommand /\ Awaited /\ TimedOut

Good == faultless => Healthy /\ Unpaid

BusInv == TypeOK /\ Queued /\ Flagged /\ Good

=============================================================================
