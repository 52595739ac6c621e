---------------------------- MODULE MCMotorBoard ----------------------------
(***************************************************************************)
(* Module MotorBoard with the index sensor mounted anywhere from behind    *)
(* the start to a few calibration steps ahead of it.                       *)
(***************************************************************************)
EXTENDS MotorBoard

SensorPlaces == (-2)..15

=============================================================================
