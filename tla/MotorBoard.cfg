\* The calibration of make.c, a short track, the sensor anywhere around the start.
CONSTANTS
  FIRST = 10
  TRAVEL = 20
  STEP_SIZE = 4
  Places <- SensorPlaces
SPECIFICATION FairSpec
INVARIANTS
  TravelLimits
  SentinelSafe
PROPERTY CalibrationEnds
