\* Two or three occurrences, every window policy.
SPECIFICATION Spec
CONSTANTS
  Occs = {1, 2, 3}  NoOcc = 0
  Inputs <- MCInputs
  ZoneIds = {"z1", "z2", "z3"}
  Gap = 1  Minute = 2  Parts = 3  MaxMinutes = 5  Tolerance = 4  Day = 24
INVARIANTS TypeOK NoOverlap NeverWithheld SoakKept NeverEarly NoIdling
  MinutesAccounted InWindow AllOrNothing ServedInOrder LateOnlyBehindOthers
PROPERTY Termination
CHECK_DEADLOCK FALSE
