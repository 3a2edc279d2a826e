SPECIFICATION Spec
CONSTANTS
  Process = {server, tool}
  Coders = {server}
  Lengths = {0, 7471, 7472, 7488, 7504, 14975}
  MaxFiles = 2
  MaxStarts = 2
  MaxFaults = 1
  MaxOps = 2
INVARIANTS
  Exclusive
  OwnAnswer
  RoundTrip
CHECK_DEADLOCK FALSE
