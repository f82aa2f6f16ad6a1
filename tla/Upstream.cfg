SPECIFICATION UpstreamSpec
CONSTANTS
  Callers <- MCCallers
  N = 3
  Attempts = 3
INVARIANTS
  UpstreamTypeOK
  GivesUpForAReason
PROPERTY CallsEnd
