\* The owner with a call and the close() of its destructor, another caller
\* with a call, and the I/O thread.
CONSTANTS
  o = o
  c1 = c1
  Callers = {o, c1}
  Owner = o
  MaxCalls = 1
SPECIFICATION FairSpec
INVARIANTS
  InOrderExactlyOnce
  CapturesAlive
  NobodyStranded
  NoInventedSuccess
  ClosedForGood
PROPERTIES
  ImplementsSerialFile
  DestructorTerminates
