\* Three users with two calls each, and one spurious wakeup.
CONSTANTS
  o = o
  u1 = u1
  u2 = u2
  Users = {o, u1, u2}
  Owner = o
  MaxCalls = 2
  MaxSpurious = 1
SPECIFICATION FairSpec
INVARIANTS
  CancelledNeverFires
  NothingAfterDestroy
PROPERTIES
  FiresAfterFullWait
  DisableReturns
  FiresUnlessDisabled
