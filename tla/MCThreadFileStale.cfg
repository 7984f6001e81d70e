\* The result of a call against the result of its action.
CONSTANTS
  o = o
  c1 = c1
  Callers = {o, c1}
  Owner = o
  MaxCalls = 1
SPECIFICATION Spec
INVARIANT CallReportsOutcome
