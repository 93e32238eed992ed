SPECIFICATION Spec
CONSTANTS
  a1 = a1
  d1 = d1
  d2 = d2
  v1 = v1
  v2 = v2
  Disclosure <- MCDisclosure
  Forgery <- MCForgery
  View = {v1, v2}
  Edited = {v1}
  Subject = {a1}
  MaxCalls = 3
  MaxFaults = 1
INVARIANTS
  RewriteIsAlarmed
CHECK_DEADLOCK FALSE
