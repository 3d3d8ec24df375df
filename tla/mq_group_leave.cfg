SPECIFICATION FairSpec
CONSTANTS
  Calls = {s1, s2}
  Msgs = {m1, m2}
  Groups = {TRUE}
  Retention = "limits"
  None = none
PROPERTIES GroupServed
CHECK_DEADLOCK FALSE
