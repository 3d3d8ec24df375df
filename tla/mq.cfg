SPECIFICATION FairSpec
CONSTANTS
  Calls = {s1, s2, s3}
  Msgs = {m1}
  Groups = {TRUE, FALSE}
  Retention = "interest"
  None = none
INVARIANTS TypeOK
PROPERTIES KeptUntilHandled 
CHECK_DEADLOCK FALSE
