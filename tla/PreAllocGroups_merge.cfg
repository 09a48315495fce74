SPECIFICATION Spec
CONSTANTS
  Workers = {w1, w2, w3}
  Tests = {t1, t2, t3}
  Groups = {h1, h2}
  sys = sys
  acc = acc
  Addresses <- MCAddresses
  Fields <- MCFields
  Values <- MCValues
  ForkPre <- MCForkPre
  Pres <- AllPres
  MaxFaults = 2
SYMMETRY Perms
CHECK_DEADLOCK FALSE
INVARIANTS OwnKept Complete NoFalseAlarm
