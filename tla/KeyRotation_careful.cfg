SPECIFICATION Spec
CONSTANTS
  LastDatabase = 2
  Records = {r1, r2}
  Blocks = {b1}
  Keys = {k1, k2, k3}
  MaxMishaps = 2
  Absent = Absent
  Empty = Empty
INVARIANTS
  TypeOK
  NoKeyLost
  NeverRefused
  AllUnderTheKeyInUse
PROPERTIES
  WrongKeyIsHarmless
  RotationsFinish
CHECK_DEADLOCK FALSE
