SPECIFICATION Spec
CONSTANTS
  a = a
  b = b
  c = c
  f1 = f1
  f2 = f2
  KeyIds = {a, b, c}
  Files = {f1, f2}
  FileOf <- MCFileOf
  Bare = Bare
  Secrets = {1, 2, 3}
  Keks = {1, 2}
  Absent = Absent
  Torn = Torn
INVARIANT EveryKeyLasts
