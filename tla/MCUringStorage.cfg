SPECIFICATION Spec
CONSTANTS
  Storages = {s1, s2, s3}
  Results = {r1, r2}
  Rings = {ring1, ring2, ring3}
  NoRing = NoRing
  Garbage = Garbage
  Absent = Absent
  Error = 12
SYMMETRY Symmetry
INVARIANT OneHolder
CHECK_DEADLOCK FALSE
