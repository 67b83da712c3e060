SPECIFICATION Spec
CONSTANTS
  None = None
  h1 = h1 h2 = h2
  a1 = a1 a2 = a2 a3 = a3
  t1 = t1 t2 = t2
  m1 = m1
  r1 = r1
  Handles = {h1, h2}
  Addresses = {a1, a2, a3}
  Readers = {t1, t2}
  Markers = {m1}
  Retirers = {r1}
  MaxEpoch = 3
INVARIANTS NoReuseWhileHeld OnePlace
SYMMETRY Interchangeable
CHECK_DEADLOCK FALSE
