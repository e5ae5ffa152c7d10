\* Violated: a reader holds a snapshot that a reload destroyed.
SPECIFICATION PolicySpec
CONSTANTS
  NULL = NULL
  Reader = {r1}
  Reloader = {p1, p2}
  Chunk = {c1, c2, c3, c4}
  MaxEdition = 2
INVARIANTS
  ReadersSeeSnapshots
