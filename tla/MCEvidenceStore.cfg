SPECIFICATION Spec
CONSTANTS
  Analyses = {a1, a2}
  Positions = {p1, p2}
  Keys = {k1, k2, k3, k4}
  Contents = {c1, c2}
  MaxCrashes = 1
  NoKey = NoKey
  NoBytes = NoBytes
  NoFile = NoFile
  Broken = Broken
  NoTx = NoTx
  Original = Original
SYMMETRY KeySymmetry
INVARIANTS
  ReferencedIsStored
  FilesAccounted
  SnapshotReadable
PROPERTIES
  RefinesEvidence
