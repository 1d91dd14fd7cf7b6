SPECIFICATION Spec
CONSTANTS
  Projects = {p1, p2}
  Tasks = {t1, t2, t3, t4}
  Tags = {g1}
  Notes = {"n"}
  Values = {"done"}
  None = None
  Rules <- MCRules
  MaxDepth = 2
  MaxRequests = 2
SYMMETRY MCSymmetry
INVARIANTS
  RowsSound
  FormulasExact
PROPERTIES
  FilesKept
  RemovalsKept
  MergesKept
