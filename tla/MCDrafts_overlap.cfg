SPECIFICATION Spec
CONSTANTS
  Designers = {d1, d2}
  f1 = f1
  f2 = f2
  Fields = {f1, f2}
  FirstFields = {f1}
  Titles = {A, B}
  None = None
  BuiltIn <- MCBuiltIn
  MaxRequests = 6
SYMMETRY MCSymmetry
CHECK_DEADLOCK FALSE
INVARIANTS
  VersionsSound
PROPERTIES
  NothingReplacedUnseen
  PublishedAsReviewed
  PublishedWhole
  TemplatesAsShown
