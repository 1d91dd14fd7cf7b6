SPECIFICATION MCSpec
CONSTANTS
    w1 = w1
    w2 = w2
    Workers = {w1, w2}
    k1 = k1
    k2 = k2
    Keys = {k1, k2}
    m1 = m1
    m2 = m2
    Mails = {m1, m2}
    None = None
    MaxCursor = 2
    MaxRows = 3
    MaxWork = 4
    MaxTroubles = 2
    Limit = 1
    Window = 2
SYMMETRY MCSymmetry
CHECK_DEADLOCK FALSE
INVARIANTS
  NumbersSound
  OneCopy
  PullComplete
  RateBounded
  MailHandled
