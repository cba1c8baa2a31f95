\* One task with two attempts, two calls of Review over two dimensions.
SPECIFICATION SpecReviews
CONSTANTS
  TaskIds = {t1}
  AttemptIds = {a1, a2}
  WorkPackageIds = {w1}
  Commits = {c1}
  ValidationIds = {v1}
  ReviewIds <- MCReviewIds
  MaxVersion = 1
  None = None
  Calls = {k1, k2}
  Dimensions = {d1, d2}
  Actors = {x1, x2}
CHECK_DEADLOCK FALSE
SYMMETRY ReviewSymmetry
INVARIANTS
  OneSessionPerDimension
  ReviewsAreAnnounced
