\* The smallest instance that shows a review starting before "reviewing".
SPECIFICATION SpecReviews
CONSTANTS
  TaskIds = {t1}
  AttemptIds = {a1}
  WorkPackageIds = {w1}
  Commits = {c1}
  ValidationIds = {v1}
  ReviewIds <- MCReviewIds
  MaxVersion = 1
  None = None
  Calls = {k1}
  Dimensions = {d1}
  Actors = {x1, x2}
CHECK_DEADLOCK FALSE
PROPERTIES
  ReviewStartsWhileReviewing
