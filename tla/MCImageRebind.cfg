SPECIFICATION ImageLockSpec
CONSTANTS
  Components = {im1}
  Recipes = {r1, r2}
  Unsteady = {r2}
  NoImage = NoImage
  MaxEdits = 2
  im1 = im1
  r1 = r1
  r2 = r2
PROPERTIES
  RebindingReviews
CHECK_DEADLOCK FALSE
