SPECIFICATION LifeSpec
CONSTANTS
  p1 = p1
  p2 = p2
  t1 = t1
  Pics = {p1}
  TmpNames = {t1}
  TmpOf <- OneTmp
  MaxVer = 2
  ShotThumbs = {"no"}
  Meddles = FALSE
  None = None
  Recreates = FALSE
  PrefSpace <- DefaultPrefs
PROPERTIES SyncFollowsUser
