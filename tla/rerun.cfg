SPECIFICATION FairSpec
CONSTANTS
  p1 = p1
  p2 = p2
  t1 = t1
  Pics = {p1}
  TmpNames = {t1}
  TmpOf <- OneTmp
  MaxVer = 2
  ShotThumbs = {"no", "bare", "yes"}
  Meddles = FALSE
  None = None
  PrefSpace <- BackupPrefs
INVARIANTS NoLoss KeepInv
PROPERTIES NothingToRedo RunEnds KeepsAlbum
