SPECIFICATION Spec
CONSTANTS
  p1 = p1
  p2 = p2
  t1 = t1
  Pics = {p1, p2}
  TmpNames = {t1}
  TmpOf <- OneTmp
  MaxVer = 2
  ShotThumbs = {"no"}
  Meddles = FALSE
  None = None
  PrefSpace <- InPlacePrefs
SYMMETRY Symm
INVARIANTS TypeOK OriginalKept OwnPicture SourceCurrent
PROPERTIES BackupImmutable
