--------------------------- MODULE MCPictureLife ---------------------------
\* Small instances of PictureLife for TLC.
EXTENDS PictureLife, TLC

CONSTANTS p1, p2, t1

OneTmp == [p \in Pics |-> t1]

Defaults == [skip |-> TRUE, fix |-> TRUE, backup |-> TRUE, inPlace |-> TRUE,
             overwrite |-> FALSE, lib |-> "exiv2", level |-> "warn", lskip |-> TRUE]

CopyPrefs == {[Defaults EXCEPT !.inPlace = FALSE, !.overwrite = o] : o \in BOOLEAN}
DefaultPrefs == {Defaults}
=============================================================================
