---------------------------- MODULE MCAddThumbs ----------------------------
\* Small instances of AddThumbs for TLC: the settings each run ranges over.
EXTENDS AddThumbs, TLC

CONSTANTS p1, p2, t1

OneTmp == [p \in Pics |-> t1]

Defaults == [skip |-> TRUE, fix |-> TRUE, backup |-> TRUE, inPlace |-> TRUE,
             overwrite |-> FALSE, lib |-> "exiv2", level |-> "warn", lskip |-> TRUE]

\* In place with backups, the default, whichever the other choices.
InPlacePrefs ==
  {[Defaults EXCEPT !.skip = s, !.overwrite = o, !.lib = l] :
     s \in BOOLEAN, o \in BOOLEAN, l \in {"exiv2", "libexif"}}

\* The user switches between the two modes as they like, with backups on.
BackupPrefs ==
  {[Defaults EXCEPT !.inPlace = i, !.overwrite = o, !.fix = o] :
     i \in BOOLEAN, o \in BOOLEAN}

\* A writer that works on a copy and one that does not, in either mode, replacing what is there.
WriterPrefs ==
  {[Defaults EXCEPT !.skip = FALSE, !.inPlace = i, !.backup = ~i, !.overwrite = TRUE,
                    !.lib = l] : i \in BOOLEAN, l \in {"exiv2", "pixymeta"}}

CopyPrefs == {[Defaults EXCEPT !.inPlace = FALSE, !.skip = FALSE]}
DefaultPrefs == {Defaults}

Symm == Permutations({p1, p2})
=============================================================================
