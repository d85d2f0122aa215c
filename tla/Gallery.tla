------------------------------ MODULE Gallery ------------------------------
(***************************************************************************)
(* The files the application works on, as the storage provider shows them: *)
(* the picture folder chosen by the user ("src", e.g. DCIM), its backup    *)
(* folder ("bak", <working dir>/DCIM.bak) and its output folder ("new",    *)
(* <working dir>/DCIM.new), each holding at most one file per picture      *)
(* name, the `<name>_tmp` files that copyDocument writes beside them       *)
(* ("part"), and the temporary output in the application's cache directory *)
(* ("cache").  The module also holds what happens to these files from      *)
(* outside the application: the user takes, edits and deletes pictures and *)
(* changes the settings, the system empties the cache.                     *)
(*                                                                         *)
(* `shot` and `owned` observe the user: shot[p] is the number of the last  *)
(* version of p the user saved, `owned` the pictures the user saved and    *)
(* did not delete.  No step of the application reads them.                 *)
(***************************************************************************)
EXTENDS Naturals, FiniteSets

CONSTANTS
  Pics,       \* the picture names of one source folder
  TmpNames,   \* the names of temporary outputs in the cache directory
  TmpOf,      \* the temporary name of each picture: getTmpUri leaves the
              \* volume out of the path, so two pictures may share one
  MaxVer,     \* bound on the number of versions the user saves of a picture
  ShotThumbs, \* the thumbnail states of the pictures the user saves
  PrefSpace,  \* the settings the user chooses among
  Meddles,    \* may the user touch the very picture being processed?
  None        \* no file

Thumbs == {"no", "bare", "yes"}  \* none; one without mandatory tags; complete

\* A file holding version `ver` of picture `of`; `by` says whether the bytes
\* are the user's own or were rewritten by the application.  A file that is not
\* whole is torn when it mixes two versions: it was read while the user saved.
Content == [of : Pics, ver : 1..MaxVer, thumb : Thumbs,
            by : {"user", "app"}, whole : BOOLEAN, torn : BOOLEAN]

File == Content \cup {None}

ExifLibs == {"aee", "pixymeta", "libexif", "exiv2"}

\* The settings the services read, each at the moment it needs it.
Prefs == [skip : BOOLEAN,       \* skipPicsHavingThumbnail
          fix : BOOLEAN,        \* fixHavingThumbnailButMissingTags
          backup : BOOLEAN,     \* backupOriginalPic
          inPlace : BOOLEAN,    \* writeThumbnailedToOriginalFolder
          overwrite : BOOLEAN,  \* overwriteDestPic
          lib : ExifLibs,       \* exif_library
          level : {"warn", "error", "none"},  \* exiv2SkipOnLogLevel
          lskip : BOOLEAN]      \* libexifSkipOnError

ASSUME GalleryAssumption ==
  /\ TmpOf \in [Pics -> TmpNames]
  /\ MaxVer \in Nat \ {0}
  /\ ShotThumbs \subseteq Thumbs
  /\ PrefSpace \subseteq Prefs
  /\ Meddles \in BOOLEAN
  /\ None \notin Content \cup Pics

Places == {"src", "bak", "new"}

VARIABLES
  disk,   \* disk[place][p]: the file named p in the folder
  part,   \* part[place][p]: the file named p_tmp beside it
  cache,  \* cache[t]: the temporary output named t
  shot,
  owned,
  prefs

userVars == <<shot, owned, prefs>>
galleryVars == <<disk, part, cache, userVars>>

GalleryTypeOK ==
  /\ disk \in [Places -> [Pics -> File]]
  /\ part \in [Places -> [Pics -> File]]
  /\ cache \in [TmpNames -> File]
  /\ shot \in [Pics -> 0..MaxVer]
  /\ owned \in SUBSET Pics
  /\ prefs \in PrefSpace

Shot(p, v, t) == [of |-> p, ver |-> v, thumb |-> t, by |-> "user",
                  whole |-> TRUE, torn |-> FALSE]

\* The user starts with a folder of pictures and an application that never ran.
GalleryInit ==
  /\ owned \in SUBSET Pics
  /\ shot = [p \in Pics |-> IF p \in owned THEN 1 ELSE 0]
  /\ \E t \in ShotThumbs :
       disk = [d \in Places |-> [p \in Pics |->
                 IF d = "src" /\ p \in owned THEN Shot(p, 1, t) ELSE None]]
  /\ part = [d \in Places |-> [p \in Pics |-> None]]
  /\ cache = [t \in TmpNames |-> None]
  /\ prefs \in PrefSpace

-----------------------------------------------------------------------------
\* What the user and the system do.

\* The camera or an editor writes a new version of p into the picture folder.
UserSaves(p) ==
  /\ shot[p] < MaxVer
  /\ \E t \in ShotThumbs : disk' = [disk EXCEPT !["src"][p] = Shot(p, shot[p] + 1, t)]
  /\ shot' = [shot EXCEPT ![p] = @ + 1]
  /\ owned' = owned \cup {p}
  /\ UNCHANGED <<part, cache, prefs>>

UserDeletes(p) ==
  /\ disk["src"][p] # None
  /\ disk' = [disk EXCEPT !["src"][p] = None]
  /\ owned' = owned \ {p}
  /\ UNCHANGED <<part, cache, shot, prefs>>

\* In a file manager the `name_tmp` files look like any other.
UserRemovesPart(d, p) ==
  /\ part[d][p] # None
  /\ part' = [part EXCEPT ![d][p] = None]
  /\ UNCHANGED <<disk, cache, userVars>>

\* The system (or the user, in the settings of the phone) clears a cached file.
CacheCleared(t) ==
  /\ cache[t] # None
  /\ cache' = [cache EXCEPT ![t] = None]
  /\ UNCHANGED <<disk, part, userVars>>

\* In the settings screen.
UserChoosesSettings ==
  /\ prefs' \in PrefSpace \ {prefs}
  /\ UNCHANGED <<disk, part, cache, shot, owned>>

\* What may happen to the files while the pictures `busy` are being worked on.
Outside(busy) ==
  \/ \E p \in Pics : /\ Meddles \/ p \notin busy
                     /\ \/ UserSaves(p) \/ UserDeletes(p)
                        \/ \E d \in Places : UserRemovesPart(d, p)
  \/ \E t \in TmpNames : CacheCleared(t)

-----------------------------------------------------------------------------
\* The operations of the storage provider the application calls.

Exists(d, p) == disk[d][p] # None

\* DocumentsContract.deleteDocument: throws when there is no such file.
DeleteDocument(d, p) ==
  /\ Exists(d, p)
  /\ disk' = [disk EXCEPT ![d][p] = None]

\* DocumentsContract.moveDocument: a rename within the volume, refused when the
\* source is gone or the target name is taken.
MoveDocument(p, from, to) ==
  /\ Exists(from, p)
  /\ ~Exists(to, p)
  /\ disk' = [disk EXCEPT ![to][p] = disk[from][p], ![from][p] = None]

\* DocumentsContract.renameDocument of p_tmp to p: when the name is taken the
\* provider picks another one ("p (1)"), which leaves the folder of names Pics.
RenamePart(d, p) ==
  /\ part[d][p] # None
  /\ disk' = IF Exists(d, p) THEN disk ELSE [disk EXCEPT ![d][p] = part[d][p]]
  /\ part' = [part EXCEPT ![d][p] = None]

-----------------------------------------------------------------------------
\* Is the file the user's last version of p, complete?  Does the folder hold it?
Good(f, p) == f.of = p /\ f.ver = shot[p] /\ f.whole
Holds(d, p) == Exists(d, p) /\ Good(disk[d][p], p)
=============================================================================
