-------------------------- MODULE AddThumbs_proofs --------------------------
(***************************************************************************)
(* Proofs about AddThumbs, for any pictures, versions, settings and        *)
(* sharing of temporary names.                                             *)
(***************************************************************************)
EXTENDS AddThumbs, TLAPS

\* A shot is the content of a file.
LEMMA ShotType ==
  ASSUME NEW p \in Pics, NEW v \in 1..MaxVer, NEW t \in ShotThumbs
  PROVE  Shot(p, v, t) \in Content
BY GalleryAssumption DEF Shot, Content, Thumbs

\* A writer leaves a file or nothing in the temporary output.
LEMMA WrittenType ==
  ASSUME NEW s \in File, NEW t \in File, NEW w \in Outcomes,
         s = None => w.left \in {"leftover", "gone"}
  PROVE  FileLeft(w.left, s, t) \in File
<1>1. ASSUME s # None
      PROVE  /\ WithThumbnail(s) \in Content /\ Cut(s) \in Content
             /\ [s EXCEPT !.by = "app"] \in Content
  <2>1. s \in Content
    BY <1>1 DEF File
  <2>2. QED BY <2>1 DEF WithThumbnail, Cut, Content, Thumbs
<1>2. w.left \in Left
  BY DEF Outcomes, FromBytes, ByLibexif, ByExiv2, Ends, Left
<1>3. CASE w.left \in {"leftover", "gone"}
  BY <1>3 DEF FileLeft, File
<1>4. CASE w.left \notin {"leftover", "gone"}
  BY <1>1, <1>2, <1>4 DEF FileLeft, Left, File
<1>5. QED BY <1>3, <1>4

\* A file torn by a save is a file.
LEMMA TornType == ASSUME NEW f \in Content PROVE Torn(f) \in Content
BY DEF Torn, Content

\* Putting a file (or nothing) under a name keeps the type of the folders.
LEMMA PutType ==
  ASSUME NEW g \in [Places -> [Pics -> File]], NEW d \in Places, NEW p \in Pics,
         NEW f \in File
  PROVE  [g EXCEPT ![d][p] = f] \in [Places -> [Pics -> File]]
<1>1. g[d] \in [Pics -> File]
  OBVIOUS
<1>2. [g[d] EXCEPT ![p] = f] \in [Pics -> File]
  BY <1>1
<1>3. QED BY <1>2

\* The first state has the types of TypeOK.
LEMMA InitType == ASSUME Init PROVE TypeOK
<1>1. None \notin Pics /\ None \in File
  BY GalleryAssumption DEF File
<1>2. shot \in [Pics -> 0..MaxVer]
  BY GalleryAssumption DEF Init, GalleryInit
<1>3. disk \in [Places -> [Pics -> File]]
  <2>1. PICK t \in ShotThumbs :
          disk = [d \in Places |-> [p \in Pics |->
                    IF d = "src" /\ p \in owned THEN Shot(p, 1, t) ELSE None]]
    BY DEF Init, GalleryInit
  <2>2. 1 \in 1..MaxVer
    BY GalleryAssumption
  <2>3. \A p \in Pics : Shot(p, 1, t) \in File
    BY <2>2, ShotType DEF File
  <2>4. QED BY <1>1, <2>1, <2>3
<1>4. QED
  BY <1>1, <1>2, <1>3 DEF Init, GalleryInit, TypeOK, GalleryTypeOK, Steps

\* What happens outside the application keeps the types of the files.
LEMMA OutsideType ==
  ASSUME GalleryTypeOK, NEW busy, Outside(busy)
  PROVE  GalleryTypeOK'
<1>1. None \in File
  BY DEF File
<1>2. ASSUME NEW p \in Pics, UserSaves(p)
      PROVE  GalleryTypeOK'
  <2>1. shot[p] + 1 \in 1..MaxVer
    BY <1>2, GalleryAssumption DEF GalleryTypeOK, UserSaves
  <2>2. PICK t \in ShotThumbs : disk' = [disk EXCEPT !["src"][p] = Shot(p, shot[p] + 1, t)]
    BY <1>2 DEF UserSaves
  <2>3. Shot(p, shot[p] + 1, t) \in File
    BY <2>1, ShotType DEF File
  <2>4. disk' \in [Places -> [Pics -> File]]
    BY <2>2, <2>3 DEF GalleryTypeOK, Places
  <2>5. shot' \in [Pics -> 0..MaxVer]
    BY <1>2, <2>1, GalleryAssumption DEF GalleryTypeOK, UserSaves
  <2>6. QED BY <1>2, <2>4, <2>5 DEF GalleryTypeOK, UserSaves
<1>3. ASSUME NEW p \in Pics, UserDeletes(p)
      PROVE  GalleryTypeOK'
  BY <1>1, <1>3 DEF GalleryTypeOK, UserDeletes, Places
<1>4. ASSUME NEW t \in TmpNames, CacheCleared(t)
      PROVE  GalleryTypeOK'
  BY <1>1, <1>4 DEF GalleryTypeOK, CacheCleared, userVars
<1>5. ASSUME NEW d \in Places, NEW p \in Pics, UserRemovesPart(d, p)
      PROVE  GalleryTypeOK'
  BY <1>1, <1>5 DEF GalleryTypeOK, UserRemovesPart, userVars
<1>6. QED BY <1>2, <1>3, <1>4, <1>5 DEF Outside

\* What a save does to what has been read.
LEMMA ReadTorn ==
  ASSUME ReadAlong
  PROVE  \/ read' = read
         \/ /\ pc = "writing" \/ (pc = "stream" /\ copying = "backup")
            /\ disk'["src"][doc] \notin {disk["src"][doc], None}
            /\ \/ read' = disk'["src"][doc]
               \/ read # None /\ read' = Torn(read)
BY DEF ReadAlong, ReadingSource

\* Every step keeps the types of TypeOK: one proof step per action.
LEMMA TypeNext == ASSUME TypeOK, [Next]_vars PROVE TypeOK'
<1> USE DEF TypeOK
<1>0. /\ None \in File /\ None \notin Pics /\ Content \subseteq File
      /\ "src" \in Places /\ "bak" \in Places /\ "new" \in Places
  BY GalleryAssumption DEF File, Places
<1>a. ASSUME doc \in Pics PROVE Tmp \in TmpNames
  BY <1>a, GalleryAssumption DEF Tmp
<1>b. ASSUME pc \notin {"idle", "next"} PROVE doc \in Pics /\ doc # None
  BY <1>b
<1>c. Target \in Places
  BY <1>0 DEF Target
<1>1. CASE StartRun
  BY <1>1, <1>0 DEF StartRun, docVars, galleryVars, userVars, GalleryTypeOK, Steps
<1>2. CASE Finish
  BY <1>2, <1>0 DEF Finish, EndRun, galleryVars, userVars, GalleryTypeOK, Steps
<1>3. CASE StoppedByUser
  BY <1>3, <1>0 DEF StoppedByUser, EndRun, galleryVars, userVars, GalleryTypeOK, Steps
<1>4. CASE TakeDoc
  BY <1>4, <1>0 DEF TakeDoc, galleryVars, userVars, GalleryTypeOK, Steps
<1>5. CASE Inspect
  BY <1>5, <1>0 DEF Inspect, GoTo, Continue, galleryVars, userVars, GalleryTypeOK, Steps
<1>6. CASE BuildThumbnail
  BY <1>6, <1>0 DEF BuildThumbnail, GoTo, Continue, galleryVars, userVars, GalleryTypeOK, Steps
<1>7. CASE WriteOutput
  <2>1. doc \in Pics /\ doc # None /\ Tmp \in TmpNames
    BY <1>7, <1>a, <1>b DEF WriteOutput
  <2>2. GalleryTypeOK'
    <3>1. PICK w \in Outcomes :
            /\ read = None => w.left \in {"leftover", "gone"}
            /\ cache' = [cache EXCEPT ![Tmp] = FileLeft(w.left, read, @)]
      BY <1>7 DEF WriteOutput
    <3>2. cache[Tmp] \in File
      BY <2>1 DEF GalleryTypeOK
    <3>3. FileLeft(w.left, read, cache[Tmp]) \in File
      BY <3>1, <3>2, WrittenType
    <3>4. QED BY <3>1, <3>3, <2>1, <1>7 DEF WriteOutput, userVars, GalleryTypeOK
  <2>3. GoTo("backup") \/ Continue
    BY <1>7 DEF WriteOutput
  <2>4. QED BY <2>1, <2>2, <2>3, <1>0 DEF GoTo, Continue, Steps
<1>8. CASE NoBackup
  BY <1>8, <1>0 DEF NoBackup, GoTo, galleryVars, userVars, GalleryTypeOK, Steps
<1>9. CASE MoveOriginal
  <2>1. doc \in Pics /\ doc # None
    BY <1>9, <1>b DEF MoveOriginal
  <2>2. GalleryTypeOK'
    <3>1. CASE UNCHANGED disk
      BY <3>1, <1>9 DEF MoveOriginal, userVars, GalleryTypeOK
    <3>2. CASE MoveDocument(doc, "src", "bak")
      <4>1. disk' = [[disk EXCEPT !["bak"][doc] = disk["src"][doc]] EXCEPT !["src"][doc] = None]
        BY <3>2 DEF MoveDocument
      <4>2. disk["src"][doc] \in File
        BY <2>1, <1>0 DEF GalleryTypeOK
      <4>3. [disk EXCEPT !["bak"][doc] = disk["src"][doc]] \in [Places -> [Pics -> File]]
        BY <4>2, <2>1, <1>0, PutType DEF GalleryTypeOK
      <4>4. disk' \in [Places -> [Pics -> File]]
        BY <4>1, <4>3, <2>1, <1>0, PutType
      <4>5. QED BY <4>4, <1>9 DEF MoveOriginal, userVars, GalleryTypeOK
    <3>3. QED BY <3>1, <3>2, <1>9 DEF MoveOriginal
  <2>3. GoTo("move") \/ Continue
    BY <1>9 DEF MoveOriginal
  <2>4. QED BY <2>1, <2>2, <2>3, <1>0 DEF GoTo, Continue, Steps
<1>10. CASE CopyOriginal
  BY <1>10, <1>0 DEF CopyOriginal, galleryVars, userVars, GalleryTypeOK, Steps
<1>11. CASE CheckTarget
  <2>1. doc \in Pics /\ doc # None /\ Tmp \in TmpNames
    BY <1>11, <1>a, <1>b DEF CheckTarget
  <2>2. GalleryTypeOK'
    BY <1>11, <2>1, <1>0 DEF CheckTarget, userVars, GalleryTypeOK
  <2>3. \/ GoTo("evict") \/ Continue
        \/ pc' = "open" /\ copying' = "deliver" /\ UNCHANGED <<todo, doc, dest, existed, read, stopProcessing>>
    BY <1>11 DEF CheckTarget
  <2>4. pc = "move"
    BY <1>11 DEF CheckTarget
  <2>5. QED BY <2>1, <2>2, <2>3, <2>4, <1>0 DEF GoTo, Continue, Steps
<1>12. CASE DeleteTarget
  <2>1. doc \in Pics /\ doc # None
    BY <1>12, <1>b DEF DeleteTarget
  <2>2. GalleryTypeOK'
    <3>1. dest \in Places /\ disk \in [Places -> [Pics -> File]]
      BY <1>0 DEF GalleryTypeOK
    <3>2. [disk EXCEPT ![dest][doc] = None] \in [Places -> [Pics -> File]]
      BY <3>1, <2>1, <1>0, PutType
    <3>3. disk' \in [Places -> [Pics -> File]]
      BY <1>12, <3>1, <3>2 DEF DeleteTarget, DeleteDocument
    <3>4. QED BY <1>12, <3>3 DEF DeleteTarget, userVars, GalleryTypeOK
  <2>3. \/ Continue
        \/ pc' = "open" /\ copying' = "deliver" /\ UNCHANGED <<todo, doc, dest, existed, read, stopProcessing>>
    BY <1>12 DEF DeleteTarget
  <2>4. pc = "evict"
    BY <1>12 DEF DeleteTarget
  <2>5. QED BY <2>1, <2>2, <2>3, <2>4, <1>0 DEF Continue, Steps
<1>13. CASE OpenTarget
  <2>1. doc \in Pics /\ doc # None
    BY <1>13, <1>b DEF OpenTarget
  <2>2. Source \in File
    BY <2>1, <1>a, <1>0 DEF Source, GalleryTypeOK
  <2>3. QED
    BY <2>1, <2>2, <1>13, <1>0
    DEF OpenTarget, Exists, galleryVars, userVars, GalleryTypeOK, Steps
<1>14. CASE Stream
  <2>1. doc \in Pics /\ doc # None /\ Tmp \in TmpNames
    BY <1>14, <1>a, <1>b DEF Stream
  <2>3. read \in Content /\ Cut(read) \in File
    BY <1>14 DEF Stream, Cut, Content, File
  <2>4. GalleryTypeOK'
    <3>1. part \in [Places -> [Pics -> File]]
      BY DEF GalleryTypeOK
    <3>2. ASSUME NEW f \in File
          PROVE  [part EXCEPT ![Target][doc] = f] \in [Places -> [Pics -> File]]
      BY <3>1, <2>1, <1>c, PutType
    <3>3. \/ UNCHANGED part
          \/ part' = [part EXCEPT ![Target][doc] = read]
          \/ part' = [part EXCEPT ![Target][doc] = Cut(read)]
      BY <1>14 DEF Stream
    <3>4. part' \in [Places -> [Pics -> File]]
      BY <3>1, <3>2, <3>3, <2>3
    <3>5. QED BY <1>14, <3>4 DEF Stream, userVars, GalleryTypeOK
  <2>5. GoTo(IF existed THEN "swap" ELSE "rename") \/ Continue
    BY <1>14 DEF Stream
  <2>6. QED BY <2>1, <2>4, <2>5, <1>0 DEF GoTo, Continue, Steps
<1>15. CASE Swap
  <2>1. doc \in Pics /\ doc # None
    BY <1>15, <1>b DEF Swap
  <2>2. GalleryTypeOK'
    <3>1. disk \in [Places -> [Pics -> File]]
      BY DEF GalleryTypeOK
    <3>2. [disk EXCEPT ![Target][doc] = None] \in [Places -> [Pics -> File]]
      BY <3>1, <2>1, <1>0, <1>c, PutType
    <3>3. disk' \in [Places -> [Pics -> File]]
      BY <1>15, <3>1, <3>2 DEF Swap, DeleteDocument
    <3>4. QED BY <1>15, <3>3 DEF Swap, userVars, GalleryTypeOK
  <2>3. GoTo("rename") \/ Continue
    BY <1>15 DEF Swap
  <2>4. QED BY <2>1, <2>2, <2>3, <1>0 DEF GoTo, Continue, Steps
<1>16. CASE Rename
  <2>1. doc \in Pics /\ doc # None
    BY <1>16, <1>b DEF Rename
  <2>2. GalleryTypeOK'
    <3>1. part[Target][doc] \in File
      BY <2>1, <1>c DEF GalleryTypeOK
    <3>a. disk \in [Places -> [Pics -> File]] /\ part \in [Places -> [Pics -> File]]
      BY DEF GalleryTypeOK
    <3>b. /\ [disk EXCEPT ![Target][doc] = part[Target][doc]] \in [Places -> [Pics -> File]]
          /\ [part EXCEPT ![Target][doc] = None] \in [Places -> [Pics -> File]]
      BY <3>1, <3>a, <2>1, <1>0, <1>c, PutType
    <3>2. disk' \in [Places -> [Pics -> File]] /\ part' \in [Places -> [Pics -> File]]
      BY <1>16, <3>a, <3>b DEF Rename, RenamePart
    <3>3. QED BY <1>16, <3>2 DEF Rename, userVars, GalleryTypeOK
  <2>3. GoTo("move") \/ GoTo("clean") \/ Continue
    BY <1>16 DEF Rename
  <2>4. QED BY <2>1, <2>2, <2>3, <1>0 DEF GoTo, Continue, Steps
<1>17. CASE CleanTmp
  <2>1. doc \in Pics /\ Tmp \in TmpNames
    BY <1>17, <1>a, <1>b DEF CleanTmp
  <2>2. QED BY <2>1, <1>17, <1>0 DEF CleanTmp, Continue, userVars, GalleryTypeOK, Steps
<1>18. CASE UserStops
  BY <1>18 DEF UserStops, docVars, galleryVars, userVars, GalleryTypeOK
<1>19. CASE Killed
  BY <1>19, <1>0 DEF Killed, EndRun, galleryVars, userVars, GalleryTypeOK, Steps
<1>20. CASE Meanwhile({doc})
  <2>1. GalleryTypeOK'
    BY <1>20, OutsideType DEF Meanwhile
  <2>2. pc \in {"writing", "stream"} => doc \in Pics
    BY <1>b
  <2>3. read # None => Torn(read) \in File /\ Torn(read) # None
    BY TornType, GalleryAssumption DEF File
  <2>4. /\ read' \in File
        /\ read' # None => pc \in {"writing", "stream"}
        /\ pc = "stream" => read' # None
    BY <1>20, <2>1, <2>2, <2>3, <1>0, ReadTorn DEF Meanwhile, GalleryTypeOK
  <2>5. QED BY <1>20, <2>1, <2>4 DEF Meanwhile
<1>23. CASE SettingsChanged
  BY <1>23 DEF SettingsChanged, UserChoosesSettings, addVars, GalleryTypeOK
<1>24. CASE Crash
  BY <1>24, <1>0 DEF Crash, EndRun, galleryVars, userVars, GalleryTypeOK, Steps
<1>25. CASE OpenSource
  <2>1. doc \in Pics /\ doc # None
    BY <1>25, <1>b DEF OpenSource
  <2>2. disk["src"][doc] \in File
    BY <2>1, <1>0 DEF GalleryTypeOK
  <2>3. QED BY <2>1, <2>2, <1>25 DEF OpenSource, galleryVars, userVars, GalleryTypeOK, Steps
<1>21. CASE UNCHANGED vars
  BY <1>21 DEF vars, addVars, galleryVars, userVars, GalleryTypeOK
<1>22. QED
  BY <1>1, <1>2, <1>3, <1>4, <1>5, <1>6, <1>7, <1>8, <1>9, <1>10, <1>11, <1>12, <1>13,
     <1>14, <1>15, <1>16, <1>17, <1>18, <1>19, <1>20, <1>21, <1>23, <1>24, <1>25
  DEF Next, Worker, Loop, Copy, Environment

\* The program's variables and the settings have their types.
THEOREM TypeCorrect == Spec => []TypeOK
<1>1. Init => TypeOK
  BY InitType
<1>2. TypeOK /\ [Next]_vars => TypeOK'
  BY TypeNext
<1>3. QED BY <1>1, <1>2, PTL DEF Spec


\* While the settings are in-place ones copyDocument only ever delivers.
InPlaceOnly == \A q \in PrefSpace : q.inPlace
NeverCopied == pc \in CopySteps => copying = "deliver"

\* No step of an in-place job starts a copy to the backup folder.
LEMMA NeverCopiedNext ==
  ASSUME InPlaceOnly, TypeOK, NeverCopied, [Next]_vars
  PROVE  NeverCopied'
<1> USE DEF NeverCopied, CopySteps
<1>1. prefs \in PrefSpace
  BY DEF TypeOK, GalleryTypeOK
<1>2. ASSUME GoTo("rename") \/ GoTo("swap"), pc \in CopySteps PROVE NeverCopied'
  BY <1>2 DEF GoTo
<1>3. CASE Stream
  BY <1>2, <1>3 DEF Stream, GoTo, Continue
<1>4. CASE Swap
  BY <1>2, <1>4 DEF Swap, GoTo, Continue
<1>5. CASE OpenTarget
  BY <1>5 DEF OpenTarget
<1>6. CASE CopyOriginal
  BY <1>1, <1>6 DEF CopyOriginal, InPlaceOnly
<1>7. CASE CheckTarget \/ DeleteTarget
  BY <1>7 DEF CheckTarget, DeleteTarget, GoTo, Continue
<1>8. CASE \/ StartRun \/ Finish \/ StoppedByUser \/ TakeDoc \/ Inspect \/ BuildThumbnail
           \/ Crash \/ OpenSource \/ WriteOutput \/ NoBackup \/ MoveOriginal \/ Rename
           \/ CleanTmp \/ UserStops \/ Killed \/ Meanwhile({doc}) \/ UNCHANGED addVars
  BY <1>8 DEF StartRun, Finish, StoppedByUser, TakeDoc, Inspect, BuildThumbnail, Crash,
     OpenSource, WriteOutput, NoBackup, MoveOriginal, Rename, CleanTmp, UserStops, Killed,
     Meanwhile, EndRun, GoTo, Continue, docVars, addVars
<1>9. QED
  BY <1>3, <1>4, <1>5, <1>6, <1>7, <1>8
  DEF Next, Worker, Loop, Copy, Environment, SettingsChanged, vars

\* In place, no step of the job, the user or the system changes a backup once
\* made: for every choice of the other settings and any meddling.
THEOREM BackupKept == ASSUME InPlaceOnly PROVE Spec => BackupImmutable
<1>1. Init => NeverCopied
  BY DEF Init, NeverCopied, CopySteps
<1>2. TypeOK /\ NeverCopied /\ [Next]_vars => NeverCopied'
  BY NeverCopiedNext
<1>3. TypeOK /\ NeverCopied /\ [Next]_vars
        => [\A p \in Pics : Exists("bak", p) => disk'["bak"][p] = disk["bak"][p]]_vars
  <2> SUFFICES ASSUME TypeOK, NeverCopied, [Next]_vars, NEW p \in Pics, Exists("bak", p)
               PROVE  disk'["bak"][p] = disk["bak"][p]
    OBVIOUS
  <2>1. /\ disk \in [Places -> [Pics -> File]]
        /\ dest # "bak"
    BY DEF TypeOK, GalleryTypeOK
  <2>2. ASSUME NEW d, NEW q, NEW f, disk' = [disk EXCEPT ![d][q] = f], d # "bak"
        PROVE  disk'["bak"][p] = disk["bak"][p]
    BY <2>1, <2>2 DEF Places
  <2>3. CASE UNCHANGED disk
    BY <2>3
  <2>4. CASE MoveOriginal
    <3>1. CASE MoveDocument(doc, "src", "bak")
      <4>1. doc # p
        BY <3>1 DEF MoveDocument, Exists
      <4>2. disk' = [[disk EXCEPT !["bak"][doc] = disk["src"][doc]] EXCEPT !["src"][doc] = None]
        BY <3>1 DEF MoveDocument
      <4>3. QED BY <2>1, <4>1, <4>2 DEF Places
    <3>2. QED BY <2>3, <2>4, <3>1 DEF MoveOriginal
  <2>5. CASE DeleteTarget
    BY <2>1, <2>2, <2>3, <2>5 DEF DeleteTarget, DeleteDocument
  <2>6. CASE Swap \/ Rename
    <3>1. Target # "bak"
      BY <2>1, <2>6 DEF Swap, Rename, Target, NeverCopied, CopySteps
    <3>2. QED BY <2>2, <2>3, <2>6, <3>1 DEF Swap, Rename, DeleteDocument, RenamePart
  <2>7. CASE Meanwhile({doc}) \/ SettingsChanged
    BY <2>2, <2>3, <2>7 DEF Meanwhile, Outside, UserSaves, UserDeletes, UserRemovesPart,
       CacheCleared, SettingsChanged, UserChoosesSettings
  <2>8. CASE \/ StartRun \/ Finish \/ StoppedByUser \/ TakeDoc \/ Inspect \/ BuildThumbnail
             \/ Crash \/ OpenSource
             \/ WriteOutput \/ NoBackup \/ CopyOriginal \/ CheckTarget \/ OpenTarget
             \/ Stream \/ CleanTmp \/ UserStops \/ Killed \/ UNCHANGED vars
    <3>1. UNCHANGED disk
      BY <2>8 DEF StartRun, Finish, StoppedByUser, TakeDoc, Inspect, BuildThumbnail,
         Crash, OpenSource, WriteOutput, NoBackup, CopyOriginal, CheckTarget, OpenTarget,
         Stream, CleanTmp, UserStops, Killed, EndRun, galleryVars, vars
    <3>2. QED BY <3>1
  <2>9. QED
    BY <2>4, <2>5, <2>6, <2>7, <2>8 DEF Next, Worker, Loop, Copy, Environment
<1>4. QED BY <1>1, <1>2, <1>3, TypeCorrect, PTL DEF Spec, BackupImmutable

-----------------------------------------------------------------------------
(***************************************************************************)
(* What is delivered under a picture's name: for any pictures and any      *)
(* sharing of temporary names, also when the user saves or deletes the     *)
(* very picture being processed.                                           *)
(***************************************************************************)

\* The default of libexifSkipOnError: an error of libexif is not ignored.
LibexifErrorsCount == \A q \in PrefSpace : q.lskip

\* Every file about to become visible shows the picture it is named after.
Shows(f, p) == f = None \/ f.of = p
OwnInv ==
  /\ \A d \in Places, p \in Pics : Shows(disk[d][p], p) /\ Shows(part[d][p], p)
  /\ pc \in {"backup", "move", "evict"} \cup CopySteps => Shows(cache[Tmp], doc)
  /\ pc \in {"writing", "stream"} => Shows(read, doc)

\* What a writer leaves, when the loop goes on with it, shows the picture read.
LEMMA WrittenOwn ==
  ASSUME LibexifErrorsCount, prefs \in PrefSpace, NEW s \in File, NEW t \in File,
         NEW p \in Pics, Shows(s, p), NEW w \in Outcomes, w.go,
         s = None => w.left \in {"leftover", "gone"}
  PROVE  Shows(FileLeft(w.left, s, t), p)
<1>1. w.left \in Left /\ w.left # "leftover"
  BY DEF LibexifErrorsCount, Outcomes, FromBytes, ByLibexif, ByExiv2, Ends, Left
<1>2. CASE s = None
  BY <1>1, <1>2 DEF FileLeft, Shows
<1>3. CASE s # None
  <2>1. s \in Content /\ s.of = p
    BY <1>3 DEF File, Shows
  <2>2. /\ WithThumbnail(s).of = p /\ Cut(s).of = p
        /\ [s EXCEPT !.by = "app"].of = p
    BY <2>1 DEF WithThumbnail, Cut, Content
  <2>3. QED BY <1>1, <2>1, <2>2 DEF FileLeft, Left, Shows
<1>4. QED BY <1>2, <1>3

\* Folders in which every file shows its own picture stay so when one is put
\* under its name.
LEMMA PutOwn ==
  ASSUME NEW g \in [Places -> [Pics -> File]], NEW d \in Places, NEW p \in Pics,
         NEW f, Shows(f, p), \A e \in Places, q \in Pics : Shows(g[e][q], q)
  PROVE  \A e \in Places, q \in Pics : Shows([g EXCEPT ![d][p] = f][e][q], q)
<1>1. \A e \in Places, q \in Pics :
        [g EXCEPT ![d][p] = f][e][q] = IF e = d /\ q = p THEN f ELSE g[e][q]
  OBVIOUS
<1>2. QED BY <1>1

LEMMA OwnInit == ASSUME Init PROVE OwnInv
<1>1. PICK t \in ShotThumbs :
        disk = [d \in Places |-> [p \in Pics |->
                  IF d = "src" /\ p \in owned THEN Shot(p, 1, t) ELSE None]]
  BY DEF Init, GalleryInit
<1>2. \A p \in Pics : Shot(p, 1, t).of = p
  BY DEF Shot
<1>3. \A d \in Places, p \in Pics : Shows(disk[d][p], p)
  BY <1>1, <1>2 DEF Shows
<1>4. QED BY <1>3 DEF Init, GalleryInit, OwnInv, Shows, CopySteps

LEMMA OwnNext ==
  ASSUME LibexifErrorsCount, TypeOK, OwnInv, [Next]_vars
  PROVE  OwnInv'
<1> USE DEF OwnInv, CopySteps, Tmp, Exists
<1>0. /\ prefs \in PrefSpace /\ None \notin Pics
      /\ dest \in Places /\ Target \in Places /\ {"src", "bak", "new"} \subseteq Places
      /\ disk \in [Places -> [Pics -> File]] /\ part \in [Places -> [Pics -> File]]
      /\ cache \in [TmpNames -> File]
      /\ (pc \in {"idle", "next"}) <=> (doc = None)
      /\ doc \in Pics \cup {None}
      /\ TmpOf \in [Pics -> TmpNames]
      /\ read \in File /\ (pc = "stream" => read # None)
      /\ \A p : Shows(None, p)
  BY GalleryAssumption DEF TypeOK, GalleryTypeOK, Target, Places, Shows
<1>1. CASE StartRun
  BY <1>1 DEF StartRun, galleryVars
<1>2. CASE Finish \/ StoppedByUser \/ Crash \/ Killed
  BY <1>2 DEF Finish, StoppedByUser, Crash, Killed, EndRun, galleryVars
<1>3. CASE TakeDoc
  BY <1>3 DEF TakeDoc, galleryVars
<1>18. CASE OpenSource
  BY <1>0, <1>18 DEF OpenSource, galleryVars
<1>4. CASE Inspect \/ BuildThumbnail
  BY <1>4 DEF Inspect, BuildThumbnail, GoTo, Continue, galleryVars
<1>5. CASE WriteOutput
  <2>1. doc \in Pics /\ Tmp \in TmpNames /\ UNCHANGED <<disk, part>>
    BY <1>0, <1>5 DEF WriteOutput
  <2>2. CASE Continue
    BY <2>1, <2>2 DEF Continue
  <2>3. ASSUME NEW w \in Outcomes, w.go, GoTo("backup"),
               read = None => w.left \in {"leftover", "gone"},
               cache' = [cache EXCEPT ![Tmp] = FileLeft(w.left, read, @)]
        PROVE  OwnInv'
    <3>1. cache[Tmp] \in File /\ Shows(read, doc)
      BY <1>0, <1>5, <2>1 DEF WriteOutput
    <3>2. Shows(FileLeft(w.left, read, cache[Tmp]), doc)
      BY <1>0, <2>1, <2>3, <3>1, WrittenOwn
    <3>3. Shows(cache'[Tmp], doc)
      BY <1>0, <2>1, <2>3, <3>2
    <3>4. QED BY <2>1, <2>3, <3>3 DEF GoTo
  <2>4. QED BY <1>5, <2>2, <2>3 DEF WriteOutput
<1>6. CASE NoBackup \/ CopyOriginal
  BY <1>6 DEF NoBackup, CopyOriginal, GoTo, galleryVars
<1>19. CASE OpenTarget
  <2>1. doc \in Pics /\ UNCHANGED <<disk, part, cache>>
    BY <1>0, <1>19 DEF OpenTarget, galleryVars
  <2>2. QED BY <1>0, <1>19, <2>1 DEF OpenTarget, Source
<1>7. CASE MoveOriginal
  <2>1. doc \in Pics /\ UNCHANGED <<part, cache>>
    BY <1>0, <1>7 DEF MoveOriginal
  <2>2. CASE Continue /\ UNCHANGED disk
    BY <2>1, <2>2 DEF Continue
  <2>3. CASE MoveDocument(doc, "src", "bak") /\ GoTo("move")
    <3>1. disk' = [[disk EXCEPT !["bak"][doc] = disk["src"][doc]] EXCEPT !["src"][doc] = None]
      BY <2>3 DEF MoveDocument
    <3>2. \A e \in Places, q \in Pics :
            disk'[e][q] = IF q = doc /\ e = "bak" THEN disk["src"][doc]
                          ELSE IF q = doc /\ e = "src" THEN None ELSE disk[e][q]
      BY <1>0, <2>1, <3>1 DEF Places
    <3>3. \A e \in Places, q \in Pics : Shows(disk'[e][q], q)
      BY <1>0, <2>1, <3>2
    <3>4. QED BY <1>7, <2>1, <2>3, <3>3 DEF MoveOriginal, GoTo
  <2>4. QED BY <1>7, <2>2, <2>3 DEF MoveOriginal
<1>8. CASE CheckTarget
  <2>1. UNCHANGED <<disk, part>>
    BY <1>8 DEF CheckTarget
  <2>2. CASE Continue
    BY <2>1, <2>2 DEF Continue
  <2>3. CASE UNCHANGED <<cache, doc>>
    BY <1>8, <2>1, <2>3 DEF CheckTarget, GoTo, Continue
  <2>4. QED BY <1>8, <2>2, <2>3 DEF CheckTarget, GoTo
<1>9. CASE DeleteTarget \/ Swap
  <2>1. doc \in Pics /\ UNCHANGED <<part, cache>>
    BY <1>0, <1>9 DEF DeleteTarget, Swap
  <2>2. CASE Continue /\ UNCHANGED disk
    BY <2>1, <2>2 DEF Continue
  <2>3. ASSUME NEW d \in Places, DeleteDocument(d, doc), UNCHANGED doc
        PROVE  OwnInv'
    <3>1. \A e \in Places, q \in Pics : Shows(disk'[e][q], q)
      BY <1>0, <2>1, <2>3, PutOwn DEF DeleteDocument
    <3>2. pc' \in {"open", "rename", "next"}
      BY <1>9 DEF DeleteTarget, Swap, GoTo, Continue
    <3>3. QED BY <1>9, <2>1, <2>3, <3>1, <3>2 DEF DeleteTarget, Swap
  <2>4. QED BY <1>0, <1>9, <2>2, <2>3 DEF DeleteTarget, Swap, GoTo
<1>10. CASE Stream
  <2>1. /\ doc \in Pics /\ UNCHANGED <<disk, cache>>
    BY <1>0, <1>10 DEF Stream
  <2>2. Shows(read, doc) /\ read \in Content
    BY <1>0, <1>10 DEF Stream, File
  <2>3. Shows(Cut(read), doc)
    BY <1>0, <1>10, <2>2 DEF Stream, Cut, Shows, Content
  <2>4. \/ UNCHANGED part
        \/ part' = [part EXCEPT ![Target][doc] = read]
        \/ part' = [part EXCEPT ![Target][doc] = Cut(read)]
    BY <1>10 DEF Stream
  <2>5. \A e \in Places, q \in Pics : Shows(part'[e][q], q)
    BY <1>0, <2>1, <2>2, <2>3, <2>4, PutOwn
  <2>6. pc' \in {"swap", "rename", "next"} /\ (UNCHANGED doc \/ pc' = "next")
    BY <1>10 DEF Stream, GoTo, Continue
  <2>7. QED BY <1>10, <2>1, <2>5, <2>6 DEF Stream
<1>11. CASE Rename
  <2>1. doc \in Pics /\ UNCHANGED cache
    BY <1>0, <1>11 DEF Rename
  <2>2. \A e \in Places, q \in Pics : Shows(disk'[e][q], q) /\ Shows(part'[e][q], q)
    <3>1. CASE UNCHANGED <<disk, part>>
      BY <3>1
    <3>2. CASE RenamePart(Target, doc)
      <4>1. Shows(part[Target][doc], doc)
        BY <1>0, <2>1
      <4>2. QED BY <1>0, <2>1, <3>2, <4>1, PutOwn DEF RenamePart
    <3>3. QED BY <1>11, <3>1, <3>2 DEF Rename
  <2>3. pc' \in {"move", "clean", "next"} /\ (UNCHANGED doc \/ pc' = "next")
    BY <1>11 DEF Rename, GoTo, Continue
  <2>4. QED BY <1>11, <2>1, <2>2, <2>3 DEF Rename
<1>12. CASE CleanTmp
  BY <1>12 DEF CleanTmp, Continue
<1>13. CASE UserStops
  BY <1>13 DEF UserStops, docVars, galleryVars
<1>14. CASE Meanwhile({doc})
  <2>1. UNCHANGED <<pc, doc>>
    BY <1>14 DEF Meanwhile
  <2>6. ASSUME \A e \in Places, q \in Pics : Shows(disk'[e][q], q)
        PROVE  (pc \in {"writing", "stream"} => Shows(read, doc))'
    <3>1. CASE pc \in {"writing", "stream"}
      <4>1. doc \in Pics /\ Shows(read, doc) /\ Shows(disk'["src"][doc], doc)
        BY <1>0, <2>6, <3>1
      <4>2. read # None => Shows(Torn(read), doc)
        BY <1>0, <4>1 DEF Torn, File, Content, Shows
      <4>3. QED BY <1>14, <2>1, <4>1, <4>2, ReadTorn DEF Meanwhile
    <3>2. QED BY <2>1, <3>1
  <2>2. ASSUME NEW p \in Pics, UserSaves(p)
        PROVE  OwnInv'
    <3>1. PICK t \in ShotThumbs : disk' = [disk EXCEPT !["src"][p] = Shot(p, shot[p] + 1, t)]
      BY <2>2 DEF UserSaves
    <3>2. Shows(Shot(p, shot[p] + 1, t), p)
      BY DEF Shows, Shot
    <3>3. \A e \in Places, q \in Pics : Shows(disk'[e][q], q)
      BY <1>0, <2>2, <3>1, <3>2, PutOwn
    <3>4. QED BY <2>1, <2>2, <2>6, <3>3 DEF UserSaves
  <2>3. ASSUME NEW p \in Pics, UserDeletes(p)
        PROVE  OwnInv'
    <3>1. \A e \in Places, q \in Pics : Shows(disk'[e][q], q)
      BY <1>0, <2>3, PutOwn DEF UserDeletes
    <3>2. QED BY <2>1, <2>3, <2>6, <3>1 DEF UserDeletes
  <2>4. ASSUME NEW t \in TmpNames, CacheCleared(t)
        PROVE  OwnInv'
    <3>1. \A u \in TmpNames : cache'[u] = cache[u] \/ cache'[u] = None
      BY <1>0, <2>4 DEF CacheCleared
    <3>2. UNCHANGED disk
      BY <2>4 DEF CacheCleared
    <3>3. QED BY <1>0, <2>1, <2>4, <2>6, <3>1, <3>2 DEF CacheCleared
  <2>7. ASSUME NEW d \in Places, NEW p \in Pics, UserRemovesPart(d, p)
        PROVE  OwnInv'
    <3>1. \A e \in Places, q \in Pics : Shows(part'[e][q], q)
      BY <1>0, <2>7, PutOwn DEF UserRemovesPart
    <3>2. UNCHANGED <<disk, cache>>
      BY <2>7 DEF UserRemovesPart
    <3>3. QED BY <2>1, <2>6, <3>1, <3>2
  <2>5. QED BY <1>14, <2>2, <2>3, <2>4, <2>7 DEF Meanwhile, Outside
<1>15. CASE SettingsChanged
  BY <1>15 DEF SettingsChanged, UserChoosesSettings, addVars
<1>16. CASE UNCHANGED vars
  BY <1>16 DEF vars, addVars, galleryVars
<1>17. QED
  BY <1>1, <1>2, <1>3, <1>4, <1>5, <1>6, <1>7, <1>8, <1>9, <1>10, <1>11, <1>12, <1>13,
     <1>14, <1>15, <1>16, <1>18, <1>19
  DEF Next, Worker, Loop, Copy, Environment

\* As long as libexif's errors are not ignored, no file is ever delivered under
\* the name of another picture, whichever temporary outputs earlier pictures
\* left and whatever the user does meanwhile.
THEOREM OwnDelivered == ASSUME LibexifErrorsCount PROVE Spec => []OwnPicture
<1>1. Init => OwnInv
  BY OwnInit
<1>2. TypeOK /\ OwnInv /\ [Next]_vars => OwnInv'
  BY OwnNext
<1>3. OwnInv => OwnPicture
  BY DEF OwnInv, OwnPicture, Exists, Shows
<1>4. QED BY <1>1, <1>2, <1>3, TypeCorrect, PTL DEF Spec

-----------------------------------------------------------------------------
\* The defaults of both native writers: no error is ignored.
ErrorsCount == \A q \in PrefSpace : q.lskip /\ q.level = "warn"

\* What is in the folders, or about to be delivered or renamed, is complete.
Complete(f) == f = None \/ ((f.whole \/ f.torn) /\ (f.by = "app" => f.thumb = "yes"))
CompleteInv ==
  /\ \A d \in Places, p \in Pics : Complete(disk[d][p])
  /\ pc \in {"backup", "move", "evict"} \cup CopySteps => Complete(cache[Tmp])
  /\ pc \in {"writing", "stream"} => Complete(read)
  /\ pc \in {"swap", "rename"} => Complete(part[Target][doc])

\* What a writer leaves, when the loop goes on with it, is complete.
LEMMA WrittenComplete ==
  ASSUME ErrorsCount, prefs \in PrefSpace, NEW s \in File, NEW t \in File,
         Complete(s), NEW w \in Outcomes, w.go,
         s = None => w.left \in {"leftover", "gone"}
  PROVE  Complete(FileLeft(w.left, s, t))
<1>1. w.left = "thumbnailed"
  BY DEF ErrorsCount, Outcomes, FromBytes, ByLibexif, ByExiv2, Ends
<1>2. s \in Content /\ (s.whole \/ s.torn)
  BY <1>1 DEF File, Complete
<1>3. QED BY <1>1, <1>2 DEF FileLeft, WithThumbnail, Complete, Content

\* Folders that hold complete files still do when one more is put there.
LEMMA PutComplete ==
  ASSUME NEW g \in [Places -> [Pics -> File]], NEW d \in Places, NEW p \in Pics,
         NEW f, Complete(f), \A e \in Places, q \in Pics : Complete(g[e][q])
  PROVE  \A e \in Places, q \in Pics : Complete([g EXCEPT ![d][p] = f][e][q])
<1>1. \A e \in Places, q \in Pics :
        [g EXCEPT ![d][p] = f][e][q] = IF e = d /\ q = p THEN f ELSE g[e][q]
  OBVIOUS
<1>2. QED BY <1>1

LEMMA CompleteInit == ASSUME Init PROVE CompleteInv
<1>1. PICK t \in ShotThumbs :
        disk = [d \in Places |-> [p \in Pics |->
                  IF d = "src" /\ p \in owned THEN Shot(p, 1, t) ELSE None]]
  BY DEF Init, GalleryInit
<1>2. \A p \in Pics : Complete(Shot(p, 1, t))
  BY DEF Shot, Complete
<1>3. \A d \in Places, p \in Pics : Complete(disk[d][p])
  BY <1>1, <1>2 DEF Complete
<1>4. QED BY <1>3 DEF Init, CompleteInv, CopySteps

LEMMA CompleteNext ==
  ASSUME ErrorsCount, TypeOK, CompleteInv, [Next]_vars
  PROVE  CompleteInv'
<1> USE DEF CompleteInv, CopySteps, Tmp, Exists
<1>0. /\ prefs \in PrefSpace /\ None \notin Pics
      /\ dest \in Places /\ Target \in Places /\ {"src", "bak", "new"} \subseteq Places
      /\ disk \in [Places -> [Pics -> File]] /\ part \in [Places -> [Pics -> File]]
      /\ cache \in [TmpNames -> File]
      /\ (pc \in {"idle", "next"}) <=> (doc = None)
      /\ doc \in Pics \cup {None}
      /\ TmpOf \in [Pics -> TmpNames]
      /\ read \in File /\ (pc = "stream" => read # None)
      /\ Complete(None)
  BY GalleryAssumption DEF TypeOK, GalleryTypeOK, Target, Places, Complete
<1>1. CASE StartRun
  BY <1>1 DEF StartRun, galleryVars
<1>2. CASE Finish \/ StoppedByUser \/ Crash \/ Killed
  BY <1>2 DEF Finish, StoppedByUser, Crash, Killed, EndRun, galleryVars
<1>3. CASE TakeDoc
  BY <1>3 DEF TakeDoc, galleryVars
<1>18. CASE OpenSource
  BY <1>0, <1>18 DEF OpenSource, galleryVars
<1>4. CASE Inspect \/ BuildThumbnail
  BY <1>4 DEF Inspect, BuildThumbnail, GoTo, Continue, galleryVars
<1>5. CASE WriteOutput
  <2>1. doc \in Pics /\ Tmp \in TmpNames /\ UNCHANGED <<disk, part>>
    BY <1>0, <1>5 DEF WriteOutput
  <2>2. CASE Continue
    BY <2>1, <2>2 DEF Continue
  <2>3. ASSUME NEW w \in Outcomes, w.go, GoTo("backup"),
               read = None => w.left \in {"leftover", "gone"},
               cache' = [cache EXCEPT ![Tmp] = FileLeft(w.left, read, @)]
        PROVE  CompleteInv'
    <3>1. cache[Tmp] \in File /\ Complete(read)
      BY <1>0, <1>5, <2>1 DEF WriteOutput
    <3>2. Complete(FileLeft(w.left, read, cache[Tmp]))
      BY <1>0, <2>3, <3>1, WrittenComplete
    <3>3. Complete(cache'[Tmp])
      BY <1>0, <2>1, <2>3, <3>2
    <3>4. QED BY <2>1, <2>3, <3>3 DEF GoTo
  <2>4. QED BY <1>5, <2>2, <2>3 DEF WriteOutput
<1>6. CASE NoBackup \/ CopyOriginal
  BY <1>6 DEF NoBackup, CopyOriginal, GoTo, galleryVars
<1>19. CASE OpenTarget
  <2>1. doc \in Pics /\ UNCHANGED <<disk, part, cache>>
    BY <1>0, <1>19 DEF OpenTarget, galleryVars
  <2>2. QED BY <1>0, <1>19, <2>1 DEF OpenTarget, Source
<1>7. CASE MoveOriginal
  <2>1. doc \in Pics /\ UNCHANGED <<part, cache>>
    BY <1>0, <1>7 DEF MoveOriginal
  <2>2. CASE Continue /\ UNCHANGED disk
    BY <2>1, <2>2 DEF Continue
  <2>3. CASE MoveDocument(doc, "src", "bak") /\ GoTo("move")
    <3>1. disk' = [[disk EXCEPT !["bak"][doc] = disk["src"][doc]] EXCEPT !["src"][doc] = None]
      BY <2>3 DEF MoveDocument
    <3>2. \A e \in Places, q \in Pics :
            disk'[e][q] = IF q = doc /\ e = "bak" THEN disk["src"][doc]
                          ELSE IF q = doc /\ e = "src" THEN None ELSE disk[e][q]
      BY <1>0, <2>1, <3>1 DEF Places
    <3>3. \A e \in Places, q \in Pics : Complete(disk'[e][q])
      BY <1>0, <2>1, <3>2
    <3>4. QED BY <1>7, <2>1, <2>3, <3>3 DEF MoveOriginal, GoTo
  <2>4. QED BY <1>7, <2>2, <2>3 DEF MoveOriginal
<1>8. CASE CheckTarget
  <2>1. UNCHANGED <<disk, part>>
    BY <1>8 DEF CheckTarget
  <2>2. CASE Continue
    BY <2>1, <2>2 DEF Continue
  <2>3. CASE UNCHANGED <<cache, doc>>
    BY <1>8, <2>1, <2>3 DEF CheckTarget, GoTo, Continue
  <2>4. QED BY <1>8, <2>2, <2>3 DEF CheckTarget, GoTo
<1>9. CASE DeleteTarget \/ Swap
  <2>1. doc \in Pics /\ UNCHANGED <<part, cache>>
    BY <1>0, <1>9 DEF DeleteTarget, Swap
  <2>2. CASE Continue /\ UNCHANGED disk
    BY <2>1, <2>2 DEF Continue
  <2>3. ASSUME NEW d \in Places, DeleteDocument(d, doc), ~Continue
        PROVE  CompleteInv'
    <3>1. \A e \in Places, q \in Pics : Complete(disk'[e][q])
      BY <1>0, <2>1, <2>3, PutComplete DEF DeleteDocument
    <3>2. CASE DeleteTarget
      BY <2>1, <2>3, <3>1, <3>2 DEF DeleteTarget
    <3>3. CASE Swap
      <4>1. GoTo("rename")
        BY <2>3, <3>3 DEF Swap
      <4>2. Target' = Target /\ doc' = doc
        BY <4>1 DEF GoTo, Target
      <4>3. QED BY <2>1, <3>1, <3>3, <4>1, <4>2 DEF Swap, GoTo
    <3>4. QED BY <1>9, <3>2, <3>3
  <2>4. QED BY <1>0, <1>9, <2>2, <2>3 DEF DeleteTarget, Swap, GoTo, Continue
<1>10. CASE Stream
  <2>1. /\ doc \in Pics /\ UNCHANGED <<disk, cache>>
    BY <1>0, <1>10 DEF Stream
  <2>2. CASE Continue
    BY <2>1, <2>2 DEF Continue
  <2>3. CASE /\ part' = [part EXCEPT ![Target][doc] = read]
             /\ GoTo(IF existed THEN "swap" ELSE "rename")
    <3>1. Complete(read)
      BY <1>10 DEF Stream
    <3>2. part'[Target][doc] = read
      BY <1>0, <2>1, <2>3
    <3>3. Target' = Target /\ doc' = doc
      BY <2>3 DEF GoTo, Target
    <3>4. QED BY <1>10, <2>1, <2>3, <3>1, <3>2, <3>3 DEF Stream, GoTo
  <2>4. QED BY <1>10, <2>2, <2>3 DEF Stream
<1>11. CASE Rename
  <2>1. doc \in Pics /\ UNCHANGED cache
    BY <1>0, <1>11 DEF Rename
  <2>2. \A e \in Places, q \in Pics : Complete(disk'[e][q])
    <3>1. CASE UNCHANGED <<disk, part>>
      BY <3>1
    <3>2. CASE RenamePart(Target, doc)
      <4>1. Complete(part[Target][doc])
        BY <1>11 DEF Rename
      <4>2. QED BY <1>0, <2>1, <3>2, <4>1, PutComplete DEF RenamePart
    <3>3. QED BY <1>11, <3>1, <3>2 DEF Rename
  <2>3. pc' \in {"move", "clean", "next"} /\ (UNCHANGED doc \/ pc' = "next")
    BY <1>11 DEF Rename, GoTo, Continue
  <2>4. QED BY <1>11, <2>1, <2>2, <2>3 DEF Rename
<1>12. CASE CleanTmp
  BY <1>12 DEF CleanTmp, Continue
<1>13. CASE UserStops
  BY <1>13 DEF UserStops, docVars, galleryVars, Target
<1>14. CASE Meanwhile({doc})
  <2>1. UNCHANGED <<pc, doc, Target>>
    BY <1>14 DEF Meanwhile, Target
  <2>6. ASSUME \A e \in Places, q \in Pics : Complete(disk'[e][q])
        PROVE  (pc \in {"writing", "stream"} => Complete(read))'
    <3>1. CASE pc \in {"writing", "stream"}
      <4>1. doc \in Pics /\ Complete(read) /\ Complete(disk'["src"][doc])
        BY <1>0, <2>6, <3>1
      <4>2. read # None => Complete(Torn(read))
        BY <1>0, <4>1 DEF Torn, File, Content, Complete
      <4>3. QED BY <1>14, <2>1, <4>1, <4>2, ReadTorn DEF Meanwhile
    <3>2. QED BY <2>1, <3>1
  <2>2. ASSUME NEW p \in Pics, UserSaves(p)
        PROVE  CompleteInv'
    <3>1. PICK t \in ShotThumbs : disk' = [disk EXCEPT !["src"][p] = Shot(p, shot[p] + 1, t)]
      BY <2>2 DEF UserSaves
    <3>2. Complete(Shot(p, shot[p] + 1, t))
      BY DEF Complete, Shot
    <3>3. \A e \in Places, q \in Pics : Complete(disk'[e][q])
      BY <1>0, <2>2, <3>1, <3>2, PutComplete
    <3>4. QED BY <2>1, <2>2, <2>6, <3>3 DEF UserSaves
  <2>3. ASSUME NEW p \in Pics, UserDeletes(p)
        PROVE  CompleteInv'
    <3>1. \A e \in Places, q \in Pics : Complete(disk'[e][q])
      BY <1>0, <2>3, PutComplete DEF UserDeletes
    <3>2. QED BY <2>1, <2>3, <2>6, <3>1 DEF UserDeletes
  <2>4. ASSUME NEW t \in TmpNames, CacheCleared(t)
        PROVE  CompleteInv'
    <3>1. \A u \in TmpNames : cache'[u] = cache[u] \/ cache'[u] = None
      BY <1>0, <2>4 DEF CacheCleared
    <3>2. UNCHANGED <<disk, part>>
      BY <2>4 DEF CacheCleared
    <3>3. QED BY <1>0, <2>1, <2>6, <3>1, <3>2
  <2>7. ASSUME NEW d \in Places, NEW p \in Pics, UserRemovesPart(d, p)
        PROVE  CompleteInv'
    <3>1. UNCHANGED <<disk, cache>>
      BY <2>7 DEF UserRemovesPart
    <3>2. CASE pc \in {"swap", "rename"}
      <4>1. doc \in Pics /\ Complete(part[Target][doc])
        BY <1>0, <3>2
      <4>2. part'[Target][doc] \in {part[Target][doc], None}
        BY <1>0, <2>7, <4>1 DEF UserRemovesPart
      <4>3. QED BY <1>0, <2>1, <2>6, <3>1, <4>1, <4>2
    <3>3. CASE pc \notin {"swap", "rename"}
      BY <2>1, <2>6, <3>1, <3>3
    <3>4. QED BY <3>2, <3>3
  <2>5. QED BY <1>14, <2>2, <2>3, <2>4, <2>7 DEF Meanwhile, Outside
<1>15. CASE SettingsChanged
  BY <1>15 DEF SettingsChanged, UserChoosesSettings, addVars, Target
<1>16. CASE UNCHANGED vars
  BY <1>16 DEF vars, addVars, galleryVars, Target
<1>17. QED
  BY <1>1, <1>2, <1>3, <1>4, <1>5, <1>6, <1>7, <1>8, <1>9, <1>10, <1>11, <1>12, <1>13,
     <1>14, <1>15, <1>16, <1>18, <1>19
  DEF Next, Worker, Loop, Copy, Environment

\* With the default treatment of the writers' errors no folder ever shows a
\* half-written picture, nor one written without its thumbnail, for every other
\* setting; but for a picture the user saves just while it is being read, whose
\* copy may mix both versions.
THEOREM CompleteDelivered == ASSUME ErrorsCount PROVE Spec => []OutputComplete
<1>1. Init => CompleteInv
  BY CompleteInit
<1>2. TypeOK /\ CompleteInv /\ [Next]_vars => CompleteInv'
  BY CompleteNext
<1>3. CompleteInv => OutputComplete
  BY DEF CompleteInv, OutputComplete, Exists, Complete
<1>4. QED BY <1>1, <1>2, <1>3, TypeCorrect, PTL DEF Spec

-----------------------------------------------------------------------------
\* The default of skipPicsHavingThumbnail.
Skips == \A q \in PrefSpace : q.skip

\* Once inspected, the source picture, where it is, lacks a complete thumbnail
\* until the job is done with it.  What is in the picture folder or in the job's
\* hands the user owns.
Pending == {"thumbnail", "write", "writing", "backup", "move", "evict"} \cup CopySteps
RedoInv ==
  /\ \A p \in Pics : Exists("src", p) => p \in owned
  /\ doc # None => doc \in owned
  /\ pc \in Pending /\ Exists("src", doc) => disk["src"][doc].thumb # "yes"

LEMMA RedoInit == ASSUME Init PROVE RedoInv
<1>1. \A p \in Pics \ owned : disk["src"][p] = None
  BY DEF Init, GalleryInit, Places
<1>2. QED BY <1>1 DEF Init, RedoInv, Exists, Pending, CopySteps

\* One step: RedoInv is kept, and a source picture with a complete thumbnail is
\* changed by its user only.
LEMMA RedoNext ==
  ASSUME Skips, ~Meddles, TypeOK, RedoInv, [Next]_vars
  PROVE  /\ RedoInv'
         /\ UNCHANGED <<shot, owned>> =>
              \A p \in Pics : Exists("src", p) /\ disk["src"][p].thumb = "yes"
                                 => disk'["src"][p] = disk["src"][p]
<1> DEFINE Untouched ==
      UNCHANGED <<shot, owned>> =>
        \A p \in Pics : Exists("src", p) /\ disk["src"][p].thumb = "yes"
                           => disk'["src"][p] = disk["src"][p]
<1> USE DEF RedoInv, Pending, CopySteps, Exists
<1>0. /\ prefs \in PrefSpace /\ prefs.skip /\ owned \subseteq Pics
      /\ None \notin Pics /\ dest \in {"src", "new"} /\ {"src", "bak", "new"} = Places
      /\ disk \in [Places -> [Pics -> File]]
      /\ (pc \in {"idle", "next"}) <=> (doc = None)
      /\ doc \in Pics \cup {None} /\ Target \in Places
  BY GalleryAssumption DEF TypeOK, GalleryTypeOK, Places, Skips, Target
<1>1. ASSUME UNCHANGED <<disk, owned>>,
             doc' = None \/ UNCHANGED doc,
             pc' \notin Pending \/ (pc \in Pending /\ UNCHANGED doc)
      PROVE  RedoInv' /\ Untouched
  BY <1>1
<1>2. CASE StartRun \/ Finish \/ StoppedByUser \/ Crash \/ Killed
  BY <1>1, <1>2 DEF StartRun, Finish, StoppedByUser, Crash, Killed, EndRun, docVars,
     galleryVars, userVars
<1>3. CASE TakeDoc
  <2>1. UNCHANGED <<disk, shot, owned>>
    BY <1>3 DEF TakeDoc, galleryVars, userVars
  <2>2. PICK p \in todo : Exists("src", p) /\ pc' = "inspect" /\ doc' = p
    BY <1>3 DEF TakeDoc
  <2>3. p \in Pics
    BY <2>2 DEF TypeOK
  <2>4. QED BY <1>0, <2>1, <2>2, <2>3
<1>4. CASE Inspect
  <2>1. CASE Continue
    BY <1>1, <1>4, <2>1 DEF Inspect, Continue, galleryVars, userVars
  <2>2. CASE Exists("src", doc) /\ ~HasWhatItNeeds(disk["src"][doc]) /\ GoTo("thumbnail")
    <3>1. disk["src"][doc].thumb # "yes"
      BY <1>0, <2>2 DEF HasWhatItNeeds
    <3>2. QED BY <1>4, <2>2, <3>1 DEF Inspect, GoTo, galleryVars, userVars
  <2>3. QED BY <1>4, <2>1, <2>2 DEF Inspect
<1>5. CASE \/ BuildThumbnail \/ OpenSource \/ WriteOutput \/ CleanTmp \/ NoBackup
           \/ CopyOriginal
  BY <1>1, <1>5 DEF BuildThumbnail, OpenSource, WriteOutput, CleanTmp, NoBackup, CopyOriginal, GoTo,
     Continue, galleryVars, userVars
<1>6. CASE CheckTarget \/ OpenTarget \/ Stream
  BY <1>1, <1>6 DEF CheckTarget, OpenTarget, Stream, GoTo, Continue, galleryVars, userVars
<1>7. ASSUME doc \in Pics, pc \in Pending, UNCHANGED <<shot, owned>>,
             \A q \in Pics : q # doc => disk'["src"][q] = disk["src"][q],
             \/ disk'["src"][doc] \in {None, disk["src"][doc]}
             \/ pc' \notin Pending,
             doc' = None \/ UNCHANGED doc,
             pc' \in Pending => UNCHANGED doc
      PROVE  RedoInv' /\ Untouched
  BY <1>0, <1>7
<1>8. CASE MoveOriginal
  <2>1. doc \in Pics /\ pc \in Pending /\ UNCHANGED <<shot, owned>>
    BY <1>0, <1>8 DEF MoveOriginal, userVars
  <2>2. CASE Continue /\ UNCHANGED disk
    BY <1>1, <2>1, <2>2 DEF Continue
  <2>3. CASE MoveDocument(doc, "src", "bak") /\ GoTo("move")
    <3>1. disk' = [[disk EXCEPT !["bak"][doc] = disk["src"][doc]] EXCEPT !["src"][doc] = None]
      BY <2>3 DEF MoveDocument
    <3>2. \A q \in Pics : disk'["src"][q] = IF q = doc THEN None ELSE disk["src"][q]
      BY <1>0, <2>1, <3>1 DEF Places
    <3>3. QED BY <1>7, <2>1, <2>3, <3>2 DEF GoTo
  <2>4. QED BY <1>8, <2>2, <2>3 DEF MoveOriginal
<1>9. CASE DeleteTarget \/ Swap
  <2>1. doc \in Pics /\ pc \in Pending /\ UNCHANGED <<shot, owned>>
    BY <1>0, <1>9 DEF DeleteTarget, Swap, userVars
  <2>2. \A q \in Pics : disk'["src"][q] \in IF q = doc THEN {None, disk["src"][q]}
                                            ELSE {disk["src"][q]}
    BY <1>0, <1>9, <2>1 DEF DeleteTarget, Swap, DeleteDocument, Places
  <2>3. doc' = None \/ UNCHANGED doc
    BY <1>9 DEF DeleteTarget, Swap, GoTo, Continue
  <2>4. pc' \in Pending => UNCHANGED doc
    BY <1>9 DEF DeleteTarget, Swap, GoTo, Continue
  <2>5. QED BY <1>7, <2>1, <2>2, <2>3, <2>4
<1>10. CASE Rename
  <2>1. doc \in Pics /\ pc \in Pending /\ UNCHANGED <<shot, owned>>
    BY <1>0, <1>10 DEF Rename, userVars
  <2>2. \A q \in Pics : q # doc => disk'["src"][q] = disk["src"][q]
    BY <1>0, <1>10, <2>1 DEF Rename, RenamePart, Places
  <2>3. doc' = None \/ UNCHANGED doc
    BY <1>10 DEF Rename, GoTo, Continue
  <2>4. pc' \in Pending => UNCHANGED doc /\ (UNCHANGED disk \/ copying = "backup")
    BY <1>10 DEF Rename, GoTo, Continue
  <2>5. copying = "backup" => disk'["src"][doc] = disk["src"][doc]
    BY <1>0, <1>10, <2>1 DEF Rename, RenamePart, Places, Target
  <2>6. QED BY <1>7, <2>1, <2>2, <2>3, <2>4, <2>5
<1>11. CASE UserStops
  BY <1>1, <1>11 DEF UserStops, docVars, galleryVars, userVars
<1>12. CASE Meanwhile({doc})
  <2>1. UNCHANGED <<pc, doc>>
    BY <1>12 DEF Meanwhile
  <2>2. ASSUME NEW p \in Pics, p # doc, UserSaves(p)
        PROVE  RedoInv' /\ Untouched
    <3>1. /\ \A q \in Pics : q # p => disk'["src"][q] = disk["src"][q]
          /\ owned' = owned \cup {p}
          /\ shot'[p] # shot[p]
      BY <1>0, <2>2 DEF UserSaves, TypeOK, GalleryTypeOK, Places
    <3>2. QED BY <1>0, <2>1, <2>2, <3>1
  <2>3. ASSUME NEW p \in Pics, p # doc, UserDeletes(p)
        PROVE  RedoInv' /\ Untouched
    <3>1. /\ \A q \in Pics : disk'["src"][q] = IF q = p THEN None ELSE disk["src"][q]
          /\ owned' = owned \ {p} /\ p \in owned
      BY <1>0, <2>3 DEF UserDeletes, Places
    <3>2. QED BY <1>0, <2>1, <2>3, <3>1
  <2>4. ASSUME NEW t \in TmpNames, CacheCleared(t)
        PROVE  RedoInv' /\ Untouched
    BY <2>1, <2>4 DEF CacheCleared, userVars
  <2>5. ASSUME NEW d \in Places, NEW p \in Pics, UserRemovesPart(d, p)
        PROVE  RedoInv' /\ Untouched
    BY <2>1, <2>5 DEF UserRemovesPart, userVars
  <2>6. QED BY <1>12, <2>2, <2>3, <2>4, <2>5 DEF Meanwhile, Outside
<1>13. CASE SettingsChanged
  BY <1>13 DEF SettingsChanged, UserChoosesSettings, addVars
<1>14. CASE UNCHANGED vars
  BY <1>14 DEF vars, addVars, galleryVars, userVars
<1>15. QED
  BY <1>2, <1>3, <1>4, <1>5, <1>6, <1>8, <1>9, <1>10, <1>11, <1>12, <1>13, <1>14
  DEF Next, Worker, Loop, Copy, Environment

\* With "skip pictures having a thumbnail" on, the application never touches a
\* source picture that has a complete one, even a picture that got it between
\* two steps of an earlier job, in either mode.
THEOREM NothingRedone == ASSUME Skips, ~Meddles PROVE Spec => NothingToRedo
<1>1. Init => RedoInv
  BY RedoInit
<1>2. TypeOK /\ RedoInv /\ [Next]_vars => RedoInv'
  BY RedoNext
<1>3. TypeOK /\ RedoInv /\ [Next]_vars =>
        [UNCHANGED <<shot, owned>> =>
           \A p \in Pics : Exists("src", p) /\ disk["src"][p].thumb = "yes"
                              => disk'["src"][p] = disk["src"][p]]_vars
  BY RedoNext
<1>4. QED BY <1>1, <1>2, <1>3, TypeCorrect, PTL DEF Spec, NothingToRedo
=============================================================================
