---------------------------- MODULE NoLoss_proofs ----------------------------
(***************************************************************************)
(* No version the user saved is lost: KeepInv is inductive as long as the  *)
(* settings are safe and the user leaves the picture being processed alone.*)
(***************************************************************************)
EXTENDS AddThumbs_proofs

\* What a folder holds after one file was put under a name.
LEMMA PutValue ==
  ASSUME NEW g \in [Places -> [Pics -> File]], NEW d \in Places, NEW p \in Pics, NEW f
  PROVE  \A e \in Places, q \in Pics :
           [g EXCEPT ![d][p] = f][e][q] = IF e = d /\ q = p THEN f ELSE g[e][q]
OBVIOUS

\* A writer whose errors are not ignored goes on only with a complete output.
LEMMA WrittenThumbnailed ==
  ASSUME SafeSettings, prefs \in PrefSpace, NEW w \in Outcomes, w.go
  PROVE  w.left = "thumbnailed"
<1>1. prefs.lskip /\ prefs.level = "warn"
  BY DEF SafeSettings
<1>2. QED BY <1>1 DEF Outcomes, FromBytes, ByLibexif, ByExiv2, Ends

\* What a writer makes of a good picture is good.
LEMMA WrittenGood ==
  ASSUME SafeSettings, prefs \in PrefSpace, NEW s \in Content, NEW t \in File,
         NEW p \in Pics, Good(s, p), NEW w \in Outcomes, w.go
  PROVE  Good(FileLeft(w.left, s, t), p)
<1>1. FileLeft(w.left, s, t) = WithThumbnail(s)
  BY WrittenThumbnailed DEF FileLeft
<1>2. QED BY <1>1 DEF Good, WithThumbnail, Content

\* A user who leaves the picture at hand alone does not disturb its being read.
LEMMA ReadUndisturbed ==
  ASSUME ~Meddles, TypeOK, NEW busy, doc \in busy, Outside(busy), ReadAlong
  PROVE  read' = read
<1>1. ReadingSource => doc \in Pics
  BY DEF ReadingSource, TypeOK
<1>2. doc \in Pics => disk'["src"][doc] \in {disk["src"][doc], None}
  <2>1. SUFFICES ASSUME doc \in Pics PROVE disk'["src"][doc] = disk["src"][doc]
    OBVIOUS
  <2>2. disk \in [Places -> [Pics -> File]] /\ "src" \in Places
    BY DEF TypeOK, GalleryTypeOK, Places
  <2>3. ASSUME NEW p \in Pics, p # doc, NEW f, disk' = [disk EXCEPT !["src"][p] = f]
        PROVE  disk'["src"][doc] = disk["src"][doc]
    BY <2>1, <2>2, <2>3
  <2>4. QED
    BY <2>3 DEF Outside, UserSaves, UserDeletes, UserRemovesPart, CacheCleared
<1>3. QED BY <1>1, <1>2 DEF ReadAlong

\* The first state satisfies the inductive invariant: every owned picture is in
\* the picture folder.
LEMMA KeepInit == ASSUME Init PROVE KeepInv
<1>1. PICK t \in ShotThumbs :
        disk = [d \in Places |-> [p \in Pics |->
                  IF d = "src" /\ p \in owned THEN Shot(p, 1, t) ELSE None]]
  BY DEF Init, GalleryInit
<1>2. ASSUME NEW p \in Pics, Exists("src", p)
      PROVE  p \in owned /\ Good(disk["src"][p], p)
  <2>1. disk["src"][p] = IF p \in owned THEN Shot(p, 1, t) ELSE None
    BY <1>1 DEF Places
  <2>2. QED BY <1>2, <2>1 DEF Exists, Init, GalleryInit, Good, Shot
<1>3. ASSUME NEW p \in owned
      PROVE  Exists("src", p)
  <2>1. p \in Pics
    BY DEF Init, GalleryInit
  <2>2. disk["src"][p] = Shot(p, 1, t)
    BY <1>1, <2>1 DEF Places
  <2>3. Shot(p, 1, t) \in Content
    BY <2>1, ShotType, GalleryAssumption
  <2>4. QED BY <2>2, <2>3, GalleryAssumption DEF Exists
<1>4. owned \subseteq Pics /\ pc = "idle" /\ doc = None
  BY DEF Init, GalleryInit
<1>5. NoLoss
  BY <1>2, <1>3, <1>4 DEF NoLoss, Holds, Places
<1>6. QED
  BY <1>2, <1>3, <1>4, <1>5 DEF KeepInv, SourceGood, SourceThere, OutputGood,
     TargetKnown, EvictSafe, OutputOnly, CopySteps

\* Every step of the job, and of the world around it, keeps KeepInv.
LEMMA KeepNext ==
  ASSUME SafeSettings, ~Meddles, TypeOK, KeepInv, [Next]_vars
  PROVE  KeepInv'
<1> USE DEF KeepInv, NoLoss, SourceGood, SourceThere, OutputGood, TargetKnown, EvictSafe, Spare,
         OutputOnly, Holds, Exists, Good, Target, Tmp, CopySteps, userVars
<1>0. /\ prefs \in PrefSpace /\ owned \subseteq Pics /\ None \notin Pics
      /\ dest \in {"src", "new"} /\ copying \in {"backup", "deliver"}
      /\ disk \in [Places -> [Pics -> File]] /\ part \in [Places -> [Pics -> File]]
      /\ cache \in [TmpNames -> File]
      /\ (pc \in {"idle", "next"}) <=> (doc = None)
      /\ doc \in Pics \cup {None}
      /\ PrefSpace \subseteq Prefs /\ read \in File
      /\ TmpOf \in [Pics -> TmpNames]
  BY GalleryAssumption DEF TypeOK, GalleryTypeOK
<1>1. CASE StartRun
  BY <1>0, <1>1 DEF StartRun, docVars, galleryVars
<1>2. CASE Finish
  BY <1>0, <1>2 DEF Finish, EndRun, galleryVars
<1>3. CASE StoppedByUser
  BY <1>0, <1>3 DEF StoppedByUser, EndRun, galleryVars
<1>4. CASE TakeDoc
  BY <1>0, <1>4 DEF TakeDoc, galleryVars
<1>5. CASE Inspect
  BY <1>0, <1>5 DEF Inspect, GoTo, Continue, galleryVars
<1>6. CASE BuildThumbnail
  BY <1>0, <1>6 DEF BuildThumbnail, GoTo, Continue, galleryVars
<1>8. CASE NoBackup
  BY <1>0, <1>8 DEF NoBackup, GoTo, galleryVars, SafeSettings, Prefs, Places
<1>10. CASE CopyOriginal
  BY <1>0, <1>10 DEF CopyOriginal, galleryVars
<1>13. CASE OpenTarget
  BY <1>0, <1>13 DEF OpenTarget, Source, galleryVars
<1>24. CASE Crash
  BY <1>0, <1>24 DEF Crash, EndRun, galleryVars
<1>25. CASE OpenSource
  BY <1>0, <1>25 DEF OpenSource, galleryVars
<1>18. CASE UserStops
  BY <1>0, <1>18 DEF UserStops, docVars, galleryVars
<1>19. CASE Killed
  BY <1>0, <1>19 DEF Killed, EndRun, galleryVars
<1>21. CASE UNCHANGED vars
  BY <1>0, <1>21 DEF vars, addVars, docVars, galleryVars

<1>7. CASE WriteOutput
  <2>1. doc \in Pics /\ Tmp \in TmpNames /\ UNCHANGED <<disk, part, shot, owned, prefs>>
    BY <1>0, <1>7 DEF WriteOutput
  <2>2. CASE Continue
    BY <1>0, <1>7, <2>1, <2>2 DEF Continue
  <2>3. ASSUME NEW w \in Outcomes, w.go, GoTo("backup"),
               cache' = [cache EXCEPT ![Tmp] = FileLeft(w.left, read, @)]
        PROVE  KeepInv'
    <3>1. read \in Content /\ cache[Tmp] \in File
      BY <1>0, <1>7, <2>1 DEF WriteOutput, File
    <3>2. Good(read, doc)
      BY <1>7 DEF WriteOutput
    <3>3. Good(FileLeft(w.left, read, cache[Tmp]), doc)
      BY <1>0, <2>1, <2>3, <3>1, <3>2, WrittenGood
    <3>4. cache'[Tmp] = FileLeft(w.left, read, cache[Tmp]) /\ Tmp' = Tmp
      BY <1>0, <2>1, <2>3 DEF GoTo
    <3>5. QED BY <1>0, <1>7, <2>1, <2>3, <3>3, <3>4 DEF WriteOutput, GoTo
  <2>4. QED BY <1>7, <2>2, <2>3 DEF WriteOutput
<1>9. CASE MoveOriginal
  <2>1. doc \in Pics /\ UNCHANGED <<part, cache, shot, owned, prefs>>
    BY <1>0, <1>9 DEF MoveOriginal
  <2>2. CASE Continue /\ UNCHANGED disk
    BY <1>0, <1>9, <2>1, <2>2 DEF Continue
  <2>3. CASE MoveDocument(doc, "src", "bak") /\ GoTo("move")
    <3>1. disk' = [[disk EXCEPT !["bak"][doc] = disk["src"][doc]] EXCEPT !["src"][doc] = None]
      BY <2>3 DEF MoveDocument
    <3>2. \A e \in Places, q \in Pics :
            disk'[e][q] = IF q = doc /\ e = "bak" THEN disk["src"][doc]
                          ELSE IF q = doc /\ e = "src" THEN None ELSE disk[e][q]
      BY <1>0, <2>1, <3>1 DEF Places
    <3>3. disk["bak"][doc] = None /\ disk["src"][doc] # None /\ Good(disk["src"][doc], doc)
      BY <2>1, <2>3 DEF MoveDocument
    <3>4. Holds("bak", doc)'
      BY <2>1, <2>3, <3>2, <3>3 DEF Places, GoTo
    <3>5. NoLoss'
      BY <1>0, <2>1, <3>2, <3>3, <3>4 DEF Places
    <3>6. SourceGood'
      BY <1>0, <2>1, <3>2 DEF Places
    <3>7. OutputGood' /\ SourceThere' /\ TargetKnown'
      BY <1>0, <1>9, <2>1, <2>3 DEF MoveOriginal, GoTo
    <3>8. EvictSafe'
      BY <1>0, <2>1, <2>3, <3>4 DEF GoTo, Places
    <3>9. OutputOnly'
      BY <1>0, <1>9 DEF MoveOriginal
    <3>10. QED BY <3>5, <3>6, <3>7, <3>8, <3>9
  <2>4. QED BY <1>9, <2>2, <2>3 DEF MoveOriginal
<1>11. CASE CheckTarget
  <2>1. doc \in Pics /\ Tmp \in TmpNames /\ UNCHANGED <<disk, part, shot, owned, prefs>>
    BY <1>0, <1>11 DEF CheckTarget
  <2>2. CASE Continue
    BY <1>0, <1>11, <2>1, <2>2 DEF Continue
  <2>3. CASE Exists(dest, doc) /\ prefs.overwrite /\ GoTo("evict") /\ UNCHANGED cache
    BY <1>0, <1>11, <2>1, <2>3 DEF CheckTarget, GoTo
  <2>4. CASE /\ ~Exists(dest, doc) /\ pc' = "open" /\ copying' = "deliver"
             /\ UNCHANGED <<cache, todo, doc, dest, existed, read, stopProcessing>>
    BY <1>0, <1>11, <2>1, <2>4 DEF CheckTarget
  <2>5. QED BY <1>11, <2>2, <2>3, <2>4 DEF CheckTarget
<1>12. CASE DeleteTarget
  <2>1. doc \in Pics /\ dest \in Places /\ UNCHANGED <<part, cache, shot, owned, prefs>>
    BY <1>0, <1>12 DEF DeleteTarget, Places
  <2>2. CASE Continue /\ UNCHANGED disk
    BY <1>0, <1>12, <2>1, <2>2 DEF Continue
  <2>3. CASE /\ DeleteDocument(dest, doc) /\ pc' = "open" /\ copying' = "deliver"
             /\ UNCHANGED <<todo, doc, dest, existed, read, stopProcessing>>
    <3>1. \A e \in Places, q \in Pics :
            disk'[e][q] = IF e = dest /\ q = doc THEN None ELSE disk[e][q]
      BY <1>0, <2>1, <2>3, PutValue DEF DeleteDocument
    <3>2. NoLoss'
      BY <1>0, <1>12, <2>1, <2>3, <3>1 DEF DeleteTarget, Places
    <3>3. SourceGood' /\ OutputGood' /\ SourceThere' /\ EvictSafe'
      BY <1>0, <1>12, <2>1, <2>3, <3>1 DEF DeleteTarget, Places
    <3>4. TargetKnown'
      BY <1>0, <2>1, <2>3, <3>1
    <3>5. OutputOnly'
      BY <1>0, <1>12, <2>1, <2>3, <3>1 DEF DeleteTarget, Places
    <3>6. QED BY <3>2, <3>3, <3>4, <3>5
  <2>4. QED BY <1>12, <2>2, <2>3 DEF DeleteTarget
<1>14. CASE Stream
  <2>1. /\ doc \in Pics /\ Tmp \in TmpNames /\ Target \in Places
        /\ UNCHANGED <<disk, cache, shot, owned, prefs>>
    BY <1>0, <1>14 DEF Stream, Places
  <2>2. CASE Continue
    BY <1>0, <1>14, <2>1, <2>2 DEF Continue
  <2>3. CASE /\ part' = [part EXCEPT ![Target][doc] = read]
             /\ GoTo(IF existed THEN "swap" ELSE "rename")
    <3>1. part'[Target][doc] = read
      BY <1>0, <2>1, <2>3, PutValue
    <3>2. read # None /\ Good(read, doc)
      BY <1>14 DEF Stream
    <3>3. Target' = Target /\ Tmp' = Tmp /\ UNCHANGED <<doc, dest, copying>>
      BY <2>3 DEF GoTo
    <3>4. OutputGood' /\ SourceThere'
      BY <1>14, <2>1, <2>3, <3>1, <3>2, <3>3 DEF Stream, GoTo
    <3>5. TargetKnown'
      BY <1>0, <1>14, <2>1, <2>3, <3>3 DEF Stream, GoTo
    <3>6. NoLoss' /\ SourceGood' /\ EvictSafe' /\ OutputOnly'
      BY <1>0, <2>1, <2>3, <3>3 DEF GoTo
    <3>7. QED BY <3>4, <3>5, <3>6
  <2>4. QED BY <1>14, <2>2, <2>3 DEF Stream
<1>15. CASE Swap
  <2>1. doc \in Pics /\ Target = "bak" /\ UNCHANGED <<part, cache, shot, owned, prefs>>
    BY <1>0, <1>15 DEF Swap
  <2>2. CASE Continue /\ UNCHANGED disk
    BY <1>0, <1>15, <2>1, <2>2 DEF Continue
  <2>3. CASE DeleteDocument(Target, doc) /\ GoTo("rename")
    <3>1. \A e \in Places, q \in Pics :
            disk'[e][q] = IF e = "bak" /\ q = doc THEN None ELSE disk[e][q]
      BY <1>0, <2>1, <2>3, PutValue DEF DeleteDocument, Places
    <3>2. NoLoss' /\ SourceGood'
      BY <1>0, <1>15, <2>1, <2>3, <3>1 DEF Swap, Places
    <3>3. OutputGood' /\ SourceThere' /\ EvictSafe'
      BY <1>0, <1>15, <2>1, <2>3, <3>1 DEF Swap, GoTo, Places
    <3>4. TargetKnown' /\ OutputOnly'
      BY <1>0, <1>15, <2>1, <2>3, <3>1 DEF Swap, GoTo, Places
    <3>5. QED BY <3>2, <3>3, <3>4
  <2>4. QED BY <1>15, <2>2, <2>3 DEF Swap
<1>16. CASE Rename
  <2>1. doc \in Pics /\ Target \in Places /\ UNCHANGED <<cache, shot, owned, prefs>>
    BY <1>0, <1>16 DEF Rename, Places
  <2>2. CASE Continue /\ UNCHANGED <<disk, part>>
    BY <1>0, <1>16, <2>1, <2>2 DEF Continue
  <2>3. ASSUME RenamePart(Target, doc) PROVE KeepInv'
    <3>1. /\ part[Target][doc] # None /\ Good(part[Target][doc], doc)
          /\ disk[Target][doc] = None
      BY <1>16 DEF Rename
    <3>2. \A e \in Places, q \in Pics :
            disk'[e][q] = IF e = Target /\ q = doc THEN part[Target][doc] ELSE disk[e][q]
      BY <1>0, <2>1, <2>3, <3>1, PutValue DEF RenamePart
    <3>3. NoLoss' /\ SourceGood'
      BY <1>0, <2>1, <3>1, <3>2 DEF Places
    <3>4. OutputOnly'
      BY <1>0, <1>16, <2>1, <3>1, <3>2 DEF Rename, GoTo, Continue, Places
    <3>5. CASE copying = "backup" /\ GoTo("move")
      <4>1. Holds("bak", doc)' /\ dest' = dest /\ doc' = doc
        BY <2>1, <3>1, <3>2, <3>5 DEF GoTo, Places
      <4>2. EvictSafe'
        BY <1>0, <4>1, <3>5 DEF GoTo, Places
      <4>3. OutputGood' /\ SourceThere' /\ TargetKnown'
        BY <1>0, <1>16, <2>1, <3>5 DEF Rename, GoTo
      <4>4. QED BY <3>3, <3>4, <4>2, <4>3
    <3>6. CASE GoTo("clean") \/ Continue
      BY <3>3, <3>4, <3>6 DEF GoTo, Continue
    <3>7. QED BY <1>16, <2>2, <3>5, <3>6 DEF Rename
  <2>4. QED BY <1>16, <2>2, <2>3 DEF Rename
<1>17. CASE CleanTmp
  BY <1>0, <1>17 DEF CleanTmp, Continue
<1>20. CASE Meanwhile({doc})
  <2>1. UNCHANGED <<pc, todo, doc, dest, copying, existed, read, stopProcessing>>
    BY <1>20, ReadUndisturbed DEF Meanwhile
  <2>2. ASSUME NEW p \in Pics, p # doc, UserSaves(p)
        PROVE  KeepInv'
    <3>1. PICK t \in ShotThumbs : disk' = [disk EXCEPT !["src"][p] = Shot(p, shot[p] + 1, t)]
      BY <2>2 DEF UserSaves
    <3>2. \A e \in Places, q \in Pics :
            disk'[e][q] = IF e = "src" /\ q = p THEN Shot(p, shot[p] + 1, t) ELSE disk[e][q]
      BY <1>0, <2>2, <3>1, PutValue DEF Places
    <3>3. \A q \in Pics : shot'[q] = IF q = p THEN shot[p] + 1 ELSE shot[q]
      BY <2>2 DEF UserSaves, TypeOK, GalleryTypeOK
    <3>4. Shot(p, shot[p] + 1, t) \in Content
      <4>1. shot[p] + 1 \in 1..MaxVer
        BY <2>2, GalleryAssumption DEF UserSaves, TypeOK, GalleryTypeOK
      <4>2. QED BY <4>1, ShotType
    <3>5. Holds("src", p)'
      BY <3>2, <3>3, <3>4, GalleryAssumption DEF Shot, Places
    <3>6. UNCHANGED <<part, cache, prefs>> /\ owned' = owned \cup {p}
      BY <2>2 DEF UserSaves
    <3>7. NoLoss' /\ SourceGood'
      BY <1>0, <3>2, <3>3, <3>5, <3>6 DEF Places
    <3>8. \A d \in Places : doc \in Pics => /\ disk'[d][doc] = disk[d][doc]
                                            /\ shot'[doc] = shot[doc]
      BY <2>2, <3>2, <3>3
    <3>9. SourceThere' /\ OutputGood' /\ TargetKnown' /\ EvictSafe' /\ OutputOnly'
      BY <1>0, <2>1, <2>2, <3>2, <3>3, <3>5, <3>6, <3>8 DEF Places
    <3>10. QED BY <3>7, <3>9
  <2>3. ASSUME NEW p \in Pics, p # doc, UserDeletes(p)
        PROVE  KeepInv'
    <3>1. \A e \in Places, q \in Pics :
            disk'[e][q] = IF e = "src" /\ q = p THEN None ELSE disk[e][q]
      BY <1>0, <2>3, PutValue DEF UserDeletes, Places
    <3>2. UNCHANGED <<part, cache, shot, prefs>> /\ owned' = owned \ {p}
      BY <2>3 DEF UserDeletes
    <3>3. NoLoss' /\ SourceGood'
      BY <1>0, <3>1, <3>2 DEF Places
    <3>4. SourceThere' /\ OutputGood' /\ TargetKnown' /\ EvictSafe' /\ OutputOnly'
      BY <1>0, <2>1, <2>3, <3>1, <3>2 DEF Places
    <3>5. QED BY <3>3, <3>4
  <2>4. ASSUME NEW t \in TmpNames, CacheCleared(t)
        PROVE  KeepInv'
    <3>1. \A u \in TmpNames : cache'[u] = cache[u] \/ cache'[u] = None
      BY <1>0, <2>4 DEF CacheCleared
    <3>2. doc \in Pics => Tmp \in TmpNames /\ Tmp' = Tmp
      BY <1>0, <2>1
    <3>3. QED BY <1>0, <2>1, <2>4, <3>1, <3>2 DEF CacheCleared
  <2>6. ASSUME NEW d \in Places, NEW p \in Pics, p # doc, UserRemovesPart(d, p)
        PROVE  KeepInv'
    <3>1. \A e \in Places, q \in Pics : q # p => part'[e][q] = part[e][q]
      BY <1>0, <2>6, PutValue DEF UserRemovesPart
    <3>2. UNCHANGED <<disk, cache, shot, owned, prefs>>
      BY <2>6 DEF UserRemovesPart
    <3>3. doc \in Pics => part'[Target][doc] = part[Target][doc]
      BY <1>0, <2>6, <3>1 DEF Places
    <3>4. Target' = Target /\ Tmp' = Tmp
      BY <2>1
    <3>5. NoLoss' /\ SourceGood' /\ SourceThere' /\ TargetKnown' /\ EvictSafe' /\ OutputOnly'
      BY <2>1, <3>2, <3>4
    <3>6. OutputGood'
      BY <1>0, <2>1, <3>2, <3>3, <3>4
    <3>7. QED BY <3>5, <3>6
  <2>5. QED BY <1>20, <2>2, <2>3, <2>4, <2>6 DEF Meanwhile, Outside
<1>23. CASE SettingsChanged
  BY <1>0, <1>23 DEF SettingsChanged, UserChoosesSettings, addVars
<1>22. QED
  BY <1>1, <1>2, <1>3, <1>4, <1>5, <1>6, <1>7, <1>8, <1>9, <1>10, <1>11, <1>12, <1>13,
     <1>14, <1>15, <1>16, <1>17, <1>18, <1>19, <1>20, <1>21, <1>23, <1>24, <1>25
  DEF Next, Worker, Loop, Copy, Environment

\* With safe settings and a user who leaves the picture at hand alone, KeepInv
\* holds at every step of every job, whatever fails.
THEOREM KeepAlways == ASSUME SafeSettings, ~Meddles PROVE Spec => []KeepInv
<1>1. Init => KeepInv
  BY KeepInit
<1>2. TypeOK /\ KeepInv /\ [Next]_vars => KeepInv'
  BY KeepNext
<1>3. QED BY <1>1, <1>2, TypeCorrect, PTL DEF Spec

\* With safe settings the last version the user saved of a picture is never
\* lost, for any number of pictures, versions and settings, whatever fails.
THEOREM NothingLost == ASSUME SafeSettings, ~Meddles PROVE Spec => []NoLoss
<1>1. KeepInv => NoLoss
  BY DEF KeepInv
<1>2. QED BY <1>1, KeepAlways, PTL

\* ... and the picture folder never shows an older version than that: no output
\* an earlier run left in the cache directory comes back.
THEOREM NeverRolledBack == ASSUME SafeSettings, ~Meddles PROVE Spec => []SourceCurrent
<1>1. KeepInv => SourceCurrent
  BY DEF KeepInv, SourceGood, SourceCurrent, Good
<1>2. QED BY <1>1, KeepAlways, PTL

-----------------------------------------------------------------------------
\* In place and with backups, the original bytes: once the job has passed
\* MoveOriginal they are in the backup folder, which no later step touches.
BackupsOn == \A q \in PrefSpace : q.backup
Original(d, p) == Holds(d, p) /\ disk[d][p].by = "user"
OriginalInv ==
  /\ OriginalKept
  /\ pc \in {"move", "evict"} \cup CopySteps /\ doc \in owned => Original("bak", doc)

LEMMA OriginalInit == ASSUME Init PROVE OriginalInv
<1>1. PICK t \in ShotThumbs :
        disk = [d \in Places |-> [p \in Pics |->
                  IF d = "src" /\ p \in owned THEN Shot(p, 1, t) ELSE None]]
  BY DEF Init, GalleryInit
<1>2. ASSUME NEW p \in owned
      PROVE  Original("src", p)
  <2>1. p \in Pics
    BY DEF Init, GalleryInit
  <2>2. disk["src"][p] = Shot(p, 1, t)
    BY <1>1, <2>1 DEF Places
  <2>3. Shot(p, 1, t) \in Content
    BY <2>1, ShotType, GalleryAssumption
  <2>4. shot[p] = 1
    BY <2>1 DEF Init, GalleryInit
  <2>5. Exists("src", p)
    BY <2>2, <2>3, GalleryAssumption DEF Exists
  <2>6. QED BY <2>2, <2>4, <2>5 DEF Original, Holds, Good, Shot
<1>3. QED BY <1>2 DEF Init, OriginalInv, OriginalKept, Original, CopySteps

LEMMA OriginalNext ==
  ASSUME InPlaceOnly, BackupsOn, ~Meddles, TypeOK, NeverCopied, OriginalInv, [Next]_vars
  PROVE  OriginalInv'
<1> USE DEF OriginalInv, OriginalKept, Original, CopySteps, Holds, Exists, Good
<1>0. /\ prefs \in PrefSpace /\ prefs.inPlace /\ prefs.backup /\ owned \subseteq Pics
      /\ None \notin Pics /\ dest \in {"src", "new"} /\ {"src", "bak", "new"} = Places
      /\ disk \in [Places -> [Pics -> File]] /\ part \in [Places -> [Pics -> File]]
      /\ (pc \in {"idle", "next"}) <=> (doc = None)
      /\ doc \in Pics \cup {None}
  BY GalleryAssumption DEF TypeOK, GalleryTypeOK, Places, InPlaceOnly, BackupsOn
<1>1. ASSUME UNCHANGED <<disk, shot, owned>>,
             \/ pc' \notin {"move", "evict"} \cup CopySteps
             \/ pc \in {"move", "evict"} \cup CopySteps /\ UNCHANGED doc
      PROVE  OriginalInv'
  BY <1>1
<1>2. CASE StartRun \/ Finish \/ StoppedByUser \/ Crash \/ Killed \/ TakeDoc
  BY <1>1, <1>2 DEF StartRun, Finish, StoppedByUser, Crash, Killed, EndRun, TakeDoc,
     galleryVars, userVars
<1>3. CASE Inspect \/ BuildThumbnail \/ OpenSource \/ WriteOutput \/ CleanTmp
  BY <1>1, <1>3 DEF Inspect, BuildThumbnail, OpenSource, WriteOutput, CleanTmp, GoTo, Continue,
     galleryVars, userVars
<1>4. ~NoBackup /\ ~CopyOriginal
  BY <1>0 DEF NoBackup, CopyOriginal
<1>5. CASE MoveOriginal
  <2>1. doc \in Pics /\ UNCHANGED <<shot, owned>>
    BY <1>0, <1>5 DEF MoveOriginal, userVars
  <2>2. CASE Continue /\ UNCHANGED disk
    BY <1>1, <2>1, <2>2 DEF Continue
  <2>3. CASE MoveDocument(doc, "src", "bak") /\ GoTo("move")
    <3>1. disk' = [[disk EXCEPT !["bak"][doc] = disk["src"][doc]] EXCEPT !["src"][doc] = None]
      BY <2>3 DEF MoveDocument
    <3>2. \A e \in Places, q \in Pics :
            disk'[e][q] = IF q = doc /\ e = "bak" THEN disk["src"][doc]
                          ELSE IF q = doc /\ e = "src" THEN None ELSE disk[e][q]
      BY <1>0, <2>1, <3>1 DEF Places
    <3>3. doc \in owned => Original("src", doc)
      BY <2>1, <2>3 DEF MoveDocument
    <3>4. doc \in owned => Original("bak", doc)'
      BY <1>0, <2>1, <2>3, <3>2, <3>3 DEF GoTo
    <3>5. \A q \in owned, e \in {"src", "bak"} : q # doc => disk'[e][q] = disk[e][q]
      BY <1>0, <3>2
    <3>6. QED BY <2>1, <2>3, <3>4, <3>5 DEF GoTo
  <2>4. QED BY <1>5, <2>2, <2>3 DEF MoveOriginal
<1>6. CASE CheckTarget
  BY <1>1, <1>6 DEF CheckTarget, GoTo, Continue, userVars
<1>7. CASE OpenTarget \/ Stream
  BY <1>1, <1>7 DEF OpenTarget, Stream, GoTo, Continue, galleryVars, userVars
<1>8. CASE DeleteTarget \/ Swap \/ Rename
  <2>1. doc \in Pics /\ UNCHANGED <<shot, owned>>
    BY <1>0, <1>8 DEF DeleteTarget, Swap, Rename, userVars
  <2>2. doc \in owned => Original("bak", doc)
    BY <1>8 DEF DeleteTarget, Swap, Rename
  <2>3. Swap \/ Rename => Target = dest
    BY DEF Swap, Rename, NeverCopied, Target
  <2>4. \A e \in Places, q \in Pics : e = "bak" \/ q # doc => disk'[e][q] = disk[e][q]
    BY <1>0, <1>8, <2>1, <2>3, PutValue
    DEF DeleteTarget, Swap, Rename, DeleteDocument, RenamePart
  <2>5. UNCHANGED doc \/ pc' = "next"
    BY <1>8 DEF DeleteTarget, Swap, Rename, GoTo, Continue
  <2>6. \A q \in owned, e \in {"src", "bak"} :
          Original(e, q) /\ (e = "bak" \/ q # doc) => Original(e, q)'
    BY <1>0, <2>1, <2>4
  <2>7. OriginalKept'
    BY <1>0, <2>1, <2>2, <2>6
  <2>8. doc' \in owned /\ pc' # "next" => Original("bak", doc)'
    BY <1>0, <2>1, <2>2, <2>5, <2>6
  <2>9. QED BY <2>1, <2>7, <2>8
<1>9. CASE UserStops
  BY <1>9 DEF UserStops, docVars, galleryVars, userVars
<1>10. CASE Meanwhile({doc})
  <2>1. UNCHANGED <<pc, doc>>
    BY <1>10 DEF Meanwhile
  <2>2. ASSUME NEW p \in Pics, p # doc, UserSaves(p)
        PROVE  OriginalInv'
    <3>1. PICK t \in ShotThumbs : disk' = [disk EXCEPT !["src"][p] = Shot(p, shot[p] + 1, t)]
      BY <2>2 DEF UserSaves
    <3>2. \A e \in Places, q \in Pics :
            disk'[e][q] = IF e = "src" /\ q = p THEN Shot(p, shot[p] + 1, t) ELSE disk[e][q]
      BY <1>0, <2>2, <3>1, PutValue
    <3>3. \A q \in Pics : shot'[q] = IF q = p THEN shot[p] + 1 ELSE shot[q]
      BY <2>2 DEF UserSaves, TypeOK, GalleryTypeOK
    <3>4. Shot(p, shot[p] + 1, t) \in Content
      <4>1. shot[p] + 1 \in 1..MaxVer
        BY <2>2, GalleryAssumption DEF UserSaves, TypeOK, GalleryTypeOK
      <4>2. QED BY <4>1, ShotType
    <3>5. Original("src", p)'
      BY <1>0, <3>2, <3>3, <3>4, GalleryAssumption DEF Shot
    <3>6. owned' = owned \cup {p}
      BY <2>2 DEF UserSaves
    <3>7. \A q \in owned, e \in {"src", "bak"} : q # p => /\ disk'[e][q] = disk[e][q]
                                                          /\ shot'[q] = shot[q]
      BY <1>0, <3>2, <3>3
    <3>8. QED BY <1>0, <2>1, <2>2, <3>5, <3>6, <3>7
  <2>3. ASSUME NEW p \in Pics, p # doc, UserDeletes(p)
        PROVE  OriginalInv'
    <3>1. \A e \in Places, q \in Pics :
            disk'[e][q] = IF e = "src" /\ q = p THEN None ELSE disk[e][q]
      BY <1>0, <2>3, PutValue DEF UserDeletes
    <3>2. UNCHANGED shot /\ owned' = owned \ {p}
      BY <2>3 DEF UserDeletes
    <3>3. QED BY <1>0, <2>1, <3>1, <3>2
  <2>4. ASSUME NEW t \in TmpNames, CacheCleared(t)
        PROVE  OriginalInv'
    BY <1>1, <2>1, <2>4 DEF CacheCleared, userVars
  <2>5. ASSUME NEW d \in Places, NEW p \in Pics, UserRemovesPart(d, p)
        PROVE  OriginalInv'
    BY <1>1, <2>1, <2>5 DEF UserRemovesPart, userVars
  <2>6. QED BY <1>10, <2>2, <2>3, <2>4, <2>5 DEF Meanwhile, Outside
<1>11. CASE SettingsChanged
  BY <1>11 DEF SettingsChanged, UserChoosesSettings, addVars
<1>12. CASE UNCHANGED vars
  BY <1>12 DEF vars, addVars, galleryVars, userVars
<1>13. QED
  BY <1>2, <1>3, <1>4, <1>5, <1>6, <1>7, <1>8, <1>9, <1>10, <1>11, <1>12
  DEF Next, Worker, Loop, Copy, Environment

\* In place with backups the bytes the user saved last, not rewritten by the
\* application, are always in the picture folder or in the backup folder: for
\* every choice of the other settings, errors ignored or not.
THEOREM OriginalsKept == ASSUME InPlaceOnly, BackupsOn, ~Meddles PROVE Spec => []OriginalKept
<1>1. Init => OriginalInv /\ NeverCopied
  BY OriginalInit DEF Init, NeverCopied, CopySteps
<1>2. TypeOK /\ NeverCopied /\ OriginalInv /\ [Next]_vars => OriginalInv'
  BY OriginalNext
<1>3. TypeOK /\ NeverCopied /\ [Next]_vars => NeverCopied'
  BY NeverCopiedNext
<1>4. OriginalInv => OriginalKept
  BY DEF OriginalInv
<1>5. QED BY <1>1, <1>2, <1>3, <1>4, TypeCorrect, PTL DEF Spec

-----------------------------------------------------------------------------
(***************************************************************************)
(* The folders, as the user sees them, are an Album.  Besides KeepInv this  *)
(* needs that no file holds a version yet to come, that the picture at hand *)
(* and those in the picture folder are the user's, and that what is about   *)
(* to be delivered was written by the application.                          *)
(***************************************************************************)
Past(f) == f = None \/ f.ver <= shot[f.of]
FromPast == /\ \A d \in Places, p \in Pics : Past(disk[d][p]) /\ Past(part[d][p])
            /\ \A t \in TmpNames : Past(cache[t])
            /\ Past(read)

\* What a writer leaves is a version it read or found.
LEMMA PastLeft ==
  ASSUME NEW s \in File, NEW t \in File, NEW left \in Left, Past(s), Past(t),
         s = None => left \in {"leftover", "gone"}
  PROVE  Past(FileLeft(left, s, t))
<1>1. CASE left = "leftover" \/ left = "gone"
  BY <1>1 DEF FileLeft, Past
<1>2. CASE left = "copy"
  BY <1>2 DEF FileLeft
<1>3. CASE left \in {"thumbnailed", "rewritten", "cut"}
  <2>4. s \in Content
    BY <1>3 DEF File
  <2>1. FileLeft(left, s, t).of = s.of /\ FileLeft(left, s, t).ver = s.ver
    BY <1>3, <2>4 DEF FileLeft, WithThumbnail, Cut, Content
  <2>2. s # None
    BY <2>4, GalleryAssumption
  <2>3. QED BY <2>1, <2>2 DEF Past
<1>4. QED BY <1>1, <1>2, <1>3 DEF Left

LEMMA PastInit == ASSUME Init PROVE FromPast
<1>1. PICK t \in ShotThumbs :
        disk = [d \in Places |-> [p \in Pics |->
                  IF d = "src" /\ p \in owned THEN Shot(p, 1, t) ELSE None]]
  BY DEF Init, GalleryInit
<1>2. \A p \in Pics : Shot(p, 1, t).ver = 1 /\ Shot(p, 1, t).of = p
  BY DEF Shot
<1>3. \A p \in owned : p \in Pics /\ shot[p] = 1
  BY DEF Init, GalleryInit
<1>4. \A d \in Places, p \in Pics : Past(disk[d][p])
  BY <1>1, <1>2, <1>3 DEF Past
<1>5. \A d \in Places, p \in Pics : part[d][p] = None
  BY DEF Init, GalleryInit
<1>6. \A t2 \in TmpNames : cache[t2] = None
  BY DEF Init, GalleryInit
<1>7. read = None
  BY DEF Init
<1>8. QED BY <1>4, <1>5, <1>6, <1>7 DEF FromPast, Past

LEMMA PastNext ==
  ASSUME TypeOK, FromPast, [Next]_vars
  PROVE  FromPast'
<1> USE DEF FromPast, Tmp
<1>0. /\ None \notin Pics /\ prefs \in PrefSpace
      /\ dest \in Places /\ Target \in Places /\ {"src", "bak", "new"} \subseteq Places
      /\ disk \in [Places -> [Pics -> File]] /\ part \in [Places -> [Pics -> File]]
      /\ cache \in [TmpNames -> File] /\ shot \in [Pics -> 0..MaxVer]
      /\ (pc \in {"idle", "next"}) <=> (doc = None)
      /\ doc \in Pics \cup {None}
      /\ TmpOf \in [Pics -> TmpNames]
      /\ read \in File /\ (pc = "stream" => read # None)
      /\ Past(None)
  BY GalleryAssumption DEF TypeOK, GalleryTypeOK, Target, Places, Past
\* A step that leaves `shot` alone and only lays files from the past anew.
<1>a. ASSUME shot' = shot,
             \A d \in Places, p \in Pics : Past(disk'[d][p]) /\ Past(part'[d][p]),
             \A t \in TmpNames : Past(cache'[t]),
             Past(read')
      PROVE  FromPast'
  BY <1>a DEF Past
\* At most steps the file being read is let go, or stays what it is.
<1>b. ASSUME read' = read \/ read' = None PROVE Past(read')
  BY <1>0, <1>b
<1>1. CASE UNCHANGED <<disk, part, cache, shot>> /\ (read' = read \/ read' = None)
  BY <1>0, <1>1, <1>a
<1>10. CASE OpenSource
  <2>1. doc \in Pics /\ read' = disk["src"][doc]
    BY <1>0, <1>10 DEF OpenSource
  <2>2. Past(read')
    BY <1>0, <2>1
  <2>3. QED BY <1>10, <1>a, <2>2 DEF OpenSource, galleryVars, userVars
<1>11. CASE OpenTarget
  <2>1. doc \in Pics /\ (read' = read \/ read' = Source)
    BY <1>0, <1>11 DEF OpenTarget
  <2>2. Past(Source)
    BY <1>0, <2>1 DEF Source
  <2>3. Past(read')
    BY <2>1, <2>2
  <2>4. QED BY <1>11, <1>a, <2>3 DEF OpenTarget, galleryVars, userVars
<1>2. CASE WriteOutput
  <2>1. doc \in Pics /\ Tmp \in TmpNames /\ UNCHANGED <<disk, part, shot>>
    BY <1>0, <1>2 DEF WriteOutput, userVars
  <2>2. PICK w \in Outcomes : /\ read = None => w.left \in {"leftover", "gone"}
                              /\ cache' = [cache EXCEPT ![Tmp] = FileLeft(w.left, read, @)]
    BY <1>2 DEF WriteOutput
  <2>3. cache[Tmp] \in File /\ Past(cache[Tmp])
    BY <1>0, <2>1
  <2>4. w.left \in Left
    BY <1>0 DEF Outcomes, FromBytes, ByLibexif, ByExiv2, Ends, Left
  <2>5. Past(FileLeft(w.left, read, cache[Tmp]))
    BY <1>0, <2>2, <2>3, <2>4, PastLeft
  <2>6. \A t \in TmpNames : Past(cache'[t])
    BY <1>0, <2>1, <2>2, <2>5
  <2>7. Past(read')
    BY <1>0, <1>2 DEF WriteOutput, GoTo, Continue
  <2>8. QED BY <1>a, <2>1, <2>6, <2>7
<1>3. CASE CheckTarget \/ CleanTmp
  <2>1. UNCHANGED <<disk, part, shot>>
    BY <1>3 DEF CheckTarget, CleanTmp, userVars
  <2>2. \A t \in TmpNames : Past(cache'[t])
    BY <1>0, <1>3 DEF CheckTarget, CleanTmp
  <2>3. Past(read')
    BY <1>3, <1>b DEF CheckTarget, CleanTmp, GoTo, Continue
  <2>4. QED BY <1>a, <2>1, <2>2, <2>3
<1>4. CASE MoveOriginal
  <2>1. doc \in Pics /\ UNCHANGED <<part, cache, shot>>
    BY <1>0, <1>4 DEF MoveOriginal, userVars
  <2>2. ASSUME MoveDocument(doc, "src", "bak")
        PROVE  \A e \in Places, q \in Pics : Past(disk'[e][q])
    <3>1. disk' = [[disk EXCEPT !["bak"][doc] = disk["src"][doc]] EXCEPT !["src"][doc] = None]
      BY <2>2 DEF MoveDocument
    <3>2. \A e \in Places, q \in Pics :
            disk'[e][q] = IF q = doc /\ e = "bak" THEN disk["src"][doc]
                          ELSE IF q = doc /\ e = "src" THEN None ELSE disk[e][q]
      BY <1>0, <2>1, <3>1 DEF Places
    <3>3. QED BY <1>0, <2>1, <3>2
  <2>3. \A e \in Places, q \in Pics : Past(disk'[e][q])
    BY <1>4, <2>2 DEF MoveOriginal
  <2>4. Past(read')
    BY <1>4, <1>b DEF MoveOriginal, GoTo, Continue
  <2>5. QED BY <1>a, <2>1, <2>3, <2>4
<1>5. CASE DeleteTarget \/ Swap
  <2>1. doc \in Pics /\ UNCHANGED <<part, cache, shot>>
    BY <1>0, <1>5 DEF DeleteTarget, Swap, userVars
  <2>2. ASSUME NEW d \in Places, DeleteDocument(d, doc)
        PROVE  \A e \in Places, q \in Pics : Past(disk'[e][q])
    BY <1>0, <2>1, <2>2, PutValue DEF DeleteDocument
  <2>3. \A e \in Places, q \in Pics : Past(disk'[e][q])
    BY <1>0, <1>5, <2>2 DEF DeleteTarget, Swap
  <2>4. Past(read')
    BY <1>5, <1>b DEF DeleteTarget, Swap, GoTo, Continue
  <2>5. QED BY <1>a, <2>1, <2>3, <2>4
<1>6. CASE Stream
  <2>1. doc \in Pics /\ UNCHANGED <<disk, cache, shot>>
    BY <1>0, <1>6 DEF Stream, userVars
  <2>2. Past(read) /\ Past(Cut(read))
    <3>1. read \in Content /\ read # None
      BY <1>0, <1>6 DEF Stream, File
    <3>2. Cut(read).of = read.of /\ Cut(read).ver = read.ver
      BY <3>1 DEF Cut, Content
    <3>3. QED BY <3>1, <3>2 DEF Past
  <2>3. ASSUME NEW f, Past(f), part' = [part EXCEPT ![Target][doc] = f]
        PROVE  \A e \in Places, q \in Pics : Past(part'[e][q])
    BY <1>0, <2>1, <2>3, PutValue
  <2>4. \A e \in Places, q \in Pics : Past(part'[e][q])
    BY <1>0, <1>6, <2>2, <2>3 DEF Stream
  <2>5. Past(read')
    BY <1>6, <1>b DEF Stream, GoTo, Continue
  <2>6. QED BY <1>a, <2>1, <2>4, <2>5
<1>7. CASE Rename
  <2>1. doc \in Pics /\ UNCHANGED <<cache, shot>>
    BY <1>0, <1>7 DEF Rename, userVars
  <2>2. ASSUME RenamePart(Target, doc)
        PROVE  \A e \in Places, q \in Pics : Past(disk'[e][q]) /\ Past(part'[e][q])
    <3>1. \A e \in Places, q \in Pics : Past(disk'[e][q])
      BY <1>0, <2>1, <2>2, PutValue DEF RenamePart
    <3>2. \A e \in Places, q \in Pics : Past(part'[e][q])
      BY <1>0, <2>1, <2>2, PutValue DEF RenamePart
    <3>3. QED BY <3>1, <3>2
  <2>3. \A e \in Places, q \in Pics : Past(disk'[e][q]) /\ Past(part'[e][q])
    BY <1>7, <2>2 DEF Rename
  <2>4. Past(read')
    BY <1>7, <1>b DEF Rename, GoTo, Continue
  <2>5. QED BY <1>a, <2>1, <2>3, <2>4
<1>8. CASE Meanwhile({doc})
  <2>r. ReadingSource => doc \in Pics
    BY <1>0 DEF ReadingSource
  \* A save leaves what has been read, or shows the reader the version saved.
  <2>a. ASSUME \A e \in Places, q \in Pics : Past(disk[e][q])',
               read = None \/ read.ver <= shot'[read.of]
        PROVE  Past(read)'
    <3>1. read # None => Torn(read).of = read.of /\ Torn(read).ver = read.ver
      BY <1>0 DEF Torn, File, Content
    <3>2. CASE read' = read \/ (read # None /\ read' = Torn(read))
      BY <2>a, <3>1, <3>2 DEF Past
    <3>3. CASE ReadingSource /\ read' = disk'["src"][doc]
      BY <1>0, <2>a, <2>r, <3>3
    <3>4. QED BY <1>8, <3>2, <3>3, ReadTorn DEF Meanwhile, ReadingSource
  <2>b. ASSUME \A q \in Pics : disk'["src"][q] \in {disk["src"][q], None}
        PROVE  read' = read
    BY <1>8, <2>b, <2>r DEF Meanwhile, ReadAlong
  <2>1. ASSUME NEW p \in Pics, UserSaves(p)
        PROVE  FromPast'
    <3>1. PICK t \in ShotThumbs : disk' = [disk EXCEPT !["src"][p] = Shot(p, shot[p] + 1, t)]
      BY <2>1 DEF UserSaves
    <3>2. \A e \in Places, q \in Pics :
            disk'[e][q] = IF e = "src" /\ q = p THEN Shot(p, shot[p] + 1, t) ELSE disk[e][q]
      BY <1>0, <2>1, <3>1, PutValue
    <3>3. /\ \A q \in Pics : shot'[q] = IF q = p THEN shot[p] + 1 ELSE shot[q]
          /\ UNCHANGED <<part, cache>>
      BY <1>0, <2>1 DEF UserSaves
    <3>4. ASSUME NEW f \in File, Past(f) PROVE f = None \/ f.ver <= shot'[f.of]
      <4>1. CASE f = None
        BY <4>1 DEF Past
      <4>2. CASE f \in Content
        BY <1>0, <3>3, <3>4, <4>2, GalleryAssumption DEF Past, Content
      <4>3. QED BY <4>1, <4>2 DEF File
    <3>5. Shot(p, shot[p] + 1, t).ver <= shot'[Shot(p, shot[p] + 1, t).of]
      BY <1>0, <3>3 DEF Shot
    <3>6. \A e \in Places, q \in Pics : Past(disk[e][q])'
      <4>1. ASSUME NEW e \in Places, NEW q \in Pics
            PROVE  disk[e][q] = None \/ disk[e][q].ver <= shot'[disk[e][q].of]
        BY <1>0, <3>4
      <4>2. ASSUME NEW e \in Places, NEW q \in Pics
            PROVE  disk'[e][q] = None \/ disk'[e][q].ver <= shot'[disk'[e][q].of]
        BY <3>2, <3>5, <4>1
      <4>3. QED BY <4>2 DEF Past
    <3>7. \A e \in Places, q \in Pics : Past(part[e][q])'
      BY <1>0, <3>3, <3>4 DEF Past
    <3>8. \A u \in TmpNames : Past(cache[u])'
      BY <1>0, <3>3, <3>4 DEF Past
    <3>9. Past(read)'
      BY <1>0, <2>a, <3>4, <3>6
    <3>10. QED BY <3>6, <3>7, <3>8, <3>9
  <2>2. ASSUME NEW p \in Pics, UserDeletes(p)
        PROVE  FromPast'
    <3>1. \A e \in Places, q \in Pics : Past(disk'[e][q])
      BY <1>0, <2>2, PutValue DEF UserDeletes
    <3>2. \A q \in Pics : disk'["src"][q] \in {disk["src"][q], None}
      BY <1>0, <2>2, PutValue DEF UserDeletes
    <3>3. QED BY <1>a, <1>b, <2>2, <2>b, <3>1, <3>2 DEF UserDeletes
  <2>3. ASSUME NEW t \in TmpNames, CacheCleared(t)
        PROVE  FromPast'
    <3>1. \A u \in TmpNames : Past(cache'[u])
      BY <1>0, <2>3 DEF CacheCleared
    <3>2. read' = read
      BY <2>3, <2>b DEF CacheCleared
    <3>3. QED BY <1>a, <1>b, <2>3, <3>1, <3>2 DEF CacheCleared, userVars
  <2>4. ASSUME NEW d \in Places, NEW p \in Pics, UserRemovesPart(d, p)
        PROVE  FromPast'
    <3>1. \A e \in Places, q \in Pics : Past(part'[e][q])
      BY <1>0, <2>4, PutValue DEF UserRemovesPart
    <3>2. read' = read
      BY <2>4, <2>b DEF UserRemovesPart
    <3>3. QED BY <1>a, <1>b, <2>4, <3>1, <3>2 DEF UserRemovesPart, userVars
  <2>5. QED BY <1>8, <2>1, <2>2, <2>3, <2>4 DEF Meanwhile, Outside
<1>9. QED
  BY <1>1, <1>2, <1>3, <1>4, <1>5, <1>6, <1>7, <1>8, <1>10, <1>11
  DEF Next, Worker, Loop, Copy, Environment, StartRun, Finish, StoppedByUser, EndRun, TakeDoc,
      Crash, Inspect, BuildThumbnail, NoBackup, CopyOriginal, UserStops, Killed, GoTo, Continue,
      SettingsChanged, UserChoosesSettings, vars, addVars, docVars, galleryVars, userVars

\* The picture at hand, and every one in the picture folder, is the user's.
Belongs == /\ doc # None => doc \in owned
           /\ \A p \in Pics : Exists("src", p) => p \in owned

\* What is about to be delivered was written by the application.
ByApp(f) == f = None \/ f.by = "app"
Made == /\ pc \in {"backup", "move", "evict"} \cup CopySteps => ByApp(cache[Tmp])
        /\ pc = "stream" /\ copying = "deliver" => ByApp(read)
        /\ pc \in {"swap", "rename"} /\ copying = "deliver" => ByApp(part[dest][doc])

LEMMA AlbumInit == ASSUME Init PROVE Belongs /\ Made
<1>1. PICK t \in ShotThumbs :
        disk = [d \in Places |-> [p \in Pics |->
                  IF d = "src" /\ p \in owned THEN Shot(p, 1, t) ELSE None]]
  BY DEF Init, GalleryInit
<1>2. \A p \in Pics : Exists("src", p) => p \in owned
  BY <1>1 DEF Exists, Places
<1>3. QED BY <1>2 DEF Init, Belongs, Made, CopySteps

LEMMA BelongsNext ==
  ASSUME ~Meddles, TypeOK, Belongs, [Next]_vars
  PROVE  Belongs'
<1> USE DEF Belongs, Exists
<1>0. /\ None \notin Pics /\ owned \subseteq Pics
      /\ dest \in Places /\ Target \in Places /\ {"src", "bak", "new"} \subseteq Places
      /\ disk \in [Places -> [Pics -> File]]
      /\ (pc \in {"idle", "next"}) <=> (doc = None)
      /\ doc \in Pics \cup {None}
  BY GalleryAssumption DEF TypeOK, GalleryTypeOK, Target, Places
<1>1. ASSUME UNCHANGED <<disk, owned>>, doc' = doc \/ doc' = None
      PROVE  Belongs'
  BY <1>1
<1>2. CASE TakeDoc
  <2>1. todo \subseteq Pics /\ UNCHANGED <<disk, owned>>
    BY <1>2 DEF TakeDoc, galleryVars, userVars, TypeOK
  <2>2. QED BY <1>2, <2>1 DEF TakeDoc
<1>3. CASE MoveOriginal
  <2>1. doc \in Pics /\ owned' = owned /\ (doc' = doc \/ doc' = None)
    BY <1>0, <1>3 DEF MoveOriginal, userVars, GoTo, Continue
  <2>2. ASSUME MoveDocument(doc, "src", "bak")
        PROVE  Belongs'
    <3>1. disk' = [[disk EXCEPT !["bak"][doc] = disk["src"][doc]] EXCEPT !["src"][doc] = None]
      BY <2>2 DEF MoveDocument
    <3>2. \A q \in Pics : disk'["src"][q] = IF q = doc THEN None ELSE disk["src"][q]
      BY <1>0, <2>1, <3>1 DEF Places
    <3>3. QED BY <2>1, <3>2
  <2>3. QED BY <1>1, <1>3, <2>1, <2>2 DEF MoveOriginal
<1>4. CASE DeleteTarget \/ Swap
  <2>1. doc \in Pics /\ owned' = owned /\ (doc' = doc \/ doc' = None)
    BY <1>0, <1>4 DEF DeleteTarget, Swap, userVars, GoTo, Continue
  <2>2. ASSUME NEW d \in Places, DeleteDocument(d, doc)
        PROVE  Belongs'
    <3>1. \A q \in Pics : disk'["src"][q] = disk["src"][q] \/ disk'["src"][q] = None
      BY <1>0, <2>1, <2>2, PutValue DEF DeleteDocument
    <3>2. QED BY <2>1, <3>1
  <2>3. QED BY <1>0, <1>1, <1>4, <2>1, <2>2 DEF DeleteTarget, Swap
<1>5. CASE Rename
  <2>1. doc \in Pics /\ owned' = owned /\ (doc' = doc \/ doc' = None)
    BY <1>0, <1>5 DEF Rename, userVars, GoTo, Continue
  <2>2. ASSUME RenamePart(Target, doc)
        PROVE  Belongs'
    <3>1. \A q \in Pics : disk'["src"][q] = disk["src"][q] \/ q = doc
      BY <1>0, <2>1, <2>2, PutValue DEF RenamePart
    <3>2. QED BY <1>0, <2>1, <3>1
  <2>3. QED BY <1>1, <1>5, <2>1, <2>2 DEF Rename
<1>6. CASE Meanwhile({doc})
  <2>1. doc' = doc
    BY <1>6 DEF Meanwhile
  <2>2. ASSUME NEW p \in Pics, UserSaves(p)
        PROVE  Belongs'
    <3>1. PICK t \in ShotThumbs : disk' = [disk EXCEPT !["src"][p] = Shot(p, shot[p] + 1, t)]
      BY <2>2 DEF UserSaves
    <3>2. \A q \in Pics : disk'["src"][q] = disk["src"][q] \/ q = p
      BY <1>0, <2>2, <3>1, PutValue
    <3>3. QED BY <2>1, <2>2, <3>2 DEF UserSaves
  <2>3. ASSUME NEW p \in Pics, p # doc, UserDeletes(p)
        PROVE  Belongs'
    <3>1. \A q \in Pics : disk'["src"][q] = IF q = p THEN None ELSE disk["src"][q]
      BY <1>0, <2>3, PutValue DEF UserDeletes
    <3>2. QED BY <2>1, <2>3, <3>1 DEF UserDeletes
  <2>4. ASSUME NEW t \in TmpNames, CacheCleared(t)
        PROVE  Belongs'
    BY <1>1, <2>1, <2>4 DEF CacheCleared, userVars
  <2>6. ASSUME NEW d \in Places, NEW p \in Pics, UserRemovesPart(d, p)
        PROVE  Belongs'
    BY <1>1, <2>1, <2>6 DEF UserRemovesPart, userVars
  <2>5. QED BY <1>6, <2>2, <2>3, <2>4, <2>6 DEF Meanwhile, Outside
<1>7. CASE StartRun \/ Finish \/ StoppedByUser \/ Crash \/ Killed \/ UserStops
  BY <1>1, <1>7 DEF StartRun, Finish, StoppedByUser, Crash, Killed, EndRun, UserStops, docVars,
     galleryVars, userVars
<1>8. CASE \/ Inspect \/ BuildThumbnail \/ OpenSource \/ WriteOutput \/ NoBackup
           \/ CopyOriginal \/ CleanTmp
  BY <1>1, <1>8 DEF Inspect, BuildThumbnail, OpenSource, WriteOutput, NoBackup, CopyOriginal, CleanTmp,
     GoTo, Continue, galleryVars, userVars
<1>9. CASE CheckTarget \/ OpenTarget \/ Stream
  BY <1>1, <1>9 DEF CheckTarget, OpenTarget, Stream, GoTo, Continue, galleryVars, userVars
<1>10. CASE SettingsChanged \/ UNCHANGED vars
  BY <1>1, <1>10 DEF SettingsChanged, UserChoosesSettings, vars, addVars, galleryVars, userVars
<1>11. QED
  BY <1>2, <1>3, <1>4, <1>5, <1>6, <1>7, <1>8, <1>9, <1>10
  DEF Next, Worker, Loop, Copy, Environment

LEMMA MadeNext ==
  ASSUME SafeSettings, TypeOK, Made, [Next]_vars
  PROVE  Made'
<1> USE DEF Made, CopySteps, Tmp
<1>0. /\ prefs \in PrefSpace /\ None \notin Pics /\ dest \in Places /\ Target \in Places
      /\ disk \in [Places -> [Pics -> File]] /\ part \in [Places -> [Pics -> File]]
      /\ cache \in [TmpNames -> File] /\ copying \in {"backup", "deliver"}
      /\ (pc \in {"idle", "next"}) <=> (doc = None)
      /\ doc \in Pics \cup {None} /\ "src" \in Places
      /\ TmpOf \in [Pics -> TmpNames] /\ read \in File
  BY GalleryAssumption DEF TypeOK, GalleryTypeOK, Target, Places
<1>1. CASE pc' \in {"idle", "next", "inspect", "thumbnail", "write", "writing", "clean"}
  BY <1>1
<1>2. CASE WriteOutput /\ pc' = "backup"
  <2>1. doc \in Pics /\ Tmp \in TmpNames
    BY <1>0, <1>2 DEF WriteOutput
  <2>2. PICK w \in Outcomes :
          /\ read = None => w.left \in {"leftover", "gone"}
          /\ cache' = [cache EXCEPT ![Tmp] = FileLeft(w.left, read, @)]
          /\ w.go /\ GoTo("backup")
    BY <1>2 DEF WriteOutput, Continue
  <2>3. w.left = "thumbnailed"
    BY <1>0, <2>2, WrittenThumbnailed
  <2>4. FileLeft(w.left, read, cache[Tmp]).by = "app"
    <3>1. read \in Content
      BY <1>0, <2>2, <2>3 DEF File
    <3>2. QED BY <2>3, <3>1 DEF FileLeft, WithThumbnail, Content
  <2>5. ByApp(cache'[Tmp])
    BY <1>0, <2>1, <2>2, <2>4 DEF ByApp
  <2>6. QED BY <2>2, <2>5 DEF GoTo
<1>3. CASE NoBackup \/ MoveOriginal
  BY <1>1, <1>3 DEF NoBackup, MoveOriginal, GoTo, Continue, galleryVars
<1>4. CASE CopyOriginal \/ OpenTarget
  BY <1>1, <1>4 DEF CopyOriginal, OpenTarget, Source, galleryVars
<1>5. CASE CheckTarget \/ DeleteTarget
  BY <1>1, <1>5 DEF CheckTarget, DeleteTarget, GoTo, Continue
<1>6. CASE Stream
  <2>1. CASE Continue
    BY <1>1, <2>1 DEF Continue
  <2>2. CASE /\ part' = [part EXCEPT ![Target][doc] = read]
             /\ GoTo(IF existed THEN "swap" ELSE "rename")
    <3>1. doc \in Pics /\ cache' = cache
      BY <1>0, <1>6 DEF Stream
    <3>2. part'[Target][doc] = read
      BY <1>0, <2>2, <3>1
    <3>3. copying = "deliver" => ByApp(part'[dest][doc])
      BY <1>6, <3>2 DEF Stream, Target
    <3>4. QED BY <1>6, <2>2, <3>1, <3>3 DEF Stream, GoTo
  <2>3. QED BY <1>6, <2>1, <2>2 DEF Stream
<1>7. CASE Swap
  BY <1>1, <1>7 DEF Swap, GoTo, Continue
<1>8. CASE Rename
  BY <1>1, <1>8 DEF Rename, GoTo, Continue
<1>9. CASE Meanwhile({doc})
  <2>1. UNCHANGED <<pc, doc, dest, copying>>
    BY <1>9 DEF Meanwhile
  <2>2. /\ \A u \in TmpNames : cache'[u] = cache[u] \/ cache'[u] = None
        /\ \A d \in Places, q \in Pics : part'[d][q] = part[d][q] \/ part'[d][q] = None
    BY <1>0, <1>9, PutValue
    DEF Meanwhile, Outside, UserSaves, UserDeletes, UserRemovesPart, CacheCleared
  <2>3. pc = "stream" /\ copying = "deliver" => read' = read
    BY <1>9 DEF Meanwhile, ReadAlong, ReadingSource
  <2>4. QED BY <1>0, <2>1, <2>2, <2>3 DEF ByApp
<1>10. CASE UserStops \/ SettingsChanged \/ UNCHANGED vars
  BY <1>10 DEF UserStops, SettingsChanged, UserChoosesSettings, vars, addVars, docVars,
     galleryVars
<1>11. QED
  BY <1>1, <1>2, <1>3, <1>4, <1>5, <1>6, <1>7, <1>8, <1>9, <1>10
  DEF Next, Worker, Loop, Copy, Environment, StartRun, Finish, StoppedByUser, EndRun, TakeDoc,
      Crash, Inspect, BuildThumbnail, OpenSource, WriteOutput, CleanTmp, GoTo, Continue, Killed

AlbumInv == TypeOK /\ KeepInv /\ CompleteInv /\ FromPast /\ Belongs /\ Made

\* Nothing in the picture folder is broken.
ShownIs ==
  \A p \in Pics : Shown[p] = IF ~Exists("src", p) THEN "nothing"
                             ELSE IF disk["src"][p].by = "user" THEN "asSaved"
                             ELSE "thumbnailed"

LEMMA ShownWhole == AlbumInv => ShownIs
<1> SUFFICES ASSUME AlbumInv, NEW p \in Pics
             PROVE  Shown[p] = IF ~Exists("src", p) THEN "nothing"
                               ELSE IF disk["src"][p].by = "user" THEN "asSaved"
                               ELSE "thumbnailed"
  BY DEF ShownIs
<1>1. Exists("src", p) => disk["src"][p] \in Content
  BY DEF AlbumInv, TypeOK, GalleryTypeOK, Places, Exists, File
<1>2. Exists("src", p) => /\ Holds("src", p) /\ disk["src"][p].by \in {"user", "app"}
                          /\ disk["src"][p].by = "app" => disk["src"][p].thumb = "yes"
  BY <1>1 DEF AlbumInv, KeepInv, SourceGood, CompleteInv, Complete, Places, Exists, Holds, Content
<1>3. CASE ~Exists("src", p)
  BY <1>3 DEF Shown, Holds
<1>4. CASE Exists("src", p) /\ disk["src"][p].by = "user"
  BY <1>2, <1>4 DEF Shown
<1>5. CASE Exists("src", p) /\ disk["src"][p].by = "app"
  BY <1>2, <1>5 DEF Shown
<1>6. QED BY <1>2, <1>3, <1>4, <1>5

\* The first states of both, and that AlbumInv is inductive.
LEMMA AlbumInvInit == ASSUME Init PROVE AlbumInv
BY InitType, KeepInit, CompleteInit, PastInit, AlbumInit DEF AlbumInv

LEMMA AlbumInvNext ==
  ASSUME SafeSettings, ~Meddles, AlbumInv, [Next]_vars
  PROVE  AlbumInv'
<1>1. ErrorsCount
  BY DEF SafeSettings, ErrorsCount
<1>2. TypeOK /\ KeepInv /\ CompleteInv /\ FromPast /\ Belongs /\ Made
  BY DEF AlbumInv
<1>3. TypeOK' /\ KeepInv'
  BY <1>2, TypeNext, KeepNext
<1>4. CompleteInv' /\ FromPast'
  BY <1>1, <1>2, CompleteNext, PastNext
<1>5. Belongs' /\ Made'
  BY <1>2, BelongsNext, MadeNext
<1>6. QED BY <1>3, <1>4, <1>5 DEF AlbumInv

LEMMA AlbumStart == ASSUME Init PROVE Seen!Init
<1>1. PICK t \in ShotThumbs :
        disk = [d \in Places |-> [p \in Pics |->
                  IF d = "src" /\ p \in owned THEN Shot(p, 1, t) ELSE None]]
  BY DEF Init, GalleryInit
<1>2. owned \subseteq Pics
  BY DEF Init, GalleryInit
<1>3. ASSUME NEW p \in Pics
      PROVE  /\ Exists("src", p) <=> p \in owned
             /\ p \in owned => disk["src"][p].by = "user"
             /\ ~Exists("bak", p) /\ ~Exists("new", p)
  <2>1. Shot(p, 1, t) # None /\ Shot(p, 1, t).by = "user"
    BY ShotType, GalleryAssumption DEF Shot
  <2>2. QED BY <1>1, <2>1 DEF Exists, Places
<1>4. \A p \in Pics : Shown[p] = IF p \in owned THEN "asSaved" ELSE "nothing"
  BY <1>3, ShownWhole, AlbumInvInit DEF ShownIs
<1>5. Shown = [p \in Pics |-> IF p \in owned THEN "asSaved" ELSE "nothing"]
  BY <1>4 DEF Shown
<1>6. Spares = {}
  BY <1>3 DEF Holds, Spares
<1>7. QED BY <1>2, <1>5, <1>6 DEF Seen!Init

\* What a step does to one picture is all it does to the album.
LEMMA OnlyAbout ==
  ASSUME ShownIs, ShownIs', NEW p \in Pics, disk \in [Places -> [Pics -> File]],
         \A q \in Pics \ {p} : shot'[q] = shot[q],
         \A d \in Places, q \in Pics \ {p} : disk'[d][q] = disk[d][q]
  PROVE  /\ Shown' = [Shown EXCEPT ![p] = Shown'[p]]
         /\ p \in Spares' /\ p \in Spares => Spares' = Spares
         /\ p \in Spares' /\ p \notin Spares => Spares' = Spares \cup {p}
         /\ p \notin Spares' => Spares' = Spares \ {p}
<1>1. \A q \in Pics \ {p} : Exists("src", q)' = Exists("src", q)
  BY DEF Exists, Places
<1>2. \A q \in Pics \ {p} : Shown'[q] = Shown[q]
  BY <1>1 DEF ShownIs, Places
<1>3. \A q \in Pics \ {p} : q \in Spares' <=> q \in Spares
  BY DEF Spares, Holds, Exists, Good, Places
<1>4. Spares \subseteq Pics /\ Spares' \subseteq Pics
  BY DEF Spares
<1>5. Shown \in [Pics -> {Shown[q] : q \in Pics}] /\ Shown' = [q \in Pics |-> Shown'[q]]
  BY DEF Shown
<1>6. Shown' = [Shown EXCEPT ![p] = Shown'[p]]
  BY <1>2, <1>5
<1>7. \A q : q # p => (q \in Spares' <=> q \in Spares)
  BY <1>3, <1>4
<1>8. p \in Spares' /\ p \in Spares => Spares' = Spares
  BY <1>7
<1>9. p \in Spares' /\ p \notin Spares => Spares' = Spares \cup {p}
  BY <1>7
<1>10. p \notin Spares' => Spares' = Spares \ {p}
  BY <1>7
<1>11. QED BY <1>6, <1>8, <1>9, <1>10

LEMMA AlbumStep ==
  ASSUME SafeSettings, ~Meddles, AlbumInv, [Next]_vars
  PROVE  [Seen!Next]_(Seen!albumVars)
<1>0. /\ None \notin Pics /\ owned \subseteq Pics /\ prefs \in PrefSpace
      /\ dest \in {"src", "new"} /\ Target \in Places /\ {"src", "bak", "new"} = Places
      /\ disk \in [Places -> [Pics -> File]] /\ shot \in [Pics -> 0..MaxVer]
      /\ (pc \in {"idle", "next"}) <=> (doc = None)
      /\ doc \in Pics \cup {None} /\ (doc # None => doc \in owned)
      /\ copying \in {"backup", "deliver"}
  BY GalleryAssumption DEF AlbumInv, Belongs, TypeOK, GalleryTypeOK, Target, Places
<1>s. ShownIs /\ ShownIs'
  <2>1. AlbumInv'
    BY AlbumInvNext
  <2>2. QED BY <2>1, ShownWhole, PTL
<1>i. /\ KeepInv /\ Made /\ FromPast
      /\ NoLoss /\ SourceThere /\ OutputGood /\ TargetKnown /\ EvictSafe
  BY DEF AlbumInv, KeepInv
\* A step about no picture, or one the album does not show.
<1>u. ASSUME UNCHANGED <<disk, shot, owned>>
      PROVE  UNCHANGED Seen!albumVars
  <2>1. Shown' = Shown /\ Spares' = Spares
    BY <1>u DEF Shown, Spares, Holds, Exists, Good
  <2>2. QED BY <1>u, <2>1 DEF Seen!albumVars
<1>1. CASE MoveOriginal
  <2>1. doc \in Pics /\ doc \in owned /\ UNCHANGED <<shot, owned>>
    BY <1>0, <1>1 DEF MoveOriginal, userVars
  <2>2. ASSUME MoveDocument(doc, "src", "bak")
        PROVE  Seen!SetAside(doc)
    <3>1. disk' = [[disk EXCEPT !["bak"][doc] = disk["src"][doc]] EXCEPT !["src"][doc] = None]
      BY <2>2 DEF MoveDocument
    <3>2. \A e \in Places, q \in Pics :
            disk'[e][q] = IF q = doc /\ e = "bak" THEN disk["src"][doc]
                          ELSE IF q = doc /\ e = "src" THEN None ELSE disk[e][q]
      BY <1>0, <2>1, <3>1 DEF Places
    <3>3. Holds("src", doc)
      BY <2>1, <2>2 DEF MoveDocument, AlbumInv, KeepInv, SourceGood, Holds, Exists
    <3>4. Shown'[doc] = "nothing" /\ Shown[doc] # "nothing"
      BY <1>0, <1>s, <2>1, <3>2, <3>3 DEF ShownIs, Exists, Holds
    <3>5. doc \in Spares'
      BY <1>0, <2>1, <3>2, <3>3 DEF Spares, Holds, Exists, Good
    <3>6. Shown' = [Shown EXCEPT ![doc] = "nothing"] /\ Spares' = Spares \cup {doc}
      BY <1>0, <1>s, <2>1, <3>2, <3>4, <3>5, OnlyAbout
    <3>7. QED BY <2>1, <3>4, <3>6 DEF Seen!SetAside
  <2>3. CASE UNCHANGED disk
    BY <1>u, <2>1, <2>3
  <2>4. QED BY <1>1, <2>1, <2>2, <2>3 DEF MoveOriginal, Seen!Next
\* A file is deleted, of which the album keeps another copy.
<1>2. ASSUME NEW d \in Places, doc \in Pics, DeleteDocument(d, doc), UNCHANGED <<shot, owned>>,
             \E e \in Places \ {d} : Holds(e, doc), doc \in owned
      PROVE  [Seen!Next]_(Seen!albumVars)
  <2>1. \A e \in Places, q \in Pics : disk'[e][q] = IF e = d /\ q = doc THEN None ELSE disk[e][q]
    BY <1>0, <1>2, PutValue DEF DeleteDocument
  <2>2. \A e \in Places, q \in Pics : q = doc => (Holds(e, q)' <=> Holds(e, q) /\ e # d)
    BY <1>0, <1>2, <2>1 DEF Holds, Exists, Good
  <2>3. Shown' = [Shown EXCEPT ![doc] = Shown'[doc]]
    BY <1>0, <1>s, <1>2, <2>1, OnlyAbout
  <2>4. CASE d = "src"
    <3>1. doc \in Spares /\ doc \in Spares'
      BY <1>0, <1>2, <2>2, <2>4 DEF Spares
    <3>2. Shown[doc] # "nothing" /\ Shown'[doc] = "nothing"
      BY <1>0, <1>s, <1>2, <2>1, <2>4 DEF ShownIs, Exists, DeleteDocument
    <3>3. Spares' = Spares
      BY <1>0, <1>s, <1>2, <2>1, <3>1, OnlyAbout
    <3>4. Seen!SetAside(doc)
      BY <1>2, <2>3, <3>1, <3>2, <3>3 DEF Seen!SetAside
    <3>5. QED BY <1>2, <3>4 DEF Seen!Next
  <2>5. CASE d # "src"
    <3>1. Shown'[doc] = Shown[doc]
      BY <1>0, <1>s, <1>2, <2>1, <2>5 DEF ShownIs, Exists
    <3>2. Shown' = Shown
      BY <2>3, <3>1 DEF Shown
    <3>3. CASE doc \in Spares'
      <4>1. doc \in Spares
        BY <1>0, <1>2, <2>2, <3>3 DEF Spares
      <4>2. Spares' = Spares
        BY <1>0, <1>s, <1>2, <2>1, <3>3, <4>1, OnlyAbout
      <4>3. QED BY <1>2, <3>2, <4>2 DEF Seen!albumVars
    <3>4. CASE doc \notin Spares'
      <4>1. Holds("src", doc)
        BY <1>0, <1>2, <2>2, <2>5, <3>4 DEF Spares
      <4>2. Shown[doc] # "nothing"
        BY <1>s, <1>2, <4>1 DEF ShownIs, Holds
      <4>3. Spares' = Spares \ {doc}
        BY <1>0, <1>s, <1>2, <2>1, <3>4, OnlyAbout
      <4>4. Seen!GiveUp(doc)
        BY <1>2, <3>2, <4>2, <4>3 DEF Seen!GiveUp
      <4>5. QED BY <1>2, <4>4 DEF Seen!Next
    <3>5. QED BY <3>3, <3>4
  <2>6. QED BY <2>4, <2>5
<1>3. CASE DeleteTarget
  <2>1. doc \in Pics /\ doc \in owned /\ UNCHANGED <<shot, owned>> /\ dest \in Places
    BY <1>0, <1>3 DEF DeleteTarget, userVars
  <2>2. \E e \in Places \ {dest} : Holds(e, doc)
    BY <1>3, <1>i, <2>1 DEF DeleteTarget, EvictSafe, Spare
  <2>3. QED BY <1>u, <1>2, <1>3, <2>1, <2>2 DEF DeleteTarget
<1>4. CASE Swap
  <2>1. doc \in Pics /\ doc \in owned /\ UNCHANGED <<shot, owned>>
    BY <1>0, <1>4 DEF Swap, userVars
  <2>2. Target = "bak"
    BY <1>4, <1>i DEF Swap, TargetKnown, Target
  <2>3. Holds("src", doc)
    BY <1>4, <1>i, <2>1
    DEF Swap, KeepInv, SourceGood, SourceThere, TargetKnown, CopySteps, Holds
  <2>4. \E e \in Places \ {"bak"} : Holds(e, doc)
    BY <1>0, <2>3
  <2>5. QED BY <1>0, <1>u, <1>2, <1>4, <2>1, <2>2, <2>4 DEF Swap
<1>5. CASE Rename
  <2>1. doc \in Pics /\ doc \in owned /\ UNCHANGED <<shot, owned>>
    BY <1>0, <1>5 DEF Rename, userVars
  <2>2. ASSUME RenamePart(Target, doc)
        PROVE  [Seen!Next]_(Seen!albumVars)
    <3>1. /\ part[Target][doc] # None /\ Good(part[Target][doc], doc)
          /\ disk[Target][doc] = None
      BY <1>5, <1>i DEF Rename, OutputGood, TargetKnown, Exists
    <3>2. \A e \in Places, q \in Pics :
            disk'[e][q] = IF e = Target /\ q = doc THEN part[Target][doc] ELSE disk[e][q]
      BY <1>0, <2>1, <2>2, <3>1, PutValue DEF RenamePart, Exists
    <3>3. Shown' = [Shown EXCEPT ![doc] = Shown'[doc]]
      BY <1>0, <1>s, <2>1, <3>2, OnlyAbout
    <3>4. CASE Target = "src"
      <4>1. copying = "deliver" /\ Target = dest
        BY <1>0, <3>4 DEF Target
      <4>2. part[Target][doc].by = "app"
        BY <1>5, <1>i, <3>1, <4>1 DEF Rename, Made, ByApp
      <4>3. Shown[doc] = "nothing"
        BY <1>s, <2>1, <3>1, <3>4 DEF ShownIs, Exists
      <4>4. Shown'[doc] = "thumbnailed"
        <5>1. disk'["src"][doc] = part[Target][doc]
          BY <1>0, <2>1, <3>2, <3>4
        <5>2. QED BY <1>s, <2>1, <3>1, <4>2, <5>1 DEF ShownIs, Exists
      <4>5. doc \in Spares /\ doc \in Spares'
        <5>1. ~Holds("src", doc)
          BY <3>1, <3>4 DEF Holds, Exists
        <5>2. doc \in Spares
          BY <1>0, <1>i, <2>1, <5>1 DEF NoLoss, Spares
        <5>3. \A e \in {"bak", "new"} : disk'[e][doc] = disk[e][doc]
          BY <1>0, <2>1, <3>2, <3>4
        <5>4. QED BY <2>1, <5>2, <5>3 DEF Spares, Holds, Exists, Good
      <4>6. Spares' = Spares
        BY <1>0, <1>s, <2>1, <3>2, <4>5, OnlyAbout
      <4>7. Seen!Deliver(doc)
        BY <2>1, <3>3, <4>3, <4>4, <4>5, <4>6 DEF Seen!Deliver
      <4>8. QED BY <2>1, <4>7 DEF Seen!Next
    <3>5. CASE Target # "src"
      <4>1. disk'["src"][doc] = disk["src"][doc] /\ disk'[Target][doc] = part[Target][doc]
        BY <1>0, <2>1, <3>2, <3>5
      <4>2. Shown'[doc] = Shown[doc]
        BY <1>s, <2>1, <4>1 DEF ShownIs, Exists
      <4>3. Shown' = Shown
        BY <3>3, <4>2 DEF Shown
      <4>4. doc \in Spares'
        BY <1>0, <2>1, <3>1, <3>5, <4>1 DEF Spares, Holds, Exists, Good
      <4>5. CASE doc \in Spares
        <5>1. Spares' = Spares
          BY <1>0, <1>s, <2>1, <3>2, <4>4, <4>5, OnlyAbout
        <5>2. QED BY <2>1, <4>3, <5>1 DEF Seen!albumVars
      <4>6. CASE doc \notin Spares
        <5>1. Holds("src", doc)
          BY <1>0, <1>i, <2>1, <4>6 DEF NoLoss, Spares
        <5>2. Shown[doc] # "nothing"
          BY <1>s, <2>1, <5>1 DEF ShownIs, Holds
        <5>3. Spares' = Spares \cup {doc}
          BY <1>0, <1>s, <2>1, <3>2, <4>4, <4>6, OnlyAbout
        <5>4. Seen!Copy(doc)
          BY <2>1, <4>3, <5>2, <5>3 DEF Seen!Copy
        <5>5. QED BY <2>1, <5>4 DEF Seen!Next
      <4>7. QED BY <4>5, <4>6
    <3>6. QED BY <3>4, <3>5
  <2>3. QED BY <1>5, <1>u, <2>1, <2>2 DEF Rename
<1>6. CASE Outside({doc})
  <2>1. ASSUME NEW p \in Pics, UserSaves(p)
        PROVE  Seen!Save(p)
    <3>1. PICK t \in ShotThumbs : disk' = [disk EXCEPT !["src"][p] = Shot(p, shot[p] + 1, t)]
      BY <2>1 DEF UserSaves
    <3>2. \A e \in Places, q \in Pics :
            disk'[e][q] = IF e = "src" /\ q = p THEN Shot(p, shot[p] + 1, t) ELSE disk[e][q]
      BY <1>0, <2>1, <3>1, PutValue
    <3>3. \A q \in Pics : shot'[q] = IF q = p THEN shot[p] + 1 ELSE shot[q]
      BY <1>0, <2>1 DEF UserSaves
    <3>4. disk'["src"][p] # None /\ disk'["src"][p].by = "user"
      <4>1. shot[p] + 1 \in 1..MaxVer
        BY <1>0, <2>1, GalleryAssumption DEF UserSaves
      <4>2. Shot(p, shot[p] + 1, t) # None
        BY <4>1, ShotType, GalleryAssumption
      <4>3. disk'["src"][p] = Shot(p, shot[p] + 1, t)
        BY <1>0, <3>2
      <4>4. QED BY <4>2, <4>3 DEF Shot
    <3>5. Shown'[p] = "asSaved"
      BY <1>s, <3>4 DEF ShownIs, Exists
    <3>6. p \notin Spares'
      <4>1. ASSUME NEW e \in {"bak", "new"}, disk[e][p] # None, disk[e][p].of = p
            PROVE  disk[e][p].ver # shot'[p]
        <5>1. disk[e][p] \in Content /\ disk[e][p].ver <= shot[p]
          BY <1>0, <1>i, <4>1 DEF FromPast, Past, File
        <5>2. QED BY <1>0, <3>3, <5>1, GalleryAssumption DEF Content
      <4>2. \A e \in {"bak", "new"} : disk'[e][p] = disk[e][p]
        BY <1>0, <3>2
      <4>3. QED BY <4>1, <4>2 DEF Spares, Holds, Exists, Good
    <3>7. Shown' = [Shown EXCEPT ![p] = "asSaved"] /\ Spares' = Spares \ {p}
      BY <1>0, <1>s, <3>2, <3>3, <3>5, <3>6, OnlyAbout
    <3>8. QED BY <2>1, <3>7 DEF UserSaves, Seen!Save
  <2>2. ASSUME NEW p \in Pics, UserDeletes(p)
        PROVE  Seen!Delete(p)
    <3>1. \A e \in Places, q \in Pics :
            disk'[e][q] = IF e = "src" /\ q = p THEN None ELSE disk[e][q]
      BY <1>0, <2>2, PutValue DEF UserDeletes
    <3>2. shot' = shot /\ disk["src"][p] # None
      BY <2>2 DEF UserDeletes
    <3>3. Shown[p] # "nothing" /\ Shown'[p] = "nothing"
      BY <1>0, <1>s, <3>1, <3>2 DEF ShownIs, Exists
    <3>4. Shown' = [Shown EXCEPT ![p] = "nothing"]
      BY <1>0, <1>s, <3>1, <3>2, <3>3, OnlyAbout
    <3>5. Spares' = Spares
      BY <1>0, <3>1, <3>2 DEF Spares, Holds, Exists, Good
    <3>6. QED BY <2>2, <3>3, <3>4, <3>5 DEF UserDeletes, Seen!Delete
  <2>3. ASSUME NEW t \in TmpNames, CacheCleared(t)
        PROVE  UNCHANGED <<disk, shot, owned>>
    BY <2>3 DEF CacheCleared, userVars
  <2>5. ASSUME NEW d \in Places, NEW p \in Pics, UserRemovesPart(d, p)
        PROVE  UNCHANGED <<disk, shot, owned>>
    BY <2>5 DEF UserRemovesPart, userVars
  <2>4. QED BY <1>6, <1>u, <2>1, <2>2, <2>3, <2>5 DEF Outside, Seen!Next
<1>7. CASE UNCHANGED <<disk, shot, owned>>
  BY <1>7, <1>u
<1>8. QED
  BY <1>1, <1>3, <1>4, <1>5, <1>6, <1>7
  DEF Next, Worker, Loop, Copy, Environment, Meanwhile, StartRun, Finish, StoppedByUser, EndRun,
      TakeDoc, Crash, Inspect, BuildThumbnail, OpenSource, WriteOutput, NoBackup, CopyOriginal,
      CheckTarget, OpenTarget, Stream, CleanTmp, UserStops, Killed, SettingsChanged,
      UserChoosesSettings, vars, galleryVars, userVars

\* With safe settings and a user who leaves the picture at hand alone, AddThumbs
\* implements Album: whatever fails, and whenever it is stopped or killed, no copy is
\* given up before there is another, what is shown is the last version, as saved or
\* with its thumbnail, and no picture the user deleted comes back.
THEOREM AlbumKept == ASSUME SafeSettings, ~Meddles PROVE Spec => KeepsAlbum
<1>1. Init => AlbumInv /\ Seen!Init
  BY AlbumInvInit, AlbumStart
<1>2. AlbumInv /\ [Next]_vars => AlbumInv'
  BY AlbumInvNext
<1>3. AlbumInv /\ [Next]_vars => [Seen!Next]_(Seen!albumVars)
  BY AlbumStep
<1>4. QED BY <1>1, <1>2, <1>3, PTL DEF Spec, Seen!Spec, KeepsAlbum
=============================================================================
