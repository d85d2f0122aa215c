------------------------- MODULE PictureLife_proofs -------------------------
(***************************************************************************)
(* Proofs about both services over the same folders, which may run at the  *)
(* same time (any value of Recreates), for any pictures and settings.      *)
(***************************************************************************)
EXTENDS PictureLife, NoLoss_proofs

-----------------------------------------------------------------------------
\* What each service does alone.

\* Every step of the composition is one of AddThumbs, one of Sync, the end of
\* both, or one of the user's or the system's.
LEMMA LifeSteps ==
  ASSUME [LifeNext]_lifeVars
  PROVE  \/ (StartRun \/ Loop \/ UserStops) /\ UNCHANGED syncVars
         \/ (StartSync \/ SyncWorker \/ UserStopsSync) /\ UNCHANGED addVars
         \/ ProcessKilled
         \/ Meanwhile({doc, sdoc}) /\ UNCHANGED syncVars
         \/ SettingsChanged /\ UNCHANGED syncVars
         \/ UNCHANGED lifeVars
BY Zenon DEF LifeNext

\* Outside is monotonic in what it leaves alone.
LEMMA OutsideLess ==
  ASSUME NEW busy, NEW less, less \subseteq busy, Outside(busy) PROVE Outside(less)
BY DEF Outside

\* To AddThumbs what happens beside both jobs is what happens beside its own.
LEMMA MeanwhileNext == ASSUME Meanwhile({doc, sdoc}) PROVE Next
<1>1. Outside({doc})
  BY OutsideLess DEF Meanwhile
<1>2. QED BY <1>1 DEF Meanwhile, Next, Environment

LEMMA SettingsNext == ASSUME SettingsChanged PROVE Next
BY DEF Next, Environment

LEMMA JobNext == ASSUME StartRun \/ Loop \/ UserStops PROVE Next
BY DEF Next, Worker, Environment

\* Sync changes no file but the ones it deletes, from the folder it walks.
LEMMA SyncFiles ==
  ASSUME StartSync \/ SyncWorker \/ UserStopsSync
  PROVE  /\ UNCHANGED <<part, cache, shot, owned, prefs>>
         /\ \/ UNCHANGED disk
            \/ spc = "delete" /\ spc' = "next" /\ disk' = [disk EXCEPT ![folder][sdoc] = None]
<1>1. CASE DeleteDoc
  BY <1>1 DEF DeleteDoc, DeleteDocument, userVars
<1>2. CASE StartSync \/ CheckDoc \/ SyncStopped \/ SyncOutputs \/ SyncFinish \/ UserStopsSync
  BY <1>2 DEF StartSync, CheckDoc, SyncStopped, SyncOutputs, SyncFinish, UserStopsSync,
     galleryVars, userVars
<1>3. QED BY <1>1, <1>2 DEF SyncWorker

\* The types of Sync's own variables.
LEMMA SyncTypeNext ==
  ASSUME SyncTypeOK, StartSync \/ SyncWorker \/ UserStopsSync, None \notin Pics
  PROVE  SyncTypeOK'
<1> USE DEF SyncTypeOK
<1>1. CASE StartSync
  BY <1>1 DEF StartSync, ListFolder
<1>2. CASE CheckDoc
  BY <1>2 DEF CheckDoc
<1>3. CASE DeleteDoc
  BY <1>3 DEF DeleteDoc
<1>4. CASE SyncStopped
  BY <1>4 DEF SyncStopped, EndSync
<1>5. CASE SyncOutputs
  BY <1>5 DEF SyncOutputs, ListFolder
<1>6. CASE SyncFinish
  BY <1>6 DEF SyncFinish, EndSync
<1>7. CASE UserStopsSync
  BY <1>7 DEF UserStopsSync
<1>8. QED BY <1>1, <1>2, <1>3, <1>4, <1>5, <1>6, <1>7 DEF SyncWorker

-----------------------------------------------------------------------------
\* Types.

LEMMA LifeTypeNext == ASSUME LifeTypeOK, [LifeNext]_lifeVars PROVE LifeTypeOK'
<1>0. None \notin Pics /\ None \in File
  BY GalleryAssumption DEF File
<1>a. ASSUME UNCHANGED addVars, GalleryTypeOK' PROVE TypeOK'
  BY <1>a DEF addVars, LifeTypeOK, TypeOK
<1>b. ASSUME UNCHANGED syncVars PROVE SyncTypeOK'
  BY <1>b DEF syncVars, LifeTypeOK, SyncTypeOK
<1>1. CASE (StartRun \/ Loop \/ UserStops) /\ UNCHANGED syncVars
  <2>1. TypeOK'
    BY <1>1, JobNext, TypeNext DEF LifeTypeOK
  <2>2. QED BY <1>1, <1>b, <2>1 DEF LifeTypeOK
<1>2. CASE (StartSync \/ SyncWorker \/ UserStopsSync) /\ UNCHANGED addVars
  <2>1. SyncTypeOK'
    BY <1>0, <1>2, SyncTypeNext DEF LifeTypeOK
  <2>2. disk' \in [Places -> [Pics -> File]]
    <3>1. disk \in [Places -> [Pics -> File]] /\ folder \in Places
      BY DEF LifeTypeOK, TypeOK, GalleryTypeOK, SyncTypeOK, Places
    <3>2. spc = "delete" => sdoc \in Pics
      BY DEF LifeTypeOK, SyncTypeOK
    <3>3. spc = "delete" => [disk EXCEPT ![folder][sdoc] = None] \in [Places -> [Pics -> File]]
      BY <1>0, <3>1, <3>2, PutType
    <3>4. QED BY <1>2, <3>1, <3>3, SyncFiles
  <2>3. GalleryTypeOK'
    BY <1>2, <2>2, SyncFiles DEF LifeTypeOK, TypeOK, GalleryTypeOK
  <2>4. QED BY <1>2, <1>a, <2>1, <2>3 DEF LifeTypeOK
<1>3. CASE ProcessKilled
  <2>1. GalleryTypeOK'
    BY <1>3 DEF ProcessKilled, EndRun, galleryVars, userVars, LifeTypeOK, TypeOK, GalleryTypeOK
  <2>2. TypeOK'
    BY <1>0, <1>3, <2>1 DEF ProcessKilled, EndRun, LifeTypeOK, TypeOK, Steps
  <2>3. SyncTypeOK'
    BY <1>0, <1>3 DEF ProcessKilled, EndSync, LifeTypeOK, SyncTypeOK
  <2>4. QED BY <2>2, <2>3 DEF LifeTypeOK
<1>4. CASE Meanwhile({doc, sdoc}) /\ UNCHANGED syncVars
  <2>1. TypeOK'
    BY <1>4, MeanwhileNext, TypeNext DEF LifeTypeOK
  <2>2. QED BY <1>4, <1>b, <2>1 DEF LifeTypeOK
<1>5. CASE SettingsChanged /\ UNCHANGED syncVars
  <2>1. TypeOK'
    BY <1>5, SettingsNext, TypeNext DEF LifeTypeOK
  <2>2. QED BY <1>5, <1>b, <2>1 DEF LifeTypeOK
<1>6. CASE UNCHANGED lifeVars
  <2>1. GalleryTypeOK'
    BY <1>6 DEF lifeVars, vars, galleryVars, userVars, LifeTypeOK, TypeOK, GalleryTypeOK
  <2>2. QED BY <1>6, <1>a, <1>b, <2>1 DEF LifeTypeOK, lifeVars, vars
<1>7. QED BY <1>1, <1>2, <1>3, <1>4, <1>5, <1>6, LifeSteps

\* The variables of both services keep their types, whichever steps of the two
\* threads, the user and the system come between one another.
THEOREM LifeTypes == LifeSpec => []LifeTypeOK
<1>1. LifeInit => LifeTypeOK
  <2>1. LifeInit => TypeOK
    BY InitType DEF LifeInit
  <2>2. LifeInit => SyncTypeOK
    BY GalleryAssumption DEF LifeInit, SyncInit, SyncTypeOK
  <2>3. QED BY <2>1, <2>2 DEF LifeTypeOK
<1>2. LifeTypeOK /\ [LifeNext]_lifeVars => LifeTypeOK'
  BY LifeTypeNext
<1>3. QED BY <1>1, <1>2, PTL DEF LifeSpec

-----------------------------------------------------------------------------
\* Outputs in the working directory.

CopyOnly == \A q \in PrefSpace : ~q.inPlace

\* Every picture the user did not delete is in the picture folder as the user
\* saved it last.
SourceKept == \A p \in owned : Holds("src", p) /\ disk["src"][p].by = "user"
OutputsElsewhere == doc # None => dest = "new"

\* What Sync is about to delete the files of, the user deleted.
DeletedByUser == spc = "delete" => sdoc \notin owned

\* A file put into another folder leaves the picture folder as it is.
LEMMA PutElsewhere ==
  ASSUME disk \in [Places -> [Pics -> File]], NEW d \in Places \ {"src"}, NEW p, NEW f,
         disk' = [disk EXCEPT ![d][p] = f]
  PROVE  disk'["src"] = disk["src"]
BY DEF Places

\* AddThumbs never writes to the picture folder.
LEMMA WorkerSpares ==
  ASSUME CopyOnly, TypeOK, OutputsElsewhere, StartRun \/ Loop \/ UserStops
  PROVE  disk'["src"] = disk["src"] /\ UNCHANGED <<shot, owned>> /\ OutputsElsewhere'
<1>1. /\ disk \in [Places -> [Pics -> File]] /\ prefs \in PrefSpace
      /\ {"bak", "new"} \subseteq Places \ {"src"}
      /\ (pc \in {"idle", "next"}) <=> (doc = None)
  BY DEF TypeOK, GalleryTypeOK, Places
<1>2. doc # None => Target \in Places \ {"src"}
  BY <1>1 DEF Target, OutputsElsewhere
<1>3. CASE MoveOriginal
  BY <1>1, <1>3 DEF CopyOnly, MoveOriginal
<1>4. CASE DeleteTarget
  <2>1. \/ UNCHANGED disk
        \/ disk' = [disk EXCEPT !["new"][doc] = None]
    BY <1>1, <1>4 DEF DeleteTarget, DeleteDocument, OutputsElsewhere
  <2>2. disk'["src"] = disk["src"]
    BY <1>1, <2>1, PutElsewhere
  <2>3. QED BY <1>4, <2>2 DEF DeleteTarget, Continue, userVars, OutputsElsewhere
<1>5. CASE Swap
  <2>1. UNCHANGED disk \/ disk' = [disk EXCEPT ![Target][doc] = None]
    BY <1>5 DEF Swap, DeleteDocument
  <2>2. disk'["src"] = disk["src"]
    BY <1>1, <1>2, <1>5, <2>1, PutElsewhere DEF Swap
  <2>3. QED BY <1>5, <2>2 DEF Swap, GoTo, Continue, userVars, OutputsElsewhere
<1>6. CASE Rename
  <2>1. UNCHANGED disk \/ disk' = [disk EXCEPT ![Target][doc] = part[Target][doc]]
    BY <1>6 DEF Rename, RenamePart
  <2>2. disk'["src"] = disk["src"]
    BY <1>1, <1>2, <1>6, <2>1, PutElsewhere DEF Rename
  <2>3. QED BY <1>6, <2>2 DEF Rename, GoTo, Continue, userVars, OutputsElsewhere
<1>7. CASE TakeDoc
  BY <1>1, <1>7 DEF TakeDoc, galleryVars, userVars, CopyOnly, OutputsElsewhere
<1>8. CASE OpenTarget
  BY <1>8 DEF OpenTarget, galleryVars, userVars, OutputsElsewhere
<1>9. CASE \/ StartRun \/ Finish \/ StoppedByUser \/ Inspect \/ BuildThumbnail
           \/ OpenSource \/ WriteOutput \/ NoBackup \/ CopyOriginal \/ CheckTarget \/ Stream
           \/ CleanTmp \/ UserStops
  BY <1>9 DEF StartRun, Finish, StoppedByUser, Inspect, BuildThumbnail, OpenSource,
     WriteOutput, NoBackup, CopyOriginal, CheckTarget, Stream, CleanTmp, UserStops, EndRun,
     GoTo, Continue, docVars, galleryVars, userVars, OutputsElsewhere
<1>10. QED BY <1>3, <1>4, <1>5, <1>6, <1>7, <1>8, <1>9 DEF Loop, Copy

\* Saving and deleting pictures keeps SourceKept.
LEMMA OutsideKept ==
  ASSUME TypeOK, SourceKept, NEW busy, Outside(busy) PROVE SourceKept'
<1> USE DEF SourceKept, Holds, Exists, Good
<1>1. /\ disk \in [Places -> [Pics -> File]] /\ "src" \in Places
      /\ shot \in [Pics -> 0..MaxVer] /\ owned \subseteq Pics /\ None \notin Content
  BY GalleryAssumption DEF TypeOK, GalleryTypeOK, Places
<1>2. ASSUME NEW p \in Pics, UserSaves(p) PROVE SourceKept'
  <2>1. PICK t \in ShotThumbs : disk' = [disk EXCEPT !["src"][p] = Shot(p, shot[p] + 1, t)]
    BY <1>2 DEF UserSaves
  <2>2. \A q \in Pics : /\ disk'["src"][q] = IF q = p THEN Shot(p, shot[p] + 1, t)
                                                     ELSE disk["src"][q]
                        /\ shot'[q] = IF q = p THEN shot[p] + 1 ELSE shot[q]
    BY <1>1, <1>2, <2>1 DEF UserSaves
  <2>3. shot[p] + 1 \in 1..MaxVer
    BY <1>1, <1>2, GalleryAssumption DEF UserSaves
  <2>4. Shot(p, shot[p] + 1, t) # None
    BY <1>1, <2>3, ShotType
  <2>5. /\ Shot(p, shot[p] + 1, t).of = p /\ Shot(p, shot[p] + 1, t).ver = shot[p] + 1
        /\ Shot(p, shot[p] + 1, t).whole /\ Shot(p, shot[p] + 1, t).by = "user"
    BY DEF Shot
  <2>6. owned' = owned \cup {p}
    BY <1>2 DEF UserSaves
  <2>7. ASSUME NEW q \in owned' PROVE Holds("src", q)' /\ disk'["src"][q].by = "user"
    <3>1. CASE q = p
      BY <2>2, <2>4, <2>5, <3>1
    <3>2. CASE q # p
      <4>1. q \in owned /\ q \in Pics
        BY <1>1, <2>6, <3>2
      <4>2. disk'["src"][q] = disk["src"][q] /\ shot'[q] = shot[q]
        BY <2>2, <3>2, <4>1
      <4>3. QED BY <4>1, <4>2
    <3>3. QED BY <3>1, <3>2
  <2>8. QED BY <2>7
<1>3. ASSUME NEW p \in Pics, UserDeletes(p) PROVE SourceKept'
  BY <1>1, <1>3 DEF UserDeletes
<1>4. ASSUME NEW t \in TmpNames, CacheCleared(t) PROVE SourceKept'
  BY <1>4 DEF CacheCleared, userVars
<1>5. ASSUME NEW d \in Places, NEW p \in Pics, UserRemovesPart(d, p) PROVE SourceKept'
  BY <1>5 DEF UserRemovesPart, userVars
<1>6. QED BY <1>2, <1>3, <1>4, <1>5 DEF Outside

\* A picture folder that is left alone goes on keeping the pictures.
LEMMA KeptAlone ==
  ASSUME SourceKept, disk'["src"] = disk["src"], UNCHANGED <<shot, owned>>
  PROVE  SourceKept'
BY DEF SourceKept, Holds, Exists, Good

LEMMA CopyNext ==
  ASSUME CopyOnly, LifeTypeOK, SourceKept, OutputsElsewhere, [LifeNext]_lifeVars
  PROVE  SourceKept' /\ OutputsElsewhere'
<1>0. /\ TypeOK /\ disk \in [Places -> [Pics -> File]]
      /\ folder \in Places \ {"src"}
  BY DEF LifeTypeOK, TypeOK, GalleryTypeOK, SyncTypeOK, Places
<1>a. ASSUME UNCHANGED addVars PROVE OutputsElsewhere'
  BY <1>a DEF addVars, OutputsElsewhere
<1>1. CASE (StartRun \/ Loop \/ UserStops) /\ UNCHANGED syncVars
  BY <1>0, <1>1, WorkerSpares, KeptAlone
<1>2. CASE (StartSync \/ SyncWorker \/ UserStopsSync) /\ UNCHANGED addVars
  <2>1. disk'["src"] = disk["src"] /\ UNCHANGED <<shot, owned>>
    BY <1>0, <1>2, SyncFiles, PutElsewhere
  <2>2. QED BY <1>2, <1>a, <2>1, KeptAlone
<1>3. CASE ProcessKilled
  <2>1. disk'["src"] = disk["src"] /\ UNCHANGED <<shot, owned>> /\ OutputsElsewhere'
    BY <1>3 DEF ProcessKilled, EndRun, galleryVars, userVars, OutputsElsewhere
  <2>2. QED BY <2>1, KeptAlone
<1>4. CASE Meanwhile({doc, sdoc}) /\ UNCHANGED syncVars
  <2>1. Outside({doc, sdoc}) /\ UNCHANGED <<doc, dest>>
    BY <1>4 DEF Meanwhile
  <2>2. QED BY <1>0, <2>1, OutsideKept DEF OutputsElsewhere
<1>5. CASE SettingsChanged /\ UNCHANGED syncVars
  <2>1. disk'["src"] = disk["src"] /\ UNCHANGED <<shot, owned>> /\ UNCHANGED addVars
    BY <1>5 DEF SettingsChanged, UserChoosesSettings
  <2>2. QED BY <1>a, <2>1, KeptAlone
<1>6. CASE UNCHANGED lifeVars
  <2>1. disk'["src"] = disk["src"] /\ UNCHANGED <<shot, owned>> /\ UNCHANGED addVars
    BY <1>6 DEF lifeVars, vars, galleryVars, userVars
  <2>2. QED BY <1>a, <2>1, KeptAlone
<1>7. QED BY <1>1, <1>2, <1>3, <1>4, <1>5, <1>6, LifeSteps

LEMMA CopyInit == ASSUME LifeInit PROVE SourceKept /\ OutputsElsewhere /\ DeletedByUser
<1>1. PICK t \in ShotThumbs :
        disk = [d \in Places |-> [p \in Pics |->
                  IF d = "src" /\ p \in owned THEN Shot(p, 1, t) ELSE None]]
  BY DEF LifeInit, Init, GalleryInit
<1>2. 1 \in 1..MaxVer /\ owned \subseteq Pics /\ None \notin Content
  BY GalleryAssumption DEF LifeInit, Init, GalleryInit
<1>3. ASSUME NEW p \in owned PROVE Holds("src", p) /\ disk["src"][p].by = "user"
  <2>1. disk["src"][p] = Shot(p, 1, t) /\ shot[p] = 1
    BY <1>1, <1>2 DEF Places, LifeInit, Init, GalleryInit
  <2>2. Shot(p, 1, t) # None
    BY <1>2, ShotType
  <2>3. QED BY <2>1, <2>2 DEF Holds, Exists, Good, Shot
<1>4. QED BY <1>3 DEF SourceKept, OutputsElsewhere, DeletedByUser, LifeInit, Init, SyncInit

\* With outputs in the working directory no step of either job, at whatever
\* moment of the other's, touches what the user saved; not even when the user
\* changes the very picture being worked on.
THEOREM OriginalUntouched == ASSUME CopyOnly PROVE LifeSpec => []OriginalKept
<1>1. LifeInit => SourceKept /\ OutputsElsewhere
  BY CopyInit
<1>2. LifeTypeOK /\ SourceKept /\ OutputsElsewhere /\ [LifeNext]_lifeVars
        => SourceKept' /\ OutputsElsewhere'
  BY CopyNext
<1>3. SourceKept => OriginalKept
  BY DEF SourceKept, OriginalKept
<1>4. QED BY <1>1, <1>2, <1>3, LifeTypes, PTL DEF LifeSpec

-----------------------------------------------------------------------------
\* Synchronizing.

\* Between the look at the picture folder and the deletion the user does not save
\* the picture again (~Meddles), and AddThumbs creates none.
LEMMA DeletedNext ==
  ASSUME CopyOnly, ~Meddles, LifeTypeOK, SourceKept, OutputsElsewhere, DeletedByUser,
         [LifeNext]_lifeVars
  PROVE  DeletedByUser'
<1> USE DEF DeletedByUser
<1>1. CASE (StartRun \/ Loop \/ UserStops) /\ UNCHANGED syncVars
  <2>1. UNCHANGED owned
    BY <1>1, WorkerSpares DEF LifeTypeOK
  <2>2. QED BY <1>1, <2>1 DEF syncVars
<1>2. CASE (StartSync \/ SyncWorker \/ UserStopsSync) /\ UNCHANGED addVars
  <2>1. UNCHANGED owned
    BY <1>2, SyncFiles
  <2>2. CASE CheckDoc
    <3>1. \A p \in Pics : ~Exists("src", p) => p \notin owned
      BY DEF SourceKept, Holds
    <3>2. stodo \subseteq Pics
      BY DEF LifeTypeOK, SyncTypeOK
    <3>3. QED BY <2>1, <2>2, <3>1, <3>2 DEF CheckDoc
  <2>3. CASE UserStopsSync
    BY <2>1, <2>3 DEF UserStopsSync
  <2>4. CASE StartSync \/ DeleteDoc \/ SyncStopped \/ SyncOutputs \/ SyncFinish
    BY <2>4 DEF StartSync, DeleteDoc, SyncStopped, SyncOutputs, SyncFinish, ListFolder, EndSync
  <2>5. QED BY <1>2, <2>2, <2>3, <2>4 DEF SyncWorker
<1>3. CASE ProcessKilled
  BY <1>3 DEF ProcessKilled, EndSync
<1>4. CASE Meanwhile({doc, sdoc}) /\ UNCHANGED syncVars
  <2>1. owned' \ owned \subseteq Pics \ {sdoc}
    BY <1>4 DEF Meanwhile, Outside, UserSaves, UserDeletes, UserRemovesPart, CacheCleared, userVars
  <2>2. QED BY <1>4, <2>1 DEF syncVars
<1>5. CASE SettingsChanged /\ UNCHANGED syncVars
  BY <1>5 DEF SettingsChanged, UserChoosesSettings, syncVars
<1>6. CASE UNCHANGED lifeVars
  BY <1>6 DEF lifeVars, vars, galleryVars, userVars, syncVars
<1>7. QED BY <1>1, <1>2, <1>3, <1>4, <1>5, <1>6, LifeSteps

\* With outputs in the working directory, a backup Sync removes is that of a
\* picture the user deleted: what AddThumbs does at the same time never makes a
\* picture look deleted, at any moment of either job.
THEOREM SyncOnlyFollows == ASSUME CopyOnly, ~Meddles PROVE LifeSpec => SyncFollowsUser
<1>1. LifeInit => SourceKept /\ OutputsElsewhere /\ DeletedByUser
  BY CopyInit
<1>2. LifeTypeOK /\ SourceKept /\ OutputsElsewhere /\ DeletedByUser /\ [LifeNext]_lifeVars
        => SourceKept' /\ OutputsElsewhere' /\ DeletedByUser'
  BY CopyNext, DeletedNext
<1>3. LifeTypeOK /\ DeletedByUser /\ [LifeNext]_lifeVars
        => [\A p \in Pics :
              (spc = "delete" /\ spc' # "delete" /\ Exists("bak", p) /\ disk'["bak"][p] = None)
                => p \notin owned]_lifeVars
  <2> SUFFICES ASSUME LifeTypeOK, DeletedByUser, [LifeNext]_lifeVars, NEW p \in Pics,
                      spc = "delete", spc' # "delete",
                      Exists("bak", p), disk'["bak"][p] = None
               PROVE  p \notin owned
    OBVIOUS
  <2>1. (StartSync \/ SyncWorker \/ UserStopsSync) \/ UNCHANGED disk
    <3>1. (StartRun \/ Loop \/ UserStops) /\ UNCHANGED syncVars => FALSE
      BY DEF syncVars
    <3>2. ProcessKilled => UNCHANGED disk
      BY DEF ProcessKilled, EndRun, galleryVars
    <3>3. Meanwhile({doc, sdoc}) /\ UNCHANGED syncVars => FALSE
      BY DEF syncVars
    <3>4. SettingsChanged => UNCHANGED disk
      BY DEF SettingsChanged, UserChoosesSettings
    <3>5. UNCHANGED lifeVars => FALSE
      BY DEF lifeVars, syncVars
    <3>6. QED BY <3>1, <3>2, <3>3, <3>4, <3>5, LifeSteps
  <2>2. ~UNCHANGED disk
    BY DEF Exists
  <2>3. disk' = [disk EXCEPT ![folder][sdoc] = None]
    BY <2>1, <2>2, SyncFiles
  <2>4. disk \in [Places -> [Pics -> File]] /\ folder \in Places
    BY DEF LifeTypeOK, TypeOK, GalleryTypeOK, SyncTypeOK, Places
  <2>5. p = sdoc
    BY <2>3, <2>4 DEF Exists, Places
  <2>6. QED BY <2>5 DEF DeletedByUser
<1>4. QED BY <1>1, <1>2, <1>3, LifeTypes, PTL DEF LifeSpec, SyncFollowsUser

-----------------------------------------------------------------------------
(***************************************************************************)
(* What AddThumbs keeps when it runs alone it keeps while Sync deletes     *)
(* files beside it, in any mode: OwnPicture, OutputComplete, NothingToRedo.*)
(***************************************************************************)

\* A deletion by Sync in one of its two folders, or the end of a job that was
\* already over.
Beside ==
  /\ UNCHANGED <<part, cache, shot, owned, prefs, pc, doc, dest, copying, existed, read>>
  /\ \/ UNCHANGED disk
     \/ \E d \in {"bak", "new"}, p \in Pics : disk' = [disk EXCEPT ![d][p] = None]

\* To AddThumbs, Sync is one more hand that deletes files.
LEMMA LifeProjects ==
  ASSUME LifeTypeOK, [LifeNext]_lifeVars PROVE [Next]_vars \/ Beside
<1>1. CASE (StartRun \/ Loop \/ UserStops) /\ UNCHANGED syncVars
  BY <1>1, JobNext
<1>2. CASE (StartSync \/ SyncWorker \/ UserStopsSync) /\ UNCHANGED addVars
  <2>1. spc = "delete" => sdoc \in Pics /\ folder \in {"bak", "new"}
    BY DEF LifeTypeOK, SyncTypeOK
  <2>2. UNCHANGED disk \/ \E d \in {"bak", "new"}, p \in Pics : disk' = [disk EXCEPT ![d][p] = None]
    BY <1>2, <2>1, SyncFiles
  <2>3. UNCHANGED <<pc, doc, dest, copying, existed, read>>
    BY <1>2 DEF addVars
  <2>4. QED BY <1>2, <2>2, <2>3, SyncFiles DEF Beside
<1>3. CASE ProcessKilled
  <2>1. CASE pc = "idle"
    <3>1. doc = None /\ read = None
      BY <2>1 DEF LifeTypeOK, TypeOK
    <3>2. QED BY <1>3, <2>1, <3>1 DEF ProcessKilled, EndRun, Beside, galleryVars, userVars
  <2>2. CASE pc # "idle"
    BY <1>3, <2>2 DEF ProcessKilled, Killed, Next, Environment
  <2>3. QED BY <2>1, <2>2
<1>4. CASE Meanwhile({doc, sdoc}) /\ UNCHANGED syncVars
  BY <1>4, MeanwhileNext
<1>5. CASE SettingsChanged /\ UNCHANGED syncVars
  BY <1>5, SettingsNext
<1>6. CASE UNCHANGED lifeVars
  BY <1>6 DEF lifeVars
<1>7. QED BY <1>1, <1>2, <1>3, <1>4, <1>5, <1>6, Zenon DEF LifeNext

\* Whatever both services do at the same time, no file is delivered under the name
\* of another picture.
THEOREM OwnBesideSync == ASSUME LibexifErrorsCount PROVE LifeSpec => []OwnPicture
<1>1. LifeInit => OwnInv
  BY OwnInit DEF LifeInit
<1>2. LifeTypeOK /\ OwnInv /\ [LifeNext]_lifeVars => OwnInv'
  <2> SUFFICES ASSUME LifeTypeOK, OwnInv, [LifeNext]_lifeVars PROVE OwnInv'
    OBVIOUS
  <2>1. CASE [Next]_vars
    BY <2>1, OwnNext DEF LifeTypeOK
  <2>2. CASE Beside
    <3>1. disk \in [Places -> [Pics -> File]] /\ {"bak", "new"} \subseteq Places
      BY DEF LifeTypeOK, TypeOK, GalleryTypeOK, Places
    <3>2. \A d \in Places, p \in Pics : Shows(disk'[d][p], p)
      <4>1. \A d \in Places, p \in Pics : Shows(disk[d][p], p)
        BY DEF OwnInv
      <4>2. ASSUME NEW e \in {"bak", "new"}, NEW q \in Pics, disk' = [disk EXCEPT ![e][q] = None]
            PROVE  \A d \in Places, p \in Pics : Shows(disk'[d][p], p)
        <5>1. Shows(None, q)
          BY DEF Shows
        <5>2. \A d \in Places, p \in Pics : Shows([disk EXCEPT ![e][q] = None][d][p], p)
          BY <3>1, <4>1, <5>1, PutOwn
        <5>3. QED BY <4>2, <5>2
      <4>3. QED BY <2>2, <4>1, <4>2 DEF Beside
    <3>3. /\ part' = part /\ cache' = cache /\ pc' = pc /\ doc' = doc
          /\ read' = read /\ copying' = copying
      BY <2>2 DEF Beside
    <3>4. QED BY <3>2, <3>3 DEF OwnInv, CopySteps, Shows, Tmp
  <2>3. QED BY <2>1, <2>2, LifeProjects
<1>3. OwnInv => OwnPicture
  BY DEF OwnInv, OwnPicture, Exists, Shows
<1>4. QED BY <1>1, <1>2, <1>3, LifeTypes, PTL DEF LifeSpec

\* A deletion breaks no file.
LEMMA CompleteBeside == ASSUME LifeTypeOK, CompleteInv, Beside PROVE CompleteInv'
<1>1. disk \in [Places -> [Pics -> File]] /\ {"bak", "new"} \subseteq Places
  BY DEF LifeTypeOK, TypeOK, GalleryTypeOK, Places
<1>2. \A d \in Places, p \in Pics : Complete(disk'[d][p])
  <2>1. \A d \in Places, p \in Pics : Complete(disk[d][p])
    BY DEF CompleteInv
  <2>2. ASSUME NEW e \in {"bak", "new"}, NEW q \in Pics, disk' = [disk EXCEPT ![e][q] = None]
        PROVE  \A d \in Places, p \in Pics : Complete(disk'[d][p])
    <3>1. Complete(None)
      BY DEF Complete
    <3>2. \A d \in Places, p \in Pics : Complete([disk EXCEPT ![e][q] = None][d][p])
      BY <1>1, <2>1, <3>1, PutComplete
    <3>3. QED BY <2>2, <3>2
  <2>3. QED BY <2>1, <2>2 DEF Beside
<1>3. /\ part' = part /\ cache' = cache /\ pc' = pc /\ doc' = doc
      /\ dest' = dest /\ copying' = copying /\ read' = read
  BY DEF Beside
<1>4. QED BY <1>2, <1>3 DEF CompleteInv, CopySteps, Complete, Tmp, Target

\* Nor is any file ever seen half written, or an output without its thumbnail;
\* what the user saves while the picture is read may only mix two versions in it.
THEOREM CompleteBesideSync == ASSUME ErrorsCount PROVE LifeSpec => []OutputComplete
<1>1. LifeInit => CompleteInv
  BY CompleteInit DEF LifeInit
<1>2. LifeTypeOK /\ CompleteInv /\ [LifeNext]_lifeVars => CompleteInv'
  <2> SUFFICES ASSUME LifeTypeOK, CompleteInv, [LifeNext]_lifeVars PROVE CompleteInv'
    OBVIOUS
  <2>1. CASE [Next]_vars
    BY <2>1, CompleteNext DEF LifeTypeOK
  <2>2. CASE Beside
    BY <2>2, CompleteBeside
  <2>3. QED BY <2>1, <2>2, LifeProjects
<1>3. CompleteInv => OutputComplete
  BY DEF CompleteInv, OutputComplete, Exists, Complete
<1>4. QED BY <1>1, <1>2, <1>3, LifeTypes, PTL DEF LifeSpec

\* Nor is a picture that has its thumbnail done again.
THEOREM NothingRedoneBesideSync == ASSUME Skips, ~Meddles PROVE LifeSpec => NothingToRedo
<1>1. LifeInit => RedoInv
  BY RedoInit DEF LifeInit
<1>2. LifeTypeOK /\ RedoInv /\ [LifeNext]_lifeVars
        => /\ RedoInv'
           /\ UNCHANGED <<shot, owned>> =>
                \A p \in Pics : Exists("src", p) /\ disk["src"][p].thumb = "yes"
                                   => disk'["src"][p] = disk["src"][p]
  <2> SUFFICES ASSUME LifeTypeOK, RedoInv, [LifeNext]_lifeVars
               PROVE  /\ RedoInv'
                      /\ UNCHANGED <<shot, owned>> =>
                           \A p \in Pics : Exists("src", p) /\ disk["src"][p].thumb = "yes"
                                              => disk'["src"][p] = disk["src"][p]
    OBVIOUS
  <2>1. CASE [Next]_vars
    BY <2>1, RedoNext DEF LifeTypeOK
  <2>2. CASE Beside
    <3>1. disk \in [Places -> [Pics -> File]] /\ {"bak", "new"} \subseteq Places \ {"src"}
      BY DEF LifeTypeOK, TypeOK, GalleryTypeOK, Places
    <3>2. disk'["src"] = disk["src"]
      BY <2>2, <3>1, PutElsewhere DEF Beside
    <3>3. QED BY <2>2, <3>2 DEF Beside, RedoInv, Exists
  <2>3. QED BY <2>1, <2>2, LifeProjects
<1>3. LifeTypeOK /\ RedoInv /\ [LifeNext]_lifeVars => RedoInv'
  BY <1>2
<1>4. LifeTypeOK /\ RedoInv /\ [LifeNext]_lifeVars =>
        [UNCHANGED <<shot, owned>> =>
           \A p \in Pics : Exists("src", p) /\ disk["src"][p].thumb = "yes"
                              => disk'["src"][p] = disk["src"][p]]_vars
  BY <1>2
<1>5. QED BY <1>1, <1>3, <1>4, LifeTypes, PTL DEF LifeSpec, NothingToRedo

-----------------------------------------------------------------------------
(***************************************************************************)
(* Both services implement Album when outputs go to the working directory: *)
(* Sync gives up copies, but only of pictures the user deleted.            *)
(***************************************************************************)
Follows == \A d \in Places, p \in Pics :
             \/ disk'[d][p] = disk[d][p]
             \/ d # "src" /\ p \notin owned /\ disk'[d][p] = None

LEMMA LifeFollows ==
  ASSUME LifeTypeOK, DeletedByUser, [LifeNext]_lifeVars
  PROVE  [Next]_vars \/ (Beside /\ Follows)
<1>0. disk \in [Places -> [Pics -> File]]
  BY DEF LifeTypeOK, TypeOK, GalleryTypeOK
<1>1. UNCHANGED disk => Follows
  BY DEF Follows
<1>2. CASE (StartSync \/ SyncWorker \/ UserStopsSync) /\ UNCHANGED addVars
  <2>1. spc = "delete" => sdoc \in Pics \ owned /\ folder \in Places \ {"src"}
    BY DEF LifeTypeOK, SyncTypeOK, DeletedByUser, Places
  <2>2. ASSUME spc = "delete", disk' = [disk EXCEPT ![folder][sdoc] = None] PROVE Follows
    BY <1>0, <2>1, <2>2 DEF Follows
  <2>3. Follows
    BY <1>1, <1>2, <2>2, SyncFiles
  <2>4. QED BY <2>3, LifeProjects
<1>3. CASE (StartRun \/ Loop \/ UserStops) /\ UNCHANGED syncVars
  BY <1>3, JobNext
<1>4. CASE Meanwhile({doc, sdoc}) /\ UNCHANGED syncVars
  BY <1>4, MeanwhileNext
<1>5. CASE ProcessKilled \/ SettingsChanged \/ UNCHANGED lifeVars
  <2>1. UNCHANGED disk
    BY <1>5 DEF ProcessKilled, EndRun, SettingsChanged, UserChoosesSettings, lifeVars, vars,
       galleryVars
  <2>2. QED BY <1>1, <2>1, LifeProjects
<1>6. QED BY <1>2, <1>3, <1>4, <1>5, LifeSteps

\* What Sync deletes is nothing AddThumbs relies on.
LEMMA AlbumInvBeside ==
  ASSUME LifeTypeOK, LifeTypeOK', AlbumInv, Beside, Follows
  PROVE  AlbumInv'
<1>0. /\ owned \subseteq Pics /\ {"src", "bak", "new"} = Places
      /\ dest \in {"src", "new"} /\ copying \in {"backup", "deliver"}
      /\ doc \in Pics \cup {None} /\ None \notin Pics
      /\ (pc \in {"idle", "next"}) <=> (doc = None)
      /\ UNCHANGED <<part, cache, shot, owned, prefs, pc, doc, dest, copying, existed, read>>
  BY GalleryAssumption DEF LifeTypeOK, TypeOK, GalleryTypeOK, Places, Beside
<1>1. Belongs /\ (doc # None => doc \in owned)
  BY DEF AlbumInv, Belongs
<1>2. /\ \A d \in Places, p \in owned : disk'[d][p] = disk[d][p]
      /\ \A p \in Pics : disk'["src"][p] = disk["src"][p]
      /\ \A d \in Places, p \in Pics : disk'[d][p] \in {disk[d][p], None}
  BY <1>0 DEF Follows
<1>3. TypeOK' /\ CompleteInv'
  BY CompleteBeside DEF LifeTypeOK, AlbumInv
<1>4. FromPast' /\ Belongs' /\ Made'
  BY <1>0, <1>1, <1>2 DEF AlbumInv, FromPast, Past, Belongs, Exists, Made, ByApp, CopySteps, Tmp
<1>5. NoLoss' /\ SourceGood' /\ SourceThere'
  BY <1>0, <1>1, <1>2
  DEF AlbumInv, KeepInv, NoLoss, SourceGood, SourceThere, Holds, Exists, Good, CopySteps
<1>6. OutputGood'
  BY <1>0 DEF AlbumInv, KeepInv, OutputGood, Good, CopySteps, Tmp, Target
<1>7. TargetKnown'
  <2>1. doc # None => \A d \in Places : disk'[d][doc] = disk[d][doc]
    BY <1>1, <1>2
  <2>2. Target' = Target /\ Target \in Places
    BY <1>0 DEF Target
  <2>3. QED BY <1>0, <2>1, <2>2 DEF AlbumInv, KeepInv, TargetKnown, Exists
<1>8. EvictSafe' /\ OutputOnly'
  BY <1>0, <1>1, <1>2
  DEF AlbumInv, KeepInv, EvictSafe, Spare, OutputOnly, Holds, Exists, Good
<1>9. QED BY <1>3, <1>4, <1>5, <1>6, <1>7, <1>8 DEF AlbumInv, KeepInv

LEMMA AlbumBeside ==
  ASSUME LifeTypeOK, AlbumInv, AlbumInv', Beside, Follows
  PROVE  [Seen!Next]_(Seen!albumVars)
<1>0. /\ disk \in [Places -> [Pics -> File]] /\ {"src", "bak", "new"} = Places
      /\ UNCHANGED <<shot, owned>>
  BY DEF LifeTypeOK, TypeOK, GalleryTypeOK, Places, Beside
<1>1. ShownIs /\ ShownIs'
  BY ShownWhole, PTL
<1>2. \A p \in Pics : Shown'[p] = Shown[p]
  BY <1>0, <1>1 DEF ShownIs, Follows, Exists
<1>3. Shown' = Shown
  BY <1>2 DEF Shown
<1>4. CASE UNCHANGED disk
  <2>1. Spares' = Spares
    BY <1>0, <1>4 DEF Spares, Holds, Exists, Good
  <2>2. QED BY <1>0, <1>3, <2>1 DEF Seen!albumVars
<1>5. ASSUME NEW e \in {"bak", "new"}, NEW q \in Pics, disk' = [disk EXCEPT ![e][q] = None]
      PROVE  [Seen!Next]_(Seen!albumVars)
  <2>1. \A d \in Places, p \in Pics : disk'[d][p] = IF d = e /\ p = q THEN None ELSE disk[d][p]
    BY <1>0, <1>5
  <2>2. CASE disk[e][q] = None
    <3>1. \A d \in Places, p \in Pics : disk'[d][p] = disk[d][p]
      BY <2>1, <2>2
    <3>2. Spares' = Spares
      BY <1>0, <3>1 DEF Spares, Holds, Exists, Good
    <3>3. QED BY <1>0, <1>3, <3>2 DEF Seen!albumVars
  <2>3. CASE disk[e][q] # None
    <3>1. q \notin owned
      BY <1>0, <1>5, <2>1, <2>3 DEF Follows
    <3>2. \A p \in Pics \ {q}, d \in Places : disk'[d][p] = disk[d][p]
      BY <2>1
    <3>3. \A p \in Pics \ {q} : p \in Spares' <=> p \in Spares
      BY <1>0, <3>2 DEF Spares, Holds, Exists, Good
    <3>4. q \in Spares' => q \in Spares
      BY <1>0, <1>5, <2>1 DEF Spares, Holds, Exists, Good
    <3>5. Spares \subseteq Pics /\ Spares' \subseteq Pics
      BY DEF Spares
    <3>6. Spares' = Spares \/ Spares' = Spares \ {q}
      BY <3>3, <3>4, <3>5
    <3>7. CASE Spares' = Spares
      BY <1>0, <1>3, <3>7 DEF Seen!albumVars
    <3>8. CASE Spares' = Spares \ {q}
      BY <1>0, <1>3, <1>5, <3>1, <3>8 DEF Seen!GiveUp, Seen!Next
    <3>9. QED BY <3>6, <3>7, <3>8
  <2>4. QED BY <2>2, <2>3
<1>6. QED BY <1>4, <1>5 DEF Beside

\* With outputs in the working directory the user may rely on the album also while
\* both services work on it at once, however their steps interleave.
THEOREM AlbumBesideSync ==
  ASSUME CopyOnly, ErrorsCount, ~Meddles PROVE LifeSpec => KeepsAlbum
<1>0. SafeSettings
  BY DEF SafeSettings, CopyOnly, ErrorsCount
<1>1. LifeInit => /\ SourceKept /\ OutputsElsewhere /\ DeletedByUser
                  /\ AlbumInv /\ Seen!Init
  BY CopyInit, AlbumInvInit, AlbumStart DEF LifeInit
<1>2. LifeTypeOK /\ SourceKept /\ OutputsElsewhere /\ DeletedByUser /\ [LifeNext]_lifeVars
        => SourceKept' /\ OutputsElsewhere' /\ DeletedByUser'
  BY CopyNext, DeletedNext
<1>3. LifeTypeOK /\ LifeTypeOK' /\ DeletedByUser /\ AlbumInv /\ [LifeNext]_lifeVars
        => AlbumInv' /\ [Seen!Next]_(Seen!albumVars)
  <2> SUFFICES ASSUME LifeTypeOK, LifeTypeOK', DeletedByUser, AlbumInv, [LifeNext]_lifeVars
               PROVE  AlbumInv' /\ [Seen!Next]_(Seen!albumVars)
    OBVIOUS
  <2>1. CASE [Next]_vars
    BY <1>0, <2>1, AlbumInvNext, AlbumStep
  <2>2. CASE Beside /\ Follows
    <3>1. AlbumInv'
      BY <2>2, AlbumInvBeside
    <3>2. QED BY <2>2, <3>1, AlbumBeside
  <2>3. QED BY <2>1, <2>2, LifeFollows
<1>4. QED BY <1>1, <1>2, <1>3, LifeTypes, PTL DEF LifeSpec, Seen!Spec, KeepsAlbum

=============================================================================
