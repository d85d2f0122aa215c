---------------------------- MODULE PictureLife ----------------------------
(***************************************************************************)
(* The life of the pictures under both services, which have a thread each  *)
(* and share the folders only.  What keeps them apart is the screen: the   *)
(* bottom bar is disabled while a service runs.                            *)
(***************************************************************************)
EXTENDS AddThumbs, Sync

CONSTANT Recreates  \* may the screen be recreated between Stop and the end of
                    \* the job, which enables the bottom bar?

ASSUME LifeAssumption == Recreates \in BOOLEAN

lifeVars == <<vars, syncVars>>

\* The types of both jobs; Sync holds a file just when it is about to delete it.
LifeTypeOK == TypeOK /\ SyncTypeOK

LifeInit == Init /\ SyncInit

AddThumbsOver == Free /\ (Recreates \/ pc = "idle")
SyncOver == SyncFree /\ (Recreates \/ spc = "idle")

\* Killing the process ends both jobs; a Crash is one of these ends.
ProcessKilled ==
  /\ pc # "idle" \/ spc # "idle"
  /\ EndRun /\ UNCHANGED stopProcessing
  /\ EndSync /\ UNCHANGED sstop

LifeNext ==
  \/ /\ (SyncOver /\ StartRun) \/ Loop \/ UserStops
     /\ UNCHANGED syncVars
  \/ /\ (AddThumbsOver /\ StartSync) \/ SyncWorker \/ UserStopsSync
     /\ UNCHANGED addVars
  \/ ProcessKilled
  \/ Meanwhile({doc, sdoc}) /\ UNCHANGED syncVars
  \/ AddThumbsOver /\ SyncOver /\ SettingsChanged /\ UNCHANGED syncVars

LifeSpec == LifeInit /\ [][LifeNext]_lifeVars

\* The sync job's thread runs while the process does.
FairLifeSpec == LifeSpec /\ WF_lifeVars(SyncWorker /\ UNCHANGED addVars)

-----------------------------------------------------------------------------
\* Synchronizing removes a backup only when the user deleted the picture: what
\* the Sync screen says.  It holds, also when both jobs overlap, as long as
\* pictures are not updated in place.  (The step is Sync's when it leaves "delete":
\* AddThumbs, too, deletes the backup it is about to replace.)
SyncFollowsUser ==
  [][\A p \in Pics :
       (spc = "delete" /\ spc' # "delete" /\ Exists("bak", p) /\ disk'["bak"][p] = None)
         => p \notin owned]_lifeVars

\* A sync run ends.
SyncEnds == (spc # "idle") ~> (spc = "idle")
=============================================================================
