-------------------------------- MODULE Sync --------------------------------
(***************************************************************************)
(* SyncService: one job (doProcessing, doSyncForUri) over one picture      *)
(* folder.  It walks the backup folder and, unless pictures are updated in *)
(* place, the output folder, and removes the files whose picture is no     *)
(* longer in the picture folder; a dry run only lists them.                *)
(***************************************************************************)
EXTENDS Gallery

VARIABLES
  spc,       \* the step of the job
  folder,    \* the folder being walked
  stodo,     \* its listed files not yet taken
  sdoc,      \* the file about to be removed
  dryRun,    \* only list
  sstop      \* stopProcessing

syncVars == <<spc, folder, stodo, sdoc, dryRun, sstop>>

SyncTypeOK ==
  /\ spc \in {"idle", "next", "delete"}
  /\ folder \in {"bak", "new"}
  /\ stodo \in SUBSET Pics
  /\ sdoc \in Pics \cup {None}
  /\ (spc = "delete") <=> (sdoc # None)
  /\ dryRun \in BOOLEAN
  /\ sstop \in BOOLEAN

SyncInit ==
  /\ spc = "idle" /\ folder = "bak" /\ stodo = {} /\ sdoc = None
  /\ dryRun = TRUE /\ sstop = FALSE

\* doSyncForUri lists the folder once, before the first file is looked at.
ListFolder(d) ==
  /\ spc' = "next" /\ folder' = d
  /\ stodo' = {p \in Pics : Exists(d, p)}

\* A start command carries the button that was pressed, "List" or "Delete".
StartSync ==
  /\ spc = "idle"
  /\ dryRun' \in BOOLEAN
  /\ ListFolder("bak")
  /\ sstop' = FALSE
  /\ UNCHANGED <<galleryVars, sdoc>>

EndSync == /\ spc' = "idle" /\ stodo' = {} /\ sdoc' = None
           /\ UNCHANGED <<folder, dryRun>>

\* Mutant: the source is not looked for.
CheckDocBlindly ==
  /\ spc = "next" /\ ~sstop
  /\ \E p \in stodo : /\ stodo' = stodo \ {p}
                      /\ IF dryRun THEN UNCHANGED <<spc, sdoc>>
                                   ELSE spc' = "delete" /\ sdoc' = p
  /\ UNCHANGED <<galleryVars, folder, dryRun, sstop>>

\* Mutant: the file stays in the list.
CheckDocAgain ==
  /\ spc = "next" /\ ~sstop
  /\ \E p \in stodo : IF Exists("src", p) \/ dryRun
                         THEN UNCHANGED <<spc, sdoc>>
                         ELSE spc' = "delete" /\ sdoc' = p
  /\ UNCHANGED <<galleryVars, folder, stodo, dryRun, sstop>>

\* Is the picture in the picture folder?  What is not is removed in a later step.
CheckDoc ==
  /\ spc = "next" /\ ~sstop
  /\ \E p \in stodo :
       /\ stodo' = stodo \ {p}
       /\ IF Exists("src", p) \/ dryRun
            THEN UNCHANGED <<spc, sdoc>>
            ELSE spc' = "delete" /\ sdoc' = p
  /\ UNCHANGED <<galleryVars, folder, dryRun, sstop>>

\* Mutant: the file removed is still held afterwards.
DeleteDocHolding ==
  /\ spc = "delete"
  /\ DeleteDocument(folder, sdoc) \/ UNCHANGED disk
  /\ spc' = "next"
  /\ UNCHANGED <<part, cache, userVars, folder, stodo, sdoc, dryRun, sstop>>

\* DocumentFile.delete answers false when it cannot: the file stays.
DeleteDoc ==
  /\ spc = "delete"
  /\ DeleteDocument(folder, sdoc) \/ UNCHANGED disk
  /\ spc' = "next" /\ sdoc' = None
  /\ UNCHANGED <<part, cache, userVars, folder, stodo, dryRun, sstop>>

SyncStopped == /\ spc = "next" /\ stodo # {} /\ sstop
               /\ EndSync /\ sstop' = FALSE
               /\ UNCHANGED galleryVars

\* The output folder comes after the backup folder, when it is in use.
SyncOutputs ==
  /\ spc = "next" /\ stodo = {} /\ folder = "bak" /\ ~prefs.inPlace
  /\ ListFolder("new")
  /\ UNCHANGED <<galleryVars, sdoc, dryRun, sstop>>

SyncFinish == /\ spc = "next" /\ stodo = {} /\ (folder = "new" \/ prefs.inPlace)
              /\ EndSync
              /\ UNCHANGED <<galleryVars, sstop>>

SyncWorker == CheckDoc \/ DeleteDoc \/ SyncStopped \/ SyncOutputs \/ SyncFinish

\* As Free of AddThumbs: can the user reach the other screens?
SyncFree == spc = "idle" \/ sstop

UserStopsSync == /\ spc # "idle" /\ ~sstop
                 /\ sstop' = TRUE
                 /\ UNCHANGED <<galleryVars, spc, folder, stodo, sdoc, dryRun>>
=============================================================================
