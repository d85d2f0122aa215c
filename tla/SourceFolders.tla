--------------------------- MODULE SourceFolders ---------------------------
(***************************************************************************)
(* Several source folders, on several volumes and one inside another, in   *)
(* Storage Access Framework mode: where the backup and the output of a     *)
(* picture go, and how Sync finds the way back from one of these to the    *)
(* picture it was made from.  Nothing records that way: it is computed     *)
(* from document ids such as "primary:DCIM/Camera/pic.jpg".  One iteration *)
(* of a job's loop is one step here; what happens inside is in the modules *)
(* AddThumbs and Sync.                                                     *)
(*                                                                         *)
(* A document id is a volume and a path; a path is a sequence of names, a  *)
(* name a sequence of which all but the first element are suffixes.        *)
(***************************************************************************)
EXTENDS Naturals, Sequences

CONSTANTS
  Words,      \* what names are made of
  Pictures,   \* the document ids of the user's pictures
  Choices,    \* the sets of folders the user chooses among as sources
  WorkingDir, \* working_dir, a path
  Excluded    \* the name of folders that are never listed

Names == Seq(Words)
Docs == [vol : Words, path : Seq(Names)]

\* The settings let the user type any path for the working directory; the way
\* back is computed for one that is a single name, like the default.  A source
\* is a folder of a volume, not the volume, and lies beside that directory.
ASSUME FoldersAssumption ==
  /\ {".bak", ".new"} \subseteq Words
  /\ WorkingDir \in Seq(Names) /\ Len(WorkingDir) = 1
  /\ Pictures \subseteq {d \in Docs : Len(d.path) > 1 /\ d.path[1] # WorkingDir[1]}
  /\ UNION Choices \subseteq {d \in Docs : Len(d.path) > 0 /\ d.path[1] # WorkingDir[1]}
  /\ Excluded \in Names

VARIABLES
  docs,    \* the files there are: each by its id, with the picture it shows
  sources, \* the chosen source folders
  inPlace, \* writeThumbnailedToOriginalFolder
  job,     \* the running job
  left,    \* the source folders it has still to take
  root,    \* the source folder it has taken
  place,   \* the folder Sync is going through: the backups or the outputs
  todo,    \* the listed files not yet taken
  skipped, \* the source folders the job passed over
  excused  \* the pictures the user deleted since Sync began, or a file of which
           \* it could not delete: no step reads these two

jobVars == <<job, left, root, place, todo, skipped>>
vars == <<docs, sources, inPlace, jobVars, excused>>

Init ==
  /\ docs = [d \in Pictures |-> d]
  /\ sources \in Choices
  /\ inPlace \in BOOLEAN
  /\ job = "idle" /\ left = {} /\ root \in sources /\ place = ".new" /\ todo = {}
  /\ skipped = {} /\ excused = {}

-----------------------------------------------------------------------------
\* UriUtil.

\* What a path is without its last name, or without its first.
Parent(path) == IF path = <<>> THEN <<>> ELSE SubSeq(path, 1, Len(path) - 1)
getDSub(path) == IF path = <<>> THEN <<>> ELSE Tail(path)

\* The first folder, and all after it: a volume's own id counts as a folder.
getDD1(d) == IF d.path = <<>> THEN <<d.vol>> ELSE Head(d.path)
getDDSub(d) == getDSub(d.path)

-----------------------------------------------------------------------------
\* ETADocDf and ETADoc.

\* Mutant: pictures of all subfolders go to one folder.
SubDirFlat(d, isFile) == <<>>

getSubDir(d, isFile) == IF isFile THEN Parent(getDDSub(d)) ELSE getDDSub(d)

\* The folder for the backup (".bak") or the output (".new", or with "in place"
\* the source folder itself) of a picture or of a whole source folder.
Dir(d, suffix, isFile) ==
  [vol  |-> d.vol,
   path |-> (IF suffix = "" THEN <<getDD1(d)>> ELSE Append(WorkingDir, Append(getDD1(d), suffix)))
              \o getSubDir(d, isFile)]

In(dir, d) == [dir EXCEPT !.path = Append(@, d.path[Len(d.path)])]
Derived(d, suffix) == In(Dir(d, suffix, TRUE), d)

Backup(d) == Derived(d, ".bak")
Output(d) == Derived(d, IF inPlace THEN "" ELSE ".new")

\* Mutant: the way back keeps the name of the backup folder.
SrcDocumentOneUp(d, mainDir) ==
  [vol |-> d.vol, path |-> <<mainDir>> \o getDDSub(d)]

\* getSrcDocumentUriFor: back from a file of the working directory.
SrcDocument(d, mainDir) ==
  [vol |-> d.vol, path |-> <<mainDir>> \o getDSub(getDDSub(d))]

-----------------------------------------------------------------------------
\* The storage provider: what is below a folder, and what a listing of it shows.

Below(d, dir) == /\ d.vol = dir.vol /\ Len(dir.path) < Len(d.path)
                 /\ SubSeq(d.path, 1, Len(dir.path)) = dir.path
Shows(dir, d) == /\ Below(d, dir)
                 /\ \A i \in Len(dir.path) + 1 .. Len(d.path) - 1 : d.path[i] # Excluded

\* Mutant: subfolders are not walked.
ListedFlat(dir) == {d \in DOMAIN docs : Shows(dir, d) /\ Len(d.path) = Len(dir.path) + 1}

Listed(dir) == {d \in DOMAIN docs : Shows(dir, d)}

\* A query through the permission for one tree finds what is below it.
Exists(d, tree) == d \in DOMAIN docs /\ Below(d, tree)

\* The files f without d, and with the picture p in d.
Without(f, d) == [x \in DOMAIN f \ {d} |-> f[x]]
With(f, d, p) == [x \in DOMAIN f \cup {d} |-> IF x = d THEN p ELSE f[x]]

-----------------------------------------------------------------------------
\* The user.

UserSaves(p) ==
  /\ p \notin DOMAIN docs
  /\ docs' = With(docs, p, p)
  /\ UNCHANGED <<sources, inPlace, jobVars, excused>>

UserDeletes(p) ==
  /\ p \in DOMAIN docs
  /\ docs' = Without(docs, p)
  /\ excused' = excused \cup (IF job = "sync" THEN {p} ELSE {})
  /\ UNCHANGED <<sources, inPlace, jobVars>>

\* Mutant: the settings can be reached while a job runs.
UserChoosesAnyTime ==
  /\ sources' \in Choices /\ inPlace' \in BOOLEAN
  /\ UNCHANGED <<docs, jobVars, excused>>

UserChooses ==
  /\ job = "idle"
  /\ sources' \in Choices /\ inPlace' \in BOOLEAN
  /\ UNCHANGED <<docs, jobVars, excused>>

-----------------------------------------------------------------------------
\* The jobs: AddThumbs, Sync, and Sync when it only lists what it would delete.

Start(which) ==
  /\ job = "idle"
  /\ job' = which /\ left' = sources /\ place' = ".new"
  /\ UNCHANGED <<docs, sources, inPlace, root, todo, skipped, excused>>

Syncing == job \in {"sync", "list"}

\* Is the last source folder taken done with?
Through == todo = {} /\ (place = ".new" \/ inPlace)

\* The next source folder, in which AddThumbs looks for pictures and Sync for
\* the backups made of them.  A folder the permission for which is gone is passed
\* over, by Sync also one that is gone itself.
TakeFolder ==
  /\ job # "idle" /\ Through
  /\ \E r \in left :
       /\ left' = left \ {r}
       /\ \/ skipped' = skipped \cup {r} /\ UNCHANGED <<root, place, todo>>
          \/ /\ root' = r /\ UNCHANGED skipped
             /\ \/ job = "add" /\ todo' = Listed(r) /\ UNCHANGED place
                \/ Syncing /\ todo' = Listed(Dir(r, ".bak", FALSE)) /\ place' = ".bak"
  /\ UNCHANGED <<docs, sources, inPlace, job, excused>>

\* The outputs, unless they are written in place.
SyncOutputs ==
  /\ Syncing /\ todo = {} /\ place = ".bak" /\ ~inPlace
  /\ place' = ".new" /\ todo' = Listed(Dir(root, ".new", FALSE))
  /\ UNCHANGED <<docs, sources, inPlace, job, left, root, skipped, excused>>

\* The picture p is to be written to d.  What was there is deleted before, and the
\* writing may fail before that, after that, or not at all.
Tries(f, d, p) == {f, Without(f, d), With(f, d, p)}

\* A picture is skipped; or its output is written, and a backup before that: in
\* place the picture is moved there if no backup is in the way, otherwise copied.
AddThumbnail ==
  /\ job = "add"
  /\ \E d \in todo :
       /\ todo' = todo \ {d}
       /\ \/ UNCHANGED docs
          \/ /\ d \in DOMAIN docs
             /\ \E f \in {docs} \cup
                     (IF ~inPlace THEN Tries(docs, Backup(d), docs[d])
                      ELSE {With(Without(docs, d), x, docs[d]) : x \in {Backup(d)} \ DOMAIN docs}) :
                  docs' \in Tries(f, Output(d), docs[d])
  /\ UNCHANGED <<sources, inPlace, job, left, root, place, skipped, excused>>

\* A file whose picture is not found is deleted, unless that fails, the search
\* throws, or Sync only lists.
SyncFile ==
  /\ Syncing
  /\ \E d \in todo :
       LET found == Exists(SrcDocument(d, getDD1(root)), root)
       IN /\ todo' = todo \ {d}
          /\ \/ found /\ UNCHANGED <<docs, excused>>
             \/ /\ ~found /\ job = "sync"
                /\ docs' = Without(docs, d)
                /\ UNCHANGED excused
             \/ /\ ~found
                /\ excused' = IF job = "sync" /\ d \in DOMAIN docs
                              THEN excused \cup {docs[d]} ELSE excused
                /\ UNCHANGED docs
  /\ UNCHANGED <<sources, inPlace, job, left, root, place, skipped>>

\* The job ends, is stopped, or is killed.
End ==
  /\ job # "idle"
  /\ job' = "idle" /\ left' = {} /\ todo' = {} /\ skipped' = {} /\ excused' = {}
  /\ UNCHANGED <<docs, sources, inPlace, root, place>>

-----------------------------------------------------------------------------
Next ==
  \/ \E p \in Pictures : UserSaves(p) \/ UserDeletes(p)
  \/ UserChooses
  \/ Start("add") \/ Start("sync") \/ Start("list")
  \/ TakeFolder \/ AddThumbnail
  \/ SyncOutputs \/ SyncFile
  \/ End

Spec == Init /\ [][Next]_vars

-----------------------------------------------------------------------------
\* The types; a job still has to take only folders that are chosen.
TypeOK ==
  /\ DOMAIN docs \subseteq Docs /\ \A d \in DOMAIN docs : docs[d] \in Pictures
  /\ sources \in Choices /\ inPlace \in BOOLEAN
  /\ job \in {"idle", "add", "sync", "list"}
  /\ left \subseteq sources /\ skipped \subseteq sources \ left
  /\ root \in UNION Choices
  /\ place \in {".bak", ".new"}
  /\ todo \subseteq Docs
  /\ excused \subseteq Pictures

\* Whatever folders are chosen, every file is a picture in its place, or the one
\* backup or output of a picture: no two pictures share one.
OwnPlace ==
  \A d \in DOMAIN docs :
    d \in {docs[d], Derived(docs[d], ".bak"), Derived(docs[d], ".new")}

\* A backup or an output disappears only when its picture has: the way back ends
\* at the picture, however the source folders overlap.  AddThumbs may leave a picture
\* without one when it fails, but only the picture it is working on.
GoesWithPicture ==
  [][\A d \in DOMAIN docs \ DOMAIN docs' :
        \/ docs[d] \notin DOMAIN docs'
        \/ job = "add" /\ docs[d] \in todo \ todo']_vars

\* When Sync is through, no backup it could delete is left of a picture that was
\* gone before it began, in any of the source folders it did not pass over, nor an
\* output it is told to look after.
SyncThorough ==
  job = "sync" /\ Through /\ left = {} =>
    \A d \in DOMAIN docs, s \in sources \ skipped :
      /\ Shows(s, docs[d])
      /\ d = Derived(docs[d], ".bak") \/ (~inPlace /\ d = Derived(docs[d], ".new"))
      => docs[d] \in DOMAIN docs \cup excused
=============================================================================
