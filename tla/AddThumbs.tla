----------------------------- MODULE AddThumbs -----------------------------
(***************************************************************************)
(* AddThumbsService: one job (doProcessing) over one picture folder, one   *)
(* storage call per step, in the default mode of the application (Storage  *)
(* Access Framework, temporary output in the cache directory).  Any call   *)
(* may fail, the process may be killed between any two steps, and the user *)
(* may change the pictures, and with some luck the settings, meanwhile.    *)
(***************************************************************************)
EXTENDS Gallery, WriterContract

VARIABLES
  pc,       \* the step of doProcessing
  todo,     \* the listed pictures not yet taken: the rest of the TreeSet
  doc,      \* the picture being processed, None between two pictures
  dest,     \* its output folder, fixed when the ETADoc is constructed
  copying,  \* the caller of copyDocument
  existed,  \* targetExists, as the last exists() call saw it
  read,     \* the file being read, as it has been read so far
  stopProcessing

docVars == <<doc, dest, copying, existed, read>>
addVars == <<pc, todo, doc, dest, copying, existed, read, stopProcessing>>
vars == <<galleryVars, addVars>>

Steps == {"idle", "next", "inspect", "thumbnail", "write", "writing", "backup",
          "move", "evict", "open", "stream", "swap", "rename", "clean"}

\* The types; a picture is at hand at every step of its iteration, and at no other.
TypeOK ==
  /\ GalleryTypeOK
  /\ pc \in Steps
  /\ todo \in SUBSET Pics
  /\ doc \in Pics \cup {None}
  /\ (pc \in {"idle", "next"}) <=> (doc = None)
  /\ dest \in {"src", "new"}
  /\ copying \in {"backup", "deliver"}
  /\ existed \in BOOLEAN
  /\ read \in File
  /\ read # None => pc \in {"writing", "stream"}
  /\ pc = "stream" => read # None
  /\ stopProcessing \in BOOLEAN

Init ==
  /\ GalleryInit
  /\ pc = "idle" /\ todo = {} /\ doc = None /\ dest = "src"
  /\ copying = "backup" /\ existed = FALSE /\ read = None /\ stopProcessing = FALSE

Tmp == TmpOf[doc]

\* Mutant: the loop goes on without letting go of the picture.
ContinueHoldingDoc == /\ pc' = "next" /\ read' = None
                      /\ UNCHANGED <<todo, doc, dest, copying, existed, stopProcessing>>

\* `continue`: on to the next picture of the list.
Continue == /\ pc' = "next" /\ doc' = None /\ read' = None
            /\ UNCHANGED <<todo, dest, copying, existed, stopProcessing>>

GoTo(step) == /\ pc' = step /\ read' = None
              /\ UNCHANGED <<todo, doc, dest, copying, existed, stopProcessing>>

-----------------------------------------------------------------------------
\* The run.

\* A job starts: the folder is listed once, then walked.
StartRun ==
  /\ pc = "idle"
  /\ pc' = "next"
  /\ todo' = {p \in Pics : Exists("src", p)}
  /\ stopProcessing' = FALSE
  /\ UNCHANGED <<galleryVars, docVars>>

EndRun == /\ pc' = "idle" /\ todo' = {} /\ doc' = None /\ read' = None
          /\ UNCHANGED <<galleryVars, dest, copying, existed>>

Finish == pc = "next" /\ todo = {} /\ EndRun /\ UNCHANGED stopProcessing

\* The stop flag is looked at before each picture, and reset.
StoppedByUser == /\ pc = "next" /\ todo # {} /\ stopProcessing
                 /\ EndRun /\ stopProcessing' = FALSE

\* Mutant: the picture stays in the list.
TakeDocAgain ==
  /\ pc = "next" /\ ~stopProcessing
  /\ \E p \in todo :
       /\ Exists("src", p)
       /\ pc' = "inspect" /\ doc' = p
       /\ dest' = IF prefs.inPlace THEN "src" ELSE "new"
  /\ UNCHANGED <<galleryVars, todo, copying, existed, read, stopProcessing>>

\* Mutant: the two output folders are mistaken for each other.
TakeDocSwapped ==
  /\ pc = "next" /\ ~stopProcessing
  /\ \E p \in todo :
       /\ Exists("src", p)
       /\ pc' = "inspect" /\ doc' = p /\ todo' = todo \ {p}
       /\ dest' = IF prefs.inPlace THEN "new" ELSE "src"
  /\ UNCHANGED <<galleryVars, copying, existed, read, stopProcessing>>

\* The next picture: its ETADoc is built, which fixes where its output goes.
TakeDoc ==
  /\ pc = "next" /\ ~stopProcessing
  /\ \E p \in todo :
       /\ Exists("src", p)
       /\ pc' = "inspect" /\ doc' = p /\ todo' = todo \ {p}
       /\ dest' = IF prefs.inPlace THEN "src" ELSE "new"
  /\ UNCHANGED <<galleryVars, copying, existed, read, stopProcessing>>

\* A listed picture that is gone by now is no file any more: getSubDir throws, and
\* nothing catches it.  So does isJpeg, when it goes just after exists().  The
\* exception ends the process.
Crash ==
  /\ \/ pc = "next" /\ ~stopProcessing /\ \E p \in todo : ~Exists("src", p)
     \/ pc = "inspect" /\ ~Exists("src", doc)
  /\ EndRun /\ UNCHANGED stopProcessing

\* Mutant: with "fix missing tags" every picture is redone.
HasWhatItNeedsOrFix(f) ==
  prefs.skip /\ ~prefs.fix /\ f.thumb \in {"yes", "bare"}

\* Does a picture as it is now need no processing?
HasWhatItNeeds(f) ==
  /\ prefs.skip
  /\ f.thumb \in (IF prefs.fix THEN {"yes"} ELSE {"yes", "bare"})

\* Its EXIF tags are read; the picture is skipped when it is gone, has what it
\* needs or cannot be read.
Inspect ==
  /\ pc = "inspect"
  /\ \/ /\ Exists("src", doc) /\ ~HasWhatItNeeds(disk["src"][doc])
        /\ GoTo("thumbnail")
     \/ Continue
  /\ UNCHANGED galleryVars

\* The thumbnail is built by the ffmpeg service, or the picture is skipped.
BuildThumbnail ==
  /\ pc = "thumbnail"
  /\ GoTo("write") \/ Continue
  /\ UNCHANGED galleryVars

-----------------------------------------------------------------------------
\* Writing the picture with its thumbnail into the cache directory.

WithThumbnail(f) == [f EXCEPT !.thumb = "yes", !.by = "app"]
Cut(f) == [f EXCEPT !.whole = FALSE, !.by = "app"]
Torn(f) == [f EXCEPT !.whole = FALSE, !.torn = TRUE]

\* The writer opens the picture, which may be gone, and reads it bit by bit.
OpenSource ==
  /\ pc = "write"
  /\ pc' = "writing" /\ read' = disk["src"][doc]
  /\ UNCHANGED <<galleryVars, todo, doc, dest, copying, existed, stopProcessing>>

\* Mutant: exiv2 works on what an earlier picture left under the temporary name.
FileLeftOnLeftover(left, s, t) ==
  LET f == IF t = None THEN s ELSE t
  IN CASE left = "leftover"    -> t
       [] left = "gone"        -> None
       [] left = "copy"        -> f
       [] left = "thumbnailed" -> WithThumbnail(f)
       [] left = "rewritten"   -> [f EXCEPT !.by = "app"]
       [] left = "cut"         -> Cut(f)

\* The temporary file a writer leaves when it reads s where t was.
FileLeft(left, s, t) ==
  CASE left = "leftover"    -> t
    [] left = "gone"        -> None
    [] left = "copy"        -> s
    [] left = "thumbnailed" -> WithThumbnail(s)
    [] left = "rewritten"   -> [s EXCEPT !.by = "app"]
    [] left = "cut"         -> Cut(s)

\* The writer is chosen by a setting; each keeps its part of WriterContract.
Outcomes == CASE prefs.lib = "exiv2"   -> ByExiv2(prefs.level)
              [] prefs.lib = "libexif" -> ByLibexif(prefs.lskip)
              [] OTHER                 -> FromBytes

\* A writer that finds no picture fails before it writes anything.
WriteOutput ==
  /\ pc = "writing"
  /\ \E w \in Outcomes :
       /\ read = None => w.left \in {"leftover", "gone"}
       /\ cache' = [cache EXCEPT ![Tmp] = FileLeft(w.left, read, @)]
       /\ IF w.go THEN GoTo("backup") ELSE Continue
  /\ UNCHANGED <<disk, part, userVars>>

-----------------------------------------------------------------------------
\* The original goes to the backup folder.

NoBackup == /\ pc = "backup" /\ ~prefs.backup
            /\ GoTo("move") /\ UNCHANGED galleryVars

\* Mutant: the backup made earlier is replaced.
MoveOriginalReplacing ==
  /\ pc = "backup" /\ prefs.backup /\ prefs.inPlace /\ Exists("src", doc)
  /\ disk' = [disk EXCEPT !["bak"][doc] = disk["src"][doc], !["src"][doc] = None]
  /\ GoTo("move")
  /\ UNCHANGED <<part, cache, userVars>>

\* Mutant: a picture that cannot be moved is delivered all the same.
MoveOriginalMaybe ==
  /\ pc = "backup" /\ prefs.backup /\ prefs.inPlace
  /\ MoveDocument(doc, "src", "bak") \/ UNCHANGED disk
  /\ GoTo("move")
  /\ UNCHANGED <<part, cache, userVars>>

\* In-place mode moves it, unless a backup is there already.
MoveOriginal ==
  /\ pc = "backup" /\ prefs.backup /\ prefs.inPlace
  /\ \/ MoveDocument(doc, "src", "bak") /\ GoTo("move")
     \/ Continue /\ UNCHANGED disk
  /\ UNCHANGED <<part, cache, userVars>>

\* The other mode copies it, replacing an earlier backup.
CopyOriginal ==
  /\ pc = "backup" /\ prefs.backup /\ ~prefs.inPlace
  /\ pc' = "open" /\ copying' = "backup"
  /\ UNCHANGED <<galleryVars, todo, doc, dest, existed, read, stopProcessing>>

-----------------------------------------------------------------------------
\* moveDocument of the temporary output to its folder.

\* The target may be there: refuse, or go and delete it first.
CheckTarget ==
  /\ pc = "move"
  /\ \/ /\ Exists(dest, doc) /\ ~prefs.overwrite
        /\ cache' = [cache EXCEPT ![Tmp] = None]
        /\ Continue
     \/ /\ Exists(dest, doc) /\ prefs.overwrite
        /\ GoTo("evict") /\ UNCHANGED cache
     \/ /\ ~Exists(dest, doc)
        /\ pc' = "open" /\ copying' = "deliver"
        /\ UNCHANGED <<cache, todo, doc, dest, existed, read, stopProcessing>>
  /\ UNCHANGED <<disk, part, userVars>>

DeleteTarget ==
  /\ pc = "evict"
  /\ \/ /\ DeleteDocument(dest, doc)
        /\ pc' = "open" /\ copying' = "deliver"
        /\ UNCHANGED <<todo, doc, dest, existed, read, stopProcessing>>
     \/ Continue /\ UNCHANGED disk
  /\ UNCHANGED <<part, cache, userVars>>

-----------------------------------------------------------------------------
\* copyDocument(source, parent, replaceExisting = true, ...), for the backup
\* copy and for the delivery: create name_tmp, fill it, delete the old target,
\* rename.

Target == IF copying = "backup" THEN "bak" ELSE dest
Source == IF copying = "backup" THEN disk["src"][doc] ELSE cache[Tmp]

\* An empty name_tmp is created unless one was left there, and the source opened.
OpenTarget ==
  /\ pc = "open"
  /\ existed' = Exists(Target, doc)
  /\ \/ Source # None /\ pc' = "stream" /\ read' = Source /\ UNCHANGED doc
     \/ pc' = "next" /\ doc' = None /\ UNCHANGED read
  /\ UNCHANGED <<galleryVars, todo, dest, copying, stopProcessing>>

\* Mutant: a copy that stopped half way is taken for a complete one.
StreamCut ==
  /\ pc = "stream"
  /\ \/ /\ part' = [part EXCEPT ![Target][doc] = Cut(read)]
        /\ GoTo(IF existed THEN "swap" ELSE "rename")
     \/ Continue /\ UNCHANGED part
  /\ UNCHANGED <<disk, cache, userVars>>

\* The end of the loop that copies it block by block: an error may cut it short,
\* or come before anything is written.
Stream ==
  /\ pc = "stream"
  /\ \/ /\ part' = [part EXCEPT ![Target][doc] = read]
        /\ GoTo(IF existed THEN "swap" ELSE "rename")
     \/ /\ part' = [part EXCEPT ![Target][doc] = Cut(read)]
        /\ Continue
     \/ Continue /\ UNCHANGED part
  /\ UNCHANGED <<disk, cache, userVars>>

\* Mutant: the old target could not be deleted, and nobody looks.
SwapUnchecked ==
  /\ pc = "swap"
  /\ DeleteDocument(Target, doc) \/ UNCHANGED disk
  /\ GoTo("rename")
  /\ UNCHANGED <<part, cache, userVars>>

Swap ==
  /\ pc = "swap"
  /\ \/ DeleteDocument(Target, doc) /\ GoTo("rename")
     \/ Continue /\ UNCHANGED disk
  /\ UNCHANGED <<part, cache, userVars>>

\* On Android 9 a FileNotFoundException counts as success: that version throws it
\* after the renaming too, and also when name_tmp is gone.  Failing to copy the
\* attributes does not undo the rename; after the backup some of these failures
\* skip the picture, and on delivery it leaves the temporary output where it is,
\* which "clean" would delete.
Rename ==
  /\ pc = "rename"
  /\ \/ /\ \/ RenamePart(Target, doc)
           \/ part[Target][doc] = None /\ UNCHANGED <<disk, part>>
        /\ GoTo(IF copying = "backup" THEN "move" ELSE "clean") \/ Continue
     \/ Continue /\ UNCHANGED <<disk, part>>
  /\ UNCHANGED <<cache, userVars>>

CleanTmp ==
  /\ pc = "clean"
  /\ cache' = [cache EXCEPT ![Tmp] = None]
  /\ Continue
  /\ UNCHANGED <<disk, part, userVars>>

-----------------------------------------------------------------------------
Copy == OpenTarget \/ Stream \/ Swap \/ Rename
Loop == \/ Finish \/ StoppedByUser \/ TakeDoc
        \/ Inspect \/ BuildThumbnail \/ OpenSource \/ WriteOutput
        \/ NoBackup \/ MoveOriginal \/ CopyOriginal
        \/ CheckTarget \/ DeleteTarget \/ Copy \/ CleanTmp
Worker == Loop \/ Crash

\* The user presses Stop: the service is destroyed, its job sees the flag later.
UserStops == /\ pc # "idle" /\ ~stopProcessing
             /\ stopProcessing' = TRUE
             /\ UNCHANGED <<galleryVars, pc, todo, docVars>>

\* The process is killed: the job is gone (START_NOT_STICKY), the files stay.
Killed == pc # "idle" /\ EndRun /\ UNCHANGED stopProcessing

\* The bottom bar, the way to the other screens, is disabled while a service
\* runs.  Stop ends the service at once but its job goes on with the picture at
\* hand: a screen recreated meanwhile (a rotation) finds no service and enables
\* the bar.
Free == pc = "idle" \/ stopProcessing

\* The picture folder is being read, in blocks of 8 KB or by a native library.
ReadingSource == pc = "writing" \/ (pc = "stream" /\ copying = "backup")

\* A save that falls into the reading: what has been read is all of the old
\* version, all of the new one, or some of each.  A deletion does not disturb it.
ReadAlong ==
  IF ReadingSource /\ disk'["src"][doc] \notin {disk["src"][doc], None}
    THEN read' \in {read, disk'["src"][doc]} \cup {Torn(f) : f \in {read} \ {None}}
    ELSE UNCHANGED read

\* What happens to the files while the job stands still.
Meanwhile(busy) ==
  /\ Outside(busy) /\ ReadAlong
  /\ UNCHANGED <<pc, todo, doc, dest, copying, existed, stopProcessing>>

\* A writer takes its settings when it starts: those changed while it writes count
\* from the next step on.
SettingsChanged == /\ Free /\ pc # "writing" /\ UserChoosesSettings
                   /\ UNCHANGED addVars

Environment == UserStops \/ Killed \/ Meanwhile({doc}) \/ SettingsChanged

Next == StartRun \/ Worker \/ Environment

Spec == Init /\ [][Next]_vars

\* The job's thread runs while the process does; jobs are started and stopped,
\* settings and files changed, at the user's pleasure.
FairSpec == Spec /\ WF_vars(Worker)

-----------------------------------------------------------------------------
(***************************************************************************)
(* Properties.  Those about pictures being kept hold as long as the user   *)
(* leaves the picture being processed alone (~Meddles).                    *)
(***************************************************************************)

\* Whatever fails and whenever the process dies, the last version the user
\* saved of a picture is somewhere among the three folders, complete.  It needs
\* settings that never combine "no backup", "in place" and "overwrite": with
\* these, DeleteTarget deletes the only copy before the output is in place; and
\* writers whose errors are not ignored, or a cut picture is delivered, and may
\* then replace its own backup.
SafeSettings ==
  /\ \/ \A q \in PrefSpace : q.backup
     \/ \A q \in PrefSpace : ~q.inPlace
     \/ \A q \in PrefSpace : ~q.overwrite
  /\ \A q \in PrefSpace : q.lskip /\ q.level = "warn"

\* The last version the user saved of a picture they own is in one of the folders.
NoLoss == \A p \in owned : \E d \in Places : Holds(d, p)

\* Why nothing is lost: what the job relies on at each of its steps.
CopySteps == {"open", "stream", "swap", "rename"}

\* A picture in the picture folder is complete and the user's last version.
SourceGood == \A p \in Pics : Exists("src", p) => Good(disk["src"][p], p)

\* The picture stays in the picture folder until MoveOriginal.
SourceThere ==
  (\/ pc \in {"inspect", "thumbnail", "write", "writing", "backup"}
   \/ pc \in CopySteps /\ copying = "backup") => Exists("src", doc)

\* What is read, about to be delivered, or renamed, is complete and this version of it.
OutputGood ==
  /\ pc \in {"writing", "stream"} => read # None /\ Good(read, doc)
  /\ pc \in {"backup", "move", "evict"} \cup CopySteps /\ cache[Tmp] # None
       => Good(cache[Tmp], doc)
  /\ pc \in {"swap", "rename"} => /\ part[Target][doc] # None
                                  /\ Good(part[Target][doc], doc)

\* What copyDocument saw of its target is still so: only a backup is replaced.
TargetKnown ==
  /\ pc = "stream" => existed = Exists(Target, doc)
  /\ pc \in {"open", "stream"} /\ copying = "deliver" => ~Exists(Target, doc)
  /\ pc = "swap" => copying = "backup"
  /\ pc = "rename" => ~Exists(Target, doc)

\* A target is deleted only when the picture is held elsewhere.
Spare == doc \in owned => \E d \in Places \ {dest} : Holds(d, doc)
EvictSafe == /\ pc = "move" /\ (\E q \in PrefSpace : q.overwrite) => Spare
             /\ pc = "evict" => Spare

\* Without in-place settings nothing is ever written to the picture folder.
OutputOnly ==
  (\A q \in PrefSpace : ~q.inPlace) =>
    /\ doc # None => dest = "new"
    /\ \A p \in owned : Exists("src", p)

\* All in one: the inductive form of NoLoss.
KeepInv == /\ NoLoss /\ SourceGood /\ SourceThere /\ OutputGood
           /\ TargetKnown /\ EvictSafe /\ OutputOnly

\* The bytes the user saved last, not rewritten by the application, are in the
\* picture folder or in the backup folder.
OriginalKept ==
  \A p \in owned : \E d \in {"src", "bak"} : /\ Holds(d, p)
                                             /\ disk[d][p].by = "user"

\* A file under a picture's name is a complete picture, and has its thumbnail
\* when the application wrote it: no half-done output is ever seen there.  Nothing
\* keeps a save by the user out of the reading, so two versions may be mixed.
OutputComplete ==
  \A d \in Places, p \in Pics :
    Exists(d, p) => /\ disk[d][p].whole \/ disk[d][p].torn
                    /\ disk[d][p].by = "app" => disk[d][p].thumb = "yes"

\* A file under a picture's name shows that picture: what an earlier picture
\* left in the cache directory is never delivered for another one.
OwnPicture ==
  \A d \in Places, p \in Pics : Exists(d, p) => disk[d][p].of = p

\* The picture folder shows the last version the user saved, never one an
\* earlier run left in the cache directory.
SourceCurrent ==
  \A p \in Pics : Exists("src", p) => disk["src"][p].ver = shot[p]

\* In-place mode never changes nor removes a backup once made.
BackupImmutable ==
  [][\A p \in Pics : Exists("bak", p) => disk'["bak"][p] = disk["bak"][p]]_vars

\* With "skip pictures having a thumbnail" on, the application does not touch a
\* source picture that has a complete one: a second run has nothing to do.
NothingToRedo ==
  [][UNCHANGED <<shot, owned>> =>
       \A p \in Pics : Exists("src", p) /\ disk["src"][p].thumb = "yes"
                          => disk'["src"][p] = disk["src"][p]]_vars

\* All in one, as the user sees it: whatever the job does, fails to do or is killed
\* at, with safe settings the picture folder and the two others are an Album.
Shown ==
  [p \in Pics |->
     CASE ~Exists("src", p) -> "nothing"
       [] Holds("src", p) /\ disk["src"][p].by = "user" -> "asSaved"
       [] Holds("src", p) /\ disk["src"][p].by = "app" /\ disk["src"][p].thumb = "yes"
            -> "thumbnailed"
       [] OTHER -> "broken"]
Spares == {p \in Pics : Holds("bak", p) \/ Holds("new", p)}
Seen == INSTANCE Album WITH shown <- Shown, spare <- Spares
KeepsAlbum == Seen!Spec

\* Every run ends, whatever fails on the way.
RunEnds == (pc # "idle") ~> (pc = "idle")
=============================================================================
