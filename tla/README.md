# A TLA+ model of Exif Thumbnail Adder

Exif Thumbnail Adder is an Android application that walks the folders of
pictures its user selects and adds a thumbnail to the EXIF metadata of every
JPEG that has none. It moves and rewrites people's photographs, with services
on threads of their own, native writers that may fail half way, a second
process that may crash, and a user who presses Stop, rotates the screen, takes
pictures, refuses permissions and changes settings meanwhile. The modules here
model those parts of `src/app/src/main`, check them with TLC on small
instances, and prove the safety properties that matter most for every instance
with TLAPS.

In this file `J/` stands for `src/app/src/main/java/com/exifthumbnailadder/app/`
and `C/` for `src/app/src/main/cpp/`.

## 1. The system

| Component | State it keeps | Operations | Hard part | What makes it correct |
|---|---|---|---|---|
| Picture files (`ETADoc`, `ETADocDf`, the storage provider) | `DCIM`, `ThumbAdder/DCIM.bak`, `ThumbAdder/DCIM.new`, `<name>_tmp` beside them, temporary outputs in the cache | exists, create, copy, rename, move, delete | every call may fail; no transaction spans two calls | a name always holds a complete picture, of that name |
| `AddThumbsService` | list of pictures, `stopProcessing`, the `ETADoc` at hand | `doProcessing`, `copyDocument`, `moveDocument` | kill between two calls; settings and files changing; leftovers of failed runs | no picture is lost, backups are kept, nothing is done twice, runs end |
| `SyncService` | `dryRun`, `stopProcessing`, list of a folder | `doProcessing`, `doSyncForUri` | "no source file" is not the same as "the user deleted it" | removes only what the user removed, and all of it |
| Paths (`UriUtil`, `ETADocDf`) | none | where backup and output of a picture go; back from these to the picture | the way back is not recorded, but computed; volumes, folders inside one another | no two pictures share a place; the way back ends where the way there began |
| `ThumbnailFactory` / `FfmpegSwscaleService` | static `service_replied`, `ffmpeg_thumbnail`, `doStopThread`; a binding, a handler thread and a timer per call | `getThumbnailWithFfmpegService` | answers and timers of earlier calls; death of the process | a call comes back, with its own thumbnail or a failure |
| Native writers (`Exiv2Helper.cpp`, `libexif-helper.c`, `exif/actions.c`, `NativeLibHelper`) | `errorMsg`, the pending exception, the output file | write a thumbnail | an error raised while the code goes on; the first one hides the others; classification by text | only complete pictures are delivered; no tag is lost without an error |
| Screens (`AddThumbsFragment`, `SyncFragment`, `MainActivity`) | `isProcessing`, buttons, bottom bar, `LastServiceLiveData` | start, stop, show, hide, recreate | broadcasts lost while hidden; a destroyed service whose job still runs | one job at a time; Stop works; the user is never locked out |
| `PermissionManager`, `WorkingDirPermActivity` | a static monitor, static `isPermissionGranted` | `checkPermissions`, dialogs | wait and notify without a predicate | the check ends, with a true verdict |
| `getThumbnailTargetSize` | none | a size from a size | rounding | both sides at least 1, ratio kept |
| Timestamps, settings screen, logs, About | – | – | – | – |

How they interact: a screen first has a thread of its own check the
permissions, then starts its service by a command to the system, and hears of
it by broadcasts. The two services share nothing but the files and the
settings. `AddThumbsService` asks `ThumbnailFactory`, which talks by messages
to the service in the `:ffmpeg` process, then calls a writer through
`NativeLibHelper`. Both services trust the places the path code computes.

The hazards, each at its line and with the properties about it, are listed in
`PROJECT.json`.

## 2. Modules

| Module | Models | State and actions in the code |
|---|---|---|
| `Gallery` | the files of one source folder, the settings, the user, the storage provider | `disk`, `part`, `cache` are the files; `prefs` the settings. `DeleteDocument`, `MoveDocument`, `RenamePart` are the calls of `DocumentsContract`. `shot` and `owned` only observe the user. |
| `AddThumbs` | `J/AddThumbsService.java` `doProcessing` | `pc` is the place in the loop, one action per storage call; `doc` and `dest` are the `ETADoc` at hand (`dest` is read from the settings when it is built, all other settings when needed); `todo` is the rest of the `TreeSet`. `copyDocument`, called for the backup copy and for the delivery, is `OpenTarget`, `Stream`, `Swap`, `Rename`. |
| `Album` | what the user may rely on, over both services | abstract: what the picture folder shows of a picture (`asSaved`, `thumbnailed`, `nothing`), whether a spare copy is kept, whether the user still owns it. `Copy`, `SetAside`, `Deliver`, `GiveUp` are all that may happen to a picture besides what the user does. |
| `WriterContract` | what the loop relies on of the four EXIF writers | for each the pairs (what is left under the temporary name, does the loop go on). |
| `NativeWriters` | one call of exiv2 or libexif: `C/Exiv2Helper.cpp`, `C/libexif-helper.c`, `exif/actions.c`, `J/NativeLibHelper.java` | a picture is its sequence of JPEG sections, `ed` the EXIF data in memory, `out` the output file, `raised` the pending exception. One action per library call; `Answer` is the Java side. |
| `Sync` | `J/SyncService.java`, one folder | `CheckDoc` and `DeleteDoc` are separate steps, as another thread may run between them; `dryRun` is what the button asked for. |
| `PictureLife` | both services over the same files | composes `AddThumbs` and `Sync` by interleaving; the bottom bar is what keeps them apart. |
| `SourceFolders` | both jobs over several source folders; `J/UriUtil.java`, `J/ETADocDf.java` | `docs` maps each document id to the picture it shows. `Dir`, `Derived` are the way there, `SrcDocument` the way back. One iteration of a job's loop is one step; its inside is in `AddThumbs` and `Sync`. |
| `ThumbnailCall` | what the loop expects of a thumbnail | abstract: `Ask`, `Answer`. |
| `FfmpegHandshake` | `J/ThumbnailFactory.java`, `J/FfmpegSwscaleService.java` | `replied`, `thumbnail`, `stop` are the static fields; `timer[c]` and `inbox[c]` are the timer and handler threads of call `c`, which outlive it; `looper` is the main looper of the other process. |
| `ServiceControl` | a fragment, `MainActivity`, a service's lifecycle | `svc` is the live instance, whose looper threads go on after it is destroyed (`queue`, `job`, `over`); `news` is a broadcast under way. |
| `PermissionFlow` | `J/PermissionManager.java`, `J/WorkingDirPermActivity.java`, the checks of both fragments | `step` is the checking thread; `rationales`, `system`, `workdir`, `closing` are what is on the screen; `orphans` are the threads of fragments a rotation replaced, which wait on the same monitor. `Notify` is `sync.notify()`. `misled` and `dismissed` only observe. |
| `MCAddThumbs`, `MCPictureLife`, `MCSourceFolders`, `MCPermissionFlow` | – | constants for TLC. |
| `AddThumbs_proofs`, `NoLoss_proofs`, `PictureLife_proofs`, `FfmpegHandshake_proofs`, `ServiceControl_proofs`, `PermissionFlow_proofs`, `SourceFolders_proofs`, `NativeWriters_proofs` | – | theorems and proofs. |

Three abstract specifications are shown to be kept.

* `WriterContract` stands between the loop and the native writers: `AddThumbs`
  takes its outcomes from it, and what the two native writers do is among them
  (`KeepsContract`, checked by `writers`, proved as `ContractKept`).
* `ThumbnailCall` stands between the loop and the ffmpeg process:
  `FfmpegHandshake` refines it (`KeepsPromise`, with liveness, by TLC; the
  safety part, theorem `Implements`, by TLAPS).
* `Album` stands between the program and its user. `AddThumbs!KeepsAlbum` reads
  it off the folders by the state functions `Shown` and `Spares`; a picture
  that is anything but the last version, complete and with its thumbnail where
  the application wrote it, is `broken`, which `Album` never allows. `AddThumbs`
  refines it (run `rerun`, theorem `AlbumKept`), and so do both services side by
  side with outputs in the working directory (run `life_copy`, theorem
  `AlbumBesideSync`). Kill, failure and stop are stutters of `Album`, which is
  the point: they may come anywhere.

### Abstractions

* In `Gallery` a file is a record: which picture it shows, which version of it,
  the state of its thumbnail (`no`, `bare`: without mandatory tags, `yes`),
  whether its bytes are the user's own, whether it is complete, and whether it
  mixes two versions (`torn`).
* In `AddThumbs` a source picture is opened in one step and used in a later one
  (`read`); a save by the user in between makes what was read the old version,
  the new one or a torn mixture (`ReadAlong`). The save itself is one step: as it
  takes the place of the old file at some moment of its overlap with the reading,
  that moment is enough. The settings a writer takes are those of the moment it
  starts, so they do not change while it writes.
* A picture that is gone when its turn comes ends the process: `getSubDir`
  (`J/ETADocDf.java:82`) throws outside any `try`, before the check for which
  `strings.xml:83` has the message "Skipping (file missing)" (`Crash`).
* On Android 9 `Rename` swallows a `FileNotFoundException`, so a `_tmp` file the
  user has removed counts as renamed.
* Failures are choices: wherever the code catches an exception and continues
  with the next picture, the action has a disjunct `Continue`.
* The list is a `TreeSet`; the models take any order, of which the sorted one is
  a case.
* `OpenTarget` does not distinguish an empty `_tmp` file from none: both are
  filled from the start by `Stream`. (On Android 10 and later mode "w" need not
  truncate a longer leftover; the model assumes it does.)
* The provider is taken not to support `copyDocument` itself
  (`UriUtil.supportsCopy` is false for the storages of the platform), and to
  answer truthfully whether a document exists.
* In `NativeWriters` a section is one of six kinds the loaders tell apart (one of
  them has a length field less than its own two bytes), the size of the EXIF data
  one of the four the 16-bit length field tells apart.
* In `FfmpegHandshake` the answer is what the service's handler holds: the
  thumbnail, null when the native code made none, or what was there before when
  it threw. The handler is a new one with each binding, unless an earlier call
  left its own open (`leaked`).
* In `SourceFolders` a name is a sequence of words, of which all but the first
  are suffixes (`DCIM`, `.bak`): that is all the path code does to a name. An
  iteration of AddThumbs may fail after the old backup or output is deleted
  (`Tries`); a source folder may be passed over (`skipped`), because it or its
  permission is gone.
* In `ServiceControl` the system decides at once which instance a start command
  goes to; `onCreate` and `onStartCommand` follow on the main thread in that
  order, so `queue` holds the commands on their way as well as those in the
  looper.
* `wait()` has no spurious wake-up; the restrictions of recent Android versions
  on starting services from the background are not modelled.

## 3. Runs

Passing runs.

| Run | Question | Answer |
|---|---|---|
| `inplace` | default mode, two pictures that share a temporary name: are originals kept, never exchanged, never rolled back; are backups immutable? | yes |
| `rerun` | does switching between the modes, with failures, stop and kill, ever lose a picture? Is `KeepInv` invariant? Is a complete thumbnail ever redone? Does a run end? Is it all an `Album`? | no; yes; no; yes; yes |
| `meddling` | with the user editing the picture at hand: is any file ever cut short under its name, or without its thumbnail? | no; one read while it was saved may mix two versions |
| `life_copy` | with outputs in the working directory: does Sync only follow the user, does the original stay, also when jobs overlap? Does a synchronization end? Do both services keep `Album`? | yes |
| `folders` | with volumes and folders inside one another: has every picture its own backup and output, does Sync delete these only when the picture is gone, AddThumbs at most those of the picture at hand, and does Sync leave none behind where it looks? | yes |
| `handshake` | is a call to ffmpeg what the loop expects, if nothing of earlier calls is left when it starts? If something is, does it come back? | yes: it refines `ThumbnailCall`; yes, as long as the process lives |
| `writers` | whichever library call fails and whichever error hides another: do the native writers keep the contract, the tags, and the level the user chose? | yes, but for the cases named below |
| `screen` | at most one job, no command during a job, does Stop work, until the screen is recreated under a job? Does the end of a job ever drop a command? | yes; no |
| `permissions` | has a waiting check always somebody left to wake it, does it end, and is its verdict true? | yes, but for the cases named below |

Runs that show a disagreement.

| Run | The text | What the code does |
|---|---|---|
| `life_inplace` | `strings.xml:165`: Sync follows deletions in the source folders | an interrupted in-place run leaves the picture only in the backup folder; Sync then deletes it |
| `late_reply` | `src/README.md:3`: adds a thumbnail to the pictures that have none yet | a late answer is taken for that of the next call |
| `navigation` | `MainActivity.java:145`: navigation is again in the hands of the user | a job that ends while the screen is hidden leaves it in the "processing" state |

### What the properties exclude, and what happens there

Each exclusion is a guard of a property, a constant or an assumption, found by
removing it and reading TLC's counterexample.

* `FfmpegHandshake`, not `calm`. The timer of a finished call looks at the stop
  flag every 200 ms only; it may survive into a later call, which clears the
  flag, and fail that call though ffmpeg is well. Its message also stops the
  timer of the current call; if the process then dies, nothing wakes the call.
  A call that is not answered while it is bound leaves its binding open, so that
  the next call has the same handler; a rescaling that throws there answers with
  the thumbnail of the call before (`J/FfmpegSwscaleService.java:76`).
* `Gallery`, `Meddles`. A picture the user saves or deletes while it is being
  worked on may be lost, and one that is saved while it is read is delivered, or
  backed up, as a mixture of two versions (`torn`): nothing in the code notices.
  `meddling` shows that even then no file is delivered that was cut short, or
  that lacks its thumbnail.
* `AddThumbs`, `SafeSettings`. With backups off, in place and overwriting, the
  only copy is deleted before its successor is in place; a writer whose errors
  are ignored delivers cut pictures. In copy mode a second run replaces the
  backup (`AddThumbsService.java:609`), although `strings.xml:132` and `:137`
  say that backups are never overwritten; `BackupImmutable` is about in-place
  mode, for which `src/README.md:33` promises it.
* `NativeWriters`. EXIF data of exactly 65534 bytes passes the size check
  (`actions.c:174`) but wraps the 16-bit length field: the output is unreadable
  and nothing is raised. When the cache is cleared between libexif's two saves
  a broken output is delivered. At a section whose length field is less than two
  `jpeg_data_load_data` breaks off without an error (`jpeg-data.c:233`), and the
  output lacks the rest of the picture. A picture with an APP1 section that is neither
  EXIF nor XMP in front of an unknown section gets fresh EXIF data in place of
  its own. With `libexifSkipOnError` off, a harmless first message hides the
  failure to write the file. An exiv2 exception while writing counts as a
  warning even if errors were logged.
* `PermissionFlow`, `misled` and `dismissed`. Cancel or Deny in a rationale
  leaves the answer to an earlier permission in the static flag, by which the
  check is judged; a rotation of `WorkingDirPermActivity` wakes the thread while
  the user is still choosing; the Back key on a rationale wakes nobody, and the
  check hangs. After a rotation during a check the old thread ends the process
  when it is woken, and so does Stop in `SyncFragment` before its intent is
  built; Stop in `AddThumbsFragment` during a check stops nothing.
* `SourceFolders`, `FoldersAssumption`. The way back drops exactly two names. A
  working directory of two names ("Backups/ThumbAdder"), which the settings
  allow, leads it astray: Sync then deletes every backup and output.
* `SourceFolders`, `skipped`. A source folder that was deleted as a whole is
  passed over (`J/SyncService.java:238`), with a message; all its backups and
  outputs stay, although `src/README.md:25` says that deletions in the source
  directory are synchronized "so that you don't keep in the backup folder
  pictures you don't have anymore". `GoesWithPicture` lets AddThumbs leave the
  picture at hand without a backup or output, since the old one is deleted
  before the new one is renamed.
* `ServiceControl`, `disturbed`. A screen recreated after Stop, while the job
  goes on with the picture at hand, offers Start: two jobs run at once, and a
  start command may reach a service in its job. That two different services
  overlap in this way is not excluded: `life_copy` has it (`Recreates`).

### Bounds

* `Pics`: one or two. The loop handles one picture at a time; what one picture
  may leave for another is the temporary output they share (`OneTmp` gives both
  the same name) and the state of the loop, so two are enough for that
  (`inplace`). `rerun` and `life_copy`, which also check liveness and a
  refinement, have one picture: what they check is about each picture by
  itself, and the theorems on the same properties hold for any number.
* `MaxVer` 2: one edit, before, during or between runs. Comparing "current"
  with "older" needs two versions.
* `PrefSpace`: each run ranges over the settings its properties depend on
  (named in `MCAddThumbs`); the theorems range over all of them.
* The number of runs, failures and kills is not bounded.
* `MaxCalls` 3: a call, the next, and one that meets leftovers of both.
  `MaxDeaths` 2: the process dies and its successor dies too. `Calm` has both
  values in `handshake`, so one run answers both questions.
* `MaxStarts` 3: a job, one started beside it, and one queued behind.
* `MaxMiddle` 3: an EXIF section, one that hides it and one after it, between
  the start and the scan of a picture.
* `MaxChecks` 3, `MaxTurns` 1: a first refusal, the rationale at the second
  check, a refusal without a dialog at the third; one rotation makes an orphan.
  The three devices are one of each kind `getRequiredPermissions` tells apart.
* `MCSourceFolders`: three pictures of one name, in a folder, in one inside it,
  and on another volume in a folder that is not listed unless chosen itself;
  three choices of two source folders that overlap or not.

Symmetry is used only in `inplace`, which has no liveness property.

### Fairness

* `AddThumbs!FairSpec`, `FairLifeSpec`: weak fairness of the job's own thread.
  None on failures, the user or the system.
* `FfmpegHandshake!FairSpec`: the client, each handler thread, each timer, and
  the service. The last includes the system starting the process for a binding:
  the code waits for it without limit (`ThumbnailFactory.java:151`, "TODO: set
  max wait time").
* `ServiceControl!FairSpec`: looper threads take commands, look at the stop flag
  before each picture and call `stopSelf`; a job need not finish by itself.
* `PermissionFlow!FairSpec`: threads run, an activity that was left is destroyed
  in the end, and the user gives some answer to whatever asks for one (Cancel
  and the Back key are answers too).

`Next` never forces what it only may do: `MaxCalls`, `MaxStarts` and `MaxChecks`
end a behaviour, which is why those runs do not check for deadlock; `writers` is
one call, which ends.

## 4. Theorems

Each theorem holds for all values of the constants (pictures, versions, names,
settings, calls, deaths, presses, devices, folders), under the assumptions
named. TLC checked every property first.

`AddThumbs_proofs`

* `TypeCorrect`: `TypeOK`, one proof step per action.
* `BackupKept`: if every setting the user chooses among is in place, backups
  are immutable. Besides the types it needs that the copying procedure is then
  only entered for a delivery (`NeverCopied`): the only step that writes to the
  backup folder is the move, which refuses a taken name.
* `OwnDelivered` (`libexifSkipOnError` on): `OwnPicture`; what is about to be
  delivered under the shared temporary name was made from the picture at hand.
* `CompleteDelivered` (errors of both writers count): `OutputComplete`, even
  with a meddling user, whose saves may tear a file but not cut it.
* `NothingRedone` (pictures with thumbnails are skipped, `~Meddles`):
  `NothingToRedo`; once inspected, the source lacks a complete thumbnail until
  the job is done with it.

`NoLoss_proofs` (`SafeSettings`, `~Meddles`)

* `KeepAlways`, `NothingLost`, `NeverRolledBack`: `KeepInv`, and from it
  `NoLoss` and `SourceCurrent`. `NoLoss` alone is not inductive: whether a
  deletion in the middle of a copy is harmless depends on what the copy has
  established before. `KeepInv` adds it, step by step: what is in the source
  folder is the user's last version (`SourceGood`), it is there until it is
  moved (`SourceThere`), the output about to be delivered is complete and of
  this version (`OutputGood`), what was seen of the target is still so
  (`TargetKnown`), a target is deleted only when another folder holds the
  picture (`EvictSafe`).
* `OriginalsKept` (every setting in place and with backups, `~Meddles`):
  `OriginalKept`, about the bytes saved last, from the fact that the backup holds
  the original whenever an output is about to be delivered.
* `AlbumKept`: AddThumbs implements `Album`. `KeepInv` and `CompleteInv` are not
  enough for it. Two facts about the past are needed: no file shows a version
  still to come (`FromPast`), or a save could turn an old spare copy into a
  current one; and a picture in the source folder that bears the user's name or
  the application's was made as it says (`Belongs`, `Made`), or it would be
  neither `asSaved` nor `thumbnailed`. With these in `AlbumInv`, a step that
  leaves the files alone is a stutter (`OnlyAbout`), and each of the others is
  one action of `Album` on the picture at hand (`AlbumStep`).

`PictureLife_proofs` (`AddThumbs` and `Sync` over the same files)

* `LifeTypes`: `LifeTypeOK`.
* `OriginalUntouched` (`CopyOnly`: every setting keeps the outputs in the
  working directory): `OriginalKept`, even with a meddling user, because no job
  is ever at a step that could write to the source folder (`SourceKept`,
  `OutputsElsewhere`).
* `SyncOnlyFollows` (`CopyOnly`): `SyncFollowsUser`; a picture about to be
  judged deleted was deleted by the user (`DeletedByUser`).
* `OwnBesideSync`, `CompleteBesideSync`, `NothingRedoneBesideSync`: the
  invariants of `AddThumbs` hold beside Sync as well. Sync only removes files
  between two steps of the other job, and what these invariants say of files is
  said of those that are there; what they say of the source folder it leaves
  alone (`Beside`, `LifeProjects`).
* `AlbumBesideSync` (`CopyOnly`, errors count, `~Meddles`): both services
  implement `Album`. A deletion by Sync is a `GiveUp` or a stutter: the
  user deleted the picture, or the source folder still shows it.

`CopyOnly` cannot be dropped: in place, run `life_inplace` shows that Sync
deletes the only copy.

`FfmpegHandshake_proofs`

* `HandshakeTypes`, `HandshakeInvariant`, `WakerLeft`, `OwnTimeoutOnly`: the
  invariant says where every message and timer of a call may be. A binding is
  the last job of the looper, and belongs to the call that waits for it
  (`LooperInv`); calls to come have nothing (`Fresh`). In calm the call under
  way is alone (`Alone`), the stop flag spares its timer (`Spared`), what it
  takes for its answer is (`Answered`), and having waited in vain it has timed
  out (`TimedOut`). As long as no process has died a call that waits has its
  request in the service or its answer in the inbox (`Living`). `WakerLeft` thus
  says nothing of a call that is not calm once the process has died, and
  `OwnTimeoutOnly` speaks of calm calls only.
* `Implements`: every calm behaviour is one of `ThumbnailCall!Spec` under the
  refinement mapping of the module, which is constant for the others.

`ServiceControl_proofs`

* `ControlTypes`, `OneJobOnly`, `NoStartInJob`, `CommandsKept`. The invariant:
  instances are made in order (`Made`), their commands are increasing
  (`Ordered`), the live instance was given the last id (`LastGiven`), and until
  the screen is recreated under a job at most one instance is busy, and the
  screen then shows Stop (`Lone`). `OneJobOnly` and `NoStartInJob` say nothing of
  what comes after such a recreation.

`PermissionFlow_proofs`

* `PermissionTypes`; `NeverForgotten` (`Waker` is inductive with the types), which
  says nothing once a dialog was dismissed or a wake-up is loose.
* `TrueVerdict`: the invariant says that what is still to be checked is a tail
  of what the device requires (`Judging`), and, as long as the check was not
  misled, that the permissions behind are granted or noted as missing
  (`Judged`), and that nothing but what the thread waits for asks the user for
  anything (`Alone`).

`SourceFolders_proofs` (a working directory of one name, sources beside it)

* `FoldersTypes`, `EveryFileHasItsPlace`.
* `DeletedWithPicture`: from the round trip lemma (the way back from a place of
  a picture below a source folder is the picture, whatever the folder) and the
  fact that what Sync has listed lies below the place it goes through.
* `NothingLeftBehind`: what has to be deleted is listed when Sync comes to its
  place (`DueListed`), and what is left of it is in the list still to be taken
  or in the place still to be listed (`Swept`).

`NativeWriters_proofs`

* `WriterTypes`; `ComplaintsHeeded`: `Graded`.
* `TagsNotLost`: `TagsKept` for pictures of any number of sections. As long as
  no error is pending, the data in memory and in the output hold the tags the
  first loading gave; and where the second loading finds the new section, the
  first had found the old one, whose place it took (`FoundAgain`).

* `ContractKept`: `KeepsContract` for pictures of any number of sections. The
  sections the writer leaves alone are compared as pairs of rank and kind
  (`Others`), which a replacement of the EXIF section does not touch, so that no
  induction over the sequence is needed; `LibexifInv` and `Exiv2Inv` say, place
  by place, how much of the output is there and which error is pending, and
  `WholeOutput` that an output without a pending error is the whole picture.

Only model-checked, because liveness under fairness is out of the prover's
reach: `RunEnds`, `SyncEnds`, `CallEnds`, `StopWorks`, `CheckEnds`, and the
liveness part of `KeepsPromise`. Every other property of a passing run is stated
by a theorem.

## 5. Not modelled

* File mode (`ETADocFile`, `FileUtil`): `MainActivity.java:89` turns it off in
  every build but the debug one.
* `getThumbnailTargetSize`: float arithmetic, which TLA+ does not have.
* The values of timestamps and attributes: copying them is one step of `Rename`
  that may fail.
* The inside of `WorkingDirPermActivity` beyond "access given or not", moving
  between the two screens, the settings screen, log views and About.
* An unmounted card, for which `DocumentFile.exists()` is false as for a deleted
  picture: nothing in the code tells the two apart.
* The vendored libraries (ffmpeg, exiv2, libexif, expat, exif,
  android-exif-extended, pixymeta), whose sources are more than 99 % of the
  repository's lines. They are the programs of others, mostly tables, codecs
  and parsers; what the application relies on of them is in `NativeWriters`,
  `WriterContract` and `FfmpegHandshake`, by effect. The application's own logic
  is a few thousand lines of Java and two native helpers, which is what the
  modules cover.
* In the components listed as "partly" in `PROJECT.json`, the note says which
  operations are left out.
