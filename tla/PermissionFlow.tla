--------------------------- MODULE PermissionFlow ---------------------------
(***************************************************************************)
(* What happens between Start and the start of the service: a thread goes  *)
(* through the permissions the device and the settings require, then       *)
(* through the access to the working directory (AddThumbsFragment), or     *)
(* looks at the latter only (SyncFragment).  To ask the user it shows a    *)
(* dialog or an activity on the main thread and waits on PermissionManager *)
(* .sync, one static monitor without a predicate; the answer of the system *)
(* comes back in the static isPermissionGranted.  A rotation replaces the  *)
(* fragment, whose thread (an orphan) keeps waiting on the same monitor.   *)
(***************************************************************************)
EXTENDS Naturals, Sequences

CONSTANTS
  Devices,   \* the devices and settings the runs range over
  MaxChecks, \* bound on the number of times Start is pressed
  MaxTurns,  \* bound on the number of rotations
  None       \* no permission

Perms == {"WRITE_EXTERNAL_STORAGE", "READ_EXTERNAL_STORAGE", "READ_MEDIA_IMAGES",
          "MANAGE_EXTERNAL_STORAGE", "ACCESS_MEDIA_LOCATION", "POST_NOTIFICATIONS"}

Device == [sdk : Nat, useSAF : BOOLEAN, libexif : BOOLEAN]

ASSUME PermissionAssumption ==
  /\ Devices \subseteq Device
  /\ MaxChecks \in Nat /\ MaxTurns \in Nat
  /\ None \notin Perms

VARIABLES
  device,
  granted,   \* the permissions the system has granted
  denials,   \* denials[p]: how often the user refused p in the system's dialog, at most 2
  dirOk,     \* is there a working directory, with a persisted permission for it?
  step,      \* of the thread of the fragment
  todo,      \* the permissions still to check
  missing,   \* hasMissingPermission
  goOn,      \* continueWithoutWriteExternalStoragePermission
  full,      \* is this the check of AddThumbsFragment, permissions and directory?
  verdict,   \* of the last check that came to its end
  isPermissionGranted,
  rationales, \* the permissions whose rationale dialog is shown
  system,    \* the permission the system is asking the user for
  workdir,   \* is WorkingDirPermActivity open?
  closing,   \* how many of its instances are finished but not yet destroyed
  orphans,   \* threads of replaced fragments that wait on the monitor
  loose,     \* has such a thread been woken?
  checks, turns,
  misled,    \* observation: in this check a wait ended without its own answer
  dismissed  \* observation: a rationale of this check was closed without a button

checkVars == <<step, todo, missing, goOn, full, verdict>>
screenVars == <<rationales, system, workdir, closing>>
systemVars == <<device, granted, denials, dirOk>>
orphanVars == <<orphans, loose>>
seenVars == <<misled, dismissed>>
countVars == <<checks, turns>>
vars == <<checkVars, screenVars, systemVars, orphanVars, seenVars, countVars,
          isPermissionGranted>>

Steps == {"idle", "check", "wait", "woken", "dir", "dirWait", "dirWoken"}

\* The types; a thread that waits for a permission has it still in its list.
TypeOK ==
  /\ device \in Devices
  /\ granted \in SUBSET Perms
  /\ denials \in [Perms -> 0..2]
  /\ dirOk \in BOOLEAN
  /\ step \in Steps
  /\ todo \in Seq(Perms)
  /\ step \in {"wait", "woken"} => todo # <<>>
  /\ missing \in BOOLEAN /\ goOn \in BOOLEAN /\ full \in BOOLEAN
  /\ verdict \in {"none", "start", "refuse"}
  /\ isPermissionGranted \in BOOLEAN
  /\ rationales \in SUBSET Perms
  /\ system \in Perms \cup {None}
  /\ workdir \in BOOLEAN
  /\ closing \in Nat /\ orphans \in Nat
  /\ loose \in BOOLEAN
  /\ checks \in 0..MaxChecks /\ turns \in 0..MaxTurns
  /\ misled \in BOOLEAN /\ dismissed \in BOOLEAN

-----------------------------------------------------------------------------
\* getRequiredPermissions.

FileAccess(d) ==
  IF d.sdk <= 29 THEN <<"WRITE_EXTERNAL_STORAGE">>
  ELSE IF ~d.useSAF THEN <<"MANAGE_EXTERNAL_STORAGE">>
  ELSE IF d.sdk <= 32 THEN <<"READ_EXTERNAL_STORAGE">>
  ELSE IF d.libexif THEN <<"READ_MEDIA_IMAGES">> ELSE <<>>

Required(d) ==
  FileAccess(d) \o (IF d.sdk >= 29 THEN <<"ACCESS_MEDIA_LOCATION">> ELSE <<>>)
                \o (IF d.sdk >= 33 THEN <<"POST_NOTIFICATIONS">> ELSE <<>>)

\* Before Android 11, with the Storage Access Framework, the user may do without
\* the permission, which only serves to keep timestamps.
Optional(d) == d.useSAF /\ d.sdk <= 29

Init ==
  /\ device \in Devices
  /\ granted = {} /\ denials = [p \in Perms |-> 0] /\ dirOk \in BOOLEAN
  /\ step = "idle" /\ todo = <<>> /\ missing = FALSE /\ goOn = FALSE
  /\ full = TRUE /\ verdict = "none"
  /\ isPermissionGranted = FALSE
  /\ rationales = {} /\ system = None /\ workdir = FALSE /\ closing = 0
  /\ orphans = 0 /\ loose = FALSE
  /\ checks = 0 /\ turns = 0
  /\ misled = FALSE /\ dismissed = FALSE

\* Something of the application is in front of the screen.
Covered == rationales # {} \/ system # None \/ workdir

\* The user presses Start, List or Delete.
Press(first) ==
  /\ step = "idle" /\ ~Covered /\ checks < MaxChecks
  /\ checks' = checks + 1
  /\ step' = first /\ full' = (first = "check")
  /\ todo' = IF first = "check" THEN Required(device) ELSE <<>>
  /\ missing' = FALSE /\ goOn' = FALSE /\ verdict' = "none"
  /\ misled' = FALSE /\ dismissed' = FALSE
  /\ UNCHANGED <<turns, screenVars, systemVars, orphanVars, isPermissionGranted>>

PressStart == Press("check")
PressSync == Press("dir")

-----------------------------------------------------------------------------
\* The thread.

\* requestPermission: granted already, or ask; after one refusal, explain first.
MustNotAsk == step = "check" /\ todo # <<>> /\ Head(todo) \in granted

\* Mutant: a permission granted already is judged again with the next one's turn.
GrantedJudgedTwice ==
  /\ MustNotAsk
  /\ isPermissionGranted' = TRUE
  /\ todo' = Tail(todo) /\ step' = "woken"
  /\ UNCHANGED <<missing, goOn, full, verdict, screenVars, systemVars, orphanVars, seenVars,
                 countVars>>

Granted ==
  /\ MustNotAsk
  /\ isPermissionGranted' = TRUE
  /\ todo' = Tail(todo)
  /\ UNCHANGED <<step, missing, goOn, full, verdict, screenVars, systemVars, orphanVars, seenVars,
                 countVars>>

Explain ==
  /\ step = "check" /\ todo # <<>> /\ Head(todo) \notin granted
  /\ denials[Head(todo)] = 1
  /\ rationales' = rationales \cup {Head(todo)}
  /\ step' = "wait"
  /\ UNCHANGED <<todo, missing, goOn, full, verdict, system, workdir, closing, systemVars,
                 orphanVars, seenVars, countVars, isPermissionGranted>>

\* requestPermissionLauncher.launch.
MustAsk == /\ step = "check" /\ todo # <<>> /\ Head(todo) \notin granted
           /\ denials[Head(todo)] # 1

Request ==
  /\ MustAsk /\ system = None
  /\ system' = Head(todo) /\ step' = "wait"
  /\ UNCHANGED <<todo, missing, goOn, full, verdict, rationales, workdir, closing, systemVars,
                 orphanVars, seenVars, countVars, isPermissionGranted>>

\* The system asks one thing at a time: launch calls back at once, with a refusal,
\* before this thread waits.
RequestWhileAsking ==
  /\ MustAsk /\ system # None
  /\ isPermissionGranted' = FALSE /\ step' = "wait"
  /\ IF orphans > 0 THEN orphans' = orphans - 1 /\ loose' = TRUE
                    ELSE UNCHANGED orphanVars
  /\ UNCHANGED <<todo, missing, goOn, full, verdict, screenVars, systemVars, seenVars,
                 countVars>>

\* checkPermission, once requestPermission is back: notifications may be refused.
Passed(p) == \/ isPermissionGranted
             \/ goOn /\ Optional(device)
             \/ p = "POST_NOTIFICATIONS"

Judge ==
  /\ step = "woken"
  /\ missing' = (missing \/ ~Passed(Head(todo)))
  /\ todo' = Tail(todo) /\ step' = "check"
  /\ UNCHANGED <<goOn, full, verdict, screenVars, systemVars, orphanVars, seenVars, countVars,
                 isPermissionGranted>>

ToDir ==
  /\ step = "check" /\ todo = <<>> /\ step' = "dir"
  /\ UNCHANGED <<todo, missing, goOn, full, verdict, screenVars, systemVars, orphanVars, seenVars,
                 countVars, isPermissionGranted>>

\* The service is started, or the screen goes back to Start.
End(ok) ==
  /\ step' = "idle" /\ verdict' = IF ok THEN "start" ELSE "refuse"
  /\ UNCHANGED <<todo, missing, goOn, full>>

\* isWorkingDirPermOk.
LookAtDir ==
  /\ step = "dir"
  /\ IF dirOk THEN End(~missing) /\ UNCHANGED workdir
              ELSE /\ workdir' = TRUE /\ step' = "dirWait"
                   /\ UNCHANGED <<todo, missing, goOn, full, verdict>>
  /\ UNCHANGED <<rationales, system, closing, systemVars, orphanVars, seenVars,
                 countVars, isPermissionGranted>>

LookAgain ==
  /\ step = "dirWoken" /\ End(dirOk /\ ~missing)
  /\ UNCHANGED <<screenVars, systemVars, orphanVars, seenVars, countVars, isPermissionGranted>>

Thread == Granted \/ Explain \/ Request \/ RequestWhileAsking \/ Judge \/ ToDir \/ LookAtDir \/ LookAgain

-----------------------------------------------------------------------------
\* sync.notify() wakes one of the threads that wait, whichever it is.

Woken == CASE step = "wait" -> "woken" [] step = "dirWait" -> "dirWoken"

\* `own`: is this what a thread at that step waits for?
Notify(own) ==
  \/ /\ step \in {"wait", "dirWait"}
     /\ step' = Woken /\ misled' = (misled \/ step \notin own)
     /\ UNCHANGED orphanVars
  \/ /\ orphans > 0 /\ orphans' = orphans - 1 /\ loose' = TRUE
     /\ UNCHANGED <<step, misled>>
  \/ /\ step \notin {"wait", "dirWait"} /\ orphans = 0
     /\ UNCHANGED <<step, misled, orphanVars>>

\* The buttons of a rationale dialog.
Ok(p) ==
  /\ p \in rationales /\ rationales' = rationales \ {p}
  /\ system = None /\ system' = p
  /\ UNCHANGED <<checkVars, workdir, closing, systemVars, orphanVars, seenVars, countVars,
                 isPermissionGranted>>

OkWhileAsking(p) ==
  /\ p \in rationales /\ rationales' = rationales \ {p}
  /\ system # None /\ isPermissionGranted' = FALSE
  /\ Notify({})
  /\ UNCHANGED <<todo, missing, goOn, full, verdict, system, workdir, closing, systemVars,
                 dismissed, countVars>>

Cancel(p) ==
  /\ p \in rationales /\ rationales' = rationales \ {p}
  /\ Notify({})
  /\ UNCHANGED <<todo, missing, goOn, full, verdict, system, workdir, closing, systemVars,
                 dismissed, countVars, isPermissionGranted>>

Deny(p) ==
  /\ p \in rationales /\ rationales' = rationales \ {p}
  /\ goOn' = (goOn \/ Optional(device))
  /\ Notify({})
  /\ UNCHANGED <<todo, missing, full, verdict, system, workdir, closing, systemVars,
                 dismissed, countVars, isPermissionGranted>>

\* The dialog is cancelable: the Back key closes it, and tells nobody.
Dismiss(p) ==
  /\ p \in rationales /\ rationales' = rationales \ {p}
  /\ dismissed' = TRUE
  /\ UNCHANGED <<checkVars, system, workdir, closing, systemVars, orphanVars, misled,
                 countVars, isPermissionGranted>>

\* The system's answer: a dialog, or none after two refusals or when a related
\* permission is granted; MANAGE_EXTERNAL_STORAGE is only given in the settings.
Min2(n) == IF n > 2 THEN 2 ELSE n
Answers ==
  /\ system # None
  /\ \/ /\ system # "MANAGE_EXTERNAL_STORAGE"
        /\ granted' = granted \cup {system} /\ isPermissionGranted' = TRUE
        /\ UNCHANGED denials
     \/ /\ isPermissionGranted' = FALSE
        /\ denials' \in {denials, [denials EXCEPT ![system] = Min2(@ + 1)]}
        /\ UNCHANGED granted

\* Mutants of the callback: it forgets a refusal; it tells nobody.
SystemAnswersStale ==
  /\ system # None /\ system' = None
  /\ \/ granted' = granted \cup {system} /\ isPermissionGranted' = TRUE /\ UNCHANGED denials
     \/ /\ denials' = [denials EXCEPT ![system] = Min2(@ + 1)]
        /\ UNCHANGED <<granted, isPermissionGranted>>
  /\ Notify({"wait"})
  /\ UNCHANGED <<todo, missing, goOn, full, verdict, rationales, workdir, closing, device,
                 dirOk, dismissed, countVars>>

SystemAnswersSilently ==
  /\ Answers /\ system' = None
  /\ UNCHANGED <<checkVars, rationales, workdir, closing, device, dirOk, seenVars,
                 orphanVars, countVars>>

SystemAnswers ==
  /\ Answers /\ system' = None
  /\ Notify({"wait"})
  /\ UNCHANGED <<todo, missing, goOn, full, verdict, rationales, workdir, closing, device,
                 dirOk, dismissed, countVars>>

\* WorkingDirPermActivity: the user gives access to the directory, or goes back;
\* the instance is destroyed some time later.
LeaveWorkdir ==
  /\ workdir /\ workdir' = FALSE /\ closing' = closing + 1
  /\ dirOk' \in {dirOk, TRUE}
  /\ UNCHANGED <<checkVars, rationales, system, device, granted, denials, orphanVars,
                 seenVars, countVars, isPermissionGranted>>

\* Mutant: nobody is told.
DestroyedSilently ==
  /\ closing > 0 /\ closing' = closing - 1
  /\ UNCHANGED <<checkVars, rationales, system, workdir, systemVars, orphanVars,
                 seenVars, countVars, isPermissionGranted>>

Destroyed ==
  /\ closing > 0 /\ closing' = closing - 1
  /\ Notify(IF workdir THEN {} ELSE {"dirWait"})
  /\ UNCHANGED <<todo, missing, goOn, full, verdict, rationales, system, workdir,
                 systemVars, dismissed, countVars, isPermissionGranted>>

-----------------------------------------------------------------------------
\* A rotation destroys WorkingDirPermActivity and opens it again ...
TurnWorkdir ==
  /\ workdir /\ turns < MaxTurns /\ turns' = turns + 1
  /\ Notify({})
  /\ UNCHANGED <<todo, missing, goOn, full, verdict, screenVars, systemVars, dismissed, checks,
                 isPermissionGranted>>

\* ... or replaces the fragment: rationales close, the system's dialog stays and
\* answers the new fragment.
Turn ==
  /\ ~workdir /\ turns < MaxTurns /\ turns' = turns + 1
  /\ rationales' = {}
  /\ step' = "idle" /\ todo' = <<>> /\ verdict' = "none"
  /\ orphans' = orphans + (IF step \in {"wait", "dirWait"} THEN 1 ELSE 0)
  /\ loose' = (loose \/ step \in {"check", "woken", "dir", "dirWoken"})
  /\ UNCHANGED <<missing, goOn, full, system, workdir, closing, systemVars, seenVars,
                 checks, isPermissionGranted>>

\* An orphan that runs calls getString or getContext of its detached fragment,
\* and takes the process with it; so does Stop in SyncFragment before its thread
\* has built syncServiceIntent.  (In AddThumbsFragment Stop does nothing yet.)
\* The system may kill the process too.
Crash ==
  /\ loose \/ step # "idle"
  /\ step' = "idle" /\ todo' = <<>> /\ verdict' = "none" /\ missing' = FALSE /\ goOn' = FALSE
  /\ full' = TRUE /\ isPermissionGranted' = FALSE
  /\ rationales' = {} /\ system' = None /\ workdir' = FALSE /\ closing' = 0
  /\ orphans' = 0 /\ loose' = FALSE
  /\ misled' = FALSE /\ dismissed' = FALSE
  /\ UNCHANGED <<systemVars, countVars>>

User == \/ PressStart \/ PressSync
        \/ \E p \in Perms : Ok(p) \/ OkWhileAsking(p) \/ Cancel(p) \/ Deny(p) \/ Dismiss(p)
        \/ SystemAnswers \/ LeaveWorkdir
        \/ TurnWorkdir \/ Turn

Next == Thread \/ User \/ Destroyed \/ Crash

Spec == Init /\ [][Next]_vars

\* Threads run, activities that were left are destroyed in the end, and the user
\* gives some answer to whatever asks for one.
FairSpec ==
  /\ Spec
  /\ WF_vars(Thread) /\ WF_vars(Destroyed)
  /\ WF_vars(loose /\ Crash)
  /\ WF_vars(SystemAnswers) /\ WF_vars(LeaveWorkdir)
  /\ \A p \in Perms : WF_vars(Ok(p) \/ OkWhileAsking(p) \/ Cancel(p) \/ Deny(p) \/ Dismiss(p))

-----------------------------------------------------------------------------
\* Everything the service will need is there; notifications it can do without.
AllThere ==
  /\ dirOk
  /\ full => \A i \in DOMAIN Required(device) :
              Required(device)[i] \in granted \cup {"POST_NOTIFICATIONS"}

\* The service is started when all it needs is there, and only then, whatever
\* earlier permissions and checks have left in the static flag: as long as each
\* wait of this check ended with the answer it was waiting for (and not by Cancel
\* or Deny in a rationale, by an activity destroyed late, or by an answer meant
\* for another request).
VerdictTrue ==
  ~misled => /\ verdict = "start" => AllThere
             /\ verdict = "refuse" => ~AllThere

\* A thread that waits will be woken: what it asked for is still on the screen,
\* or its answer on the way.  Not so once the Back key has closed a rationale.
Waker ==
  step \in {"wait", "dirWait"} =>
    Covered \/ closing > 0 \/ loose \/ dismissed

\* A check comes to its end when the user answers, with the same exception,
\* although its wake-up may go to an orphan: that one ends the process.
CheckEnds == (step # "idle") ~> (step = "idle" \/ dismissed)
=============================================================================
