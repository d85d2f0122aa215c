--------------------------- MODULE ServiceControl ---------------------------
(***************************************************************************)
(* A screen (AddThumbsFragment, SyncFragment) and its service.  A start     *)
(* command goes to the live service instance, or makes one; each instance   *)
(* has a looper thread that runs one job per command.  The screen knows of  *)
(* the service by broadcasts, heard only while it is shown, and by asking   *)
(* the system whether the service runs, which says nothing of the job of an *)
(* instance already destroyed.                                              *)
(***************************************************************************)
EXTENDS Naturals, Sequences, FiniteSets

CONSTANTS
  MaxStarts  \* bound on the number of times Start is pressed

ASSUME ControlAssumption == MaxStarts \in Nat

Starts == 1..MaxStarts
Insts == 1..MaxStarts  \* a command makes at most one instance

VARIABLES
  shown,        \* between onStart and onStop
  button,       \* the button displayed; with "stop" the bottom bar is disabled
  isProcessing, \* of the fragment
  asking,       \* the thread of the last Start is in checkPermissions
  orphan,       \* as is one whose fragment is detached
  news,         \* a broadcast is on its way to the fragment
  lastService,  \* LastServiceLiveData names the service
  presses,      \* how often Start was pressed: the start ids
  svc, made,    \* the live service instance, 0 for none; the last one made
  lastId,       \* the last start id given to the live instance
  queue,        \* queue[i]: the start commands on their way to i or in its looper
  job,          \* job[i]: the one being processed, 0 for none
  over,         \* over[i]: doProcessing has returned, stopSelf is next
  disturbed,    \* observation: the screen was recreated with a job under way
  stopProcessing

asides == <<orphan, disturbed>>
screenVars == <<shown, button, isProcessing, asking, asides, news>>
jobVars == <<queue, job, over, stopProcessing>>
vars == <<screenVars, jobVars, lastService, presses, svc, made, lastId>>

\* The types; a thread that is over still has its job, until stopSelf.
TypeOK ==
  /\ button \in {"start", "stop"}
  /\ {shown, isProcessing, asking, orphan, news, disturbed, lastService} \subseteq BOOLEAN
  /\ {presses, svc, made, lastId} \subseteq 0..MaxStarts
  /\ queue \in [Insts -> Seq(Starts)]
  /\ job \in [Insts -> 0..MaxStarts]
  /\ over \in [Insts -> BOOLEAN] /\ \A i \in Insts : over[i] => job[i] # 0
  /\ stopProcessing \in [Insts -> BOOLEAN]

NoneOf(v) == [i \in Insts |-> v]

Init ==
  /\ shown = TRUE /\ button = "start" /\ isProcessing = FALSE
  /\ asking = FALSE /\ orphan = FALSE /\ news = FALSE /\ disturbed = FALSE
  /\ lastService = FALSE
  /\ presses = 0 /\ svc = 0 /\ made = 0 /\ lastId = 0
  /\ queue = NoneOf(<<>>) /\ job = NoneOf(0)
  /\ over = NoneOf(FALSE) /\ stopProcessing = NoneOf(FALSE)

Working(i) == job[i] # 0 /\ ~over[i]

-----------------------------------------------------------------------------
\* The screen.

PressStart ==
  /\ shown /\ button = "start" /\ presses < MaxStarts
  /\ button' = "stop" /\ isProcessing' = TRUE /\ asking' = TRUE
  /\ presses' = presses + 1
  /\ UNCHANGED <<shown, asides, news, lastService, svc, made, lastId, jobVars>>

\* setIsProcessFalse, after a refusal or a broadcast of the service.
BackToStart == isProcessing' = FALSE /\ button' = "start"

Denied ==
  /\ asking /\ asking' = FALSE /\ BackToStart
  /\ UNCHANGED <<shown, asides, news, lastService, presses, svc, made, lastId, jobVars>>

Receive ==
  /\ news /\ shown /\ news' = FALSE /\ BackToStart
  /\ UNCHANGED <<shown, asking, asides, lastService, presses, svc, made, lastId, jobVars>>

\* startForegroundService: the system decides at once which instance is meant.
\* onCreate and onStartCommand follow on the main thread, in the order of the
\* system's decisions; until then the command is on its way, and nothing runs.
Granted ==
  /\ asking /\ asking' = FALSE
  /\ LET i == IF svc = 0 THEN made + 1 ELSE svc IN
       /\ svc' = i
       /\ made' = IF svc = 0 THEN i ELSE made
       /\ queue' = [queue EXCEPT ![i] = Append(@, presses)]
  /\ lastId' = presses /\ lastService' = TRUE
  /\ UNCHANGED <<shown, button, isProcessing, asides, news, presses, job, over, stopProcessing>>

\* Stop destroys the service; with no service yet, or no longer, it does nothing.
PressStop ==
  /\ shown /\ button = "stop" /\ svc # 0
  /\ svc' = 0 /\ stopProcessing' = [stopProcessing EXCEPT ![svc] = TRUE]
  /\ UNCHANGED <<screenVars, lastService, presses, made, lastId, queue, job, over>>

\* Hidden, the screen hears no broadcast.
Hide ==
  /\ shown /\ shown' = FALSE /\ news' = FALSE
  /\ UNCHANGED <<button, isProcessing, asking, asides, lastService, presses, svc, made, lastId,
                 jobVars>>

\* Mutant: the fragment's own flag is left out.
ButtonByService(processing) == IF svc # 0 THEN "stop" ELSE "start"

Button(processing) == IF svc # 0 \/ processing THEN "stop" ELSE "start"

\* onResume: the activity forgets the last service when none runs, the fragment
\* chooses the button.
Show ==
  /\ ~shown /\ shown' = TRUE
  /\ button' = Button(isProcessing)
  /\ lastService' = (lastService /\ svc # 0)
  /\ UNCHANGED <<isProcessing, asking, asides, news, presses, svc, made, lastId, jobVars>>

\* A new fragment takes the place of the old one, whose thread goes on.
Recreate ==
  /\ shown
  /\ isProcessing' = FALSE /\ news' = FALSE
  /\ asking' = FALSE /\ orphan' = (orphan \/ asking)
  /\ disturbed' = (disturbed \/ asking \/ \E i \in Insts : job[i] # 0 \/ queue[i] # <<>>)
  /\ button' = Button(FALSE)
  /\ lastService' = (lastService /\ svc # 0)
  /\ UNCHANGED <<shown, presses, svc, made, lastId, jobVars>>

Screen == \/ PressStart \/ Denied \/ Receive \/ Granted \/ PressStop
          \/ Hide \/ Show \/ Recreate

-----------------------------------------------------------------------------
\* The looper thread of instance i.

Take(i) ==
  /\ job[i] = 0 /\ queue[i] # <<>>
  /\ job' = [job EXCEPT ![i] = Head(queue[i])]
  /\ queue' = [queue EXCEPT ![i] = Tail(@)]
  /\ UNCHANGED <<screenVars, lastService, presses, svc, made, lastId, over, stopProcessing>>

\* doProcessing comes to its end and says so.
Ends(i) == over' = [over EXCEPT ![i] = TRUE] /\ news' = shown
Finish(i) ==
  /\ Working(i) /\ Ends(i)
  /\ UNCHANGED <<shown, button, isProcessing, asking, asides, lastService, presses, svc, made,
                 lastId, queue, job, stopProcessing>>

\* Mutant: the flag is reset and the loop goes on.
StoppedNot(i) ==
  /\ Working(i) /\ stopProcessing[i]
  /\ stopProcessing' = [stopProcessing EXCEPT ![i] = FALSE]
  /\ UNCHANGED <<screenVars, lastService, presses, svc, made, lastId, queue, job, over>>

\* ... or sees the flag.  Its stopSelf() is that of a destroyed instance: no effect.
Stopped(i) ==
  /\ Working(i) /\ stopProcessing[i] /\ Ends(i)
  /\ stopProcessing' = [stopProcessing EXCEPT ![i] = FALSE]
  /\ UNCHANGED <<shown, button, isProcessing, asking, asides, lastService, presses, svc, made,
                 lastId, queue, job>>

\* Mutant: whatever the id, the service goes.
StopSelfAnyway(i) ==
  /\ over[i]
  /\ over' = [over EXCEPT ![i] = FALSE] /\ job' = [job EXCEPT ![i] = 0]
  /\ svc' = IF svc = i THEN 0 ELSE svc
  /\ UNCHANGED <<screenVars, lastService, presses, made, lastId, queue, stopProcessing>>

\* Mutant: the job is gone before it is over.
StopSelfEarly(i) ==
  /\ over[i]
  /\ job' = [job EXCEPT ![i] = 0]
  /\ UNCHANGED <<screenVars, lastService, presses, svc, made, lastId, queue, over,
                 stopProcessing>>

\* stopSelf(startId): destroys the service if that is the last id it was given.
StopSelf(i) ==
  /\ over[i]
  /\ over' = [over EXCEPT ![i] = FALSE] /\ job' = [job EXCEPT ![i] = 0]
  /\ IF svc = i /\ lastId = job[i]
       THEN svc' = 0 /\ stopProcessing' = [stopProcessing EXCEPT ![i] = TRUE]
       ELSE UNCHANGED <<svc, stopProcessing>>
  /\ UNCHANGED <<screenVars, lastService, presses, made, lastId, queue>>

Looper(i) == Take(i) \/ Finish(i) \/ Stopped(i) \/ StopSelf(i)

\* The process is killed; or a thread whose fragment is gone gets a null context
\* and takes the process with it, as does a service that is stopped before it was
\* in the foreground.  The user starts the application again.
ProcessDies ==
  /\ orphan \/ svc # 0 \/ \E i \in Insts : job[i] # 0 \/ queue[i] # <<>>
  /\ shown' = TRUE /\ button' = "start" /\ isProcessing' = FALSE
  /\ asking' = FALSE /\ orphan' = FALSE /\ news' = FALSE /\ disturbed' = FALSE
  /\ lastService' = FALSE
  /\ svc' = 0 /\ lastId' = 0
  /\ queue' = NoneOf(<<>>) /\ job' = NoneOf(0)
  /\ over' = NoneOf(FALSE) /\ stopProcessing' = NoneOf(FALSE)
  /\ UNCHANGED <<presses, made>>

Next == Screen \/ ProcessDies \/ \E i \in Insts : Looper(i)

Spec == Init /\ [][Next]_vars

\* The looper threads run.  A job may take any time (Finish is not fair on its
\* own), but it comes to its next picture, where it looks at the flag.
FairSpec ==
  /\ Spec
  /\ \A i \in Insts : WF_vars(Take(i)) /\ WF_vars(Stopped(i)) /\ WF_vars(StopSelf(i))

-----------------------------------------------------------------------------
\* Two jobs never work on the pictures at the same time, though the system takes
\* the service for gone while a stopped job still works: unless the screen was
\* recreated meanwhile, and then knows nothing of that job.
OneJob == ~disturbed => Cardinality({i \in Insts : Working(i)}) <= 1

\* No start command reaches an instance in the middle of a job: SyncService would
\* overwrite dryRun under the job that is deleting files, or only listing them.
\* (A recreated screen takes the broadcast of a job stopped before for that of
\* the job it has started itself, and offers Start again.)
NoStartDuringJob ==
  ~disturbed => \A i \in Insts : Working(i) => queue[i] = <<>>

\* Once the service is stopped its thread comes to rest, also when a command was
\* still waiting: the flag outlives stopService until a job has seen it.
StopWorks ==
  \A i \in Insts : (i # svc /\ (job[i] # 0 \/ queue[i] # <<>>))
                     ~> (job[i] = 0 /\ queue[i] = <<>>) \/ disturbed

\* The end of a job does not destroy a service to which another command was
\* given meanwhile.
NoCommandDropped ==
  [][\A i \in Insts : Looper(i) /\ svc = i /\ svc' = 0 => queue[i] = <<>>]_vars

\* "Now navigation is again in the hands of the user": once the activity forgets
\* the last service, and no job is left, the bottom bar is enabled.
NavigationBack ==
  [][lastService /\ ~lastService' /\ ~asking
       /\ (\A i \in Insts : job[i] = 0 /\ queue[i] = <<>>)
       => button' = "start"]_vars
=============================================================================
