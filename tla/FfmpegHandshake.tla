--------------------------- MODULE FfmpegHandshake ---------------------------
(***************************************************************************)
(* ThumbnailFactory asking FfmpegSwscaleService, which runs in a process of *)
(* its own, for thumbnails.  Every call has a new factory: a new binding, a *)
(* new handler thread for the answers and a new timer thread.  The flags    *)
(* service_replied and doStopThread and the thumbnail are static: all       *)
(* factories share them, and a call does not wait for the threads of the    *)
(* calls before it.                                                         *)
(***************************************************************************)
EXTENDS Naturals, Sequences

CONSTANTS
  MaxCalls,  \* bound on the number of calls
  MaxDeaths, \* bound on how often the ffmpeg process dies
  Failed,
  Calm       \* the values `calm` ranges over

ASSUME HandshakeAssumption ==
  MaxCalls \in Nat /\ MaxDeaths \in Nat /\ Failed \notin Nat /\ Calm \subseteq BOOLEAN

Calls == 1..MaxCalls

VARIABLES
  calm,      \* the schedule the calls meet, fixed for the whole behaviour: when
             \* TRUE, the timer threads, requests and messages of earlier calls are
             \* gone before a call starts its timer, it then waits within its 2 s,
             \* and no rescaling throws where a thumbnail of another call is held
  call,      \* the number of the last call
  cpc,       \* its step
  bound,     \* bound, and mService not null
  linked,    \* is the process behind mService alive?
  deaths,    \* how often it died
  leaked,    \* has a call left its binding open?  It keeps the service alive
  looper,    \* the main looper of the ffmpeg process: bindings and requests
  held,      \* `thumbnail` of the service's handler: null, or what it made last
  answer,    \* answer[c]: what it sent to call c, 0 when nothing yet
  inbox,     \* inbox[c]: the messages to the handler thread of call c
  timer,     \* timer[c]: the timer thread of call c
  replied,   \* service_replied
  thumbnail, \* ffmpeg_thumbnail: the number of the picture it shows
  stop,      \* doStopThread
  result     \* what the last call that came back returned

clientVars == <<calm, call, cpc, result>>
sharedVars == <<replied, thumbnail, stop>>
serviceVars == <<bound, linked, deaths, leaked, looper, held, answer>>
vars == <<clientVars, sharedVars, serviceVars, inbox, timer>>

Jobs == [what : {"bind", "run"}, of : Calls]
Bitmaps == Calls \cup {Failed}

\* The types; a thumbnail is always that of some call, or none.
TypeOK ==
  /\ calm \in Calm
  /\ call \in 0..MaxCalls
  /\ cpc \in {"idle", "bind", "reset", "send", "check", "waiting", "return"}
  /\ bound \in BOOLEAN /\ linked \in BOOLEAN /\ leaked \in BOOLEAN
  /\ deaths \in 0..MaxDeaths
  /\ looper \in Seq(Jobs)
  /\ inbox \in [Calls -> Seq({"thumbnail", "crash"})]
  /\ timer \in [Calls -> {"new", "on", "stopped", "expired"}]
  /\ replied \in BOOLEAN /\ stop \in BOOLEAN
  /\ answer \in [Calls -> Bitmaps \cup {0}]
  /\ held \in Bitmaps /\ thumbnail \in Bitmaps /\ result \in Bitmaps

Init ==
  /\ calm \in Calm
  /\ call = 0 /\ cpc = "idle" /\ result = Failed
  /\ replied = FALSE /\ thumbnail = Failed /\ stop = FALSE
  /\ bound = FALSE /\ linked = FALSE /\ deaths = 0 /\ leaked = FALSE
  /\ looper = <<>> /\ held = Failed /\ answer = [c \in Calls |-> 0]
  /\ inbox = [c \in Calls |-> <<>>] /\ timer = [c \in Calls |-> "new"]

-----------------------------------------------------------------------------
\* getThumbnailWithFfmpegService.

\* A new factory; bindService only asks.  A service that is still bound has
\* nothing to do for it: the system hands out the binder it has.
Call ==
  /\ cpc = "idle" /\ call < MaxCalls
  /\ call' = call + 1 /\ cpc' = "bind"
  /\ bound' = FALSE /\ linked' = FALSE
  /\ looper' = IF leaked THEN looper
                         ELSE Append(looper, [what |-> "bind", of |-> call + 1])
  /\ UNCHANGED <<calm, result, deaths, leaked, held, answer, sharedVars, inbox, timer>>

Quiet == /\ \A c \in 1..call - 1 : timer[c] # "on" /\ inbox[c] = <<>>
         /\ \A i \in DOMAIN looper : looper[i].of = call

\* Mutant: the stop flag of the call before is left set.
ArmWithOldStop ==
  /\ cpc = "bind" /\ bound /\ (calm => Quiet)
  /\ timer' = [timer EXCEPT ![call] = "on"]
  /\ cpc' = "reset"
  /\ UNCHANGED <<calm, call, result, sharedVars, serviceVars, inbox>>

\* Once bound: the stop flag is cleared and the timer thread started.
Arm ==
  /\ cpc = "bind" /\ bound /\ (calm => Quiet)
  /\ stop' = FALSE
  /\ timer' = [timer EXCEPT ![call] = "on"]
  /\ cpc' = "reset"
  /\ UNCHANGED <<calm, call, result, replied, thumbnail, serviceVars, inbox>>

\* Mutant: the answer of the call before still counts.
ResetNothing ==
  /\ cpc = "reset" /\ cpc' = "send"
  /\ UNCHANGED <<calm, call, result, sharedVars, serviceVars, inbox, timer>>

Reset ==
  /\ cpc = "reset"
  /\ replied' = FALSE /\ cpc' = "send"
  /\ UNCHANGED <<calm, call, result, thumbnail, stop, serviceVars, inbox, timer>>

\* A dead process is a RemoteException, which is dropped; a null mService is a
\* NullPointerException, which ends the call, its timer and binding left behind.
Send ==
  /\ cpc = "send"
  /\ \/ /\ bound
        /\ looper' = IF linked THEN Append(looper, [what |-> "run", of |-> call])
                               ELSE looper
        /\ cpc' = "check" /\ UNCHANGED <<result, leaked>>
     \/ /\ ~bound
        /\ cpc' = "idle" /\ result' = Failed /\ leaked' = TRUE /\ UNCHANGED looper
  /\ UNCHANGED <<calm, call, bound, linked, deaths, held, answer, sharedVars, inbox, timer>>

\* Mutant: waits without looking whether the answer is already there.
CheckNothing ==
  /\ cpc = "check" /\ cpc' = "waiting"
  /\ UNCHANGED <<calm, call, result, sharedVars, serviceVars, inbox, timer>>

Check ==
  /\ cpc = "check"
  /\ cpc' = IF replied THEN "return" ELSE "waiting"
  /\ UNCHANGED <<calm, call, result, sharedVars, serviceVars, inbox, timer>>

\* A null thumbnail is thrown away by getThumbnailBitmap: the call failed.  A call
\* answered by a process that has died since leaves its binding open.
Return ==
  /\ cpc = "return"
  /\ stop' = TRUE
  /\ result' = IF replied THEN thumbnail ELSE Failed
  /\ leaked' = (leaked \/ (replied /\ ~bound))
  /\ cpc' = "idle"
  /\ UNCHANGED <<calm, call, replied, thumbnail, bound, linked, deaths, looper, held, answer,
                 inbox, timer>>

Client == Arm \/ Reset \/ Send \/ Check \/ Return

-----------------------------------------------------------------------------
\* The handler threads: sync.notify() wakes the call that waits, whichever it is.

Notify == cpc' = IF cpc = "waiting" THEN "return" ELSE cpc

\* Mutants: the flag is forgotten; the thumbnail is the one before (0 is null).
HandleThumbnailUnflagged(c) ==
  /\ inbox[c] # <<>> /\ Head(inbox[c]) = "thumbnail"
  /\ thumbnail' = answer[c] /\ Notify
  /\ inbox' = [inbox EXCEPT ![c] = Tail(@)]
  /\ UNCHANGED <<calm, call, result, replied, stop, serviceVars, timer>>

HandleThumbnailBefore(c) ==
  /\ inbox[c] # <<>> /\ Head(inbox[c]) = "thumbnail"
  /\ replied' = TRUE /\ thumbnail' = c - 1 /\ Notify
  /\ inbox' = [inbox EXCEPT ![c] = Tail(@)]
  /\ UNCHANGED <<calm, call, result, stop, serviceVars, timer>>

HandleThumbnail(c) ==
  /\ inbox[c] # <<>> /\ Head(inbox[c]) = "thumbnail"
  /\ replied' = TRUE /\ thumbnail' = answer[c] /\ Notify
  /\ inbox' = [inbox EXCEPT ![c] = Tail(@)]
  /\ UNCHANGED <<calm, call, result, stop, serviceVars, timer>>

HandleCrash(c) ==
  /\ inbox[c] # <<>> /\ Head(inbox[c]) = "crash"
  /\ stop' = TRUE /\ Notify
  /\ inbox' = [inbox EXCEPT ![c] = Tail(@)]
  /\ UNCHANGED <<calm, call, result, replied, thumbnail, serviceVars, timer>>

\* The timer threads: the flag is looked at every 200 ms, for 2 s.
TimerStops(c) ==
  /\ timer[c] = "on" /\ stop
  /\ timer' = [timer EXCEPT ![c] = "stopped"]
  /\ UNCHANGED <<clientVars, sharedVars, serviceVars, inbox>>

TimerExpires(c) ==
  /\ timer[c] = "on"
  /\ calm => ~(c = call /\ cpc \in {"reset", "send", "check"})
  /\ timer' = [timer EXCEPT ![c] = "expired"]
  /\ inbox' = [inbox EXCEPT ![c] = Append(@, "crash")]
  /\ UNCHANGED <<clientVars, sharedVars, serviceVars>>

-----------------------------------------------------------------------------
\* FfmpegSwscaleService: one looper handles bindings and requests in turn.  The
\* last unbinding destroys the service, so each binding makes a new handler.

Connect ==
  /\ looper # <<>> /\ Head(looper).what = "bind"
  /\ looper' = Tail(looper)
  /\ bound' = TRUE /\ linked' = TRUE /\ held' = Failed
  /\ UNCHANGED <<clientVars, deaths, leaked, answer, sharedVars, inbox, timer>>

\* The answer is whatever the handler then holds: the thumbnail, or null when the
\* native code made none; an exception leaves what was there before.
Rescale ==
  /\ looper # <<>> /\ Head(looper).what = "run"
  /\ looper' = Tail(looper)
  /\ LET c == Head(looper).of
     IN \E shown \in {c, Failed} \cup (IF calm THEN {} ELSE {held}) :
          /\ held' = shown
          /\ answer' = [answer EXCEPT ![c] = shown]
          /\ inbox' = [inbox EXCEPT ![c] = Append(@, "thumbnail")]
  /\ UNCHANGED <<clientVars, sharedVars, bound, linked, deaths, leaked, timer>>

\* The process crashes, or the system kills it: requests are lost, a binding is
\* made again.  There is one at most, and nothing after it: a call sends nothing
\* before it is bound.
IsBind(job) == job.what = "bind"
Kept == IF looper # <<>> /\ IsBind(looper[Len(looper)]) THEN <<looper[Len(looper)]>>
                                                      ELSE <<>>
Die ==
  /\ deaths < MaxDeaths
  /\ linked \/ leaked \/ \E i \in DOMAIN looper : ~IsBind(looper[i])
  /\ looper' = Kept
  /\ linked' = FALSE /\ deaths' = deaths + 1 /\ held' = Failed
  /\ UNCHANGED <<clientVars, sharedVars, bound, leaked, answer, inbox, timer>>

\* The call learns of it, and of the new process the system starts for it.
Disconnected ==
  /\ cpc # "idle" /\ bound /\ ~linked
  /\ bound' = FALSE
  /\ UNCHANGED <<clientVars, sharedVars, linked, deaths, leaked, looper, held, answer, inbox,
                 timer>>

\* So does one that finds a service an earlier call has left bound.
Reconnected ==
  /\ cpc # "idle" /\ ~linked /\ \A i \in DOMAIN looper : ~IsBind(looper[i])
  /\ bound' = TRUE /\ linked' = TRUE
  /\ UNCHANGED <<clientVars, sharedVars, deaths, leaked, looper, held, answer, inbox, timer>>

Service == Connect \/ Rescale \/ Reconnected

-----------------------------------------------------------------------------
Next ==
  \/ Call \/ Client \/ Service \/ Die \/ Disconnected
  \/ \E c \in Calls : \/ HandleThumbnail(c) \/ HandleCrash(c)
                      \/ TimerStops(c) \/ TimerExpires(c)

Spec == Init /\ [][Next]_vars

\* Every thread runs; the system starts the service and restarts it, and a
\* rescaling ends or crashes.
FairSpec ==
  /\ Spec
  /\ WF_vars(Client) /\ WF_vars(Service)
  /\ \A c \in Calls : /\ WF_vars(HandleThumbnail(c) \/ HandleCrash(c))
                      /\ WF_vars(TimerStops(c) \/ TimerExpires(c))

-----------------------------------------------------------------------------
\* A call never returns the thumbnail of another call's picture.
OwnThumbnail == cpc = "idle" => result \in {call, Failed}

\* No lost wake-up: a waiting call still has its timer, an unread message, or,
\* where the threads of earlier calls may have stopped its timer, its request
\* in a service that lives.
Asked == \E i \in DOMAIN looper : looper[i] = [what |-> "run", of |-> call]
Waker == cpc = "waiting" => \/ timer[call] = "on" \/ inbox[call] # <<>>
                            \/ ~calm /\ (deaths > 0 \/ Asked)

\* In calm, a call that had waited fails only because its own two seconds are over,
\* or the service has answered it without a thumbnail: no message meant for another
\* call ends it.
OnlyOwnTimeout ==
  [][calm /\ cpc = "return" /\ cpc' = "idle" /\ result' = Failed
       => timer[call] = "expired" \/ answer[call] = Failed]_vars

\* Every call comes back: in calm also when the ffmpeg process crashes, and with
\* the timers and messages of earlier calls in any order as long as it does not.
CallEnds == (cpc # "idle") ~> (cpc = "idle" \/ (~calm /\ deaths > 0))

\* All in one: in calm the calls behave as AddThumbs takes them to.
Promise == INSTANCE ThumbnailCall WITH
             call <- IF calm THEN call ELSE 0,
             pending <- calm /\ cpc # "idle",
             result <- IF calm THEN result ELSE Failed
KeepsPromise == Promise!FairSpec
=============================================================================
