------------------------ MODULE FfmpegHandshake_proofs ------------------------
(***************************************************************************)
(* Proofs about FfmpegHandshake, for any number of calls and of deaths of  *)
(* the ffmpeg process.                                                     *)
(***************************************************************************)
EXTENDS FfmpegHandshake, TLAPS

\* The types, and what the looper of the ffmpeg process may hold: requests of
\* the calls made so far, and as its last job the binding of a call that waits
\* for it.
IsLast(i) == i = Len(looper)
LooperInv ==
  /\ cpc # "idle" => call \in Calls
  /\ \A i \in DOMAIN looper :
       /\ looper[i].what = "bind" => /\ IsLast(i) /\ looper[i].of = call
                                     /\ ~bound /\ cpc = "bind"
       /\ looper[i].what = "run" => /\ looper[i].of <= call
                                    /\ looper[i].of # call \/ cpc # "bind"

\* Sequences that grow or shrink by one element keep their type.
LEMMA AppendType ==
  ASSUME NEW S, NEW s \in Seq(S), NEW e \in S
  PROVE  Append(s, e) \in Seq(S)
OBVIOUS

LEMMA TailType ==
  ASSUME NEW S, NEW s \in Seq(S), s # <<>>
  PROVE  Tail(s) \in Seq(S) /\ Head(s) \in S
OBVIOUS

\* The two halves of TypeOK, for provers that know either Booleans or numbers.
Flags == /\ calm \in Calm /\ bound \in BOOLEAN /\ linked \in BOOLEAN /\ leaked \in BOOLEAN
         /\ replied \in BOOLEAN /\ stop \in BOOLEAN
Data ==
  /\ call \in 0..MaxCalls
  /\ cpc \in {"idle", "bind", "reset", "send", "check", "waiting", "return"}
  /\ deaths \in 0..MaxDeaths
  /\ looper \in Seq(Jobs)
  /\ inbox \in [Calls -> Seq({"thumbnail", "crash"})]
  /\ timer \in [Calls -> {"new", "on", "stopped", "expired"}]
  /\ answer \in [Calls -> Bitmaps \cup {0}]
  /\ held \in Bitmaps /\ thumbnail \in Bitmaps /\ result \in Bitmaps

LEMMA Halves == TypeOK <=> Flags /\ Data
BY DEF TypeOK, Flags, Data

\* The types hold in the first state, and every step keeps them.
LEMMA InitType == ASSUME Init PROVE TypeOK
<1>1. Flags
  BY Zenon DEF Init, Flags
<1>2. Data
  BY HandshakeAssumption DEF Init, Data, Bitmaps
<1>3. QED BY <1>1, <1>2, Halves

LEMMA NextFlags == ASSUME Flags, [Next]_vars PROVE Flags'
<1>1. CASE Call \/ Die \/ Disconnected
  BY <1>1, Zenon DEF Flags, Call, Die, Disconnected, clientVars, sharedVars
<1>2. CASE Client
  BY <1>2, Zenon DEF Flags, Client, Arm, Reset, Send, Check, Return, sharedVars, serviceVars
<1>3. CASE Service
  BY <1>3, Zenon DEF Flags, Service, Connect, Rescale, Reconnected, clientVars, sharedVars
<1>4. ASSUME NEW c \in Calls,
             HandleThumbnail(c) \/ HandleCrash(c) \/ TimerStops(c) \/ TimerExpires(c)
      PROVE  Flags'
  BY <1>4, Zenon DEF Flags, HandleThumbnail, HandleCrash, TimerStops, TimerExpires,
     clientVars, sharedVars, serviceVars
<1>5. CASE UNCHANGED vars
  BY <1>5, Zenon DEF Flags, vars, clientVars, sharedVars, serviceVars
<1>6. QED BY <1>1, <1>2, <1>3, <1>4, <1>5 DEF Next

\* The messages in an inbox.
Messages == {"thumbnail", "crash"}
In(m, s) == \E i \in DOMAIN s : s[i] = m
Has(c, m) == In(m, inbox[c])

\* Appending a message to a sequence, or taking the first one from it.
LEMMA Sent ==
  ASSUME NEW s \in Seq(Messages), NEW m \in Messages
  PROVE  /\ Append(s, m) # <<>>
         /\ \A n : In(n, Append(s, m)) <=> In(n, s) \/ n = m
<1> DEFINE t == Append(s, m)
<1>0. DOMAIN s = 1..Len(s) /\ Len(s) \in Nat /\ Len(t) = Len(s) + 1
  OBVIOUS
<1>1. /\ DOMAIN t = 1..(Len(s) + 1) /\ DOMAIN s = 1..Len(s) /\ Len(s) \in Nat
      /\ \A i \in 1..Len(s) : t[i] = s[i]
      /\ t[Len(s) + 1] = m
  <2>1. t \in Seq(Messages)
    BY AppendType
  <2>2. DOMAIN t = 1..(Len(s) + 1)
    BY <1>0, <2>1
  <2>3. \A i \in 1..Len(s) : t[i] = s[i]
    BY <1>0
  <2>4. t[Len(s) + 1] = m
    BY <1>0
  <2>5. QED BY <1>0, <2>2, <2>3, <2>4
<1>2. t # <<>>
  BY <1>0, 1 \in 1..(Len(s) + 1), <1>1
<1> HIDE DEF t
<1>3. /\ \A i \in DOMAIN t : i \in DOMAIN s \/ i = Len(s) + 1
      /\ \A i \in DOMAIN s : i \in DOMAIN t
      /\ Len(s) + 1 \in DOMAIN t
  BY <1>1
<1>4. ASSUME NEW n PROVE In(n, t) <=> In(n, s) \/ n = m
  BY <1>1, <1>3 DEF In
<1>5. QED BY <1>2, <1>4 DEF t

LEMMA Read ==
  ASSUME NEW s \in Seq(Messages), s # <<>>
  PROVE  /\ Tail(s) \in Seq(Messages)
         /\ In(Head(s), s)
         /\ \A n : In(n, Tail(s)) => In(n, s)
         /\ \A n : In(n, s) => In(n, Tail(s)) \/ n = Head(s)
<1> DEFINE t == Tail(s)
<1>0. t \in Seq(Messages) /\ Len(s) \in Nat \ {0} /\ Head(s) = s[1]
  BY TailType
<1>1. /\ DOMAIN t = 1..(Len(s) - 1) /\ DOMAIN s = 1..Len(s)
      /\ \A i \in 1..(Len(s) - 1) : t[i] = s[i + 1]
  BY <1>0
<1> HIDE DEF t
<1>2. /\ 1 \in DOMAIN s
      /\ \A i \in DOMAIN t : i + 1 \in DOMAIN s /\ t[i] = s[i + 1]
      /\ \A i \in DOMAIN s : i = 1 \/ (i - 1 \in DOMAIN t /\ t[i - 1] = s[i])
  BY <1>0, <1>1
<1>3. In(Head(s), s)
  BY <1>0, <1>2 DEF In
<1>4. \A n : In(n, t) => In(n, s)
  BY <1>2 DEF In
<1>5. \A n : In(n, s) => In(n, t) \/ n = Head(s)
  BY <1>0, <1>2 DEF In
<1>6. QED BY <1>0, <1>3, <1>4, <1>5 DEF t

\* The same of the inboxes: c gets a message, or reads one.
LEMMA Posts ==
  ASSUME TypeOK, NEW c \in Calls, NEW m \in Messages,
         inbox' = [inbox EXCEPT ![c] = Append(@, m)]
  PROVE  /\ \A d \in Calls : d # c => inbox'[d] = inbox[d]
         /\ inbox'[c] # <<>>
         /\ \A n : In(n, inbox'[c]) <=> In(n, inbox[c]) \/ n = m
<1>1. inbox[c] \in Seq(Messages) /\ inbox'[c] = Append(inbox[c], m)
  BY DEF TypeOK, Messages
<1>2. \A d \in Calls : d # c => inbox'[d] = inbox[d]
  BY DEF TypeOK
<1>3. QED BY <1>1, <1>2, Sent

LEMMA Reads ==
  ASSUME TypeOK, NEW c \in Calls, inbox[c] # <<>>,
         inbox' = [inbox EXCEPT ![c] = Tail(@)]
  PROVE  /\ \A d \in Calls : d # c => inbox'[d] = inbox[d]
         /\ Has(c, Head(inbox[c]))
         /\ \A n : In(n, inbox'[c]) => In(n, inbox[c])
         /\ \A n : In(n, inbox[c]) => In(n, inbox'[c]) \/ n = Head(inbox[c])
<1>1. inbox[c] \in Seq(Messages) /\ inbox'[c] = Tail(inbox[c])
  BY DEF TypeOK, Messages
<1>2. \A d \in Calls : d # c => inbox'[d] = inbox[d]
  BY DEF TypeOK
<1>3. QED BY <1>1, <1>2, Read DEF Has

LEMMA Nothing == ASSUME NEW m PROVE ~In(m, <<>>)
BY DEF In

\* What is in an inbox has been answered.
Answers == \A c \in Calls : Has(c, "thumbnail") => answer[c] # 0

LEMMA NextData == ASSUME Data, LooperInv, Answers, [Next]_vars PROVE Data'
<1> USE DEF Data
<1>0. /\ MaxCalls \in Nat /\ MaxDeaths \in Nat /\ Calls = 1..MaxCalls
      /\ cpc # "idle" => call \in Calls
      /\ \A j \in Jobs : j.of \in Calls
      /\ \A c \in Calls, what \in {"bind", "run"} : [what |-> what, of |-> c] \in Jobs
      /\ Failed \in Bitmaps /\ Calls \subseteq Bitmaps
  BY HandshakeAssumption DEF Jobs, Calls, LooperInv, Bitmaps
<1>1. CASE Call
  <2>1. call + 1 \in Calls
    BY <1>0, <1>1 DEF Call
  <2>2. looper' \in Seq(Jobs)
    <3>1. Append(looper, [what |-> "bind", of |-> call + 1]) \in Seq(Jobs)
      BY <1>0, <2>1, AppendType
    <3>2. QED BY <1>1, <3>1 DEF Call
  <2>3. QED BY <1>0, <1>1, <2>1, <2>2 DEF Call, sharedVars
<1>2. CASE Arm \/ Reset \/ Check \/ Return
  BY <1>0, <1>2 DEF Arm, Reset, Check, Return, sharedVars, serviceVars
<1>3. CASE Send
  <2>1. looper' \in {looper, Append(looper, [what |-> "run", of |-> call])}
    BY <1>3 DEF Send
  <2>2. Append(looper, [what |-> "run", of |-> call]) \in Seq(Jobs)
    BY <1>0, <1>3, AppendType DEF Send
  <2>3. looper' \in Seq(Jobs)
    BY <2>1, <2>2
  <2>4. QED BY <1>0, <1>3, <2>3 DEF Send, sharedVars
<1>4. CASE Connect \/ Reconnected \/ Disconnected
  <2>1. looper' \in Seq(Jobs)
    BY <1>4, TailType DEF Connect, Reconnected, Disconnected
  <2>2. QED
    BY <1>0, <1>4, <2>1 DEF Connect, Reconnected, Disconnected, clientVars, sharedVars
<1>5. CASE Rescale
  <2>1. Head(looper).of \in Calls /\ looper' \in Seq(Jobs)
    BY <1>0, <1>5 DEF Rescale
  <2>2. inbox' \in [Calls -> Seq({"thumbnail", "crash"})]
    BY <1>5, <2>1 DEF Rescale
  <2>3. held' \in Bitmaps /\ answer' \in [Calls -> Bitmaps \cup {0}]
    BY <1>0, <1>5, <2>1 DEF Rescale
  <2>4. QED BY <1>5, <2>1, <2>2, <2>3 DEF Rescale, clientVars, sharedVars
<1>6. CASE Die
  <2>1. Kept \in Seq(Jobs)
    BY DEF Kept
  <2>2. QED BY <1>0, <1>6, <2>1 DEF Die, clientVars, sharedVars
<1>7. ASSUME NEW c \in Calls, HandleThumbnail(c) \/ HandleCrash(c)
      PROVE  Data'
  <2>1. inbox' \in [Calls -> Seq({"thumbnail", "crash"})]
    <3>1. Tail(inbox[c]) \in Seq({"thumbnail", "crash"})
      BY <1>7, TailType DEF HandleThumbnail, HandleCrash
    <3>2. QED BY <1>7, <3>1 DEF HandleThumbnail, HandleCrash
  <2>2. thumbnail' \in Bitmaps
    <3>1. CASE HandleCrash(c)
      BY <3>1 DEF HandleCrash
    <3>2. CASE HandleThumbnail(c)
      <4>1. Has(c, "thumbnail")
        <5>1. inbox[c] \in Seq(Messages) /\ inbox[c] # <<>> /\ Head(inbox[c]) = "thumbnail"
          BY <3>2 DEF HandleThumbnail, Messages
        <5>2. QED BY <5>1, Read DEF Has
      <4>2. answer[c] \in Bitmaps
        BY <4>1 DEF Answers
      <4>3. QED BY <3>2, <4>2 DEF HandleThumbnail
    <3>3. QED BY <1>7, <3>1, <3>2
  <2>3. UNCHANGED <<call, deaths, looper, timer, answer, held, result>>
    BY <1>7 DEF HandleThumbnail, HandleCrash, serviceVars
  <2>4. cpc' \in {cpc, "return"}
    BY <1>7 DEF HandleThumbnail, HandleCrash, Notify
  <2>5. QED BY <2>1, <2>2, <2>3, <2>4
<1>8. ASSUME NEW c \in Calls, TimerStops(c) \/ TimerExpires(c)
      PROVE  Data'
  <2>1. inbox' \in [Calls -> Seq({"thumbnail", "crash"})]
    <3>1. Append(inbox[c], "crash") \in Seq({"thumbnail", "crash"})
      BY AppendType
    <3>2. QED BY <1>8, <3>1 DEF TimerStops, TimerExpires
  <2>2. QED BY <1>0, <1>8, <2>1 DEF TimerStops, TimerExpires, clientVars, sharedVars, serviceVars
<1>9. CASE UNCHANGED vars
  BY <1>9 DEF vars, clientVars, sharedVars, serviceVars
<1>10. QED
  BY <1>1, <1>2, <1>3, <1>4, <1>5, <1>6, <1>7, <1>8, <1>9 DEF Next, Client, Service

LEMMA InitLooper == ASSUME Init PROVE LooperInv
BY DEF Init, LooperInv

\* The looper's queue gets a job, or gives up its first one.
LEMMA Queued ==
  ASSUME looper \in Seq(Jobs), NEW job \in Jobs, looper' = Append(looper, job)
  PROVE  /\ Len(looper') = Len(looper) + 1 /\ DOMAIN looper' = 1..(Len(looper) + 1)
         /\ \A i \in DOMAIN looper : i \in DOMAIN looper' /\ looper'[i] = looper[i]
         /\ Len(looper) + 1 \in DOMAIN looper' /\ Len(looper) + 1 \notin DOMAIN looper
         /\ looper'[Len(looper) + 1] = job
         /\ \A i \in DOMAIN looper' : i \in DOMAIN looper \/ i = Len(looper) + 1
<1>1. DOMAIN looper = 1..Len(looper) /\ Len(looper) \in Nat
  OBVIOUS
<1>2. /\ Len(looper') = Len(looper) + 1 /\ DOMAIN looper' = 1..(Len(looper) + 1)
      /\ \A i \in 1..Len(looper) : looper'[i] = looper[i]
      /\ looper'[Len(looper) + 1] = job
  OBVIOUS
<1>3. QED BY <1>1, <1>2

LEMMA Dequeued ==
  ASSUME looper \in Seq(Jobs), looper # <<>>, looper' = Tail(looper)
  PROVE  /\ 1 \in DOMAIN looper /\ Head(looper) = looper[1]
         /\ \A i \in DOMAIN looper' : i + 1 \in DOMAIN looper /\ looper'[i] = looper[i + 1]
         /\ \A i \in DOMAIN looper : i # 1 => i - 1 \in DOMAIN looper' /\ looper'[i - 1] = looper[i]
<1>1. /\ DOMAIN looper = 1..Len(looper) /\ Len(looper) \in Nat \ {0}
      /\ DOMAIN looper' = 1..(Len(looper) - 1)
      /\ \A i \in 1..(Len(looper) - 1) : looper'[i] = looper[i + 1]
      /\ Head(looper) = looper[1]
  OBVIOUS
<1>2. QED BY <1>1

LEMMA NextLooper == ASSUME TypeOK, LooperInv, [Next]_vars PROVE LooperInv'
<1> USE DEF LooperInv, IsLast, IsBind
<1>0. /\ MaxCalls \in Nat /\ call \in 0..MaxCalls /\ looper \in Seq(Jobs)
      /\ Calls = 1..MaxCalls
      /\ \A j \in Jobs : j.what \in {"bind", "run"} /\ j.of \in Calls
  BY HandshakeAssumption DEF TypeOK, Jobs, Calls
<1>1. CASE Call
  <2>1. \A i \in DOMAIN looper : looper[i].what = "run" /\ looper[i].of <= call
    BY <1>0, <1>1 DEF Call
  <2>2. /\ call' = call + 1 /\ cpc' = "bind" /\ ~bound' /\ call' \in Calls
        /\ \A i \in DOMAIN looper : looper[i].of \in Calls
    BY <1>0, <1>1 DEF Call
  <2>3. CASE looper' = looper
    BY <1>0, <2>1, <2>2, <2>3
  <2>4. CASE looper' = Append(looper, [what |-> "bind", of |-> call + 1])
    <3>1. [what |-> "bind", of |-> call + 1] \in Jobs
      BY <2>2 DEF Jobs
    <3>2. /\ Len(looper') = Len(looper) + 1
          /\ \A i \in DOMAIN looper : looper'[i] = looper[i]
          /\ looper'[Len(looper) + 1] = [what |-> "bind", of |-> call + 1]
          /\ \A i \in DOMAIN looper' : i \in DOMAIN looper \/ i = Len(looper) + 1
      BY <1>0, <2>4, <3>1, Queued
    <3>3. QED BY <1>0, <2>1, <2>2, <3>2
  <2>5. QED BY <1>1, <2>3, <2>4 DEF Call
<1>2. CASE Client
  <2>1. CASE Arm \/ Reset \/ Check \/ Return
    BY <1>0, <2>1 DEF Arm, Reset, Check, Return, serviceVars
  <2>2. CASE Send
    <3>1. \A i \in DOMAIN looper : looper[i].what = "run" /\ looper[i].of <= call
      BY <1>0, <2>2 DEF Send
    <3>2. call \in Calls /\ call' = call /\ cpc' \in {"check", "idle"}
      BY <2>2 DEF Send
    <3>3. CASE looper' = looper
      BY <1>0, <3>1, <3>2, <3>3
    <3>4. CASE looper' = Append(looper, [what |-> "run", of |-> call])
      <4>1. [what |-> "run", of |-> call] \in Jobs
        BY <3>2 DEF Jobs
      <4>2. /\ \A i \in DOMAIN looper : looper'[i] = looper[i]
            /\ looper'[Len(looper) + 1] = [what |-> "run", of |-> call]
            /\ \A i \in DOMAIN looper' : i \in DOMAIN looper \/ i = Len(looper) + 1
        BY <1>0, <3>4, <4>1, Queued
      <4>3. \A i \in DOMAIN looper' : looper'[i].what = "run" /\ looper'[i].of <= call
        BY <1>0, <3>1, <3>2, <4>2
      <4>4. QED BY <3>2, <4>3
    <3>5. QED BY <2>2, <3>3, <3>4 DEF Send
  <2>3. QED BY <1>2, <2>1, <2>2 DEF Client
<1>3. ASSUME looper # <<>>, looper' = Tail(looper), UNCHANGED <<call, cpc>>,
             bound' = bound \/ looper' = <<>>
      PROVE  LooperInv'
  <2>1. /\ Len(looper') = Len(looper) - 1 /\ DOMAIN looper' = 1..(Len(looper) - 1)
        /\ \A i \in DOMAIN looper' : i + 1 \in DOMAIN looper /\ looper'[i] = looper[i + 1]
    BY <1>0, <1>3
  <2>2. DOMAIN looper = 1..Len(looper) /\ Len(looper) \in Nat
    BY <1>0
  <2>3. \A i \in DOMAIN looper' : Len(looper') \in DOMAIN looper'
    BY <2>1, <2>2
  <2>4. \A i \in DOMAIN looper' : looper'[Len(looper')] = looper[Len(looper)]
    BY <2>1, <2>2, <2>3
  <2>5. looper' = <<>> => DOMAIN looper' = {}
    OBVIOUS
  <2>6. QED BY <1>3, <2>1, <2>2, <2>4, <2>5
<1>4. CASE Connect
  <2>1. looper # <<>> /\ 1 \in DOMAIN looper /\ looper[1].what = "bind"
    BY <1>0, <1>4 DEF Connect
  <2>2. Len(looper) = 1 /\ looper' = Tail(looper)
    BY <1>4, <2>1 DEF Connect
  <2>3. DOMAIN looper' = {}
    BY <1>0, <2>2
  <2>4. QED BY <1>4, <2>3 DEF Connect, clientVars
<1>5. CASE Rescale
  BY <1>3, <1>5 DEF Rescale, clientVars
<1>6. CASE Reconnected
  BY <1>0, <1>6 DEF Reconnected, clientVars
<1>7. CASE Die
  <2>1. \/ looper' = <<>>
        \/ /\ looper # <<>> /\ IsBind(looper[Len(looper)])
           /\ looper' = <<looper[Len(looper)]>>
    BY <1>7 DEF Die, Kept
  <2>2. looper # <<>> => Len(looper) \in DOMAIN looper
    BY <1>0
  <2>3. UNCHANGED <<call, cpc, bound>>
    BY <1>7 DEF Die, clientVars
  <2>4. CASE looper' = <<>>
    BY <2>3, <2>4
  <2>5. CASE /\ looper # <<>> /\ IsBind(looper[Len(looper)])
             /\ looper' = <<looper[Len(looper)]>>
    <3>1. DOMAIN looper' = {1} /\ Len(looper') = 1 /\ looper'[1] = looper[Len(looper)]
      BY <2>5
    <3>2. QED BY <2>2, <2>3, <2>5, <3>1
  <2>6. QED BY <2>1, <2>4, <2>5
<1>8. CASE Disconnected
  BY <1>0, <1>8 DEF Disconnected, clientVars
<1>9. ASSUME NEW c \in Calls, HandleThumbnail(c) \/ HandleCrash(c)
      PROVE  LooperInv'
  BY <1>0, <1>9 DEF HandleThumbnail, HandleCrash, Notify, serviceVars
<1>10. ASSUME NEW c \in Calls, TimerStops(c) \/ TimerExpires(c)
       PROVE  LooperInv'
  BY <1>0, <1>10 DEF TimerStops, TimerExpires, clientVars, serviceVars
<1>11. CASE UNCHANGED vars
  BY <1>11 DEF vars, clientVars, serviceVars
<1>12. QED
  BY <1>1, <1>2, <1>4, <1>5, <1>6, <1>7, <1>8, <1>9, <1>10, <1>11 DEF Next, Service

LEMMA NextAnswers == ASSUME TypeOK, LooperInv, Answers, [Next]_vars PROVE Answers'
<1>0. /\ answer \in [Calls -> Bitmaps \cup {0}] /\ held # 0 /\ Failed # 0
      /\ inbox \in [Calls -> Seq({"thumbnail", "crash"})]
      /\ \A c \in Calls : c # 0
  BY HandshakeAssumption DEF TypeOK, Bitmaps, Calls
<1>1. CASE Rescale
  <2>1. PICK c \in Calls :
          /\ inbox' = [inbox EXCEPT ![c] = Append(@, "thumbnail")]
          /\ \E shown \in {c, Failed, held} : answer' = [answer EXCEPT ![c] = shown]
    <3>1. Head(looper).of \in Calls
      <4>1. Head(looper) \in Jobs
        BY <1>1, TailType DEF Rescale, TypeOK
      <4>2. QED BY <4>1 DEF Jobs
    <3>2. QED BY <1>1, <3>1 DEF Rescale
  <2>2. \A d \in Calls : d # c => inbox'[d] = inbox[d] /\ answer'[d] = answer[d]
    BY <1>0, <2>1
  <2>3. answer'[c] # 0
    BY <1>0, <2>1
  <2>4. QED BY <2>2, <2>3 DEF Answers, Has
<1>2. ASSUME NEW c \in Calls, HandleThumbnail(c) \/ HandleCrash(c) PROVE Answers'
  <2>1. /\ inbox[c] # <<>> /\ inbox' = [inbox EXCEPT ![c] = Tail(@)] /\ UNCHANGED answer
    BY <1>2 DEF HandleThumbnail, HandleCrash, serviceVars
  <2>2. /\ \A d \in Calls : d # c => inbox'[d] = inbox[d]
        /\ \A n : In(n, inbox'[c]) => In(n, inbox[c])
    BY <2>1, Reads
  <2>3. QED BY <2>1, <2>2 DEF Answers, Has
<1>3. ASSUME NEW c \in Calls, TimerExpires(c) PROVE Answers'
  <2>1. /\ inbox' = [inbox EXCEPT ![c] = Append(@, "crash")] /\ UNCHANGED answer
    BY <1>3 DEF TimerExpires, serviceVars
  <2>2. /\ \A d \in Calls : d # c => inbox'[d] = inbox[d]
        /\ \A n : In(n, inbox'[c]) <=> In(n, inbox[c]) \/ n = "crash"
    BY <2>1, Posts DEF Messages
  <2>3. QED BY <2>1, <2>2 DEF Answers, Has
<1>4. CASE \/ Call \/ Arm \/ Reset \/ Send \/ Check \/ Return
           \/ Connect \/ Reconnected \/ Die \/ Disconnected \/ UNCHANGED vars
  <2>1. UNCHANGED <<inbox, answer>>
    BY <1>4 DEF Call, Arm, Reset, Send, Check, Return, Connect, Reconnected, Die, Disconnected,
       vars, serviceVars
  <2>2. QED BY <2>1 DEF Answers, Has
<1>5. ASSUME NEW c \in Calls, TimerStops(c) PROVE Answers'
  <2>1. UNCHANGED <<inbox, answer>>
    BY <1>5 DEF TimerStops, serviceVars
  <2>2. QED BY <2>1 DEF Answers, Has
<1>6. QED BY <1>1, <1>2, <1>3, <1>4, <1>5 DEF Next, Client, Service

LEMMA InitAnswers == ASSUME Init PROVE Answers
<1>1. \A c \in Calls : inbox[c] = <<>>
  BY DEF Init
<1>2. QED BY <1>1, Nothing DEF Answers, Has

\* All variables have their types: a call returns a thumbnail or nothing, whatever
\* messages are late, and no job is lost in the looper's order.
THEOREM HandshakeTypes == Spec => [](TypeOK /\ LooperInv /\ Answers)
<1>1. Init => TypeOK /\ LooperInv /\ Answers
  BY InitType, InitLooper, InitAnswers
<1>2. TypeOK /\ LooperInv /\ Answers /\ [Next]_vars => (TypeOK /\ LooperInv /\ Answers)'
  BY NextFlags, NextData, NextLooper, NextAnswers DEF TypeOK, Flags, Data
<1>3. QED BY <1>1, <1>2, PTL DEF Spec

-----------------------------------------------------------------------------
(***************************************************************************)
(* Who may wake whom.  In calm, once a call has started its timer nothing  *)
(* of an earlier call is left, so only its own thumbnail and its own two   *)
(* seconds can end it; out of calm its request brings it back, as long as  *)
(* the process lives.                                                      *)
(***************************************************************************)
Under == {"reset", "send", "check", "waiting", "return"}

\* Calls to come have neither timer nor messages; a timer's message is there
\* only after it has expired.
Fresh == \A c \in Calls :
           /\ c > call \/ (c = call /\ cpc = "bind") => timer[c] = "new" /\ inbox[c] = <<>>
           /\ Has(c, "crash") => timer[c] = "expired"

\* In calm: the call under way is alone; the stop flag spares its timer; what is
\* taken for its answer is; and having waited in vain it has timed out.
Alone == calm /\ cpc \in Under =>
           \A c \in Calls : c # call => timer[c] # "on" /\ inbox[c] = <<>>
Spared == /\ calm /\ cpc \in {"reset", "send", "check"} => ~stop /\ timer[call] = "on"
          /\ calm /\ cpc = "waiting" => ~stop /\ (timer[call] = "on" \/ inbox[call] # <<>>)
Answered == calm /\ cpc \in Under \ {"reset"} /\ replied =>
              \/ thumbnail = call
              \/ thumbnail = Failed /\ answer[call] = Failed
TimedOut == calm /\ cpc = "return" /\ ~replied => timer[call] = "expired"

\* As long as no process has died: what is bound is alive, and a call that waits,
\* or is about to, has its request in the service or its answer in the inbox.
Living == deaths = 0 =>
            /\ bound => linked
            /\ cpc = "waiting" \/ (cpc = "check" /\ ~replied) => Asked \/ Has(call, "thumbnail")

\* A call has one request, and no answer before it is sent nor while it is in the
\* looper.
Unsent == {"bind", "reset", "send"}
Requests ==
  /\ \A c \in Calls : c > call \/ (c = call /\ cpc \in Unsent) => answer[c] = 0
  /\ \A i \in DOMAIN looper : looper[i].what = "run" =>
       /\ answer[looper[i].of] = 0
       /\ looper[i].of # call \/ cpc \notin Unsent
       /\ \A j \in DOMAIN looper : looper[j] = looper[i] => j = i

\* In calm: only the call under way has a job in the service, and what is answered
\* to a call is its own thumbnail or none.
Sole == calm /\ cpc \in Under => \A i \in DOMAIN looper : looper[i].of = call
Replies == calm => \A c \in Calls : Has(c, "thumbnail") => answer[c] \in {c, Failed}

WakeInv == Requests /\ Sole /\ Replies /\ Fresh /\ Alone /\ Spared /\ Answered /\ TimedOut /\ Living

LEMMA InitWake == ASSUME Init PROVE WakeInv
<1>1. \A c \in Calls : timer[c] = "new" /\ inbox[c] = <<>>
  BY DEF Init
<1>2. \A m : ~In(m, <<>>)
  BY Nothing
<1>3. \A c \in Calls : ~Has(c, "crash") /\ ~Has(c, "thumbnail")
  BY <1>1, <1>2 DEF Has
<1>4. cpc = "idle" /\ bound = FALSE
  BY DEF Init
<1>5. Fresh
  BY <1>1, <1>3 DEF Fresh
<1>6. Alone /\ Spared /\ Answered /\ TimedOut
  BY <1>4 DEF Alone, Spared, Answered, TimedOut, Under
<1>7. Living
  BY <1>4 DEF Living
<1>8. looper = <<>> /\ \A c \in Calls : answer[c] = 0
  BY DEF Init
<1>9. Requests /\ Sole /\ Replies
  BY <1>3, <1>8 DEF Requests, Sole, Replies
<1>10. QED BY <1>5, <1>6, <1>7, <1>9 DEF WakeInv

\* A request the service takes up is of a call that has sent it, and in calm of
\* the call under way, if any.
LEMMA RequestOf ==
  ASSUME TypeOK, LooperInv, Rescale
  PROVE  /\ Head(looper) = looper[1] /\ 1 \in DOMAIN looper
         /\ looper[1].of \in Calls /\ looper[1].of <= call /\ looper[1].what = "run"
         /\ looper[1].of = call => cpc # "bind"
         /\ Sole /\ calm /\ cpc \in Under => looper[1].of = call
<1>1. looper \in Seq(Jobs) /\ looper # <<>> /\ Head(looper).what = "run"
  BY DEF TypeOK, Rescale
<1>2. /\ Head(looper) = looper[1] /\ 1 \in DOMAIN looper /\ looper[1] \in Jobs
  BY <1>1
<1>3. looper[1].of \in Calls /\ looper[1].what = "run"
  BY <1>1, <1>2 DEF Jobs
<1>4. QED BY <1>2, <1>3 DEF LooperInv, Sole

LEMMA NextRequests ==
  ASSUME TypeOK, LooperInv, Requests, [Next]_vars PROVE Requests'
<1> USE DEF Unsent
<1>0. /\ call \in 0..MaxCalls /\ MaxCalls \in Nat /\ looper \in Seq(Jobs)
      /\ Calls = 1..MaxCalls /\ answer \in [Calls -> Bitmaps \cup {0}]
      /\ cpc # "idle" => call \in Calls
      /\ \A i \in DOMAIN looper : looper[i] \in Jobs
      /\ \A i \in DOMAIN looper : looper[i].of \in Calls
  <2>1. /\ call \in 0..MaxCalls /\ looper \in Seq(Jobs) /\ answer \in [Calls -> Bitmaps \cup {0}]
        /\ MaxCalls \in Nat
    BY HandshakeAssumption DEF TypeOK
  <2>2. \A i \in DOMAIN looper : looper[i] \in Jobs
    BY <2>1
  <2>3. \A i \in DOMAIN looper : looper[i].of \in Calls
    BY <2>2 DEF Jobs
  <2>4. QED BY <2>1, <2>2, <2>3 DEF Calls, LooperInv
<1>a. \A i \in DOMAIN looper : looper[i].what = "run" => looper[i].of <= call
  BY DEF LooperInv
<1>b. /\ \A c \in Calls : c > call \/ (c = call /\ cpc \in Unsent) => answer[c] = 0
      /\ \A i \in DOMAIN looper : looper[i].what = "run" =>
           /\ answer[looper[i].of] = 0
           /\ looper[i].of # call \/ cpc \notin Unsent
           /\ \A j \in DOMAIN looper : looper[j] = looper[i] => j = i
  BY DEF Requests
<1>1. CASE Call
  <2>1. /\ call' = call + 1 /\ cpc' = "bind" /\ answer' = answer /\ call + 1 \in Calls
    BY <1>0, <1>1 DEF Call
  <2>2. \A i \in DOMAIN looper : looper[i].what = "run" => looper[i].of # call + 1
    BY <1>0, <1>a
  <2>3. \A c \in Calls : c > call + 1 \/ c = call + 1 => answer[c] = 0
    BY <1>0, <1>b
  <2>4. CASE looper' = looper
    BY <1>b, <2>1, <2>2, <2>3, <2>4 DEF Requests
  <2>5. CASE looper' = Append(looper, [what |-> "bind", of |-> call + 1])
    <3>1. [what |-> "bind", of |-> call + 1] \in Jobs
      BY <2>1 DEF Jobs
    <3>2. \A i \in DOMAIN looper' : looper'[i].what = "run" =>
            i \in DOMAIN looper /\ looper'[i] = looper[i]
      BY <1>0, <2>5, <3>1, Queued
    <3>3. QED BY <1>b, <2>1, <2>2, <2>3, <3>2 DEF Requests
  <2>6. QED BY <1>1, <2>4, <2>5 DEF Call
<1>2. CASE Arm \/ Reset \/ Check \/ Return
  <2>1. /\ UNCHANGED <<call, looper, answer>> /\ (cpc' \in Unsent => cpc \in Unsent)
    BY <1>2 DEF Arm, Reset, Check, Return, serviceVars
  <2>2. QED BY <1>b, <2>1 DEF Requests
<1>3. CASE Send
  <2>1. cpc = "send" /\ cpc' \notin Unsent /\ UNCHANGED <<call, answer>> /\ call \in Calls
    BY <1>0, <1>3 DEF Send
  <2>2. CASE looper' = looper
    BY <1>b, <2>1, <2>2 DEF Requests
  <2>3. CASE looper' = Append(looper, [what |-> "run", of |-> call])
    <3>1. [what |-> "run", of |-> call] \in Jobs
      BY <2>1 DEF Jobs
    <3>2. /\ \A i \in DOMAIN looper : looper'[i] = looper[i]
          /\ looper'[Len(looper) + 1] = [what |-> "run", of |-> call]
          /\ \A i \in DOMAIN looper' : i \in DOMAIN looper \/ i = Len(looper) + 1
      BY <1>0, <2>3, <3>1, Queued
    <3>3. answer[call] = 0
      BY <1>b, <2>1
    <3>4. \A i \in DOMAIN looper : looper[i] # [what |-> "run", of |-> call]
      BY <1>b, <2>1
    <3>5. QED BY <1>b, <2>1, <3>2, <3>3, <3>4 DEF Requests
  <2>4. QED BY <1>3, <2>2, <2>3 DEF Send
<1>4. CASE Connect \/ Reconnected \/ Disconnected \/ Die
  <2>1. UNCHANGED <<call, cpc, answer>>
    BY <1>4 DEF Connect, Reconnected, Disconnected, Die, clientVars
  <2>2. \/ looper' = looper
        \/ \A i \in DOMAIN looper' : looper'[i].what # "run"
    <3>1. CASE Connect
      <4>1. looper # <<>> /\ looper[1].what = "bind" /\ 1 \in DOMAIN looper
        BY <1>0, <3>1 DEF Connect
      <4>2. Len(looper) = 1 /\ looper' = Tail(looper)
        BY <3>1, <4>1 DEF Connect, LooperInv, IsLast
      <4>3. DOMAIN looper' = {}
        BY <1>0, <4>2
      <4>4. QED BY <4>3
    <3>2. CASE Die
      <4>1. CASE looper' = <<>>
        BY <4>1
      <4>2. CASE /\ looper # <<>> /\ IsBind(looper[Len(looper)])
                 /\ looper' = <<looper[Len(looper)]>>
        <5>1. DOMAIN looper' = {1} /\ looper'[1] = looper[Len(looper)]
          BY <4>2
        <5>2. QED BY <4>2, <5>1 DEF IsBind
      <4>3. QED BY <3>2, <4>1, <4>2 DEF Die, Kept
    <3>3. QED BY <1>4, <3>1, <3>2 DEF Reconnected, Disconnected
  <2>3. QED BY <1>b, <2>1, <2>2 DEF Requests
<1>5. CASE Rescale
  <2>1. PICK c \in Calls :
          /\ c = looper[1].of /\ c <= call /\ looper' = Tail(looper) /\ looper # <<>>
          /\ looper[1].what = "run" /\ 1 \in DOMAIN looper
          /\ \E shown : answer' = [answer EXCEPT ![c] = shown]
          /\ UNCHANGED <<call, cpc>>
    BY <1>5, RequestOf DEF Rescale, clientVars
  <2>2. \A d \in Calls : d # c => answer'[d] = answer[d]
    BY <1>0, <2>1
  <2>3. ~(c > call \/ (c = call /\ cpc \in Unsent))
    BY <1>0, <1>b, <2>1
  <2>4. \A i \in DOMAIN looper' : i + 1 \in DOMAIN looper /\ looper'[i] = looper[i + 1]
                                  /\ i \in 1..Len(looper')
    BY <1>0, <2>1, Dequeued
  <2>5. \A i \in DOMAIN looper : looper[i].what = "run" /\ looper[i].of = c => i = 1
    <3>1. \A i \in DOMAIN looper : looper[i].what = "run" /\ looper[i].of = c => looper[i] = looper[1]
      <4>1. \A j \in Jobs : j = [what |-> j.what, of |-> j.of]
        BY DEF Jobs
      <4>2. QED BY <1>0, <2>1, <4>1
    <3>2. QED BY <1>b, <2>1, <3>1
  <2>6. \A i \in DOMAIN looper' : looper'[i].what = "run" => looper'[i].of # c
    BY <2>4, <2>5
  <2>7. \A i \in DOMAIN looper' : looper'[i].what = "run" =>
          \A j \in DOMAIN looper' : looper'[j] = looper'[i] => j = i
    BY <1>b, <2>4
  <2>8. \A i \in DOMAIN looper' : looper'[i].of \in Calls
    BY <1>0, <2>4
  <2>9. QED BY <1>b, <2>1, <2>2, <2>3, <2>4, <2>6, <2>7, <2>8 DEF Requests
<1>6. ASSUME NEW c \in Calls,
             HandleThumbnail(c) \/ HandleCrash(c) \/ TimerStops(c) \/ TimerExpires(c)
      PROVE  Requests'
  <2>1. /\ UNCHANGED <<call, looper, answer>> /\ (cpc' \in Unsent => cpc \in Unsent)
    BY <1>6 DEF HandleThumbnail, HandleCrash, TimerStops, TimerExpires, Notify,
       clientVars, serviceVars
  <2>2. QED BY <1>b, <2>1 DEF Requests
<1>7. CASE UNCHANGED vars
  BY <1>b, <1>7 DEF vars, clientVars, serviceVars, Requests
<1>8. QED BY <1>1, <1>2, <1>3, <1>4, <1>5, <1>6, <1>7 DEF Next, Client, Service

LEMMA NextSole == ASSUME TypeOK, LooperInv, WakeInv, [Next]_vars PROVE Sole'
<1>0. Sole /\ looper \in Seq(Jobs) /\ (cpc # "idle" => call \in Calls)
  BY DEF TypeOK, WakeInv, LooperInv
<1>1. CASE Call
  BY <1>1 DEF Call, Sole, Under
<1>2. CASE Arm
  BY <1>2 DEF Arm, Quiet, Sole, serviceVars
<1>3. CASE Send
  <2>1. UNCHANGED <<calm, call>> /\ cpc \in Under /\ call \in Calls
    BY <1>0, <1>3 DEF Send, Under
  <2>2. CASE looper' = looper
    BY <1>0, <2>1, <2>2 DEF Sole
  <2>3. CASE looper' = Append(looper, [what |-> "run", of |-> call])
    <3>1. [what |-> "run", of |-> call] \in Jobs
      BY <2>1 DEF Jobs
    <3>2. QED BY <1>0, <2>1, <2>3, <3>1, Queued DEF Sole
  <2>4. QED BY <1>3, <2>2, <2>3 DEF Send
<1>4. CASE Reset \/ Check \/ Return
  <2>1. UNCHANGED <<calm, call, looper>> /\ (cpc' \in Under => cpc \in Under)
    BY <1>4 DEF Reset, Check, Return, serviceVars, Under
  <2>2. QED BY <1>0, <2>1 DEF Sole
<1>5. CASE Connect \/ Rescale
  <2>1. looper # <<>> /\ looper' = Tail(looper) /\ UNCHANGED <<calm, call, cpc>>
    BY <1>5 DEF Connect, Rescale, clientVars
  <2>2. QED BY <1>0, <2>1, Dequeued DEF Sole
<1>6. CASE Reconnected \/ Disconnected
  BY <1>0, <1>6 DEF Reconnected, Disconnected, clientVars, Sole
<1>7. CASE Die
  <2>1. UNCHANGED <<calm, call, cpc>> /\ looper' = Kept
    BY <1>7 DEF Die, clientVars
  <2>2. CASE looper' = <<>>
    BY <2>2 DEF Sole
  <2>3. CASE looper # <<>> /\ looper' = <<looper[Len(looper)]>>
    <3>1. /\ Len(looper) \in DOMAIN looper /\ DOMAIN looper' = {1}
          /\ looper'[1] = looper[Len(looper)]
      BY <1>0, <2>3
    <3>2. QED BY <1>0, <2>1, <3>1 DEF Sole
  <2>4. QED BY <2>1, <2>2, <2>3 DEF Kept
<1>8. ASSUME NEW c \in Calls,
             HandleThumbnail(c) \/ HandleCrash(c) \/ TimerStops(c) \/ TimerExpires(c)
      PROVE  Sole'
  <2>1. /\ UNCHANGED <<calm, call, looper>> /\ (cpc' \in Under => cpc \in Under)
    BY <1>8 DEF HandleThumbnail, HandleCrash, TimerStops, TimerExpires, Notify,
       clientVars, serviceVars, Under
  <2>2. QED BY <1>0, <2>1 DEF Sole
<1>9. CASE UNCHANGED vars
  BY <1>0, <1>9 DEF vars, clientVars, serviceVars, Sole
<1>10. QED
  BY <1>1, <1>2, <1>3, <1>4, <1>5, <1>6, <1>7, <1>8, <1>9 DEF Next, Client, Service

LEMMA NextReplies == ASSUME TypeOK, LooperInv, WakeInv, [Next]_vars PROVE Replies'
<1>0. Replies /\ answer \in [Calls -> Bitmaps \cup {0}] /\ inbox \in [Calls -> Seq({"thumbnail", "crash"})]
  BY DEF TypeOK, WakeInv
<1>1. CASE Rescale
  <2>1. PICK c \in Calls :
          /\ inbox' = [inbox EXCEPT ![c] = Append(@, "thumbnail")]
          /\ \E shown : /\ answer' = [answer EXCEPT ![c] = shown]
                        /\ calm => shown \in {c, Failed}
          /\ UNCHANGED calm
    BY <1>1, RequestOf DEF Rescale, clientVars
  <2>2. \A d \in Calls : d # c => inbox'[d] = inbox[d] /\ answer'[d] = answer[d]
    BY <1>0, <2>1
  <2>3. calm => answer'[c] \in {c, Failed}
    BY <1>0, <2>1
  <2>4. QED BY <1>0, <2>1, <2>2, <2>3 DEF Replies, Has
<1>2. ASSUME NEW c \in Calls, HandleThumbnail(c) \/ HandleCrash(c) PROVE Replies'
  <2>1. /\ inbox[c] # <<>> /\ inbox' = [inbox EXCEPT ![c] = Tail(@)] /\ UNCHANGED <<calm, answer>>
    BY <1>2 DEF HandleThumbnail, HandleCrash, serviceVars
  <2>2. /\ \A d \in Calls : d # c => inbox'[d] = inbox[d]
        /\ \A n : In(n, inbox'[c]) => In(n, inbox[c])
    BY <2>1, Reads
  <2>3. QED BY <1>0, <2>1, <2>2 DEF Replies, Has
<1>3. ASSUME NEW c \in Calls, TimerExpires(c) PROVE Replies'
  <2>1. /\ inbox' = [inbox EXCEPT ![c] = Append(@, "crash")] /\ UNCHANGED <<calm, answer>>
    BY <1>3 DEF TimerExpires, clientVars, serviceVars
  <2>2. /\ \A d \in Calls : d # c => inbox'[d] = inbox[d]
        /\ \A n : In(n, inbox'[c]) <=> In(n, inbox[c]) \/ n = "crash"
    BY <2>1, Posts DEF Messages
  <2>3. QED BY <1>0, <2>1, <2>2 DEF Replies, Has
<1>4. CASE \/ Call \/ Arm \/ Reset \/ Send \/ Check \/ Return
           \/ Connect \/ Reconnected \/ Die \/ Disconnected \/ UNCHANGED vars
  <2>1. UNCHANGED <<calm, inbox, answer>>
    BY <1>4 DEF Call, Arm, Reset, Send, Check, Return, Connect, Reconnected, Die, Disconnected,
       vars, clientVars, serviceVars
  <2>2. QED BY <1>0, <2>1 DEF Replies, Has
<1>5. ASSUME NEW c \in Calls, TimerStops(c) PROVE Replies'
  <2>1. UNCHANGED <<calm, inbox, answer>>
    BY <1>5 DEF TimerStops, clientVars, serviceVars
  <2>2. QED BY <1>0, <2>1 DEF Replies, Has
<1>6. QED BY <1>1, <1>2, <1>3, <1>4, <1>5 DEF Next, Client, Service

LEMMA NextFresh ==
  ASSUME TypeOK, LooperInv, WakeInv, [Next]_vars PROVE Fresh'
<1>0. /\ call \in 0..MaxCalls /\ MaxCalls \in Nat /\ Fresh
      /\ cpc # "idle" => call \in Calls
      /\ timer \in [Calls -> {"new", "on", "stopped", "expired"}]
      /\ inbox \in [Calls -> Seq({"thumbnail", "crash"})]
  BY HandshakeAssumption DEF TypeOK, WakeInv, LooperInv
<1>1. CASE Call
  BY <1>0, <1>1 DEF Call, Fresh, Calls, Has, In, sharedVars
<1>2. CASE Arm
  <2>1. /\ cpc = "bind" /\ cpc' = "reset" /\ call' = call /\ inbox' = inbox
        /\ call \in Calls /\ timer' = [timer EXCEPT ![call] = "on"]
    BY <1>0, <1>2 DEF Arm
  <2>2. inbox[call] = <<>> /\ ~Has(call, "crash")
    BY <1>0, <2>1, Nothing DEF Fresh, Has
  <2>3. call \in Nat /\ \A d \in Calls : d \in Nat
    BY <1>0, <2>1 DEF Calls
  <2>4. \A d \in Calls : d # call => timer'[d] = timer[d]
    BY <1>0, <2>1
  <2>5. QED BY <1>0, <2>1, <2>2, <2>3, <2>4 DEF Fresh, Has
<1>3. CASE Reset \/ Send \/ Check \/ Return
  BY <1>0, <1>3 DEF Reset, Send, Check, Return, serviceVars, Fresh, Has
<1>4. CASE Connect \/ Reconnected \/ Die \/ Disconnected
  BY <1>0, <1>4 DEF Connect, Reconnected, Die, Disconnected, clientVars, Fresh, Has
<1>5. CASE Rescale
  <2>1. PICK c \in Calls :
          /\ c <= call /\ (c = call => cpc # "bind")
          /\ inbox' = [inbox EXCEPT ![c] = Append(@, "thumbnail")]
          /\ UNCHANGED <<call, cpc, timer>>
    BY <1>5, RequestOf DEF Rescale, clientVars
  <2>2. /\ \A d \in Calls : d # c => inbox'[d] = inbox[d]
        /\ Has(c, "crash")' => Has(c, "crash")
    BY <2>1, Posts DEF Has, Messages
  <2>3. c \in Nat /\ call \in Nat /\ ~(c > call)
    BY <1>0, <2>1 DEF Calls
  <2>4. QED BY <1>0, <2>1, <2>2, <2>3 DEF Fresh, Has
<1>6. ASSUME NEW c \in Calls, HandleThumbnail(c) \/ HandleCrash(c)
      PROVE  Fresh'
  <2>1. /\ inbox[c] # <<>> /\ inbox' = [inbox EXCEPT ![c] = Tail(@)]
        /\ UNCHANGED <<call, timer>> /\ (cpc' = "bind" => cpc = "bind")
    BY <1>6 DEF HandleThumbnail, HandleCrash, Notify
  <2>2. /\ \A d \in Calls : d # c => inbox'[d] = inbox[d]
        /\ Has(c, "crash")' => Has(c, "crash")
    BY <2>1, Reads DEF Has
  <2>3. QED BY <1>0, <2>1, <2>2 DEF Fresh, Has
<1>7. ASSUME NEW c \in Calls, TimerStops(c)
      PROVE  Fresh'
  BY <1>0, <1>7 DEF TimerStops, clientVars, Fresh, Has
<1>8. ASSUME NEW c \in Calls, TimerExpires(c)
      PROVE  Fresh'
  <2>1. /\ inbox' = [inbox EXCEPT ![c] = Append(@, "crash")] /\ UNCHANGED <<call, cpc>>
        /\ timer[c] = "on" /\ timer' = [timer EXCEPT ![c] = "expired"]
    BY <1>8 DEF TimerExpires, clientVars
  <2>2. \A d \in Calls : d # c => inbox'[d] = inbox[d] /\ timer'[d] = timer[d]
    BY <1>0, <2>1
  <2>3. timer'[c] = "expired"
    BY <1>0, <2>1
  <2>4. QED BY <1>0, <2>1, <2>2, <2>3 DEF Fresh, Has
<1>9. CASE UNCHANGED vars
  BY <1>0, <1>9 DEF vars, clientVars, Fresh, Has
<1>10. QED
  BY <1>1, <1>2, <1>3, <1>4, <1>5, <1>6, <1>7, <1>8, <1>9 DEF Next, Client, Service

\* What a message read in calm, with a call under way, can only be: one to that
\* call, and if it is the timer's, the timer has expired.
LEMMA CalmReads ==
  ASSUME TypeOK, WakeInv, calm, cpc \in Under, NEW c \in Calls, inbox[c] # <<>>
  PROVE  c = call /\ (Has(c, "crash") => timer[call] = "expired")
BY DEF WakeInv, Alone, Fresh

LEMMA NextAlone ==
  ASSUME TypeOK, LooperInv, WakeInv, [Next]_vars PROVE Alone'
<1>0. /\ call \in 0..MaxCalls /\ MaxCalls \in Nat /\ Fresh /\ Alone
      /\ cpc # "idle" => call \in Calls
      /\ timer \in [Calls -> {"new", "on", "stopped", "expired"}]
      /\ inbox \in [Calls -> Seq({"thumbnail", "crash"})]
  BY HandshakeAssumption DEF TypeOK, WakeInv, LooperInv
<1>1. CASE Call
  BY <1>1 DEF Call, Alone, Under
<1>2. CASE Arm
  <2>1. ASSUME calm, NEW c \in Calls, c # call PROVE timer[c] # "on" /\ inbox[c] = <<>>
    <3>1. c \in 1..call - 1 \/ c > call
      BY <1>0, <1>2, <2>1 DEF Calls, Arm
    <3>2. QED BY <1>0, <1>2, <2>1, <3>1 DEF Arm, Quiet, Fresh
  <2>2. QED BY <1>0, <1>2, <2>1 DEF Arm, Alone
<1>3. CASE Reset \/ Send \/ Check \/ Return
  <2>1. UNCHANGED <<calm, call, timer, inbox>> /\ (cpc' \in Under => cpc \in Under)
    BY <1>3 DEF Reset, Send, Check, Return, serviceVars, Under
  <2>2. QED BY <1>0, <2>1 DEF Alone
<1>4. CASE Connect \/ Reconnected \/ Die \/ Disconnected
  <2>1. UNCHANGED <<calm, call, cpc, timer, inbox>>
    BY <1>4 DEF Connect, Reconnected, Die, Disconnected, clientVars
  <2>2. QED BY <1>0, <2>1 DEF Alone, Under
<1>5. CASE Rescale
  <2>1. PICK c \in Calls : /\ calm /\ cpc \in Under => c = call
                           /\ inbox' = [inbox EXCEPT ![c] = Append(@, "thumbnail")]
                           /\ UNCHANGED <<calm, call, cpc, timer>>
    BY <1>5, RequestOf DEF WakeInv, Rescale, clientVars
  <2>2. \A d \in Calls : d # c => inbox'[d] = inbox[d]
    BY <1>0, <2>1
  <2>3. QED BY <1>0, <2>1, <2>2 DEF Alone, Under
<1>6. ASSUME NEW c \in Calls, HandleThumbnail(c) \/ HandleCrash(c)
      PROVE  Alone'
  <2>1. /\ inbox[c] # <<>> /\ inbox' = [inbox EXCEPT ![c] = Tail(@)]
        /\ UNCHANGED <<calm, call, timer>> /\ (cpc' \in Under => cpc \in Under)
    BY <1>6 DEF HandleThumbnail, HandleCrash, Notify, Under
  <2>2. \A d \in Calls : d # c => inbox'[d] = inbox[d]
    BY <1>0, <2>1
  <2>3. QED BY <1>0, <2>1, <2>2 DEF Alone
<1>7. ASSUME NEW c \in Calls, TimerStops(c)
      PROVE  Alone'
  BY <1>0, <1>7 DEF TimerStops, clientVars, Alone
<1>8. ASSUME NEW c \in Calls, TimerExpires(c)
      PROVE  Alone'
  <2>1. /\ inbox' = [inbox EXCEPT ![c] = Append(@, "crash")] /\ UNCHANGED <<calm, call, cpc>>
        /\ timer[c] = "on" /\ timer' = [timer EXCEPT ![c] = "expired"]
    BY <1>8 DEF TimerExpires, clientVars
  <2>2. \A d \in Calls : d # c => inbox'[d] = inbox[d] /\ timer'[d] = timer[d]
    BY <1>0, <2>1
  <2>3. QED BY <1>0, <2>1, <2>2 DEF Alone
<1>9. CASE UNCHANGED vars
  BY <1>0, <1>9 DEF vars, clientVars, Alone
<1>10. QED
  BY <1>1, <1>2, <1>3, <1>4, <1>5, <1>6, <1>7, <1>8, <1>9 DEF Next, Client, Service

LEMMA NextSpared ==
  ASSUME TypeOK, LooperInv, WakeInv, [Next]_vars PROVE Spared'
<1>0. /\ Spared
      /\ cpc # "idle" => call \in Calls
      /\ timer \in [Calls -> {"new", "on", "stopped", "expired"}]
      /\ inbox \in [Calls -> Seq({"thumbnail", "crash"})]
  BY DEF TypeOK, WakeInv, LooperInv
<1>1. CASE Call \/ Return
  BY <1>1 DEF Call, Return, Spared
<1>2. CASE Arm
  BY <1>0, <1>2 DEF Arm, Spared
<1>3. CASE Reset \/ Send \/ Check
  BY <1>0, <1>3 DEF Reset, Send, Check, sharedVars, serviceVars, Spared
<1>4. CASE Connect \/ Reconnected \/ Die \/ Disconnected
  BY <1>0, <1>4 DEF Connect, Reconnected, Die, Disconnected, clientVars, sharedVars, Spared
<1>5. CASE Rescale
  <2>1. PICK c \in Calls : /\ inbox' = [inbox EXCEPT ![c] = Append(@, "thumbnail")]
                           /\ UNCHANGED <<calm, call, cpc, timer, stop>>
    BY <1>5, RequestOf DEF Rescale, clientVars, sharedVars
  <2>2. inbox'[c] # <<>> /\ \A d \in Calls : d # c => inbox'[d] = inbox[d]
    BY <2>1, Posts DEF Messages
  <2>3. QED BY <1>0, <2>1, <2>2 DEF Spared
<1>6. ASSUME NEW c \in Calls, HandleThumbnail(c)
      PROVE  Spared'
  BY <1>0, <1>6 DEF HandleThumbnail, Notify, Spared
<1>7. ASSUME NEW c \in Calls, HandleCrash(c)
      PROVE  Spared'
  <2>1. /\ inbox[c] # <<>> /\ Head(inbox[c]) = "crash" /\ UNCHANGED <<calm, call, timer>>
        /\ inbox' = [inbox EXCEPT ![c] = Tail(@)]
        /\ cpc' # "waiting" /\ (cpc' # "return" => cpc' = cpc)
    BY <1>7 DEF HandleCrash, Notify
  <2>2. Has(c, "crash")
    BY <2>1, Reads
  <2>3. calm /\ cpc \in {"reset", "send", "check"} => timer[call] = "expired"
    BY <2>1, <2>2, CalmReads DEF Under
  <2>4. QED BY <1>0, <2>1, <2>3 DEF Spared
<1>8. ASSUME NEW c \in Calls, TimerStops(c)
      PROVE  Spared'
  <2>1. stop /\ UNCHANGED <<calm, call, cpc, stop>>
    BY <1>8 DEF TimerStops, clientVars, sharedVars
  <2>2. QED BY <1>0, <2>1 DEF Spared
<1>9. ASSUME NEW c \in Calls, TimerExpires(c)
      PROVE  Spared'
  <2>1. /\ inbox' = [inbox EXCEPT ![c] = Append(@, "crash")]
        /\ UNCHANGED <<calm, call, cpc, stop>>
        /\ timer' = [timer EXCEPT ![c] = "expired"]
        /\ calm => ~(c = call /\ cpc \in {"reset", "send", "check"})
    BY <1>9 DEF TimerExpires, clientVars, sharedVars
  <2>2. inbox'[c] # <<>> /\ \A d \in Calls : d # c => inbox'[d] = inbox[d]
    BY <2>1, Posts DEF Messages
  <2>3. \A d \in Calls : d # c => timer'[d] = timer[d]
    BY <1>0, <2>1
  <2>4. QED BY <1>0, <2>1, <2>2, <2>3 DEF Spared
<1>10. CASE UNCHANGED vars
  BY <1>0, <1>10 DEF vars, clientVars, sharedVars, Spared
<1>11. QED
  BY <1>1, <1>2, <1>3, <1>4, <1>5, <1>6, <1>7, <1>8, <1>9, <1>10 DEF Next, Client, Service

LEMMA NextAnswered ==
  ASSUME TypeOK, LooperInv, WakeInv, [Next]_vars PROVE Answered' /\ TimedOut'
<1>0. /\ Answered /\ TimedOut
      /\ cpc # "idle" => call \in Calls
      /\ timer \in [Calls -> {"new", "on", "stopped", "expired"}]
  BY DEF TypeOK, WakeInv, LooperInv
<1>1. CASE Call \/ Return
  BY <1>1 DEF Call, Return, Answered, TimedOut, Under
<1>2. CASE Arm
  BY <1>2 DEF Arm, Answered, TimedOut
<1>3. CASE Reset
  BY <1>3 DEF Reset, Answered, TimedOut
<1>4. CASE Send
  BY <1>0, <1>4 DEF Send, sharedVars, Answered, TimedOut, Under
<1>5. CASE Check
  BY <1>0, <1>5 DEF Check, sharedVars, serviceVars, Answered, TimedOut, Under
<1>a. CASE Rescale
  <2>1. PICK c \in Calls :
          /\ c = looper[1].of /\ looper[1].what = "run" /\ 1 \in DOMAIN looper
          /\ \E shown : answer' = [answer EXCEPT ![c] = shown]
          /\ UNCHANGED <<calm, call, cpc, timer, replied, thumbnail>>
    BY <1>a, RequestOf DEF Rescale, clientVars, sharedVars
  <2>2. c = call => answer[call] # Failed
    <3>1. answer[c] = 0
      BY <2>1 DEF WakeInv, Requests
    <3>2. Failed # 0
      BY HandshakeAssumption
    <3>3. QED BY <3>1, <3>2
  <2>3. c # call /\ call \in Calls => answer'[call] = answer[call]
    BY <1>0, <2>1
  <2>4. QED BY <1>0, <2>1, <2>2, <2>3 DEF Answered, TimedOut, Under
<1>6. CASE Connect \/ Reconnected \/ Die \/ Disconnected
  <2>1. UNCHANGED <<calm, call, cpc, timer, replied, thumbnail, answer>>
    BY <1>6 DEF Connect, Reconnected, Die, Disconnected, clientVars, sharedVars
  <2>2. QED BY <1>0, <2>1 DEF Answered, TimedOut, Under
<1>7. ASSUME NEW c \in Calls, HandleThumbnail(c)
      PROVE  Answered' /\ TimedOut'
  <2>1. /\ inbox[c] # <<>> /\ Head(inbox[c]) = "thumbnail"
        /\ inbox' = [inbox EXCEPT ![c] = Tail(@)]
        /\ replied' = TRUE /\ thumbnail' = answer[c]
        /\ UNCHANGED <<calm, call, answer>> /\ (cpc' \in Under => cpc \in Under)
    BY <1>7 DEF HandleThumbnail, Notify, Under, serviceVars
  <2>2. calm /\ cpc \in Under => c = call
    BY <2>1, CalmReads
  <2>3. calm => answer[c] \in {c, Failed}
    BY <2>1, Reads DEF WakeInv, Replies
  <2>4. QED BY <2>1, <2>2, <2>3 DEF Answered, TimedOut, Under
<1>8. ASSUME NEW c \in Calls, HandleCrash(c)
      PROVE  Answered' /\ TimedOut'
  <2>1. /\ inbox[c] # <<>> /\ Head(inbox[c]) = "crash"
        /\ inbox' = [inbox EXCEPT ![c] = Tail(@)]
        /\ UNCHANGED <<calm, call, timer, replied, thumbnail, answer>>
        /\ cpc' = IF cpc = "waiting" THEN "return" ELSE cpc
    BY <1>8 DEF HandleCrash, Notify, serviceVars
  <2>2. calm /\ cpc \in Under => timer[call] = "expired"
    BY <2>1, Reads, CalmReads
  <2>3. QED BY <1>0, <2>1, <2>2 DEF Answered, TimedOut, Under
<1>9. ASSUME NEW c \in Calls, TimerStops(c) \/ TimerExpires(c)
      PROVE  Answered' /\ TimedOut'
  <2>1. UNCHANGED <<calm, call, cpc, replied, thumbnail, answer>>
    BY <1>9 DEF TimerStops, TimerExpires, clientVars, sharedVars, serviceVars
  <2>2. timer[call] = "expired" /\ call \in Calls => timer'[call] = "expired"
    BY <1>0, <1>9 DEF TimerStops, TimerExpires
  <2>3. QED BY <1>0, <2>1, <2>2 DEF Answered, TimedOut, Under
<1>10. CASE UNCHANGED vars
  BY <1>0, <1>10 DEF vars, clientVars, sharedVars, serviceVars, Answered, TimedOut, Under
<1>11. QED
  BY <1>1, <1>2, <1>3, <1>4, <1>5, <1>a, <1>6, <1>7, <1>8, <1>9, <1>10 DEF Next, Client, Service

\* Out of calm: the request of the call under way is in the looper until it has
\* become an answer in its inbox.
Pending == Asked \/ Has(call, "thumbnail")

LEMMA NextLiving ==
  ASSUME TypeOK, LooperInv, WakeInv, [Next]_vars PROVE Living'
<1>0. /\ Living /\ deaths \in Nat /\ looper \in Seq(Jobs)
      /\ inbox \in [Calls -> Seq({"thumbnail", "crash"})]
  BY HandshakeAssumption DEF TypeOK, WakeInv
<1>1. CASE Call \/ Arm \/ Reset \/ Return \/ Disconnected
  BY <1>0, <1>1 DEF Call, Arm, Reset, Return, Disconnected, clientVars, serviceVars, Living
<1>2. CASE Send
  <2>1. UNCHANGED <<call, bound, linked, deaths>> /\ cpc' # "waiting"
        /\ (cpc' = "check" => bound)
    BY <1>2 DEF Send
  <2>2. ASSUME cpc' = "check", deaths = 0 PROVE Asked'
    <3>1. /\ looper' = Append(looper, [what |-> "run", of |-> call])
      BY <1>0, <1>2, <2>2 DEF Send, Living
    <3>2. /\ Len(looper) + 1 \in DOMAIN looper'
          /\ looper'[Len(looper) + 1] = [what |-> "run", of |-> call]
      BY <1>0, <3>1
    <3>3. QED BY <2>1, <3>2 DEF Asked
  <2>3. QED BY <1>0, <2>1, <2>2 DEF Living
<1>3. CASE Check
  <2>1. /\ UNCHANGED <<call, bound, linked, deaths, looper, inbox, replied>>
        /\ cpc' = "waiting" => cpc = "check" /\ ~replied
        /\ cpc' # "check"
    BY <1>3 DEF Check, sharedVars, serviceVars
  <2>2. QED BY <1>0, <2>1 DEF Living, Asked, Has
<1>4. ASSUME UNCHANGED <<call, cpc, deaths, replied>>, bound' => bound \/ linked',
             linked => linked', Pending => Pending'
      PROVE  Living'
  BY <1>0, <1>4 DEF Living, Pending
<1>5. CASE Connect \/ Reconnected
  <2>1. looper' = looper \/ (looper # <<>> /\ Head(looper).what = "bind" /\ looper' = Tail(looper))
    BY <1>5 DEF Connect, Reconnected
  <2>2. Asked => Asked'
    <3>1. CASE looper' = looper
      BY <1>5, <3>1 DEF Asked, Connect, Reconnected, clientVars
    <3>2. CASE looper # <<>> /\ Head(looper).what = "bind" /\ looper' = Tail(looper)
      <4>1. looper[1].what = "bind"
        BY <1>0, <3>2
      <4>2. \A i \in DOMAIN looper : i # 1 => i - 1 \in DOMAIN looper' /\ looper'[i - 1] = looper[i]
        BY <1>0, <3>2
      <4>3. call' = call
        BY <1>5 DEF Connect, Reconnected, clientVars
      <4>4. QED BY <4>1, <4>2, <4>3 DEF Asked
    <3>3. QED BY <2>1, <3>1, <3>2
  <2>3. UNCHANGED <<call, cpc, deaths, replied, inbox>> /\ linked' = TRUE
    BY <1>5 DEF Connect, Reconnected, clientVars, sharedVars
  <2>4. QED BY <1>4, <2>2, <2>3 DEF Pending, Has
<1>6. CASE Rescale
  <2>1. PICK c \in Calls :
          /\ looper[1].of = c /\ looper # <<>> /\ looper' = Tail(looper)
          /\ inbox' = [inbox EXCEPT ![c] = Append(@, "thumbnail")]
          /\ UNCHANGED <<call, cpc, deaths, replied, bound, linked>>
    BY <1>6, RequestOf DEF Rescale, clientVars, sharedVars
  <2>2. \A i \in DOMAIN looper : i # 1 => i - 1 \in DOMAIN looper' /\ looper'[i - 1] = looper[i]
    BY <1>0, <2>1
  <2>3. /\ \A d \in Calls : d # c => inbox'[d] = inbox[d]
        /\ \A n : In(n, inbox'[c]) <=> In(n, inbox[c]) \/ n = "thumbnail"
    BY <2>1, Posts DEF Messages
  <2>4. call = c => Has(call, "thumbnail")'
    BY <2>1, <2>3 DEF Has
  <2>5. ASSUME Asked PROVE Asked' \/ call = c
    <3>1. PICK i \in DOMAIN looper : looper[i] = [what |-> "run", of |-> call]
      BY <2>5 DEF Asked
    <3>2. i = 1 => call = c
      BY <2>1, <3>1
    <3>3. i # 1 => Asked'
      BY <2>1, <2>2, <3>1 DEF Asked
    <3>4. QED BY <3>2, <3>3
  <2>6. call # c => (Has(call, "thumbnail") => Has(call, "thumbnail")')
    BY <1>0, <2>1 DEF Has
  <2>7. QED BY <1>4, <2>1, <2>4, <2>5, <2>6 DEF Pending
<1>7. CASE Die
  BY <1>0, <1>7 DEF Die, Living
<1>8. ASSUME NEW c \in Calls, HandleThumbnail(c)
      PROVE  Living'
  BY <1>0, <1>8 DEF HandleThumbnail, Notify, serviceVars, Living
<1>9. ASSUME NEW c \in Calls, HandleCrash(c)
      PROVE  Living'
  <2>1. /\ inbox[c] # <<>> /\ Head(inbox[c]) = "crash"
        /\ inbox' = [inbox EXCEPT ![c] = Tail(@)]
        /\ UNCHANGED <<call, replied, bound, linked, deaths, looper>>
        /\ cpc' # "waiting" /\ (cpc' = "check" => cpc = "check")
    BY <1>9 DEF HandleCrash, Notify, serviceVars
  <2>2. /\ \A d \in Calls : d # c => inbox'[d] = inbox[d]
        /\ \A n : In(n, inbox[c]) => In(n, inbox'[c]) \/ n = "crash"
    BY <2>1, Reads
  <2>3. Pending => Pending'
    <3>1. Asked => Asked'
      BY <2>1 DEF Asked
    <3>2. Has(call, "thumbnail") => Has(call, "thumbnail")'
      <4>1. CASE call = c
        BY <2>1, <2>2, <4>1 DEF Has
      <4>2. CASE call # c
        BY <1>0, <2>1, <4>2 DEF Has
      <4>3. QED BY <4>1, <4>2
    <3>3. QED BY <3>1, <3>2 DEF Pending
  <2>4. QED BY <1>0, <2>1, <2>3 DEF Living, Pending
<1>10. ASSUME NEW c \in Calls, TimerStops(c)
      PROVE  Living'
  BY <1>0, <1>10 DEF TimerStops, clientVars, sharedVars, serviceVars, Living, Asked, Has
<1>11. ASSUME NEW c \in Calls, TimerExpires(c)
      PROVE  Living'
  <2>1. /\ inbox' = [inbox EXCEPT ![c] = Append(@, "crash")]
        /\ UNCHANGED <<call, cpc, replied, bound, linked, deaths, looper>>
    BY <1>11 DEF TimerExpires, clientVars, sharedVars, serviceVars
  <2>2. \A n : In(n, inbox'[c]) <=> In(n, inbox[c]) \/ n = "crash"
    BY <2>1, Posts DEF Messages
  <2>3. Has(call, "thumbnail") => Has(call, "thumbnail")'
    <3>1. CASE call = c
      BY <2>1, <2>2, <3>1 DEF Has
    <3>2. CASE call # c
      BY <1>0, <2>1, <3>2 DEF Has
    <3>3. QED BY <3>1, <3>2
  <2>4. Asked => Asked'
    BY <2>1 DEF Asked
  <2>5. QED BY <1>4, <2>1, <2>3, <2>4 DEF Pending
<1>12. CASE UNCHANGED vars
  BY <1>0, <1>12 DEF vars, clientVars, sharedVars, serviceVars, Living, Asked, Has
<1>13. QED
  BY <1>1, <1>2, <1>3, <1>5, <1>6, <1>7, <1>8, <1>9, <1>10, <1>11, <1>12 DEF Next, Client, Service

HandshakeInv == TypeOK /\ LooperInv /\ Answers /\ WakeInv

\* Where the timers, messages and requests of the calls may be, whatever order the
\* threads and the two processes take: the invariant behind the theorems below.
THEOREM HandshakeInvariant == Spec => []HandshakeInv
<1>1. Init => HandshakeInv
  BY InitType, InitLooper, InitAnswers, InitWake DEF HandshakeInv
<1>2. HandshakeInv /\ [Next]_vars => HandshakeInv'
  <2> SUFFICES ASSUME HandshakeInv, [Next]_vars PROVE HandshakeInv'
    OBVIOUS
  <2>1. TypeOK /\ LooperInv /\ Answers /\ WakeInv
    BY DEF HandshakeInv
  <2>2. TypeOK' /\ LooperInv' /\ Answers'
    BY <2>1, NextFlags, NextData, NextLooper, NextAnswers DEF TypeOK, Flags, Data
  <2>3. WakeInv'
    BY <2>1, NextRequests, NextSole, NextReplies, NextFresh, NextAlone, NextSpared, NextAnswered,
       NextLiving DEF WakeInv
  <2>4. QED BY <2>2, <2>3 DEF HandshakeInv
<1>3. QED BY <1>1, <1>2, PTL DEF Spec

\* No lost wake-up, whatever the order of threads and messages: a call that waits
\* has something left that will wake it.  In calm this holds through any death of
\* the ffmpeg process, otherwise until the process has died.
THEOREM WakerLeft == Spec => []Waker
<1>1. HandshakeInv => Waker
  <2> SUFFICES ASSUME HandshakeInv, cpc = "waiting"
               PROVE  \/ timer[call] = "on" \/ inbox[call] # <<>>
                      \/ ~calm /\ (deaths > 0 \/ Asked)
    BY DEF Waker
  <2>1. calm => timer[call] = "on" \/ inbox[call] # <<>>
    BY DEF HandshakeInv, WakeInv, Spared
  <2>2. deaths = 0 => Asked \/ Has(call, "thumbnail")
    BY DEF HandshakeInv, WakeInv, Living
  <2>3. Has(call, "thumbnail") => inbox[call] # <<>>
    BY Nothing DEF Has
  <2>4. deaths = 0 \/ deaths > 0
    BY HandshakeAssumption DEF HandshakeInv, TypeOK
  <2>5. QED BY <2>1, <2>2, <2>3, <2>4
<1>2. QED BY <1>1, HandshakeInvariant, PTL

\* In calm, a call that waited in vain did so until its own timer had expired, or
\* the service had answered it without a thumbnail.
THEOREM OwnTimeoutOnly == Spec => OnlyOwnTimeout
<1> DEFINE Step == calm /\ cpc = "return" /\ cpc' = "idle" /\ result' = Failed
                     => timer[call] = "expired" \/ answer[call] = Failed
<1>1. HandshakeInv /\ [Next]_vars => [Step]_vars
  <2> SUFFICES ASSUME HandshakeInv, [Next]_vars, calm, cpc = "return", cpc' = "idle",
                      result' = Failed
               PROVE  timer[call] = "expired" \/ answer[call] = Failed
    OBVIOUS
  <2>1. Return
    BY DEF Next, Client, Service, vars, clientVars, sharedVars, Call, Arm, Reset, Send, Check,
           Connect, Rescale, Reconnected, Die, Disconnected, HandleThumbnail, HandleCrash,
           Notify, TimerStops, TimerExpires
  <2>2. replied => result' = call \/ answer[call] = Failed
    BY <2>1 DEF Return, HandshakeInv, WakeInv, Answered, Under
  <2>3. call \in Nat /\ Failed \notin Nat
    BY HandshakeAssumption DEF HandshakeInv, TypeOK
  <2>4. replied => answer[call] = Failed
    BY <2>2, <2>3
  <2>5. QED BY <2>4 DEF HandshakeInv, WakeInv, TimedOut
<1>2. QED BY <1>1, HandshakeInvariant, PTL DEF Spec, OnlyOwnTimeout

-----------------------------------------------------------------------------
(***************************************************************************)
(* The handshake implements ThumbnailCall (its safety part): in calm a call *)
(* is asked and answered, everything else is a stutter.                    *)
(***************************************************************************)
LEMMA CalmSteps ==
  ASSUME HandshakeInv, calm, [Next]_vars
  PROVE  \/ /\ cpc = "idle" /\ cpc' = "bind" /\ call < MaxCalls /\ call' = call + 1
            /\ result' = result
         \/ /\ cpc # "idle" /\ cpc' = "idle" /\ call' = call /\ result' \in {call, Failed}
         \/ /\ (cpc' = "idle" <=> cpc = "idle") /\ UNCHANGED <<call, result>>
<1>1. CASE Call
  BY <1>1 DEF Call
<1>2. CASE Arm \/ Reset \/ Check
  BY <1>2 DEF Arm, Reset, Check
<1>3. CASE Send
  BY <1>3 DEF Send
<1>4. CASE Return
  <2>1. replied => thumbnail \in {call, Failed}
    BY <1>4 DEF Return, HandshakeInv, WakeInv, Answered, Under
  <2>2. QED BY <1>4, <2>1 DEF Return
<1>5. CASE Connect \/ Rescale \/ Reconnected \/ Die \/ Disconnected
  BY <1>5 DEF Connect, Rescale, Reconnected, Die, Disconnected, clientVars
<1>6. ASSUME NEW c \in Calls, HandleThumbnail(c) \/ HandleCrash(c)
      PROVE  (cpc' = "idle" <=> cpc = "idle") /\ UNCHANGED <<call, result>>
  BY <1>6 DEF HandleThumbnail, HandleCrash, Notify
<1>7. ASSUME NEW c \in Calls, TimerStops(c) \/ TimerExpires(c)
      PROVE  UNCHANGED <<cpc, call, result>>
  BY <1>7 DEF TimerStops, TimerExpires, clientVars
<1>8. CASE UNCHANGED vars
  BY <1>8 DEF vars, clientVars
<1>9. QED
  BY <1>1, <1>2, <1>3, <1>4, <1>5, <1>6, <1>7, <1>8 DEF Next, Client, Service

\* calm never changes.
LEMMA SameCalm == ASSUME [Next]_vars PROVE calm' = calm
BY DEF Next, Client, Service, vars, clientVars, Call, Arm, Reset, Send, Check, Return,
       Connect, Rescale, Reconnected, Die, Disconnected, HandleThumbnail, HandleCrash,
       TimerStops, TimerExpires

\* In calm, whatever the process dies of, every behaviour of the handshake is one of
\* ThumbnailCall.  Otherwise this says nothing: the mapping then stands still.
THEOREM Implements == Spec => Promise!Spec
<1>1. Init => Promise!Init
  BY Zenon DEF Init, Promise!Init
<1>2. HandshakeInv /\ [Next]_vars => [Promise!Ask \/ Promise!Answer]_(Promise!callVars)
  <2> SUFFICES ASSUME HandshakeInv, [Next]_vars
               PROVE  [Promise!Ask \/ Promise!Answer]_(Promise!callVars)
    OBVIOUS
  <2>0. calm' = calm /\ calm \in BOOLEAN
    BY SameCalm, HandshakeAssumption DEF HandshakeInv, TypeOK
  <2>1. CASE ~calm
    BY <2>0, <2>1, Zenon DEF Promise!callVars
  <2>2. CASE calm /\ /\ cpc = "idle" /\ cpc' = "bind" /\ call < MaxCalls
                     /\ call' = call + 1 /\ result' = result
    BY <2>0, <2>2 DEF Promise!Ask
  <2>3. CASE calm /\ /\ cpc # "idle" /\ cpc' = "idle" /\ call' = call
                     /\ result' \in {call, Failed}
    BY <2>0, <2>3 DEF Promise!Answer
  <2>4. CASE calm /\ (cpc' = "idle" <=> cpc = "idle") /\ UNCHANGED <<call, result>>
    BY <2>0, <2>4 DEF Promise!callVars
  <2>5. QED BY <2>1, <2>2, <2>3, <2>4, CalmSteps
<1>3. QED BY <1>1, <1>2, HandshakeInvariant, PTL DEF Spec, Promise!Spec
=============================================================================
