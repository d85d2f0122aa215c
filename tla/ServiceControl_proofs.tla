------------------------ MODULE ServiceControl_proofs ------------------------
(***************************************************************************)
(* Proofs about ServiceControl, for any number of presses of Start.        *)
(***************************************************************************)
EXTENDS ServiceControl, FiniteSetTheorems, SequenceTheorems, TLAPS

\* The two halves of TypeOK, for provers that know either Booleans or numbers.
Flags ==
  /\ shown \in BOOLEAN /\ isProcessing \in BOOLEAN /\ asking \in BOOLEAN
  /\ orphan \in BOOLEAN /\ news \in BOOLEAN /\ disturbed \in BOOLEAN
  /\ lastService \in BOOLEAN
  /\ over \in [Insts -> BOOLEAN] /\ stopProcessing \in [Insts -> BOOLEAN]
Data ==
  /\ button \in {"start", "stop"}
  /\ presses \in 0..MaxStarts /\ svc \in 0..MaxStarts
  /\ made \in 0..MaxStarts /\ lastId \in 0..MaxStarts
  /\ queue \in [Insts -> Seq(Starts)]
  /\ job \in [Insts -> 0..MaxStarts]
OverJob == \A i \in Insts : over[i] => job[i] # 0

\* Start ids grow: a command has a greater one than the job before it, the one
\* still asked for the greatest; the live service was given that of the last
\* command in its looper.
Made == /\ made <= presses /\ svc <= made
        /\ asking => made < presses
Newest(n) == n <= presses /\ (asking => n < presses)
Ordered ==
  \A i \in Insts :
    /\ Newest(job[i])
    /\ \A a \in DOMAIN queue[i] : job[i] < queue[i][a] /\ Newest(queue[i][a])
    /\ \A a, b \in DOMAIN queue[i] : a < b => queue[i][a] < queue[i][b]
LastGiven == svc # 0 /\ queue[svc] # <<>> => lastId = queue[svc][Len(queue[svc])]

\* One Start at a time is on its way from the button to the end of its job, and
\* the screen shows it.
Busy(i) == queue[i] # <<>> \/ Working(i)
OneWay ==
  /\ asking => \A i \in Insts : ~Busy(i)
  /\ \A i, j \in Insts : Busy(i) /\ Busy(j) => i = j
  /\ \A i \in Insts : Working(i) => queue[i] = <<>>
  /\ \A i \in Insts : Len(queue[i]) <= 1
Shows ==
  /\ asking \/ (\E i \in Insts : Busy(i)) => isProcessing /\ ~news
  /\ isProcessing => button = "stop"
  /\ news => isProcessing
Lone == ~disturbed => OneWay /\ Shows

ControlInv == TypeOK /\ Made /\ Ordered /\ LastGiven /\ Lone

LEMMA Halves == TypeOK <=> Flags /\ Data /\ OverJob
<1>1. TypeOK => Flags /\ OverJob
  BY Zenon DEF TypeOK, Flags, OverJob
<1>2. TypeOK => Data
  BY DEF TypeOK, Data
<1>3. Flags /\ Data /\ OverJob => TypeOK
  BY DEF TypeOK, Flags, Data, OverJob
<1>4. QED BY <1>1, <1>2, <1>3

LEMMA AppendType ==
  ASSUME NEW S, NEW s \in Seq(S), NEW e \in S
  PROVE  Append(s, e) \in Seq(S)
OBVIOUS

LEMMA TailType ==
  ASSUME NEW S, NEW s \in Seq(S), s # <<>>
  PROVE  Tail(s) \in Seq(S) /\ Head(s) \in S
OBVIOUS

LEMMA TailOfOne ==
  ASSUME NEW S, NEW s \in Seq(S), s # <<>>, Len(s) <= 1
  PROVE  Tail(s) = <<>> /\ Len(Tail(s)) <= 1
<1>1. Len(s) \in Nat \ {0}
  BY EmptySeq
<1>2. Tail(s) \in Seq(S) /\ Len(Tail(s)) = Len(s) - 1
  BY HeadTailProperties
<1>3. Len(Tail(s)) = 0
  BY <1>1, <1>2
<1>4. Tail(s) = <<>>
  BY <1>2, <1>3, EmptySeq
<1>5. QED BY <1>3, <1>4

LEMMA InitControl == ASSUME Init PROVE ControlInv
<1>0. MaxStarts \in Nat /\ NoneOf(0) \in [Insts -> 0..MaxStarts]
  BY ControlAssumption DEF NoneOf
<1>1. Flags
  BY Zenon DEF Init, Flags, NoneOf
<1>2. Data
  BY <1>0 DEF Init, Data, NoneOf
<1>3. \A i \in Insts : queue[i] = <<>> /\ job[i] = 0 /\ over[i] = FALSE
  BY DEF Init, NoneOf
<1>4. OverJob
  BY <1>3 DEF OverJob
<1>5. presses = 0 /\ made = 0 /\ svc = 0 /\ asking = FALSE /\ isProcessing = FALSE /\ news = FALSE
  BY DEF Init
<1>6. Made /\ LastGiven
  BY <1>5 DEF Made, LastGiven
<1>7. Ordered
  BY <1>3, <1>5 DEF Ordered, Newest
<1>8. \A i \in Insts : ~Busy(i) /\ Len(queue[i]) <= 1
  BY <1>3 DEF Busy, Working
<1>9. Lone
  BY <1>3, <1>5, <1>8 DEF Lone, OneWay, Shows
<1>10. QED BY <1>1, <1>2, <1>4, <1>6, <1>7, <1>9, Halves DEF ControlInv

-----------------------------------------------------------------------------
\* The steps keep the types.
LEMMA NextFlags == ASSUME Flags, [Next]_vars PROVE Flags'
<1>1. CASE PressStart \/ Denied \/ Receive
  BY <1>1, Zenon DEF Flags, PressStart, Denied, Receive, BackToStart, asides, jobVars
<1>2. CASE Granted \/ PressStop
  BY <1>2 DEF Flags, Granted, PressStop, asides, screenVars
<1>3. CASE Hide \/ Show \/ Recreate
  BY <1>3, Zenon DEF Flags, Hide, Show, Recreate, asides, jobVars
<1>4. ASSUME NEW i \in Insts, Looper(i) PROVE Flags'
  <2>1. CASE Take(i)
    BY <2>1, Zenon DEF Flags, Take, screenVars, asides
  <2>2. CASE Finish(i)
    BY <2>2 DEF Flags, Finish, Ends, asides
  <2>3. CASE Stopped(i)
    BY <2>3 DEF Flags, Stopped, Ends, asides
  <2>4. CASE StopSelf(i)
    BY <2>4 DEF Flags, StopSelf, screenVars, asides
  <2>5. QED BY <1>4, <2>1, <2>2, <2>3, <2>4 DEF Looper
<1>5. CASE ProcessDies
  BY <1>5, Zenon DEF Flags, ProcessDies, NoneOf
<1>6. CASE UNCHANGED vars
  BY <1>6, Zenon DEF Flags, vars, screenVars, asides, jobVars
<1>7. QED BY <1>1, <1>2, <1>3, <1>4, <1>5, <1>6 DEF Next, Screen

LEMMA NextData == ASSUME Data, Made, [Next]_vars PROVE Data'
<1> USE DEF Data
<1>0. MaxStarts \in Nat /\ Starts = 1..MaxStarts /\ Insts = 1..MaxStarts
  BY ControlAssumption DEF Starts, Insts
<1>1. CASE PressStart \/ Denied \/ Receive
  <2>1. CASE PressStart
    BY <1>0, <2>1 DEF PressStart, jobVars
  <2>2. CASE Denied \/ Receive
    <3>1. button' = "start" /\ UNCHANGED <<presses, svc, made, lastId, queue, job>>
      BY <2>2, Zenon DEF Denied, Receive, BackToStart, jobVars
    <3>2. QED BY <3>1
  <2>3. QED BY <1>1, <2>1, <2>2
<1>2. CASE Granted
  <2>1. presses \in Starts /\ made + 1 \in Insts
    BY <1>0, <1>2 DEF Granted, Made
  <2>2. (IF svc = 0 THEN made + 1 ELSE svc) \in Insts
    BY <1>0, <2>1
  <2>3. PICK i \in Insts : /\ svc' = i /\ made' \in {i, made}
                           /\ queue' = [queue EXCEPT ![i] = Append(@, presses)]
    BY <1>2, <2>2 DEF Granted
  <2>4. queue' \in [Insts -> Seq(Starts)]
    <3>1. Append(queue[i], presses) \in Seq(Starts)
      BY <2>1, AppendType
    <3>2. QED BY <2>3, <3>1
  <2>5. QED BY <1>0, <1>2, <2>1, <2>3, <2>4 DEF Granted
<1>3. CASE PressStop
  BY <1>0, <1>3 DEF PressStop, screenVars
<1>4. CASE Hide \/ Show \/ Recreate
  BY <1>0, <1>4 DEF Hide, Show, Recreate, Button, jobVars
<1>5. ASSUME NEW i \in Insts, Looper(i) PROVE Data'
  <2>1. CASE Take(i)
    <3>1. Tail(queue[i]) \in Seq(Starts) /\ Head(queue[i]) \in 0..MaxStarts
      BY <1>0, <2>1, TailType DEF Take
    <3>2. QED BY <1>0, <2>1, <3>1 DEF Take, screenVars
  <2>2. CASE Finish(i) \/ Stopped(i)
    BY <1>0, <2>2 DEF Finish, Stopped
  <2>3. CASE StopSelf(i)
    BY <1>0, <2>3 DEF StopSelf, screenVars
  <2>4. QED BY <1>5, <2>1, <2>2, <2>3 DEF Looper
<1>6. CASE ProcessDies
  BY <1>0, <1>6 DEF ProcessDies, NoneOf
<1>7. CASE UNCHANGED vars
  BY <1>7 DEF vars, screenVars, jobVars
<1>8. QED BY <1>1, <1>2, <1>3, <1>4, <1>5, <1>6, <1>7 DEF Next, Screen

LEMMA NextOverJob ==
  ASSUME Flags, Data, OverJob, [Next]_vars PROVE OverJob'
<1>0. /\ over \in [Insts -> BOOLEAN] /\ job \in [Insts -> 0..MaxStarts]
      /\ queue \in [Insts -> Seq(Starts)] /\ \A n \in Starts : n # 0
  BY ControlAssumption DEF Flags, Data, Starts
<1>1. CASE Screen \/ UNCHANGED vars
  <2>1. UNCHANGED <<over, job>>
    BY <1>1 DEF Screen, PressStart, Denied, Receive, Granted, PressStop, Hide, Show, Recreate,
                vars, jobVars
  <2>2. QED BY <2>1 DEF OverJob
<1>2. ASSUME NEW i \in Insts, Take(i) PROVE OverJob'
  <2>1. Head(queue[i]) \in Starts
    BY <1>0, <1>2, TailType DEF Take
  <2>2. QED BY <1>0, <1>2, <2>1 DEF Take, OverJob
<1>3. ASSUME NEW i \in Insts, Finish(i) \/ Stopped(i) PROVE OverJob'
  BY <1>0, <1>3 DEF Finish, Stopped, Ends, Working, OverJob
<1>4. ASSUME NEW i \in Insts, StopSelf(i) PROVE OverJob'
  BY <1>0, <1>4 DEF StopSelf, OverJob
<1>5. CASE ProcessDies
  BY <1>5 DEF ProcessDies, NoneOf, OverJob
<1>6. QED BY <1>1, <1>2, <1>3, <1>4, <1>5 DEF Next, Looper

-----------------------------------------------------------------------------
\* The order of the start ids.
LEMMA NextMade == ASSUME TypeOK, Made, [Next]_vars PROVE Made'
<1>0. {presses, svc, made} \subseteq Nat
  BY DEF TypeOK
<1>1. CASE PressStart
  BY <1>0, <1>1 DEF Made, PressStart
<1>2. CASE Granted
  BY <1>0, <1>2 DEF Made, Granted
<1>3. CASE Denied \/ Receive \/ PressStop \/ Hide \/ Show \/ Recreate
  <2>1. presses' = presses /\ made' = made
    BY <1>3, Zenon DEF Denied, Receive, PressStop, Hide, Show, Recreate, screenVars
  <2>2. svc' = 0 \/ svc' = svc
    BY <1>3, Zenon DEF Denied, Receive, PressStop, Hide, Show, Recreate, screenVars
  <2>3. asking' => asking
    BY <1>3, Zenon DEF Denied, Receive, PressStop, Hide, Show, Recreate, screenVars
  <2>4. QED BY <1>0, <2>1, <2>2, <2>3 DEF Made
<1>4. ASSUME NEW i \in Insts, Looper(i) PROVE Made'
  <2>1. CASE Take(i)
    BY <2>1 DEF Take, Made, screenVars
  <2>2. CASE Finish(i) \/ Stopped(i)
    BY <2>2 DEF Finish, Stopped, Made
  <2>3. CASE StopSelf(i)
    <3>1. presses' = presses /\ made' = made /\ asking' = asking
      BY <2>3 DEF StopSelf, screenVars
    <3>2. svc' = 0 \/ svc' = svc
      BY <2>3 DEF StopSelf
    <3>3. QED BY <1>0, <3>1, <3>2 DEF Made
  <2>4. QED BY <1>4, <2>1, <2>2, <2>3 DEF Looper
<1>5. CASE ProcessDies
  BY <1>0, <1>5 DEF Made, ProcessDies
<1>6. CASE UNCHANGED vars
  BY <1>6 DEF Made, vars, screenVars
<1>7. QED BY <1>1, <1>2, <1>3, <1>4, <1>5, <1>6 DEF Next, Screen

LEMMA NextOrdered ==
  ASSUME TypeOK, Made, Ordered, [Next]_vars PROVE Ordered'
<1>0. /\ presses \in Nat /\ \A n \in Starts : n \in Nat
      /\ queue \in [Insts -> Seq(Starts)] /\ job \in [Insts -> Nat]
  BY ControlAssumption DEF TypeOK, Starts
<1>1. ASSUME UNCHANGED <<job, queue>>,
             \/ presses' = presses /\ (asking' => asking)
             \/ presses' = presses + 1
      PROVE  Ordered'
  <2>1. ASSUME NEW n \in Nat, Newest(n) PROVE Newest(n)'
    BY <1>0, <1>1, <2>1 DEF Newest
  <2>2. \A i \in Insts : \A a \in DOMAIN queue[i] : queue[i][a] \in Nat
    BY <1>0
  <2>3. QED BY <1>0, <1>1, <2>1, <2>2 DEF Ordered
<1>2. CASE PressStart
  BY <1>1, <1>2 DEF PressStart, jobVars
<1>3. CASE Denied \/ Receive \/ PressStop \/ Hide \/ Show \/ Recreate
  BY <1>1, <1>3 DEF Denied, Receive, PressStop, Hide, Show, Recreate, jobVars, screenVars
<1>4. CASE Granted
  <2>1. PICK i \in Nat : queue' = [queue EXCEPT ![i] = Append(@, presses)]
    <3>1. (IF svc = 0 THEN made + 1 ELSE svc) \in Nat
      BY DEF TypeOK
    <3>2. QED BY <1>4, <3>1 DEF Granted
  <2>2. UNCHANGED <<presses, job>> /\ asking /\ asking' = FALSE
    BY <1>4 DEF Granted
  <2>3. \A j \in Insts : job[j] < presses /\ \A a \in DOMAIN queue[j] : queue[j][a] < presses
    BY <2>2 DEF Ordered, Newest
  <2>4. ASSUME NEW j \in Insts
        PROVE  /\ job'[j] <= presses
               /\ \A a \in DOMAIN queue'[j] : job'[j] < queue'[j][a] /\ queue'[j][a] <= presses
               /\ \A a, b \in DOMAIN queue'[j] : a < b => queue'[j][a] < queue'[j][b]
    <3>1. CASE j # i
      <4>1. queue'[j] = queue[j]
        BY <1>0, <2>1, <3>1
      <4>2. \A a \in DOMAIN queue[j] : queue[j][a] \in Nat
        BY <1>0
      <4>3. QED BY <1>0, <2>2, <2>3, <4>1, <4>2 DEF Ordered
    <3>2. CASE j = i
      <4>1. queue[j] \in Seq(Starts) /\ queue'[j] = Append(queue[j], presses)
        BY <1>0, <2>1, <3>2
      <4>2. /\ DOMAIN queue[j] = 1..Len(queue[j]) /\ Len(queue[j]) \in Nat
            /\ DOMAIN queue'[j] = 1..(Len(queue[j]) + 1)
            /\ \A a \in 1..Len(queue[j]) : queue'[j][a] = queue[j][a] /\ queue[j][a] \in Nat
            /\ queue'[j][Len(queue[j]) + 1] = presses
        BY <1>0, <4>1
      <4>3. ASSUME NEW a \in DOMAIN queue'[j]
            PROVE  job'[j] < queue'[j][a] /\ queue'[j][a] <= presses
        <5>1. job'[j] = job[j] /\ job[j] \in Nat /\ job[j] < presses /\ presses \in Nat
          BY <1>0, <2>2, <2>3
        <5>2. CASE a \in 1..Len(queue[j])
          <6>1. queue'[j][a] = queue[j][a] /\ queue[j][a] \in Nat /\ a \in DOMAIN queue[j]
            BY <4>2, <5>2
          <6>2. job[j] < queue[j][a] /\ queue[j][a] < presses
            BY <2>3, <6>1 DEF Ordered
          <6>3. QED BY <5>1, <6>1, <6>2
        <5>3. CASE a = Len(queue[j]) + 1
          BY <4>2, <5>1, <5>3
        <5>4. QED BY <4>2, <4>3, <5>2, <5>3
      <4>4. ASSUME NEW a \in DOMAIN queue'[j], NEW b \in DOMAIN queue'[j], a < b
            PROVE  queue'[j][a] < queue'[j][b]
        <5>1. a \in 1..Len(queue[j])
          BY <4>2, <4>4
        <5>2. CASE b \in 1..Len(queue[j])
          BY <4>2, <4>4, <5>1, <5>2 DEF Ordered
        <5>3. CASE b = Len(queue[j]) + 1
          BY <2>3, <4>2, <5>1, <5>3
        <5>4. QED BY <4>2, <4>4, <5>2, <5>3
      <4>5. QED BY <1>0, <2>2, <2>3, <4>3, <4>4
    <3>3. QED BY <3>1, <3>2
  <2>5. QED BY <2>2, <2>4 DEF Ordered, Newest
<1>5. ASSUME NEW i \in Insts, Take(i) PROVE Ordered'
  <2>1. /\ queue[i] \in Seq(Starts) /\ queue[i] # <<>> /\ UNCHANGED <<presses, asking>>
        /\ queue' = [queue EXCEPT ![i] = Tail(@)] /\ job' = [job EXCEPT ![i] = Head(queue[i])]
    BY <1>0, <1>5 DEF Take, screenVars
  <2>2. /\ DOMAIN queue[i] = 1..Len(queue[i]) /\ Len(queue[i]) \in Nat \ {0}
        /\ DOMAIN queue'[i] = 1..(Len(queue[i]) - 1)
        /\ \A a \in DOMAIN queue'[i] : queue'[i][a] = queue[i][a + 1]
        /\ job'[i] = queue[i][1]
    BY <1>0, <2>1
  <2>3. \A a \in DOMAIN queue'[i] : a + 1 \in DOMAIN queue[i] /\ 1 < a + 1 /\ 1 \in DOMAIN queue[i]
    BY <2>2
  <2>4. \A a, b \in DOMAIN queue'[i] : a < b => a + 1 < b + 1
    BY <2>2
  <2>5. \A j \in Insts : j # i => queue'[j] = queue[j] /\ job'[j] = job[j]
    BY <1>0, <2>1
  <2>7. 1 \in DOMAIN queue[i]
    BY <2>2
  <2>8. ASSUME NEW j \in Insts, j # i
        PROVE  /\ Newest(job'[j])
               /\ \A a \in DOMAIN queue'[j] : job'[j] < queue'[j][a] /\ Newest(queue'[j][a])
               /\ \A a, b \in DOMAIN queue'[j] : a < b => queue'[j][a] < queue'[j][b]
    BY <2>5, <2>8 DEF Ordered
  <2>9. /\ Newest(job'[i])
        /\ \A a \in DOMAIN queue'[i] : job'[i] < queue'[i][a] /\ Newest(queue'[i][a])
        /\ \A a, b \in DOMAIN queue'[i] : a < b => queue'[i][a] < queue'[i][b]
    BY <2>2, <2>3, <2>4, <2>7 DEF Ordered
  <2>10. QED BY <2>1, <2>8, <2>9 DEF Ordered, Newest
<1>6. ASSUME NEW i \in Insts, Finish(i) \/ Stopped(i) PROVE Ordered'
  BY <1>1, <1>6 DEF Finish, Stopped
<1>7. ASSUME NEW i \in Insts, StopSelf(i) PROVE Ordered'
  <2>1. /\ UNCHANGED <<presses, asking, queue>> /\ job' = [job EXCEPT ![i] = 0]
    BY <1>7 DEF StopSelf, screenVars
  <2>2. \A j \in Insts : job'[j] = IF j = i THEN 0 ELSE job[j]
    BY <1>0, <2>1
  <2>3. \A j \in Insts : job[j] \in Nat /\ \A a \in DOMAIN queue[j] : queue[j][a] \in Nat
    BY <1>0
  <2>4. QED BY <1>0, <2>1, <2>2, <2>3 DEF Ordered, Newest
<1>8. CASE ProcessDies
  <2>1. \A j \in Insts : queue'[j] = <<>> /\ job'[j] = 0
    BY <1>8 DEF ProcessDies, NoneOf
  <2>2. asking' = FALSE /\ presses' = presses
    BY <1>8 DEF ProcessDies
  <2>3. QED BY <1>0, <2>1, <2>2 DEF Ordered, Newest
<1>9. CASE UNCHANGED vars
  BY <1>1, <1>9 DEF vars, screenVars, jobVars
<1>10. QED
  BY <1>2, <1>3, <1>4, <1>5, <1>6, <1>7, <1>8, <1>9 DEF Next, Screen, Looper

LEMMA NextLastGiven ==
  ASSUME TypeOK, Made, LastGiven, [Next]_vars PROVE LastGiven'
<1>0. /\ queue \in [Insts -> Seq(Starts)] /\ svc \in 0..MaxStarts /\ Insts = 1..MaxStarts
      /\ MaxStarts \in Nat /\ presses \in 0..MaxStarts /\ made \in 0..MaxStarts
  BY ControlAssumption DEF TypeOK, Insts
<1>1. CASE PressStart \/ Denied \/ Receive \/ Hide \/ Show \/ Recreate \/ UNCHANGED vars
  BY <1>1 DEF PressStart, Denied, Receive, Hide, Show, Recreate, vars, jobVars, LastGiven
<1>2. CASE Granted
  <2>1. (IF svc = 0 THEN made + 1 ELSE svc) \in Insts
    BY <1>0, <1>2 DEF Granted, Made
  <2>2. PICK i \in Insts : /\ svc' = i /\ lastId' = presses
                           /\ queue' = [queue EXCEPT ![i] = Append(@, presses)]
    BY <1>2, <2>1 DEF Granted
  <2>3. /\ queue'[i] = Append(queue[i], presses) /\ queue[i] \in Seq(Starts)
    BY <1>0, <2>2
  <2>4. queue'[i][Len(queue'[i])] = presses
    BY <2>3
  <2>5. QED BY <2>2, <2>4 DEF LastGiven
<1>3. CASE PressStop \/ ProcessDies
  BY <1>3 DEF PressStop, ProcessDies, LastGiven
<1>4. ASSUME NEW i \in Insts, Take(i) PROVE LastGiven'
  <2>1. /\ queue[i] \in Seq(Starts) /\ queue[i] # <<>> /\ UNCHANGED <<svc, lastId>>
        /\ queue' = [queue EXCEPT ![i] = Tail(@)]
    BY <1>0, <1>4 DEF Take
  <2>2. \A j \in Insts : j # i => queue'[j] = queue[j]
    BY <1>0, <2>1
  <2>3. queue'[i] = Tail(queue[i])
    BY <1>0, <2>1
  <2>4. Tail(queue[i]) # <<>> =>
          Tail(queue[i])[Len(Tail(queue[i]))] = queue[i][Len(queue[i])]
    BY <2>1
  <2>5. svc # 0 => svc \in Insts
    BY <1>0
  <2>6. QED BY <2>1, <2>2, <2>3, <2>4, <2>5 DEF LastGiven
<1>5. ASSUME NEW i \in Insts, Finish(i) \/ Stopped(i) \/ StopSelf(i) PROVE LastGiven'
  BY <1>5 DEF Finish, Stopped, StopSelf, LastGiven
<1>6. QED BY <1>1, <1>2, <1>3, <1>4, <1>5 DEF Next, Screen, Looper

-----------------------------------------------------------------------------
\* One Start at a time, as long as the screen is not recreated under a job.
LEMMA NextLone ==
  ASSUME TypeOK, Made, Lone, [Next]_vars PROVE Lone'
<1>0. /\ queue \in [Insts -> Seq(Starts)] /\ svc \in 0..MaxStarts /\ Insts = 1..MaxStarts
      /\ over \in [Insts -> BOOLEAN] /\ job \in [Insts -> 0..MaxStarts]
      /\ MaxStarts \in Nat /\ presses \in 0..MaxStarts /\ made \in 0..MaxStarts
      /\ \A i \in Insts : over[i] => job[i] # 0
  BY ControlAssumption DEF TypeOK, Insts
<1> SUFFICES ASSUME ~disturbed' PROVE OneWay' /\ Shows'
  BY DEF Lone
<1>1. CASE ProcessDies
  <2>1. /\ \A i \in Insts : queue'[i] = <<>> /\ job'[i] = 0
        /\ asking' = FALSE /\ isProcessing' = FALSE /\ news' = FALSE
    BY <1>1 DEF ProcessDies, NoneOf
  <2>2. \A i \in Insts : ~Busy(i)' /\ Len(queue'[i]) <= 1
    BY <2>1 DEF Busy, Working
  <2>3. QED BY <2>1, <2>2 DEF OneWay, Shows, Busy
<1>2. CASE Recreate
  <2>1. /\ ~asking /\ \A i \in Insts : job[i] = 0 /\ queue[i] = <<>>
        /\ asking' = FALSE /\ isProcessing' = FALSE /\ news' = FALSE
        /\ UNCHANGED <<job, queue, over>>
    BY <1>2, Zenon DEF Recreate, jobVars
  <2>2. \A i \in Insts : ~Busy(i)' /\ Len(queue'[i]) <= 1
    BY <2>1 DEF Busy, Working
  <2>3. QED BY <2>1, <2>2 DEF OneWay, Shows, Busy
<1> SUFFICES ASSUME ~ProcessDies, ~Recreate PROVE OneWay' /\ Shows'
  BY <1>1, <1>2
<1>3. disturbed' = disturbed
  BY DEF Next, Screen, PressStart, Denied, Receive, Granted, PressStop, Hide, Show, Looper, Take,
         Finish, Stopped, StopSelf, vars, screenVars, asides
<1>4. OneWay /\ Shows
  BY <1>3 DEF Lone
<1>5. ASSUME UNCHANGED <<queue, job, over>> PROVE \A i \in Insts : Busy(i)' <=> Busy(i)
  BY <1>5 DEF Busy, Working
<1>6. ASSUME UNCHANGED <<queue, job, over, asking>> PROVE OneWay'
  BY <1>4, <1>6 DEF OneWay, Busy, Working
<1>7. CASE PressStart
  <2>1. /\ ~isProcessing /\ ~asking /\ ~news /\ \A i \in Insts : ~Busy(i)
    BY <1>4, <1>7 DEF PressStart, Shows
  <2>2. /\ asking' = TRUE /\ isProcessing' = TRUE /\ news' = news /\ button' = "stop"
        /\ UNCHANGED <<queue, job, over>>
    BY <1>7 DEF PressStart, jobVars
  <2>3. \A i \in Insts : ~Busy(i)'
    BY <1>5, <2>1, <2>2
  <2>4. OneWay'
    BY <1>4, <2>2, <2>3 DEF OneWay, Busy, Working
  <2>5. QED BY <2>1, <2>2, <2>4 DEF Shows
<1>8. CASE Denied
  <2>1. /\ ~news /\ \A i \in Insts : ~Busy(i)
    BY <1>4, <1>8 DEF Denied, OneWay, Shows
  <2>2. /\ asking' = FALSE /\ isProcessing' = FALSE /\ news' = news
        /\ UNCHANGED <<queue, job, over>>
    BY <1>8 DEF Denied, BackToStart, jobVars
  <2>3. \A i \in Insts : ~Busy(i)'
    BY <1>5, <2>1, <2>2
  <2>4. OneWay'
    BY <1>4, <2>2, <2>3 DEF OneWay, Busy, Working
  <2>5. QED BY <2>1, <2>2, <2>3, <2>4 DEF Shows
<1>9. CASE Receive
  <2>1. /\ ~asking /\ \A i \in Insts : ~Busy(i)
    BY <1>4, <1>9 DEF Receive, Shows
  <2>2. /\ asking' = asking /\ isProcessing' = FALSE /\ news' = FALSE
        /\ UNCHANGED <<queue, job, over>>
    BY <1>9 DEF Receive, BackToStart, jobVars
  <2>3. QED BY <1>5, <1>6, <2>1, <2>2 DEF Shows
<1>10. CASE Granted
  <2>1. (IF svc = 0 THEN made + 1 ELSE svc) \in Insts
    BY <1>0, <1>10 DEF Granted, Made
  <2>2. PICK i \in Insts : queue' = [queue EXCEPT ![i] = Append(@, presses)]
    BY <1>10, <2>1 DEF Granted
  <2>3. /\ asking' = FALSE /\ UNCHANGED <<job, over, isProcessing, news, button>>
        /\ \A j \in Insts : ~Busy(j)
        /\ isProcessing /\ ~news
    BY <1>4, <1>10 DEF Granted, OneWay, Shows
  <2>4. /\ \A j \in Insts : ~Working(j)' /\ queue[j] = <<>>
        /\ \A j \in Insts : j # i => queue'[j] = queue[j]
        /\ queue'[i] = Append(<<>>, presses)
    BY <1>0, <2>2, <2>3 DEF Busy, Working
  <2>5. Len(queue'[i]) <= 1 /\ Len(<<>>) <= 1
    BY <2>4
  <2>6. OneWay'
    BY <2>3, <2>4, <2>5 DEF OneWay, Busy
  <2>7. QED BY <1>4, <2>3, <2>6 DEF Shows
<1>11. CASE PressStop \/ Show \/ UNCHANGED vars
  <2>1. /\ UNCHANGED <<queue, job, over, asking, isProcessing, news>>
        /\ button' = button \/ (isProcessing => button' = "stop")
    BY <1>11 DEF PressStop, Show, Button, vars, screenVars, jobVars
  <2>2. QED BY <1>4, <1>5, <1>6, <2>1 DEF Shows
<1>12. CASE Hide
  <2>1. UNCHANGED <<queue, job, over, asking, isProcessing, button>> /\ news' = FALSE
    BY <1>12 DEF Hide, jobVars
  <2>2. QED BY <1>4, <1>5, <1>6, <2>1 DEF Shows
<1>13. ASSUME NEW i \in Insts, Take(i) PROVE OneWay' /\ Shows'
  <2>1. /\ queue[i] # <<>> /\ queue' = [queue EXCEPT ![i] = Tail(@)]
        /\ UNCHANGED <<asking, isProcessing, news, button, over>>
        /\ job[i] = 0 /\ \E n : job' = [job EXCEPT ![i] = n]
    BY <1>13 DEF Take, screenVars
  <2>2. /\ \A j \in Insts : j # i => queue'[j] = queue[j] /\ job'[j] = job[j]
        /\ queue'[i] = Tail(queue[i])
    BY <1>0, <2>1
  <2>3. queue[i] \in Seq(Starts) /\ Len(queue[i]) <= 1
    BY <1>0, <1>4 DEF OneWay
  <2>4. queue'[i] = <<>> /\ Len(queue'[i]) <= 1
    BY <2>1, <2>2, <2>3, TailOfOne
  <2>5. /\ Busy(i) /\ \A j \in Insts : j # i => (Busy(j)' <=> Busy(j))
    BY <2>1, <2>2 DEF Busy, Working
  <2>6. \A j \in Insts : Working(j)' => j = i \/ Working(j)
    BY <2>1, <2>2 DEF Working
  <2>7. OneWay'
    BY <1>4, <2>1, <2>2, <2>4, <2>5, <2>6 DEF OneWay
  <2>8. QED BY <1>4, <2>1, <2>5, <2>7 DEF Shows
<1>14. ASSUME NEW i \in Insts, Finish(i) \/ Stopped(i) PROVE OneWay' /\ Shows'
  <2>1. /\ Working(i) /\ over' = [over EXCEPT ![i] = TRUE]
        /\ UNCHANGED <<asking, isProcessing, button, job, queue>>
    BY <1>14 DEF Finish, Stopped, Ends
  <2>2. /\ Busy(i) /\ queue[i] = <<>> /\ ~asking
        /\ \A j \in Insts : j # i => ~Busy(j)
        /\ isProcessing
    BY <1>4, <2>1 DEF OneWay, Shows, Busy
  <2>3. \A j \in Insts : ~Busy(j)'
    BY <1>0, <2>1, <2>2 DEF Busy, Working
  <2>4. OneWay'
    BY <1>4, <2>1, <2>3 DEF OneWay, Busy
  <2>5. QED BY <1>4, <2>1, <2>2, <2>3, <2>4 DEF Shows
<1>15. ASSUME NEW i \in Insts, StopSelf(i) PROVE OneWay' /\ Shows'
  <2>1. /\ over[i] /\ over' = [over EXCEPT ![i] = FALSE] /\ job' = [job EXCEPT ![i] = 0]
        /\ UNCHANGED <<asking, isProcessing, news, button, queue>>
    BY <1>15 DEF StopSelf, screenVars
  <2>2. \A j \in Insts : (Working(j)' <=> Working(j)) /\ (Busy(j)' <=> Busy(j))
    BY <1>0, <2>1 DEF Busy, Working
  <2>3. OneWay'
    BY <1>4, <2>1, <2>2 DEF OneWay
  <2>4. QED BY <1>4, <2>1, <2>2, <2>3 DEF Shows
<1>16. QED
  BY <1>7, <1>8, <1>9, <1>10, <1>11, <1>12, <1>13, <1>14, <1>15 DEF Next, Screen, Looper

-----------------------------------------------------------------------------
LEMMA ControlInvariant == Spec => []ControlInv
<1>1. Init => ControlInv
  BY InitControl
<1>2. ControlInv /\ [Next]_vars => ControlInv'
  <2> SUFFICES ASSUME ControlInv, [Next]_vars PROVE ControlInv'
    OBVIOUS
  <2>1. Flags /\ Data /\ OverJob
    BY Halves DEF ControlInv
  <2>2. TypeOK'
    <3>1. Flags' /\ Data' /\ OverJob'
      BY <2>1, NextFlags, NextData, NextOverJob DEF ControlInv
    <3>2. QED BY <3>1 DEF Flags, Data, OverJob, TypeOK
  <2>3. QED BY <2>2, NextMade, NextOrdered, NextLastGiven, NextLone DEF ControlInv
<1>3. QED BY <1>1, <1>2, PTL DEF Spec

\* All variables have their types, for any number of presses of Start.
THEOREM ControlTypes == Spec => []TypeOK
<1>1. ControlInv => TypeOK
  BY DEF ControlInv
<1>2. QED BY <1>1, ControlInvariant, PTL

\* Two jobs never work at the same time, unless the screen was recreated under one.
THEOREM OneJobOnly == Spec => []OneJob
<1>1. ControlInv => OneJob
  <2> SUFFICES ASSUME ControlInv, ~disturbed
               PROVE  Cardinality({i \in Insts : Working(i)}) <= 1
    BY DEF OneJob
  <2> DEFINE W == {i \in Insts : Working(i)}
  <2>1. \A i, j \in W : i = j
    BY DEF ControlInv, Lone, OneWay, Busy
  <2>2. CASE W = {}
    BY <2>2, FS_EmptySet
  <2>3. CASE W # {}
    <3>1. PICK i \in W : W = {i}
      BY <2>1, <2>3
    <3>2. Cardinality({i}) = 1
      BY FS_Singleton
    <3>3. QED BY <3>1, <3>2
  <2>4. QED BY <2>2, <2>3
<1>2. QED BY <1>1, ControlInvariant, PTL

\* No start command reaches an instance in the middle of a job, with the same
\* exception.
THEOREM NoStartInJob == Spec => []NoStartDuringJob
<1>1. ControlInv => NoStartDuringJob
  BY DEF ControlInv, Lone, OneWay, NoStartDuringJob
<1>2. QED BY <1>1, ControlInvariant, PTL

\* stopSelf(startId) never destroys a service to which another command was given,
\* whatever the screen does: the id it compares is that of the last command.
THEOREM CommandsKept == Spec => NoCommandDropped
<1> DEFINE Step == \A i \in Insts : Looper(i) /\ svc = i /\ svc' = 0 => queue[i] = <<>>
<1>1. ControlInv /\ [Next]_vars => [Step]_vars
  <2> SUFFICES ASSUME ControlInv, NEW i \in Insts, Looper(i), svc = i, svc' = 0,
                      queue[i] # <<>>
               PROVE  FALSE
    OBVIOUS
  <2>1. i # 0 /\ queue[i] \in Seq(Starts)
    BY ControlAssumption DEF Insts, ControlInv, TypeOK
  <2>2. lastId = job[i]
    BY <2>1 DEF Looper, Take, Finish, Stopped, StopSelf
  <2>3. lastId = queue[i][Len(queue[i])]
    BY <2>1 DEF ControlInv, LastGiven
  <2>4. Len(queue[i]) \in DOMAIN queue[i]
    BY <2>1
  <2>5. job[i] < queue[i][Len(queue[i])] /\ job[i] \in Nat
    BY <2>4 DEF ControlInv, Ordered, TypeOK
  <2>6. QED BY <2>2, <2>3, <2>5
<1>2. QED BY <1>1, ControlInvariant, PTL DEF Spec, NoCommandDropped
=============================================================================
