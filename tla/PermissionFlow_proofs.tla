------------------------ MODULE PermissionFlow_proofs ------------------------
(***************************************************************************)
(* Proofs about PermissionFlow, for all devices and settings and any       *)
(* number of checks and rotations.                                         *)
(***************************************************************************)
EXTENDS PermissionFlow, SequenceTheorems, TLAPS

\* The parts of TypeOK, for provers that know either Booleans or numbers.
Flags ==
  /\ dirOk \in BOOLEAN /\ missing \in BOOLEAN /\ goOn \in BOOLEAN /\ full \in BOOLEAN
  /\ isPermissionGranted \in BOOLEAN /\ workdir \in BOOLEAN /\ loose \in BOOLEAN
  /\ misled \in BOOLEAN /\ dismissed \in BOOLEAN
Choices ==
  /\ device \in Devices
  /\ granted \in SUBSET Perms /\ rationales \in SUBSET Perms
  /\ system \in Perms \cup {None}
  /\ verdict \in {"none", "start", "refuse"}
Numbers ==
  /\ denials \in [Perms -> 0..2]
  /\ closing \in Nat /\ orphans \in Nat
  /\ checks \in 0..MaxChecks /\ turns \in 0..MaxTurns
Path ==
  /\ step \in Steps
  /\ todo \in Seq(Perms)
  /\ step \in {"wait", "woken"} => todo # <<>>

LEMMA Parts == TypeOK <=> Flags /\ Choices /\ Numbers /\ Path
<1>1. TypeOK => Flags
  BY Zenon DEF TypeOK, Flags
<1>2. TypeOK => Choices
  BY Zenon DEF TypeOK, Choices
<1>3. TypeOK => Numbers
  BY Zenon DEF TypeOK, Numbers
<1>4. TypeOK => Path
  BY Zenon DEF TypeOK, Path
<1>5. Flags /\ Choices /\ Numbers /\ Path => TypeOK
  BY Zenon DEF TypeOK, Flags, Choices, Numbers, Path
<1>6. QED BY <1>1, <1>2, <1>3, <1>4, <1>5

-----------------------------------------------------------------------------
\* What a device requires: no permission twice.
LEMMA AtMostOne ==
  ASSUME NEW S, NEW s, s = <<>> \/ \E x \in S : s = <<x>>
  PROVE  s \in Seq(S) /\ Len(s) \in 0..1 /\ DOMAIN s = 1..Len(s) /\ \A i \in DOMAIN s : s[i] \in S
<1>1. CASE s = <<>>
  BY <1>1
<1>2. ASSUME NEW x \in S, s = <<x>>
      PROVE  s \in Seq(S) /\ Len(s) = 1 /\ DOMAIN s = 1..1 /\ \A i \in DOMAIN s : s[i] \in S
  BY <1>2
<1>3. QED BY <1>1, <1>2

LEMMA SeqWider == ASSUME NEW S, NEW T, S \subseteq T, NEW s \in Seq(S) PROVE s \in Seq(T)
OBVIOUS

LEMMA RequiredType ==
  ASSUME NEW d
  PROVE  /\ Required(d) \in Seq(Perms)
         /\ \A i, j \in DOMAIN Required(d) : Required(d)[i] = Required(d)[j] => i = j
<1> DEFINE A == FileAccess(d)
           B == IF d.sdk >= 29 THEN <<"ACCESS_MEDIA_LOCATION">> ELSE <<>>
           C == IF d.sdk >= 33 THEN <<"POST_NOTIFICATIONS">> ELSE <<>>
           F == Perms \ {"ACCESS_MEDIA_LOCATION", "POST_NOTIFICATIONS"}
<1>0. F \subseteq Perms /\ {"ACCESS_MEDIA_LOCATION"} \subseteq Perms /\ {"POST_NOTIFICATIONS"} \subseteq Perms
  BY DEF Perms
<1>1. /\ A \in Seq(Perms) /\ Len(A) \in 0..1
      /\ \A i \in 1..Len(A) : A[i] \notin {"ACCESS_MEDIA_LOCATION", "POST_NOTIFICATIONS"}
  <2>1. A = <<>> \/ \E x \in F : A = <<x>>
    BY DEF FileAccess, Perms
  <2>2. A \in Seq(F) /\ Len(A) \in 0..1 /\ \A i \in 1..Len(A) : A[i] \in F
    BY <2>1, AtMostOne
  <2>3. QED BY <1>0, <2>2, SeqWider
<1>2. /\ B \in Seq(Perms) /\ Len(B) \in 0..1
      /\ \A i \in 1..Len(B) : B[i] = "ACCESS_MEDIA_LOCATION"
  <2>1. B = <<>> \/ \E x \in {"ACCESS_MEDIA_LOCATION"} : B = <<x>>
    OBVIOUS
  <2>2. /\ B \in Seq({"ACCESS_MEDIA_LOCATION"}) /\ Len(B) \in 0..1
        /\ \A i \in 1..Len(B) : B[i] \in {"ACCESS_MEDIA_LOCATION"}
    BY <2>1, AtMostOne
  <2>3. QED BY <1>0, <2>2, SeqWider
<1>3. /\ C \in Seq(Perms) /\ Len(C) \in 0..1
      /\ \A i \in 1..Len(C) : C[i] = "POST_NOTIFICATIONS"
  <2>1. C = <<>> \/ \E x \in {"POST_NOTIFICATIONS"} : C = <<x>>
    OBVIOUS
  <2>2. /\ C \in Seq({"POST_NOTIFICATIONS"}) /\ Len(C) \in 0..1
        /\ \A i \in 1..Len(C) : C[i] \in {"POST_NOTIFICATIONS"}
    BY <2>1, AtMostOne
  <2>3. QED BY <1>0, <2>2, SeqWider
<1>4. Required(d) = (A \o B) \o C
  BY DEF Required
<1> HIDE DEF A, B, C
<1> DEFINE AB == A \o B
<1>5. /\ AB \in Seq(Perms) /\ Len(AB) = Len(A) + Len(B)
      /\ \A i \in 1..Len(AB) : AB[i] = IF i <= Len(A) THEN A[i] ELSE B[i - Len(A)]
  BY <1>1, <1>2, ConcatProperties, SMTT(30)
<1> HIDE DEF AB
<1> DEFINE R == AB \o C
<1>6. /\ R \in Seq(Perms) /\ Len(R) = Len(AB) + Len(C)
      /\ \A i \in 1..Len(R) : R[i] = IF i <= Len(AB) THEN AB[i] ELSE C[i - Len(AB)]
  BY <1>3, <1>5, ConcatProperties, SMTT(30)
<1>7. Required(d) = R
  BY <1>4 DEF AB
<1> HIDE DEF R
<1>8. DOMAIN R = 1..Len(R)
  BY <1>6, LenProperties
<1> DEFINE a == Len(A)  b == Len(B)  c == Len(C)  ab == Len(AB)  r == Len(R)
<1>81. a \in 0..1 /\ b \in 0..1 /\ c \in 0..1 /\ ab = a + b /\ r = ab + c
  BY <1>1, <1>2, <1>3, <1>5, <1>6
<1> HIDE DEF a, b, c, ab, r
<1>9. ASSUME NEW i \in 1..Len(R), NEW j \in 1..Len(R), R[i] = R[j]
      PROVE  i = j
  <2>1. ASSUME NEW k \in 1..Len(R)
        PROVE  \/ k = 1 /\ Len(A) = 1 /\ R[k] = A[1]
               \/ k = Len(A) + 1 /\ R[k] = "ACCESS_MEDIA_LOCATION"
               \/ k = Len(AB) + 1 /\ R[k] = "POST_NOTIFICATIONS"
    <3>1. CASE k <= Len(A)
      <4>1. k \in 1..Len(AB) /\ k = 1 /\ Len(A) = 1
        BY <1>1, <1>2, <1>5, <3>1
      <4>2. QED BY <1>5, <1>6, <3>1, <4>1
    <3>2. CASE k > Len(A) /\ k <= Len(AB)
      <4>1. k = Len(A) + 1 /\ k - Len(A) = 1 /\ 1 \in 1..Len(B) /\ k \in 1..Len(AB)
        BY <1>1, <1>2, <1>5, <3>2
      <4>2. AB[k] = B[1] /\ R[k] = AB[k]
        BY <1>1, <1>5, <1>6, <3>2, <4>1
      <4>3. QED BY <1>2, <4>1, <4>2
    <3>3. CASE k > Len(AB)
      <4>1. k = Len(AB) + 1 /\ k - Len(AB) = 1 /\ 1 \in 1..Len(C)
        <5>1. k \in 1..r /\ k > ab
          BY <3>3 DEF r, ab
        <5>2. k = ab + 1 /\ k - ab = 1 /\ 1 \in 1..c
          BY <1>81, <5>1
        <5>3. QED BY <5>2 DEF ab, c
      <4>2. R[k] = C[1]
        BY <1>6, <3>3, <4>1
      <4>3. QED BY <1>3, <4>1, <4>2
    <3>4. QED BY <1>1, <1>2, <1>3, <1>5, <1>6, <3>1, <3>2, <3>3
  <2>2. Len(A) = 1 => A[1] \notin {"ACCESS_MEDIA_LOCATION", "POST_NOTIFICATIONS"}
    BY <1>1
  <2>3. QED BY <1>9, <2>1, <2>2
<1>10. QED BY <1>6, <1>7, <1>8, <1>9

-----------------------------------------------------------------------------
\* The types.
LEMMA NotifyFlags ==
  ASSUME NEW own, misled \in BOOLEAN, loose \in BOOLEAN, Notify(own)
  PROVE  misled' \in BOOLEAN /\ loose' \in BOOLEAN
BY DEF Notify, orphanVars

LEMMA NotifyNumbers ==
  ASSUME NEW own, orphans \in Nat, Notify(own)
  PROVE  orphans' \in Nat
BY DEF Notify, orphanVars

LEMMA NotifyPath ==
  ASSUME NEW own, Path, Notify(own), todo' = todo
  PROVE  Path'
<1>1. CASE step \in {"wait", "dirWait"} /\ step' = Woken
  BY <1>1 DEF Path, Steps, Woken
<1>2. CASE step' = step
  BY <1>2 DEF Path
<1>3. QED BY <1>1, <1>2 DEF Notify

LEMMA NextFlags == ASSUME Flags, [Next]_vars PROVE Flags'
<1> USE DEF checkVars, screenVars, systemVars, orphanVars, seenVars, countVars
<1> DEFINE Notified == misled' \in BOOLEAN /\ loose' \in BOOLEAN
<1>1. CASE PressStart \/ PressSync
  BY <1>1, Zenon DEF Flags, PressStart, PressSync, Press
<1>2. CASE Granted \/ Explain \/ Request \/ RequestWhileAsking
  <2>1. CASE Granted
    BY <2>1, Zenon DEF Flags, Granted
  <2>2. CASE Explain
    BY <2>2, Zenon DEF Flags, Explain
  <2>3. CASE Request
    BY <2>3, Zenon DEF Flags, Request
  <2>4. CASE RequestWhileAsking
    BY <2>4 DEF Flags, RequestWhileAsking
  <2>5. QED BY <1>2, <2>1, <2>2, <2>3, <2>4
<1>3. CASE Judge \/ ToDir
  BY <1>3, Zenon DEF Flags, Judge, ToDir
<1>4. CASE LookAtDir \/ LookAgain
  BY <1>4 DEF Flags, LookAtDir, LookAgain, End
<1>5. ASSUME NEW p \in Perms, Ok(p) \/ OkWhileAsking(p) \/ Cancel(p) \/ Deny(p) \/ Dismiss(p)
      PROVE Flags'
  <2>1. CASE Ok(p) \/ Dismiss(p)
    BY <2>1, Zenon DEF Flags, Ok, Dismiss
  <2>2. CASE OkWhileAsking(p)
    <3>1. Notified
      BY <2>2, NotifyFlags DEF OkWhileAsking, Flags
    <3>2. QED BY <2>2, <3>1, Zenon DEF Flags, OkWhileAsking
  <2>3. CASE Cancel(p)
    <3>1. Notified
      BY <2>3, NotifyFlags DEF Cancel, Flags
    <3>2. QED BY <2>3, <3>1, Zenon DEF Flags, Cancel
  <2>4. CASE Deny(p)
    <3>1. Notified
      BY <2>4, NotifyFlags DEF Deny, Flags
    <3>2. QED BY <2>4, <3>1, Zenon DEF Flags, Deny
  <2>5. QED BY <1>5, <2>1, <2>2, <2>3, <2>4
<1>6. CASE SystemAnswers
  <2>1. Notified
    BY <1>6, NotifyFlags DEF SystemAnswers, Flags
  <2>2. QED BY <1>6, <2>1, Zenon DEF Flags, SystemAnswers, Answers
<1>7. CASE LeaveWorkdir
  BY <1>7 DEF Flags, LeaveWorkdir
<1>8. CASE Destroyed
  <2>1. Notified
    BY <1>8, NotifyFlags DEF Destroyed, Flags
  <2>2. QED BY <1>8, <2>1, Zenon DEF Flags, Destroyed
<1>9. CASE TurnWorkdir
  <2>1. Notified
    BY <1>9, NotifyFlags DEF TurnWorkdir, Flags
  <2>2. QED BY <1>9, <2>1, Zenon DEF Flags, TurnWorkdir
<1>10. CASE Turn
  BY <1>10, Zenon DEF Flags, Turn
<1>11. CASE Crash
  BY <1>11, Zenon DEF Flags, Crash
<1>12. CASE UNCHANGED vars
  BY <1>12, Zenon DEF Flags, vars
<1>13. QED
  BY <1>1, <1>2, <1>3, <1>4, <1>5, <1>6, <1>7, <1>8, <1>9, <1>10, <1>11, <1>12
  DEF Next, User, Thread

LEMMA NextChoices == ASSUME Choices, Path, [Next]_vars PROVE Choices'
<1> USE DEF checkVars, screenVars, systemVars, orphanVars, seenVars, countVars, Choices
<1>0. todo # <<>> => Head(todo) \in Perms
  BY DEF Path
<1>1. CASE PressStart \/ PressSync
  BY <1>1, Zenon DEF PressStart, PressSync, Press
<1>2. CASE Thread
  <2>1. CASE Granted \/ RequestWhileAsking
    BY <2>1, Zenon DEF Granted, RequestWhileAsking
  <2>2. CASE Explain \/ Request
    BY <1>0, <2>2 DEF Explain, Request, MustAsk
  <2>3. CASE Judge \/ ToDir
    BY <2>3, Zenon DEF Judge, ToDir
  <2>4. CASE LookAtDir \/ LookAgain
    BY <2>4 DEF LookAtDir, LookAgain, End
  <2>5. QED BY <1>2, <2>1, <2>2, <2>3, <2>4 DEF Thread
<1>3. ASSUME NEW p \in Perms, Ok(p) \/ OkWhileAsking(p) \/ Cancel(p) \/ Deny(p) \/ Dismiss(p)
      PROVE Choices'
  BY <1>3 DEF Ok, OkWhileAsking, Cancel, Deny, Dismiss
<1>4. CASE SystemAnswers
  BY <1>4 DEF SystemAnswers, Answers
<1>5. CASE LeaveWorkdir \/ Destroyed \/ TurnWorkdir
  BY <1>5 DEF LeaveWorkdir, Destroyed, TurnWorkdir
<1>6. CASE Turn \/ Crash
  BY <1>6 DEF Turn, Crash
<1>7. CASE UNCHANGED vars
  BY <1>7, Zenon DEF vars
<1>8. QED BY <1>1, <1>2, <1>3, <1>4, <1>5, <1>6, <1>7 DEF Next, User

LEMMA NextNumbers == ASSUME Choices, Numbers, [Next]_vars PROVE Numbers'
<1> USE DEF checkVars, screenVars, systemVars, orphanVars, seenVars, countVars, Numbers
<1>0. MaxChecks \in Nat /\ MaxTurns \in Nat
  BY PermissionAssumption
<1>1. CASE PressStart \/ PressSync
  BY <1>0, <1>1 DEF PressStart, PressSync, Press
<1>2. CASE Thread
  BY <1>2 DEF Thread, Granted, RequestWhileAsking, Explain, Request, Judge, ToDir, LookAtDir,
              LookAgain
<1>3. ASSUME NEW p \in Perms, Ok(p) \/ OkWhileAsking(p) \/ Cancel(p) \/ Deny(p) \/ Dismiss(p)
      PROVE Numbers'
  BY <1>3, NotifyNumbers DEF Ok, OkWhileAsking, Cancel, Deny, Dismiss
<1>4. CASE SystemAnswers
  <2>1. orphans' \in Nat
    BY <1>4, NotifyNumbers DEF SystemAnswers
  <2>2. denials' \in [Perms -> 0..2]
    BY <1>4 DEF SystemAnswers, Answers, Min2, Choices
  <2>3. QED BY <1>4, <2>1, <2>2 DEF SystemAnswers
<1>5. CASE LeaveWorkdir \/ Destroyed \/ TurnWorkdir
  <2>1. CASE LeaveWorkdir
    BY <2>1 DEF LeaveWorkdir
  <2>2. CASE Destroyed
    BY <2>2, NotifyNumbers DEF Destroyed
  <2>3. CASE TurnWorkdir
    <3>1. orphans' \in Nat
      BY <2>3, NotifyNumbers DEF TurnWorkdir
    <3>2. turns < MaxTurns /\ turns' = turns + 1 /\ UNCHANGED <<denials, closing, checks>>
      BY <2>3 DEF TurnWorkdir
    <3>3. QED BY <1>0, <3>1, <3>2
  <2>4. QED BY <1>5, <2>1, <2>2, <2>3
<1>6. CASE Turn
  <2>1. /\ turns < MaxTurns /\ turns' = turns + 1 /\ orphans' \in {orphans, orphans + 1}
        /\ UNCHANGED <<denials, closing, checks>>
    BY <1>6 DEF Turn
  <2>2. QED BY <1>0, <2>1
<1>7. CASE Crash
  BY <1>7 DEF Crash
<1>8. CASE UNCHANGED vars
  BY <1>8, Zenon DEF vars
<1>9. QED BY <1>1, <1>2, <1>3, <1>4, <1>5, <1>6, <1>7, <1>8 DEF Next, User

LEMMA NextPath == ASSUME Path, [Next]_vars PROVE Path'
<1> USE DEF checkVars, screenVars, systemVars, orphanVars, seenVars, countVars
<1>0. /\ <<>> \in Seq(Perms) /\ Required(device) \in Seq(Perms)
      /\ todo # <<>> => Tail(todo) \in Seq(Perms)
  BY RequiredType DEF Path
<1>1. CASE PressStart \/ PressSync
  BY <1>0, <1>1 DEF PressStart, PressSync, Press, Path, Steps
<1>2. CASE Thread
  BY <1>0, <1>2 DEF Thread, Granted, MustNotAsk, RequestWhileAsking, Explain, Request, MustAsk,
                    Judge, ToDir, LookAtDir, LookAgain, End, Path, Steps
<1>3. ASSUME NEW p \in Perms, Ok(p) \/ OkWhileAsking(p) \/ Cancel(p) \/ Deny(p) \/ Dismiss(p)
      PROVE Path'
  <2>1. CASE Ok(p) \/ Dismiss(p)
    BY <2>1, Zenon DEF Ok, Dismiss, Path
  <2>2. todo' = todo
    BY <1>3, Zenon DEF Ok, OkWhileAsking, Cancel, Deny, Dismiss
  <2>3. QED BY <1>3, <2>1, <2>2, NotifyPath DEF OkWhileAsking, Cancel, Deny
<1>4. CASE SystemAnswers
  BY <1>4, NotifyPath DEF SystemAnswers
<1>5. CASE LeaveWorkdir \/ Destroyed \/ TurnWorkdir
  <2>1. CASE LeaveWorkdir
    BY <2>1, Zenon DEF LeaveWorkdir, Path
  <2>2. QED BY <1>5, <2>1, NotifyPath DEF Destroyed, TurnWorkdir
<1>6. CASE Turn \/ Crash
  BY <1>0, <1>6 DEF Turn, Crash, Path, Steps
<1>7. CASE UNCHANGED vars
  BY <1>7, Zenon DEF vars, Path
<1>8. QED BY <1>1, <1>2, <1>3, <1>4, <1>5, <1>6, <1>7 DEF Next, User

LEMMA NextTypeOK == ASSUME TypeOK, [Next]_vars PROVE TypeOK'
<1>1. Flags' /\ Choices' /\ Numbers' /\ Path'
  BY Parts, NextFlags, NextChoices, NextNumbers, NextPath
<1>2. QED
  BY <1>1, Zenon DEF TypeOK, Flags, Choices, Numbers, Path

LEMMA InitTypeOK == ASSUME Init PROVE TypeOK
<1>1. Flags /\ Choices
  BY DEF Init, Flags, Choices
<1>2. Numbers /\ Path
  BY PermissionAssumption DEF Init, Numbers, Path, Steps
<1>3. QED BY <1>1, <1>2, Parts

\* TypeOK holds for all devices and settings, and any number of checks and
\* rotations.
THEOREM PermissionTypes == Spec => []TypeOK
<1>1. Init => TypeOK
  BY InitTypeOK
<1>2. TypeOK /\ [Next]_vars => TypeOK'
  BY NextTypeOK
<1>3. QED BY <1>1, <1>2, PTL DEF Spec

-----------------------------------------------------------------------------
\* A waiting thread is never forgotten.

\* After sync.notify() this thread waits on only if an orphan was woken instead.
LEMMA NotifyWakes ==
  ASSUME NEW own, Notify(own)
  PROVE  step' \in {"wait", "dirWait"} => loose'
BY DEF Notify, Woken

LEMMA NextWaker == ASSUME TypeOK, Waker, [Next]_vars PROVE Waker'
<1> USE DEF checkVars, screenVars, systemVars, orphanVars, seenVars, countVars, Waker, Covered
<1>0. None \notin Perms /\ closing \in Nat /\ (todo # <<>> => Head(todo) \in Perms)
  BY PermissionAssumption DEF TypeOK
<1>1. CASE PressStart \/ PressSync
  BY <1>1 DEF PressStart, PressSync, Press
<1>2. CASE Thread
  <2>1. CASE Granted \/ ToDir \/ Judge
    BY <2>1 DEF Granted, MustNotAsk, ToDir, Judge
  <2>2. CASE Explain
    BY <2>2 DEF Explain
  <2>3. CASE Request \/ RequestWhileAsking
    BY <1>0, <2>3 DEF Request, RequestWhileAsking, MustAsk
  <2>4. CASE LookAtDir \/ LookAgain
    BY <2>4 DEF LookAtDir, LookAgain, End
  <2>5. QED BY <1>2, <2>1, <2>2, <2>3, <2>4 DEF Thread
<1>3. ASSUME NEW p \in Perms, Ok(p) PROVE Waker'
  BY <1>0, <1>3 DEF Ok
<1>4. ASSUME NEW p \in Perms, OkWhileAsking(p) \/ Cancel(p) \/ Deny(p) PROVE Waker'
  BY <1>4, NotifyWakes DEF OkWhileAsking, Cancel, Deny
<1>5. ASSUME NEW p \in Perms, Dismiss(p) PROVE Waker'
  BY <1>5 DEF Dismiss
<1>6. CASE SystemAnswers \/ Destroyed \/ TurnWorkdir
  BY <1>6, NotifyWakes DEF SystemAnswers, Destroyed, TurnWorkdir
<1>7. CASE LeaveWorkdir
  BY <1>0, <1>7 DEF LeaveWorkdir
<1>8. CASE Turn \/ Crash
  BY <1>8 DEF Turn, Crash
<1>9. CASE UNCHANGED vars
  BY <1>9 DEF vars
<1>10. QED
  BY <1>1, <1>2, <1>3, <1>4, <1>5, <1>6, <1>7, <1>8, <1>9 DEF Next, User

\* A waiting thread has somebody left to wake it, unless a dialog was dismissed or a
\* wake-up is loose.  Waker is inductive: each step that takes away what the thread
\* has asked for wakes a thread, and wakes this one unless an orphan is taken for it.
THEOREM NeverForgotten == Spec => []Waker
<1>1. Init => TypeOK /\ Waker
  BY InitTypeOK DEF Init, Waker
<1>2. TypeOK /\ Waker /\ [Next]_vars => (TypeOK /\ Waker)'
  BY NextTypeOK, NextWaker
<1>3. QED BY <1>1, <1>2, PTL DEF Spec

-----------------------------------------------------------------------------
\* The verdict is true.  The permissions are judged one after the other: those
\* that are no longer to do are judged, and one is missing exactly if hasMissing-
\* Permission says so.
Suffix(t, r) ==
  Len(t) <= Len(r) /\ \A i \in DOMAIN t : t[i] = r[i + (Len(r) - Len(t))]
Lacking(g, r, n) == \E i \in 1..n : r[i] \notin g \cup {"POST_NOTIFICATIONS"}
Judging ==
  /\ full /\ step # "idle" => Suffix(todo, Required(device))
  /\ ~full /\ step # "idle" => todo = <<>> /\ ~missing
  /\ step \in {"dir", "dirWait", "dirWoken"} => todo = <<>>
  /\ verdict # "none" => step = "idle"
Judged ==
  full /\ step # "idle" =>
    (missing <=> Lacking(granted, Required(device), Len(Required(device)) - Len(todo)))

\* While the thread runs nothing asks the user for anything; while it waits, only
\* what it has asked for itself.
Alone ==
  /\ step \in {"check", "woken", "dir", "dirWoken"} \/ verdict # "none" => ~Covered
  /\ step \in {"check", "woken"} => ~goOn
  /\ step = "wait" => /\ ~workdir
                      /\ rationales \subseteq {Head(todo)} /\ system \in {None, Head(todo)}
                      /\ Covered => Head(todo) \notin granted /\ ~goOn
                      /\ system # None => rationales = {}
  /\ step = "dirWait" => rationales = {} /\ system = None
  /\ step = "woken" => (isPermissionGranted <=> Head(todo) \in granted)

VerdictInv == TypeOK /\ Judging /\ (~misled => Judged /\ Alone) /\ VerdictTrue

LEMMA SuffixHead ==
  ASSUME NEW t \in Seq(Perms), NEW r \in Seq(Perms), Suffix(t, r), t # <<>>
  PROVE  /\ Len(r) - Len(t) \in Nat /\ Len(r) - Len(t) + 1 \in 1..Len(r)
         /\ Head(t) = r[Len(r) - Len(t) + 1]
         /\ Suffix(Tail(t), r)
         /\ Len(r) - Len(Tail(t)) = Len(r) - Len(t) + 1
<1>1. Len(t) \in Nat \ {0} /\ Len(r) \in Nat /\ Len(t) <= Len(r) /\ DOMAIN t = 1..Len(t)
  BY EmptySeq, LenProperties DEF Suffix
<1>2. /\ Tail(t) \in Seq(Perms) /\ Len(Tail(t)) = Len(t) - 1
      /\ \A i \in 1..Len(Tail(t)) : Tail(t)[i] = t[i + 1]
  BY HeadTailProperties
<1>3. DOMAIN Tail(t) = 1..(Len(t) - 1)
  BY <1>2, LenProperties
<1>4. Head(t) = t[1] /\ t[1] = r[1 + (Len(r) - Len(t))]
  BY <1>1 DEF Suffix
<1>5. ASSUME NEW i \in DOMAIN Tail(t)
      PROVE  Tail(t)[i] = r[i + (Len(r) - Len(Tail(t)))]
  <2>1. i \in 1..(Len(t) - 1) /\ i + 1 \in DOMAIN t
    BY <1>1, <1>3
  <2>2. Tail(t)[i] = t[i + 1] /\ t[i + 1] = r[(i + 1) + (Len(r) - Len(t))]
    BY <1>2, <2>1 DEF Suffix
  <2>3. (i + 1) + (Len(r) - Len(t)) = i + (Len(r) - Len(Tail(t)))
    BY <1>1, <1>2, <2>1
  <2>4. QED BY <2>2, <2>3
<1>6. Suffix(Tail(t), r)
  BY <1>1, <1>2, <1>5 DEF Suffix
<1>7. 1 + (Len(r) - Len(t)) = Len(r) - Len(t) + 1
  BY <1>1
<1>8. QED BY <1>1, <1>2, <1>4, <1>6, <1>7

\* One more permission judged; one more granted, that is not yet judged.
LEMMA LackingNext ==
  ASSUME NEW g, NEW r, NEW n \in Nat
  PROVE  Lacking(g, r, n + 1) <=> Lacking(g, r, n) \/ r[n + 1] \notin g \cup {"POST_NOTIFICATIONS"}
BY DEF Lacking

LEMMA LackingGrant ==
  ASSUME NEW g, NEW r \in Seq(Perms), NEW n \in Nat, n + 1 \in 1..Len(r),
         \A i, j \in DOMAIN r : r[i] = r[j] => i = j
  PROVE  Lacking(g \cup {r[n + 1]}, r, n) <=> Lacking(g, r, n)
<1>1. \A i \in 1..n : i \in DOMAIN r /\ i # n + 1 /\ n + 1 \in DOMAIN r
  BY LenProperties
<1>2. \A i \in 1..n : r[i] # r[n + 1]
  BY <1>1
<1>3. QED BY <1>2 DEF Lacking

LEMMA NothingLacks ==
  AllThere <=>
    dirOk /\ (full => ~Lacking(granted, Required(device), Len(Required(device))))
<1>1. DOMAIN Required(device) = 1..Len(Required(device))
  BY RequiredType, LenProperties
<1>2. QED BY <1>1 DEF AllThere, Lacking

LEMMA NotifySteps ==
  ASSUME NEW own, Notify(own)
  PROVE  \/ step' = step
         \/ step = "wait" /\ step' = "woken"
         \/ step = "dirWait" /\ step' = "dirWoken"
<1>1. CASE step = "wait"
  BY <1>1 DEF Notify, Woken
<1>2. CASE step = "dirWait"
  BY <1>2 DEF Notify, Woken
<1>3. CASE step \notin {"wait", "dirWait"}
  BY <1>3 DEF Notify
<1>4. QED BY <1>1, <1>2, <1>3

LEMMA NextJudging == ASSUME TypeOK, Judging, [Next]_vars PROVE Judging'
<1> USE DEF checkVars, screenVars, systemVars, orphanVars, seenVars, countVars
<1>0. todo \in Seq(Perms) /\ Required(device) \in Seq(Perms) /\ device' = device
  <2>1. device' = device
    BY DEF Next, Thread, User, vars, PressStart, PressSync, Press, Granted, Explain, Request,
           RequestWhileAsking, Judge, ToDir, LookAtDir, LookAgain, Ok, OkWhileAsking, Cancel, Deny,
           Dismiss, SystemAnswers, LeaveWorkdir, Destroyed, TurnWorkdir, Turn, Crash
  <2>2. QED BY <2>1, RequiredType DEF TypeOK
<1>1. CASE PressStart
  <2>1. Suffix(Required(device), Required(device))
    BY <1>0 DEF Suffix
  <2>2. QED BY <1>0, <1>1, <2>1 DEF PressStart, Press, Judging
<1>2. CASE PressSync
  BY <1>2 DEF PressSync, Press, Judging
<1>3. CASE Granted \/ Judge
  <2>1. /\ todo # <<>> /\ todo' = Tail(todo) /\ step # "idle" /\ step' = "check"
        /\ UNCHANGED <<full, verdict>>
    BY <1>3 DEF Granted, MustNotAsk, Judge, TypeOK
  <2>2. full /\ verdict = "none" /\ Suffix(todo, Required(device))
    BY <2>1 DEF Judging, TypeOK
  <2>3. Suffix(todo', Required(device))
    BY <1>0, <2>1, <2>2, SuffixHead
  <2>4. QED BY <1>0, <2>1, <2>2, <2>3 DEF Judging
<1>4. CASE Explain \/ Request \/ RequestWhileAsking
  BY <1>0, <1>4 DEF Explain, Request, RequestWhileAsking, MustAsk, Judging
<1>5. CASE ToDir \/ LookAtDir \/ LookAgain
  BY <1>0, <1>5 DEF ToDir, LookAtDir, LookAgain, End, Judging
<1>6. ASSUME NEW own, Notify(own), UNCHANGED <<todo, missing, full, verdict>>
      PROVE  Judging'
  <2>1. \/ step' = step
        \/ step = "wait" /\ step' = "woken"
        \/ step = "dirWait" /\ step' = "dirWoken"
    BY <1>6, NotifySteps
  <2>2. QED BY <1>0, <1>6, <2>1 DEF Judging
<1>7. ASSUME NEW p \in Perms, Ok(p) \/ OkWhileAsking(p) \/ Cancel(p) \/ Deny(p) \/ Dismiss(p)
      PROVE  Judging'
  <2>1. CASE Ok(p) \/ Dismiss(p)
    BY <1>0, <2>1 DEF Ok, Dismiss, Judging
  <2>2. CASE OkWhileAsking(p) \/ Cancel(p) \/ Deny(p)
    BY <1>6, <2>2 DEF OkWhileAsking, Cancel, Deny
  <2>3. QED BY <1>7, <2>1, <2>2
<1>8. CASE SystemAnswers \/ Destroyed \/ TurnWorkdir
  <2>1. \E own : Notify(own)
    BY <1>8, Zenon DEF SystemAnswers, Destroyed, TurnWorkdir
  <2>2. UNCHANGED <<todo, missing, full, verdict>>
    BY <1>8, Zenon DEF SystemAnswers, Destroyed, TurnWorkdir
  <2>3. QED BY <1>6, <2>1, <2>2
<1>9. CASE LeaveWorkdir \/ UNCHANGED vars
  <2>1. UNCHANGED <<todo, missing, full, verdict, step>>
    BY <1>9, Zenon DEF LeaveWorkdir, vars
  <2>2. QED BY <1>0, <2>1 DEF Judging
<1>10. CASE Turn \/ Crash
  BY <1>10 DEF Turn, Crash, Judging
<1>11. QED
  BY <1>1, <1>2, <1>3, <1>4, <1>5, <1>7, <1>8, <1>9, <1>10 DEF Next, User, Thread

\* The judging of one permission, by a look or by an answer.
LEMMA NextJudged ==
  ASSUME TypeOK, Judging, Judging', Judged, Alone, [Next]_vars, ~misled, ~misled'
  PROVE  Judged'
<1> USE DEF checkVars, screenVars, systemVars, orphanVars, seenVars, countVars
<1> DEFINE R == Required(device)  n == Len(R) - Len(todo)
<1>0. /\ todo \in Seq(Perms) /\ R \in Seq(Perms)
      /\ missing \in BOOLEAN /\ goOn \in BOOLEAN /\ isPermissionGranted \in BOOLEAN
      /\ \A i, j \in DOMAIN R : R[i] = R[j] => i = j
  BY RequiredType DEF TypeOK
<1>1. CASE PressStart \/ PressSync
  <2>1. ~Lacking(granted, R, Len(R) - Len(R))
    BY <1>0 DEF Lacking
  <2>2. QED BY <1>0, <1>1, <2>1 DEF PressStart, PressSync, Press, Judged, Judging
<1>2. CASE Granted \/ Judge
  <2>1. /\ todo # <<>> /\ full /\ step # "idle" /\ todo' = Tail(todo)
        /\ UNCHANGED <<device, granted>>
        /\ (missing <=> Lacking(granted, R, n))
    BY <1>2 DEF Granted, MustNotAsk, Judge, Judging, Judged, TypeOK
  <2>2. /\ n \in Nat /\ Head(todo) = R[n + 1] /\ Len(R) - Len(todo') = n + 1
    BY <1>0, <2>1, SuffixHead DEF Judging
  <2>3. missing' <=> missing \/ R[n + 1] \notin granted \cup {"POST_NOTIFICATIONS"}
    <3>1. CASE Granted
      BY <2>2, <3>1 DEF Granted, MustNotAsk
    <3>2. CASE Judge
      <4>1. step = "woken" /\ ~goOn /\ (isPermissionGranted <=> Head(todo) \in granted)
        BY <3>2 DEF Judge, Alone
      <4>2. missing' <=> missing \/ ~Passed(Head(todo))
        BY <3>2 DEF Judge
      <4>3. Passed(Head(todo)) <=> Head(todo) \in granted \cup {"POST_NOTIFICATIONS"}
        BY <4>1 DEF Passed
      <4>4. QED BY <2>2, <4>2, <4>3
    <3>3. QED BY <1>2, <3>1, <3>2
  <2>4. Lacking(granted, R, n + 1)
          <=> Lacking(granted, R, n) \/ R[n + 1] \notin granted \cup {"POST_NOTIFICATIONS"}
    BY <2>2, LackingNext
  <2>5. missing' <=> Lacking(granted', Required(device'), Len(Required(device')) - Len(todo'))
    BY <2>1, <2>2, <2>3, <2>4
  <2>6. QED BY <2>5 DEF Judged
<1>3. CASE SystemAnswers /\ step = "wait"
  <2>1. /\ full /\ todo # <<>> /\ UNCHANGED <<device, todo, missing, full>>
        /\ (missing <=> Lacking(granted, R, n))
        /\ granted' \in {granted, granted \cup {Head(todo)}}
    BY <1>3 DEF SystemAnswers, Answers, Judging, Judged, Alone, TypeOK
  <2>2. n \in Nat /\ n + 1 \in 1..Len(R) /\ Head(todo) = R[n + 1]
    BY <1>0, <1>3, <2>1, SuffixHead DEF Judging
  <2>3. Lacking(granted \cup {R[n + 1]}, R, n) <=> Lacking(granted, R, n)
    BY <1>0, <2>2, LackingGrant
  <2>4. missing' <=> Lacking(granted', Required(device'), Len(Required(device')) - Len(todo'))
    BY <2>1, <2>2, <2>3
  <2>5. QED BY <2>4 DEF Judged
<1>4. ASSUME UNCHANGED <<device, granted, todo, missing, full>>,
             step' # "idle" => step # "idle"
      PROVE  Judged'
  BY <1>4 DEF Judged
<1>5. CASE SystemAnswers /\ step # "wait"
  <2>1. system # None /\ step \in Steps
    BY <1>5 DEF SystemAnswers, Answers, TypeOK
  <2>2. step = "idle"
    BY <1>5, <2>1 DEF Alone, Covered, Steps
  <2>3. step' = "idle"
    BY <1>5, <2>2, NotifySteps DEF SystemAnswers
  <2>4. QED BY <2>3 DEF Judged
<1>6. CASE Explain \/ Request \/ RequestWhileAsking \/ ToDir \/ LookAtDir \/ LookAgain
  BY <1>4, <1>6 DEF Explain, Request, RequestWhileAsking, MustAsk, ToDir, LookAtDir, LookAgain, End
<1>7. ASSUME NEW p \in Perms, Ok(p) \/ OkWhileAsking(p) \/ Cancel(p) \/ Deny(p) \/ Dismiss(p)
      PROVE  Judged'
  <2>1. CASE Ok(p) \/ Dismiss(p)
    BY <1>4, <2>1 DEF Ok, Dismiss
  <2>2. CASE OkWhileAsking(p) \/ Cancel(p) \/ Deny(p)
    BY <1>4, <2>2, NotifySteps DEF OkWhileAsking, Cancel, Deny
  <2>3. QED BY <1>7, <2>1, <2>2
<1>8. CASE Destroyed \/ TurnWorkdir
  <2>1. \E own : Notify(own)
    BY <1>8, Zenon DEF Destroyed, TurnWorkdir
  <2>2. UNCHANGED <<device, granted, todo, missing, full>>
    BY <1>8, Zenon DEF Destroyed, TurnWorkdir
  <2>3. QED BY <1>4, <2>1, <2>2, NotifySteps
<1>9. CASE LeaveWorkdir \/ UNCHANGED vars
  <2>1. UNCHANGED <<device, granted, todo, missing, full, step>>
    BY <1>9, Zenon DEF LeaveWorkdir, vars
  <2>2. QED BY <1>4, <2>1
<1>10. CASE Turn \/ Crash
  BY <1>10 DEF Turn, Crash, Judged
<1>11. QED
  BY <1>1, <1>2, <1>3, <1>5, <1>6, <1>7, <1>8, <1>9, <1>10 DEF Next, User, Thread

\* A wait of this check ends with its own answer, or this thread waits on.
LEMMA NotifyOwn ==
  ASSUME NEW own, Notify(own), ~misled'
  PROVE  \/ step \in own \cap {"wait", "dirWait"} /\ step' = Woken
         \/ step' = step
BY DEF Notify

LEMMA NextAlone ==
  ASSUME TypeOK, Judging, Alone, [Next]_vars, ~misled, ~misled'
  PROVE  Alone'
<1> USE DEF checkVars, screenVars, systemVars, orphanVars, seenVars, countVars, Covered
<1>0. /\ None \notin Perms /\ rationales \subseteq Perms /\ system \in Perms \cup {None}
      /\ step \in Steps /\ (todo # <<>> => Head(todo) \in Perms)
      /\ (verdict # "none" => step = "idle")
  BY PermissionAssumption DEF TypeOK, Judging
<1>1. CASE PressStart \/ PressSync
  BY <1>1 DEF PressStart, PressSync, Press, Alone
<1>2. CASE Granted \/ ToDir \/ Judge
  BY <1>2 DEF Granted, MustNotAsk, ToDir, Judge, Alone
<1>3. CASE Explain
  BY <1>0, <1>3 DEF Explain, Alone
<1>4. CASE Request
  BY <1>0, <1>4 DEF Request, MustAsk, Alone
<1>5. CASE RequestWhileAsking
  BY <1>5 DEF RequestWhileAsking, MustAsk, Alone
<1>6. CASE LookAtDir \/ LookAgain
  BY <1>0, <1>6 DEF LookAtDir, LookAgain, End, Alone
<1>7. ASSUME NEW p \in Perms, Ok(p) PROVE Alone'
  BY <1>0, <1>7 DEF Ok, Alone, Steps
<1>8. ASSUME NEW p \in Perms, OkWhileAsking(p) \/ Cancel(p) \/ Deny(p) PROVE Alone'
  <2>1. step' = step
    BY <1>8, NotifyOwn DEF OkWhileAsking, Cancel, Deny
  <2>2. step \in {"idle", "wait"} /\ verdict = "none" /\ verdict' = "none"
    BY <1>0, <1>8 DEF OkWhileAsking, Cancel, Deny, Alone, Steps
  <2>3. CASE step = "idle"
    BY <2>1, <2>2, <2>3 DEF Alone
  <2>4. CASE step = "wait"
    <3>1. /\ rationales' = {} /\ system = None /\ UNCHANGED <<todo, system, workdir>>
          /\ ~workdir
      BY <1>0, <1>8, <2>4 DEF OkWhileAsking, Cancel, Deny, Alone
    <3>2. QED BY <2>1, <2>2, <2>4, <3>1 DEF Alone
  <2>5. QED BY <2>2, <2>3, <2>4
<1>9. ASSUME NEW p \in Perms, Dismiss(p) PROVE Alone'
  BY <1>0, <1>9 DEF Dismiss, Alone, Steps
<1>10. CASE SystemAnswers
  <2>1. step \in {"idle", "wait"} /\ verdict = "none" /\ verdict' = "none"
    BY <1>0, <1>10 DEF SystemAnswers, Answers, Alone, Steps
  <2>2. step' = step \/ (step = "wait" /\ step' = "woken")
    BY <1>10, NotifySteps, NotifyOwn DEF SystemAnswers, Woken
  <2>3. CASE step = "idle"
    BY <2>1, <2>2, <2>3 DEF Alone
  <2>4. CASE step = "wait"
    <3>1. /\ system = Head(todo) /\ rationales = {} /\ ~workdir /\ ~goOn
          /\ Head(todo) \notin granted
      BY <1>10, <2>4 DEF SystemAnswers, Answers, Alone
    <3>2. /\ system' = None /\ UNCHANGED <<todo, rationales, workdir, goOn>>
          /\ (isPermissionGranted' <=> Head(todo) \in granted')
      BY <1>10, <3>1 DEF SystemAnswers, Answers
    <3>3. QED BY <2>1, <2>2, <2>4, <3>1, <3>2 DEF Alone
  <2>5. QED BY <2>1, <2>3, <2>4
<1>11. CASE LeaveWorkdir
  <2>1. step \in {"idle", "dirWait"} /\ verdict = "none"
    BY <1>0, <1>11 DEF LeaveWorkdir, Alone, Steps
  <2>2. QED BY <1>11, <2>1 DEF LeaveWorkdir, Alone
<1>12. CASE Destroyed
  <2>1. \/ step' = step
        \/ step = "dirWait" /\ ~workdir /\ step' = "dirWoken"
    BY <1>12, NotifyOwn DEF Destroyed, Woken
  <2>2. UNCHANGED <<todo, goOn, granted, rationales, system, workdir, isPermissionGranted, verdict>>
    BY <1>12, Zenon DEF Destroyed
  <2>3. QED BY <1>0, <2>1, <2>2 DEF Alone
<1>13. CASE TurnWorkdir
  <2>1. step' = step
    BY <1>13, NotifyOwn DEF TurnWorkdir
  <2>2. UNCHANGED <<todo, goOn, granted, rationales, system, workdir, isPermissionGranted, verdict>>
    BY <1>13, Zenon DEF TurnWorkdir
  <2>3. QED BY <2>1, <2>2 DEF Alone
<1>14. CASE Turn \/ Crash
  BY <1>14 DEF Turn, Crash, Alone
<1>15. CASE UNCHANGED vars
  <2>1. UNCHANGED <<step, todo, goOn, granted, rationales, system, workdir, isPermissionGranted,
                    verdict>>
    BY <1>15, Zenon DEF vars
  <2>2. QED BY <2>1 DEF Alone
<1>16. QED
  BY <1>1, <1>2, <1>3, <1>4, <1>5, <1>6, <1>7, <1>8, <1>9, <1>10, <1>11, <1>12, <1>13, <1>14,
     <1>15 DEF Next, User, Thread

\* A verdict is that of the moment it is given, and stays true until the next Start.
LEMMA NextVerdictTrue ==
  ASSUME TypeOK, Judging, Judged, Alone, VerdictTrue, [Next]_vars, ~misled, ~misled'
  PROVE  VerdictTrue'
<1> USE DEF checkVars, screenVars, systemVars, orphanVars, seenVars, countVars
<1>0. /\ verdict \in {"none", "start", "refuse"} /\ dirOk \in BOOLEAN /\ missing \in BOOLEAN
      /\ full \in BOOLEAN
  BY DEF TypeOK
<1>1. ASSUME UNCHANGED <<device, granted, dirOk, full, verdict>> PROVE VerdictTrue'
  BY <1>1 DEF VerdictTrue, AllThere
<1>2. ASSUME verdict' = "none" PROVE VerdictTrue'
  BY <1>2 DEF VerdictTrue
<1>3. CASE LookAtDir \/ LookAgain
  <2>1. CASE UNCHANGED verdict
    BY <1>1, <1>3, <2>1 DEF LookAtDir, LookAgain, End
  <2>2. CASE ~UNCHANGED verdict
    <3>1. /\ step \in {"dir", "dirWoken"} /\ UNCHANGED <<device, granted, dirOk, full>>
          /\ verdict' = IF dirOk /\ ~missing THEN "start" ELSE "refuse"
      BY <1>3, <2>2 DEF LookAtDir, LookAgain, End
    <3>2. todo = <<>> /\ (~full => ~missing)
      BY <3>1 DEF Judging
    <3>3. Len(Required(device)) - Len(todo) = Len(Required(device))
      BY <3>2, RequiredType
    <3>4. AllThere <=> dirOk /\ ~missing
      BY <1>0, <3>1, <3>2, <3>3, NothingLacks DEF Judged
    <3>5. AllThere' <=> AllThere
      BY <3>1 DEF AllThere
    <3>6. QED BY <3>1, <3>4, <3>5 DEF VerdictTrue
  <2>3. QED BY <2>1, <2>2
<1>4. CASE Thread
  BY <1>1, <1>3, <1>4 DEF Thread, Granted, Explain, Request, RequestWhileAsking, Judge, ToDir
<1>5. CASE PressStart \/ PressSync \/ Turn \/ Crash
  BY <1>2, <1>5 DEF PressStart, PressSync, Press, Turn, Crash
<1>6. ASSUME NEW p \in Perms, Ok(p) \/ OkWhileAsking(p) \/ Cancel(p) \/ Deny(p) \/ Dismiss(p)
      PROVE VerdictTrue'
  <2>1. UNCHANGED <<device, granted, dirOk, full, verdict>>
    BY <1>6, Zenon DEF Ok, OkWhileAsking, Cancel, Deny, Dismiss
  <2>2. QED BY <1>1, <2>1
<1>7. CASE SystemAnswers \/ LeaveWorkdir
  <2>1. Covered /\ verdict' = verdict
    BY <1>7 DEF SystemAnswers, Answers, LeaveWorkdir, Covered
  <2>2. QED BY <1>2, <2>1 DEF Alone
<1>8. CASE Destroyed \/ TurnWorkdir \/ UNCHANGED vars
  <2>1. UNCHANGED <<device, granted, dirOk, full, verdict>>
    BY <1>8, Zenon DEF Destroyed, TurnWorkdir, vars
  <2>2. QED BY <1>1, <2>1
<1>9. QED BY <1>4, <1>5, <1>6, <1>7, <1>8 DEF Next, User

LEMMA NextVerdictInv == ASSUME VerdictInv, [Next]_vars PROVE VerdictInv'
<1>1. TypeOK' /\ Judging'
  BY NextTypeOK, NextJudging DEF VerdictInv
<1>2. CASE misled'
  BY <1>1, <1>2 DEF VerdictInv, VerdictTrue
<1>3. CASE ~misled /\ ~misled'
  BY <1>1, <1>3, NextJudged, NextAlone, NextVerdictTrue DEF VerdictInv
<1>4. CASE misled /\ ~misled'
  <2> USE DEF checkVars, screenVars, systemVars, orphanVars, seenVars, countVars, Covered
  <2>0. misled \in BOOLEAN /\ Required(device) \in Seq(Perms)
    BY RequiredType DEF VerdictInv, TypeOK
  <2>1. PressStart \/ PressSync \/ Crash
    <3>1. ASSUME NEW own, Notify(own) PROVE misled'
      BY <1>4, <3>1 DEF Notify
    <3>2. Thread \/ LeaveWorkdir \/ Turn \/ UNCHANGED vars => misled' = misled
      BY Zenon DEF Thread, Granted, Explain, Request, RequestWhileAsking, Judge, ToDir, LookAtDir,
                   LookAgain, LeaveWorkdir, Turn, vars
    <3>3. SystemAnswers \/ Destroyed \/ TurnWorkdir => \E own : Notify(own)
      BY Zenon DEF SystemAnswers, Destroyed, TurnWorkdir
    <3>4. ASSUME NEW p \in Perms, Ok(p) \/ OkWhileAsking(p) \/ Cancel(p) \/ Deny(p) \/ Dismiss(p)
          PROVE misled' = misled \/ \E own : Notify(own)
      BY <3>4, Zenon DEF Ok, OkWhileAsking, Cancel, Deny, Dismiss
    <3>5. QED BY <1>4, <3>1, <3>2, <3>3, <3>4, Zenon DEF Next, User
  <2>2. verdict' = "none" /\ Alone'
    BY <2>1 DEF PressStart, PressSync, Press, Crash, Alone
  <2>3. Judged'
    <3>1. ~Lacking(granted, Required(device), Len(Required(device)) - Len(Required(device)))
      BY <2>0 DEF Lacking
    <3>2. CASE Crash
      BY <3>2 DEF Crash, Judged
    <3>3. CASE PressStart \/ PressSync
      BY <3>1, <3>3 DEF PressStart, PressSync, Press, Judged
    <3>4. QED BY <2>1, <3>2, <3>3
  <2>4. QED BY <1>1, <2>2, <2>3 DEF VerdictInv, VerdictTrue
<1>5. QED BY <1>2, <1>3, <1>4

\* The verdict is true, for all devices and settings: a check that was not misled
\* starts the service exactly when everything it needs is there.
THEOREM TrueVerdict == Spec => []VerdictTrue
<1>1. Init => VerdictInv
  BY InitTypeOK DEF Init, VerdictInv, Judging, Judged, Alone, VerdictTrue
<1>2. VerdictInv /\ [Next]_vars => VerdictInv'
  BY NextVerdictInv
<1>3. VerdictInv => VerdictTrue
  BY DEF VerdictInv
<1>4. QED BY <1>1, <1>2, <1>3, PTL DEF Spec
=============================================================================
