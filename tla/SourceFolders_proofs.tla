------------------------ MODULE SourceFolders_proofs ------------------------
(***************************************************************************)
(* Proofs about SourceFolders, for any pictures and any choice of folders. *)
(***************************************************************************)
EXTENDS SourceFolders, SequenceTheorems, TLAPS

IsPicture(p) == p \in Docs /\ Len(p.path) > 1 /\ p.path[1] # WorkingDir[1]
IsSource(r) == r \in Docs /\ Len(r.path) > 0 /\ r.path[1] # WorkingDir[1]
Suffixes == {".bak", ".new"}

\* What is put below the working directory for a document with the path
\* DCIM/x: ThumbAdder/DCIM.bak/x.
Under(d, suffix) ==
  [vol |-> d.vol,
   path |-> [i \in 1..(Len(d.path) + 1) |-> CASE i = 1 -> WorkingDir[1]
                                              [] i = 2 -> Append(d.path[1], suffix)
                                              [] OTHER -> d.path[i - 1]]]

LEMMA Given ==
  /\ WorkingDir \in Seq(Names) /\ Len(WorkingDir) = 1 /\ WorkingDir[1] \in Names
  /\ \A p \in Pictures : IsPicture(p)
  /\ \A r \in UNION Choices : IsSource(r)
<1>1. WorkingDir \in Seq(Names) /\ Len(WorkingDir) = 1
  BY FoldersAssumption
<1>2. WorkingDir[1] \in Names
  <2>1. 1 \in 1..Len(WorkingDir)
    BY <1>1
  <2>2. QED BY <1>1, <2>1, ElementOfSeq, Zenon
<1>3. QED BY <1>1, <1>2, FoldersAssumption DEF IsPicture, IsSource

LEMMA DocParts ==
  ASSUME NEW d \in Docs
  PROVE  /\ d.vol \in Words /\ d.path \in Seq(Names)
         /\ d = [vol |-> d.vol, path |-> d.path]
         /\ Len(d.path) \in Nat
         /\ \A i \in 1..Len(d.path) : d.path[i] \in Names
BY DEF Docs

LEMMA Suffixed == ASSUME NEW n \in Names, NEW s \in Suffixes PROVE Append(n, s) \in Names
<1>1. s \in Words
  BY FoldersAssumption DEF Suffixes
<1>2. n \in Seq(Words)
  BY DEF Names
<1>3. Append(n, s) \in Seq(Words)
  BY <1>1, <1>2, AppendProperties
<1>4. QED BY <1>3 DEF Names

LEMMA UnderType ==
  ASSUME NEW d \in Docs, Len(d.path) > 0, NEW s \in Suffixes
  PROVE  /\ Under(d, s) \in Docs
         /\ Under(d, s).vol = d.vol
         /\ Len(Under(d, s).path) = Len(d.path) + 1
         /\ Under(d, s).path[1] = WorkingDir[1]
         /\ Under(d, s).path[2] = Append(d.path[1], s)
         /\ \A i \in 3..(Len(d.path) + 1) : Under(d, s).path[i] = d.path[i - 1]
<1> DEFINE n == Len(d.path) + 1  u == Under(d, s).path
<1>1. /\ n \in Nat /\ n >= 2 /\ d.vol \in Words /\ Append(d.path[1], s) \in Names
      /\ WorkingDir[1] \in Names /\ \A i \in 1..Len(d.path) : d.path[i] \in Names
  BY DocParts, Suffixed, Given
<1>2. u = [i \in 1..n |-> CASE i = 1 -> WorkingDir[1]
                            [] i = 2 -> Append(d.path[1], s)
                            [] OTHER -> d.path[i - 1]]
  BY DEF Under
<1>3. u[1] = WorkingDir[1] /\ u[2] = Append(d.path[1], s) /\ \A i \in 3..n : u[i] = d.path[i - 1]
  BY <1>1, <1>2, SMTT(30)
<1>4. \A i \in 1..n : u[i] \in Names
  <2>1. ASSUME NEW i \in 3..n PROVE u[i] \in Names
    <3>1. i - 1 \in 1..Len(d.path)
      BY <1>1
    <3>2. QED BY <1>1, <1>3, <3>1
  <2>2. \A i \in 1..n : i = 1 \/ i = 2 \/ i \in 3..n
    BY <1>1
  <2>3. QED BY <1>1, <1>3, <2>1, <2>2
<1>5. u \in Seq(Names) /\ Len(u) = n
  BY <1>1, <1>2, <1>4
<1>6. QED BY <1>1, <1>3, <1>5 DEF Under, Docs

\* Two sequences of names put one after the other, name by name.
LEMMA ConcatEqual ==
  ASSUME NEW a \in Seq(Names), NEW b \in Seq(Names), NEW c \in Seq(Names),
         Len(c) = Len(a) + Len(b),
         \A i \in 1..Len(a) : c[i] = a[i],
         \A i \in 1..Len(b) : c[Len(a) + i] = b[i]
  PROVE  a \o b = c
<1>1. /\ a \o b \in Seq(Names) /\ Len(a \o b) = Len(a) + Len(b)
      /\ \A i \in 1..Len(a) + Len(b) : (a \o b)[i] = IF i <= Len(a) THEN a[i] ELSE b[i - Len(a)]
  BY ConcatProperties
<1>2. Len(a) \in Nat /\ Len(b) \in Nat
  BY LenProperties
<1>3. ASSUME NEW i \in 1..Len(a \o b) PROVE (a \o b)[i] = c[i]
  <2>1. CASE i <= Len(a)
    BY <1>1, <1>2, <2>1
  <2>2. CASE ~(i <= Len(a))
    <3>1. i - Len(a) \in 1..Len(b) /\ Len(a) + (i - Len(a)) = i
      BY <1>1, <1>2, <2>2
    <3>2. c[Len(a) + (i - Len(a))] = b[i - Len(a)]
      BY <3>1
    <3>3. QED BY <1>1, <2>2, <3>1, <3>2
  <2>3. QED BY <2>1, <2>2
<1>4. QED BY <1>1, <1>3, SeqEqual

LEMMA TailOf ==
  ASSUME NEW p \in Seq(Names), Len(p) > 0
  PROVE  /\ getDSub(p) = Tail(p) /\ p # <<>>
         /\ Tail(p) \in Seq(Names) /\ Len(Tail(p)) = Len(p) - 1
         /\ \A i \in 1..(Len(p) - 1) : Tail(p)[i] = p[i + 1]
BY EmptySeq, HeadTailProperties DEF getDSub

LEMMA AppendToOne ==
  ASSUME NEW S, NEW s \in Seq(S), Len(s) = 1, NEW e \in S
  PROVE  Append(s, e) \in Seq(S) /\ Len(Append(s, e)) = 2 /\ Append(s, e)[1] = s[1]
         /\ Append(s, e)[2] = e
<1>1. Append(s, e) \in Seq(S)
  BY AppendProperties, Zenon
<1>2. Len(Append(s, e)) = 2
  OBVIOUS
<1>3. Append(s, e)[1] = s[1]
  OBVIOUS
<1>4. Append(s, e)[2] = e
  <2>1. Append(s, e)[Len(s) + 1] = e
    BY AppendProperties, Zenon
  <2>2. QED BY <2>1
<1>5. QED BY <1>1, <1>2, <1>3, <1>4

\* The folder for a whole source folder, and the place of one picture.
LEMMA DirIsUnder ==
  ASSUME NEW r, IsSource(r), NEW s \in Suffixes
  PROVE  Dir(r, s, FALSE) = Under(r, s)
<1> DEFINE u == Under(r, s).path  a == Append(WorkingDir, Append(r.path[1], s))  b == Tail(r.path)
<1>1. /\ r.path \in Seq(Names) /\ Len(r.path) \in Nat /\ Len(r.path) > 0 /\ r.path[1] \in Names
  BY DocParts DEF IsSource
<1>2. /\ u \in Seq(Names) /\ Len(u) = Len(r.path) + 1 /\ Under(r, s) = [vol |-> r.vol, path |-> u]
      /\ u[1] = WorkingDir[1] /\ u[2] = Append(r.path[1], s)
      /\ \A i \in 3..(Len(r.path) + 1) : u[i] = r.path[i - 1]
  BY UnderType, DocParts DEF IsSource, Under
<1>3. /\ b \in Seq(Names) /\ Len(b) = Len(r.path) - 1 /\ getDDSub(r) = b /\ r.path # <<>>
      /\ \A i \in 1..(Len(r.path) - 1) : b[i] = r.path[i + 1]
  BY <1>1, TailOf DEF getDDSub
<1>4. a \in Seq(Names) /\ Len(a) = 2 /\ a[1] = WorkingDir[1] /\ a[2] = Append(r.path[1], s)
  <2>1. Append(r.path[1], s) \in Names
    BY <1>1, Suffixed
  <2>2. QED BY <2>1, Given, AppendToOne
<1> HIDE DEF a
<1>5. ASSUME NEW i \in 1..Len(b) PROVE u[Len(a) + i] = b[i]
  <2>1. 2 + i \in 3..(Len(r.path) + 1) /\ (2 + i) - 1 = i + 1 /\ i \in 1..(Len(r.path) - 1)
    BY <1>1, <1>3
  <2>2. u[2 + i] = r.path[i + 1]
    BY <1>2, <2>1
  <2>3. QED BY <1>3, <1>4, <2>1, <2>2
<1>6. Len(u) = Len(a) + Len(b) /\ \A i \in 1..Len(a) : u[i] = a[i]
  <2>1. Len(u) = Len(a) + Len(b)
    BY <1>1, <1>2, <1>3, <1>4
  <2>2. \A i \in 1..Len(a) : i = 1 \/ i = 2
    BY <1>4
  <2>3. QED BY <1>2, <1>4, <2>1, <2>2
<1>7. a \o b = u
  BY <1>2, <1>3, <1>4, <1>5, <1>6, ConcatEqual
<1>8. s # ""
  BY DEF Suffixes
<1>9. getDD1(r) = r.path[1]
  BY <1>1, <1>3 DEF getDD1
<1>10. QED BY <1>2, <1>3, <1>7, <1>8, <1>9 DEF Dir, getSubDir, a

\* A sequence of names with one more, name by name.
LEMMA AppendEqual ==
  ASSUME NEW a \in Seq(Names), NEW e \in Names, NEW c \in Seq(Names),
         Len(c) = Len(a) + 1, c[Len(a) + 1] = e,
         \A i \in 1..Len(a) : c[i] = a[i]
  PROVE  Append(a, e) = c
<1>1. Append(a, e) \in Seq(Names) /\ Len(Append(a, e)) = Len(a) + 1
  BY AppendProperties, Zenon
<1>2. ASSUME NEW i \in 1..Len(a) PROVE Append(a, e)[i] = a[i]
  OBVIOUS
<1>3. Append(a, e)[Len(a) + 1] = e
  BY AppendProperties, Zenon
<1>4. ASSUME NEW i \in 1..Len(Append(a, e)) PROVE Append(a, e)[i] = c[i]
  <2>1. i \in 1..Len(a) \/ i = Len(a) + 1
    BY <1>1, LenProperties
  <2>2. QED BY <1>2, <1>3, <2>1
<1>5. QED BY <1>1, <1>4, SeqEqual

\* The folders of a picture's path between the first one and its name.
LEMMA Middle ==
  ASSUME NEW p \in Seq(Names), Len(p) > 1
  PROVE  /\ Parent(getDSub(p)) \in Seq(Names) /\ Len(Parent(getDSub(p))) = Len(p) - 2
         /\ \A i \in 1..(Len(p) - 2) : Parent(getDSub(p))[i] = p[i + 1]
<1> DEFINE t == getDSub(p)  n == Len(p) - 2
<1>1. /\ Len(p) \in Nat /\ n \in Nat /\ t \in Seq(Names) /\ Len(t) = n + 1
      /\ \A i \in 1..(n + 1) : t[i] = p[i + 1]
  <2>1. Len(p) \in Nat /\ n \in Nat /\ n + 1 = Len(p) - 1 /\ Len(p) > 0
    BY LenProperties
  <2>2. /\ t \in Seq(Names) /\ Len(t) = Len(p) - 1
        /\ \A i \in 1..(Len(p) - 1) : t[i] = p[i + 1]
    <3>1. /\ t = Tail(p) /\ Tail(p) \in Seq(Names) /\ Len(Tail(p)) = Len(p) - 1
          /\ \A i \in 1..(Len(p) - 1) : Tail(p)[i] = p[i + 1]
      BY <2>1, TailOf, Zenon
    <3>2. QED BY <3>1, Zenon
  <2>3. QED BY <2>1, <2>2
<1>2. t # <<>> /\ Parent(t) = SubSeq(t, 1, n)
  <2>1. t # <<>>
    BY <1>1, EmptySeq
  <2>2. Len(t) - 1 = n
    BY <1>1
  <2>3. QED BY <2>1, <2>2 DEF Parent
<1> HIDE DEF t
<1> HIDE DEF n
<1>3. \A i \in 1..n : t[i] \in Names
  BY <1>1, ElementOfSeq
<1>4. /\ SubSeq(t, 1, n) \in Seq(Names)
      /\ Len(SubSeq(t, 1, n)) = IF 1 <= n THEN n - 1 + 1 ELSE 0
      /\ \A i \in 1..(n - 1 + 1) : SubSeq(t, 1, n)[i] = t[1 + i - 1]
  BY <1>1, <1>3, SubSeqProperties
<1>5. Len(SubSeq(t, 1, n)) = n /\ \A i \in 1..n : SubSeq(t, 1, n)[i] = t[i]
  BY <1>1, <1>4
<1>6. /\ Parent(t) \in Seq(Names) /\ Len(Parent(t)) = n
      /\ \A i \in 1..n : Parent(t)[i] = p[i + 1]
  BY <1>1, <1>2, <1>4, <1>5
<1>7. QED BY <1>6 DEF t, n

LEMMA ConcatAt ==
  ASSUME NEW a \in Seq(Names), NEW b \in Seq(Names), NEW i \in 1..Len(a) + Len(b)
  PROVE  (a \o b)[i] = IF i <= Len(a) THEN a[i] ELSE b[i - Len(a)]
BY ConcatProperties

LEMMA InFolder ==
  ASSUME NEW v, NEW c, NEW p
  PROVE  In([vol |-> v, path |-> c], p) = [vol |-> v, path |-> Append(c, p.path[Len(p.path)])]
BY DEF In

LEMMA PlaceIsUnder ==
  ASSUME NEW p, IsPicture(p), NEW s \in Suffixes
  PROVE  Derived(p, s) = Under(p, s)
<1> DEFINE u == Under(p, s).path  a == Append(WorkingDir, Append(p.path[1], s))
           m == Parent(getDSub(p.path))  n == Len(p.path)
<1>1. /\ p \in Docs /\ p.path \in Seq(Names) /\ n \in Nat /\ n > 1
      /\ p.path[1] \in Names /\ p.path[n] \in Names
  BY DocParts DEF IsPicture
<1>2. /\ u \in Seq(Names) /\ Len(u) = n + 1 /\ Under(p, s) = [vol |-> p.vol, path |-> u]
      /\ u[1] = WorkingDir[1] /\ u[2] = Append(p.path[1], s)
      /\ \A i \in 3..(n + 1) : u[i] = p.path[i - 1]
  <2>1. Under(p, s) = [vol |-> p.vol, path |-> u]
    BY DEF Under
  <2>2. /\ Under(p, s) \in Docs /\ Len(u) = n + 1
        /\ u[1] = WorkingDir[1] /\ u[2] = Append(p.path[1], s)
        /\ \A i \in 3..(n + 1) : u[i] = p.path[i - 1]
    <3>1. Len(p.path) > 0
      BY <1>1
    <3>2. QED BY <1>1, <3>1, UnderType, Zenon
  <2>3. u \in Seq(Names)
    BY <2>2, DocParts, Zenon
  <2>4. QED BY <2>1, <2>2, <2>3
<1>3. m \in Seq(Names) /\ Len(m) = n - 2 /\ \A i \in 1..(n - 2) : m[i] = p.path[i + 1]
  BY <1>1, Middle
<1>4. a \in Seq(Names) /\ Len(a) = 2 /\ a[1] = WorkingDir[1] /\ a[2] = Append(p.path[1], s)
  <2>1. Append(p.path[1], s) \in Names
    BY <1>1, Suffixed
  <2>2. QED BY <2>1, Given, AppendToOne
<1> HIDE DEF a
<1> HIDE DEF m
<1>5. /\ a \o m \in Seq(Names) /\ Len(a \o m) = 2 + (n - 2)
      /\ \A i \in 1..n : (a \o m)[i] = IF i <= 2 THEN a[i] ELSE m[i - 2]
  <2>1. /\ a \o m \in Seq(Names) /\ Len(a \o m) = Len(a) + Len(m)
        /\ \A i \in 1..Len(a) + Len(m) : (a \o m)[i] = IF i <= Len(a) THEN a[i] ELSE m[i - Len(a)]
    BY <1>3, <1>4, ConcatProperties
  <2>2. Len(a) + Len(m) = n
    BY <1>1, <1>3, <1>4
  <2>3. QED BY <1>1, <1>3, <1>4, <2>1, <2>2
<1> DEFINE c == a \o m
<1> HIDE DEF c
<1>6. c \in Seq(Names) /\ Len(c) = n
  BY <1>1, <1>5 DEF c
<1>7. ASSUME NEW i \in 1..Len(c) PROVE u[i] = c[i]
  <2>1. CASE i <= 2
    <3>1. (i = 1 \/ i = 2) /\ i \in 1..n
      BY <1>6, <2>1
    <3>2. c[i] = a[i]
      BY <1>5, <2>1, <3>1 DEF c
    <3>3. QED BY <1>2, <1>4, <3>1, <3>2
  <2>2. CASE ~(i <= 2)
    <3>1. i \in 3..(n + 1) /\ i \in 1..n /\ i - 2 \in 1..(n - 2) /\ (i - 2) + 1 = i - 1
      BY <1>1, <1>6, <2>2
    <3>2. c[i] = m[i - 2] /\ m[i - 2] = p.path[(i - 2) + 1]
      BY <1>3, <1>5, <2>2, <3>1 DEF c
    <3>3. u[i] = p.path[i - 1]
      BY <1>2, <3>1
    <3>4. QED BY <3>1, <3>2, <3>3
  <2>3. QED BY <2>1, <2>2
<1>8. u[Len(c) + 1] = p.path[n] /\ Len(u) = Len(c) + 1
  <2>1. n + 1 \in 3..(n + 1) /\ (n + 1) - 1 = n
    BY <1>1
  <2>2. u[n + 1] = p.path[n]
    BY <1>2, <2>1
  <2>3. QED BY <1>2, <1>6, <2>2
<1>9. Append(c, p.path[n]) = u
  BY <1>1, <1>2, <1>6, <1>7, <1>8, AppendEqual
<1>10. Dir(p, s, TRUE) = [vol |-> p.vol, path |-> c]
  <2>1. s # "" /\ getDD1(p) = p.path[1]
    <3>1. p.path # <<>>
      BY <1>1, EmptySeq
    <3>2. s # ""
      BY DEF Suffixes
    <3>3. Head(p.path) = p.path[1]
      BY <1>1, <3>1
    <3>4. QED BY <3>1, <3>2, <3>3, Zenon DEF getDD1
  <2>2. QED BY <2>1 DEF Dir, getSubDir, getDDSub, a, m, c
<1>11. QED
  <2>1. Derived(p, s) = In([vol |-> p.vol, path |-> c], p)
    BY <1>10, Zenon DEF Derived
  <2>2. Derived(p, s) = [vol |-> p.vol, path |-> Append(c, p.path[n])]
    BY <2>1, InFolder, Zenon
  <2>3. QED BY <1>2, <1>9, <2>2, Zenon

\* In place, the output has the id of the picture.
LEMMA PlaceOfItself == ASSUME NEW p, IsPicture(p) PROVE Derived(p, "") = p
<1> DEFINE m == Parent(getDSub(p.path))  n == Len(p.path)  h == <<p.path[1]>>
<1>1. /\ p \in Docs /\ p.path \in Seq(Names) /\ n \in Nat /\ n > 1
      /\ p.path[1] \in Names /\ p.path[n] \in Names /\ p.path # <<>>
      /\ p = [vol |-> p.vol, path |-> p.path]
  BY DocParts, EmptySeq DEF IsPicture
<1>2. m \in Seq(Names) /\ Len(m) = n - 2 /\ \A i \in 1..(n - 2) : m[i] = p.path[i + 1]
  BY <1>1, Middle
<1>3. h \in Seq(Names) /\ Len(h) = 1 /\ h[1] = p.path[1]
  BY <1>1
<1> HIDE DEF m
<1> HIDE DEF h
<1> DEFINE c == h \o m
<1>4. /\ c \in Seq(Names) /\ Len(c) = Len(h) + Len(m)
      /\ \A i \in 1..Len(h) + Len(m) : c[i] = IF i <= Len(h) THEN h[i] ELSE m[i - Len(h)]
  <2>1. /\ h \o m \in Seq(Names) /\ Len(h \o m) = Len(h) + Len(m)
        /\ \A i \in 1..Len(h) + Len(m) : (h \o m)[i] = IF i <= Len(h) THEN h[i] ELSE m[i - Len(h)]
    <3>1. h \o m \in Seq(Names) /\ Len(h \o m) = Len(h) + Len(m)
      BY <1>2, <1>3, ConcatProperties, Zenon
    <3>2. ASSUME NEW i \in 1..Len(h) + Len(m)
          PROVE (h \o m)[i] = IF i <= Len(h) THEN h[i] ELSE m[i - Len(h)]
      BY <1>2, <1>3, ConcatAt, Zenon
    <3>3. QED BY <3>1, <3>2
  <2>2. QED BY <2>1
<1> HIDE DEF c
<1>5. Len(c) = n - 1 /\ Len(h) + Len(m) = n - 1
  BY <1>1, <1>2, <1>3, <1>4
<1>6. ASSUME NEW i \in 1..Len(c) PROVE p.path[i] = c[i]
  <2>1. CASE i = 1
    BY <1>3, <1>4, <1>5, <2>1
  <2>2. CASE i > 1
    <3>1. i \in 1..(n - 1) /\ i - 1 \in 1..(n - 2) /\ (i - 1) + 1 = i /\ ~(i <= 1)
      BY <1>1, <1>5, <2>2
    <3>2. c[i] = m[i - 1] /\ m[i - 1] = p.path[(i - 1) + 1]
      BY <1>2, <1>3, <1>4, <1>5, <3>1
    <3>3. QED BY <3>1, <3>2
  <2>3. QED BY <1>5, <2>1, <2>2
<1>7. Append(c, p.path[n]) = p.path
  <2>1. Len(p.path) = Len(c) + 1 /\ p.path[Len(c) + 1] = p.path[n]
    BY <1>1, <1>5
  <2>2. QED BY <1>1, <1>4, <1>6, <2>1, AppendEqual
<1>8. Dir(p, "", TRUE) = [vol |-> p.vol, path |-> c]
  BY <1>1 DEF Dir, getSubDir, getDDSub, getDD1, c, h, m
<1>9. QED
  <2>1. Derived(p, "") = In([vol |-> p.vol, path |-> c], p)
    BY <1>8, Zenon DEF Derived
  <2>2. Derived(p, "") = [vol |-> p.vol, path |-> Append(c, p.path[n])]
    BY <2>1, InFolder, Zenon
  <2>3. QED BY <1>1, <1>7, <2>2, Zenon

-----------------------------------------------------------------------------
\* What is below a folder, name by name.
LEMMA BelowNames ==
  ASSUME NEW d \in Docs, NEW dir \in Docs
  PROVE  Below(d, dir) <=> /\ d.vol = dir.vol /\ Len(dir.path) < Len(d.path)
                           /\ \A i \in 1..Len(dir.path) : d.path[i] = dir.path[i]
<1> DEFINE q == d.path  t == dir.path  n == Len(dir.path)
<1>1. q \in Seq(Names) /\ t \in Seq(Names) /\ n \in Nat /\ Len(q) \in Nat
  BY DocParts
<1> HIDE DEF q
<1> HIDE DEF t
<1>2. ASSUME n < Len(q)
      PROVE  SubSeq(q, 1, n) = t <=> \A i \in 1..n : q[i] = t[i]
  <2>1. \A i \in 1..n : q[i] \in Names
    <3>1. ASSUME NEW i \in 1..n PROVE q[i] \in Names
      <4>1. i \in 1..Len(q)
        BY <1>1, <1>2
      <4>2. QED BY <1>1, <4>1, ElementOfSeq, Zenon
    <3>2. QED BY <3>1
  <2>2. /\ SubSeq(q, 1, n) \in Seq(Names)
        /\ Len(SubSeq(q, 1, n)) = IF 1 <= n THEN n - 1 + 1 ELSE 0
        /\ \A i \in 1..(n - 1 + 1) : SubSeq(q, 1, n)[i] = q[1 + i - 1]
    BY <1>1, <2>1, SubSeqProperties
  <2>3. Len(SubSeq(q, 1, n)) = n /\ \A i \in 1..n : SubSeq(q, 1, n)[i] = q[i]
    BY <1>1, <2>2
  <2>4. ASSUME \A i \in 1..n : q[i] = t[i] PROVE SubSeq(q, 1, n) = t
    <3>1. Len(t) = n
      BY DEF t
    <3>2. QED BY <1>1, <2>2, <2>3, <2>4, <3>1, SeqEqual
  <2>5. QED BY <2>3, <2>4
<1>3. QED BY <1>2 DEF Below, q, t

LEMMA SameSuffixed ==
  ASSUME NEW a \in Seq(Words), NEW x \in Words, NEW b \in Seq(Words), NEW y \in Words,
         Append(a, x) = Append(b, y)
  PROVE  a = b /\ x = y
<1> DEFINE c == Append(a, x)  d == Append(b, y)
<1>1. Len(a) \in Nat /\ Len(b) \in Nat
  BY LenProperties
<1>2. Len(c) = Len(a) + 1 /\ Len(d) = Len(b) + 1
  OBVIOUS
<1>3. c[Len(a) + 1] = x /\ d[Len(b) + 1] = y
  OBVIOUS
<1>4. ASSUME NEW i \in 1..Len(a) PROVE c[i] = a[i]
  OBVIOUS
<1>5. ASSUME NEW i \in 1..Len(b) PROVE d[i] = b[i]
  OBVIOUS
<1>6. c = d
  OBVIOUS
<1> HIDE DEF c
<1> HIDE DEF d
<1>7. Len(a) = Len(b) /\ x = y
  BY <1>1, <1>2, <1>3, <1>6
<1>8. \A i \in 1..Len(a) : a[i] = b[i]
  BY <1>4, <1>5, <1>6, <1>7
<1>9. QED BY <1>7, <1>8, SeqEqual

\* The way back: a file below the folder made for a source folder has the suffix
\* of that folder, its picture is below the source folder, and is found.
LEMMA RoundTrip ==
  ASSUME NEW p, IsPicture(p), NEW r, IsSource(r), NEW s \in Suffixes, NEW t \in Suffixes,
         Below(Under(p, s), Under(r, t))
  PROVE  s = t /\ Below(p, r) /\ SrcDocument(Under(p, s), getDD1(r)) = p
<1> DEFINE n == Len(p.path)  k == Len(r.path)  u == Under(p, s).path  v == Under(r, t).path
<1>1. /\ p \in Docs /\ p.path \in Seq(Names) /\ n \in Nat /\ n > 1 /\ p.path[1] \in Names
      /\ p = [vol |-> p.vol, path |-> p.path]
  BY DocParts DEF IsPicture
<1>2. /\ r \in Docs /\ r.path \in Seq(Names) /\ k \in Nat /\ k > 0 /\ r.path[1] \in Names
      /\ r.path # <<>>
  BY DocParts, EmptySeq DEF IsSource
<1>3. /\ Under(p, s) \in Docs /\ Under(p, s).vol = p.vol /\ Len(u) = n + 1
      /\ u[1] = WorkingDir[1] /\ u[2] = Append(p.path[1], s)
      /\ \A i \in 3..(n + 1) : u[i] = p.path[i - 1]
  <2>1. n > 0
    BY <1>1
  <2>2. QED BY <1>1, <2>1, UnderType, Zenon
<1>4. /\ Under(r, t) \in Docs /\ Under(r, t).vol = r.vol /\ Len(v) = k + 1
      /\ v[1] = WorkingDir[1] /\ v[2] = Append(r.path[1], t)
      /\ \A i \in 3..(k + 1) : v[i] = r.path[i - 1]
  BY <1>2, UnderType, Zenon
<1> HIDE DEF u
<1> HIDE DEF v
<1>5. p.vol = r.vol /\ k < n /\ \A i \in 1..(k + 1) : u[i] = v[i]
  <2>1. p.vol = r.vol /\ Len(v) < Len(u) /\ \A i \in 1..Len(v) : u[i] = v[i]
    BY <1>3, <1>4, BelowNames, Zenon DEF u, v
  <2>2. QED BY <1>1, <1>2, <1>3, <1>4, <2>1
<1>6. p.path[1] = r.path[1] /\ s = t
  <2>1. u[2] = v[2]
    BY <1>2, <1>5
  <2>2. Append(p.path[1], s) = Append(r.path[1], t)
    BY <1>3, <1>4, <2>1
  <2>3. s \in Words /\ t \in Words /\ p.path[1] \in Seq(Words) /\ r.path[1] \in Seq(Words)
    BY <1>1, <1>2, FoldersAssumption DEF Suffixes, Names
  <2> DEFINE a == p.path[1]  b == r.path[1]
  <2>4. a \in Seq(Words) /\ b \in Seq(Words) /\ Append(a, s) = Append(b, t)
    BY <2>2, <2>3
  <2> HIDE DEF a
  <2> HIDE DEF b
  <2>5. a = b /\ s = t
    BY <2>3, <2>4, SameSuffixed
  <2>6. QED BY <2>5 DEF a, b
<1>7. Below(p, r)
  <2>1. ASSUME NEW j \in 1..k PROVE p.path[j] = r.path[j]
    <3>1. CASE j = 1
      BY <1>6, <3>1
    <3>2. CASE j > 1
      <4>1. j + 1 \in 3..(k + 1) /\ j + 1 \in 3..(n + 1) /\ j + 1 \in 1..(k + 1) /\ (j + 1) - 1 = j
        BY <1>1, <1>2, <1>5, <3>2
      <4>2. u[j + 1] = p.path[j] /\ v[j + 1] = r.path[j] /\ u[j + 1] = v[j + 1]
        BY <1>3, <1>4, <1>5, <4>1
      <4>3. QED BY <4>2
    <3>3. QED BY <1>2, <3>1, <3>2
  <2>2. QED BY <1>1, <1>2, <1>5, <2>1, BelowNames
<1>8. SrcDocument(Under(p, s), getDD1(r)) = p
  <2> DEFINE h == <<p.path[1]>>  b == Tail(Tail(u))
  <2>1. u \in Seq(Names) /\ Len(u) = n + 1 /\ n + 1 > 0
    BY <1>1, <1>3, DocParts DEF u
  <2>2. /\ getDSub(u) = Tail(u) /\ Tail(u) \in Seq(Names) /\ Len(Tail(u)) = n
        /\ \A i \in 1..n : Tail(u)[i] = u[i + 1]
    <3>1. /\ getDSub(u) = Tail(u) /\ Tail(u) \in Seq(Names) /\ Len(Tail(u)) = Len(u) - 1
          /\ \A i \in 1..(Len(u) - 1) : Tail(u)[i] = u[i + 1]
      BY <2>1, TailOf
    <3>2. Len(u) - 1 = n
      BY <1>1, <2>1
    <3>3. QED BY <3>1, <3>2
  <2>3. /\ getDSub(Tail(u)) = b /\ b \in Seq(Names) /\ Len(b) = n - 1
        /\ \A i \in 1..(n - 1) : b[i] = Tail(u)[i + 1]
    <3>1. Tail(u) \in Seq(Names) /\ Len(Tail(u)) > 0 /\ Len(Tail(u)) = n
      BY <1>1, <2>2
    <3>2. /\ getDSub(Tail(u)) = b /\ b \in Seq(Names) /\ Len(b) = Len(Tail(u)) - 1
          /\ \A i \in 1..(Len(Tail(u)) - 1) : b[i] = Tail(u)[i + 1]
      BY <3>1, TailOf
    <3>3. QED BY <3>1, <3>2
  <2>4. h \in Seq(Names) /\ Len(h) = 1 /\ h[1] = p.path[1]
    BY <1>1
  <2> HIDE DEF h
  <2> HIDE DEF b
  <2>5. ASSUME NEW i \in 1..Len(b) PROVE p.path[Len(h) + i] = b[i]
    <3>1. /\ i \in 1..(n - 1) /\ i + 1 \in 1..n /\ (i + 1) + 1 \in 3..(n + 1)
          /\ ((i + 1) + 1) - 1 = 1 + i
      BY <1>1, <2>3
    <3>2. b[i] = u[(i + 1) + 1] /\ u[(i + 1) + 1] = p.path[((i + 1) + 1) - 1]
      BY <1>3, <2>2, <2>3, <3>1
    <3>3. QED BY <2>4, <3>1, <3>2
  <2>6. Len(p.path) = Len(h) + Len(b) /\ \A i \in 1..Len(h) : p.path[i] = h[i]
    BY <1>1, <2>3, <2>4
  <2>7. h \o b = p.path
    BY <1>1, <2>3, <2>4, <2>5, <2>6, ConcatEqual
  <2>8. getDD1(r) = p.path[1]
    <3>1. Head(r.path) = r.path[1]
      BY <1>2
    <3>2. QED BY <1>2, <1>6, <3>1, Zenon DEF getDD1
  <2>9. getDSub(getDDSub(Under(p, s))) = b
    BY <2>2, <2>3, Zenon DEF getDDSub, u
  <2>10. SrcDocument(Under(p, s), getDD1(r)) = [vol |-> p.vol, path |-> h \o b]
    BY <1>3, <2>8, <2>9, Zenon DEF SrcDocument, h
  <2>11. QED BY <1>1, <2>7, <2>10, Zenon
<1>9. QED BY <1>6, <1>7, <1>8

\* No two pictures share a place.
LEMMA SameUnder ==
  ASSUME NEW p, IsPicture(p), NEW q, IsPicture(q), NEW s \in Suffixes, NEW t \in Suffixes,
         Under(p, s) = Under(q, t)
  PROVE  p = q
<1> DEFINE n == Len(p.path)  m == Len(q.path)
<1>1. /\ p \in Docs /\ p.path \in Seq(Names) /\ n \in Nat /\ n > 0 /\ p.path[1] \in Names
      /\ p = [vol |-> p.vol, path |-> p.path]
      /\ q \in Docs /\ q.path \in Seq(Names) /\ m \in Nat /\ m > 0 /\ q.path[1] \in Names
      /\ q = [vol |-> q.vol, path |-> q.path]
  BY DocParts DEF IsPicture
<1>2. /\ Under(p, s).vol = p.vol /\ Len(Under(p, s).path) = n + 1
      /\ Under(p, s).path[2] = Append(p.path[1], s)
      /\ \A i \in 3..(n + 1) : Under(p, s).path[i] = p.path[i - 1]
  BY <1>1, UnderType, Zenon
<1>3. /\ Under(q, t).vol = q.vol /\ Len(Under(q, t).path) = m + 1
      /\ Under(q, t).path[2] = Append(q.path[1], t)
      /\ \A i \in 3..(m + 1) : Under(q, t).path[i] = q.path[i - 1]
  BY <1>1, UnderType, Zenon
<1>4. p.vol = q.vol /\ n + 1 = m + 1 /\ Append(p.path[1], s) = Append(q.path[1], t)
  BY <1>2, <1>3, Zenon
<1>5. n = m
  BY <1>1, <1>4
<1>6. p.path[1] = q.path[1]
  <2>1. s \in Words /\ t \in Words /\ p.path[1] \in Seq(Words) /\ q.path[1] \in Seq(Words)
    BY <1>1, FoldersAssumption DEF Suffixes, Names
  <2> DEFINE a == p.path[1]  b == q.path[1]
  <2>2. a \in Seq(Words) /\ b \in Seq(Words) /\ Append(a, s) = Append(b, t)
    BY <1>4, <2>1
  <2> HIDE DEF a
  <2> HIDE DEF b
  <2>3. a = b
    BY <2>1, <2>2, SameSuffixed
  <2>4. QED BY <2>3 DEF a, b
<1>7. ASSUME NEW i \in 1..n PROVE p.path[i] = q.path[i]
  <2>1. CASE i = 1
    BY <1>6, <2>1
  <2>2. CASE i > 1
    <3>1. i + 1 \in 3..(n + 1) /\ i + 1 \in 3..(m + 1) /\ (i + 1) - 1 = i
      BY <1>1, <1>5, <2>2
    <3>2. Under(p, s).path[i + 1] = p.path[i] /\ Under(q, t).path[i + 1] = q.path[i]
      BY <1>2, <1>3, <3>1
    <3>3. QED BY <3>2
  <2>3. QED BY <1>1, <2>1, <2>2
<1>8. p.path = q.path
  BY <1>1, <1>5, <1>7, SeqEqual
<1>9. QED BY <1>1, <1>4, <1>8, Zenon

-----------------------------------------------------------------------------
\* What a job still has to take was listed below the folder it is going through.
Listing ==
  /\ job = "idle" => todo = {} /\ left = {} /\ skipped = {}
  /\ job = "add" => \A d \in todo : Below(d, root)
  /\ Syncing => \A d \in todo : Below(d, Dir(root, place, FALSE))

FoldersInv == TypeOK /\ OwnPlace /\ Listing

LEMMA InitFolders == ASSUME Init PROVE FoldersInv
<1>1. TypeOK
  BY FoldersAssumption DEF Init, TypeOK
<1>2. OwnPlace /\ Listing
  BY DEF Init, OwnPlace, Listing
<1>3. QED BY <1>1, <1>2 DEF FoldersInv

\* The places of a file, with the paths spelled out.
LEMMA Places ==
  ASSUME TypeOK, OwnPlace, NEW d \in DOMAIN docs
  PROVE  /\ IsPicture(docs[d]) /\ d \in Docs
         /\ d = docs[d] \/ \E s \in Suffixes : d = Under(docs[d], s)
<1>1. docs[d] \in Pictures /\ d \in Docs
  BY DEF TypeOK
<1>2. IsPicture(docs[d])
  BY <1>1, Given
<1>3. d \in {docs[d], Derived(docs[d], ".bak"), Derived(docs[d], ".new")}
  BY DEF OwnPlace
<1>4. ".bak" \in Suffixes /\ ".new" \in Suffixes
  BY DEF Suffixes
<1>5. QED BY <1>1, <1>2, <1>3, <1>4, PlaceIsUnder

\* A file that is not in the working directory is a picture.
LEMMA OutsideIsPicture ==
  ASSUME TypeOK, OwnPlace, NEW d \in DOMAIN docs, d.path[1] # WorkingDir[1]
  PROVE  d = docs[d]
<1>1. ASSUME NEW s \in Suffixes PROVE d # Under(docs[d], s)
  <2>1. IsPicture(docs[d])
    BY Places
  <2>2. docs[d] \in Docs /\ Len(docs[d].path) > 0
    BY <2>1, DocParts DEF IsPicture
  <2>3. Under(docs[d], s).path[1] = WorkingDir[1]
    BY <2>2, UnderType
  <2>4. QED BY <2>3
<1>2. QED BY <1>1, Places

LEMMA BelowSource ==
  ASSUME NEW d \in Docs, NEW r, IsSource(r), Below(d, r)
  PROVE  d.path[1] # WorkingDir[1]
<1>1. r \in Docs /\ Len(r.path) \in Nat /\ Len(r.path) > 0
  BY DocParts DEF IsSource
<1>2. d.path[1] = r.path[1]
  BY <1>1, BelowNames
<1>3. QED BY <1>2 DEF IsSource

\* What AddThumbs makes of a listed picture.
LEMMA MadeOf ==
  ASSUME FoldersInv, job = "add", NEW d \in todo, d \in DOMAIN docs
  PROVE  /\ d = docs[d] /\ d \in Pictures /\ IsPicture(d)
         /\ Backup(d) = Under(d, ".bak") /\ Backup(d) \in Docs
         /\ Output(d) \in Docs
         /\ inPlace => Output(d) = d
         /\ \A x \in {Backup(d), Output(d)} :
              x \in {d, Derived(d, ".bak"), Derived(d, ".new")}
<1>1. d \in Docs /\ IsSource(root) /\ Below(d, root)
  BY Given DEF FoldersInv, TypeOK, Listing
<1>2. d = docs[d]
  BY <1>1, BelowSource, OutsideIsPicture DEF FoldersInv
<1>3. d \in Pictures /\ IsPicture(d)
  BY <1>2, Given DEF FoldersInv, TypeOK
<1>4. d \in Docs /\ Len(d.path) > 0
  BY <1>3, DocParts DEF IsPicture
<1>5. ".bak" \in Suffixes /\ ".new" \in Suffixes
  BY DEF Suffixes
<1>6. /\ Derived(d, ".bak") = Under(d, ".bak") /\ Derived(d, ".new") = Under(d, ".new")
      /\ Under(d, ".bak") \in Docs /\ Under(d, ".new") \in Docs /\ Derived(d, "") = d
  BY <1>3, <1>4, <1>5, PlaceIsUnder, PlaceOfItself, UnderType
<1>7. Output(d) \in {d, Derived(d, ".new")} /\ (inPlace => Output(d) = d)
  BY <1>6 DEF Output
<1>8. QED BY <1>2, <1>3, <1>4, <1>6, <1>7 DEF Backup

\* What the step of AddThumbs leaves: it adds and removes files of one picture.
AddsTo(d) ==
  /\ d \in DOMAIN docs
  /\ DOMAIN docs \ {d, Backup(d), Output(d)} \subseteq DOMAIN docs'
  /\ DOMAIN docs' \subseteq DOMAIN docs \cup {Backup(d), Output(d)}
  /\ \A x \in DOMAIN docs' :
       \/ x \in DOMAIN docs /\ docs'[x] = docs[x]
       \/ x \in {Backup(d), Output(d)} /\ docs'[x] = docs[d]

LEMMA AfterTries ==
  ASSUME NEW f, NEW x, NEW p, NEW g \in Tries(f, x, p)
  PROVE  /\ DOMAIN f \ {x} \subseteq DOMAIN g /\ DOMAIN g \subseteq DOMAIN f \cup {x}
         /\ \A y \in DOMAIN g : (y \in DOMAIN f /\ g[y] = f[y]) \/ (y = x /\ g[y] = p)
BY DEF Tries, With, Without

LEMMA AfterThumbnail ==
  ASSUME AddThumbnail
  PROVE  \E d \in todo : todo' = todo \ {d} /\ (UNCHANGED docs \/ AddsTo(d))
<1>1. PICK d \in todo :
        /\ todo' = todo \ {d}
        /\ \/ UNCHANGED docs
           \/ /\ d \in DOMAIN docs
              /\ \E f \in {docs} \cup
                      (IF ~inPlace THEN Tries(docs, Backup(d), docs[d])
                       ELSE {With(Without(docs, d), x, docs[d]) : x \in {Backup(d)} \ DOMAIN docs}) :
                   docs' \in Tries(f, Output(d), docs[d])
  BY DEF AddThumbnail
<1>2. ASSUME d \in DOMAIN docs,
             NEW f \in {docs} \cup
                      (IF ~inPlace THEN Tries(docs, Backup(d), docs[d])
                       ELSE {With(Without(docs, d), x, docs[d]) : x \in {Backup(d)} \ DOMAIN docs}),
             docs' \in Tries(f, Output(d), docs[d])
      PROVE  AddsTo(d)
  <2>1. /\ DOMAIN docs \ {d, Backup(d)} \subseteq DOMAIN f
        /\ DOMAIN f \subseteq DOMAIN docs \cup {Backup(d)}
        /\ \A y \in DOMAIN f :
             (y \in DOMAIN docs /\ f[y] = docs[y]) \/ (y = Backup(d) /\ f[y] = docs[d])
    <3>1. CASE f = docs
      BY <3>1
    <3>2. CASE f \in Tries(docs, Backup(d), docs[d])
      BY <3>2, AfterTries
    <3>3. CASE f = With(Without(docs, d), Backup(d), docs[d])
      BY <3>3 DEF With, Without
    <3>4. QED BY <1>2, <3>1, <3>2, <3>3
  <2>2. /\ DOMAIN f \ {Output(d)} \subseteq DOMAIN docs'
        /\ DOMAIN docs' \subseteq DOMAIN f \cup {Output(d)}
        /\ \A y \in DOMAIN docs' :
             (y \in DOMAIN f /\ docs'[y] = f[y]) \/ (y = Output(d) /\ docs'[y] = docs[d])
    BY <1>2, AfterTries
  <2>3. ASSUME NEW y \in DOMAIN docs'
        PROVE  \/ y \in DOMAIN docs /\ docs'[y] = docs[y]
               \/ y \in {Backup(d), Output(d)} /\ docs'[y] = docs[d]
    BY <2>1, <2>2, <2>3
  <2>4. QED BY <1>2, <2>1, <2>2, <2>3 DEF AddsTo
<1>3. QED BY <1>1, <1>2

\* A file is where one picture's belongs only if it is of that picture.
LEMMA OwnFiles ==
  ASSUME FoldersInv, job = "add", NEW d \in todo, d \in DOMAIN docs,
         NEW x \in DOMAIN docs, x \in {d, Backup(d), Output(d)}
  PROVE  docs[x] = d
<1>1. d = docs[d] /\ IsPicture(d) /\ x \in {d, Derived(d, ".bak"), Derived(d, ".new")}
  BY MadeOf
<1>2. CASE x = d
  BY <1>1, <1>2
<1>3. ASSUME NEW s \in Suffixes, x = Under(d, s) PROVE docs[x] = d
  <2>1. IsPicture(docs[x]) /\ (x = docs[x] \/ \E u \in Suffixes : x = Under(docs[x], u))
    BY Places DEF FoldersInv
  <2>2. /\ d \in Docs /\ Len(d.path) \in Nat /\ Len(d.path) > 0
        /\ docs[x] \in Docs /\ Len(docs[x].path) \in Nat /\ Len(docs[x].path) > 0
    BY <1>1, <2>1, DocParts DEF IsPicture
  <2>3. x.path[1] = WorkingDir[1]
    BY <1>3, <2>2, UnderType
  <2>4. PICK u \in Suffixes : x = Under(docs[x], u)
    BY <2>1, <2>3 DEF IsPicture
  <2>5. QED BY <1>1, <1>3, <2>1, <2>4, SameUnder
<1>4. ".bak" \in Suffixes /\ ".new" \in Suffixes
  BY DEF Suffixes
<1>5. QED BY <1>1, <1>2, <1>3, <1>4, PlaceIsUnder

\* The steps that leave every file as it is, or only take some away.
FewerDocs == /\ DOMAIN docs' \subseteq DOMAIN docs
             /\ \A d \in DOMAIN docs' : docs'[d] = docs[d]

LEMMA FewerKeeps ==
  ASSUME OwnPlace, FewerDocs PROVE OwnPlace'
BY DEF OwnPlace, FewerDocs, Derived, In, Dir, getDD1, getSubDir, getDDSub

LEMMA SyncFewer == ASSUME SyncFile PROVE FewerDocs
BY DEF SyncFile, FewerDocs, Without

\* Where the files are.
LEMMA NextOwnPlace == ASSUME FoldersInv, [Next]_vars PROVE OwnPlace'
<1> USE DEF FoldersInv
<1>1. ASSUME NEW p \in Pictures, UserSaves(p) PROVE OwnPlace'
  <2>1. /\ DOMAIN docs' = DOMAIN docs \cup {p}
        /\ \A d \in DOMAIN docs' : docs'[d] = IF d = p THEN p ELSE docs[d]
    BY <1>1 DEF UserSaves, With
  <2>2. QED BY <2>1 DEF OwnPlace
<1>2. ASSUME NEW p \in Pictures, UserDeletes(p) PROVE OwnPlace'
  BY <1>2, FewerKeeps DEF UserDeletes, FewerDocs, Without
<1>3. CASE AddThumbnail
  <2>1. CASE UNCHANGED docs
    BY <2>1, FewerKeeps DEF FewerDocs
  <2>2. ASSUME NEW d \in todo, AddsTo(d)
        PROVE  OwnPlace'
    <3>1. /\ d = docs[d]
          /\ \A x \in {Backup(d), Output(d)} : x \in {d, Derived(d, ".bak"), Derived(d, ".new")}
      BY <1>3, <2>2, MadeOf DEF AddThumbnail, AddsTo
    <3>2. ASSUME NEW x \in DOMAIN docs'
          PROVE  x \in {docs'[x], Derived(docs'[x], ".bak"), Derived(docs'[x], ".new")}
      <4>1. CASE x \in {Backup(d), Output(d)} /\ docs'[x] = docs[d]
        BY <3>1, <4>1
      <4>2. CASE x \in DOMAIN docs /\ docs'[x] = docs[x]
        BY <4>2 DEF OwnPlace
      <4>3. QED BY <2>2, <4>1, <4>2 DEF AddsTo
    <3>3. QED BY <3>2 DEF OwnPlace
  <2>3. QED BY <1>3, <2>1, <2>2, AfterThumbnail
<1>4. CASE SyncFile
  BY <1>4, SyncFewer, FewerKeeps
<1>5. ASSUME UNCHANGED docs PROVE OwnPlace'
  BY <1>5, FewerKeeps DEF FewerDocs
<1>6. CASE \/ UserChooses \/ TakeFolder \/ SyncOutputs \/ End
           \/ Start("add") \/ Start("sync") \/ Start("list")
  BY <1>5, <1>6 DEF UserChooses, Start, TakeFolder, SyncOutputs, End
<1>7. CASE UNCHANGED vars
  BY <1>5, <1>7 DEF vars
<1>8. QED BY <1>1, <1>2, <1>3, <1>4, <1>6, <1>7 DEF Next

LEMMA NextListing == ASSUME FoldersInv, [Next]_vars PROVE Listing'
<1> USE DEF FoldersInv, Listing, Syncing
<1>1. ASSUME NEW p \in Pictures, UserSaves(p) \/ UserDeletes(p) PROVE Listing'
  BY <1>1 DEF UserSaves, UserDeletes, jobVars, Dir, getDD1, getSubDir, getDDSub
<1>2. CASE UserChooses \/ End
  BY <1>2 DEF UserChooses, End, jobVars
<1>3. CASE Start("add") \/ Start("sync") \/ Start("list")
  BY <1>3 DEF Start
<1>4. CASE TakeFolder
  <2>1. PICK r \in left :
          /\ job' = job /\ job # "idle" /\ todo = {}
          /\ \/ todo' = todo
             \/ /\ root' = r
                /\ \/ job = "add" /\ todo' = Listed(r)
                   \/ Syncing /\ todo' = Listed(Dir(r, ".bak", FALSE)) /\ place' = ".bak"
    BY <1>4 DEF TakeFolder, Through
  <2>2. ASSUME NEW dir, NEW d \in Listed(dir) PROVE Below(d, dir)
    BY <2>2 DEF Listed, Shows
  <2>3. QED BY <2>1, <2>2
<1>5. CASE SyncOutputs
  <2>1. /\ job' = job /\ job \in {"sync", "list"}
        /\ place' = ".new" /\ root' = root /\ todo' = Listed(Dir(root, ".new", FALSE))
    BY <1>5 DEF SyncOutputs
  <2>2. \A d \in Listed(Dir(root, ".new", FALSE)) : Below(d, Dir(root, ".new", FALSE))
    BY DEF Listed, Shows
  <2>3. QED BY <2>1, <2>2
<1>6. CASE AddThumbnail \/ SyncFile
  <2>1. UNCHANGED <<job, root, place>> /\ todo' \subseteq todo /\ job # "idle"
    BY <1>6 DEF AddThumbnail, SyncFile
  <2>2. /\ job' = "add" => \A d \in todo' : Below(d, root')
        /\ Syncing' => \A d \in todo' : Below(d, Dir(root', place', FALSE))
    BY <2>1
  <2>3. QED BY <2>1, <2>2
<1>7. CASE UNCHANGED vars
  BY <1>7 DEF vars, jobVars
<1>8. QED BY <1>1, <1>2, <1>3, <1>4, <1>5, <1>6, <1>7 DEF Next

LEMMA NextTypes == ASSUME FoldersInv, [Next]_vars PROVE TypeOK'
<1> USE DEF FoldersInv, TypeOK
<1>0. Pictures \subseteq Docs
  BY Given DEF IsPicture
<1>1. ASSUME NEW p \in Pictures, UserSaves(p) \/ UserDeletes(p) PROVE TypeOK'
  <2>1. UNCHANGED <<sources, inPlace, jobVars>> /\ excused' \subseteq excused \cup {p}
    BY <1>1 DEF UserSaves, UserDeletes
  <2>2. DOMAIN docs' \subseteq Docs /\ \A d \in DOMAIN docs' : docs'[d] \in Pictures
    BY <1>0, <1>1 DEF UserSaves, UserDeletes, With, Without
  <2>3. QED BY <2>1, <2>2 DEF jobVars
<1>2. CASE UserChooses
  BY <1>2 DEF UserChooses, jobVars, Listing
<1>3. CASE Start("add") \/ Start("sync") \/ Start("list")
  BY <1>3 DEF Start, Listing
<1>4. CASE TakeFolder
  <2>1. PICK r \in left :
          /\ left' = left \ {r} /\ root' \in {r, root}
          /\ (todo' = todo \/ \E dir : todo' = Listed(dir))
          /\ place' \in {place, ".bak"} /\ skipped' \subseteq skipped \cup {r}
    BY <1>4 DEF TakeFolder
  <2>2. todo' \subseteq Docs
    BY <2>1 DEF Listed
  <2>3. root' \in UNION Choices /\ left' \subseteq sources /\ skipped' \subseteq sources \ left'
    BY <2>1
  <2>4. UNCHANGED <<docs, sources, inPlace, job, excused>>
    BY <1>4 DEF TakeFolder
  <2>5. QED BY <2>1, <2>2, <2>3, <2>4
<1>5. CASE SyncOutputs
  <2>1. todo' \subseteq Docs
    BY <1>5 DEF SyncOutputs, Listed
  <2>2. QED BY <1>5, <2>1 DEF SyncOutputs
<1>6. CASE AddThumbnail
  <2>1. UNCHANGED <<sources, inPlace, job, left, root, place, skipped, excused>> /\ todo' \subseteq todo
    BY <1>6 DEF AddThumbnail
  <2>2. DOMAIN docs' \subseteq Docs /\ \A x \in DOMAIN docs' : docs'[x] \in Pictures
    <3>1. CASE UNCHANGED docs
      BY <3>1
    <3>2. ASSUME NEW d \in todo, AddsTo(d)
          PROVE  DOMAIN docs' \subseteq Docs /\ \A x \in DOMAIN docs' : docs'[x] \in Pictures
      <4>1. Backup(d) \in Docs /\ Output(d) \in Docs /\ docs[d] \in Pictures
        BY <1>6, <3>2, MadeOf DEF AddThumbnail, AddsTo
      <4>2. QED BY <3>2, <4>1 DEF AddsTo
    <3>3. QED BY <1>6, <3>1, <3>2, AfterThumbnail
  <2>3. QED BY <2>1, <2>2
<1>7. CASE SyncFile
  <2>1. UNCHANGED <<sources, inPlace, job, left, root, place, skipped>> /\ todo' \subseteq todo
    BY <1>7 DEF SyncFile
  <2>2. excused' \subseteq Pictures
    BY <1>7 DEF SyncFile
  <2>3. FewerDocs
    BY <1>7, SyncFewer
  <2>4. QED BY <2>1, <2>2, <2>3 DEF FewerDocs
<1>8. CASE End
  BY <1>8 DEF End
<1>9. CASE UNCHANGED vars
  BY <1>9 DEF vars, jobVars
<1>10. QED BY <1>1, <1>2, <1>3, <1>4, <1>5, <1>6, <1>7, <1>8, <1>9 DEF Next

LEMMA NextFolders == ASSUME FoldersInv, [Next]_vars PROVE FoldersInv'
BY NextTypes, NextOwnPlace, NextListing DEF FoldersInv

-----------------------------------------------------------------------------
\* What Sync deletes: a file of a picture that is gone.
LEMMA SyncGoes ==
  ASSUME FoldersInv, SyncFile, NEW d \in DOMAIN docs, d \notin DOMAIN docs'
  PROVE  docs[d] \notin DOMAIN docs
<1> USE DEF FoldersInv
<1>1. /\ job = "sync" /\ d \in todo
      /\ ~Exists(SrcDocument(d, getDD1(root)), root)
  BY DEF SyncFile, Without
<1>2. Below(d, Dir(root, place, FALSE)) /\ IsSource(root) /\ place \in Suffixes
  BY <1>1, Given DEF TypeOK, Listing, Suffixes, Syncing
<1>3. IsPicture(docs[d]) /\ (d = docs[d] \/ \E s \in Suffixes : d = Under(docs[d], s))
  BY Places
<1>4. Below(d, Under(root, place))
  BY <1>2, DirIsUnder
<1>5. d # docs[d]
  <2>1. root \in Docs /\ Len(root.path) \in Nat /\ Len(root.path) > 0
    BY <1>2, DocParts DEF IsSource
  <2>2. /\ Under(root, place) \in Docs /\ Len(Under(root, place).path) = Len(root.path) + 1
        /\ Under(root, place).path[1] = WorkingDir[1]
    BY <1>2, <2>1, UnderType
  <2>3. 1 \in 1..Len(Under(root, place).path) /\ d \in Docs
    BY <2>1, <2>2, Places
  <2>4. d.path[1] = WorkingDir[1]
    BY <1>4, <2>2, <2>3, BelowNames
  <2>5. QED BY <1>3, <2>4 DEF IsPicture
<1>6. PICK s \in Suffixes : d = Under(docs[d], s)
  BY <1>3, <1>5
<1>7. SrcDocument(d, getDD1(root)) = docs[d] /\ Below(docs[d], root)
  <2>1. Below(Under(docs[d], s), Under(root, place))
    BY <1>4, <1>6
  <2>2. SrcDocument(Under(docs[d], s), getDD1(root)) = docs[d] /\ Below(docs[d], root)
    BY <1>2, <1>3, <2>1, RoundTrip
  <2>3. QED BY <1>6, <2>2
<1>8. QED BY <1>1, <1>7 DEF Exists

LEMMA NextGoes ==
  ASSUME FoldersInv, [Next]_vars, NEW d \in DOMAIN docs, d \notin DOMAIN docs'
  PROVE  docs[d] \notin DOMAIN docs' \/ (job = "add" /\ docs[d] \in todo \ todo')
<1>1. ASSUME NEW p \in Pictures, UserSaves(p) PROVE FALSE
  BY <1>1 DEF UserSaves, With
<1>2. ASSUME NEW p \in Pictures, UserDeletes(p) PROVE docs[d] \notin DOMAIN docs'
  <2>1. DOMAIN docs' = DOMAIN docs \ {p} /\ d = p
    BY <1>2 DEF UserDeletes, Without
  <2>2. d.path[1] # WorkingDir[1]
    BY <2>1, Given DEF IsPicture
  <2>3. docs[d] = d
    BY <2>2, OutsideIsPicture DEF FoldersInv
  <2>4. QED BY <2>1, <2>3
<1>3. CASE AddThumbnail
  <2>1. PICK p \in todo : todo' = todo \ {p} /\ AddsTo(p)
    BY <1>3, AfterThumbnail
  <2>2. p \in DOMAIN docs /\ d \in {p, Backup(p), Output(p)} /\ job = "add"
    BY <1>3, <2>1 DEF AddsTo, AddThumbnail
  <2>3. docs[d] = p
    BY <2>2, OwnFiles
  <2>4. QED BY <2>1, <2>2, <2>3
<1>4. CASE SyncFile
  BY <1>4, SyncGoes, SyncFewer DEF FewerDocs
<1>5. CASE UNCHANGED docs
  BY <1>5
<1>6. CASE \/ UserChooses \/ TakeFolder \/ SyncOutputs \/ End
           \/ Start("add") \/ Start("sync") \/ Start("list")
  BY <1>5, <1>6 DEF UserChooses, Start, TakeFolder, SyncOutputs, End
<1>7. CASE UNCHANGED vars
  BY <1>5, <1>7 DEF vars
<1>8. QED BY <1>1, <1>2, <1>3, <1>4, <1>6, <1>7 DEF Next

-----------------------------------------------------------------------------
\* TypeOK holds for any pictures and any choice of folders.
THEOREM FoldersTypes == Spec => []TypeOK
<1>1. Init => FoldersInv
  BY InitFolders
<1>2. FoldersInv /\ [Next]_vars => FoldersInv'
  BY NextFolders
<1>3. FoldersInv => TypeOK
  BY DEF FoldersInv
<1>4. QED BY <1>1, <1>2, <1>3, PTL DEF Spec

\* Every file is a picture or has a place of its own, whatever the folders.
THEOREM EveryFileHasItsPlace == Spec => []OwnPlace
<1>1. Init => FoldersInv
  BY InitFolders
<1>2. FoldersInv /\ [Next]_vars => FoldersInv'
  BY NextFolders
<1>3. FoldersInv => OwnPlace
  BY DEF FoldersInv
<1>4. QED BY <1>1, <1>2, <1>3, PTL DEF Spec

\* A backup or an output disappears only when its picture has, however the source
\* folders overlap, on whatever volumes they are: no step of Sync takes that of a
\* picture that is there, and AddThumbs only that of the picture it is working on.
THEOREM DeletedWithPicture == Spec => GoesWithPicture
<1>1. Init => FoldersInv
  BY InitFolders
<1>2. FoldersInv /\ [Next]_vars => FoldersInv'
  BY NextFolders
<1>3. FoldersInv /\ [Next]_vars
        => [\A d \in DOMAIN docs \ DOMAIN docs' :
              \/ docs[d] \notin DOMAIN docs'
              \/ job = "add" /\ docs[d] \in todo \ todo']_vars
  BY NextGoes
<1>4. QED BY <1>1, <1>2, <1>3, PTL DEF Spec, GoesWithPicture

-----------------------------------------------------------------------------
\* Sync leaves nothing behind.

\* What is listed in a source folder has its place where the folder made for it
\* is listed: no name between the two is another.
LEMMA ShowsUnder ==
  ASSUME NEW p, IsPicture(p), NEW r, IsSource(r), NEW s \in Suffixes, Shows(r, p)
  PROVE  Shows(Under(r, s), Under(p, s))
<1> DEFINE n == Len(p.path)  k == Len(r.path)
<1>1. /\ p \in Docs /\ r \in Docs /\ n \in Nat /\ k \in Nat /\ n > 1 /\ n > 0 /\ k > 0
      /\ p.path # <<>>
  BY DocParts, EmptySeq DEF IsPicture, IsSource
<1>2. /\ Under(p, s) \in Docs /\ Under(p, s).vol = p.vol
      /\ Len(Under(p, s).path) = n + 1 /\ Under(p, s).path[1] = WorkingDir[1]
      /\ Under(p, s).path[2] = Append(p.path[1], s)
      /\ \A i \in 3..(n + 1) : Under(p, s).path[i] = p.path[i - 1]
  BY <1>1, UnderType, Zenon
<1>3. /\ Under(r, s) \in Docs /\ Under(r, s).vol = r.vol
      /\ Len(Under(r, s).path) = k + 1 /\ Under(r, s).path[1] = WorkingDir[1]
      /\ Under(r, s).path[2] = Append(r.path[1], s)
      /\ \A i \in 3..(k + 1) : Under(r, s).path[i] = r.path[i - 1]
  BY <1>1, UnderType, Zenon
<1>4. /\ p.vol = r.vol /\ k < n /\ \A i \in 1..k : p.path[i] = r.path[i]
      /\ \A i \in (k + 1)..(n - 1) : p.path[i] # Excluded
  BY <1>1, BelowNames DEF Shows
<1> DEFINE u == Under(p, s).path  v == Under(r, s).path
<1> HIDE DEF u
<1> HIDE DEF v
<1>5. ASSUME NEW i \in 1..(k + 1) PROVE u[i] = v[i]
  <2>1. CASE i = 1
    BY <1>2, <1>3, <2>1 DEF u, v
  <2>2. CASE i = 2
    <3>1. p.path[1] = r.path[1]
      BY <1>1, <1>4
    <3>2. QED BY <1>2, <1>3, <2>2, <3>1 DEF u, v
  <2>3. CASE i > 2
    <3>1. i \in 3..(k + 1) /\ i \in 3..(n + 1) /\ i - 1 \in 1..k
      BY <1>1, <1>4, <2>3
    <3>2. u[i] = p.path[i - 1] /\ v[i] = r.path[i - 1]
      BY <1>2, <1>3, <3>1 DEF u, v
    <3>3. QED BY <1>4, <3>1, <3>2
  <2>4. QED BY <1>1, <2>1, <2>2, <2>3
<1>6. ASSUME NEW i \in ((k + 1) + 1)..((n + 1) - 1) PROVE u[i] # Excluded
  <2>1. i \in 3..(n + 1) /\ i - 1 \in (k + 1)..(n - 1)
    BY <1>1
  <2>2. QED BY <1>2, <1>4, <2>1 DEF u
<1>7. Below(Under(p, s), Under(r, s))
  <2>1. Len(v) < Len(u) /\ \A i \in 1..Len(v) : u[i] = v[i]
    BY <1>1, <1>2, <1>3, <1>4, <1>5 DEF u, v
  <2>2. QED BY <1>2, <1>3, <1>4, <2>1, BelowNames DEF u, v
<1>8. \A i \in Len(v) + 1 .. Len(u) - 1 : u[i] # Excluded
  BY <1>2, <1>3, <1>6 DEF u, v
<1>9. QED BY <1>7, <1>8 DEF Shows, u, v

\* A file Sync has to delete, for the sake of a source folder: its picture was
\* gone before the job began.
Due(s, d, x) ==
  /\ Shows(s, docs[d]) /\ d = Under(docs[d], x) /\ (x = ".new" => ~inPlace)
  /\ docs[d] \notin DOMAIN docs \cup excused

\* In the folders taken and not passed over only that is left which this one still has to take.
Swept ==
  job = "sync" =>
    \A s \in sources \ (left \cup skipped), d \in DOMAIN docs, x \in Suffixes :
      Due(s, d, x) => s = root /\ (d \in todo \/ (x = ".new" /\ place = ".bak"))

LEMMA SweptThrough ==
  ASSUME Swept, job = "sync", Through,
         NEW s \in sources \ (left \cup skipped), NEW d \in DOMAIN docs, NEW x \in Suffixes
  PROVE  ~Due(s, d, x)
BY DEF Swept, Through, Due

\* What is due is listed.
LEMMA DueListed ==
  ASSUME FoldersInv, NEW s \in sources, NEW d \in DOMAIN docs, NEW x \in Suffixes, Due(s, d, x)
  PROVE  d \in Listed(Dir(s, x, FALSE))
<1>1. IsPicture(docs[d]) /\ IsSource(s)
  BY Places, Given DEF FoldersInv, TypeOK
<1>2. Shows(Under(s, x), Under(docs[d], x))
  BY <1>1, ShowsUnder DEF Due
<1>3. Dir(s, x, FALSE) = Under(s, x)
  BY <1>1, DirIsUnder
<1>4. QED BY <1>2, <1>3 DEF Due, Listed

\* A file Sync takes is none of the pictures.
LEMMA TakenIsDerived ==
  ASSUME FoldersInv, job = "sync", NEW d \in todo
  PROVE  /\ d.path[1] = WorkingDir[1] /\ d \in Docs
         /\ IsSource(root) /\ place \in Suffixes /\ Below(d, Under(root, place))
<1>1. Below(d, Dir(root, place, FALSE)) /\ IsSource(root) /\ place \in Suffixes /\ d \in Docs
  BY Given DEF FoldersInv, TypeOK, Listing, Suffixes, Syncing
<1>2. Below(d, Under(root, place))
  BY <1>1, DirIsUnder
<1>3. root \in Docs /\ Len(root.path) \in Nat /\ Len(root.path) > 0
  BY <1>1, DocParts DEF IsSource
<1>4. /\ Under(root, place) \in Docs /\ Len(Under(root, place).path) = Len(root.path) + 1
      /\ Under(root, place).path[1] = WorkingDir[1]
  BY <1>1, <1>3, UnderType
<1>5. 1 \in 1..Len(Under(root, place).path)
  BY <1>3, <1>4
<1>6. d.path[1] = WorkingDir[1]
  BY <1>1, <1>2, <1>4, <1>5, BelowNames
<1>7. QED BY <1>1, <1>2, <1>6

LEMMA NextSwept == ASSUME FoldersInv, FoldersInv', Swept, [Next]_vars PROVE Swept'
<1>1. ASSUME UNCHANGED <<job, sources, left, skipped, root, place, todo, inPlace>>,
             \A s, x : \A d \in DOMAIN docs' :
               Due(s, d, x)' => d \in DOMAIN docs /\ Due(s, d, x)
      PROVE  Swept'
  BY <1>1 DEF Swept
<1>2. ASSUME NEW p \in Pictures, UserSaves(p) PROVE Swept'
  <2>1. /\ DOMAIN docs' = DOMAIN docs \cup {p}
        /\ \A d \in DOMAIN docs' : docs'[d] = IF d = p THEN p ELSE docs[d]
    BY <1>2 DEF UserSaves, With
  <2>2. UNCHANGED <<job, sources, left, skipped, root, place, todo, inPlace, excused>>
    BY <1>2 DEF UserSaves, jobVars
  <2>3. ASSUME NEW d \in DOMAIN docs', NEW s, NEW x, Due(s, d, x)'
        PROVE  d \in DOMAIN docs /\ Due(s, d, x)
    <3>1. docs'[d] \notin DOMAIN docs' /\ docs'[d] \notin excused
      BY <2>2, <2>3 DEF Due
    <3>2. d # p
      BY <2>1, <3>1
    <3>3. d \in DOMAIN docs /\ docs'[d] = docs[d]
      BY <2>1, <2>3, <3>2
    <3>4. docs[d] \notin DOMAIN docs \cup excused
      BY <2>1, <3>1, <3>3
    <3>5. Shows(s, docs[d]) /\ d = Under(docs[d], x) /\ (x = ".new" => ~inPlace)
      BY <2>2, <2>3, <3>3 DEF Due, Shows, Below, Under
    <3>6. QED BY <3>3, <3>4, <3>5 DEF Due
  <2>4. QED BY <1>1, <2>2, <2>3
<1>3. ASSUME NEW p \in Pictures, UserDeletes(p), job = "sync" PROVE Swept'
  <2>1. /\ DOMAIN docs' = DOMAIN docs \ {p} /\ \A d \in DOMAIN docs' : docs'[d] = docs[d]
        /\ excused' = excused \cup {p}
    BY <1>3 DEF UserDeletes, Without
  <2>2. UNCHANGED <<job, sources, left, skipped, root, place, todo, inPlace>>
    BY <1>3 DEF UserDeletes, jobVars
  <2>3. ASSUME NEW d \in DOMAIN docs', NEW s, NEW x, Due(s, d, x)'
        PROVE  d \in DOMAIN docs /\ Due(s, d, x)
    BY <2>1, <2>2, <2>3 DEF Due, Shows, Below, Under
  <2>4. QED BY <1>1, <2>2, <2>3
<1>4. CASE UserChooses \/ End \/ AddThumbnail \/ Start("add") \/ Start("list")
  BY <1>4 DEF UserChooses, End, AddThumbnail, Start, jobVars, Swept
<1>5. CASE Start("sync")
  BY <1>5 DEF Start, Swept
<1>6. CASE TakeFolder /\ job = "sync"
  <2>1. PICK r \in left :
          /\ left' = left \ {r}
          /\ \/ skipped' = skipped \cup {r}
             \/ /\ root' = r /\ UNCHANGED skipped
                /\ todo' = Listed(Dir(r, ".bak", FALSE)) /\ place' = ".bak"
    BY <1>6 DEF TakeFolder
  <2>2. Through /\ r \in sources /\ UNCHANGED <<docs, sources, inPlace, job, excused>>
    BY <1>6, <2>1 DEF TakeFolder, FoldersInv, TypeOK
  <2>3. ASSUME NEW s \in sources \ (left' \cup skipped'),
               NEW d \in DOMAIN docs, NEW x \in Suffixes, Due(s, d, x)
        PROVE  s = root' /\ (d \in todo' \/ (x = ".new" /\ place' = ".bak"))
    <3>1. s = r /\ skipped' = skipped
      BY <1>6, <2>1, <2>2, <2>3, SweptThrough
    <3>2. /\ s \notin skipped' /\ root' = r /\ place' = ".bak"
          /\ todo' = Listed(Dir(r, ".bak", FALSE))
      BY <2>1, <2>3, <3>1
    <3>3. x = ".bak" => d \in todo'
      BY <2>2, <2>3, <3>1, <3>2, DueListed
    <3>4. QED BY <3>1, <3>2, <3>3 DEF Suffixes
  <2>4. \A s, x : \A d \in DOMAIN docs : Due(s, d, x)' <=> Due(s, d, x)
    BY <2>2 DEF Due, Shows, Below, Under
  <2>5. QED BY <2>2, <2>3, <2>4 DEF Swept
<1>7. CASE TakeFolder /\ job # "sync"
  BY <1>7 DEF TakeFolder, Swept
<1>8. CASE SyncOutputs /\ job = "sync"
  <2>1. /\ job = "sync" /\ todo = {} /\ place = ".bak" /\ place' = ".new"
        /\ todo' = Listed(Dir(root, ".new", FALSE))
        /\ UNCHANGED <<docs, sources, inPlace, job, left, root, skipped, excused>>
    BY <1>8 DEF SyncOutputs
  <2>2. ASSUME NEW s \in sources \ (left \cup skipped), NEW d \in DOMAIN docs, NEW x \in Suffixes, Due(s, d, x)
        PROVE  s = root /\ d \in todo'
    <3>1. s = root /\ x = ".new"
      BY <2>1, <2>2 DEF Swept
    <3>2. QED BY <2>1, <2>2, <3>1, DueListed
  <2>3. \A s, x : \A d \in DOMAIN docs : Due(s, d, x)' <=> Due(s, d, x)
    BY <2>1 DEF Due, Shows, Below, Under
  <2>4. QED BY <2>1, <2>2, <2>3 DEF Swept
<1>9. CASE SyncFile /\ job = "sync"
  <2>1. PICK d0 \in todo :
          /\ todo' = todo \ {d0}
          /\ \/ Exists(SrcDocument(d0, getDD1(root)), root) /\ UNCHANGED <<docs, excused>>
             \/ docs' = Without(docs, d0) /\ UNCHANGED excused
             \/ /\ d0 \in DOMAIN docs => excused' = excused \cup {docs[d0]}
                /\ d0 \notin DOMAIN docs => UNCHANGED excused
                /\ UNCHANGED docs
    BY <1>9 DEF SyncFile
  <2>2. job = "sync" /\ UNCHANGED <<sources, inPlace, job, left, root, place, skipped>>
    BY <1>9 DEF SyncFile
  <2>3. /\ d0.path[1] = WorkingDir[1] /\ IsSource(root) /\ place \in Suffixes
        /\ Below(d0, Under(root, place))
    BY <2>2, TakenIsDerived
  <2>4. ASSUME NEW s \in sources \ (left \cup skipped), NEW d \in DOMAIN docs', NEW x \in Suffixes, Due(s, d, x)'
        PROVE  d \in DOMAIN docs /\ d # d0 /\ Due(s, d, x)
    <3>1. /\ d \in DOMAIN docs /\ docs'[d] = docs[d]
          /\ DOMAIN docs \ {d0} \subseteq DOMAIN docs' /\ excused \subseteq excused'
      BY <2>1 DEF Without
    <3>2. IsPicture(docs[d])
      BY <3>1, Places DEF FoldersInv
    <3>3. docs[d] # d0
      BY <2>3, <3>2 DEF IsPicture
    <3>4. /\ Shows(s, docs[d]) /\ d = Under(docs[d], x) /\ (x = ".new" => ~inPlace)
          /\ docs[d] \notin DOMAIN docs' \cup excused'
      BY <2>2, <2>4, <3>1 DEF Due, Shows, Below, Under
    <3>5. Due(s, d, x)
      BY <3>1, <3>3, <3>4 DEF Due
    <3>6. d # d0
      <4>1. SUFFICES ASSUME d = d0 PROVE FALSE
        OBVIOUS
      <4>2. Exists(SrcDocument(d0, getDD1(root)), root)
        BY <2>1, <3>1, <3>4, <4>1 DEF Without
      <4>3. SrcDocument(Under(docs[d], x), getDD1(root)) = docs[d]
        BY <2>3, <3>2, <3>4, <4>1, RoundTrip
      <4>4. docs[d] \in DOMAIN docs
        BY <3>4, <4>1, <4>2, <4>3 DEF Exists
      <4>5. QED BY <3>5, <4>4 DEF Due
    <3>7. QED BY <3>1, <3>5, <3>6
  <2>5. QED BY <2>1, <2>2, <2>4 DEF Swept
<1>10. CASE UNCHANGED vars
  <2>1. UNCHANGED <<docs, excused, job, sources, left, skipped, root, place, todo, inPlace>>
    BY <1>10 DEF vars, jobVars
  <2>2. \A s, x : \A d \in DOMAIN docs' : Due(s, d, x)' => d \in DOMAIN docs /\ Due(s, d, x)
    BY <2>1 DEF Due, Shows, Below, Under
  <2>3. QED BY <1>1, <2>1, <2>2
<1>11. CASE (SyncOutputs \/ SyncFile) /\ job # "sync"
  BY <1>11 DEF SyncOutputs, SyncFile, Swept
<1>12. ASSUME NEW p \in Pictures, UserDeletes(p), job # "sync" PROVE Swept'
  BY <1>12 DEF UserDeletes, jobVars, Swept
<1>13. QED
  BY <1>2, <1>3, <1>4, <1>5, <1>6, <1>7, <1>8, <1>9, <1>10, <1>11, <1>12 DEF Next

LEMMA SweptIsThorough == ASSUME FoldersInv, Swept PROVE SyncThorough
<1>1. ASSUME job = "sync", Through, left = {}, NEW d \in DOMAIN docs, NEW s \in sources \ skipped,
             Shows(s, docs[d]),
             d = Derived(docs[d], ".bak") \/ (~inPlace /\ d = Derived(docs[d], ".new"))
      PROVE  docs[d] \in DOMAIN docs \cup excused
  <2>1. ".bak" \in Suffixes /\ ".new" \in Suffixes /\ ".bak" # ".new"
    BY DEF Suffixes
  <2>2. /\ Derived(docs[d], ".bak") = Under(docs[d], ".bak")
        /\ Derived(docs[d], ".new") = Under(docs[d], ".new")
    BY <2>1, Places, PlaceIsUnder DEF FoldersInv
  <2>3. PICK x \in Suffixes : d = Under(docs[d], x) /\ (x = ".new" => ~inPlace)
    BY <1>1, <2>1, <2>2
  <2>4. ~Due(s, d, x)
    BY <1>1, SweptThrough
  <2>5. QED BY <1>1, <2>3, <2>4 DEF Due
<1>2. QED BY <1>1 DEF SyncThorough

\* When Sync is through nothing it had to delete is left for the sake of the folders
\* it took, whatever these are: of each it lists the place where what is to be
\* deleted must be.  What belongs only to a folder it passed over is left.
THEOREM NothingLeftBehind == Spec => []SyncThorough
<1>1. Init => FoldersInv /\ Swept
  BY InitFolders DEF Init, Swept
<1>2. FoldersInv /\ Swept /\ [Next]_vars => (FoldersInv /\ Swept)'
  BY NextFolders, NextSwept
<1>3. FoldersInv /\ Swept => SyncThorough
  BY SweptIsThorough
<1>4. QED BY <1>1, <1>2, <1>3, PTL DEF Spec
=============================================================================
