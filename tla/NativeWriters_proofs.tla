-------------------------- MODULE NativeWriters_proofs --------------------------
(***************************************************************************)
(* Proofs about NativeWriters: types; what exiv2 complained about is       *)
(* delivered only when the settings allow it; libexif loses no tags        *)
(* without an error; both writers keep WriterContract.                     *)
(***************************************************************************)
EXTENDS NativeWriters, FiniteSetTheorems, WellFoundedInduction, TLAPS

-----------------------------------------------------------------------------
\* Types.

LEMMA InitTypes == Init => TypeOK
<1> SUFFICES ASSUME Init PROVE TypeOK
  OBVIOUS
<1>1. out.is = "leftover" /\ out.exif = Null
  BY DEF Init, File
<1>2. Null \in Exif
  BY DEF Null, Exif
<1>3. "leftover" \in Left
  BY DEF Left
<1>4. step \in Steps /\ step \notin {"insert", "save"}
  BY DEF Init, Steps
<1>5. raised \in Raises
  BY DEF Init, Raises
<1>6. QED BY <1>1, <1>2, <1>3, <1>4, <1>5 DEF Init, TypeOK

\* The files the writers make.
LEMMA FileTypes ==
  ASSUME NEW kind \in Left PROVE File(kind).is \in Left /\ File(kind).exif \in Exif
BY DEF File, Null, Exif

LEMMA StoredType == ASSUME NEW d \in Exif PROVE Stored(d) \in Exif
BY DEF Stored, Exif

LEMMA MadeTypes ==
  ASSUME NEW d \in Exif, NEW secs
  PROVE  Made(secs, d).is \in Left \cup {"picture"} /\ Made(secs, d).exif \in Exif
<1>1. "cut" \in Left
  BY DEF Left
<1>2. QED BY <1>1, FileTypes, StoredType DEF Made, Picture

LEMMA FirstType ==
  ASSUME NEW a \in Raises, NEW b \in Raises PROVE First(a, b) \in Raises
BY DEF First

LEMMA SavedTypes ==
  ASSUME TypeOK, NEW d \in Exif, NEW s \in Saved(d)
  PROVE  s.out.is \in Left \cup {"picture"} /\ s.out.exif \in Exif /\ s.raised \in Raises
<1>1. PICK l \in Loads :
        s \in LET e == First(l.raised, TooBig(d))
              IN {[out |-> Made(l.secs, d), raised |-> e],
                  [out |-> File("cut"), raised |-> First(e, "Helper")],
                  [out |-> out, raised |-> First(e, "Helper")]}
  BY DEF Saved
<1>2. l.raised \in Raises /\ TooBig(d) \in Raises /\ "Helper" \in Raises /\ "cut" \in Left
  BY DEF Loads, Raises, TooBig, Left
<1>3. QED BY <1>1, <1>2, FirstType, FileTypes, MadeTypes DEF TypeOK

\* Only exiv2 starts with a copy of the picture; what libexif inserts into is read.
OutKnown ==
  /\ step = "copy" => lib = "exiv2"
  /\ step \in {"insert", "save"} => ed.tags # "null"
  /\ lib = "libexif" => out.is \in {"gone", "cut", "leftover", "picture"}
  /\ step \in {"load", "insert", "save", "reload", "saveAgain"} => lib = "libexif"

LEMMA ReloadedTypes ==
  ASSUME TypeOK, OutKnown, step = "reload", NEW l \in Reloaded(out) PROVE l.ed \in Exif /\ l.raised \in Raises
<1>1. Null \in Exif /\ Data("other", "old") \in Exif /\ Data("none", "none") \in Exif
  BY DEF Null, Data, Exif
<1>2. "none" \in Raises /\ "Libexif" \in Raises /\ out.exif \in Exif
  BY DEF Raises, TypeOK
<1>3. \A d \in Exif, e \in Raises : Loaded(d, e).ed \in Exif /\ Loaded(d, e).raised \in Raises
  BY DEF Loaded
<1>4. CASE out.is = "picture"
  <2>1. PICK i \in Stops(out.secs) :
          l \in IF out.secs[i] # "NEW" THEN {Loaded(Null, "Libexif")}
                ELSE IF out.exif.length = "right" THEN {Loaded(out.exif, "none")}
                ELSE CASE pic.size = "edge" -> {Loaded(Null, "none")}
                       [] pic.size = "last" -> {Loaded(Data("none", "none"), "Libexif")}
                       [] OTHER -> {Loaded(Null, "none"), Loaded(Data("none", "none"), "Libexif")}
    BY <1>4 DEF Reloaded
  <2>2. QED BY <1>1, <1>2, <1>3, <2>1
<1>5. CASE out.is \in {"gone", "cut", "leftover"}
  BY <1>1, <1>2, <1>3, <1>5 DEF Reloaded
<1>6. QED BY <1>4, <1>5 DEF OutKnown

\* The types in two halves: what no step of a call changes, with the truth values,
\* and what it works on.
Fixed ==
  /\ lib \in {"libexif", "exiv2"} /\ skipOnError \in BOOLEAN
  /\ level \in {"warn", "error", "none"}
  /\ pic.secs \in Pictures /\ pic.sound \in BOOLEAN /\ pic.size \in Sizes
  /\ (go => step = "done") /\ cleared \in BOOLEAN

Work ==
  /\ step \in Steps
  /\ ed \in Exif
  /\ step \in {"insert", "save"} => ed # Null
  /\ out.is \in Left \cup {"picture"} /\ out.exif \in Exif
  /\ logged \in SUBSET {"Warning", "Error"}
  /\ raised \in Raises

LEMMA WriterHalves == TypeOK <=> Fixed /\ Work
BY DEF TypeOK, Fixed, Work

LEMMA NextFixed ==
  ASSUME Fixed, [Next]_vars PROVE Fixed' /\ lib' = lib
<1> USE DEF settings, vars, GoTo, GiveUp
<1>1. UNCHANGED settings
  BY Zenon DEF Next, Libexif, Exiv2, WriteThumbFile, CopyPicture, Load, InsertThumb, SaveOutput,
     ReloadOutput, SaveAgain, Save, ReadMetadata, Embed, Answer, Clear
<1>2. UNCHANGED lib /\ UNCHANGED skipOnError /\ UNCHANGED level /\ UNCHANGED pic
  BY <1>1, Zenon
<1>3. (go' => step' = "done") /\ cleared' \in BOOLEAN
  <2>1. step = "done" => ~Next
    BY Zenon DEF Next, Libexif, Exiv2, WriteThumbFile, CopyPicture, Load, InsertThumb, SaveOutput,
     ReloadOutput, SaveAgain, Save, ReadMetadata, Embed, Answer, Clear
  <2>2. CASE Answer
    BY <2>2, Zenon DEF Fixed, Answer
  <2>3. CASE Clear
    BY <2>1, <2>3, Zenon DEF Fixed, Clear, Next
  <2>4. CASE WriteThumbFile \/ CopyPicture \/ Libexif \/ ReadMetadata \/ Embed
    <3>1. UNCHANGED go /\ UNCHANGED cleared
      BY <2>4, Zenon DEF Libexif, WriteThumbFile, CopyPicture, Load, InsertThumb, SaveOutput,
     ReloadOutput, SaveAgain, Save, ReadMetadata, Embed
    <3>2. ~go
      BY <2>1, <2>4, Zenon DEF Fixed, Next, Exiv2
    <3>3. QED BY <3>1, <3>2, Zenon DEF Fixed
  <2>5. CASE UNCHANGED vars
    <3>1. UNCHANGED go /\ UNCHANGED cleared /\ UNCHANGED step
      BY <2>5, Zenon
    <3>2. QED BY <3>1, Zenon DEF Fixed
  <2>6. QED BY <2>2, <2>3, <2>4, <2>5, Zenon DEF Next, Exiv2
<1>4. QED BY <1>2, <1>3, Zenon DEF Fixed

\* One step per action.
LEMMA NextWork == ASSUME Work, TypeOK, OutKnown, [Next]_vars PROVE Work' /\ OutKnown'
<1> USE DEF Work, OutKnown
<1>a. /\ "leftover" \in Left /\ "gone" \in Left /\ "copy" \in Left /\ "cut" \in Left
      /\ \A k \in Left : File(k).is = k /\ File(k).exif \in Exif
  BY FileTypes DEF Left, File
<1>b. /\ "Helper" \in Raises /\ "Libexif" \in Raises /\ "none" \in Raises
      /\ "Warn" \in Raises /\ "Error" \in Raises
  BY DEF Raises
<1>c. lib' = lib
  BY WriterHalves, NextFixed
<1>d. lib \in {"libexif", "exiv2"}
  BY DEF TypeOK
<1>1. CASE WriteThumbFile
  BY <1>c, <1>d, <1>1 DEF WriteThumbFile, GiveUp, GoTo, Steps
<1>2. CASE CopyPicture
  BY <1>a, <1>c, <1>2 DEF CopyPicture, GiveUp, GoTo, Steps
<1>3. CASE Load
  <2>1. CASE GoTo("answer") /\ raised' = "Helper" /\ UNCHANGED <<ed, out, logged>>
    BY <1>b, <1>c, <1>3, <2>1 DEF Load, GoTo, Steps
  <2>2. ASSUME NEW i \in Stops(pic.secs),
               ed' = CASE pic.secs[i] = "EXIF" -> Data(IF pic.sound THEN "own" ELSE "part", "old")
                       [] pic.secs[i] = "APP1" -> Data("none", "none")
                       [] OTHER                -> Data("fresh", "none"),
               raised' \in {"Libexif", "none"}, GoTo("insert"), UNCHANGED <<out, logged>>
        PROVE  Work' /\ OutKnown'
    <3>1. ed' \in Exif /\ ed' # Null /\ ed'.tags # "null"
      BY <2>2 DEF Data, Exif, Null
    <3>2. QED BY <1>c, <1>3, <1>b, <2>2, <3>1 DEF GoTo, Steps, Load
  <2>3. QED BY <1>3, <2>1, <2>2 DEF Load
<1>4. CASE InsertThumb
  <2>1. ed' \in Exif /\ ed' # Null /\ ed'.tags # "null" /\ step' = "save"
    BY <1>c, <1>4 DEF InsertThumb, GoTo, Exif, Null
  <2>2. raised' \in Raises
    BY <1>4, <1>b, FirstType DEF InsertThumb
  <2>3. QED BY <1>c, <1>4, <2>1, <2>2 DEF InsertThumb, GoTo, Steps
<1>5. ASSUME NEW next \in {"reload", "answer"}, Save(next), step \in {"save", "saveAgain"}
      PROVE  Work' /\ OutKnown'
  <2>1. PICK s \in Saved(ed) : out' = s.out /\ raised' = First(raised, s.raised)
    BY <1>5 DEF Save
  <2>2. out'.is \in Left \cup {"picture"} /\ out'.exif \in Exif /\ raised' \in Raises
    BY <2>1, SavedTypes, FirstType
  <2>3. out'.is \in {"gone", "cut", "leftover", "picture"}
    <3>1. /\ File("cut").is = "cut" /\ out.is \in {"gone", "cut", "leftover", "picture"}
          /\ \A secs : Made(secs, ed).is \in {"cut", "picture"}
      BY <1>5 DEF File, Made, Picture
    <3>2. s.out \in {out, File("cut")} \cup {Made(l.secs, ed) : l \in Loads}
      BY DEF Saved
    <3>3. QED BY <2>1, <3>1, <3>2
  <2>4. QED BY <1>c, <1>5, <2>2, <2>3 DEF Save, GoTo, Steps
<1>6. CASE SaveOutput \/ SaveAgain
  BY <1>5, <1>6 DEF SaveOutput, SaveAgain
<1>7. CASE ReloadOutput
  <2>1. PICK l \in Reloaded(out) : ed' = l.ed /\ raised' = First(raised, l.raised)
    BY <1>7 DEF ReloadOutput
  <2>2. ed' \in Exif /\ raised' \in Raises
    BY <1>7, <2>1, ReloadedTypes, FirstType DEF ReloadOutput
  <2>3. QED BY <1>c, <1>7, <2>2 DEF ReloadOutput, GoTo, Steps
<1>8. CASE ReadMetadata
  BY <1>c, <1>8, <1>b DEF ReadMetadata, GoTo, Steps
<1>9. CASE Embed
  <2>1. \A secs : /\ Picture(secs, Data("own", "new")).is = "picture"
                  /\ Picture(secs, Data("own", "new")).exif \in Exif
    BY DEF Picture, Data, Exif
  <2>2. /\ out'.is \in Left \cup {"picture"} /\ out'.exif \in Exif
        /\ lib = "libexif" => out'.is \in {"gone", "cut", "leftover", "picture"}
    BY <1>9, <1>a, <2>1 DEF Embed
  <2>3. raised' \in Raises /\ logged' \in SUBSET {"Warning", "Error"}
    BY <1>9, <1>b DEF Embed
  <2>4. QED BY <1>c, <1>9, <2>2, <2>3 DEF Embed, GoTo, Steps
<1>10. CASE Answer
  BY <1>c, <1>10, <1>a DEF Answer, Steps
<1>11. CASE Clear
  BY <1>c, <1>11, <1>a DEF Clear
<1>12. CASE UNCHANGED vars
  BY <1>c, <1>12 DEF vars
<1>13. QED
  BY <1>1, <1>2, <1>3, <1>4, <1>6, <1>7, <1>8, <1>9, <1>10, <1>11, <1>12
     DEF Next, Libexif, Exiv2

LEMMA NextTypes == ASSUME TypeOK, OutKnown, [Next]_vars PROVE TypeOK' /\ OutKnown'
<1>1. Fixed' /\ Work' /\ OutKnown'
  BY WriterHalves, NextFixed, NextWork
<1>2. QED BY <1>1 DEF Fixed, Work, TypeOK

\* Every call has its types, for pictures of any number of sections.
THEOREM WriterTypes == Spec => []TypeOK
<1>1. Init => TypeOK /\ OutKnown
  BY InitTypes DEF Init, OutKnown, File
<1>2. TypeOK /\ OutKnown /\ [Next]_vars => (TypeOK /\ OutKnown)'
  BY NextTypes
<1>3. QED BY <1>1, <1>2, PTL DEF Spec

-----------------------------------------------------------------------------
\* Messages.

\* Until the metadata is read nothing is logged; what was logged by the time the
\* call comes back has raised something, an error unless exiv2 gave up.
GradedInv ==
  /\ level \in {"warn", "error", "none"}
  /\ step \notin {"embed", "answer", "done"} => logged = {}
  /\ step = "answer" /\ logged # {} => raised \in {"Warn", "Error"}
  /\ go => step = "done"
  /\ Graded

LEMMA NextGraded == ASSUME GradedInv, [Next]_vars PROVE GradedInv'
<1> USE DEF GradedInv, Graded, Delivered, settings
<1>1. CASE WriteThumbFile \/ CopyPicture
  BY <1>1 DEF WriteThumbFile, CopyPicture, GiveUp, GoTo
<1>2. CASE Libexif
  BY <1>2 DEF Libexif, Load, InsertThumb, SaveOutput, ReloadOutput, SaveAgain, Save, GoTo
<1>3. CASE ReadMetadata \/ Embed
  BY <1>3 DEF ReadMetadata, Embed, GoTo
<1>4. CASE Answer
  <2>1. step' = "done" /\ go' = Ignored /\ level' = level /\ logged' = logged /\ raised' = raised
    BY <1>4, Zenon DEF Answer
  <2>2. raised = "Warn" /\ Ignored => level # "warn"
    BY Zenon DEF Ignored
  <2>3. raised = "Error" /\ Ignored => level = "none"
    BY Zenon DEF Ignored
  <2>4. logged # {} => raised \in {"Warn", "Error"}
    BY <1>4 DEF Answer
  <2>5. go' /\ logged' # {} => /\ raised' \in {"Warn", "Error"}
                               /\ raised' = "Warn" => level' # "warn"
                               /\ raised' = "Error" => level' = "none"
    BY <2>1, <2>2, <2>3, <2>4, Zenon
  <2>6. Graded'
    BY <2>1, <2>5
  <2>7. QED BY <2>1, <2>6, Zenon
<1>5. CASE Clear \/ UNCHANGED vars
  BY <1>5 DEF Clear, vars
<1>6. QED BY <1>1, <1>2, <1>3, <1>4, <1>5 DEF Next, Exiv2

\* What exiv2 complained about is delivered only at a level that allows it,
\* whatever it logged and wherever the call broke off.
THEOREM ComplaintsHeeded == Spec => []Graded
<1>1. Init => GradedInv
  BY DEF Init, GradedInv, Graded, Delivered
<1>2. GradedInv /\ [Next]_vars => GradedInv'
  BY NextGraded
<1>3. GradedInv => Graded
  BY DEF GradedInv
<1>4. QED BY <1>1, <1>2, <1>3, PTL DEF Spec

-----------------------------------------------------------------------------
\* Tags.

\* A picture has one EXIF section at most.
OneExif(secs) ==
  \A i, j \in DOMAIN secs : secs[i] = "EXIF" /\ secs[j] = "EXIF" => i = j

\* Does the loader find it?
Found(secs) == \E i \in Stops(secs) : secs[i] = "EXIF"
Tags(secs) == IF Found(secs) THEN "own" ELSE "fresh"

\* Does it find the new section in the output?
Refound(secs) == \E i \in Stops(WithExif(secs)) : WithExif(secs)[i] = "NEW"

LEMMA PictureParts ==
  ASSUME NEW secs \in Pictures
  PROVE  /\ secs \in Seq(Kinds \cup {"SOI", "SOS", "EOI"})
         /\ secs # <<>> /\ DOMAIN secs = 1..Len(secs) /\ Len(secs) \in Nat
         /\ Len(secs) >= 1 /\ secs[Len(secs)] = "EOI"
         /\ \A i \in 1..(Len(secs) - 1) : secs[i] # "EOI"
<1>1. PICK n \in 0..MaxMiddle : \E m \in [1..n -> Kinds] : secs = <<"SOI">> \o m \o <<"SOS", "EOI">>
  BY DEF Pictures
<1>0. PICK m \in [1..n -> Kinds] : secs = <<"SOI">> \o m \o <<"SOS", "EOI">>
  BY <1>1
<1> DEFINE K == Kinds \cup {"SOI", "SOS", "EOI"}
<1>2. n \in Nat
  BY WritersAssumption
<1>3. m \in Seq(K) /\ <<"SOI">> \in Seq(K) /\ <<"SOS", "EOI">> \in Seq(K)
  BY <1>2
<1> HIDE DEF K
<1>4. secs \in Seq(K) /\ Len(secs) > 0
  BY <1>0, <1>3
<1>5. /\ Len(secs) = n + 3 /\ secs[1] = "SOI" /\ secs[n + 2] = "SOS" /\ secs[n + 3] = "EOI"
      /\ \A i \in 2..(n + 1) : secs[i] = m[i - 1]
  <2>1. m \in Seq(K) /\ Len(m) = n
    BY <1>2, <1>3
  <2>2. /\ Len(<<"SOI">> \o m) = n + 1 /\ (<<"SOI">> \o m)[1] = "SOI"
        /\ \A i \in 2..(n + 1) : (<<"SOI">> \o m)[i] = m[i - 1]
        /\ <<"SOI">> \o m \in Seq(K)
    BY <1>2, <1>3, <2>1
  <2>3. QED BY <1>0, <1>2, <1>3, <2>1, <2>2
<1>6. \A i \in 2..(n + 1) : secs[i] # "EOI"
  <2>1. \A i \in 2..(n + 1) : i - 1 \in 1..n
    BY <1>2
  <2>2. "EOI" \notin Kinds
    BY DEF Kinds
  <2>3. QED BY <1>5, <2>1, <2>2
<1>7. \A i \in 1..(n + 2) : secs[i] # "EOI"
  BY <1>2, <1>5, <1>6
<1>8. QED BY <1>2, <1>4, <1>5, <1>7 DEF K

LEMMA UniqueExif ==
  ASSUME NEW secs \in Pictures,
         Cardinality({i \in DOMAIN secs : secs[i] = "EXIF"}) <= 1
  PROVE  OneExif(secs)
<1> DEFINE S == {i \in DOMAIN secs : secs[i] = "EXIF"}
<1>1. IsFiniteSet(1..Len(secs))
  BY PictureParts, FS_Interval
<1>2. IsFiniteSet(S)
  BY <1>1, PictureParts, FS_Subset
<1>3. ASSUME NEW i \in S, NEW j \in S, i # j PROVE FALSE
  <2>1. {i, j} \subseteq S /\ Cardinality({i, j}) = 2
    <3>1. IsFiniteSet({i}) /\ Cardinality({i}) = 1 /\ j \notin {i}
      BY <1>3, FS_Singleton
    <3>2. Cardinality({i} \cup {j}) = 2
      BY <3>1, FS_AddElement
    <3>3. {i} \cup {j} = {i, j}
      OBVIOUS
    <3>4. QED BY <1>3, <3>2, <3>3
  <2>2. Cardinality({i, j}) <= Cardinality(S) /\ Cardinality(S) \in Nat
    BY <1>2, <2>1, FS_Subset, FS_CardinalityType
  <2>3. QED BY <2>1, <2>2
<1>4. QED BY <1>3 DEF OneExif

LEMMA MinOfOne == ASSUME NEW k \in Nat PROVE Min({k}) = k
BY DEF Min

LEMMA MinIsIn == ASSUME NEW S, S \subseteq Nat, S # {} PROVE Min(S) \in S /\ \A j \in S : Min(S) <= j
<1>1. PICK k \in S : \A j \in S : ~(<<j, k>> \in OpToRel(<, Nat))
  <2>1. \E k \in S : \A j \in S : ~(<<j, k>> \in OpToRel(<, Nat))
    BY WFMin, NatLessThanWellFounded, Zenon
  <2>2. QED BY <2>1
<1>2. \A j \in S : ~(j < k)
  <2>1. ASSUME NEW j \in S, j < k PROVE <<j, k>> \in OpToRel(<, Nat)
    BY <2>1 DEF OpToRel
  <2>2. QED BY <1>1, <2>1, Zenon
<1>3. \A j \in S : k <= j
  BY <1>2
<1>4. QED BY <1>3 DEF Min

\* A sequence with an element put after its first.
LEMMA Inserted ==
  ASSUME NEW K, NEW s \in Seq(K), s # <<>>, NEW x, NEW r, r = <<s[1], x>> \o Tail(s)
  PROVE  /\ DOMAIN r = 1..(Len(s) + 1) /\ r[1] = s[1] /\ r[2] = x
         /\ \A i \in 2..Len(s) : r[i + 1] = s[i]
<1>1. Len(s) \in Nat /\ Len(s) >= 1 /\ s[1] \in K
  OBVIOUS
<1>2. Tail(s) \in Seq(K) /\ Len(Tail(s)) = Len(s) - 1 /\ \A i \in 1..(Len(s) - 1) : Tail(s)[i] = s[i + 1]
  BY <1>1
<1>3. <<s[1], x>> \in Seq(K \cup {x}) /\ Tail(s) \in Seq(K \cup {x})
  BY <1>1, <1>2
<1>4. QED BY <1>1, <1>2, <1>3

\* Without short sections what is read without a complaint is the whole picture.
LEMMA ReadsAll ==
  ASSUME NEW secs \in Pictures, \A i \in DOMAIN secs : secs[i] # "short", ~Complains(secs)
  PROVE  Read(secs) = secs
<1>1. /\ secs \in Seq(Kinds \cup {"SOI", "SOS", "EOI"}) /\ DOMAIN secs = 1..Len(secs)
      /\ Len(secs) \in Nat
  BY PictureParts
<1>2. \A i \in DOMAIN secs : secs[i] # "junk"
  BY <1>1 DEF Complains
<1>3. Read(secs) = SubSeq(secs, 1, Min({Len(secs)}))
  <2>1. {i - 1 : i \in {i \in DOMAIN secs : secs[i] = "junk"}}
           \cup {i \in DOMAIN secs : secs[i] = "short"} \cup {Len(secs)} = {Len(secs)}
    BY <1>2
  <2>2. QED BY <2>1, Zenon DEF Read
<1>4. QED BY <1>1, <1>3, MinOfOne

\* With a short one the end of the picture is not read.
LEMMA ReadsPart ==
  ASSUME NEW secs \in Pictures, NEW k \in DOMAIN secs, secs[k] = "short"
  PROVE  /\ Read(secs) \in Seq(Kinds \cup {"SOI", "SOS", "EOI"})
         /\ \A i \in 1..Len(Read(secs)) : Read(secs)[i] # "EOI"
<1> DEFINE K == Kinds \cup {"SOI", "SOS", "EOI"}
           S == {i - 1 : i \in {i \in DOMAIN secs : secs[i] = "junk"}}
                  \cup {i \in DOMAIN secs : secs[i] = "short"} \cup {Len(secs)}
<1>1. /\ secs \in Seq(K) /\ DOMAIN secs = 1..Len(secs) /\ Len(secs) \in Nat
      /\ secs[Len(secs)] = "EOI" /\ \A i \in 1..(Len(secs) - 1) : secs[i] # "EOI"
  BY PictureParts
<1>2. S \subseteq 0..Len(secs) /\ k \in S
  BY <1>1
<1>3. Min(S) \in 0..Len(secs) /\ Min(S) <= k
  <2>1. S \subseteq Nat /\ S # {}
    BY <1>1, <1>2
  <2> HIDE DEF S
  <2>2. Min(S) \in S /\ Min(S) <= k
    BY <1>2, <2>1, MinIsIn
  <2>3. QED BY <1>2, <2>2
<1>4. Read(secs) = SubSeq(secs, 1, Min(S))
  BY Zenon DEF Read
<1> HIDE DEF S
<1> HIDE DEF K
<1>5. k < Len(secs) /\ k \in Nat
  BY <1>1
<1>6. /\ SubSeq(secs, 1, Min(S)) \in Seq(K) /\ Len(SubSeq(secs, 1, Min(S))) = Min(S)
      /\ \A i \in 1..Min(S) : SubSeq(secs, 1, Min(S))[i] = secs[i]
  BY <1>1, <1>3
<1>7. \A i \in 1..Min(S) : i \in 1..(Len(secs) - 1)
  BY <1>1, <1>3, <1>5
<1>8. QED BY <1>1, <1>4, <1>6, <1>7 DEF K

\* The new EXIF does not bring it back.
LEMMA StillCut ==
  ASSUME NEW secs \in Seq(Kinds \cup {"SOI", "SOS", "EOI"}), secs # <<>>,
         \A i \in 1..Len(secs) : secs[i] # "EOI"
  PROVE  \A i \in DOMAIN WithExif(secs) : WithExif(secs)[i] # "EOI"
<1> DEFINE ones == {i \in DOMAIN secs : secs[i] \in AppOnes}
<1>1. CASE ones # {}
  BY <1>1 DEF WithExif
<1>2. CASE ones = {}
  <2>1. WithExif(secs) = <<secs[1], "NEW">> \o Tail(secs)
    BY <1>2 DEF WithExif
  <2>2. /\ DOMAIN WithExif(secs) = 1..(Len(secs) + 1) /\ WithExif(secs)[1] = secs[1]
        /\ WithExif(secs)[2] = "NEW"
        /\ \A i \in 2..Len(secs) : WithExif(secs)[i + 1] = secs[i]
    BY <2>1, Inserted
  <2>3. ASSUME NEW i \in 1..(Len(secs) + 1) PROVE WithExif(secs)[i] # "EOI"
    <3>1. Len(secs) \in Nat /\ Len(secs) >= 1
      OBVIOUS
    <3>2. CASE i = 1
      <4>1. secs[1] # "EOI"
        BY <3>1
      <4>2. QED BY <2>2, <3>2, <4>1
    <3>3. CASE i = 2
      BY <2>2, <3>3
    <3>4. CASE i > 2
      <4>1. i - 1 \in 2..Len(secs) /\ (i - 1) + 1 = i /\ i - 1 \in 1..Len(secs)
        BY <3>1, <3>4
      <4>2. WithExif(secs)[i] = secs[i - 1] /\ secs[i - 1] # "EOI"
        BY <2>2, <4>1
      <4>3. QED BY <4>2
    <3>5. QED BY <3>1, <3>2, <3>3, <3>4
  <2>4. QED BY <2>2, <2>3
<1>3. QED BY <1>1, <1>2

\* Without another APP1 the new section takes the place of the EXIF, and is found
\* again only where the EXIF was found.
LEMMA FoundAgain ==
  ASSUME NEW secs \in Pictures, OneExif(secs), \A i \in DOMAIN secs : secs[i] # "APP1",
         NEW k \in DOMAIN secs, secs[k] = "EXIF", Refound(secs)
  PROVE  Found(secs)
<1> DEFINE ones == {i \in DOMAIN secs : secs[i] \in AppOnes}
<1>1. secs \in Seq(Kinds \cup {"SOI", "SOS", "EOI"}) /\ k \in Nat /\ DOMAIN secs = 1..Len(secs)
  BY PictureParts
<1>2. ones = {k}
  <2>1. \A i \in DOMAIN secs : secs[i] \notin {"NEW", "EMPTY", "APP1"}
    BY <1>1 DEF Kinds
  <2>2. QED BY <2>1 DEF OneExif, AppOnes
<1>3. WithExif(secs) = [i \in DOMAIN secs |-> IF i = k THEN "NEW"
                                              ELSE IF secs[i] = "APP1" THEN "EMPTY" ELSE secs[i]]
  BY <1>1, <1>2, MinOfOne DEF WithExif
<1>4. \A i \in DOMAIN secs : secs[i] # "NEW"
  BY <1>1 DEF Kinds
<1>5. k \in Stops(WithExif(secs)) /\ DOMAIN WithExif(secs) = DOMAIN secs
  BY <1>3, <1>4 DEF Refound, Stops
<1>6. \A j \in 1..(k - 1) : WithExif(secs)[j] = secs[j]
  BY <1>1, <1>3
<1>7. k \in Stops(secs)
  BY <1>5, <1>6 DEF Stops
<1>8. QED BY <1>7 DEF Found

Kept(secs) == {i \in DOMAIN secs : secs[i] \notin AppOnes}
Rank(secs, i) == Cardinality({j \in Kept(secs) : j <= i})

LEMMA OthersByRank ==
  ASSUME NEW secs
  PROVE  Others(secs) = {<<Rank(secs, i), secs[i]>> : i \in Kept(secs)}
BY DEF Others, Kept, Rank

\* As long as no error is pending: what is loaded, saved, loaded again and saved
\* again holds the tags of the picture, or nothing; of a picture with a short
\* section it has no end.
Clean == lib = "libexif" /\ raised = "none"
           /\ \A i \in DOMAIN pic.secs : pic.secs[i] \notin {"APP1", "short"}

Endless == \A i \in DOMAIN out.secs : out.secs[i] # "EOI"

TagsInv ==
  /\ pic.secs \in Pictures /\ OneExif(pic.secs)
  /\ go => step = "done"
  /\ lib = "libexif" => step \notin {"copy", "read", "embed"}
  /\ Clean =>
       /\ step \in {"insert", "save"} => ed.tags = Tags(pic.secs)
       /\ step = "reload" /\ out.is # "gone" =>
            /\ out.is = "picture" /\ out.secs = WithExif(pic.secs)
            /\ out.exif.tags = Tags(pic.secs)
       /\ step = "saveAgain" /\ ed # Null => Refound(pic.secs) /\ ed.tags = Tags(pic.secs)
       /\ (step = "answer" \/ go) /\ out.is = "picture" /\ out.exif.length # "wrong" =>
            Refound(pic.secs) /\ out.exif.tags = Tags(pic.secs)
  /\ lib = "libexif" /\ raised = "none" /\ Has("short") /\ (step = "answer" \/ go) => Endless

LEMMA TagsInvKeeps == ASSUME TagsInv, OutKnown PROVE TagsKept
<1> SUFFICES ASSUME Delivered, lib = "libexif", raised = "none", LeftAs = "thumbnailed", ~Has("APP1")
             PROVE  out.exif.tags = IF Has("EXIF") THEN "own" ELSE "fresh"
  BY DEF TagsKept
<1>1. out.is = "picture" /\ out.exif.length # "wrong"
  <2>1. out.is \in {"gone", "cut", "leftover", "picture"}
    BY DEF OutKnown
  <2>2. CASE out.is # "picture"
    <3>1. LeftAs = out.is
      BY <2>2, Zenon DEF LeftAs
    <3>2. QED BY <2>1, <3>1
  <2>3. CASE out.is = "picture" /\ out.exif.length = "wrong"
    <3>1. LeftAs = "cut"
      BY <2>3, Zenon DEF LeftAs
    <3>2. QED BY <3>1
  <2>4. QED BY <2>2, <2>3
<1>0. ~Has("short")
  <2> SUFFICES ASSUME Has("short") PROVE FALSE
    OBVIOUS
  <2>1. Endless
    BY DEF TagsInv, Delivered
  <2>2. /\ pic.secs[Len(pic.secs)] = "EOI" /\ Len(pic.secs) \in DOMAIN pic.secs
        /\ "EOI" \notin AppOnes
    BY PictureParts DEF TagsInv, AppOnes
  <2> DEFINE n == Len(pic.secs)  x == <<Rank(pic.secs, n), pic.secs[n]>>
  <2>3. x \in Others(pic.secs)
    <3>1. n \in Kept(pic.secs)
      BY <2>2 DEF Kept
    <3>2. QED BY <3>1, OthersByRank, Zenon
  <2>4. x \notin Others(out.secs)
    <3> SUFFICES ASSUME x \in Others(out.secs) PROVE FALSE
      OBVIOUS
    <3>1. PICK i \in Kept(out.secs) : x = <<Rank(out.secs, i), out.secs[i]>>
      BY OthersByRank, Zenon
    <3>2. i \in DOMAIN out.secs /\ out.secs[i] = pic.secs[n]
      BY <3>1 DEF Kept
    <3>3. QED BY <2>1, <2>2, <3>2 DEF Endless
  <2>5. LeftAs = "cut"
    <3>1. Others(out.secs) # Others(pic.secs)
      BY <2>3, <2>4, Zenon
    <3>2. QED BY <1>1, <3>1, Zenon DEF LeftAs
  <2>6. QED BY <2>5
<1>2. Refound(pic.secs) /\ out.exif.tags = Tags(pic.secs)
  BY <1>0, <1>1 DEF TagsInv, Clean, Has, Delivered
<1>3. CASE Has("EXIF")
  <2>1. Found(pic.secs)
    BY <1>2, <1>3, FoundAgain DEF TagsInv, Has
  <2>2. QED BY <1>2, <1>3, <2>1 DEF Tags
<1>4. CASE ~Has("EXIF")
  BY <1>2, <1>4 DEF Tags, Found, Stops, Has
<1>5. QED BY <1>3, <1>4

LEMMA NextPicture == ASSUME [Next]_vars PROVE lib' = lib /\ pic' = pic
BY Zenon DEF Next, Libexif, Exiv2, WriteThumbFile, CopyPicture, Load, InsertThumb, SaveOutput,
     ReloadOutput, SaveAgain, Save, ReadMetadata, Embed, Answer, Clear, GoTo, GiveUp, vars, settings

\* A save that raises nothing wrote the whole picture.
LEMMA SavedWhole ==
  ASSUME NEW d, NEW s \in Saved(d), s.raised = "none", pic.secs \in Pictures, ~Has("short")
  PROVE  s.out = Picture(WithExif(pic.secs), Stored(d))
<1>1. PICK l \in Loads :
        s \in LET e == First(l.raised, TooBig(d))
              IN {[out |-> Made(l.secs, d), raised |-> e],
                  [out |-> File("cut"), raised |-> First(e, "Helper")],
                  [out |-> out, raised |-> First(e, "Helper")]}
  BY DEF Saved
<1>2. s = [out |-> Made(l.secs, d), raised |-> First(l.raised, TooBig(d))] /\ l.raised = "none"
  BY <1>1 DEF First
<1>3. l.secs = pic.secs
  <2>1. l.secs = Read(pic.secs) /\ ~Complains(pic.secs)
    BY <1>2 DEF Loads
  <2>2. QED BY <2>1, ReadsAll DEF Has
<1>4. pic.secs # <<>>
  BY PictureParts
<1>5. QED BY <1>2, <1>3, <1>4 DEF Made

\* Of a picture with a short section, it wrote no end.
LEMMA SavedCut ==
  ASSUME NEW d, NEW s \in Saved(d), s.raised = "none", pic.secs \in Pictures, Has("short")
  PROVE  \A i \in DOMAIN s.out.secs : s.out.secs[i] # "EOI"
<1>1. PICK l \in Loads :
        s \in LET e == First(l.raised, TooBig(d))
              IN {[out |-> Made(l.secs, d), raised |-> e],
                  [out |-> File("cut"), raised |-> First(e, "Helper")],
                  [out |-> out, raised |-> First(e, "Helper")]}
  BY DEF Saved
<1>2. s.out = Made(l.secs, d) /\ l.raised = "none"
  BY <1>1 DEF First
<1>3. l.secs = Read(pic.secs)
  BY <1>2 DEF Loads
<1>4. /\ l.secs \in Seq(Kinds \cup {"SOI", "SOS", "EOI"})
      /\ \A i \in 1..Len(l.secs) : l.secs[i] # "EOI"
  BY <1>3, ReadsPart DEF Has
<1>5. CASE l.secs = <<>>
  BY <1>2, <1>5 DEF Made, File
<1>6. CASE l.secs # <<>>
  <2>1. s.out.secs = WithExif(l.secs)
    BY <1>2, <1>6 DEF Made, Picture
  <2>2. QED BY <1>4, <1>6, <2>1, StillCut
<1>7. QED BY <1>5, <1>6

LEMMA StoredTags == ASSUME NEW d \in Exif PROVE Stored(d).tags = d.tags
BY DEF Stored, Exif

\* What is loaded again without an error is the section found again.
LEMMA ReloadedSame ==
  ASSUME NEW l \in Reloaded(out), l.raised = "none", out.is \in {"gone", "picture"}, l.ed # Null
  PROVE  /\ out.is = "picture" /\ l.ed = out.exif
         /\ \E i \in Stops(out.secs) : out.secs[i] = "NEW"
<1>1. out.is = "picture"
  BY DEF Reloaded, Loaded
<1>2. PICK i \in Stops(out.secs) :
        l \in IF out.secs[i] # "NEW" THEN {Loaded(Null, "Libexif")}
              ELSE IF out.exif.length = "right" THEN {Loaded(out.exif, "none")}
              ELSE CASE pic.size = "edge" -> {Loaded(Null, "none")}
                     [] pic.size = "last" -> {Loaded(Data("none", "none"), "Libexif")}
                     [] OTHER -> {Loaded(Null, "none"), Loaded(Data("none", "none"), "Libexif")}
  BY <1>1 DEF Reloaded
<1>3. \A d, e : Loaded(d, e).ed = d /\ Loaded(d, e).raised = e
  BY DEF Loaded
<1>4. QED BY <1>1, <1>2, <1>3

LEMMA NextTags == ASSUME TypeOK, TagsInv, [Next]_vars PROVE TagsInv'
<1> USE DEF Has, Endless
<1>0. /\ lib' = lib /\ pic' = pic
      /\ pic.secs \in Pictures /\ OneExif(pic.secs) /\ ed \in Exif
  BY NextPicture DEF TagsInv, TypeOK
<1> DEFINE Pure == \A i \in DOMAIN pic.secs : pic.secs[i] \notin {"APP1", "short"}
<1>1. CASE WriteThumbFile \/ CopyPicture
  BY <1>0, <1>1 DEF WriteThumbFile, CopyPicture, GoTo, GiveUp, TagsInv, Clean
<1>2. CASE Load
  <2>1. step' # "insert" \/ (Pure /\ lib = "libexif" /\ raised' = "none" => ed'.tags = Tags(pic.secs))
    <3> SUFFICES ASSUME step' = "insert", Pure, raised' = "none" PROVE ed'.tags = Tags(pic.secs)
      OBVIOUS
    <3>1. PICK i \in Stops(pic.secs) :
            /\ ed' = CASE pic.secs[i] = "EXIF" -> Data(IF pic.sound THEN "own" ELSE "part", "old")
                       [] pic.secs[i] = "APP1" -> Data("none", "none")
                       [] OTHER                -> Data("fresh", "none")
            /\ raised' = IF pic.secs[i] = "APP1" \/ (pic.secs[i] = "EXIF" /\ ~pic.sound)
                           THEN "Libexif" ELSE "none"
      BY <1>2 DEF Load, GoTo
    <3>2. pic.secs[i] # "APP1"
      BY DEF Stops
    <3>3. CASE pic.secs[i] = "EXIF"
      BY <3>1, <3>3 DEF Data, Tags, Found
    <3>4. CASE pic.secs[i] # "EXIF"
      <4>1. ASSUME NEW j \in Stops(pic.secs), pic.secs[j] = "EXIF" PROVE FALSE
        <5>1. i \in Nat /\ j \in Nat /\ i # j /\ i > 0 /\ j > 0
          BY <1>0, <3>4, <4>1, PictureParts DEF Stops
        <5>2. /\ i \in DOMAIN pic.secs /\ pic.secs[i] \notin {"SOI", "APP0", "APP1", "short"}
              /\ pic.secs[j] \notin {"SOI", "APP0", "APP1", "short"}
          BY <3>2, <4>1 DEF Stops
        <5>3. i \in 1..(j - 1) \/ j \in 1..(i - 1)
          BY <5>1
        <5>4. QED BY <4>1, <5>2, <5>3 DEF Stops
      <4>2. QED BY <3>1, <3>2, <3>4, <4>1 DEF Data, Tags, Found
    <3>5. QED BY <3>3, <3>4
  <2>2. step' \in {"insert", "answer"} /\ go' = go /\ (step' = "answer" => raised' # "none")
    BY <1>2 DEF Load, GoTo
  <2>3. ~go
    BY <1>2 DEF Load, TagsInv
  <2>4. QED BY <1>0, <2>1, <2>2, <2>3 DEF TagsInv, Clean
<1>3. CASE InsertThumb
  <2>1. ed'.tags = ed.tags /\ step = "insert" /\ step' = "save" /\ go' = go
    BY <1>0, <1>3 DEF InsertThumb, GoTo, Exif
  <2>2. raised' = "none" => raised = "none"
    BY <1>3 DEF InsertThumb, First
  <2>3. QED BY <1>0, <2>1, <2>2 DEF TagsInv, Clean
<1>4. CASE SaveOutput
  <2>1. PICK s \in Saved(ed) : out' = s.out /\ raised' = First(raised, s.raised)
    BY <1>4 DEF SaveOutput, Save
  <2>2. step = "save" /\ step' = "reload" /\ go' = go /\ ed' = ed
    BY <1>4 DEF SaveOutput, Save, GoTo
  <2>3. ASSUME Clean'
        PROVE  /\ out'.is = "picture" /\ out'.secs = WithExif(pic.secs)
               /\ out'.exif.tags = Tags(pic.secs)
    <3>1. raised = "none" /\ s.raised = "none"
      BY <2>1, <2>3 DEF Clean, First
    <3>2. out' = Picture(WithExif(pic.secs), Stored(ed))
      BY <1>0, <2>1, <2>3, <3>1, SavedWhole DEF Clean
    <3>3. ed.tags = Tags(pic.secs)
      BY <1>0, <2>2, <2>3, <3>1 DEF TagsInv, Clean
    <3>4. QED BY <1>0, <3>2, <3>3, StoredTags DEF Picture
  <2>4. QED BY <1>0, <2>2, <2>3 DEF TagsInv
<1>5. CASE ReloadOutput
  <2>1. PICK l \in Reloaded(out) : ed' = l.ed /\ raised' = First(raised, l.raised)
    BY <1>5 DEF ReloadOutput
  <2>2. step = "reload" /\ step' = "saveAgain" /\ go' = go
    BY <1>5 DEF ReloadOutput, GoTo
  <2>3. ASSUME Clean', ed' # Null PROVE Refound(pic.secs) /\ ed'.tags = Tags(pic.secs)
    <3>1. raised = "none" /\ l.raised = "none" /\ Clean
      BY <1>0, <2>1, <2>3 DEF Clean, First
    <3>2. out.is # "gone" => /\ out.is = "picture" /\ out.secs = WithExif(pic.secs)
                             /\ out.exif.tags = Tags(pic.secs)
      BY <2>2, <3>1 DEF TagsInv
    <3>3. /\ out.is = "picture" /\ l.ed = out.exif
          /\ \E i \in Stops(out.secs) : out.secs[i] = "NEW"
      BY <2>1, <2>3, <3>1, <3>2, ReloadedSame
    <3>4. QED BY <2>1, <3>2, <3>3 DEF Refound
  <2>4. QED BY <1>0, <2>2, <2>3 DEF TagsInv
<1>6. CASE SaveAgain
  <2>1. PICK s \in Saved(ed) : out' = s.out /\ raised' = First(raised, s.raised)
    BY <1>6 DEF SaveAgain, Save
  <2>2. step = "saveAgain" /\ step' = "answer" /\ go' = go
    BY <1>6 DEF SaveAgain, Save, GoTo
  <2>3. ASSUME Clean', out'.exif.length # "wrong"
        PROVE  Refound(pic.secs) /\ out'.exif.tags = Tags(pic.secs)
    <3>1. raised = "none" /\ s.raised = "none" /\ Clean
      BY <1>0, <2>1, <2>3 DEF Clean, First
    <3>2. out' = Picture(WithExif(pic.secs), Stored(ed))
      BY <1>0, <2>1, <3>1, SavedWhole DEF Clean
    <3>3. out'.exif = Stored(ed)
      BY <3>2 DEF Picture
    <3>4. ed # Null
      BY <2>3, <3>3 DEF Stored, Null
    <3>5. QED BY <1>0, <2>2, <3>1, <3>3, <3>4, StoredTags DEF TagsInv
  <2>4. ASSUME raised' = "none", Has("short") PROVE Endless'
    <3>1. s.raised = "none"
      BY <2>1, <2>4 DEF First
    <3>2. QED BY <1>0, <2>1, <2>4, <3>1, SavedCut
  <2>5. QED BY <1>0, <2>2, <2>3, <2>4 DEF TagsInv
<1>7. CASE ReadMetadata \/ Embed
  BY <1>0, <1>7 DEF ReadMetadata, Embed, GoTo, TagsInv, Clean
<1>8. CASE Answer
  <2>1. /\ step = "answer" /\ step' = "done" /\ raised' = raised
        /\ out'.is = "picture" => out' = out
    BY <1>8 DEF Answer, File
  <2>2. Endless => Endless'
    <3>1. CASE out' = out
      BY <3>1
    <3>2. CASE out' = File("gone")
      BY <3>2 DEF File
    <3>3. QED BY <1>8, <3>1, <3>2, Zenon DEF Answer
  <2>3. QED BY <1>0, <2>1, <2>2 DEF TagsInv, Clean
<1>9. CASE Clear
  <2>1. out'.is = "gone" /\ UNCHANGED <<step, ed, raised>> /\ step \notin {"answer", "done"}
    BY <1>9 DEF Clear, File
  <2>2. go' = go
    BY <1>9, Zenon DEF Clear
  <2>3. QED BY <1>0, <2>1, <2>2 DEF TagsInv, Clean
<1>10. CASE UNCHANGED vars
  <2>1. step' = step /\ ed' = ed /\ out' = out /\ raised' = raised /\ go' = go
    BY <1>10, Zenon DEF vars
  <2>2. QED BY <1>0, <2>1 DEF TagsInv, Clean
<1>11. QED
  BY <1>1, <1>2, <1>3, <1>4, <1>5, <1>6, <1>7, <1>8, <1>9, <1>10 DEF Next, Libexif, Exiv2

\* For pictures of any number of sections: what libexif delivers without an error,
\* of a picture whose only APP1 is its EXIF, has the tags the picture had.
THEOREM TagsNotLost == Spec => []TagsKept
<1>1. Init => TypeOK /\ OutKnown /\ TagsInv
  <2> SUFFICES ASSUME Init PROVE TypeOK /\ OutKnown /\ TagsInv
    OBVIOUS
  <2>1. OneExif(pic.secs) /\ pic.secs \in Pictures
    BY UniqueExif DEF Init
  <2>2. QED BY <2>1, InitTypes DEF Init, OutKnown, TagsInv, File
<1>2. TypeOK /\ OutKnown /\ TagsInv /\ [Next]_vars => (TypeOK /\ OutKnown /\ TagsInv)'
  BY NextTypes, NextTags
<1>3. TagsInv /\ OutKnown => TagsKept
  BY TagsInvKeeps
<1>4. QED BY <1>1, <1>2, <1>3, PTL DEF Spec

-----------------------------------------------------------------------------
\* The contract.

\* Where an APP1 is replaced the other sections stay.
LEMMA OthersReplaced ==
  ASSUME NEW secs, NEW new, DOMAIN new = DOMAIN secs,
         \A i \in DOMAIN secs : IF secs[i] \in AppOnes THEN new[i] \in AppOnes
                                                        ELSE new[i] = secs[i]
  PROVE  Others(new) = Others(secs)
<1>1. Kept(new) = Kept(secs) /\ \A i \in Kept(secs) : new[i] = secs[i]
  BY DEF Kept
<1>2. \A i : Rank(new, i) = Rank(secs, i)
  BY <1>1 DEF Rank
<1>3. {<<Rank(new, i), new[i]>> : i \in Kept(new)} = {<<Rank(secs, i), secs[i]>> : i \in Kept(secs)}
  BY <1>1, <1>2
<1>4. QED BY <1>3, OthersByRank

\* Where one is inserted after the first section, the others move up by one and
\* keep their ranks.
LEMMA OthersInserted ==
  ASSUME NEW n \in Nat, n >= 1, NEW secs, DOMAIN secs = 1..n,
         NEW new, DOMAIN new = 1..(n + 1),
         \A i \in 1..n : secs[i] \notin AppOnes,
         new[1] = secs[1], new[2] \in AppOnes, \A i \in 2..n : new[i + 1] = secs[i]
  PROVE  Others(new) = Others(secs)
<1>1. Kept(secs) = 1..n
  BY DEF Kept
<1>2. \A i \in 3..(n + 1) : new[i] = secs[i - 1]
  <2>1. \A i \in 3..(n + 1) : i - 1 \in 2..n /\ (i - 1) + 1 = i
    OBVIOUS
  <2>2. QED BY <2>1
<1>3. Kept(new) = (1..(n + 1)) \ {2}
  <2>1. ASSUME NEW i \in 3..(n + 1) PROVE new[i] \notin AppOnes
    <3>1. i - 1 \in 1..n
      OBVIOUS
    <3>2. QED BY <1>2, <3>1
  <2>2. new[1] \notin AppOnes
    <3>1. 1 \in 1..n
      OBVIOUS
    <3>2. QED BY <3>1
  <2>3. \A i \in 1..(n + 1) : i = 1 \/ i = 2 \/ i \in 3..(n + 1)
    OBVIOUS
  <2>4. QED BY <2>1, <2>2, <2>3 DEF Kept
<1>4. \A i \in 1..n : Rank(secs, i) = i
  <2> SUFFICES ASSUME NEW i \in 1..n PROVE Rank(secs, i) = i
    OBVIOUS
  <2>1. {j \in Kept(secs) : j <= i} = 1..i
    BY <1>1
  <2>2. Cardinality(1..i) = i
    BY FS_Interval
  <2>3. QED BY <2>1, <2>2 DEF Rank
<1>5. Rank(new, 1) = 1
  <2>1. {j \in Kept(new) : j <= 1} = {1}
    <3>1. 1 \in (1..(n + 1)) \ {2} /\ \A j \in (1..(n + 1)) \ {2} : j <= 1 => j = 1
      OBVIOUS
    <3>2. QED BY <1>3, <3>1
  <2>2. Cardinality({1}) = 1
    BY FS_Singleton
  <2>3. QED BY <2>1, <2>2 DEF Rank
<1>6. \A i \in 3..(n + 1) : Rank(new, i) = i - 1
  <2> SUFFICES ASSUME NEW i \in 3..(n + 1) PROVE Rank(new, i) = i - 1
    OBVIOUS
  <2>1. {j \in Kept(new) : j <= i} = (1..i) \ {2}
    BY <1>3
  <2>2. IsFiniteSet(1..i) /\ Cardinality(1..i) = i /\ 2 \in 1..i
    BY FS_Interval
  <2>3. Cardinality((1..i) \ {2}) = i - 1
    BY <2>2, FS_RemoveElement
  <2>4. QED BY <2>1, <2>3 DEF Rank
<1>7. \A i \in Kept(new) : <<Rank(new, i), new[i]>> \in {<<Rank(secs, j), secs[j]>> : j \in Kept(secs)}
  <2> SUFFICES ASSUME NEW i \in Kept(new)
               PROVE  \E j \in Kept(secs) : Rank(secs, j) = Rank(new, i) /\ secs[j] = new[i]
    OBVIOUS
  <2>1. CASE i = 1
    <3>1. 1 \in 1..n
      OBVIOUS
    <3>2. QED BY <1>1, <1>4, <1>5, <2>1, <3>1
  <2>2. CASE i \in 3..(n + 1)
    <3>1. i - 1 \in 1..n
      BY <2>2
    <3>2. QED BY <1>1, <1>2, <1>4, <1>6, <2>2, <3>1
  <2>3. i = 1 \/ i \in 3..(n + 1)
    BY <1>3
  <2>4. QED BY <2>1, <2>2, <2>3
<1>8. \A j \in Kept(secs) : <<Rank(secs, j), secs[j]>> \in {<<Rank(new, i), new[i]>> : i \in Kept(new)}
  <2> SUFFICES ASSUME NEW j \in Kept(secs)
               PROVE  \E i \in Kept(new) : Rank(new, i) = Rank(secs, j) /\ new[i] = secs[j]
    OBVIOUS
  <2>1. CASE j = 1
    <3>1. 1 \in Kept(new) /\ 1 \in 1..n
      BY <1>3
    <3>2. QED BY <1>4, <1>5, <2>1, <3>1
  <2>2. CASE j \in 2..n
    <3>1. j + 1 \in Kept(new) /\ j + 1 \in 3..(n + 1) /\ (j + 1) - 1 = j
      BY <1>3, <2>2
    <3>2. Rank(new, j + 1) = j /\ new[j + 1] = secs[j] /\ Rank(secs, j) = j
      BY <1>1, <1>4, <1>6, <2>2, <3>1
    <3>3. QED BY <3>1, <3>2
  <2>3. j = 1 \/ j \in 2..n
    BY <1>1
  <2>4. QED BY <2>1, <2>2, <2>3
<1>9. QED BY <1>7, <1>8, OthersByRank

\* jpeg_data_set_exif_data keeps every section that is no APP1.
LEMMA OthersKept == ASSUME NEW secs \in Pictures PROVE Others(WithExif(secs)) = Others(secs)
<1> DEFINE K == Kinds \cup {"SOI", "SOS", "EOI"}
           ones == {i \in DOMAIN secs : secs[i] \in AppOnes}
<1>1. secs \in Seq(K) /\ DOMAIN secs = 1..Len(secs) /\ Len(secs) \in Nat /\ secs # <<>>
  BY PictureParts
<1>2. CASE ones # {}
  <2>1. WithExif(secs) = [i \in DOMAIN secs |-> IF i = Min(ones) THEN "NEW"
                                 ELSE IF secs[i] = "APP1" THEN "EMPTY" ELSE secs[i]]
    BY <1>2 DEF WithExif
  <2>2. Min(ones) \in ones
    <3>1. ones \subseteq Nat
      BY <1>1
    <3>2. QED BY <1>2, <3>1, MinIsIn
  <2>3. {"NEW", "EMPTY", "APP1"} \subseteq AppOnes
    BY DEF AppOnes
  <2>4. \A i \in DOMAIN secs : IF secs[i] \in AppOnes THEN WithExif(secs)[i] \in AppOnes
                                                       ELSE WithExif(secs)[i] = secs[i]
    BY <2>1, <2>2, <2>3
  <2>5. DOMAIN WithExif(secs) = DOMAIN secs
    BY <2>1
  <2>6. QED BY <2>4, <2>5, OthersReplaced
<1>3. CASE ones = {}
  <2>1. WithExif(secs) = <<secs[1], "NEW">> \o Tail(secs)
    BY <1>3 DEF WithExif
  <2>2. /\ DOMAIN WithExif(secs) = 1..(Len(secs) + 1) /\ WithExif(secs)[1] = secs[1]
        /\ WithExif(secs)[2] = "NEW"
        /\ \A i \in 2..Len(secs) : WithExif(secs)[i + 1] = secs[i]
    BY <1>1, <2>1, Inserted
  <2>3. "NEW" \in AppOnes /\ Len(secs) >= 1
    BY <1>1 DEF AppOnes
  <2>4. QED BY <1>1, <1>3, <2>2, <2>3, OthersInserted
<1>4. QED BY <1>2, <1>3

\* The output is the picture with its new thumbnail.
WholeOutput ==
  /\ out.is = "picture" /\ out.exif.length = "right" /\ out.exif.thumb = "new"
  /\ Others(out.secs) = Others(pic.secs)

\* What libexif relies on from step to step: as long as no error is pending, the
\* data at hand has its new thumbnail and a length that was stored as it is.
LibexifInv ==
  lib = "libexif" /\ pic.size # "edge" /\ ~cleared /\ ~Has("short") =>
    /\ level = "warn" /\ step \notin {"copy", "read", "embed"}
    /\ step = "thumbFile" => out.is = "leftover"
    /\ step # "done" => out.is \in {"leftover", "cut", "picture"}
    /\ step = "insert" => ed.length = "right"
    /\ step = "save" /\ raised = "none" => ed.length = "right" /\ ed.thumb = "new"
    /\ step = "reload" /\ raised = "none" =>
         /\ out = Picture(WithExif(pic.secs), Stored(ed)) /\ Size(ed) # "over"
         /\ ed.length = "right" /\ ed.thumb = "new"
    /\ step = "saveAgain" /\ raised = "none" =>
         ed.length = "right" /\ ed.thumb = "new" /\ Size(ed) = "fits"
    /\ step = "answer" /\ raised = "none" => WholeOutput
    /\ step = "done" => [left |-> LeftAs, go |-> go] \in ByLibexif(skipOnError)

\* exiv2 works on a copy, which is the picture with its thumbnail when nothing
\* was raised, and that or what is left of the copy otherwise.
Exiv2Inv ==
  lib = "exiv2" =>
    /\ step \in {"copy", "thumbFile", "read", "embed", "answer", "done"}
    /\ step = "copy" => out.is = "leftover"
    /\ step = "thumbFile" => out.is = "copy"
    /\ step \in {"read", "embed"} => out.is \in {"copy", "gone"}
    /\ step = "answer" => /\ raised \in {"none", "Warn", "Error"}
                          /\ WholeOutput \/ (raised = "Warn" /\ out.is \in {"copy", "cut", "gone"})
    /\ step = "done" => [left |-> LeftAs, go |-> go] \in ByExiv2(level)

LEMMA ContractFixed ==
  ASSUME TypeOK, [Next]_vars
  PROVE  /\ lib' = lib /\ pic' = pic /\ level' = level /\ skipOnError' = skipOnError
         /\ cleared \in BOOLEAN /\ (go => step = "done") /\ (~cleared' => ~cleared)
<1>1. lib' = lib /\ pic' = pic /\ level' = level /\ skipOnError' = skipOnError
  BY Zenon DEF Next, Libexif, Exiv2, WriteThumbFile, CopyPicture, Load, InsertThumb, SaveOutput,
     ReloadOutput, SaveAgain, Save, ReadMetadata, Embed, Answer, Clear, GoTo, GiveUp, vars, settings
<1>2. cleared' = cleared \/ cleared'
  BY Zenon DEF Next, Libexif, Exiv2, WriteThumbFile, CopyPicture, Load, InsertThumb, SaveOutput,
     ReloadOutput, SaveAgain, Save, ReadMetadata, Embed, Answer, Clear, GoTo, GiveUp, vars
<1>3. cleared \in BOOLEAN /\ (go => step = "done")
  BY Zenon DEF TypeOK
<1>4. QED BY <1>1, <1>2, <1>3, Zenon

\* How WriterContract calls an output.
LEMMA LeftAsPicture ==
  /\ WholeOutput => LeftAs = "thumbnailed"
  /\ out.is = "picture" => LeftAs \in {"cut", "thumbnailed", "rewritten"}
  /\ out.is # "picture" => LeftAs = out.is
BY DEF WholeOutput, LeftAs

\* What is saved without an error is complete, and its EXIF not too large.
LEMMA SavedFits ==
  ASSUME NEW d, NEW s \in Saved(d), s.raised = "none" PROVE Size(d) # "over"
<1>1. PICK l \in Loads :
        s \in LET e == First(l.raised, TooBig(d))
              IN {[out |-> Made(l.secs, d), raised |-> e],
                  [out |-> File("cut"), raised |-> First(e, "Helper")],
                  [out |-> out, raised |-> First(e, "Helper")]}
  BY DEF Saved
<1>2. First(l.raised, TooBig(d)) = "none"
  BY <1>1 DEF First
<1>3. TooBig(d) = "none"
  BY <1>2 DEF First
<1>4. QED BY <1>3 DEF TooBig

\* Whatever is saved, an output is there that is no copy.
LEMMA SavedIs ==
  ASSUME NEW d, NEW s \in Saved(d), out.is \in {"leftover", "cut", "picture"}
  PROVE  s.out.is \in {"leftover", "cut", "picture"}
<1>1. s.out \in {out, File("cut")} \cup {Made(l.secs, d) : l \in Loads}
  BY DEF Saved
<1>2. /\ File("cut").is = "cut"
      /\ \A secs : Made(secs, d).is \in {"cut", "picture"}
  BY DEF File, Made, Picture
<1>3. QED BY <1>1, <1>2

\* Data that fits is stored as it is.
LEMMA StoredRight ==
  ASSUME NEW d, d.length = "right"
  PROVE  /\ Size(d) = "fits" => Stored(d) = d
         /\ d \in Exif /\ Stored(d).length = "right" => Size(d) = "fits"
<1>1. d # Null
  BY DEF Null
<1>2. ASSUME d \in Exif, Size(d) # "fits" PROVE Stored(d).length = "wrong"
  BY <1>2 DEF Stored, Exif
<1>3. QED BY <1>1, <1>2 DEF Stored

\* What is read without an error of the output just written is what was written.
LEMMA ReloadedWhole ==
  ASSUME TypeOK, pic.size # "edge", ed.length = "right", Size(ed) # "over",
         out = Picture(WithExif(pic.secs), Stored(ed)),
         NEW l \in Reloaded(out), l.raised = "none"
  PROVE  l.ed = ed /\ Size(ed) = "fits"
<1>1. out.is = "picture" /\ out.exif = Stored(ed)
  BY DEF Picture
<1>2. PICK i \in Stops(out.secs) :
        l \in IF out.secs[i] # "NEW" THEN {Loaded(Null, "Libexif")}
              ELSE IF out.exif.length = "right" THEN {Loaded(out.exif, "none")}
              ELSE CASE pic.size = "edge" -> {Loaded(Null, "none")}
                     [] pic.size = "last" -> {Loaded(Data("none", "none"), "Libexif")}
                     [] OTHER -> {Loaded(Null, "none"), Loaded(Data("none", "none"), "Libexif")}
  BY <1>1 DEF Reloaded
<1>3. \A d, e : Loaded(d, e).ed = d /\ Loaded(d, e).raised = e
  BY DEF Loaded
<1>4. out.secs[i] = "NEW"
  BY <1>2, <1>3
<1>5. CASE out.exif.length = "right"
  <2>1. l = Loaded(out.exif, "none")
    BY <1>2, <1>4, <1>5
  <2>2. Size(ed) = "fits" /\ Stored(ed) = ed
    BY <1>1, <1>5, StoredRight DEF TypeOK
  <2>3. QED BY <1>1, <1>3, <2>1, <2>2
<1>6. CASE out.exif.length # "right"
  <2>1. Size(ed) # "fits"
    BY <1>1, <1>6, StoredRight
  <2>2. Size(ed) = pic.size
    BY <2>1 DEF Size
  <2>3. pic.size = "last"
    BY <2>1, <2>2 DEF TypeOK, Sizes
  <2>4. l = Loaded(Data("none", "none"), "Libexif")
    BY <1>2, <1>4, <1>6, <2>3
  <2>5. QED BY <1>3, <2>4
<1>7. QED BY <1>5, <1>6

\* Answering: what is not ignored is deleted, what is ignored stays as it is.
LEMMA Answered ==
  ASSUME TypeOK, Answer, lib' = lib, pic' = pic
  PROVE  \/ Ignored /\ go' = TRUE /\ LeftAs' = LeftAs
         \/ ~Ignored /\ go' = FALSE /\ LeftAs' = "gone"
<1>0. Ignored \in BOOLEAN
  BY DEF TypeOK, Ignored, Raises
<1>1. CASE Ignored
  <2>1. out' = out
    BY <1>1, Zenon DEF Answer
  <2>2. go' = Ignored
    BY Zenon DEF Answer
  <2>3. LeftAs' = LeftAs
    BY <2>1 DEF LeftAs
  <2>4. QED BY <1>0, <1>1, <2>2, <2>3
<1>2. CASE ~Ignored
  <2>1. out' = File("gone")
    BY <1>2, Zenon DEF Answer
  <2>2. go' = Ignored
    BY Zenon DEF Answer
  <2>3. LeftAs' = "gone"
    BY <2>1 DEF LeftAs, File
  <2>4. QED BY <1>0, <1>2, <2>2, <2>3
<1>3. QED BY <1>1, <1>2

\* When AddThumbsService gives up before the native code, the output is as it was.
LEMMA GivenUp ==
  ASSUME GiveUp, go => step = "done", step # "done", NEW kind, out'.is = kind, kind # "picture"
  PROVE  step' = "done" /\ go' = go /\ ~go /\ LeftAs' = kind
<1>1. step' = "done" /\ go' = go
  BY Zenon DEF GiveUp
<1>2. ~go
  OBVIOUS
<1>3. LeftAs' = kind
  BY DEF LeftAs
<1>4. QED BY <1>1, <1>2, <1>3

\* The pairs of the contract.
LEMMA LibexifPairs ==
  ASSUME NEW skip
  PROVE  /\ \A k \in {"leftover", "gone"} : [left |-> k, go |-> FALSE] \in ByLibexif(skip)
         /\ [left |-> "thumbnailed", go |-> TRUE] \in ByLibexif(skip)
         /\ ~skip => \A k \in {"leftover", "cut", "rewritten"} :
                       [left |-> k, go |-> TRUE] \in ByLibexif(skip)
BY DEF ByLibexif, Ends

LEMMA Exiv2Pairs ==
  ASSUME NEW lev
  PROVE  /\ \A k \in {"leftover", "gone", "copy"} : [left |-> k, go |-> FALSE] \in ByExiv2(lev)
         /\ [left |-> "thumbnailed", go |-> TRUE] \in ByExiv2(lev)
         /\ lev # "warn" => \A k \in {"copy", "cut", "gone"} :
                              [left |-> k, go |-> TRUE] \in ByExiv2(lev)
BY DEF ByExiv2, Ends

LEMMA LibexifNext == ASSUME TypeOK, LibexifInv, [Next]_vars PROVE LibexifInv'
<1> SUFFICES ASSUME lib' = "libexif", pic'.size # "edge", ~cleared', ~Has("short")'
             PROVE  LibexifInv'
  BY DEF LibexifInv
<1>0. /\ lib' = lib /\ lib = "libexif" /\ pic' = pic /\ skipOnError' = skipOnError
      /\ pic.size # "edge" /\ ~cleared /\ ~Has("short") /\ (go => step = "done")
  BY ContractFixed DEF Has
<1>t. pic.secs \in Pictures /\ ed \in Exif
  BY DEF TypeOK
<1>i. /\ level = "warn" /\ level' = "warn"
      /\ step \notin {"copy", "read", "embed"}
      /\ step = "thumbFile" => out.is = "leftover"
      /\ step # "done" => out.is \in {"leftover", "cut", "picture"}
      /\ step = "insert" => ed.length = "right"
      /\ step = "save" /\ raised = "none" => ed.length = "right" /\ ed.thumb = "new"
      /\ step = "reload" /\ raised = "none" =>
           /\ out = Picture(WithExif(pic.secs), Stored(ed)) /\ Size(ed) # "over"
           /\ ed.length = "right" /\ ed.thumb = "new"
      /\ step = "saveAgain" /\ raised = "none" =>
           ed.length = "right" /\ ed.thumb = "new" /\ Size(ed) = "fits"
      /\ step = "answer" /\ raised = "none" => WholeOutput
      /\ step = "done" => [left |-> LeftAs, go |-> go] \in ByLibexif(skipOnError)
  BY <1>0, ContractFixed DEF LibexifInv
<1>1. CASE WriteThumbFile
  <2>1. step = "thumbFile" /\ out' = out
    BY <1>1 DEF WriteThumbFile
  <2>2. CASE GoTo(IF lib = "exiv2" THEN "read" ELSE "load")
    BY <1>0, <1>i, <2>1, <2>2 DEF GoTo, LibexifInv
  <2>3. CASE GiveUp
    <3>1. step' = "done" /\ go' = FALSE /\ LeftAs' = "leftover"
      BY <1>0, <1>i, <2>1, <2>3, GivenUp
    <3>2. [left |-> LeftAs', go |-> go'] \in ByLibexif(skipOnError')
      BY <3>1, LibexifPairs
    <3>3. QED BY <1>i, <3>1, <3>2 DEF LibexifInv
  <2>4. QED BY <1>1, <2>2, <2>3 DEF WriteThumbFile
<1>2. CASE Load
  <2>1. out' = out /\ step = "load" /\ step' \in {"answer", "insert"}
    BY <1>2 DEF Load, GoTo
  <2>2. step' = "answer" => raised' # "none"
    BY <1>2 DEF Load, GoTo
  <2>3. step' = "insert" => ed'.length = "right"
    BY <1>2 DEF Load, GoTo, Data
  <2>4. QED BY <1>i, <2>1, <2>2, <2>3 DEF LibexifInv
<1>3. CASE InsertThumb
  <2>1. out' = out /\ step = "insert" /\ step' = "save"
    BY <1>3 DEF InsertThumb, GoTo
  <2>2. raised' = "none" => ed' = [ed EXCEPT !.thumb = "new"]
    BY <1>3 DEF InsertThumb, First
  <2>3. raised' = "none" => ed'.length = "right" /\ ed'.thumb = "new"
    BY <1>i, <1>t, <2>1, <2>2 DEF Exif
  <2>4. QED BY <1>i, <2>1, <2>3 DEF LibexifInv
<1>4. CASE SaveOutput
  <2>1. PICK s \in Saved(ed) : out' = s.out /\ raised' = First(raised, s.raised)
    BY <1>4 DEF SaveOutput, Save
  <2>2. step = "save" /\ step' = "reload" /\ ed' = ed
    BY <1>4 DEF SaveOutput, Save, GoTo
  <2>3. out'.is \in {"leftover", "cut", "picture"}
    BY <1>i, <2>1, <2>2, SavedIs
  <2>4. ASSUME raised' = "none"
        PROVE  /\ out' = Picture(WithExif(pic.secs), Stored(ed)) /\ Size(ed) # "over"
               /\ ed.length = "right" /\ ed.thumb = "new"
    <3>1. raised = "none" /\ s.raised = "none"
      BY <2>1, <2>4 DEF First
    <3>2. QED BY <1>0, <1>i, <1>t, <2>1, <2>2, <3>1, SavedWhole, SavedFits
  <2>5. Stored(ed)' = Stored(ed) /\ Size(ed)' = Size(ed)
    BY <1>0, <2>2 DEF Stored, Size
  <2>6. QED BY <1>0, <1>i, <2>2, <2>3, <2>4, <2>5 DEF LibexifInv
<1>5. CASE ReloadOutput
  <2>1. PICK l \in Reloaded(out) : ed' = l.ed /\ raised' = First(raised, l.raised)
    BY <1>5 DEF ReloadOutput
  <2>2. step = "reload" /\ step' = "saveAgain" /\ out' = out
    BY <1>5 DEF ReloadOutput, GoTo
  <2>3. ASSUME raised' = "none"
        PROVE  ed' = ed /\ ed.length = "right" /\ ed.thumb = "new" /\ Size(ed) = "fits"
    <3>1. raised = "none" /\ l.raised = "none"
      BY <2>1, <2>3 DEF First
    <3>2. QED BY <1>0, <1>i, <2>1, <2>2, <3>1, ReloadedWhole
  <2>4. ed' = ed => Size(ed)' = Size(ed)
    BY <1>0 DEF Size
  <2>5. QED BY <1>i, <2>2, <2>3, <2>4 DEF LibexifInv
<1>6. CASE SaveAgain
  <2>1. PICK s \in Saved(ed) : out' = s.out /\ raised' = First(raised, s.raised)
    BY <1>6 DEF SaveAgain, Save
  <2>2. step = "saveAgain" /\ step' = "answer"
    BY <1>6 DEF SaveAgain, Save, GoTo
  <2>3. out'.is \in {"leftover", "cut", "picture"}
    BY <1>i, <2>1, <2>2, SavedIs
  <2>4. ASSUME raised' = "none" PROVE WholeOutput'
    <3>1. raised = "none" /\ s.raised = "none"
      BY <2>1, <2>4 DEF First
    <3>2. out' = Picture(WithExif(pic.secs), Stored(ed))
      BY <1>0, <1>t, <2>1, <3>1, SavedWhole
    <3>3. Stored(ed) = ed /\ ed.length = "right" /\ ed.thumb = "new"
      BY <1>i, <2>2, <3>1, StoredRight
    <3>4. /\ out'.is = "picture" /\ out'.exif = ed /\ out'.secs = WithExif(pic.secs)
      BY <3>2, <3>3 DEF Picture
    <3>5. Others(out'.secs) = Others(pic'.secs)
      BY <1>0, <1>t, <3>4, OthersKept
    <3>6. QED BY <3>3, <3>4, <3>5 DEF WholeOutput
  <2>5. QED BY <1>i, <2>2, <2>3, <2>4 DEF LibexifInv
<1>7. CASE CopyPicture \/ ReadMetadata \/ Embed
  BY <1>i, <1>7 DEF CopyPicture, ReadMetadata, Embed
<1>8. CASE Answer
  <2>1. step = "answer" /\ step' = "done"
    BY <1>8, Zenon DEF Answer
  <2>2. CASE ~Ignored
    <3>1. go' = FALSE /\ LeftAs' = "gone"
      BY <1>0, <1>8, <2>2, Answered, Zenon
    <3>2. [left |-> LeftAs', go |-> go'] \in ByLibexif(skipOnError')
      BY <3>1, LibexifPairs
    <3>3. QED BY <1>i, <2>1, <3>2 DEF LibexifInv
  <2>3. CASE Ignored
    <3>1. go' = TRUE /\ LeftAs' = LeftAs
      BY <1>0, <1>8, <2>3, Answered, Zenon
    <3>2. LeftAs = "thumbnailed" \/ (~skipOnError /\ LeftAs \in {"leftover", "cut", "thumbnailed", "rewritten"})
      <4>1. CASE raised = "none"
        BY <1>i, <2>1, <4>1, LeftAsPicture
      <4>2. CASE raised # "none"
        <5>1. LeftAs \in {"leftover", "cut", "thumbnailed", "rewritten"}
          BY <1>i, <2>1, LeftAsPicture
        <5>2. ~skipOnError
          <6>1. raised = "Libexif" => ~skipOnError
            BY <2>3, Zenon DEF Ignored
          <6>2. raised # "Helper"
            BY <2>3, Zenon DEF Ignored
          <6>3. raised \notin {"Warn", "Error"}
            <7>1. raised = "Warn" => level # "warn"
              BY <2>3, Zenon DEF Ignored
            <7>2. raised = "Error" => level = "none"
              BY <2>3, Zenon DEF Ignored
            <7>3. QED BY <1>i, <7>1, <7>2
          <6>4. raised \in Raises
            BY DEF TypeOK
          <6>5. QED BY <4>2, <6>1, <6>2, <6>3, <6>4 DEF Raises
        <5>3. QED BY <5>1, <5>2
      <4>3. QED BY <4>1, <4>2
    <3>3. [left |-> LeftAs', go |-> go'] \in ByLibexif(skipOnError)
      BY <3>1, <3>2, LibexifPairs
    <3>4. QED BY <1>0, <1>i, <2>1, <3>3 DEF LibexifInv
  <2>4. QED BY <2>2, <2>3
<1>9. CASE Clear
  <2>1. cleared'
    BY <1>9, Zenon DEF Clear
  <2>2. QED BY <2>1
<1>10. CASE UNCHANGED vars
  <2>1. step' = step /\ ed' = ed /\ out' = out /\ raised' = raised /\ go' = go
    BY <1>10, Zenon DEF vars
  <2>2. LeftAs' = LeftAs /\ WholeOutput' = WholeOutput
    BY <1>0, <2>1 DEF LeftAs, WholeOutput
  <2>3. Stored(ed)' = Stored(ed) /\ Size(ed)' = Size(ed)
    BY <1>0, <2>1 DEF Stored, Size
  <2>4. QED BY <1>0, <1>i, <2>1, <2>2, <2>3 DEF LibexifInv
<1>11. QED
  BY <1>1, <1>2, <1>3, <1>4, <1>5, <1>6, <1>7, <1>8, <1>9, <1>10 DEF Next, Libexif, Exiv2

LEMMA Exiv2Next == ASSUME TypeOK, Exiv2Inv, [Next]_vars PROVE Exiv2Inv'
<1> SUFFICES ASSUME lib' = "exiv2" PROVE Exiv2Inv'
  BY DEF Exiv2Inv
<1>0. /\ lib' = lib /\ lib = "exiv2" /\ pic' = pic /\ level' = level /\ (go => step = "done")
  BY ContractFixed
<1>t. pic.secs \in Pictures
  BY DEF TypeOK
<1>i. /\ step \in {"copy", "thumbFile", "read", "embed", "answer", "done"}
      /\ step = "copy" => out.is = "leftover"
      /\ step = "thumbFile" => out.is = "copy"
      /\ step \in {"read", "embed"} => out.is \in {"copy", "gone"}
      /\ step = "answer" => /\ raised \in {"none", "Warn", "Error"}
                            /\ WholeOutput \/ (raised = "Warn" /\ out.is \in {"copy", "cut", "gone"})
      /\ step = "done" => [left |-> LeftAs, go |-> go] \in ByExiv2(level)
  BY <1>0 DEF Exiv2Inv
<1>g. ASSUME GiveUp, step # "done", out'.is \in {"leftover", "gone", "copy"} PROVE Exiv2Inv'
  <2>1. step' = "done" /\ go' = FALSE /\ LeftAs' \in {"leftover", "gone", "copy"}
    BY <1>0, <1>g, GivenUp
  <2>2. [left |-> LeftAs', go |-> go'] \in ByExiv2(level')
    BY <2>1, Exiv2Pairs
  <2>3. QED BY <2>1, <2>2 DEF Exiv2Inv
<1>1. CASE WriteThumbFile
  <2>1. step = "thumbFile" /\ out' = out
    BY <1>1 DEF WriteThumbFile
  <2>2. CASE GoTo(IF lib = "exiv2" THEN "read" ELSE "load")
    BY <1>0, <1>i, <2>1, <2>2 DEF GoTo, Exiv2Inv
  <2>3. CASE GiveUp
    BY <1>g, <1>i, <2>1, <2>3
  <2>4. QED BY <1>1, <2>2, <2>3 DEF WriteThumbFile
<1>2. CASE CopyPicture
  <2>1. step = "copy"
    BY <1>2 DEF CopyPicture
  <2>2. CASE out' = File("copy") /\ GoTo("thumbFile")
    BY <2>2 DEF File, GoTo, Exiv2Inv
  <2>3. CASE out' \in {out, File("gone")} /\ GiveUp
    <3>1. out'.is \in {"leftover", "gone", "copy"}
      BY <1>i, <2>1, <2>3 DEF File
    <3>2. QED BY <1>g, <2>1, <2>3, <3>1
  <2>4. QED BY <1>2, <2>2, <2>3 DEF CopyPicture
<1>3. CASE Libexif
  BY <1>i, <1>3 DEF Libexif, Load, InsertThumb, SaveOutput, ReloadOutput, SaveAgain
<1>4. CASE ReadMetadata
  <2>1. step = "read" /\ out' = out /\ (step' = "embed" \/ (step' = "answer" /\ raised' = "Warn"))
    BY <1>4 DEF ReadMetadata, GoTo
  <2>2. QED BY <1>i, <2>1 DEF Exiv2Inv
<1>5. CASE Embed
  <2>1. step = "embed" /\ step' = "answer"
    BY <1>5 DEF Embed, GoTo
  <2>2. CASE out' = Picture(WithExif(pic.secs), Data("own", "new"))
              /\ raised' = CASE logged' = {}         -> "none"
                             [] "Error" \in logged' -> "Error"
                             [] OTHER                -> "Warn"
    <3>1. raised' \in {"none", "Warn", "Error"}
      BY <2>2
    <3>2. Others(out'.secs) = Others(pic'.secs)
      <4>1. out'.secs = WithExif(pic.secs)
        BY <2>2 DEF Picture
      <4>2. QED BY <1>0, <1>t, <4>1, OthersKept
    <3>3. WholeOutput'
      BY <2>2, <3>2 DEF WholeOutput, Picture, Data
    <3>4. QED BY <2>1, <3>1, <3>3 DEF Exiv2Inv
  <2>3. CASE /\ out' \in IF out.is = "gone" THEN {out} ELSE {out, File("cut")}
             /\ raised' = "Warn"
    <3>1. out'.is \in {"copy", "cut", "gone"}
      BY <1>i, <2>1, <2>3 DEF File
    <3>2. QED BY <2>1, <2>3, <3>1 DEF Exiv2Inv
  <2>4. QED BY <1>5, <2>2, <2>3 DEF Embed
<1>6. CASE Answer
  <2>1. step = "answer" /\ step' = "done"
    BY <1>6, Zenon DEF Answer
  <2>2. CASE ~Ignored
    <3>1. go' = FALSE /\ LeftAs' = "gone"
      BY <1>0, <1>6, <2>2, Answered, Zenon
    <3>2. [left |-> LeftAs', go |-> go'] \in ByExiv2(level')
      BY <3>1, Exiv2Pairs
    <3>3. QED BY <2>1, <3>2 DEF Exiv2Inv
  <2>3. CASE Ignored
    <3>1. go' = TRUE /\ LeftAs' = LeftAs
      BY <1>0, <1>6, <2>3, Answered, Zenon
    <3>2. LeftAs = "thumbnailed" \/ (level # "warn" /\ LeftAs \in {"copy", "cut", "gone"})
      <4>1. CASE WholeOutput
        BY <4>1, LeftAsPicture
      <4>2. CASE raised = "Warn" /\ out.is \in {"copy", "cut", "gone"}
        <5>1. level # "warn"
          BY <2>3, <4>2, Zenon DEF Ignored
        <5>2. QED BY <4>2, <5>1, LeftAsPicture
      <4>3. QED BY <1>i, <2>1, <4>1, <4>2
    <3>3. [left |-> LeftAs', go |-> go'] \in ByExiv2(level)
      BY <3>1, <3>2, Exiv2Pairs
    <3>4. QED BY <1>0, <2>1, <3>3 DEF Exiv2Inv
  <2>4. QED BY <2>2, <2>3
<1>7. CASE Clear
  <2>1. /\ step \in {"insert", "save", "reload", "saveAgain", "read", "embed"}
        /\ step' = step /\ out'.is = "gone"
    BY <1>7, Zenon DEF Clear, File
  <2>2. QED BY <1>i, <2>1 DEF Exiv2Inv
<1>8. CASE UNCHANGED vars
  <2>1. step' = step /\ out' = out /\ raised' = raised /\ go' = go
    BY <1>8, Zenon DEF vars
  <2>2. LeftAs' = LeftAs /\ WholeOutput' = WholeOutput
    BY <1>0, <2>1 DEF LeftAs, WholeOutput
  <2>3. QED BY <1>0, <1>i, <2>1, <2>2 DEF Exiv2Inv
<1>9. QED
  BY <1>1, <1>2, <1>3, <1>4, <1>5, <1>6, <1>7, <1>8 DEF Next, Exiv2

\* Both native writers keep what WriterContract says of them, for pictures of any
\* number of sections, whichever library call fails and whichever error hides
\* another: the theorems about AddThumbs, which is built on that contract, hold
\* with these writers.
THEOREM ContractKept == Spec => []KeepsContract
<1>1. Init => TypeOK /\ OutKnown /\ LibexifInv /\ Exiv2Inv
  <2> SUFFICES ASSUME Init PROVE TypeOK /\ OutKnown /\ LibexifInv /\ Exiv2Inv
    OBVIOUS
  <2>1. out.is = "leftover" /\ raised = "none" /\ go = FALSE
    BY DEF Init, File
  <2>2. step = IF lib = "exiv2" THEN "copy" ELSE "thumbFile"
    BY DEF Init
  <2>3. lib = "libexif" => level = "warn"
    BY DEF Init
  <2>4. QED BY <2>1, <2>2, <2>3, InitTypes DEF OutKnown, LibexifInv, Exiv2Inv
<1>2. TypeOK /\ OutKnown /\ LibexifInv /\ Exiv2Inv /\ [Next]_vars
        => (TypeOK /\ OutKnown /\ LibexifInv /\ Exiv2Inv)'
  BY NextTypes, LibexifNext, Exiv2Next
<1>3. TypeOK /\ LibexifInv /\ Exiv2Inv => KeepsContract
  BY DEF TypeOK, LibexifInv, Exiv2Inv, KeepsContract, Promise
<1>4. QED BY <1>1, <1>2, <1>3, PTL DEF Spec
=============================================================================
