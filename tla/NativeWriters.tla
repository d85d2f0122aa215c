--------------------------- MODULE NativeWriters ----------------------------
(***************************************************************************)
(* The two native writers: one call of writeThumbnailWithLibexif- or       *)
(* Exiv2ThroughFile for one picture, from AddThumbsService to the library  *)
(* calls and back, one library call per step.  A picture is the sequence   *)
(* of its JPEG sections.  An error raised in native code stays pending     *)
(* while the code goes on, and the first one hides the others; what Java   *)
(* does with the output file depends on its class and on the settings.     *)
(***************************************************************************)
EXTENDS Naturals, Sequences, FiniteSetsExt, WriterContract

CONSTANTS
  MaxMiddle  \* bound on the sections between the start and the scan of a picture

ASSUME WritersAssumption == MaxMiddle \in Nat

VARIABLES
  lib, skipOnError, level,  \* exif_library, libexifSkipOnError, exiv2SkipOnLogLevel
  pic,      \* the picture: its sections, is its EXIF sound, how large with the thumbnail
  step,
  ed,       \* libexif: the EXIF data in memory
  out,      \* the temporary output
  logged,   \* exiv2: the kinds of messages in errorMsg
  raised,   \* the pending exception
  go,       \* does AddThumbsService go on with the output?
  cleared   \* observation: the system cleared the output during the call

settings == <<lib, skipOnError, level, pic>>
vars == <<settings, step, ed, out, logged, raised, go, cleared>>

\* A section is an APP1 with EXIF, another APP1, one of the sections the EXIF
\* loader skips (APP0 stands for them), one it does not know (APP3), one of these
\* whose length field is less than its own two bytes (decoders pass over it), or
\* bytes that are no section.  In an output "NEW" is the APP1 with the thumbnail and
\* "EMPTY" an APP1 libexif read as EXIF though it was not.
Kinds == {"APP0", "EXIF", "APP1", "APP3", "short", "junk"}
AppOnes == {"EXIF", "APP1", "NEW", "EMPTY"}

Pictures ==
  {<<"SOI">> \o m \o <<"SOS", "EOI">> : m \in UNION {[1..n -> Kinds] : n \in 0..MaxMiddle}}

\* The number of bytes of the EXIF data with its thumbnail: at most 0xfffd,
\* 0xfffe, 0xffff, or more.
Sizes == {"fits", "edge", "last", "over"}

Exif == [tags : {"own", "part", "fresh", "none", "other", "null"},
         thumb : {"old", "new", "none"}, length : {"right", "wrong"}]
Null == [tags |-> "null", thumb |-> "none", length |-> "wrong"]
Data(tags, thumb) == [tags |-> tags, thumb |-> thumb, length |-> "right"]

File(kind) == [is |-> kind, secs |-> <<>>, exif |-> Null]
Picture(secs, exif) == [is |-> "picture", secs |-> secs, exif |-> exif]

Raises == {"none", "Libexif", "Helper", "Warn", "Error"}

\* An exception is thrown only when none is pending.
First(pending, e) == IF pending = "none" THEN e ELSE pending

Steps == {"copy", "thumbFile", "load", "insert", "save", "reload", "saveAgain",
          "read", "embed", "answer", "done"}

\* The types; EXIF data is at hand when a thumbnail is to be put into it.
TypeOK ==
  /\ lib \in {"libexif", "exiv2"} /\ skipOnError \in BOOLEAN
  /\ level \in {"warn", "error", "none"}
  /\ pic.secs \in Pictures /\ pic.sound \in BOOLEAN /\ pic.size \in Sizes
  /\ step \in Steps
  /\ ed \in Exif
  /\ step \in {"insert", "save"} => ed # Null
  /\ out.is \in Left \cup {"picture"} /\ out.exif \in Exif
  /\ logged \in SUBSET {"Warning", "Error"}
  /\ raised \in Raises
  /\ go => step = "done"
  /\ cleared \in BOOLEAN

Init ==
  /\ lib \in {"libexif", "exiv2"} /\ skipOnError \in BOOLEAN
  /\ level \in {"warn", "error", "none"}
  /\ IF lib = "exiv2" THEN skipOnError ELSE level = "warn"  \* the defaults of the other
  /\ pic \in [secs : Pictures, sound : BOOLEAN, size : Sizes]
  /\ Cardinality({i \in DOMAIN pic.secs : pic.secs[i] = "EXIF"}) <= 1
  /\ step = IF lib = "exiv2" THEN "copy" ELSE "thumbFile"
  /\ ed = Null /\ out = File("leftover") /\ logged = {} /\ raised = "none"
  /\ go = FALSE /\ cleared = FALSE

-----------------------------------------------------------------------------
\* Before the native code: the copy exiv2 works on, the file of the thumbnail.

\* AddThumbsService gives up on the picture, whatever is under the temporary name.
GiveUp == /\ step' = "done"
          /\ UNCHANGED <<settings, ed, logged, raised, go, cleared>>

GoTo(s) == /\ step' = s
           /\ UNCHANGED <<settings, go, cleared>>

CopyPicture ==
  /\ step = "copy"
  /\ \/ out' = File("copy") /\ GoTo("thumbFile") /\ UNCHANGED <<ed, logged, raised>>
     \/ out' \in {out, File("gone")} /\ GiveUp

WriteThumbFile ==
  /\ step = "thumbFile"
  /\ \/ /\ GoTo(IF lib = "exiv2" THEN "read" ELSE "load")
        /\ UNCHANGED <<ed, out, logged, raised>>
     \/ GiveUp /\ UNCHANGED out

-----------------------------------------------------------------------------
\* libexif.

\* Where the loader may stop in a file: at the first section it does not skip;
\* of a short one it is not told here which it is.
\* Of another APP1 it may compare no byte with the EXIF header, and take it.
Stops(secs) ==
  {i \in DOMAIN secs : /\ secs[i] \notin {"SOI", "APP0"}
                       /\ \A j \in 1..(i - 1) : secs[j] \in {"SOI", "APP0", "APP1", "short"}}

\* Mutant: a file that cannot be read gives no EXIF data, and nobody looks.
LoadUnchecked ==
  /\ step = "load" /\ GoTo("insert")
  /\ UNCHANGED <<ed, out, logged, raised>>

\* The picture's own EXIF, or a fresh one when the loader reports corrupt data,
\* which it does of every picture without EXIF; neither: an error.
Load ==
  /\ step = "load"
  /\ \/ GoTo("answer") /\ raised' = "Helper" /\ UNCHANGED ed
     \/ \E i \in Stops(pic.secs) :
          LET kind == pic.secs[i]
          IN /\ ed' = CASE kind = "EXIF" -> Data(IF pic.sound THEN "own" ELSE "part", "old")
                        [] kind = "APP1" -> Data("none", "none")
                        [] OTHER         -> Data("fresh", "none")
             /\ raised' = IF kind = "APP1" \/ (kind = "EXIF" /\ ~pic.sound)
                            THEN "Libexif" ELSE "none"
             /\ GoTo("insert")
  /\ UNCHANGED <<out, logged>>

\* action_remove_thumb, then action_insert_thumb.
InsertThumb ==
  /\ step = "insert"
  /\ \/ ed' = [ed EXCEPT !.thumb = "new"] /\ UNCHANGED raised
     \/ ed' = [ed EXCEPT !.thumb = "none"] /\ raised' = First(raised, "Helper")
  /\ GoTo("save") /\ UNCHANGED <<out, logged>>

Size(d) == IF d.tags \in {"own", "part"} /\ d.thumb = "new" THEN pic.size ELSE "fits"

\* The sections read from the picture: those before the first junk, at which it
\* complains, but none after a short one, and that without a word.
Complains(secs) ==
  \E i \in DOMAIN secs : secs[i] = "junk" /\ \A j \in 1..(i - 1) : secs[j] # "short"
Read(secs) ==
  LET at(kind) == {i \in DOMAIN secs : secs[i] = kind}
  IN SubSeq(secs, 1, Min({i - 1 : i \in at("junk")} \cup at("short") \cup {Len(secs)}))

\* jpeg_data_set_exif_data: the first APP1 is replaced, or one is inserted after
\* the first section; another APP1 that is not EXIF becomes an empty EXIF.
WithExif(secs) ==
  LET ones == {i \in DOMAIN secs : secs[i] \in AppOnes}
      kept(s) == IF s = "APP1" THEN "EMPTY" ELSE s
  IN IF ones = {}
       THEN <<secs[1], "NEW">> \o Tail(secs)
       ELSE [i \in DOMAIN secs |-> IF i = Min(ones) THEN "NEW" ELSE kept(secs[i])]

\* The APP1 as written: its length field has 16 bits for size + 2.
Stored(d) == IF d # Null /\ Size(d) = "fits" THEN d ELSE [d EXCEPT !.length = "wrong"]

\* jpeg_data_load_file: what is read of the picture.
Loads == {[secs |-> Read(pic.secs),
           raised |-> IF Complains(pic.secs) THEN "Libexif" ELSE "none"],
          [secs |-> <<>>, raised |-> "Libexif"]}

\* The file made of these sections and EXIF data; without sections, a few bytes.
Made(secs, d) == IF secs = <<>> THEN File("cut") ELSE Picture(WithExif(secs), Stored(d))

TooBig(d) == IF Size(d) = "over" THEN "Helper" ELSE "none"

\* Mutant: nobody looks whether the file was written.
SavedUnchecked(d) ==
  {[out |-> f, raised |-> First(l.raised, TooBig(d))] :
     l \in Loads, f \in {Made(Read(pic.secs), d), File("cut")}}

\* action_save: the picture is read again, the size of the EXIF looked at (which
\* stops nothing), and the output written.
Saved(d) ==
  UNION {LET e == First(l.raised, TooBig(d))
         IN {[out |-> Made(l.secs, d), raised |-> e],
             [out |-> File("cut"), raised |-> First(e, "Helper")],
             [out |-> out, raised |-> First(e, "Helper")]}
         : l \in Loads}

Save(next) ==
  /\ \E s \in Saved(ed) : out' = s.out /\ raised' = First(raised, s.raised)
  /\ GoTo(next) /\ UNCHANGED <<ed, logged>>

SaveOutput == step = "save" /\ Save("reload")

Loaded(d, e) == [ed |-> d, raised |-> e]

\* Mutant: the output is trusted to hold what was written.
ReloadedQuietly(o) == {Loaded(o.exif, "none")}

\* The output is loaded again; this time corrupt data is an error.  A length of
\* 0 (mod 2^16) is taken for no data, 1 for data that is too short.
Reloaded(o) ==
  CASE o.is = "gone" -> {Loaded(Null, "none")}
    [] o.is = "cut"  -> {Loaded(Null, "none"), Loaded(Null, "Libexif")}
    [] o.is = "leftover" -> {Loaded(Null, "none"), Loaded(Null, "Libexif"),
                             Loaded(Data("other", "old"), "none")}
    [] o.is = "picture" ->
         UNION {IF o.secs[i] # "NEW" THEN {Loaded(Null, "Libexif")}
                ELSE IF o.exif.length = "right" THEN {Loaded(o.exif, "none")}
                ELSE CASE pic.size = "edge" -> {Loaded(Null, "none")}
                       [] pic.size = "last" -> {Loaded(Data("none", "none"), "Libexif")}
                       [] OTHER -> {Loaded(Null, "none"), Loaded(Data("none", "none"), "Libexif")}
                : i \in Stops(o.secs)}

ReloadOutput ==
  /\ step = "reload"
  /\ \E l \in Reloaded(out) : ed' = l.ed /\ raised' = First(raised, l.raised)
  /\ GoTo("saveAgain") /\ UNCHANGED <<out, logged>>

SaveAgain == step = "saveAgain" /\ Save("answer")

-----------------------------------------------------------------------------
\* exiv2.

\* readMetadata: messages are collected, an exception ends the call.
ReadMetadata ==
  /\ step = "read"
  /\ logged' \in SUBSET {"Warning", "Error"}
  /\ \/ GoTo("embed") /\ out.is # "gone" /\ UNCHANGED raised
     \/ GoTo("answer") /\ raised' = "Warn"
  /\ UNCHANGED <<ed, out>>

\* Mutant: the messages of the writing itself are not looked at.
EmbedUnheard ==
  /\ step = "embed" /\ out.is # "gone"
  /\ \E more \in SUBSET {"Warning", "Error"} : logged' = logged \cup more
  /\ out' = Picture(WithExif(pic.secs), Data("own", "new"))
  /\ raised' = CASE logged = {}         -> "none"
                 [] "Error" \in logged -> "Error"
                 [] OTHER               -> "Warn"
  /\ GoTo("answer") /\ UNCHANGED ed

\* The thumbnail is set and the metadata written; once it is, the messages
\* collected make an exception, whose text tells whether an error is among them.
Embed ==
  /\ step = "embed"
  /\ \E more \in SUBSET {"Warning", "Error"} : logged' = logged \cup more
  /\ \/ /\ out.is # "gone"
        /\ out' = Picture(WithExif(pic.secs), Data("own", "new"))
        /\ raised' = CASE logged' = {}         -> "none"
                       [] "Error" \in logged' -> "Error"
                       [] OTHER                -> "Warn"
     \/ /\ out' \in IF out.is = "gone" THEN {out} ELSE {out, File("cut")}
        /\ raised' = "Warn"
  /\ GoTo("answer") /\ UNCHANGED ed

-----------------------------------------------------------------------------
\* Back in Java: NativeLibHelper deletes the output or not, AddThumbsService
\* goes on or not, on the same conditions.
Ignored == CASE raised = "none"    -> TRUE
             [] raised = "Libexif" -> ~skipOnError
             [] raised = "Helper"  -> FALSE
             [] raised = "Warn"    -> level # "warn"
             [] raised = "Error"   -> level = "none"

Answer ==
  /\ step = "answer"
  /\ step' = "done" /\ go' = Ignored
  /\ out' = IF Ignored THEN out ELSE File("gone")
  /\ UNCHANGED <<settings, ed, logged, raised, cleared>>

\* The system clears the cache directory while a writer is at work (at any
\* other time: CacheCleared of Gallery).
Clear == /\ step \in {"insert", "save", "reload", "saveAgain", "read", "embed"} /\ out.is # "gone"
         /\ out' = File("gone") /\ cleared' = TRUE
         /\ UNCHANGED <<settings, step, ed, logged, raised, go>>

Libexif == Load \/ InsertThumb \/ SaveOutput \/ ReloadOutput \/ SaveAgain
Exiv2 == CopyPicture \/ ReadMetadata \/ Embed
Next == WriteThumbFile \/ Libexif \/ Exiv2 \/ Answer \/ Clear

Spec == Init /\ [][Next]_vars

-----------------------------------------------------------------------------
\* What the output is, told as WriterContract does.
\* The sections that are no APP1, each with its rank among them: equal for two
\* files just when these sections are the same, in the same order.
Others(secs) ==
  LET kept == {i \in DOMAIN secs : secs[i] \notin AppOnes}
  IN {<<Cardinality({j \in kept : j <= i}), secs[i]>> : i \in kept}

LeftAs == IF out.is # "picture" THEN out.is
          ELSE IF out.exif.length = "wrong" \/ Others(out.secs) # Others(pic.secs) THEN "cut"
          ELSE IF out.exif.thumb = "new" THEN "thumbnailed" ELSE "rewritten"

Promise == IF lib = "exiv2" THEN ByExiv2(level) ELSE ByLibexif(skipOnError)

Has(kind) == \E i \in DOMAIN pic.secs : pic.secs[i] = kind

\* The writers keep their contract: whatever fails, and whichever error hides
\* another, with the default settings only a complete picture with its new
\* thumbnail is delivered.  Three exceptions, all of libexif: EXIF data of exactly
\* 65534 bytes, which passes the check of action_save but not its 16-bit length
\* field, an output that is cleared between the two saves, and a picture with a
\* short section, of which what follows that one is lost without an error.
KeepsContract ==
  step = "done" /\ (lib = "libexif" => pic.size # "edge" /\ ~cleared /\ ~Has("short"))
    => [left |-> LeftAs, go |-> go] \in Promise

Delivered == step = "done" /\ go

\* No metadata is lost silently: when libexif reports no error, the picture
\* delivered has the EXIF tags it had, although libexif makes up fresh ones
\* whenever its loader does not find them (behind a section it does not know).
\* This relies on the second loading, and on pictures without any other APP1:
\* the fresh EXIF takes the place of that one, in front of the unknown section.
\* (AddThumbsService refuses pictures whose other APP1 is XMP.)
TagsKept ==
  Delivered /\ lib = "libexif" /\ raised = "none" /\ LeftAs = "thumbnailed" /\ ~Has("APP1")
    => out.exif.tags = IF Has("EXIF") THEN "own" ELSE "fresh"

\* A picture exiv2 complained about is delivered only at a level that allows
\* it.  (An exception while it is read or written counts as a warning, even if
\* errors were logged before it.)
Graded ==
  Delivered /\ logged # {} =>
    level = "none" \/ (level = "error" /\ ("Error" \in logged => raised = "Warn"))
=============================================================================
