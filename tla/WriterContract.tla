--------------------------- MODULE WriterContract ---------------------------
(***************************************************************************)
(* What the four EXIF writers promise to the processing loop: the file     *)
(* they may leave under the temporary name, and whether the loop goes on   *)
(* to the backup and delivery of that file.  AddThumbs is built on this    *)
(* contract; NativeWriters shows that the two native writers keep it.      *)
(***************************************************************************)

\* What may be found under the temporary name, told relative to the picture
\* read and to the file that was there before.
Left == {"leftover",     \* the file that was there before, or none
         "gone",         \* nothing
         "copy",         \* the bytes of the picture
         "thumbnailed",  \* the picture with its thumbnail
         "rewritten",    \* the complete picture, without the new thumbnail
         "cut"}          \* a file that is not a complete picture

Ends(lefts, go) == [left : lefts, go : {go}]

\* Android-Exif-Extended and pixymeta build the bytes, then write them.
FromBytes == Ends({"leftover", "cut"}, FALSE) \cup Ends({"thumbnailed"}, TRUE)

\* libexif writes the file itself; its error may come before, during or after
\* the writing, and is ignored when libexifSkipOnError is off.
ByLibexif(skipOnError) ==
  Ends({"leftover", "gone"}, FALSE) \cup Ends({"thumbnailed"}, TRUE)
    \cup (IF skipOnError THEN {}
          ELSE Ends({"leftover", "cut", "rewritten"}, TRUE))

\* exiv2 works on a copy made first.  An exiv2 exception that is thrown before
\* or during the writing has no "Error: " in its text and counts as a warning;
\* errors are the messages collected by the time the file is written.
ByExiv2(level) ==
  Ends({"leftover", "gone", "copy"}, FALSE) \cup Ends({"thumbnailed"}, TRUE)
    \cup (IF level = "warn" THEN {} ELSE Ends({"copy", "cut", "gone"}, TRUE))
=============================================================================
