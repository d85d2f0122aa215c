--------------------------- MODULE ThumbnailCall ---------------------------
(***************************************************************************)
(* What AddThumbs expects of getThumbnailWithFfmpegService: a call always  *)
(* comes back, with the thumbnail of its own picture or with a failure.    *)
(* Call number n is about picture number n; its thumbnail is n.            *)
(***************************************************************************)
EXTENDS Naturals

CONSTANTS MaxCalls, Failed

VARIABLES
  call,     \* the number of the last call
  pending,  \* is it still running?
  result    \* what the last call that came back returned

callVars == <<call, pending, result>>

Init == call = 0 /\ pending = FALSE /\ result = Failed

Ask == /\ ~pending /\ call < MaxCalls
       /\ call' = call + 1 /\ pending' = TRUE
       /\ UNCHANGED result

Answer == /\ pending
          /\ pending' = FALSE /\ result' \in {call, Failed}
          /\ UNCHANGED call

Spec == Init /\ [][Ask \/ Answer]_callVars
FairSpec == Spec /\ WF_callVars(Answer)
=============================================================================
