------------------------------- MODULE Album -------------------------------
(***************************************************************************)
(* What the user may rely on, whatever AddThumbs does: the picture folder  *)
(* shows the version saved last, as it was saved or with its thumbnail     *)
(* added, or nothing while a spare copy of that version is kept elsewhere. *)
(* No copy is given up before there is another, and a picture the user     *)
(* deleted comes back only when the user saves it again.                   *)
(***************************************************************************)
CONSTANT Pics

VARIABLES
  owned,  \* the pictures the user saved and did not delete
  shown,  \* what the picture folder shows of each
  spare   \* the pictures whose last version is kept in another folder

albumVars == <<owned, shown, spare>>

Init == /\ owned \in SUBSET Pics
        /\ shown = [p \in Pics |-> IF p \in owned THEN "asSaved" ELSE "nothing"]
        /\ spare = {}

\* The user saves a version, of which there is no other copy yet.
Save(p) == /\ owned' = owned \cup {p}
           /\ shown' = [shown EXCEPT ![p] = "asSaved"]
           /\ spare' = spare \ {p}

Delete(p) == /\ shown[p] # "nothing"
             /\ owned' = owned \ {p}
             /\ shown' = [shown EXCEPT ![p] = "nothing"]
             /\ UNCHANGED spare

\* A spare copy of what is shown is made, or given up.
Copy(p) == /\ shown[p] # "nothing"
           /\ spare' = spare \cup {p}
           /\ UNCHANGED <<owned, shown>>

GiveUp(p) == /\ shown[p] # "nothing" \/ p \notin owned
             /\ spare' = spare \ {p}
             /\ UNCHANGED <<owned, shown>>

\* The picture is moved away, or removed in favour of its spare copy ...
SetAside(p) == /\ shown[p] # "nothing" /\ p \in owned
               /\ shown' = [shown EXCEPT ![p] = "nothing"]
               /\ spare' = spare \cup {p}
               /\ UNCHANGED owned

\* ... and comes back with its thumbnail, the spare copy staying where it is.
Deliver(p) == /\ shown[p] = "nothing" /\ p \in owned /\ p \in spare
              /\ shown' = [shown EXCEPT ![p] = "thumbnailed"]
              /\ UNCHANGED <<owned, spare>>

Next == \E p \in Pics : Save(p) \/ Delete(p) \/ Copy(p) \/ GiveUp(p) \/ SetAside(p) \/ Deliver(p)

Spec == Init /\ [][Next]_albumVars
=============================================================================
