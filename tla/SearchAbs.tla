------------------------------- MODULE SearchAbs -------------------------------
(***************************************************************************)
(* What one search task promises the rest of the program, without requests *)
(* or addresses: it looks for a hit, then for the details of the hit, and  *)
(* ends in one of three ways.  These are the steps a worker of             *)
(* LocationSearch takes between TakeNext and Finish.                       *)
(***************************************************************************)
CONSTANTS Vbo,   \* objects of the BAG
          NOID   \* no object, or no number found

VARIABLES phase, \* "search", "details", "saved", "notfound" or "gaveup"
          vbid,  \* the object that was saved
          numid  \* the object whose number was saved, or NOID

vars == <<phase, vbid, numid>>

Init == phase = "search" /\ vbid = NOID /\ numid = NOID

Hit == phase = "search" /\ phase' = "details" /\ UNCHANGED <<vbid, numid>>

NoHit == phase = "search" /\ phase' = "notfound" /\ UNCHANGED <<vbid, numid>>

\* the number, if one is found, is one of the object
Save == /\ phase = "details" /\ phase' = "saved"
        /\ vbid' \in Vbo /\ numid' \in {vbid', NOID}

GiveUp == /\ phase \in {"search", "details"} /\ phase' = "gaveup"
          /\ UNCHANGED <<vbid, numid>>

Next == Hit \/ NoHit \/ Save \/ GiveUp

\* what a search does, and that it ends
Safe == Init /\ [][Next]_vars
Spec == Safe /\ WF_vars(Next)
=============================================================================
