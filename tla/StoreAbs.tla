------------------------------- MODULE StoreAbs -------------------------------
(***************************************************************************)
(* What a step of the import that is divided over processes promises,      *)
(* without parts, pages or ids: wanted inscriptions are stored, none of    *)
(* them is taken away, and success is reported only when all are there.    *)
(***************************************************************************)
VARIABLES wanted, stored, outcome

\* some may be there already
Init == stored \in SUBSET wanted /\ outcome = "running"

\* some wanted inscriptions that are not there yet are stored
Store == /\ \E S \in SUBSET (wanted \ stored) : stored' = stored \cup S
         /\ UNCHANGED <<wanted, outcome>>

\* success is reported of a complete store only
Succeed == /\ outcome = "running" /\ stored = wanted
           /\ outcome' = "yay" /\ UNCHANGED <<wanted, stored>>

Fail == /\ outcome = "running"
        /\ outcome' = "fail" /\ UNCHANGED <<wanted, stored>>

Next == Store \/ Succeed \/ Fail

Spec == Init /\ [][Next]_<<wanted, stored, outcome>>
=============================================================================
