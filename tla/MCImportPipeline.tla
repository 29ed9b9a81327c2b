--------------------------- MODULE MCImportPipeline ---------------------------
(* A small dump: two vestigingen, two maatschappelijke activiteiten, three rows. *)
EXTENDS ImportPipeline, TLC

CONSTANTS v, w, m, n, k, l, p

MCVes == {v, w}
MCMac == {m, n}
MCLoc == {k, l, p}

\* the adres of k is to be searched; that of l is in the BAG; p is in Weesp, and its
\* row in the dump has a point but no identification
MCBezoek == v :> k @@ w :> l @@ m :> l @@ n :> p
MCPost   == v :> l @@ w :> l @@ m :> NULL @@ n :> l
MCDump == k :> [id |-> NULL, geo |-> NULL, corr |-> "null"]
          @@ l :> [id |-> BAG, geo |-> NULL, corr |-> "null"]
          @@ p :> [id |-> NULL, geo |-> OLD, corr |-> "null"]

\* the first activiteit has lost the zero of its code, and there is no place for the
\* code of the third; n has none
MCActs     == v :> {1, 2} @@ w :> {2, 3} @@ m :> {1, 2} @@ n :> {}
MCRawCode  == 1 :> "111" @@ 2 :> "222" @@ 3 :> "999"
MCRepaired == 1 :> "0111" @@ 2 :> "222" @@ 3 :> "999"
=============================================================================
