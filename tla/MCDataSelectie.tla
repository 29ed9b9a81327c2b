---------------------------- MODULE MCDataSelectie ----------------------------
(* Small instances of DataSelectie. *)
EXTENDS DataSelectie, TLC

MCItems   == "ves" :> {1, 2, 3, 4, 7, 9, 10, 13} @@ "mac" :> {2, 3, 5, 6, 8}
MCTypeErr == {<<"ves", 4>>, <<"ves", 13>>, <<"mac", 6>>}

\* ves 4 and 7 follow each other in the part of the ids with rest 1
MCBadPage == {<<"ves", 4>>, <<"ves", 7>>}
MCNone    == {}
MCOld     == {<<"ves", 2>>, <<"ves", 11>>, <<"mac", 8>>}
=============================================================================
