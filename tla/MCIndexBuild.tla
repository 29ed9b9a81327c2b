----------------------------- MODULE MCIndexBuild -----------------------------
(* Small instances of IndexBuild. *)
EXTENDS IndexBuild

MCStale == {<<"mac", 0>>, <<"ves", MaxCount - 1>>}
=============================================================================
