--------------------------- MODULE MCLocationSearch ---------------------------
(* Small instances of LocationSearch: two gemeenten, three or four rows. *)
EXTENDS LocationSearch, TLC

CONSTANTS a, b, c, x, y, old

Parsing == INSTANCE AddressParsing WITH
    NONE  <- NULL,
    Value <- "1" :> 1 @@ "33" :> 33 @@ "1012" :> 1012,
    Spell <- "1" :> <<"1">> @@ "33" :> <<"3", "3">> @@ "nes" :> <<"n", "e", "s">>
             @@ "1012" :> <<"1", "0", "1", "2">> @@ "kc" :> <<"k", "c">>
             @@ "tegenover" :> <<"t", "e", "g">> @@ "e" :> <<"e">> @@ "eerste" :> <<"e", "e", "r">>
             @@ "amsterdam" :> <<"a", "m", "s">> @@ "weesp" :> <<"w", "e", "e">>

Adres(words, town) == words \o << <<"1012", "kc">>, <<town>> >>

plain == << <<"nes">>, <<"33">> >>
tegenover == << <<"nes">>, <<"tegenover">>, <<"33">> >>

\* a has two variants, b one; c is in the second gemeente
MCLoc   == {a, b, c}
MCGemOf == a :> 1 @@ b :> 1 @@ c :> 2
MCAlts  == a :> <<"task", "task">> @@ b :> <<"task">> @@ c :> <<"task">>

\* the same rows, with an adres of a in which no number is found
MCCrashAlts == a :> <<"crash">> @@ b :> <<"task">> @@ c :> <<"task">>

\* more variants than fit in the queue twice: a producer can be left on a full
\* queue; no street is found in c, and nothing at all in its other variant
MCLongAlts == a :> <<"task", "task", "task">> @@ b :> <<"task", "task">>
              @@ c :> <<"skip", "crash">>

\* these are adressen that can be written
ASSUME AltsAssumption ==
    /\ Parsing!Kinds(Adres(plain, "amsterdam")) = <<"task">>
    /\ Parsing!Kinds(Adres(plain, "weesp")) = <<"task">>
    /\ Parsing!Kinds(Adres(tegenover, "amsterdam")) = <<"task", "task">>
    /\ Parsing!Kinds(Adres(<< <<"1", "e">> >> \o tegenover, "amsterdam"))
           = <<"task", "task", "task">>
    /\ Parsing!Kinds(<< <<"nes">>, <<"amsterdam">> >>) = <<"crash">>
    /\ Parsing!Kinds(<< <<"1", "e">>, <<"weesp">> >>) = <<"skip", "crash">>

MCVbo == {x, y}

Dump(v, n, p, k) == [corr |-> k, vbid |-> v, numid |-> n, link |-> n, geo |-> p]

\* a row without identifications that an earlier search could not correct, and
\* one with identifications the BAG does not have
MCDumpRows == {Dump(NULL, NULL, NULL, "false"), Dump(old, old, NULL, "null")}
MCOneRow == {Dump(old, old, NULL, "null")}
=============================================================================
