----------------------------- MODULE MCSearchTask -----------------------------
(* Small instances of SearchTask: streets around Nes 33, see buggy_voorbeelden. *)
EXTENDS SearchTask

CONSTANTS x, y, z \* objects

kc   == <<"1012", "kc">>
town == <<"amsterdam">>

MCValue == "1" :> 1 @@ "3" :> 3 @@ "7" :> 7 @@ "33" :> 33 @@ "35" :> 35 @@ "1012" :> 1012

MCSpell ==
    "1" :> <<"1">> @@ "3" :> <<"3">> @@ "7" :> <<"7">> @@ "33" :> <<"3","3">>
    @@ "35" :> <<"3","5">> @@ "1012" :> <<"1","0","1","2">> @@ "kc" :> <<"k","c">>
    @@ "b" :> <<"b">> @@ "e" :> <<"e">> @@ "hs" :> <<"h","s">> @@ "nes" :> <<"n","e","s">>
    @@ "eerste" :> <<"e","e","r","s","t","e">> @@ "tegenover" :> <<"t","e","g">>
    @@ "amsterdam" :> <<"a","m","s">>

\* one of every kind of adres: plain, two numbers, a suffix of two parts, an
\* ordinal, "tegenover", a number others begin with, no postcode
MCWritten == {
    << <<"nes">>, <<"33">>, kc, town >>,
    << <<"nes">>, <<"33">>, <<"35">>, kc, town >>,
    << <<"nes">>, <<"33", "b">>, <<"7">>, kc, town >>,
    << <<"1", "e">>, <<"nes">>, <<"33">>, <<"hs">>, kc, town >>,
    << <<"nes">>, <<"tegenover">>, <<"33">>, <<"1">>, kc, town >>,
    << <<"nes">>, <<"3">>, kc, town >>,
    << <<"nes">>, <<"33">>, town >> }

Nes(n, t, v, h) == [straat |-> <<"nes">>, nr |-> n, toev |-> t, pc |-> kc, obj |-> v, hoofd |-> h]

MCAddresses == {
    Nes(33, <<"h">>, x, TRUE), Nes(33, <<"b", " ", "7">>, x, FALSE), Nes(33, <<"b">>, y, TRUE),
    Nes(33, <<"1">>, z, TRUE), Nes(33, <<"1", " ", "2">>, x, FALSE), Nes(35, << >>, y, FALSE), Nes(31, <<"1">>, NOID, FALSE),
    Nes(3, << >>, y, TRUE),
    [Nes(33, <<"h">>, z, FALSE) EXCEPT !.straat = <<"eerste", "nes">>],
    [Nes(33, << >>, z, FALSE) EXCEPT !.straat = <<"aert", "nes">>, !.pc = <<"1013", "kc">>] }
=============================================================================
