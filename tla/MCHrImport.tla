------------------------------ MODULE MCHrImport ------------------------------
(* Small instances of HrImport: two maatschappelijke activiteiten with three    *)
(* vestigingen, of which one or two lie outside of the given plaatsen.          *)
EXTENDS HrImport, TLC

CONSTANTS m1, m2, v1, v2, v3, p1, p2, stranger

Mac == {m1, m2}
Ves == {v1, v2, v3}

\* o: the ondernemingen, e: the mac that has ended, h: the hoofdvestigingen,
\* q: where v3 is, b: whether v2 has a bezoekadres
DumpWith(o, e, h, q, b) ==
    [mac |-> Mac, ond |-> o, macEnd |-> e,
     ves |-> Ves, of |-> v1 :> m1 @@ v2 :> m1 @@ v3 :> m2,
     typ |-> v1 :> "CVS" @@ v2 :> "NCV" @@ v3 :> "other",
     hoofd |-> h, vesEnd |-> {v2},
     adr |-> {<<"bezoek", v1>>, <<"post", v2>>, <<"bezoek", v3>>, <<"post", m1>>,
              <<"bezoek", m2>>} \cup (IF b THEN {<<"bezoek", v2>>} ELSE {}),
     plaats |-> [a \in {<<"bezoek", v1>>, <<"post", v2>>, <<"bezoek", v3>>, <<"post", m1>>,
                        <<"bezoek", m2>>} \cup (IF b THEN {<<"bezoek", v2>>} ELSE {}) |->
                   IF a = <<"bezoek", v3>> THEN q ELSE "amsterdam"],
     hdn |-> {<<m, 1>> : m \in o},
     veshdn |-> {<<v1, <<m, 1>>>> : m \in o},
     com |-> {<<m1, 1>>, <<m2, 3>>, <<v1, 1>>, <<v3, 2>>},
     act |-> {<<v1, 0>>, <<v1, 2>>, <<v2, 0>>, <<v3, 0>>, <<v3, 1>>},
     prs |-> {p1, p2}, nat |-> {p1}, ash |-> {<<p1, p2>>},
     eig |-> m1 :> p2 @@ m2 :> stranger]

MCDumps == {DumpWith(o, e, h, q, b) : o \in {{m1}, {m1, m2}, {}}, e \in {{}, {m1}},
               h \in {{}, {v1, v3}}, q \in {"amsterdam", "rotterdam"}, b \in BOOLEAN}

MCBeverwijk == {DumpWith({m1}, {}, {v1}, "beverwijk", TRUE)}
=============================================================================
