---------------------------- MODULE HrImportProofs ----------------------------
(***************************************************************************)
(* Proofs about HrImport: a run that ends well leaves a function of the    *)
(* dump, and it ends well exactly when nothing is in its way.  One that    *)
(* begins on vestigingen takes all addresses away and is refused.          *)
(***************************************************************************)
EXTENDS HrImport, TLAPS

\* All the rows the dump has for an entity.
Full == [locatie |-> dump.adr, onderneming |-> dump.ond, mac |-> dump.mac,
         handelsnaam |-> dump.hdn, com |-> dump.com,
         cvs |-> OfType("CVS"), ncv |-> OfType("NCV"), ves |-> dump.ves,
         act |-> dump.act, nps |-> dump.nat, nnp |-> dump.prs \ dump.nat,
         prs |-> dump.prs, fvv |-> dump.ash]

\* At every moment: the tables are consistent and hold rows of the dump only; a
\* maatschappelijke activiteit of an onderneming refers to it, and only to that; an
\* end date is of a vestiging that is there.
Base ==
    /\ TypeOK
    /\ \A e \in Entity : tab[e] \subseteq Full[e] /\ start[e] \subseteq Full[e]
    /\ tab["ves_end"] \subseteq tab["ves"]
    /\ tab["mac_ond"] \subseteq Pairs(dump.ond)
    /\ \A m \in tab["mac"] \cap dump.ond : <<m, m>> \in tab["mac_ond"]

Going == run \in {"running", "done"}

If(b, S) == IF b THEN S ELSE {}

\* A table that is only added to holds what it began with and, apart from that, V.
Grown(e, V) == start[e] \cap V = {} /\ tab[e] = start[e] \cup V

\* The tables that are emptied first, and the activiteiten that are deleted with
\* their onderneming.
Replaced ==
    /\ pc = 2 => tab["locatie"] = {}
    /\ pc >= 3 => tab["locatie"] = dump.adr
    /\ pc = 4 => tab["onderneming"] = {}
    /\ pc >= 5 => tab["onderneming"] = dump.ond
    /\ pc <= 3 => tab["mac"] = start["mac"]
    /\ pc \in {4, 5} => tab["mac"] = start["mac"] \ dump.ond
    /\ pc >= 6 => /\ tab["mac"] = dump.mac /\ start["mac"] \subseteq dump.ond
                  /\ tab["mac_adr"] = Adr(dump.mac)
    /\ pc = 7 => tab["handelsnaam"] = {}
    /\ pc >= 8 => tab["handelsnaam"] = dump.hdn
    /\ pc \in {7, 8} => tab["ond_hdn"] = {}
    /\ pc >= 9 => tab["ond_hdn"] = Of(dump.hdn)

\* The numbers and the activities that the statements before pc have added.
ComSoFar == {c \in dump.com : \/ c[1] \in dump.mac /\ 7 + 2 * c[2] < pc
                              \/ c[1] \in dump.ves /\ 17 + 2 * c[2] < pc}
ActSoFar == {a \in dump.act : 25 + 2 * a[2] < pc}

\* What the statements before pc have added to a table.
Due == [com |-> ComSoFar, act |-> ActSoFar,
        cvs |-> If(pc > 15, OfType("CVS")), ncv |-> If(pc > 16, OfType("NCV")),
        nps |-> If(pc > 35, dump.nat), nnp |-> If(pc > 36, dump.prs \ dump.nat),
        prs |-> If(pc > 37, dump.prs), fvv |-> If(pc > 38, dump.ash)]

\* The tables that are only added to.
Added == \A e \in DOMAIN Due : Grown(e, Due[e])

\* The vestigingen: all at once, and in the end those outside of Amsterdam go.
Vestigingen ==
    /\ pc <= 17 => tab["ves"] = start["ves"]
    /\ pc > 17 => start["ves"] = {} /\ tab["ves"] = IF pc <= 41 THEN dump.ves ELSE StaysSet

\* What the statements before pc have linked to the vestigingen and the activiteiten.
VesComSoFar == {c \in dump.com : c[1] \in tab["ves"] /\ 18 + 2 * c[2] < pc}
VesActSoFar == {a \in dump.act : a[1] \in tab["ves"] /\ 26 + 2 * a[2] < pc}
MacComSoFar == {c \in dump.com : c[1] \in dump.mac /\ 8 + 2 * c[2] < pc}

\* The vestigingen that end with their activiteit.
WithEndedMac(S) == {v \in S : dump.of[v] \in dump.macEnd}

\* What belongs to the vestigingen, once they are there, and to those that stay.
OfVes ==
    pc > 17 =>
       /\ tab["ves_mac"] = {<<v, dump.of[v]>> : v \in tab["ves"]}
       /\ tab["ves_adr"] = Adr(tab["ves"])
       /\ tab["ves_com"] = Of(VesComSoFar)
       /\ tab["ves_act"] = Of(VesActSoFar)
       /\ tab["ves_hdn"] = If(pc > 33, {p \in dump.veshdn : p[1] \in tab["ves"]})
       /\ tab["ves_end"] = (tab["ves"] \cap dump.vesEnd) \cup If(pc > 18, WithEndedMac(tab["ves"]))
       /\ pc > 34 => tab["mac_hoofd"] = {<<dump.of[v], v>> : v \in dump.hoofd \cap tab["ves"]}
       /\ pc > 39 => tab["mac_eig"] =
             {<<m, dump.eig[m]>> : m \in {n \in dump.mac : dump.eig[n] \in dump.prs}}

\* On an empty table, the numbers of the maatschappelijke activiteiten come one by one.
OfMac == start["com"] = {} => tab["mac_com"] = Of(MacComSoFar)

Progress == pc \in 1..42 /\ Replaced /\ Added /\ Vestigingen /\ OfVes /\ OfMac

IInv ==
    /\ Base
    /\ Going => Progress
    /\ run = "done" => pc = 42
    /\ run = "raised" => ~Passable(start)
-----------------------------------------------------------------------------
(* The statements and the tables *)

\* The tables by name, and what every relation refers to.
LEMMA TablesAre ==
    /\ Relation = {"mac_ond", "mac_adr", "mac_hoofd", "mac_eig", "ond_hdn", "mac_com",
                   "ves_mac", "ves_adr", "ves_cvs", "ves_ncv", "ves_com", "ves_act",
                   "ves_hdn", "prs_nps", "prs_nnp", "fvv_prs"}
    /\ Refs["mac_ond"] = <<"mac", "onderneming">> /\ Refs["mac_adr"] = <<"mac", "locatie">>
    /\ Refs["mac_hoofd"] = <<"mac", "ves">>       /\ Refs["mac_eig"] = <<"mac", "prs">>
    /\ Refs["ond_hdn"] = <<"onderneming", "handelsnaam">>
    /\ Refs["mac_com"] = <<"mac", "com">>         /\ Refs["ves_mac"] = <<"ves", "mac">>
    /\ Refs["ves_adr"] = <<"ves", "locatie">>     /\ Refs["ves_cvs"] = <<"ves", "cvs">>
    /\ Refs["ves_ncv"] = <<"ves", "ncv">>         /\ Refs["ves_com"] = <<"ves", "com">>
    /\ Refs["ves_act"] = <<"ves", "act">>         /\ Refs["ves_hdn"] = <<"ves", "handelsnaam">>
    /\ Refs["prs_nps"] = <<"prs", "nps">>         /\ Refs["prs_nnp"] = <<"prs", "nnp">>
    /\ Refs["fvv_prs"] = <<"fvv", "prs">>
BY DEF Relation, Refs

\* The constraints of the schema, one by one.
LEMMA ConsistentIs ==
    ASSUME NEW t
    PROVE  Consistent(t) <=>
             /\ t["mac_ond"] \subseteq t["mac"] \X t["onderneming"]
             /\ t["mac_adr"] \subseteq t["mac"] \X t["locatie"]
             /\ t["mac_hoofd"] \subseteq t["mac"] \X t["ves"]
             /\ t["mac_eig"] \subseteq t["mac"] \X t["prs"]
             /\ t["ond_hdn"] \subseteq t["onderneming"] \X t["handelsnaam"]
             /\ t["mac_com"] \subseteq t["mac"] \X t["com"]
             /\ t["ves_mac"] \subseteq t["ves"] \X t["mac"]
             /\ t["ves_adr"] \subseteq t["ves"] \X t["locatie"]
             /\ t["ves_cvs"] \subseteq t["ves"] \X t["cvs"]
             /\ t["ves_ncv"] \subseteq t["ves"] \X t["ncv"]
             /\ t["ves_com"] \subseteq t["ves"] \X t["com"]
             /\ t["ves_act"] \subseteq t["ves"] \X t["act"]
             /\ t["ves_hdn"] \subseteq t["ves"] \X t["handelsnaam"]
             /\ t["prs_nps"] \subseteq t["prs"] \X t["nps"]
             /\ t["prs_nnp"] \subseteq t["prs"] \X t["nnp"]
             /\ t["fvv_prs"] \subseteq t["fvv"] \X t["prs"]
<1> DEFINE C(r) == t[r] \subseteq t[Refs[r][1]] \X t[Refs[r][2]]
<1>1. Consistent(t) <=>
        /\ C("mac_ond") /\ C("mac_adr") /\ C("mac_hoofd") /\ C("mac_eig") /\ C("ond_hdn")
        /\ C("mac_com") /\ C("ves_mac") /\ C("ves_adr") /\ C("ves_cvs") /\ C("ves_ncv")
        /\ C("ves_com") /\ C("ves_act") /\ C("ves_hdn") /\ C("prs_nps") /\ C("prs_nnp")
        /\ C("fvv_prs")
  <2> HIDE DEF C
  <2>1. Consistent(t) <=> \A r \in Relation : C(r)
    BY DEF Consistent, C
  <2> QED BY <2>1, TablesAre
<1> QED BY <1>1, TablesAre

\* The statements of sql_steps, by their place.
LEMMA StepsAre ==
    /\ Len(Steps) = 41
    /\ Steps[1] = Del("locatie") /\ Steps[2] = Ins("locatie")
    /\ Steps[3] = Del("onderneming") /\ Steps[4] = Ins("onderneming") /\ Steps[5] = Ins("mac")
    /\ Steps[6] = Del("handelsnaam") /\ Steps[7] = Ins("handelsnaam") /\ Steps[8] = Ins("ond_hdn")
    /\ Steps[9] = Num("mac_com", 1) /\ Steps[10] = Num("mac_com_of", 1)
    /\ Steps[11] = Num("mac_com", 2) /\ Steps[12] = Num("mac_com_of", 2)
    /\ Steps[13] = Num("mac_com", 3) /\ Steps[14] = Num("mac_com_of", 3)
    /\ Steps[15] = Ins("cvs") /\ Steps[16] = Ins("ncv") /\ Steps[17] = Ins("ves")
    /\ Steps[18] = Upd("ves_end")
    /\ Steps[19] = Num("ves_com", 1) /\ Steps[20] = Num("ves_com_of", 1)
    /\ Steps[21] = Num("ves_com", 2) /\ Steps[22] = Num("ves_com_of", 2)
    /\ Steps[23] = Num("ves_com", 3) /\ Steps[24] = Num("ves_com_of", 3)
    /\ Steps[25] = Num("act", 0) /\ Steps[26] = Num("ves_act", 0)
    /\ Steps[27] = Num("act", 1) /\ Steps[28] = Num("ves_act", 1)
    /\ Steps[29] = Num("act", 2) /\ Steps[30] = Num("ves_act", 2)
    /\ Steps[31] = Num("act", 3) /\ Steps[32] = Num("ves_act", 3)
    /\ Steps[33] = Ins("ves_hdn") /\ Steps[34] = Upd("mac_hoofd")
    /\ Steps[35] = Ins("nps") /\ Steps[36] = Ins("nnp") /\ Steps[37] = Ins("prs")
    /\ Steps[38] = Ins("fvv") /\ Steps[39] = Upd("mac_eig") /\ Steps[40] = Upd("mac_mks")
    /\ Steps[41] = Del("outside")
BY DEF Steps, Handelsnamen, Thrice

\* The same, with the places of every sort of statement.
LEMMA StepsOfSort ==
    ASSUME NEW k \in 1..41
    PROVE  /\ Steps[k].op = "delete" <=> k \in {1, 3, 6, 41}
           /\ Steps[k].op = "update" <=> k \in {18, 34, 39, 40}
           /\ Steps[k].op = "insert" <=> k \notin {1, 3, 6, 41} /\ k \notin {18, 34, 39, 40}
<1>1. /\ \A s : Del(s).op = "delete" /\ Upd(s).op = "update" /\ Ins(s).op = "insert"
      /\ \A s, i : Num(s, i).op = "insert"
  BY DEF Del, Upd, Ins, Num
<1>2. CASE k \in 1..14 BY <1>1, <1>2, StepsAre
<1>3. CASE k \in 15..28 BY <1>1, <1>3, StepsAre
<1>4. CASE k \in 29..41 BY <1>1, <1>4, StepsAre
<1> QED BY <1>2, <1>3, <1>4
-----------------------------------------------------------------------------
(* What a statement does, when it is done and when it is refused *)

\* The rows of the present statement, when it is an INSERT.
New == LET s == Steps[pc] IN IF s.i = -1 THEN Rows(s.on) ELSE RowsOf(s.on, s.i)

\* A table with the rows of `new` added.
With(new, x) == IF x \in DOMAIN new THEN tab[x] \cup new[x] ELSE tab[x]

\* Rows can be added: none is there, and what they refer to is, or comes with them.
Fits(new) ==
    /\ \A x \in DOMAIN new : new[x] \cap tab[x] = {}
    /\ \A r \in Relation \cap DOMAIN new :
          new[r] \subseteq With(new, Refs[r][1]) \X With(new, Refs[r][2])

\* The statement is done, and leaves the tables consistent.
Done == /\ run' = "running" /\ pc' = pc + 1 /\ UNCHANGED <<dump, start, runs>>
        /\ DOMAIN tab' = Table /\ Consistent(tab')

Adds(new) == /\ Done
             /\ \A x \in DOMAIN new : new[x] \cap tab[x] = {}
             /\ \A x \in Table : tab'[x] = With(new, x)

Changes(x, v) == Done /\ tab'[x] = v /\ \A y \in Table \ {x} : tab'[y] = tab[y]

Refused == run' = "raised" /\ UNCHANGED <<tab, pc, dump, start, runs>>

\* Rows that fit leave the tables consistent.
LEMMA FitsIsConsistent ==
    ASSUME Base, NEW new, Fits(new)
    PROVE  Consistent([x \in Table |-> With(new, x)])
<1> DEFINE t == [x \in Table |-> With(new, x)]
<1> SUFFICES ASSUME NEW r \in Relation
             PROVE  t[r] \subseteq t[Refs[r][1]] \X t[Refs[r][2]]
  BY DEF Consistent
<1>1. r \in Table /\ Refs[r][1] \in Table /\ Refs[r][2] \in Table
  BY TablesAre DEF Table, Entity
<1>2. tab[r] \subseteq With(new, Refs[r][1]) \X With(new, Refs[r][2])
  BY DEF Base, TypeOK, Consistent, With
<1>3. With(new, r) \subseteq With(new, Refs[r][1]) \X With(new, Refs[r][2])
  BY <1>2 DEF Fits, With
<1> QED BY <1>1, <1>3

\* An INSERT adds all of its rows, or it is refused because they do not fit.
LEMMA InsertEffect ==
    ASSUME Base, Insert
    PROVE  Adds(New) \/ (Refused /\ ~Fits(New))
<1> DEFINE t == [x \in Table |-> IF x \in DOMAIN New THEN tab[x] \cup New[x] ELSE tab[x]]
<1>1. /\ run = "running" /\ UNCHANGED <<dump, runs, start>>
      /\ IF \E x \in DOMAIN New : New[x] \cap tab[x] # {}
         THEN run' = "raised" /\ UNCHANGED <<tab, pc>>
         ELSE Commit(t)
  BY Zenon DEF Insert, At, New
<1>2. t = [x \in Table |-> With(New, x)]
  BY Zenon DEF With
<1>3. CASE \E x \in DOMAIN New : New[x] \cap tab[x] # {}
  BY <1>1, <1>3, Zenon DEF Refused, Fits
<1>4. CASE ~\E x \in DOMAIN New : New[x] \cap tab[x] # {}
  <2>1. Commit(t) BY <1>1, <1>4, Zenon
  <2>2. CASE Consistent(t)
    <3>1. tab' = t /\ pc' = pc + 1 /\ run' = run BY <2>1, <2>2 DEF Commit
    <3>2. DOMAIN tab' = Table /\ \A x \in Table : tab'[x] = With(New, x)
      <4> HIDE DEF t
      <4> QED BY <3>1, <1>2
    <3>3. Done BY <3>1, <3>2, <2>2, <1>1 DEF Done
    <3>4. \A x \in DOMAIN New : New[x] \cap tab[x] = {} BY <1>4, Zenon
    <3> QED BY <3>2, <3>3, <3>4, Zenon DEF Adds
  <2>3. CASE ~Consistent(t)
    <3>1. run' = "raised" /\ UNCHANGED <<tab, pc>> BY <2>1, <2>3 DEF Commit
    <3>2. ~Fits(New) BY <1>2, <2>3, FitsIsConsistent
    <3> QED BY <3>1, <3>2, <1>1 DEF Refused
  <2> QED BY <2>2, <2>3
<1> QED BY <1>3, <1>4

\* An UPDATE sets one column or relation, or it is refused by the constraints.
LEMMA CommitEffect ==
    ASSUME Base, NEW c \in Table, NEW v, run = "running",
           Commit([tab EXCEPT ![c] = v]), UNCHANGED <<dump, runs, start>>
    PROVE  Changes(c, v) \/ (Refused /\ ~Consistent([tab EXCEPT ![c] = v]))
<1> DEFINE t == [tab EXCEPT ![c] = v]
<1>1. CASE Consistent(t)
  <2>1. tab' = t /\ pc' = pc + 1 /\ run' = run BY <1>1 DEF Commit
  <2>2. DOMAIN tab = Table BY DEF Base, TypeOK
  <2>3. /\ DOMAIN t = Table /\ t[c] = v /\ \A y \in Table \ {c} : t[y] = tab[y]
    BY <2>2
  <2> HIDE DEF t
  <2>4. Done BY <2>1, <2>3, <1>1 DEF Done
  <2> QED BY <2>1, <2>3, <2>4 DEF Changes
<1>2. CASE ~Consistent(t)
  BY <1>2 DEF Commit, Refused
<1> QED BY <1>1, <1>2

Hoofd == {<<dump.of[v], v>> : v \in dump.hoofd \cap tab["ves"]}
Eig == {<<m, dump.eig[m]>> : m \in {n \in dump.mac : dump.eig[n] \in tab["prs"]}}
Mks == {m \in dump.mac : dump.eig[m] \notin tab["prs"]}

\* The four UPDATE statements; one of a plain column is never refused.
LEMMA UpdateEffect ==
    ASSUME Base, pc \in 1..41, Update
    PROVE  \/ pc = 18 /\ Changes("ves_end", EndDates)
           \/ /\ pc = 34
              /\ \/ Changes("mac_hoofd", Hoofd)
                 \/ Refused /\ ~(Hoofd \subseteq tab["mac"] \X tab["ves"])
           \/ /\ pc = 39
              /\ \/ Changes("mac_eig", Eig)
                 \/ Refused /\ ~(Eig \subseteq tab["mac"] \X tab["prs"])
           \/ pc = 40 /\ Changes("mac_mks", Mks)
<1> DEFINE c == Steps[pc].on
           V == CASE c = "ves_end" -> EndDates
                  [] c = "mac_hoofd" -> {<<dump.of[v], v>> : v \in dump.hoofd \cap tab["ves"]}
                  [] c = "mac_eig" -> {<<m, dump.eig[m]>> : m \in
                                         {n \in dump.mac : dump.eig[n] \in tab["prs"]}}
                  [] c = "mac_mks" -> {m \in dump.mac : dump.eig[m] \notin tab["prs"]}
<1>1. /\ run = "running" /\ Commit([tab EXCEPT ![c] = V]) /\ UNCHANGED <<dump, runs, start>>
      /\ Steps[pc].op = "update"
  BY DEF Update, At
<1>2. DOMAIN tab = Table /\ Consistent(tab)
  BY DEF Base, TypeOK
<1>3. pc \in {18, 34, 39, 40}
  BY <1>1, StepsOfSort
<1>4. /\ pc = 18 => c = "ves_end" /\ V = EndDates
      /\ pc = 34 => c = "mac_hoofd" /\ V = Hoofd
      /\ pc = 39 => c = "mac_eig" /\ V = Eig
      /\ pc = 40 => c = "mac_mks" /\ V = Mks
  BY StepsAre DEF Upd, Hoofd, Eig, Mks
<1>5. {"ves_end", "mac_hoofd", "mac_eig", "mac_mks"} \subseteq Table
  BY TablesAre DEF Table, Column
<1> HIDE DEF c, V
<1>6. Changes(c, V) \/ (Refused /\ ~Consistent([tab EXCEPT ![c] = V]))
  BY <1>1, <1>3, <1>4, <1>5, CommitEffect
<1>7. ASSUME NEW x \in {"ves_end", "mac_mks"}, NEW v
      PROVE  Consistent([tab EXCEPT ![x] = v])
  <2>1. \A r \in Relation : /\ r \in Table /\ r # x /\ Refs[r][1] # x /\ Refs[r][2] # x
                            /\ Refs[r][1] \in Table /\ Refs[r][2] \in Table
    BY TablesAre DEF Table, Entity
  <2> QED BY <2>1, <1>2 DEF Consistent
<1>8. ASSUME NEW x \in {"mac_hoofd", "mac_eig"}, NEW v, v \subseteq tab[Refs[x][1]] \X tab[Refs[x][2]]
      PROVE  Consistent([tab EXCEPT ![x] = v])
  <2>1. \A r \in Relation : /\ r \in Table /\ Refs[r][1] # x /\ Refs[r][2] # x
                            /\ Refs[r][1] \in Table /\ Refs[r][2] \in Table
    BY TablesAre DEF Table, Entity
  <2> QED BY <2>1, <1>2, <1>8 DEF Consistent
<1>9. CASE pc = 18 BY <1>4, <1>6, <1>7, <1>9
<1>10. CASE pc = 34 BY <1>4, <1>6, <1>8, <1>10, TablesAre
<1>11. CASE pc = 39 BY <1>4, <1>6, <1>8, <1>11, TablesAre
<1>12. CASE pc = 40 BY <1>4, <1>6, <1>7, <1>12
<1> QED BY <1>3, <1>9, <1>10, <1>11, <1>12
\* The pairs of a relation that a deletion of rows of entity e leaves.
Left(t, r, e, gone) == {p \in t[r] : /\ Refs[r][1] = e => p[1] \notin gone
                                     /\ Refs[r][2] = e => p[2] \notin gone}

\* A deletion leaves these pairs of every relation.
LEMMA WithoutPairs ==
    ASSUME NEW t, NEW e \in Entity, NEW gone, NEW r \in Relation
    PROVE  Without(t, e, gone)[r] = Left(t, r, e, gone)
<1> DEFINE w == Without(t, e, gone)
<1>1. w = [x \in Table |->
             CASE x = e -> t[x] \ gone
               [] x \in Relation -> Left(t, x, e, gone)
               [] x = "ves_end" /\ e = "ves" -> t[x] \ gone
               [] x = "mac_mks" /\ e = "mac" -> t[x] \ gone
               [] OTHER -> t[x]]
  BY Zenon DEF Without, Left
<1>2. r # e /\ r # "ves_end" /\ r # "mac_mks" /\ r \in Table
  BY TablesAre DEF Table, Entity
<1> HIDE DEF w
<1>3. w[r] = Left(t, r, e, gone) BY <1>1, <1>2
<1> QED BY <1>3 DEF w

\* A deletion takes the rows of the entity, and the end dates of vestigingen, and
\* leaves the other entities as they are.
LEMMA WithoutRows ==
    ASSUME NEW t, NEW e \in Entity, NEW gone
    PROVE  /\ DOMAIN Without(t, e, gone) = Table
           /\ Without(t, e, gone)[e] = t[e] \ gone
           /\ \A x \in Entity \ {e} : Without(t, e, gone)[x] = t[x]
           /\ e = "ves" => Without(t, e, gone)["ves_end"] = t["ves_end"] \ gone
           /\ e # "ves" => Without(t, e, gone)["ves_end"] = t["ves_end"]
<1> DEFINE w == Without(t, e, gone)
<1>1. w = [x \in Table |->
             CASE x = e -> t[x] \ gone
               [] x \in Relation -> Left(t, x, e, gone)
               [] x = "ves_end" /\ e = "ves" -> t[x] \ gone
               [] x = "mac_mks" /\ e = "mac" -> t[x] \ gone
               [] OTHER -> t[x]]
  BY Zenon DEF Without, Left
<1>2. /\ Entity \subseteq Table /\ "ves_end" \in Table
      /\ Entity \cap Relation = {} /\ "ves_end" \notin Entity \cup Relation
      /\ "mac_mks" \notin Entity \cup Relation
  BY TablesAre DEF Table, Entity, Column
<1> HIDE DEF w
<1>3. w[e] = t[e] \ gone /\ \A x \in Entity \ {e} : w[x] = t[x]
  <2> SUFFICES ASSUME NEW x \in Entity PROVE w[x] = IF x = e THEN t[x] \ gone ELSE t[x]
    OBVIOUS
  <2>1. x \notin Relation /\ x # "ves_end" /\ x # "mac_mks" /\ x \in Table BY <1>2
  <2> QED BY <1>1, <2>1
<1>4. /\ e = "ves" => w["ves_end"] = t["ves_end"] \ gone
      /\ e # "ves" => w["ves_end"] = t["ves_end"]
  <2>1. "ves_end" # e BY <1>2
  <2> QED BY <1>1, <1>2, <2>1
<1>5. DOMAIN w = Table BY <1>1
<1> QED BY <1>3, <1>4, <1>5 DEF w

\* Deleting rows of an entity leaves the tables consistent.
LEMMA WithoutIsConsistent ==
    ASSUME NEW t, Consistent(t), NEW e \in Entity, NEW gone
    PROVE  Consistent(Without(t, e, gone))
<1> DEFINE w == Without(t, e, gone)
<1> SUFFICES ASSUME NEW r \in Relation
             PROVE  w[r] \subseteq w[Refs[r][1]] \X w[Refs[r][2]]
  BY DEF Consistent
<1>1. Refs[r][1] \in Entity /\ Refs[r][2] \in Entity
  BY TablesAre DEF Entity
<1>2. w[r] = Left(t, r, e, gone)
  BY WithoutPairs, Zenon
<1>3. w[e] = t[e] \ gone /\ \A x \in Entity \ {e} : w[x] = t[x]
  BY WithoutRows
<1>4. t[r] \subseteq t[Refs[r][1]] \X t[Refs[r][2]]
  BY DEF Consistent
<1> HIDE DEF w
<1> QED BY <1>1, <1>2, <1>3, <1>4 DEF Left

Removes(w) == Done /\ \A x \in Table : tab'[x] = w[x]

\* The tables without the ondernemingen and the activiteiten that refer to them.
WithoutOnd == WithoutMac(Without(tab, "onderneming", tab["onderneming"]),
                         {p[1] : p \in tab["mac_ond"]})

\* The four DELETE statements; only that of the ondernemingen can be refused, when
\* there are vestigingen.
LEMMA DeleteEffect ==
    ASSUME Base, pc \in 1..41, Delete
    PROVE  \/ pc = 1 /\ Removes(Without(tab, "locatie", tab["locatie"]))
           \/ pc = 3 /\ (Removes(WithoutOnd) \/ (Refused /\ ~(tab["ves_mac"] = {})))
           \/ pc = 6 /\ Removes(Without(tab, "handelsnaam", tab["handelsnaam"]))
           \/ pc = 41 /\ Removes(Without(tab, "ves", Outside(tab)))
<1> DEFINE e == Steps[pc].on
           V == CASE e = "outside" -> Without(tab, "ves", Outside(tab))
                  [] e = "onderneming" ->
                       WithoutMac(Without(tab, e, tab[e]), {p[1] : p \in tab["mac_ond"]})
                  [] OTHER -> Without(tab, e, tab[e])
<1>1. /\ run = "running" /\ Commit(V) /\ UNCHANGED <<dump, runs, start>>
      /\ Steps[pc].op = "delete"
  BY DEF Delete, At
<1>2. pc \in {1, 3, 6, 41}
  BY <1>1, StepsOfSort
<1>3. /\ pc = 1 => V = Without(tab, "locatie", tab["locatie"])
      /\ pc = 3 => V = WithoutOnd
      /\ pc = 6 => V = Without(tab, "handelsnaam", tab["handelsnaam"])
      /\ pc = 41 => V = Without(tab, "ves", Outside(tab))
  BY StepsAre DEF Del, WithoutOnd
<1> HIDE DEF e, V
<1>4. ASSUME DOMAIN V = Table, Consistent(V)
      PROVE  Removes(V)
  <2>1. tab' = V /\ pc' = pc + 1 /\ run' = run BY <1>1, <1>4 DEF Commit
  <2> QED BY <1>1, <1>4, <2>1 DEF Removes, Done
<1>5. Consistent(tab) BY DEF Base, TypeOK
<1>6. CASE pc \in {1, 6, 41}
  <2>1. {"locatie", "handelsnaam", "ves"} \subseteq Entity BY DEF Entity
  <2>2. \A x \in Entity : \A gone : /\ DOMAIN Without(tab, x, gone) = Table
                                   /\ Consistent(Without(tab, x, gone))
    BY <1>5, WithoutRows, WithoutIsConsistent, Zenon
  <2>3. DOMAIN V = Table /\ Consistent(V) BY <1>3, <1>6, <2>1, <2>2
  <2> QED BY <2>3, <1>3, <1>4, <1>6
<1>7. CASE pc = 3
  <2> DEFINE gone == {p[1] : p \in tab["mac_ond"]}
             u == Without(tab, "onderneming", tab["onderneming"])
             w == Without(u, "mac", gone)
  <2>0. "onderneming" \in Entity /\ "mac" \in Entity BY DEF Entity
  <2>1. V = [w EXCEPT !["ves_mac"] = u["ves_mac"]]
    BY <1>3, <1>7 DEF WithoutOnd, WithoutMac
  <2>2. Consistent(u) BY <1>5, <2>0, WithoutIsConsistent
  <2>3. Consistent(w) /\ DOMAIN w = Table BY <2>0, <2>2, WithoutIsConsistent, WithoutRows
  <2>4. u["ves_mac"] \subseteq tab["ves_mac"]
    <3>1. u["ves_mac"] = Left(tab, "ves_mac", "onderneming", tab["onderneming"])
      <4>1. "ves_mac" \in Relation BY TablesAre
      <4> QED BY <4>1, <2>0, WithoutPairs
    <3> QED BY <3>1 DEF Left
  <2> HIDE DEF u, w
  <2>5. DOMAIN V = Table BY <2>1, <2>3
  <2>6. CASE tab["ves_mac"] = {}
    <3>1. u["ves_mac"] = {} BY <2>4, <2>6
    <3>2. ASSUME NEW r \in Relation
          PROVE  /\ r \in Table /\ Refs[r][1] # "ves_mac" /\ Refs[r][2] # "ves_mac"
                 /\ Refs[r][1] \in Table /\ Refs[r][2] \in Table
      BY TablesAre DEF Table, Entity
    <3>3. Consistent(V) BY <2>1, <2>3, <3>1, <3>2 DEF Consistent
    <3> QED BY <1>3, <1>4, <1>7, <2>5, <3>3
  <2>7. CASE tab["ves_mac"] # {}
    <3>1. CASE Consistent(V) BY <1>3, <1>4, <1>7, <2>5, <3>1
    <3>2. CASE ~Consistent(V) BY <1>1, <1>7, <2>7, <3>2 DEF Commit, Refused
    <3> QED BY <3>1, <3>2
  <2> QED BY <2>6, <2>7
<1> QED BY <1>2, <1>6, <1>7
-----------------------------------------------------------------------------
(* The rows of every INSERT *)

\* The rows of the present statement, by its place.
LEMMA NewIs ==
    /\ pc = 2 => New = [locatie |-> dump.adr]
    /\ pc = 4 => New = [onderneming |-> dump.ond]
    /\ pc = 5 => New = [mac |-> dump.mac, mac_ond |-> Pairs(dump.ond), mac_adr |-> Adr(dump.mac)]
    /\ pc = 7 => New = [handelsnaam |-> dump.hdn]
    /\ pc = 8 => New = [ond_hdn |-> Of(dump.hdn)]
    /\ \A i \in 1..3 : pc = 7 + 2 * i => New = [com |-> ComRows(dump.mac, i)]
    /\ \A i \in 1..3 : pc = 8 + 2 * i => New = [mac_com |-> Of(ComRows(dump.mac, i))]
    /\ pc = 15 => New = [cvs |-> OfType("CVS")]
    /\ pc = 16 => New = [ncv |-> OfType("NCV")]
    /\ pc = 17 => New = [ves |-> dump.ves, ves_end |-> dump.vesEnd,
                         ves_mac |-> {<<v, dump.of[v]>> : v \in dump.ves},
                         ves_cvs |-> Pairs(OfType("CVS")), ves_ncv |-> Pairs(OfType("NCV")),
                         ves_adr |-> Adr(dump.ves)]
    /\ \A i \in 1..3 : pc = 17 + 2 * i => New = [com |-> ComRows(dump.ves, i)]
    /\ \A i \in 1..3 : pc = 18 + 2 * i => New = [ves_com |-> Of(ComRows(dump.ves, i))]
    /\ \A i \in 0..3 : pc = 25 + 2 * i => New = [act |-> ActRows(i)]
    /\ \A i \in 0..3 : pc = 26 + 2 * i => New = [ves_act |-> Of(ActRows(i))]
    /\ pc = 33 => New = [ves_hdn |-> {p \in dump.veshdn : p[1] \in tab["ves"]}]
    /\ pc = 35 => New = [nps |-> dump.nat]
    /\ pc = 36 => New = [nnp |-> dump.prs \ dump.nat]
    /\ pc = 37 => New = [prs |-> dump.prs, prs_nps |-> Pairs(dump.nat),
                         prs_nnp |-> Pairs(dump.prs \ dump.nat)]
    /\ pc = 38 => New = [fvv |-> dump.ash, fvv_prs |-> {<<a, a[i]>> : a \in dump.ash, i \in {1, 2}}]
<1>1. \A s : Steps[pc] = Ins(s) => New = Rows(s)
  BY DEF New, Ins
<1>2. \A s : \A i \in 0..3 : Steps[pc] = Num(s, i) => New = RowsOf(s, i)
  BY DEF New, Num
<1>3. /\ pc = 2 => New = Rows("locatie")
      /\ pc = 4 => New = Rows("onderneming")
      /\ pc = 5 => New = Rows("mac")
      /\ pc = 7 => New = Rows("handelsnaam")
      /\ pc = 8 => New = Rows("ond_hdn")
      /\ pc = 15 => New = Rows("cvs")
      /\ pc = 16 => New = Rows("ncv")
      /\ pc = 17 => New = Rows("ves")
      /\ pc = 33 => New = Rows("ves_hdn")
      /\ pc = 35 => New = Rows("nps")
      /\ pc = 36 => New = Rows("nnp")
      /\ pc = 37 => New = Rows("prs")
      /\ pc = 38 => New = Rows("fvv")
  BY <1>1, StepsAre
<1>4. ASSUME NEW i \in 1..3, pc = 7 + 2 * i
      PROVE  New = [com |-> ComRows(dump.mac, i)]
  <2>1. Steps[pc] = Num("mac_com", i) BY <1>4, StepsAre
  <2>2. New = RowsOf("mac_com", i) BY <2>1, <1>2
  <2> QED BY <2>2 DEF RowsOf
<1>5. ASSUME NEW i \in 1..3, pc = 8 + 2 * i
      PROVE  New = [mac_com |-> Of(ComRows(dump.mac, i))]
  <2>1. Steps[pc] = Num("mac_com_of", i) BY <1>5, StepsAre
  <2>2. New = RowsOf("mac_com_of", i) BY <2>1, <1>2
  <2> QED BY <2>2 DEF RowsOf
<1>6. ASSUME NEW i \in 1..3, pc = 17 + 2 * i
      PROVE  New = [com |-> ComRows(dump.ves, i)]
  <2>1. Steps[pc] = Num("ves_com", i) BY <1>6, StepsAre
  <2>2. New = RowsOf("ves_com", i) BY <2>1, <1>2
  <2> QED BY <2>2 DEF RowsOf
<1>7. ASSUME NEW i \in 1..3, pc = 18 + 2 * i
      PROVE  New = [ves_com |-> Of(ComRows(dump.ves, i))]
  <2>1. Steps[pc] = Num("ves_com_of", i) BY <1>7, StepsAre
  <2>2. New = RowsOf("ves_com_of", i) BY <2>1, <1>2
  <2> QED BY <2>2 DEF RowsOf
<1>8. ASSUME NEW i \in 0..3, pc = 25 + 2 * i
      PROVE  New = [act |-> ActRows(i)]
  <2>1. Steps[pc] = Num("act", i) BY <1>8, StepsAre
  <2>2. New = RowsOf("act", i) BY <2>1, <1>2
  <2> QED BY <2>2 DEF RowsOf
<1>9. ASSUME NEW i \in 0..3, pc = 26 + 2 * i
      PROVE  New = [ves_act |-> Of(ActRows(i))]
  <2>1. Steps[pc] = Num("ves_act", i) BY <1>9, StepsAre
  <2>2. New = RowsOf("ves_act", i) BY <2>1, <1>2
  <2> QED BY <2>2 DEF RowsOf
<1> QED BY <1>3, <1>4, <1>5, <1>6, <1>7, <1>8, <1>9 DEF Rows
-----------------------------------------------------------------------------
(* Base is kept by every statement *)

LEMMA DumpIs == Base => DumpOK(dump)
BY HrAssumption DEF Base, TypeOK

\* The numbers of the statements that are made once for every number.
LEMMA Places ==
    ASSUME NEW k \in 1..41, Steps[k].op = "insert"
    PROVE  \/ k \in {2, 4, 5, 7, 8, 15, 16, 17, 33, 35, 36, 37, 38}
           \/ \E i \in 1..3 : k \in {7 + 2 * i, 8 + 2 * i, 17 + 2 * i, 18 + 2 * i}
           \/ \E i \in 0..3 : k \in {25 + 2 * i, 26 + 2 * i}
<1>1. k \notin {1, 3, 6, 41} /\ k \notin {18, 34, 39, 40} BY StepsOfSort
<1>2. CASE k \in 9..14
  <2>1. \E i \in 1..3 : k = 7 + 2 * i \/ k = 8 + 2 * i BY <1>2
  <2> QED BY <2>1
<1>3. CASE k \in 19..24
  <2>1. \E i \in 1..3 : k = 17 + 2 * i \/ k = 18 + 2 * i BY <1>3
  <2> QED BY <2>1
<1>4. CASE k \in 25..32
  <2>1. \E i \in 0..3 : k = 25 + 2 * i \/ k = 26 + 2 * i BY <1>4
  <2> QED BY <2>1
<1>5. CASE k \notin 9..14 /\ k \notin 19..32 BY <1>1, <1>5
<1> QED BY <1>2, <1>3, <1>4, <1>5

\* An INSERT adds rows of the dump only; activiteiten come with their ondernemingen,
\* and end dates with their vestigingen.
LEMMA NewInFull ==
    ASSUME Base, pc \in 1..41, Steps[pc].op = "insert"
    PROVE  /\ \A e \in Entity : e \in DOMAIN New => New[e] \subseteq Full[e]
           /\ "mac" \in DOMAIN New \/ "mac_ond" \in DOMAIN New =>
                 pc = 5 /\ New["mac_ond"] = Pairs(dump.ond)
           /\ "ves_end" \in DOMAIN New =>
                 /\ "ves" \in DOMAIN New
                 /\ New["ves_end"] \subseteq New["ves"]
           /\ pc = 5 => "mac_ond" \in DOMAIN New
<1>1. /\ Full["locatie"] = dump.adr /\ Full["onderneming"] = dump.ond /\ Full["mac"] = dump.mac
      /\ Full["handelsnaam"] = dump.hdn /\ Full["com"] = dump.com /\ Full["cvs"] = OfType("CVS")
      /\ Full["ncv"] = OfType("NCV") /\ Full["ves"] = dump.ves /\ Full["act"] = dump.act
      /\ Full["nps"] = dump.nat /\ Full["nnp"] = dump.prs \ dump.nat /\ Full["prs"] = dump.prs
      /\ Full["fvv"] = dump.ash
  BY DEF Full
<1>2. dump.vesEnd \subseteq dump.ves BY DumpIs DEF DumpOK
<1>3. \A i, S : ComRows(S, i) \subseteq dump.com /\ ActRows(i) \subseteq dump.act
  BY DEF ComRows, ActRows
<1> HIDE DEF Full
<1>4. CASE pc \in {2, 4, 7, 8} BY <1>1, <1>4, NewIs DEF Entity
<1>5. CASE pc = 5 BY <1>1, <1>5, NewIs DEF Entity
<1>6. CASE pc = 17 BY <1>1, <1>2, <1>6, NewIs DEF Entity
<1>7. CASE pc \in {15, 16, 33} BY <1>1, <1>7, NewIs DEF Entity
<1>8. CASE pc \in {35, 36, 37, 38} BY <1>1, <1>8, NewIs DEF Entity
<1>9. ASSUME NEW i \in 1..3, pc \in {7 + 2 * i, 8 + 2 * i, 17 + 2 * i, 18 + 2 * i}
      PROVE  /\ DOMAIN New \in {{"com"}, {"mac_com"}, {"ves_com"}} /\ pc # 5
             /\ "com" \in DOMAIN New => New["com"] \subseteq dump.com
  <2>1. pc # 5 BY <1>9
  <2>2. CASE pc = 7 + 2 * i BY <1>3, <2>1, <2>2, NewIs
  <2>3. CASE pc = 8 + 2 * i BY <2>1, <2>3, NewIs
  <2>4. CASE pc = 17 + 2 * i BY <1>3, <2>1, <2>4, NewIs
  <2>5. CASE pc = 18 + 2 * i BY <2>1, <2>5, NewIs
  <2> QED BY <1>9, <2>2, <2>3, <2>4, <2>5
<1>10. ASSUME NEW i \in 0..3, pc \in {25 + 2 * i, 26 + 2 * i}
       PROVE  /\ DOMAIN New \in {{"act"}, {"ves_act"}} /\ pc # 5
              /\ "act" \in DOMAIN New => New["act"] \subseteq dump.act
  <2>1. pc # 5 BY <1>10
  <2>2. CASE pc = 25 + 2 * i BY <1>3, <2>1, <2>2, NewIs
  <2>3. CASE pc = 26 + 2 * i BY <2>1, <2>3, NewIs
  <2> QED BY <1>10, <2>2, <2>3
<1>11. CASE \E i \in 1..3 : pc \in {7 + 2 * i, 8 + 2 * i, 17 + 2 * i, 18 + 2 * i}
  BY <1>1, <1>9, <1>11 DEF Entity
<1>12. CASE \E i \in 0..3 : pc \in {25 + 2 * i, 26 + 2 * i}
  BY <1>1, <1>10, <1>12 DEF Entity
<1> QED BY <1>4, <1>5, <1>6, <1>7, <1>8, <1>11, <1>12, Places

\* The parts of Base that a change of the tables has to keep.
LEMMA BaseKept ==
    ASSUME Base, UNCHANGED <<dump, start, runs>>, DOMAIN tab' = Table, Consistent(tab'),
           run' \in {"running", "done", "raised", "killed"}, pc' \in 0..42,
           \A e \in Entity : tab'[e] \subseteq Full[e],
           tab'["ves_end"] \subseteq tab'["ves"],
           tab'["mac_ond"] \subseteq Pairs(dump.ond),
           \A m \in tab'["mac"] \cap dump.ond : <<m, m>> \in tab'["mac_ond"]
    PROVE  Base'
<1>1. Full' = Full /\ Pairs(dump.ond)' = Pairs(dump.ond)
  BY DEF Full, OfType, Pairs
<1>2. Full["mac"] = dump.mac /\ Full["ves"] = dump.ves /\ Full["locatie"] = dump.adr
  BY DEF Full
<1>3. /\ tab'["mac"] \subseteq dump.mac /\ tab'["ves"] \subseteq dump.ves
      /\ tab'["locatie"] \subseteq dump.adr
  <2>1. {"mac", "ves", "locatie"} \subseteq Entity BY DEF Entity
  <2> QED BY <1>2, <2>1
<1>4. TypeOK' BY <1>3, StepsAre DEF Base, TypeOK
<1>5. /\ \A e \in Entity : tab'[e] \subseteq Full'[e] /\ start'[e] \subseteq Full'[e]
      /\ (tab["mac_ond"])' \subseteq Pairs(dump.ond)'
  BY <1>1 DEF Base
<1> QED BY <1>4, <1>5 DEF Base

LEMMA BaseAdds ==
    ASSUME Base, pc \in 1..41, Steps[pc].op = "insert", Adds(New)
    PROVE  Base'
<1>1. /\ UNCHANGED <<dump, start, runs>> /\ DOMAIN tab' = Table /\ Consistent(tab')
      /\ run' = "running" /\ pc' \in 0..42
      /\ \A x \in Table : tab'[x] = With(New, x)
  BY DEF Adds, Done
<1>2. /\ Entity \subseteq Table /\ "ves_end" \in Table /\ "mac_ond" \in Table /\ "mac" \in Entity
      /\ "ves" \in Entity
  BY TablesAre DEF Table, Entity, Column
<1>3. \A e \in Entity : tab'[e] \subseteq Full[e]
  BY <1>1, <1>2, NewInFull DEF With, Base
<1>4. tab'["ves_end"] \subseteq tab'["ves"]
  BY <1>1, <1>2, NewInFull DEF With, Base
<1>5. tab'["mac_ond"] \subseteq Pairs(dump.ond)
  BY <1>1, <1>2, NewInFull DEF With, Base
<1>6. \A m \in tab'["mac"] \cap dump.ond : <<m, m>> \in tab'["mac_ond"]
  <2> SUFFICES ASSUME NEW m \in dump.ond, m \in tab'["mac"]
               PROVE  <<m, m>> \in tab'["mac_ond"]
    OBVIOUS
  <2>1. CASE pc = 5
    <3>1. <<m, m>> \in New["mac_ond"] BY <2>1, NewInFull DEF Pairs
    <3> QED BY <1>1, <1>2, <2>1, <3>1, NewInFull DEF With
  <2>2. CASE pc # 5
    <3>1. tab'["mac"] = tab["mac"] /\ tab'["mac_ond"] = tab["mac_ond"]
      BY <1>1, <1>2, <2>2, NewInFull DEF With
    <3> QED BY <3>1 DEF Base
  <2> QED BY <2>1, <2>2
<1> QED BY <1>1, <1>3, <1>4, <1>5, <1>6, BaseKept

LEMMA BaseChanges ==
    ASSUME Base, pc \in 1..41, NEW c \in {"ves_end", "mac_hoofd", "mac_eig", "mac_mks"}, NEW v,
           c = "ves_end" => v = EndDates, Changes(c, v)
    PROVE  Base'
<1>1. /\ UNCHANGED <<dump, start, runs>> /\ DOMAIN tab' = Table /\ Consistent(tab')
      /\ run' = "running" /\ pc' \in 0..42
      /\ tab'[c] = v /\ \A y \in Table \ {c} : tab'[y] = tab[y]
  BY DEF Changes, Done
<1>2. Entity \subseteq Table /\ c \notin Entity /\ c # "mac_ond" /\ "mac_ond" \in Table
      /\ "mac" \in Entity /\ "ves" \in Entity /\ "ves_end" \in Table
  BY TablesAre DEF Table, Entity, Column
<1>3. \A e \in Entity : tab'[e] = tab[e] BY <1>1, <1>2
<1>4. tab'["mac_ond"] = tab["mac_ond"] BY <1>1, <1>2
<1>5. tab'["ves_end"] \subseteq tab["ves"]
  BY <1>1, <1>2 DEF EndDates, Base
<1> QED BY <1>1, <1>2, <1>3, <1>4, <1>5, BaseKept DEF Base

\* What a deletion of rows of an entity leaves.
LEMMA RemovesIs ==
    ASSUME NEW e \in Entity, NEW gone, Removes(Without(tab, e, gone))
    PROVE  /\ Done
           /\ tab'[e] = tab[e] \ gone
           /\ \A x \in Entity \ {e} : tab'[x] = tab[x]
           /\ \A r \in Relation : tab'[r] = Left(tab, r, e, gone) /\ tab'[r] \subseteq tab[r]
           /\ \A r \in Relation : Refs[r][1] # e /\ Refs[r][2] # e => tab'[r] = tab[r]
           /\ e = "ves" => tab'["ves_end"] = tab["ves_end"] \ gone
           /\ e # "ves" => tab'["ves_end"] = tab["ves_end"]
<1> DEFINE w == Without(tab, e, gone)
<1>1. Entity \subseteq Table /\ Relation \subseteq Table /\ "ves_end" \in Table
  BY DEF Table, Column
<1>2. \A r \in Relation : w[r] = Left(tab, r, e, gone) BY WithoutPairs
<1>3. /\ w[e] = tab[e] \ gone
      /\ \A x \in Entity \ {e} : w[x] = tab[x]
      /\ e = "ves" => w["ves_end"] = tab["ves_end"] \ gone
      /\ e # "ves" => w["ves_end"] = tab["ves_end"]
  BY WithoutRows
<1>4. Done /\ \A x \in Table : tab'[x] = w[x] BY DEF Removes
<1> HIDE DEF w
<1>5. \A r \in Relation : tab'[r] = Left(tab, r, e, gone) BY <1>1, <1>2, <1>4
<1>6. \A r : Left(tab, r, e, gone) \subseteq tab[r] BY DEF Left
<1>7. \A r : Refs[r][1] # e /\ Refs[r][2] # e => Left(tab, r, e, gone) = tab[r]
  BY DEF Left
<1>8. \A r \in Relation : tab'[r] \subseteq tab[r] BY <1>5, <1>6
<1>9. \A r \in Relation : Refs[r][1] # e /\ Refs[r][2] # e => tab'[r] = tab[r] BY <1>5, <1>7
<1> QED BY <1>1, <1>3, <1>4, <1>5, <1>8, <1>9

\* The deletion of the ondernemingen takes the activiteiten that are in the dump's.
LEMMA RemovesOnd ==
    ASSUME Base, Removes(WithoutOnd)
    PROVE  /\ Done
           /\ tab'["onderneming"] = {} /\ tab'["mac"] = tab["mac"] \ dump.ond
           /\ \A x \in Entity \ {"onderneming", "mac"} : tab'[x] = tab[x]
           /\ \A r \in Relation : tab'[r] \subseteq tab[r]
           /\ tab'["ves_mac"] = tab["ves_mac"]
           /\ tab'["ves_end"] = tab["ves_end"]
<1> DEFINE gone == {p[1] : p \in tab["mac_ond"]}
           u == Without(tab, "onderneming", tab["onderneming"])
           w == Without(u, "mac", gone)
<1>1. /\ Entity \subseteq Table /\ Relation \subseteq Table /\ "ves_end" \in Table
      /\ "ves_mac" \in Relation /\ "ves_mac" \notin Entity
      /\ "onderneming" \in Entity /\ "mac" \in Entity
      /\ "ves_end" \notin Relation
  BY TablesAre DEF Table, Column, Entity
<1>2. WithoutOnd = [w EXCEPT !["ves_mac"] = u["ves_mac"]]
  BY DEF WithoutOnd, WithoutMac
<1>3. /\ u["onderneming"] = {} /\ \A x \in Entity \ {"onderneming"} : u[x] = tab[x]
      /\ u["ves_end"] = tab["ves_end"]
  BY <1>1, WithoutRows
<1>4. \A r \in Relation : u[r] = Left(tab, r, "onderneming", tab["onderneming"])
  BY <1>1, WithoutPairs
<1>5. /\ DOMAIN w = Table /\ w["mac"] = u["mac"] \ gone
      /\ \A x \in Entity \ {"mac"} : w[x] = u[x]
      /\ w["ves_end"] = u["ves_end"]
  BY <1>1, WithoutRows
<1>6. \A r \in Relation : w[r] = Left(u, r, "mac", gone)
  BY <1>1, WithoutPairs
<1>7. Done /\ \A x \in Table : tab'[x] = WithoutOnd[x] BY DEF Removes
<1>8. tab["mac"] \ gone = tab["mac"] \ dump.ond
  <2>1. tab["mac_ond"] \subseteq Pairs(dump.ond) BY DEF Base
  <2>2. gone \subseteq dump.ond BY <2>1 DEF Pairs
  <2>3. \A m \in tab["mac"] \cap dump.ond : m \in gone
    <3> TAKE m \in tab["mac"] \cap dump.ond
    <3>1. <<m, m>> \in tab["mac_ond"] /\ <<m, m>>[1] = m BY DEF Base
    <3> QED BY <3>1
  <2> HIDE DEF gone
  <2> QED BY <2>2, <2>3
<1> HIDE DEF u, w, gone
<1>9. \A r \in Relation : w[r] \subseteq tab[r] /\ u[r] \subseteq tab[r]
  BY <1>4, <1>6 DEF Left
<1>10. \A x \in Table \ {"ves_mac"} : tab'[x] = w[x]
  BY <1>2, <1>5, <1>7
<1>11. tab'["ves_mac"] = u["ves_mac"]
  BY <1>1, <1>2, <1>5, <1>7
<1>12. \A r \in Relation : tab'[r] \subseteq tab[r]
  BY <1>1, <1>9, <1>10, <1>11
<1>13. tab'["ves_mac"] = tab["ves_mac"]
  <2>1. Left(tab, "ves_mac", "onderneming", tab["onderneming"]) = tab["ves_mac"]
    BY TablesAre DEF Left
  <2> QED BY <1>1, <1>4, <1>11, <2>1
<1> QED BY <1>1, <1>3, <1>5, <1>7, <1>8, <1>10, <1>12, <1>13

LEMMA BaseRemoves ==
    ASSUME Base, pc \in 1..41, NEW e \in {"locatie", "handelsnaam", "ves"}, NEW gone,
           Removes(Without(tab, e, gone))
    PROVE  Base'
<1>1. e \in Entity /\ "mac" \in Entity /\ "ves" \in Entity /\ "mac_ond" \in Relation
  BY TablesAre DEF Entity
<1>2. /\ Done
      /\ tab'[e] = tab[e] \ gone
      /\ \A x \in Entity \ {e} : tab'[x] = tab[x]
      /\ \A r \in Relation : Refs[r][1] # e /\ Refs[r][2] # e => tab'[r] = tab[r]
      /\ e = "ves" => tab'["ves_end"] = tab["ves_end"] \ gone
      /\ e # "ves" => tab'["ves_end"] = tab["ves_end"]
  BY <1>1, RemovesIs
<1>3. \A x \in Entity : tab'[x] \subseteq tab[x] BY <1>2
<1>4. tab'["mac"] = tab["mac"] BY <1>1, <1>2
<1>5. tab'["mac_ond"] = tab["mac_ond"]
  BY <1>1, <1>2, TablesAre
<1>6. tab'["ves_end"] \subseteq tab'["ves"]
  BY <1>1, <1>2 DEF Base
<1>7. /\ UNCHANGED <<dump, start, runs>> /\ DOMAIN tab' = Table /\ Consistent(tab')
      /\ run' = "running" /\ pc' \in 0..42
  BY <1>2 DEF Done
<1>8. \A x \in Entity : tab'[x] \subseteq Full[x] BY <1>3 DEF Base
<1> QED BY <1>4, <1>5, <1>6, <1>7, <1>8, BaseKept DEF Base

LEMMA BaseRemovesOnd ==
    ASSUME Base, pc \in 1..41, Removes(WithoutOnd)
    PROVE  Base'
<1>1. /\ Done
      /\ tab'["onderneming"] = {} /\ tab'["mac"] = tab["mac"] \ dump.ond
      /\ \A x \in Entity \ {"onderneming", "mac"} : tab'[x] = tab[x]
      /\ \A r \in Relation : tab'[r] \subseteq tab[r]
      /\ tab'["ves_end"] = tab["ves_end"]
  BY RemovesOnd
<1>2. "ves" \in Entity \ {"onderneming", "mac"} /\ "mac_ond" \in Relation
  BY TablesAre DEF Entity
<1>3. \A x \in Entity : tab'[x] \subseteq tab[x] BY <1>1
<1>4. /\ UNCHANGED <<dump, start, runs>> /\ DOMAIN tab' = Table /\ Consistent(tab')
      /\ run' = "running" /\ pc' \in 0..42
  BY <1>1 DEF Done
<1>5. \A x \in Entity : tab'[x] \subseteq Full[x] BY <1>3 DEF Base
<1>6. tab'["mac_ond"] \subseteq Pairs(dump.ond) BY <1>1, <1>2 DEF Base
<1>7. tab'["ves_end"] \subseteq tab'["ves"] BY <1>1, <1>2 DEF Base
<1>8. tab'["mac"] \cap dump.ond = {} BY <1>1
<1> QED BY <1>4, <1>5, <1>6, <1>7, <1>8, BaseKept

\* Base is kept by every step.
LEMMA BaseNext ==
    ASSUME Base, run = "running" => pc \in 1..42, [Next]_vars
    PROVE  Base'
<1>1. pc \in 0..42 BY StepsAre DEF Base, TypeOK
<1>2. ASSUME UNCHANGED <<dump, tab, start, runs>>, pc' = pc,
             run' \in {"running", "done", "raised", "killed"}
      PROVE  Base'
  <2>1. /\ DOMAIN tab' = Table /\ Consistent(tab')
        /\ \A e \in Entity : tab'[e] \subseteq Full[e]
        /\ tab'["ves_end"] \subseteq tab'["ves"] /\ tab'["mac_ond"] \subseteq Pairs(dump.ond)
        /\ \A m \in tab'["mac"] \cap dump.ond : <<m, m>> \in tab'["mac_ond"]
    BY <1>2 DEF Base, TypeOK
  <2> QED BY <1>1, <1>2, <2>1, BaseKept
<1>3. ASSUME At("insert") \/ At("update") \/ At("delete")
      PROVE  run = "running" /\ pc \in 1..41
  BY <1>3, StepsAre DEF At
<1>4. CASE Start
  <2>1. /\ UNCHANGED <<dump, tab>> /\ start' = tab /\ pc' = 1 /\ run' = "running"
        /\ runs' = runs + 1 /\ runs < MaxRuns
    BY <1>4 DEF Start
  <2>2. Full' = Full /\ Pairs(dump.ond)' = Pairs(dump.ond)
    BY <2>1 DEF Full, OfType, Pairs
  <2>3. TypeOK' BY <2>1, StepsAre, HrAssumption DEF Base, TypeOK
  <2>4. /\ \A e \in Entity : tab'[e] \subseteq Full'[e] /\ start'[e] \subseteq Full'[e]
        /\ tab'["ves_end"] \subseteq tab'["ves"] /\ (tab["mac_ond"])' \subseteq Pairs(dump.ond)'
    BY <2>1, <2>2 DEF Base
  <2>5. \A m \in tab'["mac"] \cap dump'.ond : <<m, m>> \in tab'["mac_ond"]
    BY <2>1 DEF Base
  <2> QED BY <2>3, <2>4, <2>5 DEF Base
<1>5. CASE Insert
  <2>1. pc \in 1..41 /\ Steps[pc].op = "insert" BY <1>3, <1>5 DEF Insert, At
  <2>2. CASE Adds(New) BY <2>1, <2>2, BaseAdds
  <2>3. CASE Refused BY <1>2, <2>3 DEF Refused
  <2> QED BY <1>5, <2>2, <2>3, InsertEffect
<1>6. CASE Update
  <2>1. pc \in 1..41 BY <1>3, <1>6 DEF Update
  <2>2. CASE Refused BY <1>2, <2>2 DEF Refused
  <2>3. CASE Changes("ves_end", EndDates) BY <2>1, <2>3, BaseChanges
  <2>4. CASE Changes("mac_hoofd", Hoofd) BY <2>1, <2>4, BaseChanges
  <2>5. CASE Changes("mac_eig", Eig) BY <2>1, <2>5, BaseChanges
  <2>6. CASE Changes("mac_mks", Mks) BY <2>1, <2>6, BaseChanges
  <2> QED BY <1>6, <2>1, <2>2, <2>3, <2>4, <2>5, <2>6, UpdateEffect
<1>7. CASE Delete
  <2>1. pc \in 1..41 BY <1>3, <1>7 DEF Delete
  <2>2. CASE Refused BY <1>2, <2>2 DEF Refused
  <2>3. CASE Removes(Without(tab, "locatie", tab["locatie"])) BY <2>1, <2>3, BaseRemoves
  <2>4. CASE Removes(Without(tab, "handelsnaam", tab["handelsnaam"])) BY <2>1, <2>4, BaseRemoves
  <2>5. CASE Removes(Without(tab, "ves", Outside(tab))) BY <2>1, <2>5, BaseRemoves
  <2>6. CASE Removes(WithoutOnd) BY <2>1, <2>6, BaseRemovesOnd
  <2> QED BY <1>7, <2>1, <2>2, <2>3, <2>4, <2>5, <2>6, DeleteEffect
<1>8. CASE Finish BY <1>2, <1>8 DEF Finish
<1>9. CASE Kill BY <1>2, <1>9 DEF Kill
<1>10. CASE UNCHANGED vars
  <2>1. /\ UNCHANGED <<dump, tab, start, runs, run>> /\ pc' = pc BY <1>10 DEF vars
  <2>2. Full' = Full /\ Pairs(dump.ond)' = Pairs(dump.ond)
    BY <2>1 DEF Full, OfType, Pairs
  <2>3. TypeOK' BY <2>1 DEF Base, TypeOK
  <2> QED BY <2>1, <2>2, <2>3 DEF Base
<1> QED BY <1>4, <1>5, <1>6, <1>7, <1>8, <1>9, <1>10 DEF Next
-----------------------------------------------------------------------------
(* How far a run has come: what a statement leaves as it is *)

Same(S) == \A x \in S : tab'[x] = tab[x]

\* The tables that each part of Progress is about.
ReplacedTables == {"locatie", "onderneming", "mac", "mac_adr", "handelsnaam", "ond_hdn"}
AddedTables == {"com", "act", "cvs", "ncv", "nps", "nnp", "prs", "fvv"}
OfVesTables == {"ves", "ves_mac", "ves_adr", "ves_com", "ves_act", "ves_hdn", "ves_end",
                "mac_hoofd", "mac_eig"}

\* What is in the dump, with the numbers of its rows.
LEMMA DumpNumbers ==
    ASSUME Base
    PROVE  /\ \A c \in dump.com : c[2] \in 1..3 /\ c[1] \in dump.mac \cup dump.ves
           /\ \A a \in dump.act : a[2] \in 0..3 /\ a[1] \in dump.ves
           /\ dump.mac \cap dump.ves = {}
BY DumpIs DEF DumpOK

LEMMA ReplacedKept ==
    ASSUME Replaced, pc \in 9..41, Done, Same(ReplacedTables)
    PROVE  Replaced'
<1>1. UNCHANGED <<dump, start>> /\ pc' = pc + 1 BY DEF Done
<1>2. /\ tab'["locatie"] = tab["locatie"] /\ tab'["onderneming"] = tab["onderneming"]
      /\ tab'["mac"] = tab["mac"] /\ tab'["mac_adr"] = tab["mac_adr"]
      /\ tab'["handelsnaam"] = tab["handelsnaam"] /\ tab'["ond_hdn"] = tab["ond_hdn"]
  BY DEF Same, ReplacedTables
<1>3. Adr(dump.mac)' = Adr(dump.mac) /\ Of(dump.hdn)' = Of(dump.hdn)
  BY <1>1 DEF Adr, Of
<1> QED BY <1>1, <1>2, <1>3 DEF Replaced

\* What a statement makes due: the rows it adds, and nothing else.
LEMMA DueNext ==
    ASSUME Base, Done, pc \in 1..41
    PROVE  /\ pc \notin {9, 11, 13, 19, 21, 23} => Due'["com"] = Due["com"]
           /\ \A i \in 1..3 : pc = 7 + 2 * i => Due'["com"] = Due["com"] \cup ComRows(dump.mac, i)
           /\ \A i \in 1..3 : pc = 17 + 2 * i => Due'["com"] = Due["com"] \cup ComRows(dump.ves, i)
           /\ pc \notin {25, 27, 29, 31} => Due'["act"] = Due["act"]
           /\ \A i \in 0..3 : pc = 25 + 2 * i => Due'["act"] = Due["act"] \cup ActRows(i)
           /\ (pc = 15 => Due'["cvs"] = Due["cvs"] \cup OfType("CVS")) /\ (pc # 15 => Due'["cvs"] = Due["cvs"])
           /\ (pc = 16 => Due'["ncv"] = Due["ncv"] \cup OfType("NCV")) /\ (pc # 16 => Due'["ncv"] = Due["ncv"])
           /\ (pc = 35 => Due'["nps"] = Due["nps"] \cup dump.nat) /\ (pc # 35 => Due'["nps"] = Due["nps"])
           /\ (pc = 36 => Due'["nnp"] = Due["nnp"] \cup (dump.prs \ dump.nat)) /\ (pc # 36 => Due'["nnp"] = Due["nnp"])
           /\ (pc = 37 => Due'["prs"] = Due["prs"] \cup dump.prs) /\ (pc # 37 => Due'["prs"] = Due["prs"])
           /\ (pc = 38 => Due'["fvv"] = Due["fvv"] \cup dump.ash) /\ (pc # 38 => Due'["fvv"] = Due["fvv"])
<1>1. UNCHANGED <<dump, start>> /\ pc' = pc + 1 BY DEF Done
<1>2. /\ Due["com"] = ComSoFar /\ Due["act"] = ActSoFar
      /\ Due'["com"] = ComSoFar' /\ Due'["act"] = ActSoFar'
  BY DEF Due
<1>3. pc \notin {9, 11, 13, 19, 21, 23} => Due'["com"] = Due["com"]
  <2> SUFFICES ASSUME pc \notin {9, 11, 13, 19, 21, 23} PROVE ComSoFar' = ComSoFar
    BY <1>2
  <2>1. /\ \A c \in dump.com : 7 + 2 * c[2] < pc <=> 7 + 2 * c[2] < pc + 1
        /\ \A c \in dump.com : 17 + 2 * c[2] < pc <=> 17 + 2 * c[2] < pc + 1
    BY DumpNumbers
  <2> QED BY <1>1, <2>1 DEF ComSoFar
<1>4. ASSUME NEW i \in 1..3, pc = 7 + 2 * i
      PROVE  ComSoFar' = ComSoFar \cup ComRows(dump.mac, i)
  BY <1>1, <1>4, DumpNumbers DEF ComSoFar, ComRows
<1>5. ASSUME NEW i \in 1..3, pc = 17 + 2 * i
      PROVE  ComSoFar' = ComSoFar \cup ComRows(dump.ves, i)
  BY <1>1, <1>5, DumpNumbers DEF ComSoFar, ComRows
<1>6. pc \notin {25, 27, 29, 31} => ActSoFar' = ActSoFar
  BY <1>1, DumpNumbers DEF ActSoFar
<1>7. ASSUME NEW i \in 0..3, pc = 25 + 2 * i
      PROVE  ActSoFar' = ActSoFar \cup ActRows(i)
  BY <1>1, <1>7, DumpNumbers DEF ActSoFar, ActRows
<1>8. /\ (pc = 15 => Due'["cvs"] = Due["cvs"] \cup OfType("CVS")) /\ (pc # 15 => Due'["cvs"] = Due["cvs"])
      /\ (pc = 16 => Due'["ncv"] = Due["ncv"] \cup OfType("NCV")) /\ (pc # 16 => Due'["ncv"] = Due["ncv"])
  <2>1. OfType("CVS")' = OfType("CVS") /\ OfType("NCV")' = OfType("NCV") BY <1>1 DEF OfType
  <2>2. /\ Due["cvs"] = If(pc > 15, OfType("CVS")) /\ Due'["cvs"] = If(pc > 15, OfType("CVS"))'
        /\ Due["ncv"] = If(pc > 16, OfType("NCV")) /\ Due'["ncv"] = If(pc > 16, OfType("NCV"))'
    BY DEF Due
  <2> QED BY <1>1, <2>1, <2>2 DEF If
<1>9. /\ (pc = 35 => Due'["nps"] = Due["nps"] \cup dump.nat) /\ (pc # 35 => Due'["nps"] = Due["nps"])
      /\ (pc = 36 => Due'["nnp"] = Due["nnp"] \cup (dump.prs \ dump.nat)) /\ (pc # 36 => Due'["nnp"] = Due["nnp"])
      /\ (pc = 37 => Due'["prs"] = Due["prs"] \cup dump.prs) /\ (pc # 37 => Due'["prs"] = Due["prs"])
      /\ (pc = 38 => Due'["fvv"] = Due["fvv"] \cup dump.ash) /\ (pc # 38 => Due'["fvv"] = Due["fvv"])
  <2>1. /\ Due["nps"] = If(pc > 35, dump.nat) /\ Due'["nps"] = If(pc > 35, dump.nat)'
        /\ Due["nnp"] = If(pc > 36, dump.prs \ dump.nat)
        /\ Due'["nnp"] = If(pc > 36, dump.prs \ dump.nat)'
        /\ Due["prs"] = If(pc > 37, dump.prs) /\ Due'["prs"] = If(pc > 37, dump.prs)'
        /\ Due["fvv"] = If(pc > 38, dump.ash) /\ Due'["fvv"] = If(pc > 38, dump.ash)'
    BY DEF Due
  <2> QED BY <1>1, <2>1 DEF If
<1> QED BY <1>2, <1>3, <1>4, <1>5, <1>6, <1>7, <1>8, <1>9

LEMMA DomainOfDue == DOMAIN Due = AddedTables /\ DOMAIN Due' = AddedTables
BY DEF Due, AddedTables

\* A statement that adds to no table keeps Added.
LEMMA AddedKept ==
    ASSUME Added, Done, Same(AddedTables), \A e \in AddedTables : Due'[e] = Due[e]
    PROVE  Added'
<1>1. start' = start BY DEF Done
<1> SUFFICES ASSUME NEW e \in AddedTables
             PROVE  Grown(e, Due[e])'
  BY DomainOfDue DEF Added
<1>2. Grown(e, Due[e]) BY DomainOfDue DEF Added
<1> QED BY <1>1, <1>2 DEF Grown, Same

\* So does one that adds the rows that are due to one table, when none was there.
LEMMA AddedBy ==
    ASSUME Added, Done, NEW x \in AddedTables, NEW V, V \cap tab[x] = {},
           tab'[x] = tab[x] \cup V, Due'[x] = Due[x] \cup V,
           \A e \in AddedTables \ {x} : tab'[e] = tab[e] /\ Due'[e] = Due[e]
    PROVE  Added'
<1>1. start' = start BY DEF Done
<1> SUFFICES ASSUME NEW e \in AddedTables
             PROVE  Grown(e, Due[e])'
  BY DomainOfDue DEF Added
<1>2. Grown(e, Due[e]) BY DomainOfDue DEF Added
<1> QED BY <1>1, <1>2 DEF Grown

\* The statements that add to no table that is only added to.
NotAdding == (1..8) \cup {10, 12, 14, 17, 18, 20, 22, 24, 26, 28, 30, 32, 33, 34, 39, 40, 41}

LEMMA NothingDue ==
    ASSUME Base, Done, pc \in NotAdding
    PROVE  \A e \in AddedTables : Due'[e] = Due[e]
<1>1. /\ pc \in 1..41 /\ pc \notin {9, 11, 13, 19, 21, 23} /\ pc \notin {25, 27, 29, 31}
      /\ pc \notin {15, 16, 35, 36, 37, 38}
  BY DEF NotAdding
<1>2. /\ Due'["com"] = Due["com"] /\ Due'["act"] = Due["act"] BY <1>1, DueNext
<1>3. /\ Due'["cvs"] = Due["cvs"] /\ Due'["ncv"] = Due["ncv"] /\ Due'["nps"] = Due["nps"]
      /\ Due'["nnp"] = Due["nnp"] /\ Due'["prs"] = Due["prs"] /\ Due'["fvv"] = Due["fvv"]
  BY <1>1, DueNext
<1> QED BY <1>2, <1>3 DEF AddedTables

LEMMA VestigingenKept ==
    ASSUME Vestigingen, Done, pc \in 1..40, pc # 17, tab'["ves"] = tab["ves"]
    PROVE  Vestigingen'
<1>1. UNCHANGED <<dump, start>> /\ pc' = pc + 1 BY DEF Done
<1> QED BY <1>1 DEF Vestigingen

\* The statements that do not touch what belongs to the vestigingen.
NotOfVes == {19, 21, 23, 25, 27, 29, 31, 35, 36, 37, 38, 40}

LEMMA OfVesKept ==
    ASSUME Base, OfVes, Done, pc \in 1..16 \/ (pc \in NotOfVes /\ Same(OfVesTables))
    PROVE  OfVes'
<1>1. UNCHANGED <<dump, start>> /\ pc' = pc + 1 BY DEF Done
<1>2. CASE pc \in 1..16 BY <1>1, <1>2 DEF OfVes
<1>3. CASE pc \in NotOfVes /\ Same(OfVesTables)
  <2>1. \A x \in OfVesTables : tab'[x] = tab[x] BY <1>3 DEF Same
  <2>2. /\ \A c \in dump.com : 18 + 2 * c[2] < pc <=> 18 + 2 * c[2] < pc + 1
        /\ \A a \in dump.act : 26 + 2 * a[2] < pc <=> 26 + 2 * a[2] < pc + 1
    BY <1>3, DumpNumbers DEF NotOfVes
  <2>3. VesComSoFar' = VesComSoFar /\ VesActSoFar' = VesActSoFar
    BY <1>1, <2>1, <2>2 DEF VesComSoFar, VesActSoFar, OfVesTables
  <2>4. \A k \in {17, 18, 33, 34, 39} : pc > k <=> pc' > k
    BY <1>1, <1>3 DEF NotOfVes
  <2>5. Of(VesComSoFar)' = Of(VesComSoFar) /\ Of(VesActSoFar)' = Of(VesActSoFar)
        /\ Adr(tab["ves"])' = Adr(tab["ves"]) /\ WithEndedMac(tab["ves"])' = WithEndedMac(tab["ves"])
    BY <1>1, <2>1, <2>3 DEF Of, Adr, WithEndedMac, OfVesTables
  <2> QED BY <1>1, <2>1, <2>4, <2>5 DEF OfVes, OfVesTables, If
<1> QED BY <1>2, <1>3

\* The statements that do not link a number to an activiteit.
LEMMA OfMacKept ==
    ASSUME Base, OfMac, Done, pc \in 1..41, pc \notin {10, 12, 14},
           tab'["mac_com"] = tab["mac_com"] \/ (pc <= 9 /\ tab'["mac_com"] \subseteq tab["mac_com"])
    PROVE  OfMac'
<1>1. UNCHANGED <<dump, start>> /\ pc' = pc + 1 BY DEF Done
<1>2. \A c \in dump.com : 8 + 2 * c[2] < pc <=> 8 + 2 * c[2] < pc + 1
  BY DumpNumbers
<1>3. MacComSoFar' = MacComSoFar BY <1>1, <1>2 DEF MacComSoFar
<1>4. Of(MacComSoFar)' = Of(MacComSoFar) BY <1>3 DEF Of
<1>5. CASE tab'["mac_com"] = tab["mac_com"] BY <1>1, <1>4, <1>5 DEF OfMac
<1>6. CASE pc <= 9 /\ tab'["mac_com"] \subseteq tab["mac_com"]
  <2>1. MacComSoFar = {} BY <1>6, DumpNumbers DEF MacComSoFar
  <2>2. Of(MacComSoFar) = {} BY <2>1 DEF Of
  <2> QED BY <1>1, <1>4, <1>6, <2>2 DEF OfMac
<1> QED BY <1>5, <1>6
-----------------------------------------------------------------------------
(* How far a run has come: what a statement changes *)

\* The tables that an INSERT changes, and those it does not.
LEMMA AddsIs ==
    ASSUME NEW new, Adds(new)
    PROVE  /\ Done
           /\ \A x \in Table \cap DOMAIN new : new[x] \cap tab[x] = {} /\ tab'[x] = tab[x] \cup new[x]
           /\ \A x \in Table \ DOMAIN new : tab'[x] = tab[x]
BY DEF Adds, With

LEMMA TablesOfParts ==
    /\ ReplacedTables \subseteq Table /\ AddedTables \subseteq Table /\ OfVesTables \subseteq Table
    /\ Entity \subseteq Table /\ Relation \subseteq Table /\ "mac_com" \in Table
    /\ AddedTables \subseteq Entity
BY TablesAre DEF ReplacedTables, AddedTables, OfVesTables, Table, Column, Entity

\* What the first statements leave alone.
LEMMA OthersKept ==
    ASSUME Base, Progress, Done, pc \in 1..8, Same(AddedTables), tab'["ves"] = tab["ves"],
           tab'["mac_com"] \subseteq tab["mac_com"], Replaced'
    PROVE  Progress'
<1>1. pc' \in 1..42 BY DEF Done
<1>2. Added' BY AddedKept, NothingDue DEF Progress, NotAdding
<1>3. Vestigingen' BY VestigingenKept DEF Progress
<1>4. OfVes' BY OfVesKept DEF Progress
<1>5. OfMac' BY OfMacKept DEF Progress
<1> QED BY <1>1, <1>2, <1>3, <1>4, <1>5 DEF Progress

\* 1: no locatie is left.
LEMMA DelLocatie ==
    ASSUME Base, Progress, pc = 1, Removes(Without(tab, "locatie", tab["locatie"]))
    PROVE  Progress'
<1>1. "locatie" \in Entity BY DEF Entity
<1>2. /\ Done /\ tab'["locatie"] = {}
      /\ \A x \in Entity \ {"locatie"} : tab'[x] = tab[x]
      /\ \A r \in Relation : tab'[r] \subseteq tab[r]
  BY <1>1, RemovesIs
<1>3. UNCHANGED <<dump, start>> /\ pc' = 2 BY <1>2 DEF Done
<1>4. tab'["mac"] = tab["mac"] BY <1>2 DEF Entity
<1>5. Replaced' BY <1>2, <1>3, <1>4 DEF Progress, Replaced
<1>6. Same(AddedTables) BY <1>2 DEF Same, AddedTables, Entity
<1>7. tab'["ves"] = tab["ves"] /\ tab'["mac_com"] \subseteq tab["mac_com"]
  BY <1>2, TablesAre DEF Entity
<1> QED BY <1>2, <1>5, <1>6, <1>7, OthersKept

\* 2: all locaties are those of the dump.
LEMMA InsLocatie ==
    ASSUME Base, Progress, pc = 2, Adds(New)
    PROVE  Progress'
<1>1. New = [locatie |-> dump.adr] BY NewIs
<1>2. /\ Done /\ tab'["locatie"] = tab["locatie"] \cup dump.adr
      /\ \A x \in Table \ {"locatie"} : tab'[x] = tab[x]
  BY <1>1, AddsIs, TablesOfParts DEF ReplacedTables
<1>3. UNCHANGED <<dump, start>> /\ pc' = 3 BY <1>2 DEF Done
<1>4. tab'["mac"] = tab["mac"] BY <1>2, TablesOfParts DEF ReplacedTables
<1>5. Replaced' BY <1>2, <1>3, <1>4 DEF Progress, Replaced
<1>6. Same(AddedTables) BY <1>2, TablesOfParts DEF Same, AddedTables
<1>7. tab'["ves"] = tab["ves"] /\ tab'["mac_com"] \subseteq tab["mac_com"]
  BY <1>2, TablesOfParts DEF OfVesTables
<1> QED BY <1>2, <1>5, <1>6, <1>7, OthersKept

\* 3: no onderneming is left, and of the activiteiten those of none.
LEMMA DelOnderneming ==
    ASSUME Base, Progress, pc = 3, Removes(WithoutOnd)
    PROVE  Progress'
<1>1. /\ Done /\ tab'["onderneming"] = {} /\ tab'["mac"] = tab["mac"] \ dump.ond
      /\ \A x \in Entity \ {"onderneming", "mac"} : tab'[x] = tab[x]
      /\ \A r \in Relation : tab'[r] \subseteq tab[r]
  BY RemovesOnd
<1>2. UNCHANGED <<dump, start>> /\ pc' = 4 BY <1>1 DEF Done
<1>3. tab'["locatie"] = tab["locatie"] BY <1>1 DEF Entity
<1>4. Replaced' BY <1>1, <1>2, <1>3 DEF Progress, Replaced
<1>5. Same(AddedTables) BY <1>1 DEF Same, AddedTables, Entity
<1>6. tab'["ves"] = tab["ves"] /\ tab'["mac_com"] \subseteq tab["mac_com"]
  BY <1>1, TablesAre DEF Entity
<1> QED BY <1>1, <1>4, <1>5, <1>6, OthersKept

\* 4: all ondernemingen are those of the dump.
LEMMA InsOnderneming ==
    ASSUME Base, Progress, pc = 4, Adds(New)
    PROVE  Progress'
<1>1. New = [onderneming |-> dump.ond] BY NewIs
<1>2. /\ Done /\ tab'["onderneming"] = tab["onderneming"] \cup dump.ond
      /\ \A x \in Table \ {"onderneming"} : tab'[x] = tab[x]
  BY <1>1, AddsIs, TablesOfParts DEF ReplacedTables
<1>3. UNCHANGED <<dump, start>> /\ pc' = 5 BY <1>2 DEF Done
<1>4. tab'["mac"] = tab["mac"] /\ tab'["locatie"] = tab["locatie"]
  BY <1>2, TablesOfParts DEF ReplacedTables
<1>5. Replaced' BY <1>2, <1>3, <1>4 DEF Progress, Replaced
<1>6. Same(AddedTables) BY <1>2, TablesOfParts DEF Same, AddedTables
<1>7. tab'["ves"] = tab["ves"] /\ tab'["mac_com"] \subseteq tab["mac_com"]
  BY <1>2, TablesOfParts DEF OfVesTables
<1> QED BY <1>2, <1>5, <1>6, <1>7, OthersKept

\* 5: none of the dump's activiteiten was there, so none was there that the ondernemingen
\* did not take with them, and no address was left.
LEMMA InsMac ==
    ASSUME Base, Progress, pc = 5, Adds(New)
    PROVE  Progress'
<1>1. New = [mac |-> dump.mac, mac_ond |-> Pairs(dump.ond), mac_adr |-> Adr(dump.mac)]
  BY NewIs
<1>2. /\ Done /\ tab'["mac"] = tab["mac"] \cup dump.mac /\ dump.mac \cap tab["mac"] = {}
      /\ tab'["mac_adr"] = tab["mac_adr"] \cup Adr(dump.mac)
      /\ \A x \in Table \ {"mac", "mac_ond", "mac_adr"} : tab'[x] = tab[x]
  BY <1>1, AddsIs, TablesOfParts DEF ReplacedTables
<1>3. UNCHANGED <<dump, start>> /\ pc' = 6 BY <1>2 DEF Done
<1>4. tab'["onderneming"] = tab["onderneming"] /\ tab'["locatie"] = tab["locatie"]
  BY <1>2, TablesOfParts DEF ReplacedTables
<1>5. tab["mac"] \subseteq dump.mac /\ start["mac"] \subseteq dump.mac
  BY DEF Base, Full, Entity
<1>6. tab["mac"] = {} BY <1>2, <1>5
<1>7. start["mac"] \subseteq dump.ond BY <1>6 DEF Progress, Replaced
<1>8. tab["mac_adr"] = {}
  <2>1. tab["mac_adr"] \subseteq tab["mac"] \X tab["locatie"]
    BY ConsistentIs DEF Base, TypeOK
  <2> QED BY <1>6, <2>1
<1>9. Adr(dump.mac)' = Adr(dump.mac) BY <1>3 DEF Adr
<1>10. Replaced' BY <1>2, <1>3, <1>4, <1>6, <1>7, <1>8, <1>9 DEF Progress, Replaced
<1>11. Same(AddedTables) BY <1>2, TablesOfParts DEF Same, AddedTables
<1>12. tab'["ves"] = tab["ves"] /\ tab'["mac_com"] \subseteq tab["mac_com"]
  BY <1>2, TablesOfParts DEF OfVesTables
<1> QED BY <1>2, <1>10, <1>11, <1>12, OthersKept

\* 6: no handelsnaam is left, and no onderneming has one.
LEMMA DelHandelsnaam ==
    ASSUME Base, Progress, pc = 6, Removes(Without(tab, "handelsnaam", tab["handelsnaam"]))
    PROVE  Progress'
<1>1. "handelsnaam" \in Entity BY DEF Entity
<1>2. /\ Done /\ tab'["handelsnaam"] = {}
      /\ \A x \in Entity \ {"handelsnaam"} : tab'[x] = tab[x]
      /\ \A r \in Relation : tab'[r] \subseteq tab[r]
      /\ \A r \in Relation : Refs[r][1] # "handelsnaam" /\ Refs[r][2] # "handelsnaam" => tab'[r] = tab[r]
  BY <1>1, RemovesIs
<1>3. UNCHANGED <<dump, start>> /\ pc' = 7 BY <1>2 DEF Done
<1>4. /\ tab'["mac"] = tab["mac"] /\ tab'["locatie"] = tab["locatie"]
      /\ tab'["onderneming"] = tab["onderneming"]
  BY <1>2 DEF Entity
<1>5. tab'["mac_adr"] = tab["mac_adr"] BY <1>2, TablesAre
<1>6. tab'["ond_hdn"] = {}
  <2>1. tab'["ond_hdn"] \subseteq tab'["onderneming"] \X tab'["handelsnaam"]
    BY <1>2, ConsistentIs DEF Done
  <2> QED BY <1>2, <2>1
<1>7. Adr(dump.mac)' = Adr(dump.mac) BY <1>3 DEF Adr
<1>8. Replaced' BY <1>2, <1>3, <1>4, <1>5, <1>6, <1>7 DEF Progress, Replaced
<1>9. Same(AddedTables) BY <1>2 DEF Same, AddedTables, Entity
<1>10. tab'["ves"] = tab["ves"] /\ tab'["mac_com"] \subseteq tab["mac_com"]
  BY <1>2, TablesAre DEF Entity
<1> QED BY <1>2, <1>8, <1>9, <1>10, OthersKept

\* 7: all handelsnamen are those of the dump.
LEMMA InsHandelsnaam ==
    ASSUME Base, Progress, pc = 7, Adds(New)
    PROVE  Progress'
<1>1. New = [handelsnaam |-> dump.hdn] BY NewIs
<1>2. /\ Done /\ tab'["handelsnaam"] = tab["handelsnaam"] \cup dump.hdn
      /\ \A x \in Table \ {"handelsnaam"} : tab'[x] = tab[x]
  BY <1>1, AddsIs, TablesOfParts DEF ReplacedTables
<1>3. UNCHANGED <<dump, start>> /\ pc' = 8 BY <1>2 DEF Done
<1>4. /\ tab'["mac"] = tab["mac"] /\ tab'["locatie"] = tab["locatie"]
      /\ tab'["onderneming"] = tab["onderneming"] /\ tab'["mac_adr"] = tab["mac_adr"]
      /\ tab'["ond_hdn"] = tab["ond_hdn"]
  BY <1>2, TablesOfParts DEF ReplacedTables
<1>5. Adr(dump.mac)' = Adr(dump.mac) BY <1>3 DEF Adr
<1>6. Replaced' BY <1>2, <1>3, <1>4, <1>5 DEF Progress, Replaced
<1>7. Same(AddedTables) BY <1>2, TablesOfParts DEF Same, AddedTables
<1>8. tab'["ves"] = tab["ves"] /\ tab'["mac_com"] \subseteq tab["mac_com"]
  BY <1>2, TablesOfParts DEF OfVesTables
<1> QED BY <1>2, <1>6, <1>7, <1>8, OthersKept

\* 8: the handelsnamen are those of their ondernemingen.
LEMMA InsOndHdn ==
    ASSUME Base, Progress, pc = 8, Adds(New)
    PROVE  Progress'
<1>1. New = [ond_hdn |-> Of(dump.hdn)] BY NewIs
<1>2. /\ Done /\ tab'["ond_hdn"] = tab["ond_hdn"] \cup Of(dump.hdn)
      /\ \A x \in Table \ {"ond_hdn"} : tab'[x] = tab[x]
  BY <1>1, AddsIs, TablesOfParts DEF ReplacedTables
<1>3. UNCHANGED <<dump, start>> /\ pc' = 9 BY <1>2 DEF Done
<1>4. /\ tab'["mac"] = tab["mac"] /\ tab'["locatie"] = tab["locatie"]
      /\ tab'["onderneming"] = tab["onderneming"] /\ tab'["mac_adr"] = tab["mac_adr"]
      /\ tab'["handelsnaam"] = tab["handelsnaam"]
  BY <1>2, TablesOfParts DEF ReplacedTables
<1>5. Adr(dump.mac)' = Adr(dump.mac) /\ Of(dump.hdn)' = Of(dump.hdn) BY <1>3 DEF Adr, Of
<1>6. Replaced' BY <1>2, <1>3, <1>4, <1>5 DEF Progress, Replaced
<1>7. Same(AddedTables) BY <1>2, TablesOfParts DEF Same, AddedTables
<1>8. tab'["ves"] = tab["ves"] /\ tab'["mac_com"] \subseteq tab["mac_com"]
  BY <1>2, TablesOfParts DEF OfVesTables
<1> QED BY <1>2, <1>6, <1>7, <1>8, OthersKept
\* An INSERT into a table that is only added to, of the rows that become due.
LEMMA InsDue ==
    ASSUME Base, Progress, Adds(New), pc \in {9, 11, 13, 15, 16} \cup NotOfVes,
           NEW x \in AddedTables, x \in DOMAIN New,
           DOMAIN New \subseteq {x, "prs_nps", "prs_nnp", "fvv_prs"},
           Due'[x] = Due[x] \cup New[x], \A e \in AddedTables \ {x} : Due'[e] = Due[e]
    PROVE  Progress'
<1>1. /\ Done /\ New[x] \cap tab[x] = {} /\ tab'[x] = tab[x] \cup New[x]
      /\ \A y \in Table \ {x, "prs_nps", "prs_nnp", "fvv_prs"} : tab'[y] = tab[y]
  BY AddsIs, TablesOfParts
<1>2. pc \in 9..40 /\ pc # 17 /\ pc \notin {10, 12, 14} BY DEF NotOfVes
<1>3. \A y \in AddedTables \ {x} : tab'[y] = tab[y]
  BY <1>1, TablesOfParts DEF AddedTables
<1>4. Same(ReplacedTables) /\ Same(OfVesTables)
  BY <1>1, TablesOfParts DEF Same, ReplacedTables, OfVesTables, AddedTables
<1>5. tab'["ves"] = tab["ves"] /\ tab'["mac_com"] = tab["mac_com"]
  BY <1>1, TablesOfParts DEF AddedTables, OfVesTables
<1>6. Replaced' BY <1>1, <1>2, <1>4, ReplacedKept DEF Progress
<1>7. Added' BY <1>1, <1>3, AddedBy DEF Progress
<1>8. Vestigingen' BY <1>1, <1>2, <1>5, VestigingenKept DEF Progress
<1>9. OfVes' BY <1>1, <1>4, OfVesKept DEF Progress
<1>10. OfMac' BY <1>1, <1>2, <1>5, OfMacKept DEF Progress
<1>11. pc' \in 1..42 BY <1>1, <1>2 DEF Done
<1> QED BY <1>6, <1>7, <1>8, <1>9, <1>10, <1>11 DEF Progress

\* 9, 11, 13 and 19, 21, 23: the numbers of the activiteiten and of the vestigingen.
LEMMA InsNumber ==
    ASSUME Base, Progress, NEW i \in 1..3, pc \in {7 + 2 * i, 17 + 2 * i}, Adds(New)
    PROVE  Progress'
<1>1. pc \in {9, 11, 13} \cup NotOfVes /\ pc \in 1..41 /\ pc \notin {25, 27, 29, 31}
      /\ pc \notin {15, 16, 35, 36, 37, 38}
  BY DEF NotOfVes
<1>2. Done BY AddsIs
<1>3. /\ Due'["act"] = Due["act"] /\ Due'["cvs"] = Due["cvs"] /\ Due'["ncv"] = Due["ncv"]
      /\ Due'["nps"] = Due["nps"] /\ Due'["nnp"] = Due["nnp"] /\ Due'["prs"] = Due["prs"]
      /\ Due'["fvv"] = Due["fvv"]
  BY <1>1, <1>2, DueNext
<1>4. CASE pc = 7 + 2 * i
  <2>1. New = [com |-> ComRows(dump.mac, i)] BY <1>4, NewIs
  <2>2. Due'["com"] = Due["com"] \cup ComRows(dump.mac, i) BY <1>1, <1>2, <1>4, DueNext
  <2> QED BY <1>1, <1>3, <2>1, <2>2, InsDue DEF AddedTables
<1>5. CASE pc = 17 + 2 * i
  <2>1. New = [com |-> ComRows(dump.ves, i)] BY <1>5, NewIs
  <2>2. Due'["com"] = Due["com"] \cup ComRows(dump.ves, i) BY <1>1, <1>2, <1>5, DueNext
  <2> QED BY <1>1, <1>3, <2>1, <2>2, InsDue DEF AddedTables
<1> QED BY <1>4, <1>5

\* 25, 27, 29, 31: the activities of the vestigingen.
LEMMA InsAct ==
    ASSUME Base, Progress, NEW i \in 0..3, pc = 25 + 2 * i, Adds(New)
    PROVE  Progress'
<1>1. pc \in NotOfVes /\ pc \in 1..41 /\ pc \notin {9, 11, 13, 19, 21, 23}
      /\ pc \notin {15, 16, 35, 36, 37, 38}
  BY DEF NotOfVes
<1>2. Done BY AddsIs
<1>3. /\ Due'["com"] = Due["com"] /\ Due'["cvs"] = Due["cvs"] /\ Due'["ncv"] = Due["ncv"]
      /\ Due'["nps"] = Due["nps"] /\ Due'["nnp"] = Due["nnp"] /\ Due'["prs"] = Due["prs"]
      /\ Due'["fvv"] = Due["fvv"]
  BY <1>1, <1>2, DueNext
<1>4. New = [act |-> ActRows(i)] BY NewIs
<1>5. Due'["act"] = Due["act"] \cup ActRows(i) BY <1>1, <1>2, DueNext
<1> QED BY <1>1, <1>3, <1>4, <1>5, InsDue DEF AddedTables

\* 15, 16: the kinds of vestigingen; 35 to 38: the persons.
LEMMA InsOther ==
    ASSUME Base, Progress, pc \in {15, 16, 35, 36, 37, 38}, Adds(New)
    PROVE  Progress'
<1>1. pc \in {15, 16} \cup NotOfVes /\ pc \in 1..41 /\ pc \notin {9, 11, 13, 19, 21, 23}
      /\ pc \notin {25, 27, 29, 31}
  BY DEF NotOfVes
<1>2. Done BY AddsIs
<1>3. Due'["com"] = Due["com"] /\ Due'["act"] = Due["act"] BY <1>1, <1>2, DueNext
<1>4. /\ (pc = 15 => Due'["cvs"] = Due["cvs"] \cup OfType("CVS")) /\ (pc # 15 => Due'["cvs"] = Due["cvs"])
      /\ (pc = 16 => Due'["ncv"] = Due["ncv"] \cup OfType("NCV")) /\ (pc # 16 => Due'["ncv"] = Due["ncv"])
      /\ (pc = 35 => Due'["nps"] = Due["nps"] \cup dump.nat) /\ (pc # 35 => Due'["nps"] = Due["nps"])
      /\ (pc = 36 => Due'["nnp"] = Due["nnp"] \cup (dump.prs \ dump.nat))
      /\ (pc # 36 => Due'["nnp"] = Due["nnp"])
      /\ (pc = 37 => Due'["prs"] = Due["prs"] \cup dump.prs) /\ (pc # 37 => Due'["prs"] = Due["prs"])
      /\ (pc = 38 => Due'["fvv"] = Due["fvv"] \cup dump.ash) /\ (pc # 38 => Due'["fvv"] = Due["fvv"])
  BY <1>1, <1>2, DueNext
<1>5. CASE pc = 15 BY <1>1, <1>3, <1>4, <1>5, NewIs, InsDue DEF AddedTables
<1>6. CASE pc = 16 BY <1>1, <1>3, <1>4, <1>6, NewIs, InsDue DEF AddedTables
<1>7. CASE pc = 35 BY <1>1, <1>3, <1>4, <1>7, NewIs, InsDue DEF AddedTables
<1>8. CASE pc = 36 BY <1>1, <1>3, <1>4, <1>8, NewIs, InsDue DEF AddedTables
<1>9. CASE pc = 37 BY <1>1, <1>3, <1>4, <1>9, NewIs, InsDue DEF AddedTables
<1>10. CASE pc = 38 BY <1>1, <1>3, <1>4, <1>10, NewIs, InsDue DEF AddedTables
<1> QED BY <1>5, <1>6, <1>7, <1>8, <1>9, <1>10

\* 10, 12, 14: the numbers are linked to their activiteiten.
LEMMA InsMacLink ==
    ASSUME Base, Progress, NEW i \in 1..3, pc = 8 + 2 * i, Adds(New)
    PROVE  Progress'
<1>1. New = [mac_com |-> Of(ComRows(dump.mac, i))] BY NewIs
<1>2. /\ Done /\ tab'["mac_com"] = tab["mac_com"] \cup Of(ComRows(dump.mac, i))
      /\ \A x \in Table \ {"mac_com"} : tab'[x] = tab[x]
  BY <1>1, AddsIs, TablesOfParts
<1>3. UNCHANGED <<dump, start>> /\ pc' = pc + 1 /\ pc \in 10..14 /\ pc \in NotAdding
  BY <1>2 DEF Done, NotAdding
<1>4. Same(ReplacedTables) /\ Same(AddedTables) /\ tab'["ves"] = tab["ves"]
  BY <1>2, TablesOfParts DEF Same, ReplacedTables, OfVesTables, AddedTables
<1>5. Replaced' BY <1>2, <1>3, <1>4, ReplacedKept DEF Progress
<1>6. Added' BY <1>2, <1>3, <1>4, AddedKept, NothingDue DEF Progress
<1>7. Vestigingen' BY <1>2, <1>3, <1>4, VestigingenKept DEF Progress
<1>8. OfVes' BY <1>2, <1>3, OfVesKept DEF Progress
<1>9. OfMac'
  <2>1. MacComSoFar' = MacComSoFar \cup ComRows(dump.mac, i)
    BY <1>3, DumpNumbers DEF MacComSoFar, ComRows
  <2>2. Of(MacComSoFar)' = Of(MacComSoFar) \cup Of(ComRows(dump.mac, i))
    BY <2>1 DEF Of
  <2> QED BY <1>2, <1>3, <2>2 DEF Progress, OfMac
<1> QED BY <1>3, <1>5, <1>6, <1>7, <1>8, <1>9 DEF Progress

\* What the statements after the vestigingen leave alone, when they only touch what
\* belongs to the vestigingen.
LEMMA RestKept ==
    ASSUME Base, Progress, Done, pc \in 18..40, pc \in NotAdding, Same(ReplacedTables),
           Same(AddedTables), tab'["ves"] = tab["ves"], tab'["mac_com"] = tab["mac_com"], OfVes'
    PROVE  Progress'
<1>1. pc' \in 1..42 BY DEF Done
<1>2. Replaced' BY ReplacedKept DEF Progress
<1>3. Added' BY AddedKept, NothingDue DEF Progress
<1>4. Vestigingen' BY VestigingenKept DEF Progress
<1>5. OfMac' BY OfMacKept DEF Progress
<1> QED BY <1>1, <1>2, <1>3, <1>4, <1>5 DEF Progress

\* Without vestigingen, nothing belongs to them.
LEMMA NoVes ==
    ASSUME Base, tab["ves"] = {}
    PROVE  /\ tab["ves_mac"] = {} /\ tab["ves_adr"] = {} /\ tab["ves_com"] = {}
           /\ tab["ves_act"] = {} /\ tab["ves_hdn"] = {} /\ tab["ves_end"] = {}
           /\ tab["ves_cvs"] = {} /\ tab["ves_ncv"] = {} /\ tab["mac_hoofd"] = {}
<1>1. Consistent(tab) /\ tab["ves_end"] \subseteq tab["ves"] BY DEF Base, TypeOK
<1>2. /\ tab["ves_mac"] \subseteq {} \X tab["mac"] /\ tab["ves_adr"] \subseteq {} \X tab["locatie"]
      /\ tab["ves_com"] \subseteq {} \X tab["com"] /\ tab["ves_act"] \subseteq {} \X tab["act"]
      /\ tab["ves_hdn"] \subseteq {} \X tab["handelsnaam"]
      /\ tab["ves_cvs"] \subseteq {} \X tab["cvs"] /\ tab["ves_ncv"] \subseteq {} \X tab["ncv"]
      /\ tab["mac_hoofd"] \subseteq tab["mac"] \X {}
  BY <1>1, ConsistentIs
<1> QED BY <1>1, <1>2

\* 17: none of the dump's vestigingen was there, so none was there, and nothing that
\* belongs to one.
LEMMA InsVes ==
    ASSUME Base, Progress, pc = 17, Adds(New)
    PROVE  Progress'
<1>1. New = [ves |-> dump.ves, ves_end |-> dump.vesEnd,
             ves_mac |-> {<<v, dump.of[v]>> : v \in dump.ves},
             ves_cvs |-> Pairs(OfType("CVS")), ves_ncv |-> Pairs(OfType("NCV")),
             ves_adr |-> Adr(dump.ves)]
  BY NewIs
<1>2. /\ Done /\ dump.ves \cap tab["ves"] = {} /\ tab'["ves"] = tab["ves"] \cup dump.ves
      /\ tab'["ves_end"] = tab["ves_end"] \cup dump.vesEnd
      /\ tab'["ves_mac"] = tab["ves_mac"] \cup {<<v, dump.of[v]>> : v \in dump.ves}
      /\ tab'["ves_adr"] = tab["ves_adr"] \cup Adr(dump.ves)
      /\ \A x \in Table \ {"ves", "ves_end", "ves_mac", "ves_cvs", "ves_ncv", "ves_adr"} :
            tab'[x] = tab[x]
  BY <1>1, AddsIs, TablesOfParts DEF OfVesTables
<1>3. UNCHANGED <<dump, start>> /\ pc' = 18 BY <1>2 DEF Done
<1>4. tab["ves"] = {} /\ start["ves"] = {}
  <2>1. tab["ves"] \subseteq dump.ves BY DEF Base, Full, Entity
  <2> QED BY <1>2, <2>1 DEF Progress, Vestigingen
<1>5. /\ tab["ves_mac"] = {} /\ tab["ves_adr"] = {} /\ tab["ves_com"] = {}
      /\ tab["ves_act"] = {} /\ tab["ves_hdn"] = {} /\ tab["ves_end"] = {}
  BY <1>4, NoVes
<1>6. /\ tab'["ves_com"] = {} /\ tab'["ves_act"] = {} /\ tab'["ves_hdn"] = {}
  BY <1>2, <1>5, TablesOfParts DEF OfVesTables
<1>7. VesComSoFar' = {} /\ VesActSoFar' = {}
  BY <1>3, DumpNumbers DEF VesComSoFar, VesActSoFar
<1>8. Of(VesComSoFar)' = {} /\ Of(VesActSoFar)' = {} BY <1>7 DEF Of
<1>9. Adr(tab["ves"])' = Adr(dump.ves) BY <1>2, <1>3, <1>4 DEF Adr
<1>10. tab'["ves"] = dump.ves /\ tab'["ves_end"] = dump.vesEnd
       /\ tab'["ves_mac"] = {<<v, dump.of[v]>> : v \in dump.ves} /\ tab'["ves_adr"] = Adr(dump.ves)
  BY <1>2, <1>4, <1>5
<1>11. dump.vesEnd \subseteq dump.ves BY DumpIs DEF DumpOK
<1>12. dump.vesEnd = (dump.ves \cap dump.vesEnd) \cup If(pc' > 18, WithEndedMac(dump.ves))
  BY <1>3, <1>11 DEF If
<1>13. OfVes'
  BY <1>3, <1>6, <1>8, <1>9, <1>10, <1>11 DEF OfVes, If
<1>14. Vestigingen' BY <1>3, <1>4, <1>10 DEF Vestigingen
<1>15. Same(ReplacedTables) /\ Same(AddedTables) /\ tab'["mac_com"] = tab["mac_com"]
  BY <1>2, TablesOfParts DEF Same, ReplacedTables, OfVesTables, AddedTables
<1>16. Replaced' BY <1>2, <1>15, ReplacedKept DEF Progress
<1>17. Added' BY <1>2, <1>15, AddedKept, NothingDue DEF Progress, NotAdding
<1>18. OfMac' BY <1>2, <1>15, OfMacKept DEF Progress
<1> QED BY <1>3, <1>13, <1>14, <1>16, <1>17, <1>18 DEF Progress

\* 20, 22, 24: the numbers are linked to their vestigingen.
LEMMA InsVesLink ==
    ASSUME Base, Progress, NEW i \in 1..3, pc = 18 + 2 * i, Adds(New)
    PROVE  Progress'
<1>1. New = [ves_com |-> Of(ComRows(dump.ves, i))] BY NewIs
<1>2. /\ Done /\ tab'["ves_com"] = tab["ves_com"] \cup Of(ComRows(dump.ves, i))
      /\ \A x \in Table \ {"ves_com"} : tab'[x] = tab[x]
  BY <1>1, AddsIs, TablesOfParts DEF OfVesTables
<1>3. UNCHANGED <<dump, start>> /\ pc' = pc + 1 /\ pc \in 20..24 /\ pc \in NotAdding
  BY <1>2 DEF Done, NotAdding
<1>4. /\ Same(ReplacedTables) /\ Same(AddedTables) /\ tab'["mac_com"] = tab["mac_com"]
      /\ \A x \in OfVesTables \ {"ves_com"} : tab'[x] = tab[x]
  BY <1>2, TablesOfParts DEF Same, ReplacedTables, OfVesTables, AddedTables
<1>5. tab["ves"] = dump.ves /\ tab'["ves"] = dump.ves
  BY <1>3, <1>4 DEF Progress, Vestigingen, OfVesTables
<1>6. VesComSoFar' = VesComSoFar \cup ComRows(dump.ves, i)
  BY <1>3, <1>5, DumpNumbers DEF VesComSoFar, ComRows
<1>7. Of(VesComSoFar)' = Of(VesComSoFar) \cup Of(ComRows(dump.ves, i))
  BY <1>6 DEF Of
<1>8. VesActSoFar' = VesActSoFar
  BY <1>3, <1>5, DumpNumbers DEF VesActSoFar
<1>9. Of(VesActSoFar)' = Of(VesActSoFar) /\ Adr(tab["ves"])' = Adr(tab["ves"]) /\ WithEndedMac(tab["ves"])' = WithEndedMac(tab["ves"])
  BY <1>3, <1>5, <1>8 DEF Of, Adr, WithEndedMac
<1>10. OfVes'
  BY <1>2, <1>3, <1>4, <1>5, <1>7, <1>9 DEF Progress, OfVes, OfVesTables, If
<1> QED BY <1>2, <1>3, <1>4, <1>5, <1>10, RestKept

\* 26, 28, 30, 32: the activities are linked to their vestigingen.
LEMMA InsActLink ==
    ASSUME Base, Progress, NEW i \in 0..3, pc = 26 + 2 * i, Adds(New)
    PROVE  Progress'
<1>1. New = [ves_act |-> Of(ActRows(i))] BY NewIs
<1>2. /\ Done /\ tab'["ves_act"] = tab["ves_act"] \cup Of(ActRows(i))
      /\ \A x \in Table \ {"ves_act"} : tab'[x] = tab[x]
  BY <1>1, AddsIs, TablesOfParts DEF OfVesTables
<1>3. UNCHANGED <<dump, start>> /\ pc' = pc + 1 /\ pc \in 26..32 /\ pc \in NotAdding
  BY <1>2 DEF Done, NotAdding
<1>4. /\ Same(ReplacedTables) /\ Same(AddedTables) /\ tab'["mac_com"] = tab["mac_com"]
      /\ \A x \in OfVesTables \ {"ves_act"} : tab'[x] = tab[x]
  BY <1>2, TablesOfParts DEF Same, ReplacedTables, OfVesTables, AddedTables
<1>5. tab["ves"] = dump.ves /\ tab'["ves"] = dump.ves
  BY <1>3, <1>4 DEF Progress, Vestigingen, OfVesTables
<1>6. VesActSoFar' = VesActSoFar \cup ActRows(i)
  BY <1>3, <1>5, DumpNumbers DEF VesActSoFar, ActRows
<1>7. Of(VesActSoFar)' = Of(VesActSoFar) \cup Of(ActRows(i))
  BY <1>6 DEF Of
<1>8. VesComSoFar' = VesComSoFar
  BY <1>3, <1>5, DumpNumbers DEF VesComSoFar
<1>9. Of(VesComSoFar)' = Of(VesComSoFar) /\ Adr(tab["ves"])' = Adr(tab["ves"]) /\ WithEndedMac(tab["ves"])' = WithEndedMac(tab["ves"])
  BY <1>3, <1>5, <1>8 DEF Of, Adr, WithEndedMac
<1>10. OfVes'
  BY <1>2, <1>3, <1>4, <1>5, <1>7, <1>9 DEF Progress, OfVes, OfVesTables, If
<1> QED BY <1>2, <1>3, <1>4, <1>5, <1>10, RestKept

\* 33: the handelsnamen are linked to the vestigingen.
LEMMA InsVesHdn ==
    ASSUME Base, Progress, pc = 33, Adds(New)
    PROVE  Progress'
<1>1. New = [ves_hdn |-> {p \in dump.veshdn : p[1] \in tab["ves"]}] BY NewIs
<1>2. /\ Done /\ tab'["ves_hdn"] = tab["ves_hdn"] \cup {p \in dump.veshdn : p[1] \in tab["ves"]}
      /\ \A x \in Table \ {"ves_hdn"} : tab'[x] = tab[x]
  BY <1>1, AddsIs, TablesOfParts DEF OfVesTables
<1>3. UNCHANGED <<dump, start>> /\ pc' = 34 /\ pc \in NotAdding
  BY <1>2 DEF Done, NotAdding
<1>4. /\ Same(ReplacedTables) /\ Same(AddedTables) /\ tab'["mac_com"] = tab["mac_com"]
      /\ \A x \in OfVesTables \ {"ves_hdn"} : tab'[x] = tab[x]
  BY <1>2, TablesOfParts DEF Same, ReplacedTables, OfVesTables, AddedTables
<1>5. tab'["ves"] = tab["ves"] BY <1>4 DEF OfVesTables
<1>6. VesComSoFar' = VesComSoFar /\ VesActSoFar' = VesActSoFar
  BY <1>3, <1>5, DumpNumbers DEF VesComSoFar, VesActSoFar
<1>7. /\ Of(VesComSoFar)' = Of(VesComSoFar) /\ Of(VesActSoFar)' = Of(VesActSoFar)
      /\ Adr(tab["ves"])' = Adr(tab["ves"]) /\ WithEndedMac(tab["ves"])' = WithEndedMac(tab["ves"])
  BY <1>3, <1>5, <1>6 DEF Of, Adr, WithEndedMac
<1>8. tab["ves_hdn"] = {} BY DEF Progress, OfVes, If
<1>9. OfVes'
  BY <1>2, <1>3, <1>4, <1>5, <1>7, <1>8 DEF Progress, OfVes, OfVesTables, If
<1> QED BY <1>2, <1>3, <1>4, <1>5, <1>9, RestKept

\* The tables of the dump's persons are there, from statement 38 on.
LEMMA PersonsAreThere ==
    ASSUME Base, Progress, pc \in 38..42
    PROVE  tab["prs"] = dump.prs
<1>1. Grown("prs", Due["prs"]) BY DEF Progress, Added, Due
<1>2. Due["prs"] = dump.prs BY DEF Due, If
<1>3. start["prs"] \subseteq dump.prs BY DEF Base, Entity, Full
<1> QED BY <1>1, <1>2, <1>3 DEF Grown

\* 18: the end dates; 34: the hoofdvestigingen; 39, 40: the owners.
LEMMA UpdAll ==
    ASSUME Base, Progress,
           \/ pc = 18 /\ Changes("ves_end", EndDates)
           \/ pc = 34 /\ Changes("mac_hoofd", Hoofd)
           \/ pc = 39 /\ Changes("mac_eig", Eig)
           \/ pc = 40 /\ Changes("mac_mks", Mks)
    PROVE  Progress'
<1>1. PICK c \in {"ves_end", "mac_hoofd", "mac_eig", "mac_mks"} : \E v : Changes(c, v)
  OBVIOUS
<1>2. Done /\ \A x \in Table \ {"ves_end", "mac_hoofd", "mac_eig", "mac_mks"} : tab'[x] = tab[x]
  BY <1>1 DEF Changes
<1>3. UNCHANGED <<dump, start>> /\ pc' = pc + 1 /\ pc \in {18, 34, 39, 40} /\ pc \in NotAdding
  BY <1>2 DEF Done, NotAdding
<1>4. /\ Same(ReplacedTables) /\ Same(AddedTables) /\ tab'["mac_com"] = tab["mac_com"]
      /\ \A x \in {"ves", "ves_mac", "ves_adr", "ves_com", "ves_act", "ves_hdn"} : tab'[x] = tab[x]
  BY <1>2, TablesOfParts DEF Same, ReplacedTables, OfVesTables, AddedTables
<1>5. tab'["ves"] = tab["ves"] BY <1>4
<1>6. VesComSoFar' = VesComSoFar /\ VesActSoFar' = VesActSoFar
  BY <1>3, <1>5, DumpNumbers DEF VesComSoFar, VesActSoFar
<1>7. /\ Of(VesComSoFar)' = Of(VesComSoFar) /\ Of(VesActSoFar)' = Of(VesActSoFar)
      /\ Adr(tab["ves"])' = Adr(tab["ves"]) /\ WithEndedMac(tab["ves"])' = WithEndedMac(tab["ves"])
  BY <1>3, <1>5, <1>6 DEF Of, Adr, WithEndedMac
<1>8. {"ves_end", "mac_hoofd", "mac_eig"} \subseteq Table
  BY TablesOfParts DEF OfVesTables
<1>9. tab["ves"] = dump.ves BY <1>3 DEF Progress, Vestigingen
<1>10. tab'["ves_end"] = (tab["ves"] \cap dump.vesEnd) \cup WithEndedMac(tab["ves"])
  <2>1. CASE pc = 18
    <3>1. tab'["ves_end"] = EndDates BY <2>1 DEF Changes
    <3>2. /\ tab["ves_mac"] = {<<v, dump.of[v]>> : v \in tab["ves"]}
          /\ tab["ves_end"] = tab["ves"] \cap dump.vesEnd
      BY <2>1 DEF Progress, OfVes, If
    <3>3. \A v \in tab["ves"] : (\E p \in tab["ves_mac"] : p[1] = v /\ p[2] \in dump.macEnd)
                                  <=> dump.of[v] \in dump.macEnd
      <4> TAKE v \in tab["ves"]
      <4>1. \A p \in tab["ves_mac"] : p[2] = dump.of[p[1]] BY <3>2
      <4>2. <<v, dump.of[v]>> \in tab["ves_mac"] BY <3>2
      <4>3. <<v, dump.of[v]>>[1] = v /\ <<v, dump.of[v]>>[2] = dump.of[v] OBVIOUS
      <4> QED BY <4>1, <4>2, <4>3, Zenon
    <3> QED BY <3>1, <3>2, <3>3 DEF EndDates, WithEndedMac
  <2>2. CASE pc # 18
    <3>1. tab'["ves_end"] = tab["ves_end"] BY <1>3, <1>8, <2>2 DEF Changes
    <3> QED BY <1>3, <2>2, <3>1 DEF Progress, OfVes, If
  <2> QED BY <2>1, <2>2
<1>11. pc' > 34 => tab'["mac_hoofd"] = {<<dump'.of[v], v>> : v \in dump'.hoofd \cap tab'["ves"]}
  <2>1. CASE pc = 34 BY <1>3, <1>5, <2>1 DEF Changes, Hoofd
  <2>2. CASE pc = 18 BY <1>3, <2>2
  <2>3. CASE pc \in {39, 40}
    <3>1. tab'["mac_hoofd"] = tab["mac_hoofd"] BY <1>8, <2>3 DEF Changes
    <3> QED BY <1>3, <1>5, <2>3, <3>1 DEF Progress, OfVes
  <2> QED BY <1>3, <2>1, <2>2, <2>3
<1>12. pc' > 39 => tab'["mac_eig"] =
          {<<m, dump'.eig[m]>> : m \in {n \in dump'.mac : dump'.eig[n] \in dump'.prs}}
  <2>1. CASE pc = 39
    <3>1. tab["prs"] = dump.prs BY <2>1, PersonsAreThere
    <3> QED BY <1>3, <2>1, <3>1 DEF Changes, Eig
  <2>2. CASE pc = 40
    <3>1. tab'["mac_eig"] = tab["mac_eig"] BY <1>8, <2>2 DEF Changes
    <3> QED BY <1>3, <2>2, <3>1 DEF Progress, OfVes
  <2>3. CASE pc \in {18, 34} BY <1>3, <2>3
  <2> QED BY <1>3, <2>1, <2>2, <2>3
<1>13. OfVes'
  BY <1>3, <1>4, <1>5, <1>7, <1>10, <1>11, <1>12 DEF Progress, OfVes, If
<1> QED BY <1>2, <1>3, <1>4, <1>5, <1>13, RestKept

\* 41: the vestigingen that stay are those with a bezoekadres in one of the plaatsen.
LEMMA OutsideIs ==
    ASSUME tab["ves"] = dump.ves, tab["ves_adr"] = Adr(dump.ves)
    PROVE  dump.ves \ Outside(tab) = StaysSet
<1>1. ASSUME NEW v \in dump.ves
      PROVE  <<v, <<"bezoek", v>>>> \in Adr(dump.ves) <=> <<"bezoek", v>> \in dump.adr
  <2>1. <<"bezoek", v>>[2] = v OBVIOUS
  <2>2. \A a \in {b \in dump.adr : b[2] \in dump.ves} :
           <<v, <<"bezoek", v>>>> = <<a[2], a>> => a = <<"bezoek", v>>
    OBVIOUS
  <2> QED BY <1>1, <2>1, <2>2 DEF Adr
<1> QED BY <1>1 DEF Outside, StaysSet, Stays

LEMMA DelOutside ==
    ASSUME Base, Progress, pc = 41, Removes(Without(tab, "ves", Outside(tab)))
    PROVE  Progress'
<1> DEFINE gone == Outside(tab)
<1>1. "ves" \in Entity /\ ReplacedTables \cap Entity = ReplacedTables \ {"mac_adr", "ond_hdn"}
      /\ AddedTables \subseteq Entity \ {"ves"}
      /\ {"locatie", "onderneming", "mac", "handelsnaam"} \subseteq Entity \ {"ves"}
  BY DEF Entity, ReplacedTables, AddedTables
<1>2. /\ Done /\ tab'["ves"] = tab["ves"] \ gone
      /\ \A x \in Entity \ {"ves"} : tab'[x] = tab[x]
      /\ \A r \in Relation : tab'[r] = Left(tab, r, "ves", gone)
      /\ \A r \in Relation : Refs[r][1] # "ves" /\ Refs[r][2] # "ves" => tab'[r] = tab[r]
      /\ tab'["ves_end"] = tab["ves_end"] \ gone
  BY <1>1, RemovesIs
<1>3. UNCHANGED <<dump, start>> /\ pc' = 42 BY <1>2 DEF Done
<1>4. /\ tab'["mac_adr"] = tab["mac_adr"] /\ tab'["ond_hdn"] = tab["ond_hdn"]
      /\ tab'["mac_com"] = tab["mac_com"] /\ tab'["mac_eig"] = tab["mac_eig"]
  BY <1>2, TablesAre
<1>5. Same(ReplacedTables) /\ Same(AddedTables)
  BY <1>1, <1>2, <1>4 DEF Same, ReplacedTables
<1>6. /\ tab["ves"] = dump.ves /\ start["ves"] = {}
      /\ tab["ves_mac"] = {<<v, dump.of[v]>> : v \in tab["ves"]}
      /\ tab["ves_adr"] = Adr(tab["ves"])
      /\ tab["ves_com"] = Of(VesComSoFar) /\ tab["ves_act"] = Of(VesActSoFar)
      /\ tab["ves_hdn"] = {p \in dump.veshdn : p[1] \in tab["ves"]}
      /\ tab["ves_end"] = (tab["ves"] \cap dump.vesEnd) \cup WithEndedMac(tab["ves"])
      /\ tab["mac_hoofd"] = {<<dump.of[v], v>> : v \in dump.hoofd \cap tab["ves"]}
      /\ tab["mac_eig"] = {<<m, dump.eig[m]>> : m \in {n \in dump.mac : dump.eig[n] \in dump.prs}}
  BY DEF Progress, Vestigingen, OfVes, If
<1>7. dump.ves \ gone = StaysSet BY <1>6, OutsideIs
<1>8. tab'["ves"] = StaysSet /\ StaysSet' = StaysSet
  BY <1>2, <1>3, <1>6, <1>7 DEF StaysSet, Stays
<1>9. /\ tab'["ves_mac"] = {p \in tab["ves_mac"] : p[1] \notin gone}
      /\ tab'["ves_adr"] = {p \in tab["ves_adr"] : p[1] \notin gone}
      /\ tab'["ves_com"] = {p \in tab["ves_com"] : p[1] \notin gone}
      /\ tab'["ves_act"] = {p \in tab["ves_act"] : p[1] \notin gone}
      /\ tab'["ves_hdn"] = {p \in tab["ves_hdn"] : p[1] \notin gone}
      /\ tab'["mac_hoofd"] = {p \in tab["mac_hoofd"] : p[2] \notin gone}
  BY <1>2, TablesAre DEF Left
<1>10. gone \subseteq dump.ves /\ dump.vesEnd \subseteq dump.ves /\ StaysSet \subseteq dump.ves
  BY <1>6, DumpIs DEF DumpOK, Outside, StaysSet
<1> HIDE DEF gone
<1>11. tab'["ves_mac"] = {<<v, dump.of[v]>> : v \in StaysSet}
  BY <1>6, <1>7, <1>9, <1>10
<1>12. tab'["ves_adr"] = Adr(StaysSet)
  BY <1>6, <1>7, <1>9, <1>10 DEF Adr
<1>13. tab'["ves_com"] = Of({c \in VesComSoFar : c[1] \in StaysSet})
  BY <1>6, <1>7, <1>9, <1>10 DEF Of, VesComSoFar
<1>14. tab'["ves_act"] = Of({a \in VesActSoFar : a[1] \in StaysSet})
  BY <1>6, <1>7, <1>9, <1>10 DEF Of, VesActSoFar
<1>15. tab'["ves_hdn"] = {p \in dump.veshdn : p[1] \in StaysSet}
  BY <1>6, <1>7, <1>9, <1>10
<1>16. tab'["ves_end"] = (StaysSet \cap dump.vesEnd) \cup WithEndedMac(StaysSet)
  BY <1>2, <1>6, <1>7, <1>10 DEF WithEndedMac
<1>17. tab'["mac_hoofd"] = {<<dump.of[v], v>> : v \in dump.hoofd \cap StaysSet}
  BY <1>6, <1>7, <1>9, <1>10
<1>18. /\ VesComSoFar' = {c \in VesComSoFar : c[1] \in StaysSet}
       /\ VesActSoFar' = {a \in VesActSoFar : a[1] \in StaysSet}
  BY <1>3, <1>6, <1>8, <1>10, DumpNumbers DEF VesComSoFar, VesActSoFar
<1>19. /\ Of(VesComSoFar)' = Of({c \in VesComSoFar : c[1] \in StaysSet})
       /\ Of(VesActSoFar)' = Of({a \in VesActSoFar : a[1] \in StaysSet})
       /\ Adr(tab["ves"])' = Adr(StaysSet) /\ WithEndedMac(tab["ves"])' = WithEndedMac(StaysSet)
  BY <1>3, <1>8, <1>18 DEF Of, Adr, WithEndedMac
<1>20. OfVes'
  BY <1>3, <1>4, <1>6, <1>8, <1>11, <1>12, <1>13, <1>14, <1>15, <1>16, <1>17, <1>19 DEF OfVes, If
<1>21. Vestigingen' BY <1>3, <1>6, <1>8 DEF Vestigingen
<1>22. Replaced' BY <1>2, <1>5, ReplacedKept DEF Progress
<1>23. Added' BY <1>2, <1>5, AddedKept, NothingDue DEF Progress, NotAdding
<1>24. OfMac' BY <1>2, <1>4, OfMacKept DEF Progress
<1> QED BY <1>3, <1>20, <1>21, <1>22, <1>23, <1>24 DEF Progress
-----------------------------------------------------------------------------
(* A run that starts on tables with nothing in its way is never refused *)

\* In such a run, a table that is only added to holds what is due, and no more.
LEMMA OnlyDue ==
    ASSUME Progress, Passable(start)
    PROVE  /\ \A e \in AddedTables : tab[e] = Due[e]
           /\ start["com"] = {}
           /\ pc <= 17 => tab["ves"] = {}
           /\ start["mac"] \subseteq dump.ond
<1>1. AddedTables \cup {"ves"} \subseteq AddedTo BY DEF AddedTables, AddedTo, Entity
<1>2. \A e \in AddedTables \cup {"ves"} : start[e] = {} BY <1>1 DEF Passable
<1>3. \A e \in AddedTables : Grown(e, Due[e]) BY DomainOfDue DEF Progress, Added
<1>4. "com" \in AddedTables BY DEF AddedTables
<1> QED BY <1>2, <1>3, <1>4 DEF Grown, Progress, Vestigingen, Passable

\* What is due at the places where it is read.
LEMMA DueIs ==
    /\ Due["com"] = ComSoFar /\ Due["act"] = ActSoFar
    /\ Due["cvs"] = If(pc > 15, OfType("CVS")) /\ Due["ncv"] = If(pc > 16, OfType("NCV"))
    /\ Due["nps"] = If(pc > 35, dump.nat) /\ Due["nnp"] = If(pc > 36, dump.prs \ dump.nat)
    /\ Due["prs"] = If(pc > 37, dump.prs) /\ Due["fvv"] = If(pc > 38, dump.ash)
BY DEF Due

\* Rows of one entity fit when none of them is there.
LEMMA FitsEntity ==
    ASSUME NEW new, NEW x \in Entity, DOMAIN new = {x}, new[x] \cap tab[x] = {}
    PROVE  Fits(new)
<1>1. x \notin Relation BY TablesAre DEF Entity
<1> QED BY <1>1 DEF Fits

\* Pairs of one relation fit when none of them is there, and what they link is.
LEMMA FitsRelation ==
    ASSUME NEW new, NEW r \in Relation, DOMAIN new = {r}, new[r] \cap tab[r] = {},
           new[r] \subseteq tab[Refs[r][1]] \X tab[Refs[r][2]]
    PROVE  Fits(new)
<1>1. Refs[r][1] # r /\ Refs[r][2] # r BY TablesAre
<1> QED BY <1>1 DEF Fits, With

\* 2 to 8: the tables that were emptied, and the activiteiten.
LEMMA FirstFit ==
    ASSUME Base, Progress, Passable(start), pc \in {2, 4, 5, 7, 8}
    PROVE  Fits(New)
<1>1. {"locatie", "onderneming", "handelsnaam"} \subseteq Entity BY DEF Entity
<1>2. CASE pc = 2
  <2>1. tab["locatie"] = {} BY <1>2 DEF Progress, Replaced
  <2> QED BY <1>1, <1>2, <2>1, NewIs, FitsEntity
<1>3. CASE pc = 4
  <2>1. tab["onderneming"] = {} BY <1>3 DEF Progress, Replaced
  <2> QED BY <1>1, <1>3, <2>1, NewIs, FitsEntity
<1>4. CASE pc = 7
  <2>1. tab["handelsnaam"] = {} BY <1>4 DEF Progress, Replaced
  <2> QED BY <1>1, <1>4, <2>1, NewIs, FitsEntity
<1>5. CASE pc = 8
  <2>1. tab["ond_hdn"] = {} /\ tab["onderneming"] = dump.ond /\ tab["handelsnaam"] = dump.hdn
    BY <1>5 DEF Progress, Replaced
  <2>2. dump.hdn \subseteq dump.ond \X Nat BY DumpIs DEF DumpOK
  <2>3. Of(dump.hdn) \subseteq dump.ond \X dump.hdn BY <2>2 DEF Of
  <2>4. New = [ond_hdn |-> Of(dump.hdn)] BY <1>5, NewIs
  <2> QED BY <2>1, <2>3, <2>4, FitsRelation, TablesAre
<1>6. CASE pc = 5
  <2>1. tab["mac"] = {}
    BY <1>6, OnlyDue DEF Progress, Replaced
  <2>2. tab["mac_ond"] = {} /\ tab["mac_adr"] = {}
    <3>1. /\ tab["mac_ond"] \subseteq {} \X tab["onderneming"]
          /\ tab["mac_adr"] \subseteq {} \X tab["locatie"]
      BY <2>1, ConsistentIs DEF Base, TypeOK
    <3> QED BY <3>1
  <2>3. tab["onderneming"] = dump.ond /\ tab["locatie"] = dump.adr
    BY <1>6 DEF Progress, Replaced
  <2>4. New = [mac |-> dump.mac, mac_ond |-> Pairs(dump.ond), mac_adr |-> Adr(dump.mac)]
    BY <1>6, NewIs
  <2>5. Pairs(dump.ond) \subseteq dump.mac \X dump.ond BY DumpIs DEF DumpOK, Pairs
  <2>6. Adr(dump.mac) \subseteq dump.mac \X dump.adr BY DEF Adr
  <2>7. \A x \in DOMAIN New : New[x] \cap tab[x] = {} BY <2>1, <2>2, <2>4
  <2>8. /\ With(New, "mac") = dump.mac /\ With(New, "onderneming") = dump.ond
        /\ With(New, "locatie") = dump.adr
    BY <2>1, <2>3, <2>4 DEF With
  <2>9. Relation \cap DOMAIN New = {"mac_ond", "mac_adr"} BY <2>4, TablesAre
  <2> QED BY <2>4, <2>5, <2>6, <2>7, <2>8, <2>9, TablesAre DEF Fits
<1> QED BY <1>2, <1>3, <1>4, <1>5, <1>6

\* The rows of an entity that become due are not there yet.
LEMMA DueFit ==
    ASSUME Base, Progress, Passable(start)
    PROVE  /\ \A i \in 1..3 : pc \in {7 + 2 * i, 17 + 2 * i} => Fits(New)
           /\ \A i \in 0..3 : pc = 25 + 2 * i => Fits(New)
           /\ pc \in {15, 16, 35, 36} => Fits(New)
<1>1. /\ tab["com"] = ComSoFar /\ tab["act"] = ActSoFar
      /\ tab["cvs"] = If(pc > 15, OfType("CVS")) /\ tab["ncv"] = If(pc > 16, OfType("NCV"))
      /\ tab["nps"] = If(pc > 35, dump.nat) /\ tab["nnp"] = If(pc > 36, dump.prs \ dump.nat)
  BY OnlyDue, DueIs DEF AddedTables
<1>2. {"com", "act", "cvs", "ncv", "nps", "nnp"} \subseteq Entity BY DEF Entity
<1>3. ASSUME NEW i \in 1..3, pc \in {7 + 2 * i, 17 + 2 * i} PROVE Fits(New)
  <2>1. CASE pc = 7 + 2 * i
    <3>1. ComRows(dump.mac, i) \cap ComSoFar = {}
      BY <2>1, DumpNumbers DEF ComRows, ComSoFar
    <3>2. New = [com |-> ComRows(dump.mac, i)] BY <2>1, NewIs
    <3> QED BY <1>1, <1>2, <3>1, <3>2, FitsEntity
  <2>2. CASE pc = 17 + 2 * i
    <3>1. ComRows(dump.ves, i) \cap ComSoFar = {}
      BY <2>2, DumpNumbers DEF ComRows, ComSoFar
    <3>2. New = [com |-> ComRows(dump.ves, i)] BY <2>2, NewIs
    <3> QED BY <1>1, <1>2, <3>1, <3>2, FitsEntity
  <2> QED BY <1>3, <2>1, <2>2
<1>4. ASSUME NEW i \in 0..3, pc = 25 + 2 * i PROVE Fits(New)
  <2>1. ActRows(i) \cap ActSoFar = {} BY <1>4, DumpNumbers DEF ActRows, ActSoFar
  <2>2. New = [act |-> ActRows(i)] BY <1>4, NewIs
  <2> QED BY <1>1, <1>2, <2>1, <2>2, FitsEntity
<1>5. CASE pc = 15 BY <1>1, <1>2, <1>5, NewIs, FitsEntity DEF If
<1>6. CASE pc = 16 BY <1>1, <1>2, <1>6, NewIs, FitsEntity DEF If
<1>7. CASE pc = 35 BY <1>1, <1>2, <1>7, NewIs, FitsEntity DEF If
<1>8. CASE pc = 36 BY <1>1, <1>2, <1>8, NewIs, FitsEntity DEF If
<1> QED BY <1>3, <1>4, <1>5, <1>6, <1>7, <1>8

\* The pairs link what the statements before have added, and none of them is there yet.
LEMMA LinksFit ==
    ASSUME Base, Progress, Passable(start)
    PROVE  /\ \A i \in 1..3 : pc \in {8 + 2 * i, 18 + 2 * i} => Fits(New)
           /\ \A i \in 0..3 : pc = 26 + 2 * i => Fits(New)
           /\ pc = 33 => Fits(New)
<1>1. tab["com"] = ComSoFar /\ tab["act"] = ActSoFar
  BY OnlyDue, DueIs DEF AddedTables
<1>2. pc > 17 /\ pc < 41 => tab["ves"] = dump.ves
  BY DEF Progress, Vestigingen
<1>3. ASSUME NEW i \in 1..3, pc = 8 + 2 * i PROVE Fits(New)
  <2>1. tab["mac"] = dump.mac BY <1>3 DEF Progress, Replaced
  <2>2. tab["mac_com"] = Of(MacComSoFar) BY OnlyDue DEF Progress, OfMac
  <2>3. ComRows(dump.mac, i) \cap MacComSoFar = {}
    BY <1>3, DumpNumbers DEF ComRows, MacComSoFar
  <2>4. Of(ComRows(dump.mac, i)) \cap Of(MacComSoFar) = {} BY <2>3 DEF Of
  <2>5. ComRows(dump.mac, i) \subseteq ComSoFar
    BY <1>3, DumpNumbers DEF ComRows, ComSoFar
  <2>6. \A c \in ComRows(dump.mac, i) : c[1] \in dump.mac BY DEF ComRows
  <2>7. Of(ComRows(dump.mac, i)) \subseteq dump.mac \X ComSoFar BY <2>5, <2>6 DEF Of
  <2>8. New = [mac_com |-> Of(ComRows(dump.mac, i))] BY <1>3, NewIs
  <2> QED BY <1>1, <2>1, <2>2, <2>4, <2>7, <2>8, FitsRelation, TablesAre
<1>4. ASSUME NEW i \in 1..3, pc = 18 + 2 * i PROVE Fits(New)
  <2>1. tab["ves"] = dump.ves BY <1>2, <1>4
  <2>2. tab["ves_com"] = Of(VesComSoFar) BY <1>4 DEF Progress, OfVes
  <2>3. ComRows(dump.ves, i) \cap VesComSoFar = {}
    BY <1>4, DumpNumbers DEF ComRows, VesComSoFar
  <2>4. Of(ComRows(dump.ves, i)) \cap Of(VesComSoFar) = {} BY <2>3 DEF Of
  <2>5. ComRows(dump.ves, i) \subseteq ComSoFar
    BY <1>4, DumpNumbers DEF ComRows, ComSoFar
  <2>6. \A c \in ComRows(dump.ves, i) : c[1] \in dump.ves BY DEF ComRows
  <2>7. Of(ComRows(dump.ves, i)) \subseteq dump.ves \X ComSoFar BY <2>5, <2>6 DEF Of
  <2>8. New = [ves_com |-> Of(ComRows(dump.ves, i))] BY <1>4, NewIs
  <2> QED BY <1>1, <2>1, <2>2, <2>4, <2>7, <2>8, FitsRelation, TablesAre
<1>5. ASSUME NEW i \in 0..3, pc = 26 + 2 * i PROVE Fits(New)
  <2>1. tab["ves"] = dump.ves BY <1>2, <1>5
  <2>2. tab["ves_act"] = Of(VesActSoFar) BY <1>5 DEF Progress, OfVes
  <2>3. ActRows(i) \cap VesActSoFar = {}
    BY <1>5, DumpNumbers DEF ActRows, VesActSoFar
  <2>4. Of(ActRows(i)) \cap Of(VesActSoFar) = {} BY <2>3 DEF Of
  <2>5. ActRows(i) \subseteq ActSoFar
    BY <1>5, DumpNumbers DEF ActRows, ActSoFar
  <2>6. \A a \in ActRows(i) : a[1] \in dump.ves BY DumpNumbers DEF ActRows
  <2>7. Of(ActRows(i)) \subseteq dump.ves \X ActSoFar BY <2>5, <2>6 DEF Of
  <2>8. New = [ves_act |-> Of(ActRows(i))] BY <1>5, NewIs
  <2> QED BY <1>1, <2>1, <2>2, <2>4, <2>7, <2>8, FitsRelation, TablesAre
<1>6. CASE pc = 33
  <2>1. tab["ves"] = dump.ves BY <1>2, <1>6
  <2>2. tab["ves_hdn"] = {} BY <1>6 DEF Progress, OfVes, If
  <2>3. tab["handelsnaam"] = dump.hdn BY <1>6 DEF Progress, Replaced
  <2>4. dump.veshdn \subseteq dump.ves \X dump.hdn BY DumpIs DEF DumpOK
  <2>5. New = [ves_hdn |-> {p \in dump.veshdn : p[1] \in tab["ves"]}] BY <1>6, NewIs
  <2> QED BY <2>1, <2>2, <2>3, <2>4, <2>5, FitsRelation, TablesAre
<1> QED BY <1>3, <1>4, <1>5, <1>6

\* 17: the vestigingen refer to activiteiten, addresses and kinds that are there.
LEMMA VesFit ==
    ASSUME Base, Progress, Passable(start), pc = 17
    PROVE  Fits(New)
<1>1. New = [ves |-> dump.ves, ves_end |-> dump.vesEnd,
             ves_mac |-> {<<v, dump.of[v]>> : v \in dump.ves},
             ves_cvs |-> Pairs(OfType("CVS")), ves_ncv |-> Pairs(OfType("NCV")),
             ves_adr |-> Adr(dump.ves)]
  BY NewIs
<1>2. tab["ves"] = {} BY OnlyDue
<1>3. /\ tab["ves_end"] = {} /\ tab["ves_mac"] = {} /\ tab["ves_cvs"] = {}
      /\ tab["ves_ncv"] = {} /\ tab["ves_adr"] = {}
  BY <1>2, NoVes
<1>4. tab["mac"] = dump.mac /\ tab["locatie"] = dump.adr BY DEF Progress, Replaced
<1>5. tab["cvs"] = OfType("CVS") /\ tab["ncv"] = OfType("NCV")
  BY OnlyDue, DueIs DEF AddedTables, If
<1>6. {<<v, dump.of[v]>> : v \in dump.ves} \subseteq dump.ves \X dump.mac
  BY DumpIs DEF DumpOK
<1>7. Pairs(OfType("CVS")) \subseteq dump.ves \X OfType("CVS") BY DEF Pairs, OfType
<1>8. Pairs(OfType("NCV")) \subseteq dump.ves \X OfType("NCV") BY DEF Pairs, OfType
<1>9. Adr(dump.ves) \subseteq dump.ves \X dump.adr BY DEF Adr
<1>10. \A x \in DOMAIN New : New[x] \cap tab[x] = {} BY <1>1, <1>2, <1>3
<1>11. /\ With(New, "ves") = dump.ves /\ With(New, "mac") = dump.mac
       /\ With(New, "locatie") = dump.adr /\ With(New, "cvs") = OfType("CVS")
       /\ With(New, "ncv") = OfType("NCV")
  BY <1>1, <1>2, <1>4, <1>5 DEF With
<1>12. Relation \cap DOMAIN New = {"ves_mac", "ves_cvs", "ves_ncv", "ves_adr"}
  BY <1>1, TablesAre
<1>13. ASSUME NEW r \in {"ves_mac", "ves_cvs", "ves_ncv", "ves_adr"}
       PROVE  New[r] \subseteq With(New, Refs[r][1]) \X With(New, Refs[r][2])
  <2>1. New["ves_mac"] \subseteq With(New, "ves") \X With(New, "mac") BY <1>1, <1>6, <1>11
  <2>2. New["ves_cvs"] \subseteq With(New, "ves") \X With(New, "cvs") BY <1>1, <1>7, <1>11
  <2>3. New["ves_ncv"] \subseteq With(New, "ves") \X With(New, "ncv") BY <1>1, <1>8, <1>11
  <2>4. New["ves_adr"] \subseteq With(New, "ves") \X With(New, "locatie") BY <1>1, <1>9, <1>11
  <2>5. /\ Refs["ves_mac"][1] = "ves" /\ Refs["ves_mac"][2] = "mac"
        /\ Refs["ves_cvs"][1] = "ves" /\ Refs["ves_cvs"][2] = "cvs"
        /\ Refs["ves_ncv"][1] = "ves" /\ Refs["ves_ncv"][2] = "ncv"
        /\ Refs["ves_adr"][1] = "ves" /\ Refs["ves_adr"][2] = "locatie"
    BY TablesAre
  <2> QED BY <2>1, <2>2, <2>3, <2>4, <2>5
<1> QED BY <1>10, <1>12, <1>13 DEF Fits

\* 37, 38: the persons refer to natural and other persons, the functions to persons.
LEMMA PersonsFit ==
    ASSUME Base, Progress, Passable(start), pc \in {37, 38}
    PROVE  Fits(New)
<1>1. /\ tab["nps"] = dump.nat /\ tab["nnp"] = dump.prs \ dump.nat
      /\ tab["prs"] = If(pc > 37, dump.prs) /\ tab["fvv"] = {}
  BY OnlyDue, DueIs DEF AddedTables, If
<1>2. dump.nat \subseteq dump.prs /\ dump.ash \subseteq dump.prs \X dump.prs
  BY DumpIs DEF DumpOK
<1>3. CASE pc = 37
  <2>1. tab["prs"] = {} BY <1>1, <1>3 DEF If
  <2>2. tab["prs_nps"] = {} /\ tab["prs_nnp"] = {}
    <3>1. tab["prs_nps"] \subseteq {} \X tab["nps"] /\ tab["prs_nnp"] \subseteq {} \X tab["nnp"]
      BY <2>1, ConsistentIs DEF Base, TypeOK
    <3> QED BY <3>1
  <2>3. New = [prs |-> dump.prs, prs_nps |-> Pairs(dump.nat),
               prs_nnp |-> Pairs(dump.prs \ dump.nat)]
    BY <1>3, NewIs
  <2>4. /\ Pairs(dump.nat) \subseteq dump.prs \X dump.nat
        /\ Pairs(dump.prs \ dump.nat) \subseteq dump.prs \X (dump.prs \ dump.nat)
    BY <1>2 DEF Pairs
  <2>5. \A x \in DOMAIN New : New[x] \cap tab[x] = {} BY <2>1, <2>2, <2>3
  <2>6. /\ With(New, "prs") = dump.prs /\ With(New, "nps") = dump.nat
        /\ With(New, "nnp") = dump.prs \ dump.nat
    BY <1>1, <2>1, <2>3 DEF With
  <2>7. Relation \cap DOMAIN New = {"prs_nps", "prs_nnp"} BY <2>3, TablesAre
  <2>8. /\ New["prs_nps"] \subseteq With(New, "prs") \X With(New, "nps")
        /\ New["prs_nnp"] \subseteq With(New, "prs") \X With(New, "nnp")
    BY <2>3, <2>4, <2>6
  <2>9. /\ Refs["prs_nps"][1] = "prs" /\ Refs["prs_nps"][2] = "nps"
        /\ Refs["prs_nnp"][1] = "prs" /\ Refs["prs_nnp"][2] = "nnp"
    BY TablesAre
  <2> QED BY <2>5, <2>7, <2>8, <2>9 DEF Fits
<1>4. CASE pc = 38
  <2>1. tab["prs"] = dump.prs BY <1>1, <1>4 DEF If
  <2>2. tab["fvv_prs"] = {}
    <3>1. tab["fvv_prs"] \subseteq {} \X tab["prs"]
      BY <1>1, ConsistentIs DEF Base, TypeOK
    <3> QED BY <3>1
  <2>3. New = [fvv |-> dump.ash, fvv_prs |-> {<<a, a[i]>> : a \in dump.ash, i \in {1, 2}}]
    BY <1>4, NewIs
  <2>4. {<<a, a[i]>> : a \in dump.ash, i \in {1, 2}} \subseteq dump.ash \X dump.prs
    BY <1>2
  <2>5. \A x \in DOMAIN New : New[x] \cap tab[x] = {} BY <1>1, <2>2, <2>3
  <2>6. With(New, "prs") = dump.prs /\ With(New, "fvv") = dump.ash
    BY <1>1, <2>1, <2>3 DEF With
  <2>7. Relation \cap DOMAIN New = {"fvv_prs"} BY <2>3, TablesAre
  <2>8. New["fvv_prs"] \subseteq With(New, "fvv") \X With(New, "prs") BY <2>3, <2>4, <2>6
  <2>9. Refs["fvv_prs"][1] = "fvv" /\ Refs["fvv_prs"][2] = "prs" BY TablesAre
  <2> QED BY <2>5, <2>7, <2>8, <2>9 DEF Fits
<1> QED BY <1>3, <1>4

\* 34, 39: the hoofdvestigingen and the owners are there.
LEMMA UpdatesFit ==
    ASSUME Base, Progress
    PROVE  /\ pc = 34 => Hoofd \subseteq tab["mac"] \X tab["ves"]
           /\ pc = 39 => Eig \subseteq tab["mac"] \X tab["prs"]
<1>1. pc \in {34, 39} => tab["mac"] = dump.mac BY DEF Progress, Replaced
<1>2. dump.hoofd \subseteq dump.ves /\ \A v \in dump.ves : dump.of[v] \in dump.mac
  BY DumpIs DEF DumpOK
<1> QED BY <1>1, <1>2 DEF Hoofd, Eig

\* 3: without vestigingen, nothing refers to the activiteiten that are deleted.
LEMMA DeletionFits ==
    ASSUME Base, Progress, Passable(start), pc = 3
    PROVE  tab["ves_mac"] = {}
BY OnlyDue, NoVes
-----------------------------------------------------------------------------
(* The invariant *)

\* Every INSERT of a run that goes on takes it one statement further.
LEMMA ProgressAdds ==
    ASSUME Base, Progress, pc \in 1..41, Steps[pc].op = "insert", Adds(New)
    PROVE  Progress'
<1>1. CASE \E i \in 1..3 : pc \in {7 + 2 * i, 8 + 2 * i, 17 + 2 * i, 18 + 2 * i}
  BY <1>1, InsNumber, InsMacLink, InsVesLink
<1>2. CASE \E i \in 0..3 : pc \in {25 + 2 * i, 26 + 2 * i}
  BY <1>2, InsAct, InsActLink
<1>3. CASE pc \in {2, 4, 5, 7, 8}
  BY <1>3, InsLocatie, InsOnderneming, InsMac, InsHandelsnaam, InsOndHdn
<1>4. CASE pc \in {15, 16, 35, 36, 37, 38} BY <1>4, InsOther
<1>5. CASE pc \in {17, 33} BY <1>5, InsVes, InsVesHdn
<1> QED BY <1>1, <1>2, <1>3, <1>4, <1>5, Places

\* With nothing in the way of the run, the rows of every INSERT fit.
LEMMA AllFit ==
    ASSUME Base, Progress, Passable(start), pc \in 1..41, Steps[pc].op = "insert"
    PROVE  Fits(New)
<1>1. CASE \E i \in 1..3 : pc \in {7 + 2 * i, 8 + 2 * i, 17 + 2 * i, 18 + 2 * i}
  BY <1>1, DueFit, LinksFit
<1>2. CASE \E i \in 0..3 : pc \in {25 + 2 * i, 26 + 2 * i}
  BY <1>2, DueFit, LinksFit
<1>3. CASE pc \in {2, 4, 5, 7, 8} BY <1>3, FirstFit
<1>4. CASE pc \in {15, 16, 35, 36} BY <1>4, DueFit
<1>5. CASE pc \in {17, 33, 37, 38} BY <1>5, VesFit, LinksFit, PersonsFit
<1> QED BY <1>1, <1>2, <1>3, <1>4, <1>5, Places

\* A statement either takes the run one statement further, or ends it with an exception
\* that tells of something in its way.
LEMMA StatementGoesOn ==
    ASSUME Base, Progress, pc \in 1..41, Insert \/ Update \/ Delete
    PROVE  \/ Progress' /\ run' = "running"
           \/ run' = "raised" /\ ~Passable(start) /\ UNCHANGED <<dump, start>>
<1>1. CASE Insert
  <2>1. Steps[pc].op = "insert" BY <1>1 DEF Insert, At
  <2>2. CASE Adds(New) BY <2>1, <2>2, ProgressAdds DEF Adds, Done
  <2>3. CASE Refused /\ ~Fits(New) BY <2>1, <2>3, AllFit DEF Refused
  <2> QED BY <1>1, <2>2, <2>3, InsertEffect
<1>2. CASE Update
  <2>1. ASSUME NEW c, NEW v, Changes(c, v) PROVE run' = "running"
    BY <2>1 DEF Changes, Done
  <2>2. CASE pc = 18 BY <1>2, <2>1, <2>2, UpdateEffect, UpdAll
  <2>3. CASE pc = 40 BY <1>2, <2>1, <2>3, UpdateEffect, UpdAll
  <2>4. CASE pc = 34 BY <1>2, <2>1, <2>4, UpdateEffect, UpdAll, UpdatesFit
  <2>5. CASE pc = 39 BY <1>2, <2>1, <2>5, UpdateEffect, UpdAll, UpdatesFit
  <2> QED BY <1>2, <2>2, <2>3, <2>4, <2>5, UpdateEffect
<1>3. CASE Delete
  <2>1. ASSUME NEW w, Removes(w) PROVE run' = "running"
    BY <2>1 DEF Removes, Done
  <2>2. CASE pc = 1 BY <1>3, <2>1, <2>2, DeleteEffect, DelLocatie
  <2>3. CASE pc = 3
    <3>1. CASE Removes(WithoutOnd) BY <2>1, <2>3, <3>1, DelOnderneming
    <3>2. CASE Refused /\ ~(tab["ves_mac"] = {}) BY <2>3, <3>2, DeletionFits DEF Refused
    <3> QED BY <1>3, <2>3, <3>1, <3>2, DeleteEffect
  <2>4. CASE pc = 6 BY <1>3, <2>1, <2>4, DeleteEffect, DelHandelsnaam
  <2>5. CASE pc = 41 BY <1>3, <2>1, <2>5, DeleteEffect, DelOutside
  <2> QED BY <1>3, <2>2, <2>3, <2>4, <2>5, DeleteEffect
<1> QED BY <1>1, <1>2, <1>3

\* A run begins with nothing done.
LEMMA StartProgress ==
    ASSUME Base, Start
    PROVE  Progress'
<1>1. UNCHANGED <<dump, tab>> /\ start' = tab /\ pc' = 1 BY DEF Start
<1>2. Replaced' BY <1>1 DEF Replaced
<1>3. ComSoFar' = {} /\ ActSoFar' = {}
  BY <1>1, DumpNumbers DEF ComSoFar, ActSoFar
<1>4. \A e \in AddedTables : Due'[e] = {}
  <2>1. /\ Due'["com"] = ComSoFar' /\ Due'["act"] = ActSoFar'
        /\ Due'["cvs"] = If(pc > 15, OfType("CVS"))' /\ Due'["ncv"] = If(pc > 16, OfType("NCV"))'
        /\ Due'["nps"] = If(pc > 35, dump.nat)' /\ Due'["nnp"] = If(pc > 36, dump.prs \ dump.nat)'
        /\ Due'["prs"] = If(pc > 37, dump.prs)' /\ Due'["fvv"] = If(pc > 38, dump.ash)'
    BY DEF Due
  <2> QED BY <1>1, <1>3, <2>1 DEF If, AddedTables
<1>5. Added'
  <2> SUFFICES ASSUME NEW e \in AddedTables
               PROVE  Grown(e, Due[e])'
    BY DomainOfDue DEF Added
  <2> QED BY <1>1, <1>4 DEF Grown
<1>6. Vestigingen' /\ OfVes' BY <1>1 DEF Vestigingen, OfVes
<1>7. OfMac'
  <2>1. MacComSoFar' = {} BY <1>1, DumpNumbers DEF MacComSoFar
  <2>2. Of(MacComSoFar)' = {} BY <2>1 DEF Of
  <2>3. tab["mac_com"] \subseteq tab["mac"] \X tab["com"]
    BY ConsistentIs DEF Base, TypeOK
  <2> QED BY <1>1, <2>2, <2>3 DEF OfMac
<1> QED BY <1>1, <1>2, <1>5, <1>6, <1>7 DEF Progress

\* What a step that leaves the tables alone keeps.
LEMMA ProgressStays ==
    ASSUME Progress, UNCHANGED <<dump, tab, start, pc>>
    PROVE  Progress'
<1>1. Replaced' BY DEF Progress, Replaced, Adr, Of
<1>2. Added' BY DEF Progress, Added, Due, Grown, ComSoFar, ActSoFar, If, OfType
<1>3. Vestigingen' BY DEF Progress, Vestigingen, StaysSet, Stays
<1>4. OfVes' BY DEF Progress, OfVes, Of, Adr, WithEndedMac, VesComSoFar, VesActSoFar, If
<1>5. OfMac' BY DEF Progress, OfMac, Of, MacComSoFar
<1> QED BY <1>1, <1>2, <1>3, <1>4, <1>5 DEF Progress

LEMMA InitIInv == Init => IInv
<1> SUFFICES ASSUME Init PROVE IInv OBVIOUS
<1>1. /\ dump \in Dumps /\ tab = Empty /\ start = Empty /\ pc = 0 /\ run = "idle" /\ runs = 0
  BY DEF Init
<1>2. /\ DOMAIN Empty = Table /\ \A x \in Table : Empty[x] = {} BY DEF Empty
<1>3. /\ "ves_end" \in Table /\ "mac_ond" \in Table /\ Entity \subseteq Table
      /\ {"mac", "ves", "locatie"} \subseteq Entity
      /\ \A r \in Relation : r \in Table
  BY TablesAre DEF Table, Column, Entity
<1>4. Consistent(tab) BY <1>1, <1>2, <1>3 DEF Consistent
<1>5. TypeOK BY <1>1, <1>2, <1>3, <1>4, HrAssumption, StepsAre DEF TypeOK
<1>6. Base BY <1>1, <1>2, <1>3, <1>5 DEF Base
<1> QED BY <1>1, <1>6 DEF IInv, Going

LEMMA NextIInv == IInv /\ [Next]_vars => IInv'
<1> SUFFICES ASSUME IInv, [Next]_vars PROVE IInv' OBVIOUS
<1>1. Base /\ (Going => Progress) /\ (run = "done" => pc = 42)
      /\ (run = "raised" => ~Passable(start))
  BY DEF IInv
<1>2. Base'
  <2>1. run = "running" => pc \in 1..42 BY <1>1 DEF Going, Progress
  <2> QED BY <1>1, <2>1, BaseNext
<1>3. CASE Start
  <2>1. Progress' BY <1>1, <1>3, StartProgress
  <2>2. run' = "running" BY <1>3 DEF Start
  <2> QED BY <1>2, <2>1, <2>2 DEF IInv
<1>4. CASE Insert \/ Update \/ Delete
  <2>1. run = "running" /\ pc <= 41 BY <1>4, StepsAre DEF Insert, Update, Delete, At
  <2>2. Progress /\ pc \in 1..41 BY <1>1, <2>1 DEF Going, Progress
  <2>3. CASE Progress' /\ run' = "running" BY <1>2, <2>3 DEF IInv
  <2>4. CASE run' = "raised" /\ ~Passable(start) /\ UNCHANGED <<dump, start>>
    <3>1. ~Passable(start)' BY <2>4 DEF Passable
    <3> QED BY <1>2, <2>4, <3>1 DEF IInv, Going
  <2> QED BY <1>1, <1>4, <2>2, <2>3, <2>4, StatementGoesOn
<1>5. CASE Finish
  <2>1. run = "running" /\ pc > 41 /\ run' = "done" /\ UNCHANGED <<dump, tab, pc, start>>
    BY <1>5, StepsAre DEF Finish
  <2>2. Progress BY <1>1, <2>1 DEF Going
  <2>3. pc = 42 BY <2>1, <2>2 DEF Progress
  <2>4. Progress' BY <2>1, <2>2, ProgressStays
  <2> QED BY <1>2, <2>1, <2>3, <2>4 DEF IInv
<1>6. CASE Kill
  <2>1. run' = "killed" BY <1>6 DEF Kill
  <2> QED BY <1>2, <2>1 DEF IInv, Going
<1>7. CASE UNCHANGED vars
  <2>1. UNCHANGED <<dump, tab, pc, run, start>> BY <1>7 DEF vars
  <2>2. Going' = Going /\ Passable(start)' = Passable(start) BY <2>1 DEF Going, Passable
  <2>3. Going => Progress' BY <1>1, <2>1, ProgressStays
  <2> QED BY <1>1, <1>2, <2>1, <2>2, <2>3 DEF IInv
<1> QED BY <1>3, <1>4, <1>5, <1>6, <1>7 DEF Next

\* Every reachable state of every dump and number of runs is described by the invariant.
THEOREM Invariance == Spec => []IInv
BY InitIInv, NextIInv, PTL DEF Spec

\* At every moment, also after a run that was killed or refused, both ends of every link
\* are there, and the tables hold rows of the dump only (sql_steps and models.py).
THEOREM TypeCorrect == Spec => []TypeOK
<1>1. IInv => TypeOK BY DEF IInv, Base
<1> QED BY <1>1, Invariance, PTL

\* A run of sql_steps that ends well leaves a function of the dump, whatever runs were
\* killed or refused before it.
THEOREM DoneIsExact == Spec => []DoneExact
<1>1. IInv => DoneExact
  <2> SUFFICES ASSUME IInv, run = "done" PROVE DoneExact BY DEF DoneExact
  <2>1. Base /\ Progress /\ pc = 42 BY DEF IInv, Going
  <2>2. /\ tab["locatie"] = dump.adr /\ tab["mac"] = dump.mac /\ tab["onderneming"] = dump.ond
        /\ tab["mac_adr"] = Adr(dump.mac) /\ tab["handelsnaam"] = dump.hdn
        /\ tab["ond_hdn"] = Of(dump.hdn)
    BY <2>1 DEF Progress, Replaced
  <2>3. tab["ves"] = StaysSet BY <2>1 DEF Progress, Vestigingen
  <2>4. StaysSet \subseteq dump.ves BY DEF StaysSet
  <2>5. /\ tab["ves_adr"] = Adr(StaysSet)
        /\ tab["ves_com"] = Of(VesComSoFar) /\ tab["ves_act"] = Of(VesActSoFar)
        /\ tab["ves_hdn"] = {p \in dump.veshdn : p[1] \in StaysSet}
        /\ tab["ves_end"] = (StaysSet \cap dump.vesEnd) \cup WithEndedMac(StaysSet)
        /\ tab["mac_hoofd"] = {<<dump.of[v], v>> : v \in dump.hoofd \cap StaysSet}
        /\ tab["mac_eig"] = {<<m, dump.eig[m]>> : m \in {n \in dump.mac : dump.eig[n] \in dump.prs}}
    BY <2>1, <2>3 DEF Progress, OfVes, If
  <2>6. (StaysSet \cap dump.vesEnd) \cup WithEndedMac(StaysSet)
          = {v \in StaysSet : v \in dump.vesEnd \/ dump.of[v] \in dump.macEnd}
    BY DEF WithEndedMac
  <2>7. VesActSoFar = {y \in dump.act : y[1] \in StaysSet}
    BY <2>1, <2>3, DumpNumbers DEF VesActSoFar
  <2>8. VesComSoFar = {y \in {c \in dump.com : c[1] \in dump.ves} : y[1] \in StaysSet}
    BY <2>1, <2>3, <2>4, DumpNumbers DEF VesComSoFar
  <2>9. /\ tab["ves_act"] = OfStaying(dump.act)
        /\ tab["ves_com"] = OfStaying({c \in dump.com : c[1] \in dump.ves})
    BY <2>5, <2>7, <2>8 DEF Of, OfStaying
  <2> QED BY <2>2, <2>3, <2>5, <2>6, <2>9 DEF DoneExact
<1> QED BY <1>1, Invariance, PTL

\* A run of sql_steps ends well exactly when it began on tables with nothing in its way.
THEOREM EndsWellExactlyIfPassable == Spec => []EndsWellIffPassable
<1>1. IInv => EndsWellIffPassable
  <2>1. ASSUME IInv, run = "done" PROVE Passable(start)
    <3>1. Base /\ Progress /\ pc = 42 BY <2>1 DEF IInv, Going
    <3>2. ComSoFar = dump.com /\ ActSoFar = dump.act
      BY <3>1, DumpNumbers DEF ComSoFar, ActSoFar
    <3>3. \A e \in AddedTables : Due[e] = Full[e]
      BY <3>1, <3>2, DueIs DEF AddedTables, Full, If
    <3>4. \A e \in AddedTables : start[e] = {}
      <4> TAKE e \in AddedTables
      <4>1. Grown(e, Due[e]) BY <3>1, DomainOfDue DEF Progress, Added
      <4>2. start[e] \subseteq Full[e] BY <3>1, TablesOfParts DEF Base
      <4> QED BY <3>3, <4>1, <4>2 DEF Grown
    <3>5. start["ves"] = {} BY <3>1 DEF Progress, Vestigingen
    <3>6. start["mac"] \subseteq dump.ond BY <3>1 DEF Progress, Replaced
    <3>7. AddedTo = AddedTables \cup {"ves"} BY DEF AddedTo, Entity, AddedTables
    <3> QED BY <3>4, <3>5, <3>6, <3>7 DEF Passable
  <2>2. ASSUME IInv, run = "raised" PROVE ~Passable(start)
    BY <2>2 DEF IInv
  <2> QED BY <2>1, <2>2 DEF EndsWellIffPassable
<1> QED BY <1>1, Invariance, PTL
-----------------------------------------------------------------------------
(* A rerun on vestigingen: what ImportPipeline takes a conversion of a filled *)
(* database to be                                                             *)

\* Every vestiging refers to its mac.
VesLinked == \A v \in tab["ves"] : <<v, dump.of[v]>> \in tab["ves_mac"]

\* A run that begins on tables with vestigingen comes no further than the insert of the
\* maatschappelijke activiteiten.
Rerun == run # "idle" /\ start["ves"] # {} =>
           /\ run # "done" /\ pc \in 1..5
           /\ pc > 1 => tab["mac_adr"] = {} /\ tab["ves_adr"] = {}
           /\ run = "raised" => pc \in {3, 5} /\ tab["locatie"] = dump.adr

\* An INSERT of vestigingen comes with their mac.
LEMMA NewVes ==
    ASSUME pc \in 1..41, Steps[pc].op = "insert", "ves" \in DOMAIN New
    PROVE  /\ "ves_mac" \in DOMAIN New /\ New["ves"] = dump.ves
           /\ \A v \in dump.ves : <<v, dump.of[v]>> \in New["ves_mac"]
<1>1. pc \notin {2, 4, 5, 7, 8} BY NewIs
<1>2. pc \notin {15, 16, 33} BY NewIs
<1>3. pc \notin {35, 36, 37, 38} BY NewIs
<1>4. ASSUME NEW i \in 1..3
      PROVE  pc \notin {7 + 2 * i, 8 + 2 * i, 17 + 2 * i, 18 + 2 * i}
  <2>1. pc # 7 + 2 * i BY NewIs
  <2>2. pc # 8 + 2 * i BY NewIs
  <2>3. pc # 17 + 2 * i BY NewIs
  <2>4. pc # 18 + 2 * i BY NewIs
  <2> QED BY <2>1, <2>2, <2>3, <2>4
<1>5. ASSUME NEW i \in 0..3
      PROVE  pc \notin {25 + 2 * i, 26 + 2 * i}
  <2>1. pc # 25 + 2 * i BY NewIs
  <2>2. pc # 26 + 2 * i BY NewIs
  <2> QED BY <2>1, <2>2
<1>6. pc = 17 BY <1>1, <1>2, <1>3, <1>4, <1>5, Places
<1> QED BY <1>6, NewIs

LEMMA VesLinkedNext ==
    ASSUME Base, VesLinked, run = "running" => pc \in 1..42, [Next]_vars
    PROVE  VesLinked'
<1>1. ASSUME UNCHANGED <<dump, tab>> PROVE VesLinked'
  BY <1>1 DEF VesLinked
<1>2. "ves" \in Entity /\ "ves" \in Table /\ "ves_mac" \in Relation /\ "ves_mac" \in Table
  BY TablesAre DEF Entity, Table
<1>3. ASSUME At("insert") \/ At("update") \/ At("delete")
      PROVE  pc \in 1..41
  BY <1>3, StepsAre DEF At
<1>4. CASE Insert
  <2>1. pc \in 1..41 /\ Steps[pc].op = "insert" BY <1>3, <1>4 DEF Insert, At
  <2>2. CASE Adds(New)
    <3>1. dump' = dump /\ \A x \in Table : tab'[x] = With(New, x)
      BY <2>2 DEF Adds, Done
    <3>2. tab["ves_mac"] \subseteq tab'["ves_mac"] BY <1>2, <3>1 DEF With
    <3>3. CASE "ves" \in DOMAIN New
      <4>1. tab'["ves"] = tab["ves"] \cup dump.ves /\ New["ves_mac"] \subseteq tab'["ves_mac"]
        BY <1>2, <2>1, <3>1, <3>3, NewVes DEF With
      <4> QED BY <2>1, <3>1, <3>2, <3>3, <4>1, NewVes DEF VesLinked
    <3>4. CASE "ves" \notin DOMAIN New
      BY <1>2, <3>1, <3>2, <3>4 DEF With, VesLinked
    <3> QED BY <3>3, <3>4
  <2>3. CASE Refused BY <1>1, <2>3 DEF Refused
  <2> QED BY <1>4, <2>2, <2>3, InsertEffect
<1>5. CASE Update
  <2>1. pc \in 1..41 BY <1>3, <1>5 DEF Update
  <2>2. ASSUME NEW c \in {"ves_end", "mac_hoofd", "mac_eig", "mac_mks"}, NEW x, Changes(c, x)
        PROVE  VesLinked'
    BY <1>2, <2>2 DEF Changes, Done, VesLinked
  <2>3. CASE Refused BY <1>1, <2>3 DEF Refused
  <2> QED BY <1>5, <2>1, <2>2, <2>3, UpdateEffect
<1>6. CASE Delete
  <2>1. pc \in 1..41 BY <1>3, <1>6 DEF Delete
  <2>2. CASE Refused BY <1>1, <2>2 DEF Refused
  <2>3. ASSUME NEW e \in {"locatie", "handelsnaam"}, Removes(Without(tab, e, tab[e]))
        PROVE  VesLinked'
    <3>1. e \in Entity /\ e # "ves" /\ e # "mac" BY DEF Entity
    <3>2. Refs["ves_mac"][1] # e /\ Refs["ves_mac"][2] # e BY <3>1, TablesAre
    <3>3. Done /\ tab'["ves"] = tab["ves"] /\ tab'["ves_mac"] = tab["ves_mac"]
      BY <1>2, <2>3, <3>1, <3>2, RemovesIs
    <3> QED BY <3>3 DEF Done, VesLinked
  <2>4. CASE Removes(WithoutOnd)
    <3>1. Done /\ tab'["ves"] = tab["ves"] /\ tab'["ves_mac"] = tab["ves_mac"]
      BY <1>2, <2>4, RemovesOnd
    <3> QED BY <3>1 DEF Done, VesLinked
  <2>5. CASE Removes(Without(tab, "ves", Outside(tab)))
    <3>1. /\ Done /\ tab'["ves"] = tab["ves"] \ Outside(tab)
          /\ tab'["ves_mac"] = Left(tab, "ves_mac", "ves", Outside(tab))
      BY <1>2, <2>5, RemovesIs
    <3>2. ASSUME NEW v \in tab["ves"] \ Outside(tab)
          PROVE  <<v, dump.of[v]>> \in tab'["ves_mac"]
      <4>1. <<v, dump.of[v]>> \in tab["ves_mac"] BY DEF VesLinked
      <4>2. Refs["ves_mac"][1] = "ves" /\ Refs["ves_mac"][2] = "mac" BY TablesAre
      <4> QED BY <3>1, <4>1, <4>2 DEF Left
    <3> QED BY <3>1, <3>2 DEF Done, VesLinked
  <2> QED BY <1>6, <2>1, <2>2, <2>3, <2>4, <2>5, DeleteEffect
<1>7. CASE Start \/ Finish \/ Kill BY <1>1, <1>7 DEF Start, Finish, Kill
<1>8. CASE UNCHANGED vars BY <1>1, <1>8 DEF vars
<1> QED BY <1>4, <1>5, <1>6, <1>7, <1>8 DEF Next

\* A vestiging that is there has its mac there.
LEMMA MacOfVes ==
    ASSUME Base, VesLinked, NEW v \in tab["ves"]
    PROVE  dump.of[v] \in tab["mac"] /\ dump.of[v] \in dump.mac
<1>1. tab["ves_mac"] \subseteq tab["ves"] \X tab["mac"] BY ConsistentIs DEF Base, TypeOK
<1>2. <<v, dump.of[v]>> \in tab["ves"] \X tab["mac"] BY <1>1 DEF VesLinked
<1>3. tab["mac"] \subseteq dump.mac BY DEF Base, TypeOK
<1> QED BY <1>2, <1>3

\* The first five statements of a run on tables with vestigingen.
LEMMA RerunStatement ==
    ASSUME Base, Progress, VesLinked, Rerun, start["ves"] # {}, run = "running",
           pc \in 1..41, Insert \/ Update \/ Delete
    PROVE  Rerun'
<1>1. pc \in 1..5 BY DEF Rerun
<1>2. tab["ves"] # {} BY <1>1 DEF Progress, Vestigingen
<1>3. /\ "mac_adr" \in Relation /\ "ves_adr" \in Relation /\ "locatie" \in Entity
      /\ {"mac_adr", "ves_adr", "mac", "ves", "locatie"} \subseteq Table
  BY TablesAre DEF Entity, Table
<1>4. CASE pc = 1
  <2>1. Delete BY <1>4, StepsOfSort DEF Insert, Update, At
  <2>2. Removes(Without(tab, "locatie", tab["locatie"])) BY <1>4, <2>1, DeleteEffect
  <2>3. /\ Done
        /\ tab'["mac_adr"] = Left(tab, "mac_adr", "locatie", tab["locatie"])
        /\ tab'["ves_adr"] = Left(tab, "ves_adr", "locatie", tab["locatie"])
    BY <1>3, <2>2, RemovesIs
  <2>4. /\ tab["mac_adr"] \subseteq tab["mac"] \X tab["locatie"]
        /\ tab["ves_adr"] \subseteq tab["ves"] \X tab["locatie"]
    BY ConsistentIs DEF Base, TypeOK
  <2>5. tab'["mac_adr"] = {} /\ tab'["ves_adr"] = {}
    BY <2>3, <2>4, TablesAre DEF Left
  <2>6. pc' = 2 /\ run' = "running" BY <1>4, <2>3 DEF Done
  <2> QED BY <2>5, <2>6 DEF Rerun
<1>5. ASSUME pc \in 2..5 PROVE tab["mac_adr"] = {} /\ tab["ves_adr"] = {}
  BY <1>5 DEF Rerun
<1>6. ASSUME pc \in 3..5, Refused, pc \in {3, 5} PROVE Rerun'
  <2>1. tab["locatie"] = dump.adr BY <1>6 DEF Progress, Replaced
  <2> QED BY <1>5, <1>6, <2>1 DEF Refused, Rerun
<1>7. CASE pc \in {2, 4}
  <2>1. Insert
    <3>1. Steps[pc].op = "insert" BY <1>7, StepsOfSort
    <3> QED BY <3>1 DEF Delete, Update, At
  <2>2. DOMAIN New \subseteq {"locatie", "onderneming"} BY <1>7, NewIs
  <2>3. Fits(New)
    <3>1. \A x \in DOMAIN New : New[x] \cap tab[x] = {}
      BY <1>7, NewIs DEF Progress, Replaced
    <3>2. Relation \cap DOMAIN New = {} BY <2>2, TablesAre
    <3> QED BY <3>1, <3>2 DEF Fits
  <2>4. Adds(New) BY <2>1, <2>3, InsertEffect
  <2>5. tab'["mac_adr"] = tab["mac_adr"] /\ tab'["ves_adr"] = tab["ves_adr"]
    BY <1>3, <2>2, <2>4 DEF Adds, With
  <2>6. pc' = pc + 1 /\ run' = "running" BY <2>4 DEF Adds, Done
  <2> QED BY <1>5, <1>7, <2>5, <2>6 DEF Rerun
<1>8. CASE pc = 3
  <2>1. Delete BY <1>8, StepsOfSort DEF Insert, Update, At
  <2>2. CASE Removes(WithoutOnd)
    <3>1. Done /\ tab'["mac_adr"] \subseteq tab["mac_adr"] /\ tab'["ves_adr"] \subseteq tab["ves_adr"]
      BY <1>3, <2>2, RemovesOnd
    <3>2. pc' = 4 /\ run' = "running" BY <1>8, <3>1 DEF Done
    <3> QED BY <1>5, <1>8, <3>1, <3>2 DEF Rerun
  <2>3. CASE Refused BY <1>6, <1>8, <2>3
  <2> QED BY <1>8, <2>1, <2>2, <2>3, DeleteEffect
<1>9. CASE pc = 5
  <2>1. Insert
    <3>1. Steps[pc].op = "insert" BY <1>9, StepsOfSort
    <3> QED BY <3>1 DEF Delete, Update, At
  <2>2. PICK v \in tab["ves"] : TRUE BY <1>2
  <2>3. "mac" \in DOMAIN New /\ New["mac"] = dump.mac BY <1>9, NewIs
  <2>4. New["mac"] \cap tab["mac"] # {} BY <2>3, MacOfVes
  <2>5. ~Adds(New) BY <2>3, <2>4 DEF Adds
  <2>6. Refused BY <2>1, <2>5, InsertEffect
  <2> QED BY <1>6, <1>9, <2>6
<1> QED BY <1>1, <1>4, <1>7, <1>8, <1>9

LEMMA RerunNext ==
    ASSUME IInv, VesLinked, Rerun, [Next]_vars
    PROVE  Rerun'
<1>1. Base /\ (Going => Progress) BY DEF IInv
<1>2. CASE Start
  BY <1>2 DEF Start, Rerun
<1>3. CASE Insert \/ Update \/ Delete
  <2>1. run = "running" /\ pc <= 41 /\ start' = start
    BY <1>3, StepsAre DEF Insert, Update, Delete, At
  <2>2. Progress /\ pc \in 1..41 BY <1>1, <2>1 DEF Going, Progress
  <2>3. CASE start["ves"] = {} BY <2>1, <2>3 DEF Rerun
  <2>4. CASE start["ves"] # {} BY <1>1, <1>3, <2>1, <2>2, <2>4, RerunStatement
  <2> QED BY <2>3, <2>4
<1>4. CASE Finish
  <2>1. run = "running" /\ pc > 41 /\ start' = start BY <1>4, StepsAre DEF Finish
  <2> QED BY <2>1 DEF Rerun
<1>5. CASE Kill BY <1>5 DEF Kill, Rerun
<1>6. CASE UNCHANGED vars BY <1>6 DEF vars, Rerun
<1> QED BY <1>2, <1>3, <1>4, <1>5, <1>6 DEF Next

\* A run of sql_steps on a database that already has vestigingen loses every address
\* with its first statement (DELETE of hr_locatie sets them to null) and is refused
\* before it has made new ones; so it is what a killed one leaves, too.
THEOREM RerunLosesAddresses == Spec => []RerunOrphans
<1>1. Init => VesLinked /\ Rerun
  <2>1. "ves" \in Table BY DEF Table, Entity
  <2> QED BY <2>1 DEF Init, Empty, VesLinked, Rerun
<1>2. IInv /\ VesLinked /\ [Next]_vars => VesLinked'
  BY VesLinkedNext DEF IInv, Going, Progress
<1>3. IInv /\ VesLinked /\ Rerun /\ [Next]_vars => Rerun'
  BY RerunNext
<1>4. Rerun => RerunOrphans BY DEF Rerun, RerunOrphans
<1> QED BY <1>1, <1>2, <1>3, <1>4, Invariance, PTL DEF Spec
=============================================================================
