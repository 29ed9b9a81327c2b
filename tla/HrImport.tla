------------------------------- MODULE HrImport -------------------------------
(***************************************************************************)
(* `run_import`: sql_steps() of build_hr_data.py converts the tables of the*)
(* dump (kvk...) to those of the handelsregister (hr_...), one statement   *)
(* after the other.  Every statement is a transaction of its own.  A run   *)
(* that is killed, or that a constraint of the database ends, leaves what  *)
(* the statements before have done, and a next run starts on top of it.    *)
(*                                                                         *)
(* A table is the set of its primary keys.  A foreign key column and a     *)
(* many-to-many table are sets of pairs; NULL is the absence of a pair.    *)
(***************************************************************************)
EXTENDS Integers, Sequences

CONSTANTS
    Dumps,     \* the dumps that can be in the kvk tables
    MaxRuns    \* bound on the number of runs

VARIABLES
    dump,  \* the kvk tables
    tab,   \* the hr tables
    pc,    \* the statement the run is at
    run,   \* "idle", "running", "done", "raised" (an exception) or "killed"
    runs,
    start  \* history: the hr tables when the present run began

vars == <<dump, tab, pc, run, runs, start>>

\* the list of the code, where two commas are missing: three names are one
AMSTERDAM_PLAATSEN == {"amsterdam", "aalsmeer", "almere", "amstelveen",
    "amsterdam-duivendrechtamsterdam zuidoostbeverwijk", "diemen", "duivendrecht",
    "haarlem", "heemstede", "hilversum", "landsmeer", "oostzaan", "purmerend",
    "velsen", "weesp", "zandvoort"}

\* The kvk tables.  An adres is <<kind, owner>>, of which the conversion takes one
\* of each kind; a handelsnaam is of an onderneming; ids are unique.
DumpOK(d) ==
    /\ d.ond \subseteq d.mac /\ d.macEnd \subseteq d.mac
    /\ d.of \in [d.ves -> d.mac] /\ d.typ \in [d.ves -> {"CVS", "NCV", "other"}]
    /\ d.hoofd \subseteq d.ves /\ d.vesEnd \subseteq d.ves /\ d.mac \cap d.ves = {}
    /\ \A v, w \in d.hoofd : d.of[v] = d.of[w] => v = w
    /\ d.adr \subseteq {"bezoek", "post"} \X (d.mac \cup d.ves)
    /\ DOMAIN d.plaats = d.adr
    /\ d.hdn \subseteq d.ond \X Nat /\ d.veshdn \subseteq d.ves \X d.hdn
    /\ d.com \subseteq (d.mac \cup d.ves) \X (1..3) /\ d.act \subseteq d.ves \X (0..3)
    /\ d.nat \subseteq d.prs /\ d.ash \subseteq d.prs \X d.prs
    /\ DOMAIN d.eig = d.mac

ASSUME HrAssumption == MaxRuns \in Nat \ {0} /\ \A d \in Dumps : DumpOK(d)
-----------------------------------------------------------------------------
(* The schema: models.py *)

Entity == {"locatie", "onderneming", "mac", "handelsnaam", "com", "cvs", "ncv", "ves",
           "act", "nps", "nnp", "prs", "fvv"}

\* foreign keys and many-to-many tables, and what they refer to
Refs == [mac_ond |-> <<"mac", "onderneming">>,   mac_adr |-> <<"mac", "locatie">>,
         mac_hoofd |-> <<"mac", "ves">>,         mac_eig |-> <<"mac", "prs">>,
         ond_hdn |-> <<"onderneming", "handelsnaam">>, mac_com |-> <<"mac", "com">>,
         ves_mac |-> <<"ves", "mac">>,           ves_adr |-> <<"ves", "locatie">>,
         ves_cvs |-> <<"ves", "cvs">>,           ves_ncv |-> <<"ves", "ncv">>,
         ves_com |-> <<"ves", "com">>,           ves_act |-> <<"ves", "act">>,
         ves_hdn |-> <<"ves", "handelsnaam">>,   prs_nps |-> <<"prs", "nps">>,
         prs_nnp |-> <<"prs", "nnp">>,           fvv_prs |-> <<"fvv", "prs">>]

Relation == DOMAIN Refs

\* plain columns: an end date, and the owner whose person is not in the dump
Column == {"ves_end", "mac_mks"}
Table  == Entity \cup Relation \cup Column

\* the constraints, which are checked at the end of a statement
Consistent(t) == \A r \in Relation : t[r] \subseteq t[Refs[r][1]] \X t[Refs[r][2]]

\* the rows `gone` of entity e are deleted, and with them the pairs they are in:
\* on_delete SET_NULL, and the rows of the many-to-many tables
Without(t, e, gone) ==
    [x \in Table |->
       CASE x = e -> t[x] \ gone
         [] x \in Relation -> {p \in t[x] : /\ Refs[x][1] = e => p[1] \notin gone
                                            /\ Refs[x][2] = e => p[2] \notin gone}
         [] x = "ves_end" /\ e = "ves" -> t[x] \ gone
         [] x = "mac_mks" /\ e = "mac" -> t[x] \ gone
         [] OTHER -> t[x]]

\* mutant: on_delete SET_NULL
WithoutMacLinks(t, gone) == Without(t, "mac", gone)

\* deletes a mac and leaves the vestigingen that refer to it: on_delete DO_NOTHING
WithoutMac(t, gone) == [Without(t, "mac", gone) EXCEPT !["ves_mac"] = t["ves_mac"]]

Empty == [x \in Table |-> {}]
-----------------------------------------------------------------------------
(* What the INSERT statements add, from the dump *)

Adr(S) == {<<a[2], a>> : a \in {b \in dump.adr : b[2] \in S}}
OfType(y) == {v \in dump.ves : dump.typ[v] = y}
Pairs(S) == {<<x, x>> : x \in S}
ComRows(S, i) == {c \in dump.com : c[1] \in S /\ c[2] = i}
ActRows(i) == {a \in dump.act : a[2] = i}
Of(S) == {<<x[1], x>> : x \in S}

Rows(s) ==
    LET nnp == dump.prs \ dump.nat IN
    CASE s = "locatie"     -> [locatie |-> dump.adr]
      [] s = "onderneming" -> [onderneming |-> dump.ond]
      [] s = "mac"         -> [mac |-> dump.mac, mac_ond |-> Pairs(dump.ond),
                               mac_adr |-> Adr(dump.mac)]
      [] s = "handelsnaam" -> [handelsnaam |-> dump.hdn]
      [] s = "ond_hdn"     -> [ond_hdn |-> Of(dump.hdn)]
      [] s = "cvs"         -> [cvs |-> OfType("CVS")]
      [] s = "ncv"         -> [ncv |-> OfType("NCV")]
      [] s = "ves"         -> [ves |-> dump.ves, ves_end |-> dump.vesEnd,
                               ves_mac |-> {<<v, dump.of[v]>> : v \in dump.ves},
                               ves_cvs |-> Pairs(OfType("CVS")),
                               ves_ncv |-> Pairs(OfType("NCV")),
                               ves_adr |-> Adr(dump.ves)]
      [] s = "ves_hdn"     -> [ves_hdn |-> {p \in dump.veshdn : p[1] \in tab["ves"]}]
      [] s = "nps"         -> [nps |-> dump.nat]
      [] s = "nnp"         -> [nnp |-> nnp]
      [] s = "prs"         -> [prs |-> dump.prs, prs_nps |-> Pairs(dump.nat),
                               prs_nnp |-> Pairs(nnp)]
      [] s = "fvv"         -> [fvv |-> dump.ash, fvv_prs |-> {<<a, a[i]>> :
                                 a \in dump.ash, i \in {1, 2}}]

\* the statements that are made once for every number
RowsOf(s, i) ==
    CASE s = "mac_com" -> [com |-> ComRows(dump.mac, i)]
      [] s = "mac_com_of" -> [mac_com |-> Of(ComRows(dump.mac, i))]
      [] s = "ves_com" -> [com |-> ComRows(dump.ves, i)]
      [] s = "ves_com_of" -> [ves_com |-> Of(ComRows(dump.ves, i))]
      [] s = "act" -> [act |-> ActRows(i)]
      [] s = "ves_act" -> [ves_act |-> Of(ActRows(i))]

Ins(s)     == [op |-> "insert", on |-> s, i |-> -1]
Num(s, i)  == [op |-> "insert", on |-> s, i |-> i]
Del(s)     == [op |-> "delete", on |-> s, i |-> -1]
Upd(s)     == [op |-> "update", on |-> s, i |-> -1]
Thrice(s, r) == <<Num(s, 1), Num(r, 1), Num(s, 2), Num(r, 2), Num(s, 3), Num(r, 3)>>

\* mutant: the handelsnamen are not deleted first
HandelsnamenKept == <<Ins("handelsnaam"), Ins("ond_hdn")>>

\* _converteer_handelsnaam
Handelsnamen == <<Del("handelsnaam"), Ins("handelsnaam"), Ins("ond_hdn")>>

\* sql_steps
Steps ==
    <<Del("locatie"), Ins("locatie"), Del("onderneming"), Ins("onderneming"), Ins("mac")>>
    \o Handelsnamen \o Thrice("mac_com", "mac_com_of")
    \o <<Ins("cvs"), Ins("ncv"), Ins("ves"), Upd("ves_end")>>
    \o Thrice("ves_com", "ves_com_of")
    \o <<Num("act", 0), Num("ves_act", 0)>> \o Thrice("act", "ves_act")
    \o <<Ins("ves_hdn"), Upd("mac_hoofd"), Ins("nps"), Ins("nnp"), Ins("prs"), Ins("fvv"),
         Upd("mac_eig"), Upd("mac_mks"), Del("outside")>>
-----------------------------------------------------------------------------
Init == /\ dump \in Dumps /\ tab = Empty /\ start = Empty
        /\ pc = 0 /\ run = "idle" /\ runs = 0

Start == /\ run # "running" /\ runs < MaxRuns
         /\ run' = "running" /\ runs' = runs + 1 /\ pc' = 1 /\ start' = tab
         /\ UNCHANGED <<dump, tab>>

At(op) == run = "running" /\ pc <= Len(Steps) /\ Steps[pc].op = op

\* mutant: no constraints
CommitAnyway(t) == tab' = t /\ pc' = pc + 1 /\ UNCHANGED run

\* the statement is committed, if the constraints allow it
Commit(t) == IF Consistent(t)
             THEN tab' = t /\ pc' = pc + 1 /\ UNCHANGED run
             ELSE run' = "raised" /\ UNCHANGED <<tab, pc>>

Insert ==
    /\ At("insert")
    /\ LET s == Steps[pc]
           new == IF s.i = -1 THEN Rows(s.on) ELSE RowsOf(s.on, s.i) IN
       IF \E x \in DOMAIN new : new[x] \cap tab[x] # {}
       THEN run' = "raised" /\ UNCHANGED <<tab, pc>>
       ELSE Commit([x \in Table |-> IF x \in DOMAIN new THEN tab[x] \cup new[x] ELSE tab[x]])
    /\ UNCHANGED <<dump, runs, start>>

\* _update_vestiging_datum_einde: a vestiging ends with its mac
EndDates == tab["ves_end"] \cup {v \in tab["ves"] : \E p \in tab["ves_mac"] :
                                   p[1] = v /\ p[2] \in dump.macEnd}

\* UPDATE: end dates, hoofdvestigingen, owners, and owners that are not known
Update ==
    /\ At("update")
    /\ LET c == Steps[pc].on IN
       Commit([tab EXCEPT ![c] =
         CASE c = "ves_end" -> EndDates
           [] c = "mac_hoofd" -> {<<dump.of[v], v>> : v \in dump.hoofd \cap tab["ves"]}
           [] c = "mac_eig" -> {<<m, dump.eig[m]>> : m \in
                                  {n \in dump.mac : dump.eig[n] \in tab["prs"]}}
           [] c = "mac_mks" -> {m \in dump.mac : dump.eig[m] \notin tab["prs"]}])
    /\ UNCHANGED <<dump, runs, start>>

\* mutant: the adres for post counts as well
OutsidePost(t) == {v \in t["ves"] : ~\E k \in {"bezoek", "post"} :
    <<v, <<k, v>>>> \in t["ves_adr"] /\ dump.plaats[<<k, v>>] \in AMSTERDAM_PLAATSEN}

\* a vestiging stays when its bezoekadres ends with one of the plaatsen
Outside(t) == {v \in t["ves"] : ~(/\ <<v, <<"bezoek", v>>>> \in t["ves_adr"]
                                  /\ dump.plaats[<<"bezoek", v>>] \in AMSTERDAM_PLAATSEN)}

\* Model.objects.all().delete(), and that of the vestigingen outside of Amsterdam
Delete ==
    /\ At("delete")
    /\ LET e == Steps[pc].on IN
       Commit(CASE e = "outside" -> Without(tab, "ves", Outside(tab))
                [] e = "onderneming" ->  \* cascades to the mac
                     WithoutMac(Without(tab, e, tab[e]), {p[1] : p \in tab["mac_ond"]})
                [] OTHER -> Without(tab, e, tab[e]))
    /\ UNCHANGED <<dump, runs, start>>

Finish == /\ run = "running" /\ pc > Len(Steps) /\ run' = "done"
          /\ UNCHANGED <<dump, tab, pc, runs, start>>

Kill == /\ run = "running" /\ run' = "killed"
        /\ UNCHANGED <<dump, tab, pc, runs, start>>

Next == Start \/ Insert \/ Update \/ Delete \/ Finish \/ Kill

Spec == Init /\ [][Next]_vars
-----------------------------------------------------------------------------
(* Properties *)

\* Every variable stays in its range, and a link has both of its ends.
TypeOK == /\ DOMAIN tab = Table /\ DOMAIN start = Table /\ dump \in Dumps
          /\ Consistent(tab)
          /\ pc \in 0..(Len(Steps) + 1) /\ runs \in 0..MaxRuns
          /\ run \in {"idle", "running", "done", "raised", "killed"}
          /\ tab["mac"] \subseteq dump.mac /\ tab["ves"] \subseteq dump.ves
          /\ tab["locatie"] \subseteq dump.adr

Stays(v) == <<"bezoek", v>> \in dump.adr /\ dump.plaats[<<"bezoek", v>>] \in AMSTERDAM_PLAATSEN
StaysSet == {v \in dump.ves : Stays(v)}
OfStaying(S) == {<<x[1], x>> : x \in {y \in S : y[1] \in StaysSet}}

\* What a run that ends well leaves is a function of the dump, whatever runs were
\* killed or failed before it: no row is lost, doubled or left over, addresses and
\* owners are filled, and the hoofdvestiging of a mac is never one that is gone.
DoneExact ==
    run = "done" =>
      /\ tab["locatie"] = dump.adr /\ tab["mac"] = dump.mac /\ tab["onderneming"] = dump.ond
      /\ tab["ves"] = StaysSet
      /\ tab["mac_adr"] = Adr(dump.mac) /\ tab["ves_adr"] = Adr(StaysSet)
      /\ tab["ves_end"] = {v \in StaysSet : v \in dump.vesEnd \/ dump.of[v] \in dump.macEnd}
      /\ tab["mac_hoofd"] = {<<dump.of[v], v>> : v \in dump.hoofd \cap StaysSet}
      /\ tab["handelsnaam"] = dump.hdn /\ tab["ond_hdn"] = Of(dump.hdn)
      /\ tab["ves_hdn"] = {p \in dump.veshdn : p[1] \in StaysSet}
      /\ tab["ves_act"] = OfStaying(dump.act)
      /\ tab["ves_com"] = OfStaying({c \in dump.com : c[1] \in dump.ves})
      /\ tab["mac_eig"] = {<<m, dump.eig[m]>> : m \in {n \in dump.mac : dump.eig[n] \in dump.prs}}

\* tables the statements only add to
AddedTo == Entity \ {"locatie", "onderneming", "mac", "handelsnaam"}

\* nothing is in the way of a run that starts on t
Passable(t) == t["mac"] \subseteq dump.ond /\ \A e \in AddedTo : t[e] = {}

\* A run ends well exactly when it is free to: one that was killed before its first
\* row of a table that is only added to can be run again, and does; any later one
\* cannot, and the database then refuses to mix two imports (191-193, 246-248, 307).
EndsWellIffPassable ==
    /\ run = "done" => Passable(start)
    /\ run = "raised" => ~Passable(start)

\* A run that begins on tables with vestigingen never ends well, and it takes the
\* addresses with it: its first statement, which deletes the locations, sets those of
\* every inscription to null (193), and it is refused before it has made new ones;
\* the locations of the dump are back by then, so that nothing shows it but the links.
RerunOrphans ==
    run # "idle" /\ start["ves"] # {} =>
      /\ run # "done"
      /\ pc > 1 => tab["mac_adr"] = {} /\ tab["ves_adr"] = {}
      /\ run = "raised" => pc > 1 /\ tab["locatie"] = dump.adr
-----------------------------------------------------------------------------
(* What a comment of the code says, and the code does not do *)

\* 124: "Delete all vestigingen outside of given plaatsen": those in one of the
\* plaatsen of the list stay, also in the three that a missing comma glues together.
GivenPlaatsen == AMSTERDAM_PLAATSEN \cup {"amsterdam-duivendrecht", "amsterdam zuidoost",
                                          "beverwijk"}

InGivenPlaatsStays ==
    run = "done" => \A v \in dump.ves :
       <<"bezoek", v>> \in dump.adr /\ dump.plaats[<<"bezoek", v>>] \in GivenPlaatsen
       => v \in tab["ves"]
=============================================================================
