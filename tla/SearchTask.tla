------------------------------ MODULE SearchTask ------------------------------
(***************************************************************************)
(* One SearchTask of improve_location_with_search.py, from the arguments   *)
(* create_search_for_addr gives it to the identifications it saves: every  *)
(* request to the search api, in order, each with its attempts.            *)
(*                                                                         *)
(* The api knows the addresses of the BAG.  It answers with addresses in   *)
(* no particular order, of which the code takes the first that fits: any   *)
(* of those that fit.                                                      *)
(***************************************************************************)
EXTENDS AddressParsing

CONSTANTS
    Written,   \* adressen that can be in hr_locatie, as words
    Addresses, \* addresses the BAG can have: street, number, suffix, postcode,
               \* the object they are of and whether they are its hoofdadres
    MaxBag,    \* bound on the addresses the BAG has in one behaviour
    Pointless, \* objects whose details hold no point
    RETRIES,   \* attempts for every request
    NOID       \* no object or no number

VARIABLES
    task,   \* what the search was made from, see SearchData
    bag,    \* the addresses the BAG has
    req,    \* the request that is out, or how the search ended
    i,      \* place in task.nummers
    tries,  \* attempts of the request that have failed
    num,    \* the hit, or NOID
    level,  \* correctie_level of the hit
    vbid, numid, \* what was saved: an object and an address, or NOID
    lost,   \* history: the searches without an answer, of those the BAG has an address for
    via     \* history: the request that gave the hit

vars == <<task, bag, req, i, tries, num, level, vbid, numid, lost, via>>

STRAATLEVEL   == 0
POSTCODELEVEL == 200
P6LEVEL       == 1000

Variants(words) == {alternative_qs(words)[k] :
                        k \in {j \in DOMAIN Kinds(words) : Kinds(words)[j] = "task"}}

TaskData == {SearchData(v) : v \in UNION {Variants(w) : w \in Written}}

Vbo == {a.obj : a \in Addresses} \ {NOID}

\* What the parsing gives: at most one number besides the written one and its
\* neighbours; the suffix as it was written, then with spaces in it.  An adres whose
\* suffix has more than 125 options, and so some 100 characters, would take the level
\* of a hit by street into that of the hits by postcode.
ASSUME TaskAssumption ==
    /\ RETRIES \in Nat \ {0} /\ NOID \notin Addresses
    /\ \A t \in TaskData :
          /\ t.nummers \in Seq(Int) /\ Len(t.nummers) \in 1..8
          /\ \E n \in 1..125 : DOMAIN t.toevoegingen = 1..n
          /\ Text(t.toevoegingen[1]) = t.toevoegingen[1]
          /\ \/ Spaced(t.toevoegingen[1]) = t.toevoegingen[1]
             \/ /\ 2 \in DOMAIN t.toevoegingen
                /\ Text(t.toevoegingen[2]) = Spaced(t.toevoegingen[1])

Ended == req \in {"saved", "notfound", "gaveup"}

Init == /\ task \in TaskData
        /\ bag \in {B \in SUBSET Addresses : Cardinality(B) <= MaxBag}
        /\ req = "straat" /\ i = 1 /\ tries = 0
        /\ num = NOID /\ level = 0 /\ vbid = NOID /\ numid = NOID
        /\ lost = {} /\ via = "none"
-----------------------------------------------------------------------------
(* What the BAG has for a search: the street or the postcode at a number, or  *)
(* the postcode alone                                                      *)

nummer == task.nummers[i]

At(j) == {a \in bag : a.straat = task.straat /\ a.nr = task.nummers[j]}

\* get_q falls back on the street when there is no postcode
AtPostcode(j) ==
    IF task.postcode = NONE THEN At(j)
    ELSE {a \in bag : a.pc = task.postcode /\ a.nr = task.nummers[j]}

AtP6 == {a \in bag : a.pc = task.postcode}

Asked == CASE req = "straat" -> At(i) [] req = "postcode" -> AtPostcode(i)
           [] req = "p6" -> AtP6 [] OTHER -> {}
-----------------------------------------------------------------------------
(* get_response: an attempt fails, the answer comes, or the last attempt fails *)

NoAnswer == {}

\* What get_response can return where the api has one of these answers: that, or
\* nothing, when this is the last attempt
Returns(answers) ==
    {[data |-> a, lost |-> FALSE] : a \in answers}
    \cup IF tries = RETRIES - 1 THEN {[data |-> NoAnswer, lost |-> TRUE]} ELSE {}

AttemptFails ==
    /\ ~Ended /\ tries < RETRIES - 1
    /\ tries' = tries + 1
    /\ UNCHANGED <<task, bag, req, i, num, level, vbid, numid, lost, via>>

Go(r, next) ==
    /\ req' = next /\ tries' = 0
    /\ lost' = IF r.lost /\ Asked # {} THEN lost \cup {<<req, i>>} ELSE lost
-----------------------------------------------------------------------------
(* get_search_response: the hits for a number, by street and then by postcode *)

\* Nothing is said of what else the api answers with, except that all of it has the
\* number, since get_hits drops the rest
Answers(exact) == {S \in SUBSET {a \in bag : a.nr = nummer} : exact \subseteq S}

\* mutant: hits in other streets are kept
KeepAll(hits) == hits

\* hits in the street itself trump the others
filter_hits(hits) ==
    LET same == {h \in hits : h.straat = task.straat}
    IN IF same = {} THEN hits ELSE same

Exact(hits, k)  == {h \in hits : h.toev = Text(task.toevoegingen[k])}
Starts(hits, k) == {h \in hits : IsPrefix(Text(task.toevoegingen[k]), h.toev)}

\* the first of the options for which there is a hit, 0 if there is none
FirstOption(options) == IF options = {} THEN 0 ELSE Min(options)
FirstExact(hits)  == FirstOption({k \in DOMAIN task.toevoegingen : Exact(hits, k) # {}})
FirstStart(hits)  == FirstOption({k \in DOMAIN task.toevoegingen : Starts(hits, k) # {}})

\* mutant: only beginnings are compared
LookLoosely(hits) ==
    LET k == FirstStart(filter_hits(hits))
    IN {[ti |-> k + 4, hit |-> h] : h \in Starts(filter_hits(hits), k)}

\* The empty option is a beginning of every hit, so that something always matches
look_in_hits(hits) ==
    LET same  == filter_hits(hits)
        exact == FirstExact(same)
        start == FirstStart(same)
    IN IF exact > 0
       THEN {[ti |-> exact - 1, hit |-> h] : h \in Exact(same, exact)}
       ELSE {[ti |-> start - 1 + 5, hit |-> h] : h \in Starts(same, start)}

Found(hits, base) ==
    \E m \in look_in_hits(hits) :
       /\ num' = m.hit /\ via' = req
       /\ level' = (i - 1) * 10 + base + m.ti
       /\ UNCHANGED <<task, bag, i, vbid, numid>>

\* by street: without a hit, the same number is tried by postcode
StraatAnswer ==
    /\ req = "straat"
    /\ \E r \in Returns(Answers(At(i))) :
          \/ /\ r.data # {}
             /\ Found(r.data, STRAATLEVEL) /\ Go(r, "num")
          \/ /\ r.data = {} /\ Go(r, "postcode")
             /\ UNCHANGED <<task, bag, i, num, level, vbid, numid, via>>

\* mutant: one past the last number
LastNummerOffByOne == i = Len(task.nummers) + 1
LastNummer == i = Len(task.nummers)

\* mutant: a hit by postcode counts as one by street
NoPostcodeLevel == STRAATLEVEL
PostcodeBase == POSTCODELEVEL

PostcodeAnswer ==
    /\ req = "postcode"
    /\ \E r \in Returns(Answers(AtPostcode(i))) :
          \/ /\ r.data # {}
             /\ Found(r.data, PostcodeBase) /\ Go(r, "num")
          \/ /\ r.data = {} /\ ~LastNummer
             /\ i' = i + 1 /\ Go(r, "straat")
             /\ UNCHANGED <<task, bag, num, level, vbid, numid, via>>
          \/ /\ r.data = {} /\ LastNummer
             /\ Go(r, IF task.postcode = NONE THEN "notfound" ELSE "p6")
             /\ UNCHANGED <<task, bag, i, num, level, vbid, numid, via>>

\* find_postcode_hit: any address with the postcode
P6Answer ==
    /\ req = "p6"
    /\ \E r \in Returns({AtP6}) :
          \/ /\ \E h \in r.data : num' = h
             /\ via' = req /\ level' = (i - 1) * 10 + P6LEVEL
             /\ Go(r, "num")
             /\ UNCHANGED <<task, bag, i, vbid, numid>>
          \/ /\ r.data = {} /\ Go(r, "notfound")
             /\ UNCHANGED <<task, bag, i, num, level, vbid, numid, via>>
-----------------------------------------------------------------------------
(* get_details_for_vbo, and save_corrected_geo_infomation of what it finds *)

kept == <<task, bag, i, num, level, via>>

\* details of the hit: without an answer, or an object in it, bag_id is missing
NumAnswer ==
    /\ req = "num"
    /\ \E r \in Returns({{num.obj} \ {NOID}}) :
          Go(r, IF r.data = {} THEN "gaveup" ELSE "vbo")
    /\ UNCHANGED <<vbid, numid>> /\ UNCHANGED kept

\* Texts begin alike: "nes 3" is the beginning of "nes 33-H" too.  The number is
\* the one that was written, also where a neighbour was found
DigitsBegin(n, m) == \E k \in 0..5 : m \div 10^k = n
StreetNumber(a) == a.straat = task.straat /\ DigitsBegin(task.nummers[1], a.nr)

\* mutant: the addresses of the postcode
AddressesNear(v) == {a \in bag : a.pc = num.pc}
AddressesOf(v) == {a \in bag : a.obj = v}
Hoofdadres(v)  == {a \in AddressesOf(v) : a.hoofd}

Save(v, n) == vbid' = v /\ numid' = n

\* details of the object: its hoofdadres, if it is the one that was written
VboAnswer ==
    /\ req = "vbo"
    /\ \E r \in Returns({{num.obj}}) :
          IF r.lost \/ num.obj \in Pointless
          THEN Go(r, "gaveup") /\ UNCHANGED <<vbid, numid>>
          ELSE \/ \E a \in Hoofdadres(num.obj) :
                     StreetNumber(a) /\ Save(num.obj, a) /\ Go(r, "saved")
               \/ /\ \A a \in Hoofdadres(num.obj) : ~StreetNumber(a)
                  /\ Go(r, "adressen") /\ UNCHANGED <<vbid, numid>>
    /\ UNCHANGED kept

\* its other addresses: the one that was written, or else the first
Number(found) ==
    LET same == {a \in found : StreetNumber(a)}
    IN IF found = {} THEN {NOID} ELSE IF same = {} THEN found ELSE same

AdressenAnswer ==
    /\ req = "adressen"
    /\ \E r \in Returns({AddressesOf(num.obj)}) :
          /\ \E n \in Number(r.data) : Save(num.obj, n)
          /\ Go(r, "saved")
    /\ UNCHANGED kept

Done == Ended /\ UNCHANGED vars

Step == \/ AttemptFails \/ StraatAnswer \/ PostcodeAnswer \/ P6Answer
        \/ NumAnswer \/ VboAnswer \/ AdressenAnswer

Next == Step \/ Done

\* a request has a timeout of 5 s to connect and of 27 s to answer
Spec == Init /\ [][Next]_vars /\ WF_vars(Step)
-----------------------------------------------------------------------------
(* Properties *)

Searching == {"straat", "postcode", "p6"}
Detailing == {"num", "vbo", "adressen"}

\* Every variable stays in its range; there is a hit exactly from the search on.
TypeOK ==
    /\ task.nummers \in Seq(Int) /\ bag \subseteq Addresses
    /\ req \in Searching \cup Detailing \cup {"saved", "notfound", "gaveup"}
    /\ i \in DOMAIN task.nummers /\ tries \in 0..(RETRIES - 1)
    /\ num \in bag \cup {NOID} /\ level \in Nat
    /\ num # NOID <=> req \in Detailing \cup {"saved", "gaveup"}
    /\ vbid \in Vbo \cup {NOID} /\ numid \in bag \cup {NOID}
    /\ lost \subseteq Searching \X DOMAIN task.nummers
    /\ via \in Searching \cup {"none"}

\* A request without an answer counts as one without hits (297, 314): it hides what it
\* asked for and nothing else.  For every other request for which the BAG has an address,
\* the search does not say "not found", and it goes no further than that number: the hit
\* has it or an earlier one, and is in the street if it was there to be found (487-531).
\* Neither a hit in another street nor a later number gets in between.
NearestFound ==
    /\ \A j \in DOMAIN task.nummers :
          /\ At(j) # {} /\ <<"straat", j>> \notin lost =>
                /\ req # "notfound"
                /\ num # NOID => \E k \in 1..j : /\ num.nr = task.nummers[k]
                                                 /\ k = j => num.straat = task.straat
          /\ AtPostcode(j) # {} /\ <<"postcode", j>> \notin lost =>
                /\ req # "notfound"
                /\ num # NOID => \E k \in 1..j : num.nr = task.nummers[k]
    /\ task.postcode # NONE /\ AtP6 # {} /\ <<"p6", Len(task.nummers)>> \notin lost => req # "notfound"

\* A search of which the first request was answered finds an address with the written
\* street, number and suffix when the BAG has one, whatever neighbours, other streets and
\* longer suffixes the api also answers with, and whatever else fails (432-460).
WrittenFound ==
    LET suffix == task.toevoegingen[1]
        same   == {a \in At(1) : a.toev \in {suffix, Spaced(suffix)}}
    IN <<"straat", 1>> \notin lost /\ num # NOID /\ same # {} => num \in same

\* The level that is saved with a correction tells which search gave it: below 200 by
\* street, below 1000 by postcode and number, from 1000 on by postcode alone (51-53,
\* 496-531); the numbers tried and the options of the suffix never add up to 200.
LevelTells ==
    num # NOID => /\ via = "straat"   <=> level < POSTCODELEVEL
                  /\ via = "p6"       <=> level >= P6LEVEL

\* The search of a worker is what LocationSearch takes it for: it ends, as saved, not
\* found or given up, and a number that is saved is one of the object that is saved.
AbsPhase == CASE req \in Searching -> "search" [] req \in Detailing -> "details"
              [] OTHER -> req
Abs == INSTANCE SearchAbs WITH
          phase <- AbsPhase, numid <- IF numid = NOID THEN NOID ELSE numid.obj
Implements == Abs!Spec
=============================================================================
