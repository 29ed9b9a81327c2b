--------------------------- MODULE SearchTaskProofs ---------------------------
(***************************************************************************)
(* Theorems about SearchTask, for every set of written adressen and of     *)
(* addresses, every answer of the api and every number of attempts.        *)
(***************************************************************************)
EXTENDS SearchTask, TLAPS, FiniteSetTheorems, WellFoundedInduction, SequenceTheorems

LEMMA SmallestNumber ==
    ASSUME NEW T, T \subseteq Nat, T # {}
    PROVE  Min(T) \in T /\ \A y \in T : Min(T) <= y
<1>1. PICK x \in T : \A y \in T : ~ (<<y, x>> \in OpToRel(<, Nat))
    BY NatLessThanWellFounded, WFMin
<1>2. \A y \in T : ~ (y < x)
    BY <1>1 DEF OpToRel
<1>3. \A y \in T : x <= y
    BY <1>2, SMT
<1> QED
    BY <1>3 DEF Min

\* The search is of a written adres, over addresses of the BAG.
TaskInv == task \in TaskData /\ bag \subseteq Addresses

\* What of the parsing the rest relies on.
LEMMA TaskFacts ==
    ASSUME TaskInv
    PROVE  /\ task.nummers \in Seq(Int) /\ Len(task.nummers) \in 1..8
           /\ DOMAIN task.nummers = 1..Len(task.nummers)
           /\ \E n \in 1..125 : DOMAIN task.toevoegingen = 1..n
<1>1. task \in TaskData
    BY DEF TaskInv
<1>2. /\ task.nummers \in Seq(Int) /\ Len(task.nummers) \in 1..8
      /\ \E n \in 1..125 : DOMAIN task.toevoegingen = 1..n
    BY <1>1, TaskAssumption
<1> QED
    BY <1>2, LenProperties

-----------------------------------------------------------------------------
(* The hit *)

LEMMA FirstOptionFacts ==
    ASSUME TaskInv, NEW S, S \subseteq DOMAIN task.toevoegingen
    PROVE  /\ FirstOption(S) \in 0..125
           /\ S # {} => FirstOption(S) \in S /\ \A k \in S : FirstOption(S) <= k
           /\ S = {} => FirstOption(S) = 0
<1>1. PICK n \in 1..125 : DOMAIN task.toevoegingen = 1..n
    BY TaskFacts
<1>2. S \subseteq 1..125 /\ S \subseteq Nat
    <2>1. \A k \in 1..n : k \in 1..125 /\ k \in Nat
        OBVIOUS
    <2> QED
        BY <1>1, <2>1
<1>3. CASE S = {}
    BY <1>3 DEF FirstOption
<1>4. CASE S # {}
    BY <1>2, <1>4, SmallestNumber DEF FirstOption
<1> QED
    BY <1>3, <1>4

\* A hit is one of the answers, in the street itself if any answer is, and its place
\* in the options is below 130.
LEMMA HitFacts ==
    ASSUME TaskInv, NEW hits, NEW m \in look_in_hits(hits)
    PROVE  /\ m.hit \in hits /\ m.ti \in 0..129
           /\ (\E h \in hits : h.straat = task.straat) => m.hit.straat = task.straat
<1> DEFINE same == filter_hits(hits)
           exact == FirstExact(same)
           start == FirstStart(same)
<1>1. exact \in 0..125 /\ start \in 0..125
    BY FirstOptionFacts DEF FirstExact, FirstStart
<1>2. /\ same \subseteq hits
      /\ (\E h \in hits : h.straat = task.straat) => \A h \in same : h.straat = task.straat
    BY DEF filter_hits
<1>3. m \in IF exact > 0 THEN {[ti |-> exact - 1, hit |-> h] : h \in Exact(same, exact)}
                         ELSE {[ti |-> start - 1 + 5, hit |-> h] : h \in Starts(same, start)}
    BY DEF look_in_hits
<1>4. m.hit \in same /\ m.ti \in 0..129
    <2> HIDE DEF same, exact, start
    <2>1. CASE exact > 0
        <3>1. PICK h \in Exact(same, exact) : m = [ti |-> exact - 1, hit |-> h]
            BY <1>3, <2>1
        <3>2. h \in same
            BY <3>1 DEF Exact
        <3> QED
            BY <3>1, <3>2, <2>1, <1>1
    <2>2. CASE ~ (exact > 0)
        <3>1. PICK h \in Starts(same, start) : m = [ti |-> start - 1 + 5, hit |-> h]
            BY <1>3, <2>2
        <3>2. h \in same
            BY <3>1 DEF Starts
        <3> QED
            BY <3>1, <3>2, <1>1
    <2> QED
        BY <2>1, <2>2
<1> QED
    BY <1>2, <1>4

suffix == task.toevoegingen[1]
AsWritten(h) == h.straat = task.straat /\ h.toev \in {suffix, Spaced(suffix)}

\* When an answer has the suffix as it was written, with or without the spaces, so has
\* the hit: these are the first options, and every exact option precedes the others.
LEMMA HitAsWritten ==
    ASSUME TaskInv, NEW hits, NEW m \in look_in_hits(hits),
           NEW h \in hits, AsWritten(h)
    PROVE  AsWritten(m.hit)
<1> DEFINE same == filter_hits(hits)
           options == {k \in DOMAIN task.toevoegingen : Exact(same, k) # {}}
           exact == FirstOption(options)
<1>1. h \in same /\ \A g \in same : g.straat = task.straat
    BY DEF filter_hits, AsWritten
<1>2. /\ Text(suffix) = suffix /\ 1 \in DOMAIN task.toevoegingen
      /\ h.toev # suffix => /\ 2 \in DOMAIN task.toevoegingen
                            /\ Text(task.toevoegingen[2]) = Spaced(suffix)
    BY TaskAssumption, TaskFacts DEF TaskInv, suffix, AsWritten
<1>3. /\ h.toev = suffix => 1 \in options
      /\ h.toev # suffix => 2 \in options
    BY <1>1, <1>2 DEF Exact, suffix, AsWritten
<1>4. /\ exact \in options /\ \A k \in options : exact <= k
      /\ exact \in 0..125
    <2>1. options \subseteq DOMAIN task.toevoegingen /\ options # {}
        BY <1>3
    <2> HIDE DEF options
    <2> QED
        BY <2>1, FirstOptionFacts
<1>5. exact \in {1, 2} /\ (exact = 2 => h.toev # suffix)
    <2>1. PICK n \in 1..125 : DOMAIN task.toevoegingen = 1..n
        BY TaskFacts
    <2>2. exact >= 1
        BY <1>4, <2>1
    <2> HIDE DEF exact, options
    <2>3. exact <= 2 /\ (h.toev = suffix => exact <= 1)
        BY <1>3, <1>4
    <2> QED
        BY <1>4, <2>2, <2>3
<1>6. exact > 0 /\ exact = FirstExact(same)
    BY <1>5 DEF FirstExact
<1>7. m \in {[ti |-> exact - 1, hit |-> g] : g \in Exact(same, exact)}
    BY <1>6 DEF look_in_hits
<1>8. PICK g \in Exact(same, exact) : m = [ti |-> exact - 1, hit |-> g]
    BY <1>7
<1>9. m.hit \in same /\ m.hit.toev = Text(task.toevoegingen[exact])
    BY <1>8 DEF Exact
<1> QED
    BY <1>1, <1>2, <1>5, <1>9 DEF AsWritten, suffix

\* The answer is one the api can give, or it is lost.
LEMMA ReturnFacts ==
    ASSUME NEW answers, NEW r \in Returns(answers)
    PROVE  \/ r.lost = FALSE /\ r.data \in answers
           \/ r.lost = TRUE /\ r.data = {}
BY DEF Returns, NoAnswer

-----------------------------------------------------------------------------
(* Types *)

\* Details are asked of an object only.
IInv == TypeOK /\ TaskInv /\ (req \in {"vbo", "adressen"} => num.obj \in Vbo)

OfNummer == {a \in bag : a.nr = nummer}

LEMMA FoundFacts ==
    ASSUME IInv, NEW hits, hits \subseteq OfNummer, NEW base \in {0, 200}, Found(hits, base)
    PROVE  /\ num' \in hits /\ via' = req
           /\ level' \in Nat /\ base <= level' /\ level' < base + 200
           /\ (\E h \in hits : h.straat = task.straat) => num'.straat = task.straat
           /\ (\E h \in hits : AsWritten(h)) => AsWritten(num')
           /\ UNCHANGED <<task, bag, i, vbid, numid>>
<1>1. PICK m \in look_in_hits(hits) :
          /\ num' = m.hit /\ via' = req
          /\ level' = (i - 1) * 10 + base + m.ti
          /\ UNCHANGED <<task, bag, i, vbid, numid>>
    BY DEF Found
<1>2. TaskInv /\ i \in 1..8
    <2>1. TaskInv /\ i \in DOMAIN task.nummers
        BY DEF IInv, TypeOK
    <2> QED
        BY <2>1, TaskFacts
<1>3. /\ m.hit \in hits /\ m.ti \in 0..129
      /\ (\E h \in hits : h.straat = task.straat) => m.hit.straat = task.straat
    BY <1>2, HitFacts
<1>4. (\E h \in hits : AsWritten(h)) => AsWritten(m.hit)
    BY <1>2, HitAsWritten
<1>5. level' \in Nat /\ base <= level' /\ level' < base + 200
    BY <1>1, <1>2, <1>3
<1> QED
    BY <1>1, <1>3, <1>4, <1>5

LEMMA InitType == ASSUME Init PROVE IInv
<1>1. TaskInv
    BY DEF Init, TaskInv
<1>2. 1 \in DOMAIN task.nummers /\ task.nummers \in Seq(Int)
    BY <1>1, TaskFacts
<1>3. 0 \in 0..(RETRIES - 1)
    BY TaskAssumption
<1> QED
    BY <1>1, <1>2, <1>3 DEF Init, IInv, TypeOK, TaskInv, Searching, Detailing

\* tries is reset with every request.  A request is answered, or nothing is found where
\* the BAG has nothing, or it is among those that are lost.
LEMMA GoType ==
    ASSUME TypeOK, NEW answers, NEW r \in Returns(answers), NEW next, Go(r, next)
    PROVE  /\ req' = next /\ tries' \in 0..(RETRIES - 1)
           /\ lost' \subseteq Searching \X DOMAIN task.nummers /\ lost \subseteq lost'
           /\ req \in Detailing => lost' = lost
           /\ r.data # {} => r.data \in answers
           /\ r.data \in answers \/ Asked = {} \/ <<req, i>> \in lost'
<1>1. 0 \in 0..(RETRIES - 1)
    BY TaskAssumption
<1>2. Asked # {} => req \in Searching
    BY DEF Asked, Searching
<1>3. lost' = lost \/ (Asked # {} /\ lost' = lost \cup {<<req, i>>})
    BY DEF Go
<1>4. req \in Detailing => req \notin Searching
    BY DEF Detailing, Searching
<1>5. lost' \subseteq Searching \X DOMAIN task.nummers
    BY <1>2, <1>3 DEF TypeOK
<1>6. r.data \in answers \/ Asked = {} \/ <<req, i>> \in lost'
    BY ReturnFacts DEF Go
<1> QED
    BY <1>1, <1>2, <1>3, <1>4, <1>5, <1>6, ReturnFacts DEF Go

LEMMA StraatType == ASSUME IInv, StraatAnswer PROVE IInv'
<1>1. PICK r \in Returns(Answers(At(i))) :
          \/ /\ r.data # {}
             /\ Found(r.data, STRAATLEVEL) /\ Go(r, "num")
          \/ /\ r.data = {} /\ Go(r, "postcode")
             /\ UNCHANGED <<task, bag, i, num, level, vbid, numid, via>>
    BY DEF StraatAnswer
<1>2. req = "straat" /\ TypeOK /\ TaskInv
    BY DEF StraatAnswer, IInv
<1>3. r.data \subseteq OfNummer
    BY ReturnFacts DEF Answers, OfNummer
<1>4. CASE Found(r.data, STRAATLEVEL) /\ Go(r, "num")
    <2>1. /\ num' \in bag /\ via' = "straat" /\ level' \in Nat
          /\ UNCHANGED <<task, bag, i, vbid, numid>>
        BY <1>2, <1>3, <1>4, FoundFacts DEF STRAATLEVEL, OfNummer
    <2>2. req' = "num" /\ tries' \in 0..(RETRIES - 1) /\ lost' \subseteq Searching \X DOMAIN task.nummers
        BY <1>2, <1>4, GoType
    <2>3. num' # NOID
        BY <1>2, <2>1, TaskAssumption DEF TaskInv
    <2> QED
        BY <1>2, <2>1, <2>2, <2>3 DEF IInv, TypeOK, TaskInv, Searching, Detailing
<1>5. CASE /\ Go(r, "postcode")
           /\ UNCHANGED <<task, bag, i, num, level, vbid, numid, via>>
    <2>1. req' = "postcode" /\ tries' \in 0..(RETRIES - 1) /\ lost' \subseteq Searching \X DOMAIN task.nummers
        BY <1>2, <1>5, GoType
    <2> QED
        BY <1>2, <1>5, <2>1 DEF IInv, TypeOK, TaskInv, Searching, Detailing
<1> QED
    BY <1>1, <1>4, <1>5

LEMMA PostcodeType == ASSUME IInv, PostcodeAnswer PROVE IInv'
<1>1. PICK r \in Returns(Answers(AtPostcode(i))) :
          \/ /\ r.data # {}
             /\ Found(r.data, PostcodeBase) /\ Go(r, "num")
          \/ /\ r.data = {} /\ ~LastNummer
             /\ i' = i + 1 /\ Go(r, "straat")
             /\ UNCHANGED <<task, bag, num, level, vbid, numid, via>>
          \/ /\ r.data = {} /\ LastNummer
             /\ Go(r, IF task.postcode = NONE THEN "notfound" ELSE "p6")
             /\ UNCHANGED <<task, bag, i, num, level, vbid, numid, via>>
    BY DEF PostcodeAnswer
<1>2. req = "postcode" /\ TypeOK /\ TaskInv
    BY DEF PostcodeAnswer, IInv
<1>3. r.data \subseteq OfNummer
    BY ReturnFacts DEF Answers, OfNummer
<1>4. CASE Found(r.data, PostcodeBase) /\ Go(r, "num")
    <2>1. /\ num' \in bag /\ via' = "postcode" /\ level' \in Nat
          /\ UNCHANGED <<task, bag, i, vbid, numid>>
        BY <1>2, <1>3, <1>4, FoundFacts DEF PostcodeBase, POSTCODELEVEL, OfNummer
    <2>2. req' = "num" /\ tries' \in 0..(RETRIES - 1) /\ lost' \subseteq Searching \X DOMAIN task.nummers
        BY <1>2, <1>4, GoType
    <2>3. num' # NOID
        BY <1>2, <2>1, TaskAssumption DEF TaskInv
    <2> QED
        BY <1>2, <2>1, <2>2, <2>3 DEF IInv, TypeOK, TaskInv, Searching, Detailing
<1>5. CASE /\ ~LastNummer /\ i' = i + 1 /\ Go(r, "straat")
           /\ UNCHANGED <<task, bag, num, level, vbid, numid, via>>
    <2>1. req' = "straat" /\ tries' \in 0..(RETRIES - 1) /\ lost' \subseteq Searching \X DOMAIN task.nummers
        BY <1>2, <1>5, GoType
    <2>2. i' \in DOMAIN task.nummers
        BY <1>2, <1>5, TaskFacts DEF TypeOK, LastNummer
    <2> QED
        BY <1>2, <1>5, <2>1, <2>2 DEF IInv, TypeOK, TaskInv, Searching, Detailing
<1>6. CASE /\ Go(r, IF task.postcode = NONE THEN "notfound" ELSE "p6")
           /\ UNCHANGED <<task, bag, i, num, level, vbid, numid, via>>
    <2>1. req' \in {"notfound", "p6"} /\ tries' \in 0..(RETRIES - 1) /\ lost' \subseteq Searching \X DOMAIN task.nummers
        BY <1>2, <1>6, GoType
    <2> QED
        BY <1>2, <1>6, <2>1 DEF IInv, TypeOK, TaskInv, Searching, Detailing
<1> QED
    BY <1>1, <1>4, <1>5, <1>6

LEMMA P6Type == ASSUME IInv, P6Answer PROVE IInv'
<1>1. PICK r \in Returns({AtP6}) :
          \/ /\ \E h \in r.data : num' = h
             /\ via' = req /\ level' = (i - 1) * 10 + P6LEVEL
             /\ Go(r, "num")
             /\ UNCHANGED <<task, bag, i, vbid, numid>>
          \/ /\ r.data = {} /\ Go(r, "notfound")
             /\ UNCHANGED <<task, bag, i, num, level, vbid, numid, via>>
    BY DEF P6Answer
<1>2. req = "p6" /\ TypeOK /\ TaskInv
    BY DEF P6Answer, IInv
<1>3. r.data \subseteq bag
    BY ReturnFacts DEF AtP6
<1>4. CASE /\ \E h \in r.data : num' = h
           /\ via' = req /\ level' = (i - 1) * 10 + P6LEVEL
           /\ Go(r, "num")
           /\ UNCHANGED <<task, bag, i, vbid, numid>>
    <2>1. req' = "num" /\ tries' \in 0..(RETRIES - 1) /\ lost' \subseteq Searching \X DOMAIN task.nummers
        BY <1>2, <1>4, GoType
    <2>2. num' \in bag /\ num' # NOID
        BY <1>2, <1>3, <1>4, TaskAssumption DEF TaskInv
    <2>3. i \in 1..8
        BY <1>2, TaskFacts DEF TypeOK
    <2>4. level' \in Nat
        BY <1>4, <2>3 DEF P6LEVEL
    <2> QED
        BY <1>2, <1>4, <2>1, <2>2, <2>4 DEF IInv, TypeOK, TaskInv, Searching, Detailing
<1>5. CASE /\ Go(r, "notfound")
           /\ UNCHANGED <<task, bag, i, num, level, vbid, numid, via>>
    <2>1. req' = "notfound" /\ tries' \in 0..(RETRIES - 1) /\ lost' \subseteq Searching \X DOMAIN task.nummers
        BY <1>2, <1>5, GoType
    <2> QED
        BY <1>2, <1>5, <2>1 DEF IInv, TypeOK, TaskInv, Searching, Detailing
<1> QED
    BY <1>1, <1>4, <1>5

-----------------------------------------------------------------------------
(* The details *)

\* What is saved is the object of the hit and one of its addresses, or no address.
Saved == vbid' = num.obj /\ numid' \in AddressesOf(num.obj) \cup {NOID}

\* a request for details is answered, whatever it was
DetailsStep ==
    /\ tries' \in 0..(RETRIES - 1) /\ lost' = lost
    /\ UNCHANGED kept
    /\ \/ req' = "gaveup" /\ UNCHANGED <<vbid, numid>>
       \/ req' = "vbo" /\ num.obj # NOID /\ UNCHANGED <<vbid, numid>>
       \/ req' = "adressen" /\ req = "vbo" /\ UNCHANGED <<vbid, numid>>
       \/ req' = "saved" /\ num.obj \in Vbo /\ Saved

LEMMA NumStep == ASSUME IInv, NumAnswer PROVE DetailsStep
<1>1. PICK r \in Returns({{num.obj} \ {NOID}}) :
          Go(r, IF r.data = {} THEN "gaveup" ELSE "vbo")
    BY DEF NumAnswer
<1>2. UNCHANGED <<vbid, numid>> /\ UNCHANGED kept /\ TypeOK /\ req \in Detailing
    BY DEF NumAnswer, IInv, Detailing
<1>3. r.data # {} => num.obj # NOID
    BY ReturnFacts
<1>4. /\ req' = IF r.data = {} THEN "gaveup" ELSE "vbo"
      /\ tries' \in 0..(RETRIES - 1) /\ lost' = lost
    <2>1. CASE r.data = {}
        BY <1>1, <1>2, <2>1, GoType
    <2>2. CASE r.data # {}
        BY <1>1, <1>2, <2>2, GoType
    <2> QED
        BY <2>1, <2>2
<1> QED
    BY <1>2, <1>3, <1>4 DEF DetailsStep

LEMMA VboStep == ASSUME IInv, VboAnswer PROVE DetailsStep
<1>1. PICK r \in Returns({{num.obj}}) :
          IF r.lost \/ num.obj \in Pointless
          THEN Go(r, "gaveup") /\ UNCHANGED <<vbid, numid>>
          ELSE \/ \E a \in Hoofdadres(num.obj) :
                     StreetNumber(a) /\ Save(num.obj, a) /\ Go(r, "saved")
               \/ /\ \A a \in Hoofdadres(num.obj) : ~StreetNumber(a)
                  /\ Go(r, "adressen") /\ UNCHANGED <<vbid, numid>>
    BY DEF VboAnswer
<1>2. UNCHANGED kept /\ TypeOK /\ num.obj \in Vbo /\ req = "vbo" /\ req \in Detailing
    BY DEF VboAnswer, IInv, Detailing
<1>3. CASE Go(r, "gaveup") /\ UNCHANGED <<vbid, numid>>
    BY <1>2, <1>3, GoType DEF DetailsStep
<1>4. CASE \E a \in Hoofdadres(num.obj) : Save(num.obj, a) /\ Go(r, "saved")
    BY <1>2, <1>4, GoType DEF DetailsStep, Hoofdadres, Save, Saved
<1>5. CASE Go(r, "adressen") /\ UNCHANGED <<vbid, numid>>
    BY <1>2, <1>5, GoType DEF DetailsStep
<1> QED
    BY <1>1, <1>3, <1>4, <1>5

LEMMA AdressenStep == ASSUME IInv, AdressenAnswer PROVE DetailsStep
<1>1. PICK r \in Returns({AddressesOf(num.obj)}) :
          (\E n \in Number(r.data) : Save(num.obj, n)) /\ Go(r, "saved")
    BY DEF AdressenAnswer
<1>2. UNCHANGED kept /\ TypeOK /\ num.obj \in Vbo /\ req \in Detailing
    BY DEF AdressenAnswer, IInv, Detailing
<1>3. r.data \subseteq AddressesOf(num.obj)
    BY ReturnFacts
<1>4. Number(r.data) \subseteq AddressesOf(num.obj) \cup {NOID}
    BY <1>3 DEF Number
<1>5. Saved
    BY <1>1, <1>4 DEF Save, Saved
<1> QED
    BY <1>1, <1>2, <1>5, GoType DEF DetailsStep

LEMMA DetailsType ==
    ASSUME IInv, req \in Detailing, DetailsStep
    PROVE  IInv'
<1>1. /\ num \in bag /\ bag \subseteq Addresses
      /\ UNCHANGED <<task, bag, i, num, level, via>>
    BY DEF IInv, TypeOK, DetailsStep, kept, Detailing
<1>2. num.obj # NOID => num.obj \in Vbo
    BY <1>1 DEF Vbo
<1>3. AddressesOf(num.obj) \subseteq bag
    BY DEF AddressesOf
<1> QED
    BY <1>1, <1>2, <1>3 DEF IInv, TypeOK, TaskInv, DetailsStep, Saved, Detailing, Searching

LEMMA AttemptType == ASSUME IInv, AttemptFails PROVE IInv'
<1>1. RETRIES \in Nat
    BY TaskAssumption
<1> QED
    BY <1>1 DEF IInv, TypeOK, TaskInv, AttemptFails

LEMMA NextType == ASSUME IInv, [Next]_vars PROVE IInv'
<1>1. CASE AttemptFails
    BY <1>1, AttemptType
<1>2. CASE StraatAnswer
    BY <1>2, StraatType
<1>3. CASE PostcodeAnswer
    BY <1>3, PostcodeType
<1>4. CASE P6Answer
    BY <1>4, P6Type
<1>5. CASE NumAnswer \/ VboAnswer \/ AdressenAnswer
    <2>1. req \in Detailing
        BY <1>5 DEF NumAnswer, VboAnswer, AdressenAnswer, Detailing
    <2> QED
        BY <1>5, <2>1, NumStep, VboStep, AdressenStep, DetailsType
<1>6. CASE UNCHANGED vars
    BY <1>6 DEF vars, IInv, TypeOK, TaskInv
<1> QED
    BY <1>1, <1>2, <1>3, <1>4, <1>5, <1>6 DEF Next, Step, Done

\* Every variable stays in its range, and there is a hit exactly from the search on.
THEOREM TypeCorrect == Spec => []TypeOK
<1>1. Init => IInv
    BY InitType
<1>2. IInv /\ [Next]_vars => IInv'
    BY NextType
<1>3. IInv => TypeOK
    BY DEF IInv
<1> QED
    BY <1>1, <1>2, <1>3, PTL DEF Spec

-----------------------------------------------------------------------------
(* The search as LocationSearch sees it *)

LEMMA InitAbs == ASSUME Init PROVE Abs!Init
BY DEF Init, Abs!Init, AbsPhase, Searching, Detailing

\* Each answer is a step of the abstract search or none: requests for the same hit, or
\* for the same details, are one of its steps.
LEMMA NextAbs == ASSUME IInv, [Next]_vars PROVE [Abs!Next]_(Abs!vars)
<1> USE DEF Abs!vars, AbsPhase, Searching, Detailing
<1>1. CASE AttemptFails
    BY <1>1 DEF AttemptFails
<1>2. CASE StraatAnswer
    <2>1. /\ req = "straat" /\ req' \in {"num", "postcode"}
          /\ UNCHANGED <<vbid, numid>>
        BY <1>2 DEF StraatAnswer, Found, Go
    <2> QED
        BY <2>1 DEF Abs!Next, Abs!Hit
<1>3. CASE PostcodeAnswer
    <2>1. /\ req = "postcode" /\ req' \in {"num", "straat", "p6", "notfound"}
          /\ UNCHANGED <<vbid, numid>>
        BY <1>3 DEF PostcodeAnswer, Found, Go
    <2> QED
        BY <2>1 DEF Abs!Next, Abs!Hit, Abs!NoHit
<1>4. CASE P6Answer
    <2>1. /\ req = "p6" /\ req' \in {"num", "notfound"}
          /\ UNCHANGED <<vbid, numid>>
        BY <1>4 DEF P6Answer, Go
    <2> QED
        BY <2>1 DEF Abs!Next, Abs!Hit, Abs!NoHit
<1>5. CASE NumAnswer \/ VboAnswer \/ AdressenAnswer
    <2>1. req \in {"num", "vbo", "adressen"} /\ DetailsStep
        BY <1>5, NumStep, VboStep, AdressenStep DEF NumAnswer, VboAnswer, AdressenAnswer
    <2>2. CASE req' = "gaveup" /\ UNCHANGED <<vbid, numid>>
        BY <2>1, <2>2 DEF Abs!Next, Abs!GiveUp
    <2>3. CASE req' \in {"vbo", "adressen"} /\ UNCHANGED <<vbid, numid>>
        BY <2>1, <2>3
    <2>4. CASE req' = "saved" /\ num.obj \in Vbo /\ Saved
        <3>1. numid' # NOID => numid'.obj = vbid'
            BY <2>4 DEF Saved, AddressesOf
        <3> QED
            BY <2>1, <2>4, <3>1 DEF Abs!Next, Abs!Save, Saved
    <2> QED
        BY <2>1, <2>2, <2>3, <2>4 DEF DetailsStep
<1>6. CASE UNCHANGED vars
    BY <1>6 DEF vars
<1> QED
    BY <1>1, <1>2, <1>3, <1>4, <1>5, <1>6 DEF Next, Step, Done

\* A search is to its worker what LocationSearch takes it for: every step of it is one
\* of the abstract search, or leaves that as it is.
THEOREM TaskImplements == Spec => Abs!Safe
<1>1. Init => IInv /\ Abs!Init
    BY InitType, InitAbs
<1>2. IInv /\ [Next]_vars => IInv' /\ [Abs!Next]_(Abs!vars)
    BY NextType, NextAbs
<1> QED
    BY <1>1, <1>2, PTL DEF Spec, Abs!Safe

-----------------------------------------------------------------------------
(* What is found *)

\* A search that is passed had nothing to find, or no answer.
Missed(j)         == At(j) # {} => <<"straat", j>> \in lost
MissedPostcode(j) == AtPostcode(j) # {} => <<"postcode", j>> \in lost

Passed ==
    /\ req = "straat" => \A j \in 1..(i - 1) : Missed(j) /\ MissedPostcode(j)
    /\ req = "postcode" => /\ \A j \in 1..(i - 1) : Missed(j) /\ MissedPostcode(j)
                           /\ Missed(i)
    /\ req \in {"p6", "notfound"} =>
          \A j \in DOMAIN task.nummers : Missed(j) /\ MissedPostcode(j)
    /\ req = "p6" => i = Len(task.nummers)
    /\ req = "notfound" /\ task.postcode # NONE /\ AtP6 # {} =>
          <<"p6", Len(task.nummers)>> \in lost

\* The task and the BAG stay as they are, and what is lost stays lost.
LEMMA SameData ==
    ASSUME UNCHANGED <<task, bag>>, lost \subseteq lost'
    PROVE  /\ \A j : At(j)' = At(j) /\ AtPostcode(j)' = AtPostcode(j)
           /\ AtP6' = AtP6
           /\ \A j : Missed(j) => Missed(j)'
           /\ \A j : MissedPostcode(j) => MissedPostcode(j)'
<1>1. \A j : At(j)' = At(j)
    BY DEF At
<1>2. \A j : AtPostcode(j)' = AtPostcode(j)
    BY <1>1 DEF AtPostcode
<1>3. AtP6' = AtP6
    BY DEF AtP6
<1> QED
    BY <1>1, <1>2, <1>3 DEF Missed, MissedPostcode

LEMMA StraatPassed ==
    ASSUME IInv, Passed, StraatAnswer
    PROVE  Passed' /\ NearestFound' /\ WrittenFound'
<1>1. PICK r \in Returns(Answers(At(i))) :
          \/ /\ r.data # {}
             /\ Found(r.data, STRAATLEVEL) /\ Go(r, "num")
          \/ /\ r.data = {} /\ Go(r, "postcode")
             /\ UNCHANGED <<task, bag, i, num, level, vbid, numid, via>>
    BY DEF StraatAnswer
<1>2. /\ req = "straat" /\ TypeOK /\ TaskInv /\ i \in 1..8
      /\ DOMAIN task.nummers = 1..Len(task.nummers) /\ Len(task.nummers) \in 1..8
    BY TaskFacts DEF StraatAnswer, IInv, TypeOK
<1>3. r.data \subseteq OfNummer
    BY ReturnFacts DEF Answers, OfNummer
<1>4. \A j \in 1..(i - 1) : Missed(j) /\ MissedPostcode(j)
    BY <1>2 DEF Passed
<1>5. CASE r.data # {} /\ Found(r.data, STRAATLEVEL) /\ Go(r, "num")
    <2>1. /\ num' \in r.data /\ UNCHANGED <<task, bag, i>>
          /\ (\E h \in r.data : h.straat = task.straat) => num'.straat = task.straat
          /\ (\E h \in r.data : AsWritten(h)) => AsWritten(num')
        BY <1>3, <1>5, FoundFacts DEF STRAATLEVEL
    <2>2. req' = "num" /\ lost \subseteq lost' /\ r.data \in Answers(At(i))
        BY <1>2, <1>5, GoType
    <2>3. num'.nr = task.nummers[i] /\ num' \in bag
        BY <1>3, <2>1 DEF OfNummer, nummer
    <2>4. At(i) \subseteq r.data
        BY <2>2 DEF Answers
    <2>5. At(i) # {} => num'.straat = task.straat
        <3>1. \A h \in At(i) : h.straat = task.straat
            BY DEF At
        <3> QED
            BY <2>1, <2>4, <3>1
    <2>6. \A j \in DOMAIN task.nummers :
             /\ At(j)' # {} /\ <<"straat", j>> \notin lost' =>
                   \E k \in 1..j : /\ num'.nr = task.nummers[k]
                                   /\ k = j => num'.straat = task.straat
             /\ AtPostcode(j)' # {} /\ <<"postcode", j>> \notin lost' =>
                   \E k \in 1..j : num'.nr = task.nummers[k]
        <3> SUFFICES ASSUME NEW j \in DOMAIN task.nummers
                     PROVE  /\ At(j) # {} /\ <<"straat", j>> \notin lost =>
                                  \E k \in 1..j : /\ num'.nr = task.nummers[k]
                                                  /\ k = j => num'.straat = task.straat
                            /\ AtPostcode(j) # {} /\ <<"postcode", j>> \notin lost =>
                                  \E k \in 1..j : num'.nr = task.nummers[k]
            BY <2>1, <2>2, SameData
        <3>1. CASE j < i
            BY <1>2, <1>4, <3>1 DEF Missed, MissedPostcode
        <3>2. CASE i <= j
            BY <1>2, <2>3, <2>5, <3>2
        <3> QED
            BY <1>2, <3>1, <3>2
    <2>7. NearestFound'
        BY <2>1, <2>2, <2>6 DEF NearestFound
    <2>8. WrittenFound'
        <3> SUFFICES ASSUME <<"straat", 1>> \notin lost', NEW h \in At(1), AsWritten(h)
                     PROVE  num' \in At(1) /\ AsWritten(num')
            BY <2>1 DEF WrittenFound, AsWritten, suffix, At
        <3>1. i = 1
            BY <1>2, <1>4, <2>2 DEF Missed
        <3>2. AsWritten(num')
            BY <2>1, <2>4, <3>1
        <3> QED
            BY <2>3, <3>1, <3>2 DEF At, AsWritten
    <2> QED
        BY <2>2, <2>7, <2>8 DEF Passed
<1>6. CASE /\ r.data = {} /\ Go(r, "postcode")
           /\ UNCHANGED <<task, bag, i, num, level, vbid, numid, via>>
    <2>1. /\ req' = "postcode" /\ lost \subseteq lost'
          /\ r.data \in Answers(At(i)) \/ Asked = {} \/ <<req, i>> \in lost'
        BY <1>2, <1>6, GoType
    <2>2. At(i) # {} => <<"straat", i>> \in lost'
        BY <1>2, <1>6, <2>1 DEF Answers, Asked
    <2>3. Missed(i)' /\ \A j \in 1..(i - 1) : Missed(j)' /\ MissedPostcode(j)'
        BY <1>4, <1>6, <2>1, <2>2, SameData DEF Missed
    <2>4. num' = NOID
        BY <1>2, <1>6 DEF TypeOK, Detailing
    <2> QED
        BY <1>6, <2>1, <2>3, <2>4 DEF Passed, NearestFound, WrittenFound
<1> QED
    BY <1>1, <1>5, <1>6

LEMMA PostcodePassed ==
    ASSUME IInv, Passed, PostcodeAnswer
    PROVE  Passed' /\ NearestFound' /\ WrittenFound'
<1>1. PICK r \in Returns(Answers(AtPostcode(i))) :
          \/ /\ r.data # {}
             /\ Found(r.data, PostcodeBase) /\ Go(r, "num")
          \/ /\ r.data = {} /\ ~LastNummer
             /\ i' = i + 1 /\ Go(r, "straat")
             /\ UNCHANGED <<task, bag, num, level, vbid, numid, via>>
          \/ /\ r.data = {} /\ LastNummer
             /\ Go(r, IF task.postcode = NONE THEN "notfound" ELSE "p6")
             /\ UNCHANGED <<task, bag, i, num, level, vbid, numid, via>>
    BY DEF PostcodeAnswer
<1>2. /\ req = "postcode" /\ TypeOK /\ TaskInv /\ i \in 1..8
      /\ DOMAIN task.nummers = 1..Len(task.nummers) /\ Len(task.nummers) \in 1..8
      /\ i <= Len(task.nummers)
    BY TaskFacts DEF PostcodeAnswer, IInv, TypeOK
<1>3. r.data \subseteq OfNummer
    BY ReturnFacts DEF Answers, OfNummer
<1>4. Missed(i) /\ \A j \in 1..(i - 1) : Missed(j) /\ MissedPostcode(j)
    BY <1>2 DEF Passed
<1>5. CASE r.data # {} /\ Found(r.data, PostcodeBase) /\ Go(r, "num")
    <2>1. num' \in r.data /\ UNCHANGED <<task, bag, i>>
        BY <1>3, <1>5, FoundFacts DEF PostcodeBase, POSTCODELEVEL
    <2>2. req' = "num" /\ lost \subseteq lost'
        BY <1>2, <1>5, GoType
    <2>3. num'.nr = task.nummers[i]
        BY <1>3, <2>1 DEF OfNummer, nummer
    <2>4. \A j \in DOMAIN task.nummers :
             /\ At(j)' # {} /\ <<"straat", j>> \notin lost' =>
                   \E k \in 1..j : /\ num'.nr = task.nummers[k]
                                   /\ k = j => num'.straat = task.straat
             /\ AtPostcode(j)' # {} /\ <<"postcode", j>> \notin lost' =>
                   \E k \in 1..j : num'.nr = task.nummers[k]
        <3> SUFFICES ASSUME NEW j \in DOMAIN task.nummers
                     PROVE  /\ At(j) # {} /\ <<"straat", j>> \notin lost =>
                                  \E k \in 1..j : /\ num'.nr = task.nummers[k]
                                                  /\ k = j => num'.straat = task.straat
                            /\ AtPostcode(j) # {} /\ <<"postcode", j>> \notin lost =>
                                  \E k \in 1..j : num'.nr = task.nummers[k]
            BY <2>1, <2>2, SameData
        <3>1. CASE j < i
            BY <1>2, <1>4, <3>1 DEF Missed, MissedPostcode
        <3>2. CASE j = i
            BY <1>2, <1>4, <2>3, <3>2 DEF Missed
        <3>3. CASE i < j
            BY <1>2, <2>3, <3>3
        <3> QED
            BY <1>2, <3>1, <3>2, <3>3
    <2>5. NearestFound'
        BY <2>1, <2>2, <2>4 DEF NearestFound
    <2>6. WrittenFound'
        <3>1. Missed(1)
            BY <1>2, <1>4
        <3>2. At(1)' # {} => <<"straat", 1>> \in lost'
            BY <2>1, <2>2, <3>1, SameData DEF Missed
        <3> QED
            BY <3>2 DEF WrittenFound
    <2> QED
        BY <2>2, <2>5, <2>6 DEF Passed
<1>6. CASE r.data = {}
    <2>1. \/ Go(r, "straat") /\ i' = i + 1 /\ ~LastNummer
          \/ Go(r, "notfound") /\ i' = i /\ LastNummer /\ task.postcode = NONE
          \/ Go(r, "p6") /\ i' = i /\ LastNummer
        BY <1>1, <1>6
    <2>2. UNCHANGED <<task, bag, num>>
        BY <1>1, <1>6
    <2>3. /\ lost \subseteq lost'
          /\ r.data \in Answers(AtPostcode(i)) \/ Asked = {} \/ <<req, i>> \in lost'
        BY <1>2, <2>1, GoType
    <2>4. AtPostcode(i) # {} => <<"postcode", i>> \in lost'
        BY <1>2, <1>6, <2>3 DEF Answers, Asked
    <2>5. \A j \in 1..i : Missed(j)' /\ MissedPostcode(j)'
        <3>1. \A j \in {i} : MissedPostcode(j)'
            BY <2>2, <2>3, <2>4, SameData DEF MissedPostcode
        <3>2. /\ \A j \in {i} : Missed(j)'
              /\ \A j \in 1..(i - 1) : Missed(j)' /\ MissedPostcode(j)'
            BY <1>4, <2>2, <2>3, SameData
        <3> QED
            BY <1>2, <3>1, <3>2
    <2>6. num' = NOID
        BY <1>2, <2>2 DEF TypeOK, Detailing
    <2>7. CASE Go(r, "straat") /\ i' = i + 1
        <3>1. req' = "straat" /\ i' - 1 = i
            BY <1>2, <2>7 DEF Go
        <3> QED
            BY <2>5, <2>6, <3>1 DEF Passed, NearestFound, WrittenFound
    <2>8. CASE /\ LastNummer /\ i' = i
               /\ (Go(r, "notfound") /\ task.postcode = NONE) \/ Go(r, "p6")
        <3>1. /\ req' = "p6" \/ (req' = "notfound" /\ task'.postcode = NONE)
              /\ i' = Len(task'.nummers)
            BY <2>2, <2>8 DEF Go, LastNummer
        <3>2. \A j \in DOMAIN task'.nummers : Missed(j)' /\ MissedPostcode(j)'
            BY <1>2, <2>2, <2>5, <2>8 DEF LastNummer
        <3> QED
            BY <2>6, <3>1, <3>2 DEF Passed, NearestFound, WrittenFound, Missed, MissedPostcode
    <2> QED
        BY <2>1, <2>7, <2>8
<1> QED
    BY <1>1, <1>5, <1>6

LEMMA P6Passed ==
    ASSUME IInv, Passed, P6Answer
    PROVE  Passed' /\ NearestFound' /\ WrittenFound'
<1>1. PICK r \in Returns({AtP6}) :
          \/ r.data # {} /\ Go(r, "num")
          \/ r.data = {} /\ Go(r, "notfound")
    BY DEF P6Answer
<1>2. req = "p6" /\ TypeOK /\ UNCHANGED <<task, bag, i>> /\ i = Len(task.nummers)
    BY DEF P6Answer, IInv, Passed
<1>3. /\ req' \in {"num", "notfound"} /\ lost \subseteq lost'
      /\ req' = "notfound" /\ AtP6 # {} => <<"p6", i>> \in lost'
    <2>1. CASE r.data # {} /\ Go(r, "num")
        BY <1>2, <2>1, GoType
    <2>2. CASE r.data = {} /\ Go(r, "notfound")
        BY <1>2, <2>2, GoType DEF Asked
    <2> QED
        BY <1>1, <2>1, <2>2
<1>4. \A j \in DOMAIN task'.nummers : Missed(j)' /\ MissedPostcode(j)'
    BY <1>2, <1>3, SameData DEF Passed
<1>5. req' = "notfound" /\ AtP6' # {} => <<"p6", Len(task'.nummers)>> \in lost'
    BY <1>2, <1>3, SameData
<1>6. 1 \in DOMAIN task'.nummers
    BY <1>2, TaskFacts DEF IInv
<1> QED
    BY <1>3, <1>4, <1>5, <1>6
    DEF Passed, NearestFound, WrittenFound, Missed, MissedPostcode

LEMMA DetailsPassed ==
    ASSUME IInv, NearestFound, WrittenFound, req \in Detailing, DetailsStep
    PROVE  Passed' /\ NearestFound' /\ WrittenFound'
<1>1. /\ req' \in {"gaveup", "vbo", "adressen", "saved"}
      /\ UNCHANGED <<task, bag, i, num, level, via, lost>>
    BY DEF DetailsStep, kept
<1> QED
    BY <1>1 DEF Passed, NearestFound, WrittenFound, At, AtPostcode, AtP6

\* the invariant with what is found
HInv == IInv /\ Passed /\ NearestFound /\ WrittenFound

LEMMA InitHInv == ASSUME Init PROVE HInv
<1>1. IInv
    BY InitType
<1> QED
    BY <1>1 DEF Init, HInv, Passed, NearestFound, WrittenFound

LEMMA NextHInv == ASSUME HInv, [Next]_vars PROVE HInv'
<1>0. IInv /\ IInv'
    BY NextType DEF HInv
<1>1. CASE AttemptFails
    BY <1>0, <1>1 DEF AttemptFails, HInv, Passed, Missed, MissedPostcode, NearestFound, WrittenFound, At, AtPostcode, AtP6
<1>2. CASE StraatAnswer
    BY <1>0, <1>2, StraatPassed DEF HInv
<1>3. CASE PostcodeAnswer
    BY <1>0, <1>3, PostcodePassed DEF HInv
<1>4. CASE P6Answer
    BY <1>0, <1>4, P6Passed DEF HInv
<1>5. CASE NumAnswer \/ VboAnswer \/ AdressenAnswer
    <2>1. req \in Detailing
        BY <1>5 DEF NumAnswer, VboAnswer, AdressenAnswer, Detailing
    <2> QED
        BY <1>0, <1>5, <2>1, NumStep, VboStep, AdressenStep, DetailsPassed DEF HInv
<1>6. CASE UNCHANGED vars
    BY <1>0, <1>6 DEF vars, HInv, Passed, Missed, MissedPostcode, NearestFound, WrittenFound, At, AtPostcode, AtP6
<1> QED
    BY <1>1, <1>2, <1>3, <1>4, <1>5, <1>6 DEF Next, Step, Done

\* A request without an answer hides what it asked for and nothing else: for every other
\* one, a search does not say "not found" of an address that is there, nor goes past its
\* number, and a hit at the number is in the street itself.
THEOREM NearestIsFound == Spec => []NearestFound
<1>1. Init => HInv
    BY InitHInv
<1>2. HInv /\ [Next]_vars => HInv'
    BY NextHInv
<1>3. HInv => NearestFound
    BY DEF HInv
<1> QED
    BY <1>1, <1>2, <1>3, PTL DEF Spec

\* When its first request was answered, it finds the address as it was written, when the
\* BAG has it.
THEOREM WrittenIsFound == Spec => []WrittenFound
<1>1. Init => HInv
    BY InitHInv
<1>2. HInv /\ [Next]_vars => HInv'
    BY NextHInv
<1>3. HInv => WrittenFound
    BY DEF HInv
<1> QED
    BY <1>1, <1>2, <1>3, PTL DEF Spec

-----------------------------------------------------------------------------
(* The level *)

LEMMA LevelStep ==
    ASSUME IInv, LevelTells, [Next]_vars
    PROVE  LevelTells'
<1>0. IInv'
    BY NextType
<1>1. CASE AttemptFails
    BY <1>1 DEF AttemptFails, LevelTells
<1>2. CASE StraatAnswer
    <2>1. PICK r \in Returns(Answers(At(i))) :
              \/ Found(r.data, STRAATLEVEL)
              \/ UNCHANGED <<num, level, via>>
        BY <1>2 DEF StraatAnswer
    <2>2. r.data \subseteq OfNummer /\ req = "straat"
        BY <1>2, ReturnFacts DEF Answers, OfNummer, StraatAnswer
    <2>3. CASE Found(r.data, STRAATLEVEL)
        <3>1. via' = "straat" /\ level' \in Nat /\ level' < 200
            BY <2>2, <2>3, FoundFacts DEF STRAATLEVEL
        <3> QED
            BY <3>1 DEF LevelTells, POSTCODELEVEL, P6LEVEL
    <2> QED
        BY <2>1, <2>3 DEF LevelTells
<1>3. CASE PostcodeAnswer
    <2>1. PICK r \in Returns(Answers(AtPostcode(i))) :
              \/ Found(r.data, PostcodeBase)
              \/ UNCHANGED <<num, level, via>>
        BY <1>3 DEF PostcodeAnswer
    <2>2. r.data \subseteq OfNummer /\ req = "postcode"
        BY <1>3, ReturnFacts DEF Answers, OfNummer, PostcodeAnswer
    <2>3. CASE Found(r.data, PostcodeBase)
        <3>1. via' = "postcode" /\ level' \in Nat /\ 200 <= level' /\ level' < 400
            BY <2>2, <2>3, FoundFacts DEF PostcodeBase, POSTCODELEVEL
        <3> QED
            BY <3>1 DEF LevelTells, POSTCODELEVEL, P6LEVEL
    <2> QED
        BY <2>1, <2>3 DEF LevelTells
<1>4. CASE P6Answer
    <2>1. \/ via' = "p6" /\ level' = (i - 1) * 10 + P6LEVEL
          \/ UNCHANGED <<num, level, via>>
        BY <1>4 DEF P6Answer
    <2>2. i \in 1..8
        BY TaskFacts DEF IInv, TypeOK
    <2>3. CASE via' = "p6" /\ level' = (i - 1) * 10 + P6LEVEL
        BY <2>2, <2>3 DEF LevelTells, POSTCODELEVEL, P6LEVEL
    <2> QED
        BY <2>1, <2>3 DEF LevelTells
<1>5. CASE NumAnswer \/ VboAnswer \/ AdressenAnswer
    BY <1>5 DEF NumAnswer, VboAnswer, AdressenAnswer, kept, LevelTells
<1>6. CASE UNCHANGED vars
    BY <1>6 DEF vars, LevelTells
<1> QED
    BY <1>1, <1>2, <1>3, <1>4, <1>5, <1>6 DEF Next, Step, Done

\* The level tells which search gave the hit, for every adres with at most 125 options
\* for its suffix.
THEOREM LevelIsTelling == Spec => []LevelTells
<1>1. Init => IInv /\ LevelTells
    BY InitType DEF Init, LevelTells
<1>2. IInv /\ LevelTells /\ [Next]_vars => IInv' /\ LevelTells'
    BY NextType, LevelStep
<1> QED
    BY <1>1, <1>2, PTL DEF Spec
=============================================================================
