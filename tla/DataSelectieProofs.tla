-------------------------- MODULE DataSelectieProofs --------------------------
(***************************************************************************)
(* Proofs about DataSelectie, for every number of parts, page size, set of *)
(* inscriptions and choice of rows the serializer cannot handle.           *)
(***************************************************************************)
EXTENDS DataSelectie, FiniteSetTheorems, WellFoundedInduction, TLAPS

\* The inscriptions of a part are a finite set of positive numbers.
LEMMA MineFinite ==
    ASSUME NEW k \in Part, NEW d \in Dataset
    PROVE  /\ Mine(k, d) \subseteq Items[d]
           /\ Mine(k, d) \subseteq Nat \ {0}
           /\ IsFiniteSet(Mine(k, d))
<1>1. Mine(k, d) \subseteq Items[d]  BY DEF Mine
<1>2. Items[d] \subseteq Nat \ {0} /\ IsFiniteSet(Items[d])
    BY DsAssumption
<1> QED  BY <1>1, <1>2, FS_Subset

\* A set of numbers that is not empty has a smallest element.
LEMMA Smallest ==
    ASSUME NEW T, T \subseteq Nat, T # {}
    PROVE  \E x \in T : \A y \in T : x <= y
<1>1. PICK x \in T : \A y \in T : ~ (<<y, x>> \in OpToRel(<, Nat))
    BY NatLessThanWellFounded, WFMin
<1>2. \A y \in T : ~ (y < x)
    BY <1>1 DEF OpToRel
<1> QED  BY <1>2, SMT

\* A finite set of numbers that is not empty has a largest element: one with the
\* fewest numbers above it.
LEMMA Largest ==
    ASSUME NEW T, T \subseteq Nat, IsFiniteSet(T), T # {}
    PROVE  \E x \in T : \A y \in T : y <= x
<1> DEFINE Above(m) == {y \in T : y > m}
           Sizes == {Cardinality(Above(m)) : m \in T}
<1>1. \A m \in T : IsFiniteSet(Above(m)) /\ Cardinality(Above(m)) \in Nat
    <2> TAKE m \in T
    <2>1. Above(m) \subseteq T  OBVIOUS
    <2> QED  BY <2>1, FS_Subset, FS_CardinalityType
<1>2. PICK x \in T : \A y \in T : Cardinality(Above(x)) <= Cardinality(Above(y))
    <2> HIDE DEF Above
    <2>1. Sizes \subseteq Nat /\ Sizes # {}  BY <1>1
    <2>2. PICK c \in Sizes : \A e \in Sizes : c <= e  BY <2>1, Smallest
    <2> QED  BY <2>2
<1>3. ASSUME NEW y \in T, y > x PROVE FALSE
    <2>1. Above(y) \subseteq Above(x) /\ y \in Above(x) /\ y \notin Above(y)
        <3>1. x \in Nat /\ y \in Nat  OBVIOUS
        <3>2. (\A z \in T : z > y => z > x) /\ ~ (y > y)  BY <1>3, <3>1, SMT
        <3> QED  BY <1>3, <3>2
    <2>2. Cardinality(Above(y)) <= Cardinality(Above(x))
        BY <1>1, <2>1, FS_Subset
    <2>3. Cardinality(Above(y)) # Cardinality(Above(x))
        BY <1>1, <2>1, FS_Subset
    <2>4. Cardinality(Above(x)) <= Cardinality(Above(y))  BY <1>2
    <2> HIDE DEF Above
    <2> QED  BY <1>1, <2>2, <2>3, <2>4, SMT
<1> QED  BY <1>3, SMT

\* A page is a prefix of the query: with a row it has every smaller one.
LEMMA PageIsPrefix ==
    ASSUME NEW S, S \subseteq Nat, IsFiniteSet(S),
           NEW i \in Page(S), NEW j \in S, j < i
    PROVE  j \in Page(S)
<1> DEFINE Below(m) == {x \in S : x < m}
<1>1. i \in S /\ Cardinality(Below(i)) < BATCH  BY DEF Page
<1>2. Below(j) \subseteq Below(i)
    <2>1. i \in Nat /\ j \in Nat  BY <1>1
    <2>2. \A x \in S : x < j => x < i  BY <2>1, SMT
    <2> QED  BY <2>2
<1>3. IsFiniteSet(Below(i))  BY FS_Subset
<1>4. /\ Cardinality(Below(j)) \in Nat /\ Cardinality(Below(i)) \in Nat
      /\ Cardinality(Below(j)) <= Cardinality(Below(i))
    BY <1>2, <1>3, FS_Subset, FS_CardinalityType
<1>5. Cardinality(Below(j)) < BATCH
    <2> HIDE DEF Below
    <2> QED  BY <1>1, <1>4, DsAssumption, SMT
<1> QED  BY <1>5 DEF Page

\* A page that is not full is all there is: "no more data" (128-130).
LEMMA ShortPageIsAll ==
    ASSUME NEW S, S \subseteq Nat, IsFiniteSet(S), Cardinality(Page(S)) < BATCH
    PROVE  Page(S) = S
<1> DEFINE Below(m) == {x \in S : x < m}
           Left     == S \ Page(S)
<1>1. SUFFICES ASSUME Left # {} PROVE FALSE  BY DEF Page
<1>2. PICK i \in Left : \A j \in Left : i <= j
    <2>1. Left \subseteq Nat  OBVIOUS
    <2> QED  BY <1>1, <2>1, Smallest
<1>3. Below(i) \subseteq Page(S)
    <2>1. ASSUME NEW x \in S, x < i, x \notin Page(S) PROVE FALSE
        <3>1. x \in Nat /\ i \in Nat /\ i <= x  BY <1>2, <2>1
        <3> QED  BY <2>1, <3>1, SMT
    <2> QED  BY <2>1
<1>4. IsFiniteSet(Page(S))
    <2>1. Page(S) \subseteq S  BY DEF Page
    <2> QED  BY <2>1, FS_Subset
<1>5. /\ Cardinality(Below(i)) \in Nat /\ Cardinality(Page(S)) \in Nat
      /\ Cardinality(Below(i)) <= Cardinality(Page(S))
    BY <1>3, <1>4, FS_Subset, FS_CardinalityType
<1>6. ~ (Cardinality(Below(i)) < BATCH)
    BY <1>2 DEF Page
<1>7. QED
    <2> HIDE DEF Below
    <2> QED  BY <1>5, <1>6, DsAssumption, SMT

\* The last row that was not skipped is one of the page; without one last_id stays.
LEMMA LastGoodIs ==
    ASSUME TypeOK, NEW k \in Part, at[k] \in Dataset
    PROVE  LET G == Good(at[k], Page(Rest(k))) IN
           \/ G = {} /\ LastGood(k) = last_id[k]
           \/ LastGood(k) \in G /\ \A j \in G : j <= LastGood(k)
<1> DEFINE G == Good(at[k], Page(Rest(k)))
<1>1. G \subseteq Nat /\ IsFiniteSet(G)
    <2>1. G \subseteq Mine(k, at[k])  BY DEF Good, Page, Rest
    <2> QED  BY <2>1, MineFinite, FS_Subset
<1>2. G = {} => LastGood(k) = last_id[k]  BY DEF LastGood
<1>3. G # {} => \E i \in G : \A j \in G : j <= i
    BY <1>1, Largest
<1> QED  BY <1>2, <1>3 DEF LastGood
-----------------------------------------------------------------------------
\* The first states.
LEMMA TypeInit == Init => TypeOK
<1> USE DsAssumption
<1> QED  BY DEF Init, TypeOK, Part, Dataset

\* The number of parts is that of the import, from its start to its end.
LEMMA SameParts == TypeOK /\ [Next]_vars => denominator' = denominator /\ denominator \in Nat \ {0}
<1> QED  BY DsAssumption DEF TypeOK, Next, Start, StorePage, Crash, ShellEnd, vars

\* One page keeps the types; last_id moves to a row of the page that was stored.
LEMMA TypePage ==
    ASSUME TypeOK, NEW k \in Part, StorePage(k)
    PROVE  TypeOK'
<1> DEFINE P == Page(Rest(k))
           new == Rows(at[k], Good(at[k], P))
<1>1. at[k] \in Dataset  BY DEF StorePage
<1>2. P \subseteq Mine(k, at[k])  BY DEF Page, Rest
<1>3. new \subseteq Uid
    <2>1. P \subseteq Nat  BY <1>1, <1>2, MineFinite
    <2> QED  BY <1>1, <2>1 DEF Rows, Good, Uid
<1>4. CASE new \cap table # {}
    <2>1. at' = [at EXCEPT ![k] = "crashed"] /\ UNCHANGED <<denominator, table, last_id, shell>>
        BY <1>4 DEF StorePage
    <2> QED  BY <2>1 DEF TypeOK, Dataset, Good, Mine, Part
<1>5. CASE new \cap table = {} /\ LastPage(k)
    <2>1. /\ table' = table \cup new
          /\ at' = [at EXCEPT ![k] = After(@)]
          /\ last_id' = [last_id EXCEPT ![k] = 0]
          /\ shell' = shell /\ denominator' = denominator
        BY <1>5 DEF StorePage, FreshId
    <2>2. After(at[k]) \in {"mac", "ok"}  BY DEF After
    <2> HIDE DEF new
    <2> QED  BY <1>3, <2>1, <2>2 DEF TypeOK, Dataset, Good, Mine, Part
<1>6. CASE new \cap table = {} /\ ~LastPage(k)
    <2>1. /\ table' = table \cup new
          /\ last_id' = [last_id EXCEPT ![k] = LastGood(k)]
          /\ UNCHANGED <<denominator, at, shell>>
        BY <1>6 DEF StorePage
    <2>2. LastGood(k) \in {0} \cup Good(at[k], Mine(k, at[k]))
        <3>1. Good(at[k], P) \subseteq Good(at[k], Mine(k, at[k]))
            BY <1>2 DEF Good
        <3>2. last_id[k] \in {0} \cup Good(at[k], Mine(k, at[k]))
            BY <1>1 DEF TypeOK
        <3> QED  BY <1>1, <3>1, <3>2, LastGoodIs
    <2>3. LastGood(k) \in Nat
        BY <1>1, <2>2, MineFinite DEF Good
    <2> HIDE DEF new
    <2> QED  BY <1>1, <1>3, <2>1, <2>2, <2>3 DEF TypeOK, Dataset, Good, Mine, Part
<1> QED  BY <1>4, <1>5, <1>6

\* Every step keeps the types.
LEMMA TypeStep == TypeOK /\ [Next]_vars => TypeOK'
<1> SUFFICES ASSUME TypeOK, [Next]_vars PROVE TypeOK'  OBVIOUS
<1>1. ASSUME NEW k \in Part, Start(k) PROVE TypeOK'
    BY <1>1 DEF Start, TypeOK, Dataset, Good, Mine, Part
<1>2. ASSUME NEW k \in Part, StorePage(k) PROVE TypeOK'
    BY <1>2, TypePage
<1>3. ASSUME NEW k \in Part, Crash(k) PROVE TypeOK'
    BY <1>3 DEF Crash, TypeOK, Dataset, Good, Mine, Part
<1>4. CASE ShellEnd
    BY <1>4 DEF ShellEnd, Verdict, TypeOK, Dataset, Good, Mine, Part
<1>5. CASE UNCHANGED vars
    BY <1>5 DEF vars, TypeOK, Dataset, Good, Mine, Part
<1> QED  BY <1>1, <1>2, <1>3, <1>4, <1>5 DEF Next

\* The types, and that last_id names a row the part may have stored (36-39, 175).
THEOREM TypeCorrect == Spec => []TypeOK
<1> QED  BY TypeInit, TypeStep, PTL DEF Spec
-----------------------------------------------------------------------------
\* What is stored of a dataset once a page is: all up to its last row, or all.
LEMMA PageStores ==
    ASSUME TypeOK, NEW k \in Part, at[k] \in Dataset,
           NEW Z, Rows(at[k], Good(at[k], Page(Rest(k)))) \subseteq Z,
           Rows(at[k], Good(at[k], {i \in Mine(k, at[k]) : i <= last_id[k]})) \subseteq Z
    PROVE  /\ LastPage(k) => Rows(at[k], Good(at[k], Mine(k, at[k]))) \subseteq Z
           /\ Rows(at[k], Good(at[k], {i \in Mine(k, at[k]) : i <= LastGood(k)}))
                 \subseteq Z
<1> DEFINE M == Mine(k, at[k])
           P == Page(Rest(k))
<1>1. /\ M \subseteq Nat /\ IsFiniteSet(M)
      /\ Rest(k) \subseteq M /\ IsFiniteSet(Rest(k)) /\ last_id[k] \in Nat
    <2>1. M \subseteq Nat /\ IsFiniteSet(M)  BY MineFinite
    <2>2. Rest(k) \subseteq M  BY DEF Rest
    <2> QED  BY <2>1, <2>2, FS_Subset DEF TypeOK
<1>2. \A i \in M : i <= last_id[k] /\ <<at[k], i>> \notin TypeErr => <<at[k], i>> \in Z
    BY DEF Rows, Good
<1>3. \A i \in P : <<at[k], i>> \notin TypeErr => <<at[k], i>> \in Z
    BY DEF Rows, Good
<1>4. \A i \in M : i <= last_id[k] \/ i \in Rest(k)
    <2>1. \A i \in M : i <= last_id[k] \/ i > last_id[k]  BY <1>1, SMT
    <2> QED  BY <2>1 DEF Rest
<1>5. ASSUME LastPage(k)
      PROVE  Rows(at[k], Good(at[k], M)) \subseteq Z
    <2>1. P = Rest(k)
        BY <1>1, <1>5, ShortPageIsAll DEF LastPage
    <2> QED  BY <1>2, <1>3, <1>4, <2>1 DEF Rows, Good
<1>6. ASSUME NEW i \in M, i <= LastGood(k), <<at[k], i>> \notin TypeErr
      PROVE  <<at[k], i>> \in Z
    <2>1. CASE i <= last_id[k]  BY <1>2, <1>6, <2>1
    <2>2. CASE i \in Rest(k)
        <3>1. ~ (i <= last_id[k])
            <4>1. i > last_id[k]  BY <2>2 DEF Rest
            <4> QED  BY <1>1, <4>1, SMT
        <3>2. LastGood(k) # last_id[k]  BY <1>6, <3>1
        <3>3. LastGood(k) \in P  BY <3>2, LastGoodIs DEF Good
        <3>4. i < LastGood(k) \/ i = LastGood(k)
            <4>1. LastGood(k) \in Nat /\ i \in Nat  BY <1>1, <3>3 DEF Page
            <4> QED  BY <1>6, <4>1, SMT
        <3>5. i \in P
            <4>1. Rest(k) \subseteq Nat  BY <1>1
            <4>2. CASE i < LastGood(k)
                BY <1>1, <2>2, <3>3, <4>1, <4>2, PageIsPrefix
            <4> QED  BY <3>3, <3>4, <4>2
        <3> QED  BY <1>3, <1>6, <3>5
    <2> QED  BY <1>4, <2>1, <2>2
<1> QED  BY <1>5, <1>6 DEF Rows, Good

\* Nothing is claimed before the first page.
LEMMA PagedInit == Init => PagedUpToLast
<1> QED  BY DEF Init, PagedUpToLast, Dataset

\* One page keeps the prefix property, of its own part and of all others.
LEMMA PagedPage ==
    ASSUME TypeOK, PagedUpToLast, NEW k \in Part, StorePage(k)
    PROVE  PagedUpToLast'
<1> DEFINE new == Rows(at[k], Good(at[k], Page(Rest(k))))
           Upto(j, d, n) == Rows(d, Good(d, {i \in Mine(j, d) : i <= n}))
           All(j, d) == Rows(d, Good(d, Mine(j, d)))
<1>1. at[k] \in Dataset  BY DEF StorePage
<1>2. /\ table \subseteq table'
      /\ \A j \in Part \ {k} : at'[j] = at[j] /\ last_id'[j] = last_id[j]
      /\ denominator' = denominator /\ Part' = Part
    <2>1. denominator' = denominator  BY DEF StorePage
    <2> HIDE DEF new
    <2> QED  BY <2>1 DEF StorePage, TypeOK, Part
<1>3. \A j \in Part :
         /\ at[j] \in Dataset => Upto(j, at[j], last_id[j]) \subseteq table
         /\ at[j] \in {"mac", "ok"} => All(j, "ves") \subseteq table
         /\ at[j] = "ok" => All(j, "mac") \subseteq table
    BY DEF PagedUpToLast
<1>4. SUFFICES
         /\ at'[k] \in Dataset => Upto(k, at'[k], last_id'[k]) \subseteq table'
         /\ at'[k] \in {"mac", "ok"} => All(k, "ves") \subseteq table'
         /\ at'[k] = "ok" => All(k, "mac") \subseteq table'
    <2> HIDE DEF Upto, All
    <2>1. \A j \in Part :
         /\ at'[j] \in Dataset => Upto(j, at'[j], last_id'[j]) \subseteq table'
         /\ at'[j] \in {"mac", "ok"} => All(j, "ves") \subseteq table'
         /\ at'[j] = "ok" => All(j, "mac") \subseteq table'
        BY <1>2, <1>3, <1>4
    <2> QED  BY <1>2, <2>1 DEF PagedUpToLast, Upto, All, Mine, Rows, Good
<1>5. CASE new \cap table # {}
    <2>1. at'[k] = "crashed"  BY <1>5 DEF StorePage, TypeOK
    <2> QED  BY <2>1 DEF Dataset
<1>6. ASSUME new \cap table = {} PROVE new \subseteq table'
    BY <1>6 DEF StorePage
<1>7. Upto(k, at[k], last_id[k]) \subseteq table'
    <2> HIDE DEF Upto
    <2> QED  BY <1>1, <1>2, <1>3
<1>8. CASE new \cap table = {} /\ LastPage(k)
    <2>1. at'[k] = After(at[k]) /\ last_id'[k] = 0
        BY <1>8 DEF StorePage, TypeOK, FreshId
    <2>2. All(k, at[k]) \subseteq table'
        BY <1>1, <1>6, <1>7, <1>8, PageStores
    <2>3. ASSUME NEW d \in Dataset PROVE Upto(k, d, 0) = {}
        <3>1. \A i \in Mine(k, d) : i \in Nat \ {0}  BY <2>3, MineFinite
        <3>2. \A i \in Mine(k, d) : ~ (i <= 0)  BY <3>1, SMT
        <3> QED  BY <3>2 DEF Rows, Good
    <2> HIDE DEF Upto, All
    <2>4. CASE at[k] = "ves"
        BY <2>1, <2>2, <2>3, <2>4 DEF After, Dataset
    <2>5. CASE at[k] = "mac"
        BY <1>2, <1>3, <2>1, <2>2, <2>5 DEF After, Dataset
    <2> QED  BY <1>1, <2>4, <2>5 DEF Dataset
<1>9. CASE new \cap table = {} /\ ~LastPage(k)
    <2>1. at'[k] = at[k] /\ last_id'[k] = LastGood(k)
        BY <1>9 DEF StorePage, TypeOK
    <2>2. Upto(k, at[k], LastGood(k)) \subseteq table'
        BY <1>1, <1>6, <1>7, <1>9, PageStores
    <2> HIDE DEF Upto, All
    <2> QED  BY <1>1, <1>2, <1>3, <2>1, <2>2 DEF Dataset
<1> QED  BY <1>5, <1>8, <1>9

\* No step undoes it: rows leave the table only when the one part there is starts.
LEMMA PagedStep == TypeOK /\ PagedUpToLast /\ [Next]_vars => PagedUpToLast'
<1> SUFFICES ASSUME TypeOK, PagedUpToLast, [Next]_vars PROVE PagedUpToLast'
    OBVIOUS
<1>1. ASSUME NEW k \in Part, Start(k) PROVE PagedUpToLast'
    <2>1. \A j \in Part, d \in Dataset : \A i \in Mine(j, d) : ~ (i <= 0)
        <3>1. \A j \in Part, d \in Dataset : \A i \in Mine(j, d) : i \in Nat \ {0}
            BY MineFinite
        <3> QED  BY <3>1, SMT
    <2>2. at'[k] = "ves" /\ last_id'[k] = 0  BY <1>1 DEF Start, TypeOK
    <2>3. \A j \in Part \ {k} : at'[j] = at[j] /\ last_id'[j] = last_id[j] /\ table' = table
        <3>1. denominator = 1 => Part = {k}
            BY SMT DEF Part
        <3> QED  BY <1>1, <3>1 DEF Start, TypeOK
    <2>5. denominator' = denominator /\ Part' = Part  BY <1>1 DEF Start, Part
    <2>4. Rows("ves", Good("ves", {i \in Mine(k, "ves") : i <= 0})) = {}
        BY <2>1 DEF Rows, Good, Dataset
    <2> QED  BY <2>2, <2>3, <2>4, <2>5 DEF PagedUpToLast, Mine, Rows, Good, Dataset
<1>2. ASSUME NEW k \in Part, StorePage(k) PROVE PagedUpToLast'
    BY <1>2, PagedPage
<1>3. ASSUME NEW k \in Part, Crash(k) PROVE PagedUpToLast'
    BY <1>3 DEF Crash, TypeOK, PagedUpToLast, Dataset, Mine, Rows, Good, Part
<1>4. CASE ShellEnd
    BY <1>4 DEF ShellEnd, PagedUpToLast, Mine, Rows, Good, Part
<1>5. CASE UNCHANGED vars
    BY <1>5 DEF vars, PagedUpToLast, Mine, Rows, Good, Part
<1> QED  BY <1>1, <1>2, <1>3, <1>4, <1>5 DEF Next

\* Paging by last_id loses no serialisable row, for every page size, number of
\* parts and placing of the rows that are skipped (112-130, 175).
THEOREM PagingLosesNothing == Spec => []PagedUpToLast
<1> QED  BY TypeInit, TypeStep, PagedInit, PagedStep, PTL DEF Spec
-----------------------------------------------------------------------------
\* The verdict is final: YAY! is of parts that all have ended well.
AllOk == shell = "yay" => \A k \in Part : at[k] = "ok"

\* The parts cover all inscriptions: every id has its remainder in Part (84-90).
LEMMA PartsCover ==
    ASSUME TypeOK, NEW d \in Dataset, NEW i \in Items[d]
    PROVE  \E k \in Part : i \in Mine(k, d)
<1>1. i \in Nat /\ denominator \in Nat \ {0}  BY DsAssumption DEF TypeOK
<1>2. i % denominator \in 0..(denominator - 1)  BY <1>1, SMT
<1> QED  BY <1>2 DEF Part, Mine

\* No part that has ended begins again.
LEMMA AllOkStep == TypeOK /\ AllOk /\ [Next]_vars => AllOk'
<1> SUFFICES ASSUME TypeOK, AllOk, [Next]_vars PROVE AllOk'  OBVIOUS
<1>1. CASE ShellEnd  BY <1>1 DEF ShellEnd, Verdict, AllOk, Part
<1>2. ASSUME NEW k \in Part, Start(k) \/ StorePage(k) \/ Crash(k) PROVE AllOk'
    <2>1. shell' = shell /\ at[k] # "ok" /\ Part' = Part
        BY <1>2 DEF Start, StorePage, Crash, Dataset, Part
    <2> QED  BY <2>1 DEF AllOk
<1>3. CASE UNCHANGED vars  BY <1>3 DEF vars, AllOk, Part
<1> QED  BY <1>1, <1>2, <1>3 DEF Next

\* An import that says YAY! has stored every serialisable inscription, however the
\* work was divided (docker-import.sh 33-54).
THEOREM YayMeansComplete == Spec => []YayComplete
<1>1. Init => AllOk  BY DEF Init, AllOk
<1>2. TypeOK /\ AllOk /\ [Next]_vars => AllOk'  BY AllOkStep
<1>3. TypeOK /\ PagedUpToLast /\ AllOk => YayComplete
    <2> SUFFICES ASSUME TypeOK, PagedUpToLast, AllOk, shell = "yay",
                        NEW d \in Dataset, NEW i \in Good(d, Items[d])
                 PROVE  <<d, i>> \in table
        BY DEF YayComplete, Rows
    <2>1. PICK k \in Part : i \in Mine(k, d)  BY PartsCover DEF Good
    <2>2. at[k] = "ok"  BY DEF AllOk
    <2>3. Rows(d, Good(d, Mine(k, d))) \subseteq table
        BY <2>2 DEF PagedUpToLast, Dataset
    <2> QED  BY <2>1, <2>3 DEF Rows, Good
<1> QED  BY TypeInit, TypeStep, PagedInit, PagedStep, <1>1, <1>2, <1>3, PTL DEF Spec
-----------------------------------------------------------------------------
\* What an import in one part has stored, once it has emptied the table, is wanted.
OnlyWanted ==
    denominator = 1 /\ at[0] \in Dataset \cup {"ok"} =>
       table \subseteq UNION {Rows(d, Good(d, Items[d])) : d \in Dataset}

\* A page adds wanted rows, and no step but a page adds any.
LEMMA OnlyWantedStep == TypeOK /\ OnlyWanted /\ [Next]_vars => OnlyWanted'
<1> SUFFICES ASSUME TypeOK, OnlyWanted, [Next]_vars PROVE OnlyWanted'
    OBVIOUS
<1> DEFINE W == UNION {Rows(d, Good(d, Items[d])) : d \in Dataset}
<1>0. denominator' = denominator  BY SameParts
<1>1. SUFFICES ASSUME denominator = 1, at'[0] \in Dataset \cup {"ok"}
               PROVE  table' \subseteq W
    BY <1>0 DEF OnlyWanted, Rows, Good
<1>2. Part = {0}  BY <1>1, SMT DEF Part
<1>3. ASSUME NEW k \in Part, Start(k) PROVE table' = {}
    BY <1>1, <1>3 DEF Start
<1>4. ASSUME NEW k \in Part, StorePage(k) PROVE table' \subseteq W
    <2> DEFINE new == Rows(at[k], Good(at[k], Page(Rest(k))))
    <2>1. k = 0 /\ at[0] \in Dataset  BY <1>2, <1>4 DEF StorePage
    <2>2. table \subseteq W  BY <1>1, <2>1 DEF OnlyWanted
    <2>3. new \subseteq W
        <3>1. Page(Rest(k)) \subseteq Items[at[k]]
            BY <2>1, MineFinite DEF Page, Rest
        <3> QED  BY <2>1, <3>1 DEF Rows, Good
    <2>4. table' \subseteq table \cup new
        <3>1. CASE new \cap table # {}  BY <1>4, <3>1 DEF StorePage
        <3>2. CASE new \cap table = {}  BY <1>4, <3>2 DEF StorePage
        <3> QED  BY <3>1, <3>2
    <2> QED  BY <2>2, <2>3, <2>4
<1>5. ASSUME NEW k \in Part, Crash(k) PROVE FALSE
    <2>1. at'[0] = "crashed"  BY <1>2, <1>5 DEF Crash, TypeOK
    <2> QED  BY <1>1, <2>1 DEF Dataset
<1>6. CASE ShellEnd
    BY <1>1, <1>6 DEF ShellEnd, OnlyWanted
<1>7. CASE UNCHANGED vars
    BY <1>1, <1>7 DEF vars, OnlyWanted
<1> QED  BY <1>3, <1>4, <1>5, <1>6, <1>7 DEF Next

\* After an import in one part that says YAY! the table holds the serialisable
\* inscriptions and nothing else, whatever was in it before (218-221).
THEOREM YayMeansExact == Spec => []YayExact
<1>1. Init => AllOk /\ OnlyWanted
    <2>1. ASSUME Init PROVE denominator = 1 => at[0] = "start"
        BY <2>1, SMT DEF Init, Part
    <2> QED  BY <2>1 DEF Init, AllOk, OnlyWanted, Dataset
<1>2. TypeOK /\ AllOk /\ [Next]_vars => AllOk'  BY AllOkStep
<1>3. TypeOK /\ AllOk /\ OnlyWanted /\ YayComplete => YayExact
    <2> SUFFICES ASSUME TypeOK, AllOk, OnlyWanted, YayComplete, shell = "yay", denominator = 1
                 PROVE  table = UNION {Rows(d, Good(d, Items[d])) : d \in Dataset}
        BY DEF YayExact
    <2>1. at[0] = "ok"
        <3>1. 0 \in Part  BY SMT DEF Part
        <3> QED  BY <3>1 DEF AllOk
    <2> QED  BY <2>1 DEF OnlyWanted, YayComplete
<1> QED  BY TypeInit, TypeStep, OnlyWantedStep, YayMeansComplete, <1>1, <1>2, <1>3, PTL DEF Spec
-----------------------------------------------------------------------------
\* What the abstract store holds, seen from here.
Stored == IF denominator = 1 /\ at[0] = "start" THEN {} ELSE table \cap Wanted

\* A step that ends no import and takes nothing away is a Store of StoreAbs.
LEMMA GrowsIsStore ==
    ASSUME Stored \subseteq Stored', shell' = shell
    PROVE  Abs!Store
<1>1. Wanted' = Wanted  BY DEF Wanted, Rows, Good
<1>2. Stored' \subseteq Wanted  BY <1>1 DEF Stored
<1> DEFINE S == Stored' \ Stored
<1>3. S \in SUBSET (Wanted \ Stored) /\ Stored' = Stored \cup S  BY <1>2
<1>4. \E T \in SUBSET (Wanted \ Stored) : Stored' = Stored \cup T
    <2> HIDE DEF S
    <2> QED  BY <1>3
<1> QED  BY <1>1, <1>4 DEF Abs!Store, Stored

\* Every step of the processes and the shell is one of StoreAbs, or none (33-54, 208-224).
LEMMA StepImplements ==
    TypeOK /\ YayComplete' /\ [Next]_vars => [Abs!Next]_<<Wanted, Stored, IF shell = "waiting" THEN "running" ELSE shell>>
<1> SUFFICES ASSUME TypeOK, YayComplete', [Next]_vars
             PROVE  \/ Abs!Next
                    \/ UNCHANGED <<Wanted, Stored, IF shell = "waiting" THEN "running" ELSE shell>>
    OBVIOUS
<1>1. Wanted' = Wanted  BY DEF Wanted, Rows, Good
<1>2. denominator' = denominator /\ denominator \in Nat \ {0}  BY SameParts
<1>3. 0 \in Part /\ (denominator = 1 => Part = {0})  BY <1>2, SMT DEF Part
<1>4. ASSUME NEW k \in Part, Start(k) PROVE Abs!Store
    <2>1. CASE denominator = 1
        <3>1. at[0] = "start"  BY <1>3, <1>4, <2>1 DEF Start
        <3> QED  BY <1>4, <2>1, <3>1, GrowsIsStore DEF Start, Stored
    <2>2. CASE denominator # 1
        BY <1>1, <1>2, <1>4, <2>2, GrowsIsStore DEF Start, Stored
    <2> QED  BY <2>1, <2>2
<1>5. ASSUME NEW k \in Part, StorePage(k) \/ Crash(k) PROVE Abs!Store
    <2>1. table \subseteq table' /\ shell' = shell  BY <1>5 DEF StorePage, Crash
    <2>2. at[0] # "start" => at'[0] # "start"
        BY <1>3, <1>5 DEF StorePage, Crash, After, TypeOK, Dataset
    <2> QED  BY <1>1, <1>2, <2>1, <2>2, GrowsIsStore DEF Stored
<1>6. CASE ShellEnd
    <2>1. /\ shell = "waiting" /\ shell' \in {"yay", "fail"}
          /\ UNCHANGED <<denominator, table, at>> /\ at[0] # "start"
        BY <1>3, <1>6 DEF ShellEnd, Verdict
    <2>2. Stored' = Stored /\ Stored = table \cap Wanted  BY <1>1, <2>1 DEF Stored
    <2>3. CASE shell' = "fail"
        BY <1>1, <2>1, <2>2, <2>3 DEF Abs!Next, Abs!Fail, Stored
    <2>4. CASE shell' = "yay"
        <3>1. Wanted \subseteq table
            BY <2>1, <2>4 DEF YayComplete, Wanted, Rows, Good
        <3> QED  BY <1>1, <2>1, <2>2, <2>4, <3>1 DEF Abs!Next, Abs!Succeed, Stored
    <2> QED  BY <2>1, <2>3, <2>4
<1>7. CASE UNCHANGED vars
    BY <1>1, <1>7 DEF vars, Stored
<1> QED  BY <1>4, <1>5, <1>6, <1>7 DEF Next, Abs!Next

\* The processes and the shell implement StoreAbs: no step takes a wanted row away
\* once the table was emptied, and YAY! is of a complete table (33-54, 208-224).
THEOREM ImportImplements == Spec => Implements
<1>1. Init => Abs!Init
    BY DEF Init, Abs!Init
<1>2. TypeOK /\ YayComplete' /\ [Next]_vars
      => [Abs!Next]_<<Wanted, IF denominator = 1 /\ at[0] = "start" THEN {} ELSE table \cap Wanted,
                      IF shell = "waiting" THEN "running" ELSE shell>>
    BY StepImplements DEF Stored
<1> QED  BY <1>1, <1>2, TypeCorrect, YayMeansComplete, PTL DEF Spec, Implements, Abs!Spec
=============================================================================
