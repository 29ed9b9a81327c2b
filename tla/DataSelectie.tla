----------------------------- MODULE DataSelectie -----------------------------
(***************************************************************************)
(* `run_import --dataselectie --partial=k/n` (build_ds_data.py), the n     *)
(* processes docker-import.sh starts side by side, and the shell that waits*)
(* for them.  Every process pages through its share of the vestigingen and *)
(* then of the maatschappelijke activiteiten, by id, and stores one row of *)
(* hr_dataselectie for each.  A page is stored by one bulk_create, which   *)
(* is a transaction: it is the unit of interleaving and of failure.        *)
(***************************************************************************)
EXTENDS Integers, FiniteSets

CONSTANTS
    Denominators, \* numbers of parts an import may be divided into
    Items,        \* "ves", "mac" -> ids of the inscriptions without datum_einde
    TypeErr,      \* inscriptions whose serializer raises TypeError
    BATCH,        \* tracking['batch_size']
    Leftover      \* rows that earlier runs can have left in hr_dataselectie

VARIABLES
    denominator, \* number of parts; part k handles the ids with id % n = k
    table,    \* hr_dataselectie: the uids stored, as <<dataset, id>>
    at,       \* part -> "start", the dataset it is at, "ok" or "crashed"
    last_id,  \* part -> tracking['last_id'], 0 for None
    shell     \* docker-import.sh: "waiting", "yay" or "fail"

vars == <<denominator, table, at, last_id, shell>>

Part    == 0..(denominator - 1)
Dataset == {"ves", "mac"}
Uid     == Dataset \X Nat

ASSUME DsAssumption ==
    /\ Denominators \subseteq Nat \ {0} /\ BATCH \in Nat \ {0}
    /\ Items \in [Dataset -> SUBSET (Nat \ {0})]
    /\ \A d \in Dataset : IsFiniteSet(Items[d])
    /\ TypeErr \subseteq Uid /\ Leftover \subseteq Uid
-----------------------------------------------------------------------------
\* mutant: the modulo of the neighbour
NextMod(k, d) == {i \in Items[d] : i % denominator = (k + 1) % (denominator + 1)}

\* generate_qs_parts: id % denominator = numerator
Mine(k, d) == {i \in Items[d] : denominator = 1 \/ i % denominator = k}

Good(d, S) == {i \in S : <<d, i>> \notin TypeErr}
Rows(d, S) == {d} \X S

Init == /\ denominator \in Denominators /\ table \in SUBSET Leftover
        /\ at = [k \in Part |-> "start"]
        /\ last_id = [k \in Part |-> 0]
        /\ shell = "waiting"

\* mutant: nothing is deleted
StartKeep(k) ==
    /\ at[k] = "start"
    /\ at' = [at EXCEPT ![k] = "ves"]
    /\ last_id' = [last_id EXCEPT ![k] = 0]
    /\ UNCHANGED <<denominator, table, shell>>

\* write_dataselectie_data: only an import in one part deletes the previous rows
Start(k) ==
    /\ at[k] = "start"
    /\ table' = IF denominator = 1 THEN {} ELSE table
    /\ at' = [at EXCEPT ![k] = "ves"]
    /\ last_id' = [last_id EXCEPT ![k] = 0]
    /\ UNCHANGED <<denominator, shell>>

\* qs_s.filter(id__gt=last_id) of generate_qs
Rest(k) == {i \in Mine(k, at[k]) : i > last_id[k]}

\* the first BATCH rows of a query that is ordered by id
Page(S) == {i \in S : Cardinality({j \in S : j < i}) < BATCH}

\* mutants: a full page is taken for the last one, and no page is
LastPageOffByOne(k) == Cardinality(Page(Rest(k))) <= BATCH
NoLastPage(k) == Cardinality(Page(Rest(k))) < 0

\* qs_ss.count() < batch_size, on the page that was just stored
LastPage(k) == Cardinality(Page(Rest(k))) < BATCH

\* mutant: last_id is that of the last row looked at
LastLooked(k) == IF Page(Rest(k)) = {} THEN last_id[k]
                 ELSE CHOOSE i \in Page(Rest(k)) : \A j \in Page(Rest(k)) : j <= i

\* tracking['last_id'] after the page: the last row that was not skipped
LastGood(k) == LET G == Good(at[k], Page(Rest(k))) IN
               IF G = {} THEN last_id[k] ELSE CHOOSE i \in G : \A j \in G : j <= i

\* store_qs_data: reset id tracking
FreshId(k) == 0

After(d) == IF d = "ves" THEN "mac" ELSE "ok"

\* one page: store_json_data.  A uid that is there already is a unique violation.
StorePage(k) ==
    /\ at[k] \in Dataset
    /\ LET new == Rows(at[k], Good(at[k], Page(Rest(k)))) IN
          IF new \cap table # {}
          THEN /\ at' = [at EXCEPT ![k] = "crashed"]
               /\ UNCHANGED <<table, last_id>>
          ELSE /\ table' = table \cup new
               /\ IF LastPage(k)
                  THEN /\ at' = [at EXCEPT ![k] = After(@)]
                       /\ last_id' = [last_id EXCEPT ![k] = FreshId(k)]
                  ELSE /\ last_id' = [last_id EXCEPT ![k] = LastGood(k)]
                       /\ UNCHANGED at
    /\ UNCHANGED <<denominator, shell>>

\* an inscription without any adres (AttributeError), a lost connection, a kill
Crash(k) ==
    /\ at[k] \in Dataset \cup {"start"}
    /\ at' = [at EXCEPT ![k] = "crashed"]
    /\ UNCHANGED <<denominator, table, last_id, shell>>

\* mutant: one good part is enough
AnyPart == IF \E k \in Part : at[k] = "ok" THEN "yay" ELSE "fail"

Verdict == IF \A k \in Part : at[k] = "ok" THEN "yay" ELSE "fail"

\* wait $job || let "FAIL+=1", for all jobs
ShellEnd ==
    /\ shell = "waiting" /\ \A k \in Part : at[k] \in {"ok", "crashed"}
    /\ shell' = Verdict
    /\ UNCHANGED <<denominator, table, at, last_id>>

Next == \/ \E k \in Part : Start(k) \/ StorePage(k) \/ Crash(k)
        \/ ShellEnd
        \/ shell # "waiting" /\ UNCHANGED vars

Spec == Init /\ [][Next]_vars

\* a process that runs goes on, and the shell waits for it
FairSpec == /\ Spec /\ WF_vars(ShellEnd)
            /\ \A k \in UNION {0..(n - 1) : n \in Denominators} :
                  WF_vars(k \in Part /\ (Start(k) \/ StorePage(k)))
-----------------------------------------------------------------------------
(* Properties *)

\* Every variable stays in its range; last_id names a serialisable inscription of
\* the part and of the query at hand (36-39, 175, 201).
TypeOK == /\ denominator \in Denominators /\ table \subseteq Uid
          /\ at \in [Part -> Dataset \cup {"start", "ok", "crashed"}]
          /\ last_id \in [Part -> Nat]
          /\ \A k \in Part :
                /\ at[k] \in {"start", "ok"} => last_id[k] = 0
                /\ at[k] \in Dataset => last_id[k] \in {0} \cup Good(at[k], Mine(k, at[k]))
          /\ shell \in {"waiting", "yay", "fail"}

\* Paging by "id greater than the last one stored" loses nothing: whatever rows
\* were skipped, pages were full or parts ran in between, every serialisable
\* inscription of the part up to last_id is stored, and all vestigingen before the
\* first activiteit (112-130, 175, 223-224).
PagedUpToLast ==
    \A k \in Part :
       /\ at[k] \in Dataset =>
             Rows(at[k], Good(at[k], {i \in Mine(k, at[k]) : i <= last_id[k]})) \subseteq table
       /\ at[k] \in {"mac", "ok"} => Rows("ves", Good("ves", Mine(k, "ves"))) \subseteq table
       /\ at[k] = "ok" => Rows("mac", Good("mac", Mine(k, "mac"))) \subseteq table

\* When the script prints YAY!, hr_dataselectie holds every serialisable inscription.
YayComplete == shell = "yay" =>
    \A d \in Dataset : Rows(d, Good(d, Items[d])) \subseteq table

\* After an import in one part the table holds nothing else (218-221).
YayExact == shell = "yay" /\ denominator = 1 =>
    table = UNION {Rows(d, Good(d, Items[d])) : d \in Dataset}

Wanted == UNION {Rows(d, Good(d, Items[d])) : d \in Dataset}

\* The processes together, one of which empties the table, keep the promise of
\* StoreAbs: what is stored is not taken away again, and YAY! is of a complete table.
Abs == INSTANCE StoreAbs WITH
          wanted <- Wanted,
          stored <- IF denominator = 1 /\ at[0] = "start" THEN {} ELSE table \cap Wanted,
          outcome <- IF shell = "waiting" THEN "running" ELSE shell
Implements == Abs!Spec

\* The script comes to an end.
ShellEnds == <>(shell # "waiting")
=============================================================================
