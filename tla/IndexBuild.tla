------------------------------ MODULE IndexBuild ------------------------------
(***************************************************************************)
(* The elastic index, as .jenkins-import/import.sh builds it: the importer *)
(* container ends with `build_index --reset`, after which a container for  *)
(* every part runs `build_index --partial=k/n --build` and the script waits*)
(* for all of them.  A part is a range of offsets in each of the two       *)
(* ordered queries (search/index.py), indexed in batches.                  *)
(***************************************************************************)
EXTENDS Integers, FiniteSets

CONSTANTS
    denominator, \* number of parts; part k is --partial=(k+1)/denominator
    batch_size,  \* BATCH_SETTINGS['batch_size']
    MaxCount,    \* bound on the rows of a query
    Stale,       \* documents that can be in the index before it is reset
    OLD          \* who wrote those

VARIABLES
    count, \* dataset -> qs.count(); no row changes after the import
    by,    \* document -> who indexed it, {} when it is not in the index
    at,    \* part -> "idle", the dataset it is at, "ok" or "dead"
    pos,   \* part -> offset of its next row
    main   \* import.sh: "reset", "up", or how it ended

vars == <<count, by, at, pos, main>>

Part    == 0..(denominator - 1)
Dataset == {"mac", "ves"}
Outcome == {"noreset", "yay", "fail"}
Doc     == Dataset \X (0..(MaxCount - 1))  \* the r-th row of a query

ASSUME IbAssumption ==
    /\ denominator \in Nat \ {0} /\ batch_size \in Nat \ {0} /\ MaxCount \in Nat
    /\ Stale \subseteq Doc /\ OLD \notin Part
-----------------------------------------------------------------------------
chunk_size(total) == total \div denominator

start_index(total, k) == IF denominator = 1 THEN 0 ELSE k * chunk_size(total)

\* mutants: no part takes the remainder of the division, and every part goes on
EndNoRemainder(total, k) == (k + 1) * chunk_size(total)
EndAll(total, k) == total

end_part(total, k) == IF k + 1 < denominator THEN (k + 1) * chunk_size(total) ELSE total

Init == /\ count \in [Dataset -> 0..MaxCount]
        /\ by \in {[x \in Doc |-> IF x \in S THEN {OLD} ELSE {}] : S \in SUBSET Stale}
        /\ at = [k \in Part |-> "idle"]
        /\ pos = [k \in Part |-> 0]
        /\ main = "reset"

\* ResetIndexTask.execute: delete the index and create it, empty
ResetIndex == /\ main = "reset"
              /\ by' = [x \in Doc |-> {}]
              /\ main' = "up"
              /\ UNCHANGED <<count, at, pos>>

\* the importer container fails: import.sh ends before the index is built
ResetFails == /\ main = "reset"
              /\ main' = "noreset"
              /\ UNCHANGED <<count, by, at, pos>>

\* batch_qs begins with dataset d
Begin(k, d) == /\ at' = [at EXCEPT ![k] = d]
               /\ pos' = [pos EXCEPT ![k] = start_index(count[d], k)]

Start(k) == /\ main = "up" /\ at[k] = "idle"
            /\ Begin(k, "mac")
            /\ UNCHANGED <<count, by, main>>

End(k) == end_part(count[at[k]], k)

\* mutant: the batch is not cut off at the end of the part
BatchUncut(k) == pos[k] + batch_size

\* end = min(start + batch_size, end_part)
BatchEnd(k) == IF pos[k] + batch_size < End(k) THEN pos[k] + batch_size ELSE End(k)

Indexed(k, rows) == [x \in Doc |-> IF x[1] = at[k] /\ x[2] \in rows
                                   THEN by[x] \cup {k} ELSE by[x]]

\* helpers.bulk over one batch
IndexBatch(k) == /\ at[k] \in Dataset /\ pos[k] < End(k)
                 /\ by' = Indexed(k, pos[k]..(BatchEnd(k) - 1))
                 /\ pos' = [pos EXCEPT ![k] = BatchEnd(k)]
                 /\ UNCHANGED <<count, at, main>>

\* the range is exhausted: execute() returns, and the next task starts
NextTask(k) == /\ at[k] \in Dataset /\ pos[k] >= End(k)
               /\ IF at[k] = "mac"
                  THEN Begin(k, "ves")
                  ELSE at' = [at EXCEPT ![k] = "ok"] /\ UNCHANGED pos
               /\ UNCHANGED <<count, by, main>>

\* bulk sends a batch in chunks and raises on an error in one of them; a convert
\* may raise as well (from_vestiging without bezoekadres).  What was sent remains.
BatchFails(k) == /\ at[k] \in Dataset /\ pos[k] < End(k)
                 /\ \E sent \in pos[k]..BatchEnd(k) : by' = Indexed(k, pos[k]..(sent - 1))
                 /\ at' = [at EXCEPT ![k] = "dead"]
                 /\ UNCHANGED <<count, pos, main>>

\* the container ends otherwise: before its first batch, between two of them, with
\* nothing to index or with nothing left to
Dies(k) == /\ main = "up" /\ at[k] \in Dataset \cup {"idle"}
           /\ at' = [at EXCEPT ![k] = "dead"]
           /\ UNCHANGED <<count, by, pos, main>>

\* mutant: wait for success only
OverOk(k) == at[k] = "ok"

Over(k) == at[k] \in {"ok", "dead"}

\* mutant: an error in one part is overlooked
ErrorsAll == {k \in Part : \A j \in Part : at[j] = "dead"}

\* import_error: the parts whose status is not 0
Errors == {k \in Part : at[k] = "dead"}

\* docker wait, the count of the errors and the test of it
WaitEnd == /\ main = "up" /\ \A k \in Part : Over(k)
           /\ main' = IF Errors = {} THEN "yay" ELSE "fail"
           /\ UNCHANGED <<count, by, at, pos>>

Next == \/ ResetIndex \/ ResetFails \/ WaitEnd
        \/ \E k \in Part : Start(k) \/ IndexBatch(k) \/ NextTask(k) \/ BatchFails(k) \/ Dies(k)
        \/ main \in Outcome /\ UNCHANGED vars

Spec == Init /\ [][Next]_vars

\* the containers run, each on its own, and the script waits for them
FairSpec == /\ Spec /\ WF_vars(ResetIndex \/ ResetFails) /\ WF_vars(WaitEnd)
            /\ \A k \in Part : WF_vars(Start(k) \/ IndexBatch(k) \/ NextTask(k))
-----------------------------------------------------------------------------
(* Properties *)

\* Every variable stays in its range, and a part within its own offsets.
TypeOK == /\ count \in [Dataset -> 0..MaxCount]
          /\ by \in [Doc -> SUBSET (Part \cup {OLD})]
          /\ at \in [Part -> Dataset \cup {"idle", "ok", "dead"}]
          /\ pos \in [Part -> Nat]
          /\ \A k \in Part : at[k] \in Dataset =>
                pos[k] \in start_index(count[at[k]], k)..End(k)
          /\ main \in {"reset", "up"} \cup Outcome

Row(d) == {d} \X (0..(count[d] - 1))

Present == {x \in Doc : by[x] # {}}

\* Once the index is reset no document comes from two parts, whatever the number of
\* rows, parts and batches: the ranges of offsets do not overlap (94-103).
OneWriter == main \in {"up", "yay", "fail"} =>
    \A x \in Doc : by[x] \subseteq Part /\ Cardinality(by[x]) <= 1

\* When import.sh goes on to the backup of the index, it holds a document for every
\* row of both queries, and nothing else.
YayExact == main = "yay" => Present = Row("mac") \cup Row("ves")

\* The containers together keep the promise of StoreAbs, from the reset on: documents
\* are only added, and the script goes on with a complete index only.
Abs == INSTANCE StoreAbs WITH
          wanted <- Row("mac") \cup Row("ves"),
          stored <- IF main \in {"reset", "noreset"} THEN {} ELSE Present,
          outcome <- CASE main \in {"reset", "up"} -> "running"
                       [] main = "noreset" -> "fail"
                       [] OTHER -> main
Implements == Abs!Spec

\* The script comes to an end.
Ends == <>(main \in Outcome)
=============================================================================
