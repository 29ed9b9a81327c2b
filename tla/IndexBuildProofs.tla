--------------------------- MODULE IndexBuildProofs ---------------------------
(***************************************************************************)
(* Proofs about IndexBuild, for every number of parts, batch size and      *)
(* number of rows.                                                         *)
(***************************************************************************)
EXTENDS IndexBuild, FiniteSetTheorems, TLAPS

\* A product grows with its first factor.
LEMMA Monotone ==
    ASSUME NEW a \in Nat, NEW b \in Nat, NEW c \in Nat, a <= b
    PROVE  a * c <= b * c /\ a * c \in Nat /\ b * c \in Nat
<1>1. PICK e \in Nat : b = a + e
    <2>1. b - a \in Nat /\ b = a + (b - a)  BY SMT
    <2> QED  BY <2>1
<1>2. a * c \in Nat /\ e * c \in Nat  BY SMT
<1>3. b * c = a * c + e * c  BY <1>1, SMT
<1> QED  BY <1>2, <1>3, SMT

\* The chunks of all parts together do not exceed the total.
LEMMA ChunkFits ==
    ASSUME NEW total \in Nat
    PROVE  /\ chunk_size(total) \in Nat
           /\ denominator * chunk_size(total) <= total
<1>1. denominator \in Nat /\ denominator > 0  BY IbAssumption, SMT
<1> DEFINE c == total \div denominator
<1>2. c \in Nat  BY <1>1, SMT
<1>3. total % denominator \in 0..(denominator - 1)  BY <1>1, SMT
<1>4. total = denominator * c + (total % denominator)  BY <1>1, SMT
<1> QED  BY <1>1, <1>2, <1>3, <1>4, SMT DEF chunk_size

\* A part begins and ends within the query.
LEMMA PartInQuery ==
    ASSUME NEW total \in Nat, NEW k \in Part
    PROVE  /\ start_index(total, k) \in Nat /\ end_part(total, k) \in Nat
           /\ start_index(total, k) <= end_part(total, k)
           /\ end_part(total, k) <= total
<1> DEFINE c == chunk_size(total)
<1>1. denominator \in Nat /\ k \in Nat /\ k + 1 \in Nat /\ k + 1 <= denominator
    BY IbAssumption, SMT DEF Part
<1>2. c \in Nat /\ denominator * c <= total  BY ChunkFits
<1> HIDE DEF c
<1>3. k * c \in Nat /\ (k + 1) * c \in Nat /\ k * c <= (k + 1) * c
    BY <1>1, <1>2, Monotone
<1>4. (k + 1) * c <= denominator * c  BY <1>1, <1>2, Monotone
<1>5. denominator * c \in Nat  BY <1>1, <1>2, SMT
<1>6. start_index(total, k) \in {0, k * c}  BY DEF start_index, c
<1>7. end_part(total, k) \in {(k + 1) * c, total}  BY DEF end_part, c
<1>8. start_index(total, k) = 0 \/ start_index(total, k) = k * c  BY <1>6
<1>9. end_part(total, k) = (k + 1) * c \/ end_part(total, k) = total  BY <1>7
<1>10. (k + 1) * c <= total /\ k * c <= total  BY <1>2, <1>3, <1>4, <1>5, SMT
<1>11. start_index(total, k) \in Nat /\ end_part(total, k) \in Nat
    BY <1>3, <1>8, <1>9
<1> QED  BY <1>3, <1>8, <1>9, <1>10, <1>11, SMT

\* Of two parts, the first ends before the second begins (94-99).
LEMMA PartsDisjoint ==
    ASSUME NEW total \in Nat, NEW j \in Part, NEW k \in Part, j < k
    PROVE  end_part(total, j) <= start_index(total, k)
<1> DEFINE c == chunk_size(total)
<1>1. /\ denominator \in Nat /\ j + 1 \in Nat /\ k \in Nat
      /\ j + 1 <= k /\ j + 1 < denominator /\ denominator # 1
    BY IbAssumption, SMT DEF Part
<1>2. c \in Nat  BY ChunkFits
<1>3. (j + 1) * c <= k * c
    <2> HIDE DEF c
    <2> QED  BY <1>1, <1>2, Monotone
<1> QED  BY <1>1, <1>3 DEF start_index, end_part

\* Every row is in some part, also when the division leaves a remainder (101).
LEMMA PartsCover ==
    ASSUME NEW total \in Nat, NEW r \in 0..(total - 1)
    PROVE  \E k \in Part : start_index(total, k) <= r /\ r < end_part(total, k)
<1> DEFINE c == chunk_size(total)
           last == denominator - 1
<1>1. /\ denominator \in Nat /\ last \in Nat /\ r \in Nat /\ r < total
      /\ last \in Part /\ ~ (last + 1 < denominator)
    BY IbAssumption, SMT DEF Part
<1>2. c \in Nat  BY ChunkFits
<1>3. CASE last * c <= r \/ denominator = 1
    <2>1. end_part(total, last) = total  BY <1>1 DEF end_part
    <2>2. start_index(total, last) <= r
        <3>1. CASE denominator = 1
            BY <1>1, <3>1, SMT DEF start_index
        <3>2. CASE denominator # 1
            BY <1>3, <3>2 DEF start_index
        <3> QED  BY <3>1, <3>2
    <2> QED  BY <1>1, <2>1, <2>2
<1>4. CASE ~ (last * c <= r) /\ denominator # 1
    <2> DEFINE k == r \div c
    <2> HIDE DEF c
    <2>1. r < last * c
        <3>1. last * c \in Nat  BY <1>1, <1>2, SMT
        <3> QED  BY <1>1, <1>4, <3>1, SMT
    <2>2. c > 0
        <3>1. c = 0 => last * c = 0  BY <1>1, SMT
        <3> QED  BY <1>1, <1>2, <2>1, <3>1, SMT
    <2>3. k \in Nat /\ r % c \in 0..(c - 1) /\ r = c * k + (r % c)
        BY <1>1, <1>2, <2>2, SMT
    <2> HIDE DEF k
    <2>4. k * c <= r /\ r < (k + 1) * c
        <3>1. (k + 1) * c = k * c + c /\ c * k = k * c /\ k * c \in Nat
            BY <1>2, <2>3, SMT
        <3> DEFINE kc == k * c
                   m == r % c
        <3>2. m \in Nat /\ m < c /\ r = kc + m /\ (k + 1) * c = kc + c /\ kc \in Nat
            BY <1>2, <2>3, <3>1, SMT
        <3> HIDE DEF kc, m
        <3>3. kc <= r /\ r < kc + c  BY <1>2, <3>2, SMT
        <3> QED  BY <3>2, <3>3 DEF kc
    <2>5. k < last
        <3>1. ASSUME last <= k PROVE FALSE
            <4>1. last * c <= k * c  BY <1>1, <1>2, <2>3, <3>1, Monotone
            <4>2. last * c \in Nat /\ k * c \in Nat  BY <1>1, <1>2, <2>3, SMT
            <4> QED  BY <1>1, <2>1, <2>4, <4>1, <4>2, SMT
        <3> QED  BY <1>1, <2>3, <3>1, SMT
    <2>6. k \in Part /\ k + 1 < denominator  BY <1>1, <2>3, <2>5, SMT DEF Part
    <2>7. start_index(total, k) = k * c /\ end_part(total, k) = (k + 1) * c
        BY <1>4, <2>6 DEF start_index, end_part, c
    <2> QED  BY <2>4, <2>6, <2>7
<1> QED  BY <1>3, <1>4
-----------------------------------------------------------------------------
\* Every variable is in its range before a task has begun.
LEMMA TypeInit == Init => TypeOK
<1> SUFFICES ASSUME Init PROVE TypeOK  OBVIOUS
<1>1. by \in [Doc -> SUBSET (Part \cup {OLD})]
    <2>1. PICK S \in SUBSET Stale : by = [x \in Doc |-> IF x \in S THEN {OLD} ELSE {}]
        BY DEF Init
    <2> QED  BY <2>1
<1> QED  BY <1>1 DEF Init, TypeOK, Dataset

\* A batch ends after its start and within its part.
LEMMA BatchInPart ==
    ASSUME TypeOK, NEW k \in Part, at[k] \in Dataset, pos[k] < End(k)
    PROVE  /\ pos[k] \in Nat /\ BatchEnd(k) \in Nat /\ End(k) \in Nat
           /\ start_index(count[at[k]], k) \in Nat
           /\ start_index(count[at[k]], k) <= pos[k]
           /\ pos[k] < BatchEnd(k) /\ BatchEnd(k) <= End(k)
           /\ End(k) <= count[at[k]]
<1>1. count[at[k]] \in Nat  BY DEF TypeOK
<1>2. /\ start_index(count[at[k]], k) \in Nat /\ End(k) \in Nat
      /\ End(k) <= count[at[k]]
    BY <1>1, PartInQuery DEF End
<1>3. pos[k] \in Nat /\ start_index(count[at[k]], k) <= pos[k]
    <2>1. pos[k] \in start_index(count[at[k]], k)..End(k)  BY DEF TypeOK
    <2> QED  BY <1>2, <2>1, SMT
<1>4. batch_size \in Nat /\ batch_size > 0  BY IbAssumption, SMT
<1>5. BatchEnd(k) \in Nat /\ pos[k] < BatchEnd(k) /\ BatchEnd(k) <= End(k)
    BY <1>2, <1>3, <1>4, SMT DEF BatchEnd
<1> QED  BY <1>2, <1>3, <1>5

\* A task starts at the first offset of its part.
LEMMA TypeBegin ==
    ASSUME TypeOK, NEW k \in Part, NEW d \in Dataset, Begin(k, d),
           UNCHANGED <<count, by, main>>
    PROVE  TypeOK'
<1>1. count[d] \in Nat  BY DEF TypeOK
<1>2. /\ start_index(count[d], k) \in Nat
      /\ start_index(count[d], k) \in start_index(count[d], k)..end_part(count[d], k)
    BY <1>1, PartInQuery, SMT
<1>3. at' = [at EXCEPT ![k] = d] /\ pos' = [pos EXCEPT ![k] = start_index(count[d], k)]
    BY DEF Begin
<1>4. ASSUME NEW j \in Part, at'[j] \in Dataset
      PROVE  pos'[j] \in start_index(count[at'[j]], j)..end_part(count[at'[j]], j)
    BY <1>2, <1>3, <1>4 DEF TypeOK, End
<1> QED  BY <1>2, <1>3, <1>4 DEF TypeOK, End, start_index, end_part, chunk_size

\* Every step keeps the types, and every part within its offsets.
LEMMA TypeStep == TypeOK /\ [Next]_vars => TypeOK'
<1> SUFFICES ASSUME TypeOK, [Next]_vars PROVE TypeOK'  OBVIOUS
<1> USE DEF Outcome
<1>1. CASE ResetIndex \/ ResetFails \/ WaitEnd
    <2>1. /\ UNCHANGED <<count, at, pos>>
          /\ by' \in [Doc -> SUBSET (Part \cup {OLD})]
          /\ main' \in {"reset", "up"} \cup Outcome
        BY <1>1 DEF ResetIndex, ResetFails, WaitEnd, TypeOK
    <2> QED  BY <2>1 DEF TypeOK, End, start_index, end_part, chunk_size
<1>2. ASSUME NEW k \in Part, Start(k) PROVE TypeOK'
    BY <1>2, TypeBegin DEF Start, Dataset
<1>3. ASSUME NEW k \in Part, NextTask(k) PROVE TypeOK'
    <2>1. CASE at[k] = "mac"
        BY <1>3, <2>1, TypeBegin DEF NextTask, Dataset
    <2>2. CASE at[k] # "mac"
        BY <1>3, <2>2 DEF NextTask, TypeOK, End, start_index, end_part, chunk_size, Dataset
    <2> QED  BY <2>1, <2>2
<1>4. ASSUME NEW k \in Part, NEW rows PROVE Indexed(k, rows) \in [Doc -> SUBSET (Part \cup {OLD})]
    BY DEF Indexed, TypeOK
<1>5. ASSUME NEW k \in Part, IndexBatch(k) PROVE TypeOK'
    <2>1. BatchEnd(k) \in start_index(count[at[k]], k)..End(k)
        <3>1. at[k] \in Dataset /\ pos[k] < End(k)  BY <1>5 DEF IndexBatch
        <3> QED  BY <3>1, BatchInPart, SMT
    <2>2. BatchEnd(k) \in Nat  BY <1>5, BatchInPart DEF IndexBatch
    <2>3. /\ pos' = [pos EXCEPT ![k] = BatchEnd(k)]
          /\ UNCHANGED <<count, at, main>>
          /\ by' \in [Doc -> SUBSET (Part \cup {OLD})]
        BY <1>4, <1>5 DEF IndexBatch
    <2> QED  BY <2>1, <2>2, <2>3 DEF TypeOK, End, start_index, end_part, chunk_size
<1>6. ASSUME NEW k \in Part, BatchFails(k) PROVE TypeOK'
    <2>1. /\ at' = [at EXCEPT ![k] = "dead"]
          /\ UNCHANGED <<count, pos, main>>
          /\ by' \in [Doc -> SUBSET (Part \cup {OLD})]
        BY <1>4, <1>6 DEF BatchFails
    <2> QED  BY <2>1 DEF TypeOK, End, start_index, end_part, chunk_size, Dataset
<1>7. ASSUME NEW k \in Part, Dies(k) PROVE TypeOK'
    BY <1>7 DEF Dies, TypeOK, End, start_index, end_part, chunk_size, Dataset
<1>8. CASE UNCHANGED vars
    BY <1>8 DEF vars, TypeOK, End, start_index, end_part, chunk_size
<1> QED  BY <1>1, <1>2, <1>3, <1>5, <1>6, <1>7, <1>8 DEF Next

\* The types, and that no part leaves its range of offsets (94-113).
THEOREM TypeCorrect == Spec => []TypeOK
<1> QED  BY TypeInit, TypeStep, PTL DEF Spec
-----------------------------------------------------------------------------
Mine(k, x) == /\ start_index(count[x[1]], k) <= x[2]
              /\ x[2] < end_part(count[x[1]], k)

\* No part runs before the reset; after it every document is of a part that owns its
\* row; the script says yay of parts that have all ended well.
Owned == /\ main \in {"reset", "noreset"} => \A k \in Part : at[k] = "idle"
         /\ main \in {"up", "yay", "fail"} =>
               \A x \in Doc : \A k \in by[x] : k \in Part /\ Mine(k, x)
         /\ main = "yay" => \A k \in Part : at[k] = "ok"

\* No part has indexed a row at the start.
LEMMA OwnedInit == Init => Owned
<1> QED  BY DEF Init, Owned

\* A batch, whole or broken off, is of rows of the part.
LEMMA OwnedBatch ==
    ASSUME TypeOK, Owned, NEW k \in Part, at[k] \in Dataset, pos[k] < End(k),
           NEW rows, rows \subseteq pos[k]..(BatchEnd(k) - 1), by' = Indexed(k, rows),
           NEW x \in Doc, NEW j \in by'[x], main \in {"up", "yay", "fail"}
    PROVE  j \in Part /\ Mine(j, x)
<1>1. CASE j \in by[x]  BY <1>1 DEF Owned
<1>2. CASE j \notin by[x]
    <2>1. j = k /\ x[1] = at[k] /\ x[2] \in rows  BY <1>2 DEF Indexed
    <2>2. x[2] \in pos[k]..(BatchEnd(k) - 1)  BY <2>1
    <2>3. x[2] \in Nat  BY DEF Doc
    <2>4. start_index(count[at[k]], k) <= x[2] /\ x[2] < End(k)
        BY <2>2, <2>3, BatchInPart, SMT
    <2> QED  BY <2>1, <2>4 DEF Mine, End
<1> QED  BY <1>1, <1>2

\* A step indexes rows of its own part only (105-113).
LEMMA OwnedStep == TypeOK /\ Owned /\ [Next]_vars => Owned'
<1> SUFFICES ASSUME TypeOK, Owned, [Next]_vars PROVE Owned'  OBVIOUS
<1>1. CASE ResetIndex \/ ResetFails
    BY <1>1 DEF ResetIndex, ResetFails, Owned
<1>2. CASE WaitEnd
    <2>1. /\ main = "up" /\ UNCHANGED <<count, by, at, pos>>
          /\ main' \in {"yay", "fail"}
          /\ main' = "yay" => \A k \in Part : at[k] = "ok"
        BY <1>2 DEF WaitEnd, Over, Errors
    <2> QED  BY <2>1 DEF Owned, Mine, start_index, end_part, chunk_size
<1>3. ASSUME NEW k \in Part, Start(k) \/ NextTask(k) \/ Dies(k) PROVE Owned'
    <2>1. /\ UNCHANGED <<count, by, main>>
          /\ \A j \in Part : j # k => at'[j] = at[j]
          /\ main \notin {"reset", "noreset"} /\ main # "yay"
        <3>1. UNCHANGED <<count, by, main>> /\ \A j \in Part : j # k => at'[j] = at[j]
            BY <1>3 DEF Start, NextTask, Dies, Begin, TypeOK
        <3>2. main \notin {"reset", "noreset"} /\ main # "yay"
            BY <1>3 DEF Start, NextTask, Dies, Owned, Dataset
        <3> QED  BY <3>1, <3>2
    <2> QED  BY <2>1 DEF Owned, Mine, start_index, end_part, chunk_size
<1>4. ASSUME NEW k \in Part, IndexBatch(k) \/ BatchFails(k) PROVE Owned'
    <2>1. at[k] \in Dataset /\ pos[k] < End(k) /\ UNCHANGED <<count, main>>
        BY <1>4 DEF IndexBatch, BatchFails
    <2>2. main \in {"up", "fail"}
        <3>1. main \notin {"reset", "noreset", "yay"}
            BY <2>1 DEF Owned, Dataset
        <3> QED  BY <3>1 DEF TypeOK, Outcome
    <2>3. PICK rows : rows \subseteq pos[k]..(BatchEnd(k) - 1) /\ by' = Indexed(k, rows)
        <3>1. CASE IndexBatch(k)  BY <3>1 DEF IndexBatch
        <3>2. CASE BatchFails(k)
            <4>1. PICK sent \in pos[k]..BatchEnd(k) : by' = Indexed(k, pos[k]..(sent - 1))
                BY <3>2 DEF BatchFails
            <4>2. pos[k]..(sent - 1) \subseteq pos[k]..(BatchEnd(k) - 1)
                <5>1. pos[k] \in Nat /\ BatchEnd(k) \in Nat  BY <2>1, BatchInPart
                <5> QED  BY <5>1, SMT
            <4> QED  BY <4>1, <4>2
        <3> QED  BY <1>4, <3>1, <3>2
    <2>4. \A x \in Doc : \A j \in by'[x] : j \in Part /\ Mine(j, x)
        BY <2>1, <2>2, <2>3, OwnedBatch
    <2>5. \A x \in Doc : \A j \in Part : Mine(j, x)' = Mine(j, x)
        BY <2>1 DEF Mine, start_index, end_part, chunk_size
    <2> QED  BY <2>1, <2>2, <2>4, <2>5 DEF Owned
<1>5. CASE UNCHANGED vars
    BY <1>5 DEF vars, Owned, Mine, start_index, end_part, chunk_size
<1> QED  BY <1>1, <1>2, <1>3, <1>4, <1>5 DEF Next

\* Owned rows have one owner.
LEMMA OwnedOnce == TypeOK /\ Owned => OneWriter
<1> SUFFICES ASSUME TypeOK, Owned, main \in {"up", "yay", "fail"}, NEW x \in Doc
             PROVE  by[x] \subseteq Part /\ Cardinality(by[x]) <= 1
    BY DEF OneWriter
<1>1. \A k \in by[x] : k \in Part /\ Mine(k, x)  BY DEF Owned
<1>2. x[2] \in Nat /\ count[x[1]] \in Nat  BY DEF Doc, TypeOK
<1>3. ASSUME NEW j \in by[x], NEW k \in by[x], j < k PROVE FALSE
    <2>1. end_part(count[x[1]], j) <= start_index(count[x[1]], k)
        BY <1>1, <1>2, <1>3, PartsDisjoint
    <2>2. start_index(count[x[1]], k) <= x[2] /\ x[2] < end_part(count[x[1]], j)
        BY <1>1 DEF Mine
    <2>3. end_part(count[x[1]], j) \in Nat /\ start_index(count[x[1]], k) \in Nat
        BY <1>1, <1>2, PartInQuery
    <2> QED  BY <1>2, <2>1, <2>2, <2>3, SMT
<1>4. \A j, k \in by[x] : j = k
    <2> SUFFICES ASSUME NEW j \in by[x], NEW k \in by[x] PROVE j = k  OBVIOUS
    <2>1. j \in Int /\ k \in Int  BY <1>1 DEF Part
    <2>2. ~ (j < k) /\ ~ (k < j)  BY <1>3
    <2> QED  BY <2>1, <2>2, SMT
<1>5. CASE by[x] = {}  BY <1>5, FS_EmptySet, SMT
<1>6. CASE by[x] # {}
    <2>1. PICK k \in by[x] : by[x] = {k}  BY <1>4, <1>6
    <2>2. Cardinality(by[x]) = 1  BY <2>1, FS_Singleton
    <2> QED  BY <1>1, <2>2
<1> QED  BY <1>1, <1>5, <1>6

\* Whatever the rows, parts and batches, no document is indexed by two parts.
THEOREM NoDocumentTwice == Spec => []OneWriter
<1> QED  BY TypeInit, TypeStep, OwnedInit, OwnedStep, OwnedOnce, PTL DEF Spec
-----------------------------------------------------------------------------
\* A part that has come to offset pos has indexed all of its rows before pos, and
\* all of its activiteiten when it has started on the vestigingen.
IndexedUpTo ==
    \A k \in Part : \A x \in Doc :
       /\ \/ at[k] = x[1] /\ x[2] < pos[k]
          \/ at[k] \in {"ves", "ok"} /\ x[1] = "mac"
          \/ at[k] = "ok"
       /\ start_index(count[x[1]], k) <= x[2] /\ x[2] < end_part(count[x[1]], k)
       => x \in Present

\* The rows of part k before its offset.
Passed(k, x) == \/ at[k] = x[1] /\ x[2] < pos[k]
                \/ at[k] \in {"ves", "ok"} /\ x[1] = "mac"
                \/ at[k] = "ok"

\* Nothing is passed at the start.
LEMMA UpToInit == Init => IndexedUpTo
<1> QED  BY DEF Init, IndexedUpTo, Doc, Dataset

\* Indexing takes nothing away, and adds the rows of the batch.
LEMMA IndexedAdds ==
    ASSUME TypeOK, NEW k \in Part, NEW rows, NEW x \in Doc
    PROVE  /\ by[x] \subseteq Indexed(k, rows)[x]
           /\ x[1] = at[k] /\ x[2] \in rows => k \in Indexed(k, rows)[x]
<1> QED  BY DEF Indexed

\* A step that passes rows indexes them (105-113).
LEMMA UpToStep == TypeOK /\ Owned /\ IndexedUpTo /\ [Next]_vars => IndexedUpTo'
<1> SUFFICES ASSUME TypeOK, Owned, IndexedUpTo, [Next]_vars PROVE IndexedUpTo'
    OBVIOUS
<1>1. \A k \in Part : \A x \in Doc : Passed(k, x) /\ Mine(k, x) => by[x] # {}
    BY DEF IndexedUpTo, Passed, Mine, Present
<1>2. SUFFICES ASSUME NEW k \in Part, NEW x \in Doc, Passed(k, x)', Mine(k, x)'
               PROVE  by'[x] # {}
    BY DEF IndexedUpTo, Passed, Mine, Present
<1>3. x[1] \in Dataset /\ x[2] \in Nat  BY DEF Doc
<1>4. count' = count
    BY DEF Next, ResetIndex, ResetFails, WaitEnd, Start, IndexBatch, NextTask,
           BatchFails, Dies, vars
<1>5. Mine(k, x)
    BY <1>2, <1>4 DEF Mine, start_index, end_part, chunk_size
<1>6. CASE ResetIndex
    <2>1. at'[k] = "idle"  BY <1>6 DEF ResetIndex, Owned
    <2> QED  BY <1>2, <1>3, <2>1 DEF Passed, Dataset
<1>7. CASE ResetFails \/ WaitEnd \/ UNCHANGED vars
    <2>1. by' = by /\ at' = at /\ pos' = pos
        BY <1>7 DEF ResetFails, WaitEnd, vars
    <2> QED  BY <1>1, <1>2, <1>5, <2>1 DEF Passed
<1>8. ASSUME NEW j \in Part, NEW d \in Dataset, Begin(j, d), by' = by,
             at[j] = (IF d = "mac" THEN "idle" ELSE "mac"),
             d = "ves" => pos[j] >= End(j)
      PROVE  by'[x] # {}
    <2>1. CASE j # k
        <3>1. at'[k] = at[k] /\ pos'[k] = pos[k]  BY <1>8, <2>1 DEF Begin, TypeOK
        <3> QED  BY <1>1, <1>2, <1>5, <1>8, <3>1 DEF Passed
    <2>2. CASE j = k
        <3>1. at'[k] = d /\ pos'[k] = start_index(count[d], k)
            BY <1>8, <2>2 DEF Begin, TypeOK
        <3>2. ~ (x[1] = d /\ x[2] < pos'[k])
            <4>1. CASE x[1] = d
                <5>1. start_index(count[d], k) <= x[2]  BY <1>5, <4>1 DEF Mine
                <5>2. start_index(count[d], k) \in Nat
                    BY PartInQuery DEF TypeOK
                <5> QED  BY <1>3, <3>1, <5>1, <5>2, SMT
            <4> QED  BY <4>1
        <3>3. d = "ves" /\ x[1] = "mac"
            BY <1>2, <3>1, <3>2 DEF Passed, Dataset
        <3>4. x[2] < pos[k]
            <4>1. at[k] = "mac" /\ pos[k] >= End(k) /\ End(k) = end_part(count["mac"], k)
                BY <1>8, <2>2, <3>3 DEF End
            <4>2. x[2] < end_part(count["mac"], k)  BY <1>5, <3>3 DEF Mine
            <4>3. end_part(count["mac"], k) \in Nat /\ pos[k] \in Nat
                BY PartInQuery DEF TypeOK, Dataset
            <4> QED  BY <1>3, <4>1, <4>2, <4>3, SMT
        <3> QED  BY <1>1, <1>5, <1>8, <2>2, <3>3, <3>4 DEF Passed
    <2> QED  BY <2>1, <2>2
<1>9. ASSUME NEW j \in Part, Start(j) PROVE by'[x] # {}
    BY <1>8, <1>9 DEF Start, Dataset
<1>10. ASSUME NEW j \in Part, NextTask(j) PROVE by'[x] # {}
    <2>1. CASE at[j] = "mac"
        BY <1>8, <1>10, <2>1 DEF NextTask, Dataset
    <2>2. CASE at[j] # "mac" /\ j # k
        <3>1. at'[k] = at[k] /\ pos' = pos /\ by' = by
            BY <1>10, <2>2 DEF NextTask, TypeOK
        <3> QED  BY <1>1, <1>2, <1>5, <3>1 DEF Passed
    <2>3. CASE at[j] # "mac" /\ j = k
        <3>1. at[k] = "ves" /\ pos[k] >= End(k) /\ by' = by
            BY <1>10, <2>3 DEF NextTask, Dataset
        <3>2. CASE x[1] = "mac"
            BY <1>1, <1>5, <3>1, <3>2 DEF Passed
        <3>3. CASE x[1] = "ves"
            <4>1. x[2] < End(k)  BY <1>5, <3>1, <3>3 DEF Mine, End
            <4>2. End(k) \in Nat /\ pos[k] \in Nat
                BY <3>1, PartInQuery DEF TypeOK, Dataset, End
            <4>3. x[2] < pos[k]  BY <1>3, <3>1, <4>1, <4>2, SMT
            <4> QED  BY <1>1, <1>5, <3>1, <3>3, <4>3 DEF Passed
        <3> QED  BY <1>3, <3>1, <3>2, <3>3 DEF Dataset
    <2> QED  BY <2>1, <2>2, <2>3
<1>11. ASSUME NEW j \in Part, IndexBatch(j) PROVE by'[x] # {}
    <2>1. /\ at' = at /\ by' = Indexed(j, pos[j]..(BatchEnd(j) - 1))
          /\ pos' = [pos EXCEPT ![j] = BatchEnd(j)]
        BY <1>11 DEF IndexBatch
    <2>2. CASE by[x] # {}
        BY <2>1, <2>2, IndexedAdds
    <2>3. CASE ~ Passed(k, x)
        <3>1. k = j /\ at[k] = x[1] /\ x[2] < BatchEnd(k) /\ ~ (x[2] < pos[k])
            BY <1>2, <2>1, <2>3 DEF Passed, TypeOK
        <3>2. pos[k] \in Nat /\ BatchEnd(k) \in Nat
            BY <1>11, <3>1, BatchInPart DEF IndexBatch
        <3>3. x[2] \in pos[k]..(BatchEnd(k) - 1)
            BY <1>3, <3>1, <3>2, SMT
        <3> QED  BY <2>1, <3>1, <3>3, IndexedAdds
    <2> QED  BY <1>1, <1>5, <2>2, <2>3
<1>12. ASSUME NEW j \in Part, BatchFails(j) PROVE by'[x] # {}
    <2>1. PICK rows : by' = Indexed(j, rows)
        BY <1>12 DEF BatchFails
    <2>2. at' = [at EXCEPT ![j] = "dead"] /\ pos' = pos
        BY <1>12 DEF BatchFails
    <2>3. at'[k] = at[k]
        BY <1>2, <1>3, <2>2 DEF Passed, TypeOK, Dataset
    <2>4. by[x] # {}
        BY <1>1, <1>2, <1>5, <2>2, <2>3 DEF Passed
    <2> QED  BY <2>1, <2>4, IndexedAdds
<1>13. ASSUME NEW j \in Part, Dies(j) PROVE by'[x] # {}
    <2>1. at' = [at EXCEPT ![j] = "dead"] /\ pos' = pos /\ by' = by
        BY <1>13 DEF Dies
    <2>2. at'[k] = at[k]
        BY <1>2, <1>3, <2>1 DEF Passed, TypeOK, Dataset
    <2> QED  BY <1>1, <1>2, <1>5, <2>1, <2>2 DEF Passed
<1> QED  BY <1>6, <1>7, <1>9, <1>10, <1>11, <1>12, <1>13 DEF Next

\* After the reset there are documents of rows only.
LEMMA OwnedAreRows ==
    ASSUME TypeOK, Owned, main \in {"up", "yay", "fail"}
    PROVE  Present \subseteq Row("mac") \cup Row("ves")
<1> SUFFICES ASSUME NEW x \in Present PROVE x \in Row("mac") \cup Row("ves")
    OBVIOUS
<1>1. x \in Doc  BY DEF Present
<1>2. PICK k \in by[x] : k \in Part /\ Mine(k, x)
    BY <1>1 DEF Present, Owned
<1>3. /\ count[x[1]] \in Nat /\ x[2] \in Nat /\ x[1] \in Dataset
      /\ x = <<x[1], x[2]>>
    BY <1>1 DEF Doc, TypeOK
<1>4. x[2] < end_part(count[x[1]], k)  BY <1>2 DEF Mine
<1>5. x[2] \in 0..(count[x[1]] - 1)
    BY <1>2, <1>3, <1>4, PartInQuery, SMT
<1> QED  BY <1>3, <1>5 DEF Row, Dataset

\* When all parts are through, the documents are the rows of the two queries.
LEMMA ExactAtTheEnd == TypeOK /\ Owned /\ IndexedUpTo => YayExact
<1> SUFFICES ASSUME TypeOK, Owned, IndexedUpTo, main = "yay"
             PROVE  Present = Row("mac") \cup Row("ves")
    BY DEF YayExact
<1>1. Present \subseteq Row("mac") \cup Row("ves")  BY OwnedAreRows
<1>2. ASSUME NEW d \in Dataset, NEW r \in 0..(count[d] - 1)
      PROVE  <<d, r>> \in Present
    <2>1. count[d] \in 0..MaxCount  BY DEF TypeOK
    <2>2. <<d, r>> \in Doc
        <3>1. r \in 0..(MaxCount - 1)  BY <2>1, IbAssumption, SMT
        <3> QED  BY <3>1 DEF Doc
    <2>3. PICK k \in Part : start_index(count[d], k) <= r /\ r < end_part(count[d], k)
        BY <2>1, PartsCover
    <2>4. at[k] = "ok"  BY DEF Owned
    <2> QED  BY <2>2, <2>3, <2>4 DEF IndexedUpTo
<1> QED  BY <1>1, <1>2 DEF Row, Dataset

\* A part has indexed all it has passed, in every batch size and division (105-113).
THEOREM NothingSkipped == Spec => []IndexedUpTo
<1> QED  BY TypeInit, TypeStep, OwnedInit, OwnedStep, UpToInit, UpToStep, PTL DEF Spec

\* The index that is backed up holds exactly the rows of the two queries.
THEOREM IndexIsExact == Spec => []YayExact
<1> QED  BY TypeInit, TypeStep, OwnedInit, OwnedStep, UpToInit, UpToStep,
           ExactAtTheEnd, PTL DEF Spec
-----------------------------------------------------------------------------
\* What the abstract store wants, holds and reports, seen from here.
Wanted == Row("mac") \cup Row("ves")
Stored == IF main \in {"reset", "noreset"} THEN {} ELSE Present
Result == CASE main \in {"reset", "up"} -> "running"
            [] main = "noreset" -> "fail"
            [] OTHER -> main

\* Every step of the containers and the script is one of StoreAbs, or none.
LEMMA StepImplements ==
    ASSUME TypeOK, TypeOK', Owned, Owned', YayExact', [Next]_vars
    PROVE  Abs!Next \/ UNCHANGED <<Wanted, Stored, Result>>
<1>1. count' = count
    BY DEF Next, ResetIndex, ResetFails, WaitEnd, Start, IndexBatch, NextTask,
           BatchFails, Dies, vars
<1>2. Wanted' = Wanted  BY <1>1 DEF Wanted, Row
<1>3. CASE ResetIndex
    <2>1. Present' = {}  BY <1>3 DEF ResetIndex, Present
    <2> QED  BY <1>2, <1>3, <2>1 DEF ResetIndex, Stored, Result
<1>4. CASE ResetFails
    <2>1. Result = "running" /\ Result' = "fail" /\ Stored' = Stored
        BY <1>4 DEF ResetFails, Result, Stored
    <2> QED  BY <1>2, <2>1 DEF Abs!Next, Abs!Fail, Wanted, Stored, Result
<1>5. CASE WaitEnd
    <2>1. main = "up" /\ main' \in {"yay", "fail"} /\ Present' = Present
        BY <1>5 DEF WaitEnd, Present
    <2>2. Result = "running" /\ Result' = main' /\ Stored' = Stored /\ Stored = Present
        BY <2>1 DEF Result, Stored
    <2>3. CASE main' = "fail"
        BY <1>2, <2>2, <2>3 DEF Abs!Next, Abs!Fail, Wanted, Stored, Result
    <2>4. CASE main' = "yay"
        <3>1. Stored = Wanted
            BY <1>2, <2>1, <2>2, <2>4 DEF YayExact, Wanted
        <3> QED  BY <1>2, <2>2, <2>4, <3>1 DEF Abs!Next, Abs!Succeed, Wanted, Stored, Result
    <2> QED  BY <2>1, <2>3, <2>4
<1>6. ASSUME NEW k \in Part, Start(k) \/ NextTask(k) \/ Dies(k)
      PROVE  UNCHANGED <<Wanted, Stored, Result>>
    <2>1. by' = by /\ main' = main  BY <1>6 DEF Start, NextTask, Dies
    <2> QED  BY <1>2, <2>1 DEF Stored, Result, Present
<1>7. ASSUME NEW k \in Part, IndexBatch(k) \/ BatchFails(k)
      PROVE  Abs!Store
    <2>1. main' = main /\ main \in {"up", "yay", "fail"}
        <3>1. main' = main /\ at[k] \in Dataset  BY <1>7 DEF IndexBatch, BatchFails
        <3>2. main \notin {"reset", "noreset"}  BY <3>1 DEF Owned, Dataset
        <3> QED  BY <3>1, <3>2 DEF TypeOK, Outcome
    <2>2. PICK rows : by' = Indexed(k, rows)
        BY <1>7 DEF IndexBatch, BatchFails
    <2>3. Present \subseteq Present'
        BY <2>2, IndexedAdds DEF Present
    <2>4. Present' \subseteq Wanted'
        <3>1. (main \in {"up", "yay", "fail"})'  BY <2>1
        <3>2. TypeOK /\ Owned /\ main \in {"up", "yay", "fail"} => Present \subseteq Wanted
            BY OwnedAreRows DEF Wanted
        <3>3. (TypeOK /\ Owned /\ main \in {"up", "yay", "fail"} => Present \subseteq Wanted)'
            BY OwnedAreRows, PTL DEF Wanted
        <3> QED  BY <3>1, <3>3
    <2>5. Stored = Present /\ Stored' = Present' /\ Result' = Result
        BY <2>1 DEF Stored, Result
    <2> DEFINE S == Present' \ Present
    <2>6. S \in SUBSET (Wanted \ Stored) /\ Stored' = Stored \cup S
        BY <1>2, <2>3, <2>4, <2>5
    <2>7. \E T \in SUBSET (Wanted \ Stored) : Stored' = Stored \cup T
        <3> HIDE DEF S
        <3> QED  BY <2>6
    <2> QED  BY <1>2, <2>5, <2>7 DEF Abs!Store, Wanted, Stored, Result
<1>8. CASE UNCHANGED vars
    BY <1>8 DEF vars, Wanted, Row, Stored, Result, Present
<1> QED  BY <1>3, <1>4, <1>5, <1>6, <1>7, <1>8 DEF Next, Abs!Next

\* The containers and the script implement StoreAbs: after the reset documents are
\* only added, and the script goes on with a complete index only (import.sh 28-54).
THEOREM BuildImplements == Spec => Implements
<1>1. Init => Abs!Init
    BY DEF Init, Abs!Init
<1>2. /\ TypeOK /\ TypeOK' /\ Owned /\ Owned' /\ YayExact' /\ [Next]_vars
      => [Abs!Next]_<<Row("mac") \cup Row("ves"),
                      IF main \in {"reset", "noreset"} THEN {} ELSE Present,
                      CASE main \in {"reset", "up"} -> "running"
                        [] main = "noreset" -> "fail"
                        [] OTHER -> main>>
    BY StepImplements DEF Wanted, Stored, Result
<1> QED  BY <1>1, <1>2, TypeInit, TypeStep, OwnedInit, OwnedStep, IndexIsExact,
            PTL DEF Spec, Implements, Abs!Spec
=============================================================================
