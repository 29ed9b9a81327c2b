---------------------------- MODULE SbiCodesProofs ----------------------------
(***************************************************************************)
(* Proofs about SbiCodes, for every hierarchy, dump and number of kills.   *)
(*                                                                         *)
(* The inductive invariant says what holds at every step of the process:   *)
(* the activiteiten that still need a repair are the ones in the rows of   *)
(* the loop, and the repair of every code has the same result as that of   *)
(* the code in the dump.                                                   *)
(***************************************************************************)
EXTENDS SbiCodes, FiniteSetTheorems, TLAPS

\* Activiteit a has to get a zero in front of code c.
NeedsZero(a, c) == a \in Owned /\ Zero[c] \in Hier /\ (c \notin Hier \/ a \in ZeroCloser)

Settled(a) == ~NeedsZero(a, sbi_code[a]) /\ sbi_code[a] \notin Ones \cup Twos

\* Rows the two queries of validate can give.
ZeroNeed == {r \in Owned \X Code : Zero[r[2]] \in Hier}
Doubt    == {r \in ZeroNeed : r[2] \in Hier}

NoZeroLeft == \A a \in Act : ~NeedsZero(a, sbi_code[a])
Placed     == \A a \in Owned : sbi_code[a] \in KG \ Root => ~NoQa(sbi_code[a])

AtCreate == todo \subseteq Hier /\ Stored = Hier \ todo

AtZero == /\ todo \subseteq ZeroNeed /\ ambiguous \subseteq Doubt
          /\ todo \cap Doubt \subseteq ambiguous
          /\ \A r \in ambiguous : sbi_code[r[1]] = r[2]
          /\ \A a \in Owned : Zero[sbi_code[a]] \in Hier =>
                IF sbi_code[a] \in Hier THEN <<a, sbi_code[a]>> \in ambiguous
                                        ELSE <<a, sbi_code[a]>> \in todo

AtAmbiguous == /\ todo \subseteq Doubt
               /\ \A r \in todo : sbi_code[r[1]] = r[2]
               /\ \A a \in Act : NeedsZero(a, sbi_code[a]) => <<a, sbi_code[a]>> \in todo

AtManual == NoZeroLeft /\ \A c \in todo : NoQa(c)

AtKaring == /\ NoZeroLeft /\ \A c \in todo : NoQa(c)
            /\ \A a \in Owned : sbi_code[a] \in KG \ Root /\ NoQa(sbi_code[a])
                                => sbi_code[a] \in todo

AtOnes == /\ NoZeroLeft /\ Placed /\ todo \subseteq Act
          /\ \A a \in Act : sbi_code[a] \in Ones <=> a \in todo

AtTwos == /\ NoZeroLeft /\ Placed /\ todo \subseteq Act
          /\ \A a \in Act : sbi_code[a] \notin Ones /\ (sbi_code[a] \in Twos <=> a \in todo)

AtDone == /\ Placed
          /\ \A a \in Act : /\ Settled(a)
                            /\ sbi_code[a] \in Hier => sbi_code_tree[a] = sbi_code[a]

StepInv == /\ step = "create"    => AtCreate
           /\ step = "zero"      => AtZero
           /\ step = "ambiguous" => AtAmbiguous
           /\ step = "manual"    => AtManual
           /\ step = "karing"    => AtKaring
           /\ step = "ones"      => AtOnes
           /\ step = "twos"      => AtTwos
           /\ step = "done"      => AtDone

SameRepair == \A a \in Act : Repaired(a, sbi_code[a]) = Repaired(a, dump[a])

\* Only what needs no repair any more is linked.
LinkSettled == \A a \in Act : sbi_code_tree[a] # NULL =>
                  sbi_code_tree[a] = sbi_code[a] /\ Settled(a)

IInv == TypeOK /\ StepInv /\ SameRepair /\ LinkSettled
-----------------------------------------------------------------------------
(* What the repairs make of one code *)

\* A zero in front of a code does not change what it is repaired to (325-395).
LEMMA RepairZero ==
    ASSUME NEW a \in Act, NEW c \in Code, NeedsZero(a, c)
    PROVE  /\ Repaired(a, Zero[c]) = Repaired(a, c)
           /\ ~NeedsZero(a, Zero[c]) /\ Zero[c] \in Code
<1>1. Zero[c] \in Code /\ Zero[Zero[c]] \notin Hier
  BY SbiAssumption, HierAssumption DEF NeedsZero
<1>2. ~NeedsZero(a, Zero[c])
  BY <1>1 DEF NeedsZero
<1>3. QED
  BY <1>1, <1>2 DEF Repaired, NeedsZero

\* The defaults for 1 and 2 are repaired to themselves (555-576).
LEMMA RepairDefault ==
    ASSUME NEW a \in Act, NEW c \in Code, ~NeedsZero(a, c)
    PROVE  /\ c \in Ones => Repaired(a, ONE) = Repaired(a, c)
           /\ c \in Twos => Repaired(a, TWO) = Repaired(a, c)
           /\ ~NeedsZero(a, ONE) /\ ~NeedsZero(a, TWO)
<1>1. /\ ~NeedsZero(a, ONE) /\ ~NeedsZero(a, TWO)
      /\ ONE \notin Ones \cup Twos /\ TWO \notin Ones \cup Twos
  BY HierAssumption DEF NeedsZero
<1>2. Repaired(a, ONE) = ONE /\ Repaired(a, TWO) = TWO
  BY <1>1 DEF Repaired, NeedsZero
<1>3. c \in Ones => Repaired(a, c) = ONE
  BY HierAssumption DEF Repaired, NeedsZero
<1>4. c \in Twos => Repaired(a, c) = TWO
  BY HierAssumption DEF Repaired, NeedsZero
<1>5. QED
  BY <1>1, <1>2, <1>3, <1>4

\* A code that needs no repair is repaired to itself.
LEMMA RepairSettled ==
    ASSUME NEW a \in Act, NEW c \in Code, ~NeedsZero(a, c), c \notin Ones \cup Twos
    PROVE  Repaired(a, c) = c
BY DEF Repaired, NeedsZero

\* get() has an answer only when one activiteit has the code (334).
LEMMA GetOne ==
    ASSUME NEW r, Cardinality(Get(r)) = 1
    PROVE  \E a \in Act : /\ Get(r) = {a}
                          /\ owner[a] = owner[r[1]] /\ sbi_code[a] = r[2]
<1>1. IsFiniteSet(Get(r))
  BY SbiAssumption, FS_Subset DEF Get
<1>2. PICK a : Get(r) = {a}
  BY <1>1, FS_Singleton
<1>3. QED
  BY <1>2 DEF Get

\* What PutZero does to the codes, when get() has its one answer.
LEMMA PutZeroOne ==
    ASSUME TypeOK, NEW r \in ZeroNeed, PutZero(r), Cardinality(Get(r)) = 1
    PROVE  \E a \in Owned :
              /\ Get(r) = {a} /\ sbi_code[a] = r[2] /\ owner[a] = owner[r[1]]
              /\ sbi_code' = [sbi_code EXCEPT ![a] = Zero[r[2]]]
              /\ todo' = todo \ {r} /\ step' = step /\ ambiguous' = ambiguous
<1>1. PICK a \in Act : Get(r) = {a} /\ owner[a] = owner[r[1]] /\ sbi_code[a] = r[2]
  BY GetOne
<1>2. a \in Owned
  BY <1>1 DEF ZeroNeed, Owned
<1>3. sbi_code' = [x \in Act |-> IF x = a THEN Zero[r[2]] ELSE sbi_code[x]]
  BY <1>1 DEF PutZero
<1>4. sbi_code' = [sbi_code EXCEPT ![a] = Zero[r[2]]]
  BY <1>1, <1>3 DEF TypeOK
<1>5. QED
  BY <1>1, <1>2, <1>4 DEF PutZero

\* Otherwise the process ends, and no code is written.
LEMMA PutZeroRaise ==
    ASSUME NEW r, PutZero(r), Cardinality(Get(r)) # 1
    PROVE  step' = "failed" /\ sbi_code' = sbi_code
BY DEF PutZero, Raise

\* Putting a zero in front of the code of one activiteit that needs it keeps the
\* result of its repair, and every link.
LEMMA PutZeroKeeps ==
    ASSUME TypeOK, SameRepair, LinkSettled, NEW a \in Owned, NeedsZero(a, sbi_code[a]),
           sbi_code' = [sbi_code EXCEPT ![a] = Zero[sbi_code[a]]],
           sbi_code_tree' = sbi_code_tree, dump' = dump
    PROVE  SameRepair' /\ LinkSettled'
<1>1. a \in Act /\ sbi_code[a] \in Code
  BY DEF TypeOK, Owned
<1>2. /\ sbi_code'[a] = Zero[sbi_code[a]]
      /\ \A b \in Act : b # a => sbi_code'[b] = sbi_code[b]
  BY <1>1 DEF TypeOK
<1>3. Repaired(a, Zero[sbi_code[a]]) = Repaired(a, sbi_code[a])
  BY <1>1, RepairZero
<1>4. SameRepair'
  <2>1. \A b \in Act : Repaired(b, sbi_code'[b]) = Repaired(b, sbi_code[b])
    BY <1>2, <1>3
  <2>2. QED
    BY <2>1 DEF SameRepair, Repaired
<1>5. sbi_code_tree[a] = NULL
  BY <1>1 DEF LinkSettled, Settled
<1>6. LinkSettled'
  <2>1. SUFFICES ASSUME NEW b \in Act, sbi_code_tree[b] # NULL
                 PROVE  sbi_code_tree[b] = sbi_code'[b] /\ Settled(b)'
    BY DEF LinkSettled
  <2>2. sbi_code'[b] = sbi_code[b]
    BY <1>2, <1>5, <2>1
  <2>3. QED
    BY <2>1, <2>2 DEF LinkSettled, Settled, NeedsZero
<1>7. QED
  BY <1>4, <1>6

\* So does the default for a code that needs no zero.
LEMMA DefaultKeeps ==
    ASSUME TypeOK, SameRepair, LinkSettled, NEW a \in Act, NEW c,
           ~NeedsZero(a, sbi_code[a]),
           (c = ONE /\ sbi_code[a] \in Ones) \/ (c = TWO /\ sbi_code[a] \in Twos),
           sbi_code' = [sbi_code EXCEPT ![a] = c],
           sbi_code_tree' = sbi_code_tree, dump' = dump
    PROVE  SameRepair' /\ LinkSettled'
<1>1. sbi_code[a] \in Code
  BY DEF TypeOK
<1>2. sbi_code'[a] = c /\ \A b \in Act : b # a => sbi_code'[b] = sbi_code[b]
  BY DEF TypeOK
<1>3. Repaired(a, c) = Repaired(a, sbi_code[a])
  BY <1>1, RepairDefault
<1>4. SameRepair'
  <2>1. \A b \in Act : Repaired(b, sbi_code'[b]) = Repaired(b, sbi_code[b])
    BY <1>2, <1>3
  <2>2. QED
    BY <2>1 DEF SameRepair, Repaired
<1>5. sbi_code_tree[a] = NULL
  BY DEF LinkSettled, Settled
<1>6. LinkSettled'
  <2>1. SUFFICES ASSUME NEW b \in Act, sbi_code_tree[b] # NULL
                 PROVE  sbi_code_tree[b] = sbi_code'[b] /\ Settled(b)'
    BY DEF LinkSettled
  <2>2. sbi_code'[b] = sbi_code[b]
    BY <1>2, <1>5, <2>1
  <2>3. QED
    BY <2>1, <2>2 DEF LinkSettled, Settled, NeedsZero
<1>7. QED
  BY <1>4, <1>6

\* As long as no code and no link changes, both are kept.
LEMMA CodesKept ==
    ASSUME SameRepair, LinkSettled,
           UNCHANGED <<sbi_code, sbi_code_tree, dump>>
    PROVE  SameRepair' /\ LinkSettled'
BY DEF SameRepair, LinkSettled, Settled, NeedsZero, Repaired
-----------------------------------------------------------------------------
(* The invariant *)

\* The invariant holds before the first load.
LEMMA InvInit == Init => IInv
<1>1. Init => TypeOK
  BY SbiAssumption DEF Init, TypeOK, Stored, Steps
<1>2. QED
  BY <1>1 DEF Init, IInv, StepInv, SameRepair, LinkSettled

\* Emptying and filling the hierarchy (69-82, 311-362).
LEMMA InvLoad == IInv /\ Load => IInv'
<1> SUFFICES ASSUME IInv, Load PROVE IInv'
  OBVIOUS
<1> USE DEF IInv
<1>1. CASE CleanKey
  <2>1. TypeOK' /\ StepInv'
    BY <1>1 DEF CleanKey, Loop, restOfLoad, TypeOK, Steps, Stored, StepInv
  <2>2. SameRepair' /\ LinkSettled'
    BY <1>1 DEF CleanKey, restOfLoad, SameRepair, Repaired, LinkSettled
  <2>3. QED
    BY <2>1, <2>2
<1>2. CASE DeleteOld
  <2>1. TypeOK' /\ StepInv'
    BY <1>2 DEF DeleteOld, Loop, restOfLoad, TypeOK, Steps, Stored, StepInv, AtCreate
  <2>2. QED
    BY <1>2, <2>1, CodesKept DEF DeleteOld, restOfLoad
<1>3. CASE LoadDone
  <2>1. TypeOK' /\ StepInv'
    BY <1>3 DEF LoadDone, Loop, restOfLoad, TypeOK, Steps, Stored, StepInv, AtCreate
  <2>2. QED
    BY <1>3, <2>1, CodesKept DEF LoadDone, restOfLoad
<1>4. ASSUME NEW c \in todo, CreateRow(c) PROVE IInv'
  <2>1. c \in Hier /\ AtCreate /\ step = "create" /\ step' = "create"
    BY <1>4 DEF CreateRow, StepInv, AtCreate
  <2>2. DOMAIN qa_tree' = Stored \cup {c}
    BY <1>4 DEF CreateRow
  <2>3. \A d \in Stored \cup {c} : qa_tree'[d] \in Qa
    BY <1>4 DEF CreateRow, TypeOK, Qa, Stored
  <2>4. TypeOK'
    BY <1>4, <2>1, <2>2, <2>3 DEF CreateRow, restOfLoad, TypeOK, Stored
  <2>5. StepInv'
    BY <1>4, <2>1, <2>2 DEF CreateRow, AtCreate, Stored, StepInv
  <2>6. QED
    BY <1>4, <2>4, <2>5, CodesKept DEF CreateRow, restOfLoad
<1>5. QED
  BY <1>1, <1>2, <1>3, <1>4 DEF Load

\* While the process validates, the hierarchy is complete.
LEMMA Complete ==
    ASSUME TypeOK, step \in {"validate", "zero", "ambiguous", "manual", "karing",
                             "ones", "twos", "done"}
    PROVE  Stored = Hier
BY DEF TypeOK

\* The two queries are read at the same time, before the first repair (602-604).
LEMMA InvRead == IInv /\ Read => IInv'
<1> SUFFICES ASSUME IInv, Read PROVE IInv'
  OBVIOUS
<1> USE DEF IInv
<1>1. Stored = Hier /\ step' = "zero" /\ todo' = ZeroRows /\ ambiguous' = AmbiguousRows
      /\ UNCHANGED <<sbi_code, sbi_code_tree, qa_tree, stage, crashes, dump>>
  BY Complete DEF Read, Loop, restOfValidate
<1>2. TypeOK'
  BY <1>1 DEF Read, Loop, TypeOK, Steps, Stored
<1>3. ZeroRows \subseteq ZeroNeed /\ AmbiguousRows = ZeroRows \cap Doubt
  BY <1>1 DEF ZeroRows, AmbiguousRows, ZeroNeed, Doubt, Owned, TypeOK
<1>4. \A r \in AmbiguousRows : sbi_code[r[1]] = r[2]
  BY DEF AmbiguousRows, ZeroRows
<1>5. \A a \in Owned : Zero[sbi_code[a]] \in Hier =>
        /\ <<a, sbi_code[a]>> \in ZeroRows
        /\ sbi_code[a] \in Hier => <<a, sbi_code[a]>> \in AmbiguousRows
  BY <1>1 DEF ZeroRows, AmbiguousRows
<1>6. AtZero'
  BY <1>1, <1>3, <1>4, <1>5 DEF AtZero
<1>7. QED
  BY <1>1, <1>2, <1>6, CodesKept DEF StepInv

\* A row of which nothing is written: an ambiguous code in the first loop, and one
\* whose description fits it better than the code with the zero in the second.
LEMMA InvSkip ==
    ASSUME IInv, NEW r \in todo, Skip(r), UNCHANGED <<sbi_code_tree, qa_tree, stage, crashes, dump>>,
           \/ step = "zero" /\ r[2] \in ambiguous_set
           \/ step = "ambiguous" /\ r[1] \notin ZeroCloser
    PROVE  IInv'
<1> USE DEF IInv
<1>1. UNCHANGED <<sbi_code, step, ambiguous>> /\ todo' = todo \ {r}
  BY DEF Skip
<1>2. TypeOK'
  BY <1>1 DEF TypeOK, Stored
<1>3. CASE step = "zero" /\ r[2] \in ambiguous_set
  <2>1. r[2] \in Hier
    BY <1>3 DEF ambiguous_set, StepInv, AtZero, Doubt
  <2>2. AtZero'
    BY <1>1, <1>3, <2>1 DEF StepInv, AtZero
  <2>3. QED
    BY <1>1, <1>2, <1>3, <2>2, CodesKept DEF StepInv
<1>4. CASE step = "ambiguous" /\ r[1] \notin ZeroCloser
  <2>1. AtAmbiguous /\ r \in Doubt
    BY <1>4 DEF StepInv, AtAmbiguous
  <2>2. \A a \in Act : NeedsZero(a, sbi_code[a]) => <<a, sbi_code[a]>> \in todo \ {r}
    BY <1>4, <2>1 DEF AtAmbiguous, NeedsZero, Doubt
  <2>3. AtAmbiguous'
    BY <1>1, <2>1, <2>2 DEF AtAmbiguous, NeedsZero
  <2>4. QED
    BY <1>1, <1>2, <1>4, <2>3, CodesKept DEF StepInv
<1>5. QED
  BY <1>3, <1>4

\* A row whose activiteit gets a zero in front of its code.  The first loop may write
\* another activiteit than the one of the row, with the same code; the second cannot.
LEMMA InvPut ==
    ASSUME IInv, NEW r \in todo, PutZero(r), UNCHANGED <<sbi_code_tree, qa_tree, stage, crashes, dump>>,
           \/ step = "zero" /\ r[2] \notin ambiguous_set
           \/ step = "ambiguous" /\ r[1] \in ZeroCloser
    PROVE  IInv'
<1> USE DEF IInv
<1>1. r \in ZeroNeed
  BY DEF StepInv, AtZero, AtAmbiguous, Doubt
<1>2. CASE Cardinality(Get(r)) # 1
  <2>1. step' = "failed" /\ sbi_code' = sbi_code
    BY <1>2, PutZeroRaise
  <2>2. TypeOK' /\ StepInv'
    BY <2>1 DEF TypeOK, Stored, Steps, StepInv
  <2>3. QED
    BY <2>1, <2>2, CodesKept
<1>3. CASE Cardinality(Get(r)) = 1
  <2>1. PICK a \in Owned :
           /\ Get(r) = {a} /\ sbi_code[a] = r[2] /\ owner[a] = owner[r[1]]
           /\ sbi_code' = [sbi_code EXCEPT ![a] = Zero[r[2]]]
           /\ todo' = todo \ {r} /\ step' = step /\ ambiguous' = ambiguous
    BY <1>1, <1>3, PutZeroOne
  <2>2. a \in Act /\ r[2] \in Code /\ Zero[r[2]] \in Hier /\ r[1] \in Owned /\ r[1] \in Act
        /\ r = <<r[1], r[2]>>
    BY <1>1 DEF Owned, ZeroNeed
  <2>3. /\ sbi_code'[a] = Zero[r[2]]
        /\ \A b \in Act : b # a => sbi_code'[b] = sbi_code[b]
    BY <2>1, <2>2 DEF TypeOK
  <2>4. TypeOK'
    BY <2>1, <2>2, SbiAssumption DEF TypeOK, Stored
  <2>5. sbi_code[r[1]] = r[2] => r[1] = a
    BY <2>1, <2>2 DEF Get
  <2>6. NeedsZero(a, sbi_code[a])
    <3>1. CASE step = "zero" /\ r[2] \notin ambiguous_set
      <4>1. r \notin ambiguous
        BY <3>1 DEF ambiguous_set
      <4>2. r[2] \notin Hier
        BY <1>1, <3>1, <4>1 DEF StepInv, AtZero, Doubt
      <4>3. QED
        BY <2>1, <2>2, <4>2 DEF NeedsZero
    <3>2. CASE step = "ambiguous" /\ r[1] \in ZeroCloser
      BY <2>1, <2>2, <2>5, <3>2 DEF StepInv, AtAmbiguous, NeedsZero
    <3>3. QED
      BY <3>1, <3>2
  <2>7. SameRepair' /\ LinkSettled'
    BY <2>1, <2>6, PutZeroKeeps
  <2>8. ~NeedsZero(a, sbi_code'[a]) /\ Zero[sbi_code'[a]] \notin Hier
    BY <2>1, <2>2, <2>3, <2>6, RepairZero, HierAssumption
  <2>9. CASE step = "zero" /\ r[2] \notin ambiguous_set
    <3>1. \A q \in ambiguous : q[1] # a
      BY <2>1, <2>9 DEF StepInv, AtZero, ambiguous_set
    <3>2. \A q \in ambiguous : q[1] \in Act
      BY <2>9 DEF StepInv, AtZero, Doubt, ZeroNeed, Owned
    <3>3. \A b \in Owned : b # a => <<b, sbi_code[b]>> # r
      BY <2>1, <2>5
    <3>4. AtZero
      BY <2>9 DEF StepInv
    <3>5. \A b \in Owned : Zero[sbi_code'[b]] \in Hier =>
            IF sbi_code'[b] \in Hier THEN <<b, sbi_code'[b]>> \in ambiguous
                                     ELSE <<b, sbi_code'[b]>> \in todo \ {r}
      BY <2>3, <2>8, <3>3, <3>4 DEF AtZero, Owned
    <3>6. AtZero'
      BY <2>1, <2>3, <3>1, <3>2, <3>4, <3>5 DEF AtZero
    <3>7. QED
      BY <2>1, <2>4, <2>7, <2>9, <3>6 DEF StepInv
  <2>10. CASE step = "ambiguous" /\ r[1] \in ZeroCloser
    <3>1. AtAmbiguous
      BY <2>10 DEF StepInv
    <3>2. r[1] = a
      BY <2>5, <3>1 DEF AtAmbiguous
    <3>3. \A q \in todo \ {r} : q[1] # a /\ q[1] \in Act
      BY <2>1, <2>2, <3>1, <3>2 DEF AtAmbiguous, Doubt, ZeroNeed, Owned
    <3>4. \A b \in Act : NeedsZero(b, sbi_code'[b]) => <<b, sbi_code'[b]>> \in todo \ {r}
      BY <2>1, <2>3, <2>8, <3>1, <3>2 DEF AtAmbiguous
    <3>5. AtAmbiguous'
      BY <2>1, <2>3, <3>1, <3>3, <3>4 DEF AtAmbiguous, NeedsZero
    <3>6. QED
      BY <2>1, <2>4, <2>7, <2>10, <3>5 DEF StepInv
  <2>11. QED
    BY <2>9, <2>10
<1>4. QED
  BY <1>2, <1>3

\* Between two loops the codes stay, and the next rows are those that are left.
LEMMA InvLoops ==
    IInv /\ (ZeroDone \/ AmbiguousDone \/ ManualDone \/ KaringDone \/ OnesDone) => IInv'
<1> SUFFICES ASSUME IInv, ZeroDone \/ AmbiguousDone \/ ManualDone \/ KaringDone \/ OnesDone
             PROVE  IInv'
  OBVIOUS
<1> USE DEF IInv
<1>1. UNCHANGED <<sbi_code, sbi_code_tree, qa_tree, stage, crashes, dump>> /\ todo = {}
  BY DEF ZeroDone, AmbiguousDone, ManualDone, KaringDone, OnesDone, Loop, restOfValidate
<1>2. TypeOK' /\ step' \in {"ambiguous", "manual", "karing", "ones", "twos"}
  BY <1>1 DEF ZeroDone, AmbiguousDone, ManualDone, KaringDone, OnesDone, Loop, TypeOK,
              Stored, Steps
<1>3. CASE ZeroDone
  <2>1. AtZero /\ step' = "ambiguous" /\ todo' = ambiguous
    BY <1>3 DEF ZeroDone, Loop, StepInv
  <2>2. \A a \in Act : NeedsZero(a, sbi_code[a]) => <<a, sbi_code[a]>> \in ambiguous
    BY <1>1, <2>1 DEF AtZero, NeedsZero
  <2>3. AtAmbiguous'
    BY <1>1, <2>1, <2>2 DEF AtZero, AtAmbiguous, NeedsZero
  <2>4. QED
    BY <1>1, <1>2, <2>1, <2>3, CodesKept DEF StepInv
<1>4. CASE AmbiguousDone
  <2>1. AtAmbiguous /\ step' = "manual" /\ todo' = MissingQa
    BY <1>4 DEF AmbiguousDone, Loop, StepInv
  <2>2. AtManual'
    BY <1>1, <2>1 DEF AtAmbiguous, AtManual, NoZeroLeft, NeedsZero, MissingQa, NoQa, Stored
  <2>3. QED
    BY <1>1, <1>2, <2>1, <2>2, CodesKept DEF StepInv
<1>5. CASE ManualDone
  <2>1. AtManual /\ step' = "karing" /\ todo' = KaringRows
    BY <1>5 DEF ManualDone, Loop, StepInv
  <2>2. AtKaring'
    BY <1>1, <2>1 DEF AtManual, AtKaring, NoZeroLeft, NeedsZero, KaringRows, NoQa, Stored
  <2>3. QED
    BY <1>1, <1>2, <2>1, <2>2, CodesKept DEF StepInv
<1>6. CASE KaringDone
  <2>1. AtKaring /\ step' = "ones" /\ todo' = {a \in Act : sbi_code[a] \in Ones}
    BY <1>6 DEF KaringDone, Loop, StepInv
  <2>2. Placed
    BY <1>1, <2>1 DEF AtKaring, Placed
  <2>3. AtOnes'
    BY <1>1, <2>1, <2>2 DEF AtKaring, AtOnes, NoZeroLeft, NeedsZero, Placed, NoQa, Stored
  <2>4. QED
    BY <1>1, <1>2, <2>1, <2>3, CodesKept DEF StepInv
<1>7. CASE OnesDone
  <2>1. AtOnes /\ step' = "twos" /\ todo' = {a \in Act : sbi_code[a] \in Twos}
    BY <1>7 DEF OnesDone, Loop, StepInv
  <2>2. AtTwos'
    BY <1>1, <2>1 DEF AtOnes, AtTwos, NoZeroLeft, NeedsZero, Placed, NoQa, Stored
  <2>3. QED
    BY <1>1, <1>2, <2>1, <2>2, CodesKept DEF StepInv
<1>8. QED
  BY <1>3, <1>4, <1>5, <1>6, <1>7

\* Places in the QA tree are found for codes that have none (410-552).
LEMMA InvQa ==
    ASSUME IInv, NEW c \in todo, FixManual(c) \/ FixKaring(c)
    PROVE  IInv'
<1> USE DEF IInv
<1>1. UNCHANGED <<sbi_code, sbi_code_tree, stage, crashes, dump>>
  BY DEF FixManual, FixKaring, restOfValidate
<1>2. SameRepair' /\ LinkSettled'
  BY <1>1, CodesKept
<1>3. CASE FixManual(c)
  <2>1. CASE c \in Manual
    <3>1. /\ qa_tree' = [qa_tree EXCEPT ![c] = "manual"] /\ todo' = todo \ {c}
          /\ step = "manual" /\ step' = "manual" /\ AtManual
      BY <1>3, <2>1 DEF FixManual, StepInv
    <3>2. DOMAIN qa_tree' = DOMAIN qa_tree /\ \A d \in Stored : d # c => qa_tree'[d] = qa_tree[d]
      BY <3>1 DEF Stored
    <3>3. \A d \in Stored : qa_tree'[d] \in Qa
      BY <3>1, <3>2 DEF TypeOK, Qa, Stored
    <3>4. TypeOK'
      BY <1>1, <3>1, <3>2, <3>3 DEF TypeOK, Stored
    <3>5. \A d \in todo \ {c} : NoQa(d)'
      BY <3>1, <3>2 DEF AtManual, NoQa, Stored
    <3>6. AtManual'
      BY <1>1, <3>1, <3>5 DEF AtManual, NoZeroLeft, NeedsZero
    <3>7. QED
      BY <1>2, <3>1, <3>4, <3>6 DEF StepInv
  <2>2. CASE c \notin Manual
    <3>1. step' = "failed" /\ qa_tree' = qa_tree
      BY <1>3, <2>2 DEF FixManual, Raise
    <3>2. TypeOK' /\ StepInv'
      BY <1>1, <3>1 DEF TypeOK, Stored, Steps, StepInv
    <3>3. QED
      BY <1>2, <3>2
  <2>3. QED
    BY <2>1, <2>2
<1>4. CASE FixKaring(c)
  <2>1. /\ qa_tree' = [d \in Stored |-> IF d = c /\ c \in KG THEN "karing" ELSE qa_tree[d]]
        /\ todo' = todo \ {c} /\ step = "karing" /\ step' = "karing" /\ AtKaring
    BY <1>4 DEF FixKaring, StepInv
  <2>2. DOMAIN qa_tree' = Stored /\ \A d \in Stored : d # c => qa_tree'[d] = qa_tree[d]
    BY <2>1
  <2>3. \A d \in Stored : qa_tree'[d] \in Qa
    BY <2>1 DEF TypeOK, Qa, Stored
  <2>4. TypeOK'
    BY <1>1, <2>1, <2>2, <2>3 DEF TypeOK, Stored
  <2>5. \A d \in todo \ {c} : NoQa(d)'
    BY <2>1, <2>2 DEF AtKaring, NoQa, Stored
  <2>6. ASSUME NEW a \in Owned, sbi_code[a] \in KG \ Root, NoQa(sbi_code[a])'
        PROVE  sbi_code[a] \in todo \ {c}
    <3>1. sbi_code[a] \in Stored /\ qa_tree'[sbi_code[a]] = "none"
      BY <1>1, <2>2, <2>6 DEF NoQa, Stored
    <3>2. sbi_code[a] # c
      BY <2>1, <2>6, <3>1
    <3>3. NoQa(sbi_code[a])
      BY <2>2, <3>1, <3>2 DEF NoQa
    <3>4. QED
      BY <2>1, <2>6, <3>2, <3>3 DEF AtKaring
  <2>7. AtKaring'
    BY <1>1, <2>1, <2>5, <2>6 DEF AtKaring, NoZeroLeft, NeedsZero, NoQa
  <2>8. QED
    BY <1>2, <2>1, <2>4, <2>7 DEF StepInv
<1>5. QED
  BY <1>3, <1>4

\* 1 and 01 become 0001, 2 and 02 become 0002 (555-576).
LEMMA InvDefault ==
    ASSUME IInv, NEW a \in todo, FixDefault("ones", a, ONE) \/ FixDefault("twos", a, TWO)
    PROVE  IInv'
<1> USE DEF IInv
<1>0. PICK loop, c : /\ FixDefault(loop, a, c)
                     /\ (loop = "ones" /\ c = ONE) \/ (loop = "twos" /\ c = TWO)
  OBVIOUS
<1>1. /\ sbi_code' = [sbi_code EXCEPT ![a] = c] /\ todo' = todo \ {a}
      /\ step = loop /\ step' = loop
      /\ UNCHANGED <<sbi_code_tree, qa_tree, stage, ambiguous, crashes, dump>>
  BY <1>0 DEF FixDefault, restOfValidate
<1>2. /\ a \in Act /\ NoZeroLeft /\ Placed /\ todo \subseteq Act
      /\ loop = "ones" => sbi_code[a] \in Ones
      /\ loop = "twos" => sbi_code[a] \in Twos
  BY <1>0, <1>1 DEF StepInv, AtOnes, AtTwos
<1>3. sbi_code'[a] = c /\ \A b \in Act : b # a => sbi_code'[b] = sbi_code[b]
  BY <1>1, <1>2 DEF TypeOK
<1>4. c \in Code /\ c \notin Hier \cup Ones \cup Twos
  BY <1>0, SbiAssumption, HierAssumption
<1>5. TypeOK'
  BY <1>1, <1>2, <1>4 DEF TypeOK, Stored
<1>6. SameRepair' /\ LinkSettled'
  BY <1>0, <1>1, <1>2, DefaultKeeps DEF NoZeroLeft
<1>7. ~NeedsZero(a, c)
  BY <1>0, HierAssumption DEF NeedsZero
<1>8. NoZeroLeft'
  BY <1>2, <1>3, <1>7 DEF NoZeroLeft, NeedsZero
<1>9. ~NoQa(c)
  BY <1>4 DEF NoQa, TypeOK
<1>10. Placed'
  BY <1>1, <1>2, <1>3, <1>9 DEF Placed, Owned, NoQa, Stored
<1>11. CASE loop = "ones"
  <2>1. AtOnes'
    BY <1>1, <1>2, <1>3, <1>4, <1>8, <1>10, <1>11 DEF StepInv, AtOnes
  <2>2. QED
    BY <1>1, <1>5, <1>6, <1>11, <2>1 DEF StepInv
<1>12. CASE loop = "twos"
  <2>1. AtTwos'
    BY <1>1, <1>2, <1>3, <1>4, <1>8, <1>10, <1>12 DEF StepInv, AtTwos
  <2>2. QED
    BY <1>1, <1>5, <1>6, <1>12, <2>1 DEF StepInv
<1>13. QED
  BY <1>0, <1>11, <1>12

\* Links are only given to codes that need no repair any more (579-594).
LEMMA InvUpdate == IInv /\ Update => IInv'
<1> SUFFICES ASSUME IInv, Update PROVE IInv'
  OBVIOUS
<1> USE DEF IInv
<1>1. /\ sbi_code_tree' = [a \in Act |-> Linked(a)] /\ step' = "done" /\ todo' = {}
      /\ todo = {} /\ AtTwos /\ Stored = Hier
      /\ UNCHANGED <<sbi_code, qa_tree, stage, ambiguous, crashes, dump>>
  BY Complete DEF Update, Loop, restOfValidate, StepInv
<1>2. \A a \in Act : Settled(a)
  BY <1>1 DEF AtTwos, NoZeroLeft, Settled
<1>3. \A a \in Act : /\ Linked(a) # NULL => Linked(a) = sbi_code[a]
                     /\ sbi_code[a] \in Hier => Linked(a) = sbi_code[a]
                     /\ Linked(a) \in Hier \cup {NULL}
  BY <1>1 DEF Linked, LinkSettled, TypeOK
<1>4. TypeOK'
  BY <1>1, <1>3 DEF Update, Loop, TypeOK, Steps, Stored
<1>5. SameRepair'
  BY <1>1 DEF SameRepair, Repaired
<1>6. LinkSettled'
  BY <1>1, <1>2, <1>3 DEF LinkSettled, Settled, NeedsZero
<1>7. AtDone'
  BY <1>1, <1>2, <1>3 DEF AtTwos, AtDone, Placed, Settled, NeedsZero, NoQa, Stored
<1>8. QED
  BY <1>1, <1>4, <1>5, <1>6, <1>7 DEF StepInv

\* A process that is killed, and one that is started, leave the tables as they are.
LEMMA InvOutside == IInv /\ (Crash \/ Retry \/ Reload \/ Revalidate \/ UNCHANGED vars) => IInv'
<1> SUFFICES ASSUME IInv, Crash \/ Retry \/ Reload \/ Revalidate \/ UNCHANGED vars
             PROVE  IInv'
  OBVIOUS
<1> USE DEF IInv
<1>1. UNCHANGED <<sbi_code, sbi_code_tree, qa_tree, dump>>
  BY DEF Crash, Retry, Reload, Revalidate, vars
<1>2. TypeOK'
  <2>1. CASE Crash
    BY <2>1, SbiAssumption DEF Crash, Raise, TypeOK, Steps, Stored
  <2>2. CASE Retry \/ Reload \/ Revalidate
    BY <2>2 DEF Retry, Reload, Revalidate, TypeOK, Steps, Stored
  <2>3. CASE UNCHANGED vars
    BY <2>3 DEF vars, TypeOK, Stored
  <2>4. QED
    BY <2>1, <2>2, <2>3
<1>3. StepInv'
  <2>1. CASE Crash \/ Retry \/ Reload \/ Revalidate
    <3>1. step' \in {"failed", "load", "validate"}
      BY <2>1 DEF Crash, Raise, Retry, Reload, Revalidate, TypeOK
    <3>2. QED
      BY <3>1 DEF StepInv
  <2>2. CASE UNCHANGED vars
    BY <2>2 DEF vars, StepInv, AtCreate, AtZero, AtAmbiguous, AtManual, AtKaring, AtOnes,
                AtTwos, AtDone, NoZeroLeft, NeedsZero, Placed, Settled, NoQa, Stored
  <2>3. QED
    BY <2>1, <2>2
<1>4. QED
  BY <1>1, <1>2, <1>3, CodesKept

\* The invariant is inductive.
LEMMA InvStep == IInv /\ [Next]_vars => IInv'
<1> SUFFICES ASSUME IInv, [Next]_vars PROVE IInv'
  OBVIOUS
<1>1. CASE Load
  BY <1>1, InvLoad
<1>2. CASE Validate
  <2>1. CASE Read
    BY <2>1, InvRead
  <2>2. CASE ZeroDone \/ AmbiguousDone \/ ManualDone \/ KaringDone \/ OnesDone
    BY <2>2, InvLoops
  <2>3. CASE Update
    BY <2>3, InvUpdate
  <2>4. ASSUME NEW r \in todo, FixMissingZero(r) \/ FixAmbiguous(r) PROVE IInv'
    <3>1. UNCHANGED <<sbi_code_tree, qa_tree, stage, crashes, dump>>
      BY <2>4 DEF FixMissingZero, FixAmbiguous, restOfValidate
    <3>2. \/ Skip(r) /\ (\/ step = "zero" /\ r[2] \in ambiguous_set
                         \/ step = "ambiguous" /\ r[1] \notin ZeroCloser)
          \/ PutZero(r) /\ (\/ step = "zero" /\ r[2] \notin ambiguous_set
                            \/ step = "ambiguous" /\ r[1] \in ZeroCloser)
      BY <2>4 DEF FixMissingZero, FixAmbiguous
    <3>3. QED
      BY <3>1, <3>2, InvSkip, InvPut
  <2>5. ASSUME NEW c \in todo, FixManual(c) \/ FixKaring(c) PROVE IInv'
    BY <2>5, InvQa
  <2>6. ASSUME NEW a \in todo, FixDefault("ones", a, ONE) \/ FixDefault("twos", a, TWO)
        PROVE  IInv'
    BY <2>6, InvDefault
  <2>7. QED
    BY <1>2, <2>1, <2>2, <2>3, <2>4, <2>5, <2>6 DEF Validate
<1>3. CASE Crash \/ Retry \/ Reload \/ Revalidate \/ UNCHANGED vars
  BY <1>3, InvOutside
<1>4. QED
  BY <1>1, <1>2, <1>3 DEF Next

\* The invariant holds in every state.
LEMMA Invariant == Spec => []IInv
BY InvInit, InvStep, PTL DEF Spec
-----------------------------------------------------------------------------
(* Theorems *)

\* Every variable stays in its range, and the hierarchy is complete while the codes
\* are validated against it (311-362, 597-624).
THEOREM TypeCorrect == Spec => []TypeOK
BY Invariant, PTL DEF IInv

\* A link names the code the activiteit has, whatever is killed, repeated or loaded
\* again, although links are only filled and never corrected (593).
THEOREM LinksAgree == Spec => []LinkAgrees
<1>1. IInv => LinkAgrees
  BY DEF IInv, LinkSettled, LinkAgrees
<1>2. QED
  BY <1>1, Invariant, PTL

\* The codes at the end are a function of the dump, and those that are official are
\* linked: not of the order of the rows, nor of what ran before (602-624).
THEOREM RepairsSettle == Spec => []RepairedAtEnd
<1>1. IInv => RepairedAtEnd
  <2>1. SUFFICES ASSUME IInv, step = "done", NEW a \in Act
                 PROVE  /\ sbi_code[a] = Repaired(a, dump[a])
                        /\ sbi_code[a] \in Hier => sbi_code_tree[a] = sbi_code[a]
    BY DEF RepairedAtEnd
  <2>2. AtDone /\ sbi_code[a] \in Code
    BY <2>1 DEF IInv, StepInv, TypeOK
  <2>3. Repaired(a, sbi_code[a]) = sbi_code[a]
    BY <2>2, RepairSettled DEF AtDone, Settled
  <2>4. QED
    BY <2>1, <2>2, <2>3 DEF AtDone, IInv, SameRepair
<1>2. QED
  BY <1>1, Invariant, PTL

\* Codes for which Karing Goes has a solution have a place at the end (461-491).
THEOREM KaringPlaces == Spec => []PlacedAtEnd
<1>1. IInv => PlacedAtEnd
  BY DEF IInv, StepInv, AtDone, Placed, PlacedAtEnd
<1>2. QED
  BY <1>1, Invariant, PTL

\* No place in the QA tree is replaced by one of another source (488-491, 550-552).
THEOREM QaStays == Spec => QaKept
<1> DEFINE Kept == \A c \in Stored \cap Stored' : NoQa(c) \/ qa_tree'[c] = qa_tree[c]
<1>1. IInv /\ [Next]_vars => [Kept]_vars
  <2> SUFFICES ASSUME IInv, Next PROVE Kept
    BY DEF vars, Kept
  <2>1. CASE UNCHANGED qa_tree
    BY <2>1
  <2>2. CASE DeleteOld
    BY <2>2 DEF DeleteOld, Stored
  <2>3. ASSUME NEW c \in todo, CreateRow(c) PROVE Kept
    <3>1. c \notin Stored
      BY <2>3 DEF CreateRow, IInv, StepInv, AtCreate
    <3>2. \A d \in Stored : qa_tree'[d] = qa_tree[d]
      BY <2>3, <3>1 DEF CreateRow
    <3>3. QED
      BY <3>2
  <2>4. ASSUME NEW c \in todo, FixManual(c) PROVE Kept
    <3>1. NoQa(c)
      BY <2>4 DEF FixManual, IInv, StepInv, AtManual
    <3>2. \A d \in Stored : d # c => qa_tree'[d] = qa_tree[d]
      BY <2>4 DEF FixManual, Stored
    <3>3. QED
      BY <3>1, <3>2
  <2>5. ASSUME NEW c \in todo, FixKaring(c) PROVE Kept
    <3>1. NoQa(c)
      BY <2>5 DEF FixKaring, IInv, StepInv, AtKaring
    <3>2. \A d \in Stored : d # c => qa_tree'[d] = qa_tree[d]
      BY <2>5 DEF FixKaring
    <3>3. QED
      BY <3>1, <3>2
  <2>6. QED
    BY <2>1, <2>2, <2>3, <2>4, <2>5
    DEF Next, Load, Validate, CleanKey, LoadDone, Read, ZeroDone, AmbiguousDone, ManualDone,
        KaringDone, OnesDone, Update, FixMissingZero, FixAmbiguous, FixDefault, Crash,
        Retry, Reload, Revalidate
<1>2. QED
  BY <1>1, Invariant, PTL DEF Spec, QaKept
=============================================================================
