------------------------------- MODULE SbiCodes -------------------------------
(***************************************************************************)
(* `run_import --cbs_sbi` followed by `run_import --cbs_sbi_validate`: the *)
(* hierarchy of official sbi codes is stored, the codes of the activiteiten*)
(* are repaired against it, the question-and-answer tree of the hierarchy  *)
(* is completed, and every activiteit is linked to the row of its code.    *)
(*                                                                         *)
(* Every save is a transaction of its own and the rows to repair are read  *)
(* once, before the first repair: a process that dies leaves a part of the *)
(* repairs behind, and the step is run again on what it left.              *)
(***************************************************************************)
EXTENDS Integers, FiniteSets

CONSTANTS
    Act,        \* activiteiten
    Ves,        \* vestigingen
    owner,      \* Act -> the vestiging, or NULL when it was deleted as being
                \* outside Amsterdam, which leaves its activiteiten
    Code,       \* sbi codes
    Dumps,      \* Act -> Code, what the dump may hold
    Hier,       \* codes of the official hierarchy, section_tree.json
    Zero,       \* Code -> '0' || code, or NULL when that is no code at all
    Root, Long, \* codes of one character, and of more than three
    Below,      \* Code -> longer codes that start with it
    CbsQa,      \* codes with a place in the downloaded QA tree
    Manual,     \* codes of manual_sbicodes_201708071719.csv
    KG,         \* codes of 20171102 MKS SBI VS CBS SB_KG.csv
    ZeroCloser, \* activiteiten whose description is closer (editdistance) to
                \* the title of the code with the zero than to that of the code
    Ones, Twos, \* {'1', '01'} and {'2', '02'}
    ONE, TWO,   \* '0001' and '0002'
    MaxCrash,   \* bound on the processes that are killed
    NULL

VARIABLES
    sbi_code,      \* Act -> Code
    sbi_code_tree, \* Act -> the row of the hierarchy, or NULL
    qa_tree,       \* the stored hierarchy: code -> where its qa_tree comes from
    step,          \* where the process is
    stage,         \* the process that is to be run: "load" or "validate"
    todo,          \* rows the present loop has yet to handle
    ambiguous,     \* rows of find_ambiguous_sbicodes
    crashes,
    dump           \* history: the codes of the dump

vars == <<sbi_code, sbi_code_tree, qa_tree, step, stage, todo, ambiguous, crashes, dump>>

Owned == {a \in Act : owner[a] # NULL}

ASSUME SbiAssumption ==
    /\ IsFiniteSet(Act)
    /\ owner \in [Act -> Ves \cup {NULL}] /\ NULL \notin Ves \cup Code
    /\ Dumps \subseteq [Act -> Code]
    /\ Hier \subseteq Code /\ Zero \in [Code -> Code \cup {NULL}]
    /\ Root \subseteq Code /\ Long \subseteq Code /\ Below \in [Code -> SUBSET Code]
    /\ CbsQa \subseteq Code /\ Manual \subseteq Code /\ KG \subseteq Code
    /\ Ones \subseteq Code /\ Twos \subseteq Code /\ {ONE, TWO} \subseteq Code
    /\ ZeroCloser \subseteq Act /\ MaxCrash \in Nat

\* Facts of section_tree.json: no official code begins with two zeros, and "0001"
\* and "0002", which the code makes up, are not official.
ASSUME HierAssumption ==
    /\ \A c \in Code : Zero[c] \in Hier => Zero[Zero[c]] \notin Hier
    /\ \A c \in {ONE, TWO} : c \notin Hier \cup Ones \cup Twos /\ Zero[c] \notin Hier
    /\ Ones \cap Twos = {}
-----------------------------------------------------------------------------
Stored == DOMAIN qa_tree

Init == /\ sbi_code \in Dumps /\ dump = sbi_code
        /\ sbi_code_tree = [a \in Act |-> NULL]
        /\ qa_tree = [c \in {} |-> "none"]
        /\ step = "load" /\ stage = "load"
        /\ todo = {} /\ ambiguous = {} /\ crashes = 0

\* the end of a loop: the next one runs on the rows its query finds now
Loop(from, to, rows) == /\ step = from /\ todo = {}
                        /\ step' = to /\ todo' = rows

restOfLoad     == <<sbi_code, ambiguous, crashes, dump>>
restOfValidate == <<stage, crashes, dump>>

\* an exception: the process ends
Raise == step' = "failed" /\ todo' = {} /\ ambiguous' = {}
-----------------------------------------------------------------------------
(* build_all_sbi_code_trees *)

\* _clean_activiteiten_key
CleanKey == /\ Loop("load", "delete", {})
            /\ sbi_code_tree' = [a \in Act |-> NULL]
            /\ UNCHANGED <<qa_tree, stage>> /\ UNCHANGED restOfLoad

\* _store_sbi_details: remove old data
DeleteOld == /\ Loop("delete", "create", Hier)
             /\ qa_tree' = [c \in {} |-> "none"]
             /\ UNCHANGED <<sbi_code_tree, stage>> /\ UNCHANGED restOfLoad

\* and store the codes one by one
CreateRow(c) ==
    /\ step = "create" /\ c \in todo
    /\ qa_tree' = [d \in Stored \cup {c} |->
                     IF d # c THEN qa_tree[d] ELSE IF c \in CbsQa THEN "cbs" ELSE "none"]
    /\ todo' = todo \ {c}
    /\ UNCHANGED <<sbi_code_tree, step, stage>> /\ UNCHANGED restOfLoad

LoadDone == /\ Loop("create", "validate", {})
            /\ stage' = "validate"
            /\ UNCHANGED <<sbi_code_tree, qa_tree>> /\ UNCHANGED restOfLoad

Load == CleanKey \/ DeleteOld \/ LoadDone \/ \E c \in todo : CreateRow(c)
-----------------------------------------------------------------------------
(* validate *)

\* mutant: codes that have no valid form with a zero are taken as well
ZeroRowsAll == {<<a, sbi_code[a]>> : a \in Owned}

\* find_0_sbicodes and find_ambiguous_sbicodes: <<activiteit, its code>>
ZeroRows == {<<a, sbi_code[a]>> : a \in {b \in Owned : Zero[sbi_code[b]] \in Stored}}
AmbiguousRows == {r \in ZeroRows : r[2] \in Stored}

Read == /\ Loop("validate", "zero", ZeroRows)
        /\ ambiguous' = AmbiguousRows
        /\ UNCHANGED <<sbi_code, sbi_code_tree, qa_tree>> /\ UNCHANGED restOfValidate

\* mutant: the activiteit is looked for in all vestigingen
GetAnywhere(r) == {a \in Act : sbi_code[a] = r[2]}

\* ves.activiteiten.get(sbi_code=...): it raises unless there is exactly one
Get(r) == {a \in Act : owner[a] = owner[r[1]] /\ sbi_code[a] = r[2]}

\* write '0' || code to the activiteit of the row
PutZero(r) ==
    IF Cardinality(Get(r)) = 1
    THEN /\ sbi_code' = [a \in Act |-> IF a \in Get(r) THEN Zero[r[2]] ELSE sbi_code[a]]
         /\ todo' = todo \ {r}
         /\ UNCHANGED <<step, ambiguous>>
    ELSE Raise /\ UNCHANGED sbi_code

\* nothing to repair in the row
Skip(r) == todo' = todo \ {r} /\ UNCHANGED <<sbi_code, step, ambiguous>>

\* mutant: ambiguous codes are repaired like the others
NoAmbiguousSet == {}

ambiguous_set == {r[2] : r \in ambiguous}

\* fix_missing_zero
FixMissingZero(r) ==
    /\ step = "zero" /\ r \in todo
    /\ IF r[2] \in ambiguous_set THEN Skip(r) ELSE PutZero(r)
    /\ UNCHANGED <<sbi_code_tree, qa_tree>> /\ UNCHANGED restOfValidate

ZeroDone == /\ Loop("zero", "ambiguous", ambiguous)
            /\ UNCHANGED <<sbi_code, sbi_code_tree, qa_tree, ambiguous>>
            /\ UNCHANGED restOfValidate

\* fix_ambiguous
FixAmbiguous(r) ==
    /\ step = "ambiguous" /\ r \in todo
    /\ IF r[1] \in ZeroCloser THEN PutZero(r) ELSE Skip(r)
    /\ UNCHANGED <<sbi_code_tree, qa_tree>> /\ UNCHANGED restOfValidate

NoQa(c) == c \in Stored /\ qa_tree[c] = "none"

\* find_missing_qa: long codes without a place, and without a longer code that has one
MissingQa == {c \in Stored \cap Long :
                 NoQa(c) /\ \A d \in Below[c] \cap Stored : NoQa(d)}

AmbiguousDone ==
    /\ Loop("ambiguous", "manual", MissingQa)
    /\ ambiguous' = {}
    /\ UNCHANGED <<sbi_code, sbi_code_tree, qa_tree>> /\ UNCHANGED restOfValidate

\* fix_manual_missing_qa: a code without a manual solution is a KeyError
FixManual(c) ==
    /\ step = "manual" /\ c \in todo
    /\ IF c \in Manual
       THEN /\ qa_tree' = [qa_tree EXCEPT ![c] = "manual"]
            /\ todo' = todo \ {c}
            /\ UNCHANGED <<step, ambiguous>>
       ELSE Raise /\ UNCHANGED qa_tree
    /\ UNCHANGED <<sbi_code, sbi_code_tree>> /\ UNCHANGED restOfValidate

\* mutants: codes that have a place get another one; only long codes are looked at
KaringRowsAll == {sbi_code[a] : a \in Owned} \cap Stored
KaringRowsLong == {c \in {sbi_code[a] : a \in Owned} : NoQa(c) /\ c \in Long}

\* find_activiteiten_with_missing_qa, the column h.code: it is null, and the row is
\* passed over, for a code that is not in the hierarchy
KaringRows == {c \in {sbi_code[a] : a \in Owned} : NoQa(c) /\ c \notin Root}

ManualDone ==
    /\ Loop("manual", "karing", KaringRows)
    /\ UNCHANGED <<sbi_code, sbi_code_tree, qa_tree, ambiguous>>
    /\ UNCHANGED restOfValidate

\* fix_bad_sbi_door_karing_goes
FixKaring(c) ==
    /\ step = "karing" /\ c \in todo
    /\ qa_tree' = [d \in Stored |-> IF d = c /\ c \in KG THEN "karing" ELSE qa_tree[d]]
    /\ todo' = todo \ {c}
    /\ UNCHANGED <<sbi_code, sbi_code_tree, step, ambiguous>>
    /\ UNCHANGED restOfValidate

KaringDone ==
    /\ Loop("karing", "ones", {a \in Act : sbi_code[a] \in Ones})
    /\ UNCHANGED <<sbi_code, sbi_code_tree, qa_tree, ambiguous>>
    /\ UNCHANGED restOfValidate

\* fix_missing_zeros_default, its two loops
FixDefault(loop, a, c) ==
    /\ step = loop /\ a \in todo
    /\ sbi_code' = [sbi_code EXCEPT ![a] = c]
    /\ todo' = todo \ {a}
    /\ UNCHANGED <<sbi_code_tree, qa_tree, step, ambiguous>>
    /\ UNCHANGED restOfValidate

OnesDone ==
    /\ Loop("ones", "twos", {a \in Act : sbi_code[a] \in Twos})
    /\ UNCHANGED <<sbi_code, sbi_code_tree, qa_tree, ambiguous>>
    /\ UNCHANGED restOfValidate

\* mutant: every activiteit gets the code it had in the dump
LinkedDump(a) == IF sbi_code_tree[a] = NULL /\ dump[a] \in Stored
                 THEN dump[a] ELSE sbi_code_tree[a]

\* update_activiteiten fills the links that are null
Linked(a) == IF sbi_code_tree[a] = NULL /\ sbi_code[a] \in Stored
             THEN sbi_code[a] ELSE sbi_code_tree[a]

Update == /\ Loop("twos", "done", {})
          /\ sbi_code_tree' = [a \in Act |-> Linked(a)]
          /\ UNCHANGED <<sbi_code, qa_tree, ambiguous>> /\ UNCHANGED restOfValidate

Validate == \/ Read \/ ZeroDone \/ AmbiguousDone \/ ManualDone \/ KaringDone
            \/ OnesDone \/ Update
            \/ \E r \in todo : \/ FixMissingZero(r) \/ FixAmbiguous(r)
                               \/ FixManual(r) \/ FixKaring(r)
                               \/ FixDefault("ones", r, ONE)
                               \/ FixDefault("twos", r, TWO)
-----------------------------------------------------------------------------
\* the process is killed, between two statements
Crash == /\ step \notin {"failed", "done"} /\ crashes < MaxCrash
         /\ Raise /\ crashes' = crashes + 1
         /\ UNCHANGED <<sbi_code, sbi_code_tree, qa_tree, stage, dump>>

\* the step that failed is run again
Retry == /\ step = "failed" /\ step' = stage
         /\ UNCHANGED <<sbi_code, sbi_code_tree, qa_tree, stage, todo, ambiguous>>
         /\ UNCHANGED <<crashes, dump>>

\* the hierarchy is updated later on, on the database as it is (README: SBI CODES)
Reload == /\ step = "done" /\ step' = "load" /\ stage' = "load"
          /\ UNCHANGED <<sbi_code, sbi_code_tree, qa_tree, todo, ambiguous>>
          /\ UNCHANGED <<crashes, dump>>

\* --cbs_sbi_validate alone, on activiteiten that are linked already
Revalidate == /\ step = "done" /\ step' = "validate"
              /\ UNCHANGED <<sbi_code, sbi_code_tree, qa_tree, stage, todo, ambiguous>>
              /\ UNCHANGED <<crashes, dump>>

Next == Load \/ Validate \/ Crash \/ Retry \/ Reload \/ Revalidate

Spec == Init /\ [][Next]_vars

\* a process that runs goes on, and one that failed is started again
FairSpec == Spec /\ WF_vars(Load \/ Validate) /\ WF_vars(Retry)
-----------------------------------------------------------------------------
(* Properties *)

Steps == {"load", "delete", "create", "validate", "zero", "ambiguous", "manual",
          "karing", "ones", "twos", "done", "failed"}
Qa    == {"none", "cbs", "manual", "karing"}

\* Every variable stays in its range; the hierarchy is complete once it is loaded.
TypeOK ==
    /\ sbi_code \in [Act -> Code] /\ dump \in [Act -> Code]
    /\ sbi_code_tree \in [Act -> Hier \cup {NULL}]
    /\ Stored \subseteq Hier /\ \A c \in Stored : qa_tree[c] \in Qa
    /\ stage = "validate" => Stored = Hier
    /\ step \in Steps /\ stage \in {"load", "validate"} /\ crashes \in 0..MaxCrash
    /\ step \in {"load", "delete", "create"} => stage = "load"
    /\ step \notin {"load", "delete", "create", "failed"} => stage = "validate"

\* A link names the code the activiteit has, at every moment: also while codes are
\* being repaired, and when an earlier validation was broken off or is run again
\* on activiteiten that are linked already (593 fills only links that are null).
LinkAgrees == \A a \in Act : sbi_code_tree[a] # NULL => sbi_code_tree[a] = sbi_code[a]

\* What the repairs make of code c of activiteit a, as one function.
Repaired(a, c) ==
    LET z == IF a \in Owned /\ Zero[c] \in Hier /\ (c \notin Hier \/ a \in ZeroCloser)
             THEN Zero[c] ELSE c
    IN CASE z \in Ones -> ONE [] z \in Twos -> TWO [] OTHER -> z

\* The repair of a code depends on the dump alone: not on where earlier processes
\* were killed, the order of the rows, how often the step was run or the hierarchy
\* reloaded.  And all activiteiten with an official code are linked (602-624).
RepairedAtEnd ==
    step = "done" => \A a \in Act :
       /\ sbi_code[a] = Repaired(a, dump[a])
       /\ sbi_code[a] \in Hier => sbi_code_tree[a] = sbi_code[a]

\* A place in the QA tree is never replaced by one of another source; the hierarchy
\* is only emptied as a whole (488-491, 550-552).
QaKept == [][\A c \in Stored \cap Stored' : NoQa(c) \/ qa_tree'[c] = qa_tree[c]]_vars

\* At the end no activiteit of a vestiging with an official code for which Karing
\* Goes has a solution is without a place in the QA tree (461-491).
PlacedAtEnd ==
    step = "done" => \A a \in Owned : sbi_code[a] \in KG \ Root => ~NoQa(sbi_code[a])

\* Every load and validation ends, after enough retries.
Finishes == []<>(step = "done")
=============================================================================
