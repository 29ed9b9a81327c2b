------------------------------ MODULE MCSbiCodes ------------------------------
(* Small instances of SbiCodes: two vestigingen, and an activiteit whose       *)
(* vestiging is gone; codes as they occur in the fixtures.                     *)
EXTENDS SbiCodes, Sequences, TLC

CONSTANTS a1, a2, a3, orphan, v1, v2

MCAct   == {a1, a2, a3, orphan}
MCowner == a1 :> v1 @@ a2 :> v1 @@ a3 :> v2 @@ orphan :> NULL

\* 0111 lost its zero, 141 and 0141 are both official, 432101 is not; 0141 has no
\* place of its own in the QA tree but 01411 has, 4321 needs a manual one
MCHier == {"0111", "141", "0141", "01411", "01", "161", "4321"}
MCCode == MCHier \cup {"111", "1", "2", "02", "432101", "0001", "0002"}
MCLong == {"0111", "0141", "01411", "4321", "432101", "0001", "0002"}
MCRoot == {"1", "2"}

ZeroPairs == "111" :> "0111" @@ "141" :> "0141" @@ "1" :> "01" @@ "2" :> "02"
MCZero == [c \in MCCode |-> IF c \in DOMAIN ZeroPairs THEN ZeroPairs[c] ELSE NULL]
MCBelow == [c \in MCCode |-> CASE c = "0141" -> {"01411"}
                               [] c = "4321" -> {"432101"}
                               [] c = "01" -> {"0111", "0141", "01411"}
                               [] c = "141" -> {} [] OTHER -> {}]
MCCbsQa == {"01411", "141", "0111"}
MCKG    == {"161", "0141", "01", "141", "432101"}

Trees == INSTANCE SbiTrees WITH NoId <- 0

Node(code, id, parent) == [Code |-> code, Id |-> id, ParentId |-> parent]

\* the children of a letter in a given order
Sections(children) ==
    << [letter |-> "A", id |-> 1, children |-> children],
       [letter |-> "C", id |-> 2, children |-> <<Node("141", 21, 2), Node("161", 22, 2)>>],
       [letter |-> "F", id |-> 3, children |-> <<Node("4321", 31, 3)>>] >>

Children == <<Node("01", 11, 1), Node("0111", 12, 11), Node("0141", 13, 11), Node("01411", 14, 13)>>
Orders == {[k \in 1..4 |-> Children[f[k]]] : f \in Permutations(1..4)}

Answer(d, c, w, codes) == [description |-> d, code |-> c, word |-> w, searches |-> <<codes>>]
Questions ==
    << [description |-> "landbouw", code |-> 41, answers |->
          <<Answer("teelt van granen", 51, "teelt", <<"0111">>),
            Answer("fokken", 52, "fokken", <<"01411">>)>>],
       [description |-> "productie", code |-> 42, answers |->
          <<Answer("overige", 53, "overige", <<"141", "0111">>)>>] >>

\* The hierarchy and the places of the runs are what these pages give, in whatever order the
\* codes of a letter come, and every code is the last of a list that begins with its letter.
ASSUME TreesAssumption ==
    \A order \in Orders :
       LET maps == Trees!map_nodes_from_sections(Sections(order))
           subs == Trees!SubSections(Questions)
           qa   == Trees!create_qa_mapping(Trees!sbi_qa_mapping(subs, Trees!Cached(subs)))
           lists == Trees!create_sbi_lists(maps)
       IN /\ ~maps.raised /\ Trees!OneSearch(subs) /\ Trees!NewSections(Questions)
          /\ DOMAIN maps.code_map = MCHier \cup {"A", "C", "F"}
          /\ {c \in DOMAIN maps.code_map : Trees!QaTree(maps, qa)[c] = "cbs"} = MCCbsQa
          /\ qa["0111"] = <<"landbouw", "teelt van granen">>
          /\ {l[Len(l)] : l \in lists} = DOMAIN maps.code_map
          /\ \A l \in lists : Trees!Levels(l) = l /\ l[1] \in {"A", "C", "F"}
          /\ <<"A", "01", "0141", "01411">> \in lists

\* A code or an id that two letters have stops the load, and so does a page without an answer.
ASSUME AssertsAssumption ==
    /\ Trees!map_nodes_from_sections(Sections(<<Node("141", 11, 1)>>)).raised
    /\ Trees!map_nodes_from_sections(Sections(<<Node("01", 21, 1)>>)).raised
    /\ ~Trees!NewSections(<<Questions[1], [Questions[2] EXCEPT !.code = 51]>>)
    /\ Trees!NewSections(<<Questions[2], [Questions[1] EXCEPT !.code = 51]>>)
    /\ ~Trees!OneSearch(<<[searches |-> << >>]>>)

\* the pages of two sections, an answer of each at place 0, or that of the second at 1
Site(i, v, w, c, d) ==
    << [description |-> "one", code |-> 41, answers |-> <<Answer("a", 51, v, c)>>],
       [description |-> "two", code |-> 42, answers |->
          (IF i = 1 THEN << >> ELSE <<Answer("z", 53, "z", << >>)>>) \o <<Answer("b", 52, w, d)>>] >>

\* The kept files give what was downloaded as long as no two answers at the same place of
\* their sections begin with the same word, which is so in the fixtures; otherwise the
\* later one is read for both.
ASSUME FilesAssumption ==
    \A i \in 1..2, v, w \in {"teelt", "overige"}, c, d \in {<<"01">>, <<"0111", "01">>} :
       LET subs == Trees!SubSections(Site(i, v, w, c, d))
       IN Trees!Cached(subs) = Trees!Downloaded(subs) <=> (i = 1 /\ v = w => c = d)

DumpOf(owned, lone) ==
    {d \in [MCAct -> MCCode] :
       /\ d[a1] \in owned /\ d[a2] \in owned
       /\ d[a3] \in {"141", "432101", "111"} /\ d[orphan] = lone}

\* a vestiging with two different codes, and one that has a code twice
MCDumps == {d \in DumpOf({"111", "0111", "141", "1", "2", "161", "4321"}, "1") : d[a1] # d[a2]}
MCTwice == {d \in DumpOf({"111"}, "2") : TRUE}
=============================================================================
