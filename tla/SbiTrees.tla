------------------------------- MODULE SbiTrees -------------------------------
(***************************************************************************)
(* What load_sbi_codes.py makes of the pages of sbi.cbs.nl, before any of  *)
(* it is stored: the official hierarchy, a list from the letter down to    *)
(* every code, and the places codes have in the question-and-answer tree.  *)
(*                                                                         *)
(* sections: a sequence of [letter, id, children], of which the children   *)
(* are nodes [Code, Id, ParentId] in any order.                            *)
(* questions: a sequence of [description, code, answers], an answer being  *)
(* [description, code, word, searches]; word is the first of its           *)
(* description, and searches holds, per final answer, the codes it finds.  *)
(***************************************************************************)
EXTENDS Integers, Sequences, SequencesExt

CONSTANT NoId \* ParentId of a letter
-----------------------------------------------------------------------------
(* map_nodes_from_sections *)

RootNode(section) == [Code |-> section.letter, Id |-> section.id, ParentId |-> NoId]

Put(maps, node) == [maps EXCEPT !.code_map = (node.Code :> node) @@ @,
                                !.id_map   = (node.Id :> node) @@ @]

\* the two asserts, which the letters are not subject to
PutChild(maps, node) ==
    IF maps.raised \/ node.Id \in DOMAIN maps.id_map \/ node.Code \in DOMAIN maps.code_map
    THEN [maps EXCEPT !.raised = TRUE]
    ELSE Put(maps, node)

PutSection(maps, section) ==
    IF maps.raised THEN maps
    ELSE FoldLeft(PutChild, Put(maps, RootNode(section)), section.children)

map_nodes_from_sections(sections) ==
    FoldLeft(PutSection, [code_map |-> << >>, id_map |-> << >>, raised |-> FALSE], sections)
-----------------------------------------------------------------------------
(* _create_sbi_lists: the codes from the root down to a node *)

RECURSIVE Path(_, _)
Path(id_map, node) ==
    IF node.ParentId \in DOMAIN id_map
    THEN Append(Path(id_map, id_map[node.ParentId]), node.Code)
    ELSE <<node.Code>>

create_sbi_lists(maps) == {Path(maps.id_map, maps.code_map[c]) : c \in DOMAIN maps.code_map}

\* sbi_tree of a row has five levels; a deeper code would not be in its own tree
Levels(path) == SubSeq(path, 1, IF Len(path) < 5 THEN Len(path) ELSE 5)
-----------------------------------------------------------------------------
(* load_qa_sub_sections, load_qa_sub_sub_sections, _sbicodes_for_subsubcategory *)

\* the second level of questions, with the name of the file its answers are kept in: the
\* place in its own section, and the first word
SubSections(questions) ==
    FlattenSeq([s \in DOMAIN questions |->
        [i \in DOMAIN questions[s].answers |->
            [q1 |-> questions[s].description, q2 |-> questions[s].answers[i].description,
             file |-> <<i - 1, questions[s].answers[i].word>>,
             searches |-> questions[s].answers[i].searches]]])

\* assert raw_qa_tree.get(code) is None: of a section, and not of the answers below it
raw_qa_tree(questions, s) ==
    {0} \cup UNION {{questions[t].code} \cup {a.code : a \in ToSet(questions[t].answers)} :
                        t \in 1..(s - 1)}
NewSections(questions) ==
    \A s \in DOMAIN questions : questions[s].code \notin raw_qa_tree(questions, s)

\* assert len(final_section) == 1
OneSearch(subs) == \A k \in DOMAIN subs : Len(subs[k].searches) = 1

\* --nocache: an answer is used as it comes, and written to its file
Downloaded(subs) == [k \in DOMAIN subs |-> subs[k].searches[1]]

\* later on it is read from that file, in which the last one of the name is left
Cached(subs) ==
    [k \in DOMAIN subs |->
        Downloaded(subs)[SelectLastInSeq(subs, LAMBDA sub : sub.file = subs[k].file)]]

\* a code keeps the first place it is found at
sbi_qa_mapping(subs, answers) ==
    FoldLeft(LAMBDA found, k : found @@ [c \in ToSet(answers[k]) |-> subs[k]],
             << >>, [k \in DOMAIN subs |-> k])

\* the questions that lead to a code
create_qa_mapping(mapping) == [c \in DOMAIN mapping |-> <<mapping[c].q1, mapping[c].q2>>]

\* what _store_sbi_details stores as the qa_tree of a code
QaTree(maps, qa) == [c \in DOMAIN maps.code_map |-> IF c \in DOMAIN qa THEN "cbs" ELSE "none"]
=============================================================================
