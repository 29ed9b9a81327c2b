---------------------------- MODULE AddressParsing ----------------------------
(***************************************************************************)
(* What improve_location_with_search.py makes of a written adres: the      *)
(* variants it tries, and of every variant a search task, a skip, or an    *)
(* exception that ends the producer.                                       *)
(*                                                                         *)
(* A written adres is a sequence of words, in lower case and without       *)
(* punctuation; a word is the sequence of its tokens, which clean_tokenize *)
(* splits between digits and letters: "33-1 1012KC" is the words           *)
(* <<"33">>, <<"1">>, <<"1012", "kc">>.  Places count from 1; 0 is None.   *)
(***************************************************************************)
EXTENDS Integers, Sequences, SequencesExt

CONSTANTS
    Value,  \* the tokens of digits -> their number
    Spell,  \* token -> its characters
    NONE    \* no postcode

isdigit(token) == token \in DOMAIN Value

\* clean_tokenize, of an adres already cut into words
Tokens(words) == FlattenSeq(words)
-----------------------------------------------------------------------------
(* alternative_qs *)

\* the ordinal a street may begin with, and how it is written out
could_also_be == << <<"1","e">>, <<"2","e">>, <<"3","e">>, <<"4","e">>, <<"5","e">> >>
WrittenOut == << <<"eerste">>, <<"tweede">>, <<"derde">>, <<"vierde">>, <<"vijfde">> >>

\* " tegenover" and " t o", with the space that precedes them
remove == << << <<"tegenover">> >>, << <<"t">>, <<"o">> >> >>

Without(words, unwanted) ==
    <<Head(words)>> \o ReplaceFirstSubSeq(<< >>, unwanted, Tail(words))

\* the ordinal is replaced wherever it stands, also in the suffix of the number
Replaced(words, k) ==
    [w \in DOMAIN words |-> IF words[w] = could_also_be[k] THEN WrittenOut[k] ELSE words[w]]

\* Variants with something removed come first.  The woonboot variant is of an
\* adres that ends in "ab", and those searched for end in a gemeente.
alternative_qs(words) ==
    LET removed  == [k \in DOMAIN remove |-> Without(words, remove[k])]
        ordinals == SelectSeq(<<1, 2, 3, 4, 5>>, LAMBDA k : words[1] = could_also_be[k])
    IN SelectSeq(removed, LAMBDA alt : alt # words)
       \o <<words>>
       \o [k \in DOMAIN ordinals |-> Replaced(words, ordinals[k])]
-----------------------------------------------------------------------------
(* is_straat_huisnummer and the first lines of create_search_for_addr *)

\* first_house_number: the first number that does not begin the adres
first_house_number(tokens) ==
    SelectInSubSeq(tokens, 2, Len(tokens), LAMBDA token : isdigit(token))

Letters(tokens) == Len(FlattenSeq([k \in DOMAIN tokens |-> Spell[tokens[k]]]))

\* 0 for False and for None: without a number, or with a street of two letters.
\* int() of the number then raises, except where the adres begins with digits
\* and False is taken for the place of the first token
is_straat_huisnummer(tokens) ==
    LET i == first_house_number(tokens)
    IN IF i > 0 /\ Letters(SubSeq(tokens, 1, i - 1)) > 2 THEN i ELSE 0

\* what create_search_for_addr does with a variant
kind(words) ==
    LET tokens == Tokens(words)
    IN CASE is_straat_huisnummer(tokens) > 0 -> "task"
         [] /\ is_straat_huisnummer(tokens) = 0 /\ first_house_number(tokens) = 0
            /\ tokens # << >> /\ isdigit(tokens[1]) -> "skip"
         [] OTHER -> "crash"

\* re.search("\d\d\d\d[a-z][a-z]"): four digits and two letters in one word
IsPostcode(word) == /\ Len(word) = 2 /\ isdigit(word[1]) /\ ~isdigit(word[2])
                    /\ Len(Spell[word[1]]) = 4 /\ Len(Spell[word[2]]) >= 2

Postcode(words) ==
    LET i == SelectInSeq(words, IsPostcode) IN IF i = 0 THEN NONE ELSE words[i]
-----------------------------------------------------------------------------
(* determine_relevant_huisnummers and determine_toevoegingen *)

\* determine_postcode_index: the first token that equals the digits of the
\* postcode; without a postcode, or without such a token, one past the end
determine_postcode_index(tokens, postcode) ==
    LET i == IF postcode = NONE THEN 0
             ELSE SelectInSeq(tokens, LAMBDA token : token = postcode[1])
    IN IF i = 0 THEN Len(tokens) + 1 ELSE i

current_toevoegingen(hi, tokens, postcode) ==
    SubSeq(tokens, hi + 1, determine_postcode_index(tokens, postcode) - 1)

\* dubbele_nummer_check: "30-32", as against "30-5"
dubbele_nummer_check(nummer, toevoegingen) ==
    /\ toevoegingen # << >> /\ isdigit(toevoegingen[1])
    /\ nummer - Value[toevoegingen[1]] \in -2..2

Neighbours(n) == <<n - 2, n + 2, n - 4, n + 4, n - 6, n + 6>>

\* the numbers to search for, nearest first
determine_relevant_huisnummers(nummer, toevoegingen) ==
    <<nummer>>
    \o (IF dubbele_nummer_check(nummer, toevoegingen) THEN <<Value[toevoegingen[1]]>> ELSE << >>)
    \o Neighbours(nummer)

\* What is left of the suffix.  tokens.remove takes the first token that equals the second
\* number, wherever it is; the suffix at the unchanged place hi is the same
Suffix(nummer, toevoegingen) ==
    IF dubbele_nummer_check(nummer, toevoegingen) THEN Tail(toevoegingen) ELSE toevoegingen

\* The options are sequences of characters; "H", "A", "O" and the numbers of the
\* table are not the same option as "h", "a", "o" and a written digit, only
\* the same text when a hit is compared with them
begane_grond == << <<"H">>, <<"int 1">>, <<"A">>, <<"O">> >>
Ints(a, b) == << <<a>>, <<b>> >>

mapping ==
    LET ground == {<<"a">>, <<"b","g">>, <<"h","u","i","s">>, <<"h">>, <<"h","s">>,
                   <<"s","o","u","s">>, <<"b","e","l">>, <<"p","a","r","t">>,
                   <<"p","a","r","t","e","r","r","e">>}
    IN [g \in ground |-> begane_grond]
       @@ <<"1","h","g">> :> Ints("int 1", "int 2") @@ <<"2","h","g">> :> Ints("int 2", "int 3")
       @@ <<"3","h","g">> :> Ints("int 3", "int 4") @@ <<"i","i","i">> :> Ints("int 3", "int 4")
       @@ <<"i","i">> :> Ints("int 2", "int 3")
       @@ <<"i">> :> << <<"1">>, <<"H">>, <<"A">>, <<"O">> >>
       @@ <<"b">> :> Ints("int 1", "int 2") @@ <<"c">> :> Ints("int 2", "int 3")
       @@ <<"d">> :> << <<"int 3">>, <<"int 2">>, <<"int 4">> >>
       @@ <<"e">> :> << <<"int 4">>, <<"int 3">>, <<"int 2">> >>

\* the text of an option, as match_hit compares it
Lower == "H" :> "h" @@ "A" :> "a" @@ "O" :> "o"
         @@ "int 1" :> "1" @@ "int 2" :> "2" @@ "int 3" :> "3" @@ "int 4" :> "4"
Text(option) == [i \in DOMAIN option |->
                    IF option[i] \in DOMAIN Lower THEN Lower[option[i]] ELSE option[i]]

Spaced(tv) == FlattenSeq([i \in DOMAIN tv |-> IF i = 1 THEN <<tv[i]>> ELSE <<" ", tv[i]>>])

Once(s) == FoldLeft(LAMBDA seen, x : IF Contains(seen, x) THEN seen ELSE Append(seen, x),
                    << >>, s)

\* of specific to less specific: as written, shorter, what it may stand for,
\* nothing, and the ground floor
normalize_toevoeging(tv) ==
    LET shorter == SelectSeq([k \in DOMAIN tv |-> Spaced(SubSeq(tv, 1, Len(tv) - k))],
                             LAMBDA optie : optie # << >>)
        alternatieven == <<tv, Spaced(tv)>> \o shorter
        mapped == SelectSeq(alternatieven, LAMBDA alt : alt \in DOMAIN mapping)
    IN Once(alternatieven
            \o FlattenSeq([k \in DOMAIN mapped |-> mapping[mapped[k]]])
            \o << << >> >> \o begane_grond)

\* the suffix is cut into single characters: "F26" becomes f, 2, 6
determine_toevoegingen(suffix) ==
    normalize_toevoeging(FlattenSeq([k \in DOMAIN suffix |-> Spell[suffix[k]]]))
-----------------------------------------------------------------------------
\* the arguments of the SearchTask that create_search_for_addr makes of a variant
SearchData(words) ==
    LET tokens == Tokens(words)
        hi     == is_straat_huisnummer(tokens)
        nummer == Value[tokens[hi]]
        toev   == current_toevoegingen(hi, tokens, Postcode(words))
        suffix == Suffix(nummer, toev)
    IN [straat       |-> SubSeq(tokens, 1, hi - 1),
        nummers      |-> determine_relevant_huisnummers(nummer, toev),
        toevoegingen |-> determine_toevoegingen(suffix),
        postcode     |-> Postcode(words)]

\* every variant of an adres, as the producer meets them
Kinds(words) == [k \in DOMAIN alternative_qs(words) |-> kind(alternative_qs(words)[k])]
=============================================================================
