---------------------------- MODULE AttributeScan ----------------------------
(***************************************************************************)
(* generator/src/attribute_scan.cpp: how the generator finds the [[...]]   *)
(* groups of a header, one iteration of scan_attribute_groups or of        *)
(* parse_group per step. What is done with the groups is module            *)
(* AttributeUse.                                                           *)
(*                                                                         *)
(* A text is a sequence of lexemes and white space; an offset is a         *)
(* position in it. A lexeme that is not listed below is an identifier.     *)
(***************************************************************************)
EXTENDS Integers, Sequences, SequencesExt, FiniteSets

CONSTANT Inputs \* [use, text, fields]: a header, the question it serves and its fields

\* A header is a finite text, any.
ScanAssumption == \A x \in Inputs : x.text \in Seq(STRING)

ASSUME ScanAssumption

Space == " "
Note == "note"               \* a comment
Literal == {"0", "quoted]]"} \* a number, and a string with ]] inside it
Keyword == {"using", "int"}
Opening == {"(", "[", "{"}
Closing == {")", "]", "}"}
Access == {"::", ".", "->"}
Separator == ","
Punctuation == Opening \cup Closing \cup Access \cup {Separator, ":", ";"}
IsIdentifier(s) == s \notin Literal \cup Keyword \cup Punctuation \cup {Space, Note}
is_name(s) == IsIdentifier(s) \/ s \in Keyword
Closer(s) == CASE s = "(" -> ")" [] s = "[" -> "]" [] s = "{" -> "}"

VARIABLES input,
          tokens,    \* [s, begin, end] of every lexeme that is no white space
          i,         \* the token the scan has reached
          pc,        \* "scan", "group" (inside parse_group) or "done"
          position,  \* where parse_group started
          default_scope, attributes, groups

vars == <<input, tokens, i, pc, position, default_scope, attributes, groups>>

\* The lexer: one token for every lexeme, at its offsets.
Tokens(text) ==
    LET lexed[n \in 0 .. Len(text)] ==
            IF n = 0 THEN <<>>
            ELSE IF text[n] = Space THEN lexed[n - 1]
            ELSE Append(lexed[n - 1], [s |-> text[n], begin |-> n, end |-> n + 1])
    IN  lexed[Len(text)]

Init ==
    /\ input \in Inputs
    /\ tokens = Tokens(input.text)
    /\ i = 1
    /\ pc = "scan"
    /\ position = 0
    /\ default_scope = ""
    /\ attributes = <<>>
    /\ groups = <<>>

is(k, s) == k \in DOMAIN tokens /\ tokens[k].s = s

\* One round of the loop of matching_parenthesis: the closing brackets it
\* expects, whether it is over, and its result, 0 when there is no match.
MatchToken(acc, j) ==
    LET s == tokens[j].s
        last == Len(acc.expected) = 1
    IN  IF acc.over \/ s \notin Opening \cup Closing THEN acc
        ELSE IF s \in Opening
        THEN [acc EXCEPT !.expected = Append(acc.expected, Closer(s))]
        ELSE IF acc.expected = <<>> \/ Last(acc.expected) # s
        THEN [acc EXCEPT !.over = TRUE]
        ELSE [expected |-> Front(acc.expected), over |-> last,
              close |-> IF last THEN j ELSE 0]

matching_parenthesis(k) ==
    LET until[j \in k - 1 .. Len(tokens)] ==
            IF j < k THEN [expected |-> <<>>, over |-> FALSE, close |-> 0]
            ELSE MatchToken(until[j - 1], j)
    IN  until[Len(tokens)].close

-----------------------------------------------------------------------------
\* The loop of scan_attribute_groups.
SkipToken ==
    /\ pc = "scan" /\ i < Len(tokens)
    /\ ~(is(i, "[") /\ is(i + 1, "["))
    /\ i' = i + 1
    /\ UNCHANGED <<input, tokens, pc, position, default_scope, attributes, groups>>

OpenGroup ==
    /\ pc = "scan" /\ i < Len(tokens)
    /\ is(i, "[") /\ is(i + 1, "[")
    /\ pc' = "group"
    /\ position' = i
    /\ attributes' = <<>>
    /\ LET prefixed == is(i + 2, "using") /\ is(i + 4, ":") /\ is_name(tokens[i + 3].s) IN
       IF prefixed THEN default_scope' = tokens[i + 3].s /\ i' = i + 5
       ELSE default_scope' = "" /\ i' = i + 2
    /\ UNCHANGED <<input, tokens, groups>>

Finish ==
    /\ pc = "scan" /\ i >= Len(tokens)
    /\ pc' = "done"
    /\ UNCHANGED <<input, tokens, i, position, default_scope, attributes, groups>>

\* MUTANT: the scan goes on behind the opening brackets of the group.
CloseGroup_Inside ==
    /\ pc = "group" /\ is(i, "]") /\ is(i + 1, "]")
    /\ groups' = Append(groups, [begin |-> tokens[position].begin, end |-> tokens[i + 1].end,
                                 attributes |-> attributes])
    /\ i' = position + 2
    /\ pc' = "scan"
    /\ UNCHANGED <<input, tokens, position, default_scope, attributes>>

\* The loop of parse_group: the closing brackets give the group to the scan.
CloseGroup ==
    /\ pc = "group" /\ is(i, "]") /\ is(i + 1, "]")
    /\ groups' = Append(groups, [begin |-> tokens[position].begin, end |-> tokens[i + 1].end,
                                 attributes |-> attributes])
    /\ i' = i + 2
    /\ pc' = "scan"
    /\ UNCHANGED <<input, tokens, position, default_scope, attributes>>

Comma ==
    /\ pc = "group" /\ is(i, Separator)
    /\ i' = i + 1
    /\ UNCHANGED <<input, tokens, pc, position, default_scope, attributes, groups>>

Named == i \in DOMAIN tokens /\ is_name(tokens[i].s)
Scoped == is(i + 1, "::") /\ i + 2 \in DOMAIN tokens /\ is_name(tokens[i + 2].s)
\* The first token behind the name of the attribute at i.
Behind == i + IF Scoped THEN 3 ELSE 1

Attribute ==
    /\ pc = "group" /\ Named
    /\ LET open == is(Behind, "(")
           close == matching_parenthesis(Behind) IN
       /\ open => close # 0
       /\ attributes' = Append(attributes,
              [scope |-> IF Scoped THEN tokens[i].s ELSE default_scope,
               name |-> IF Scoped THEN tokens[i + 2].s ELSE tokens[i].s,
               has_arguments |-> open,
               arguments_begin |-> IF open THEN tokens[Behind].end ELSE 0,
               arguments_end |-> IF open THEN tokens[close].begin ELSE 0])
       /\ i' = IF open THEN close + 1 ELSE Behind
    /\ UNCHANGED <<input, tokens, pc, position, default_scope, groups>>

\* parse_group returns nullopt: the scan moves on by one token.
GiveUp ==
    /\ pc = "group"
    /\ ~(is(i, "]") /\ is(i + 1, "]")) /\ ~is(i, Separator)
    /\ Named => is(Behind, "(") /\ matching_parenthesis(Behind) = 0
    /\ i' = position + 1
    /\ pc' = "scan"
    /\ UNCHANGED <<input, tokens, position, default_scope, attributes, groups>>

Next == SkipToken \/ OpenGroup \/ Finish \/ CloseGroup \/ Comma \/ Attribute \/ GiveUp

Spec == Init /\ [][Next]_vars

-----------------------------------------------------------------------------
(* A reference for what C++ calls an attribute list, over token indices.    *)

Count(b, e, S) == Cardinality({k \in b .. e : tokens[k].s \in S})
\* The closing token that ends the bracket opened at b, whatever its kind.
Partner(b, e) ==
    {c \in b .. e : /\ Count(b, c, Opening) = Count(b, c, Closing)
                    /\ \A d \in b .. c - 1 : Count(b, d, Opening) > Count(b, d, Closing)}
\* b .. e is one bracketed piece, and every bracket in it is closed by its kind.
Bracketed(b, e) ==
    /\ e \in Partner(b, e)
    /\ \A k \in b .. e : tokens[k].s \in Opening =>
           \E c \in Partner(k, e) : tokens[c].s = Closer(tokens[k].s)

IsAttribute(b, e) ==
    \E h \in {b, b + 2} \cap b .. e :
        /\ is_name(tokens[b].s) /\ is_name(tokens[h].s)
        /\ h = b + 2 => tokens[b + 1].s = "::"
        /\ h = e \/ (tokens[h + 1].s = "(" /\ Bracketed(h + 1, e))

\* b .. e is a list of attributes, some of them left empty.
IsList(b, e) ==
    \E commas \in SUBSET {k \in b .. e : tokens[k].s = Separator} :
        LET cuts == {b - 1, e + 1} \cup commas IN
        \A c, d \in cuts :
            c < d /\ (\A k \in cuts : k <= c \/ d <= k) => c + 1 = d \/ IsAttribute(c + 1, d - 1)

IsGroup(b, e) ==
    /\ is(b, "[") /\ is(b + 1, "[") /\ is(e - 1, "]") /\ is(e, "]") /\ b + 2 < e
    /\ \/ IsList(b + 2, e - 2)
       \/ /\ is(b + 2, "using") /\ b + 4 <= e - 2 /\ is_name(tokens[b + 3].s)
          /\ is(b + 4, ":") /\ IsList(b + 5, e - 2)

\* Every attribute list of the header is found where it begins and ends,
\* unless it stands inside one that is found (in an argument of it): a list
\* that is overlooked takes a class or a field out of the reflection without
\* a word.
FindsEveryGroup ==
    pc = "done" /\ input.use = "scan" =>
        \A b, e \in DOMAIN tokens : IsGroup(b, e) =>
            \E k \in DOMAIN groups :
                \/ groups[k].begin = tokens[b].begin /\ groups[k].end = tokens[e].end
                \/ groups[k].begin < tokens[b].begin /\ tokens[b].begin < groups[k].end

\* The groups are in the order of the text and do not overlap, and the
\* arguments lie inside their group: lower_bound in groups_run_at and the
\* search backwards in groups_run_before rely on it.
GroupsInOrder ==
    /\ \A k \in 1 .. Len(groups) - 1 : groups[k].end <= groups[k + 1].begin
    /\ \A k \in DOMAIN groups : \A a \in ToSet(groups[k].attributes) :
           a.has_arguments =>
               groups[k].begin < a.arguments_begin /\ a.arguments_end < groups[k].end

\* scan_attribute_groups returns the lists of the C++ grammar, in order: what
\* the upper half of the generator binds to declarations is what was written.
ScanExact == FindsEveryGroup /\ GroupsInOrder
=============================================================================
