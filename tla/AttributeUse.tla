---------------------------- MODULE AttributeUse ----------------------------
(***************************************************************************)
(* What the generator does with the groups that the scan of module         *)
(* AttributeScan has found: the groups of one declaration (groups_run_at,  *)
(* groups_run_before, groups_between, and field_groups of extract.cpp),    *)
(* the expression an argument becomes in the generated code                *)
(* (argument_text), the names in it that need the original header          *)
(* (external_identifiers), and the quick test on the raw text with which   *)
(* --discover picks the headers to parse (declares_attribute).             *)
(***************************************************************************)
EXTENDS AttributeScan

CONSTANT Members \* names that qualifier_of qualifies as members of the class

-----------------------------------------------------------------------------
\* first_token_from: the index of the first token at the offset or behind it.
first_token_from(offset) == Cardinality({k \in DOMAIN tokens : tokens[k].begin < offset}) + 1
BeginsAt(k, offset) == k \in DOMAIN tokens /\ tokens[k].begin = offset

\* next_token_offset: 0 for nullopt.
next_token_offset(offset) ==
    LET found == first_token_from(offset) IN
    IF BeginsAt(found, offset) /\ found < Len(tokens) THEN tokens[found + 1].begin ELSE 0

\* MUTANT: the run goes on behind any token between the groups.
groups_run_at_Gap(offset) == SelectSeq(groups, LAMBDA g : g.begin >= offset)

groups_run_at(offset) ==
    LET At(o) == {k \in DOMAIN groups : groups[k].begin = o}
        run[o \in 0 .. Len(input.text)] ==
            IF At(o) = {} THEN <<>>
            ELSE LET g == groups[CHOOSE k \in At(o) : TRUE]
                     next == first_token_from(g.end)
                 IN <<g>> \o IF next \in DOMAIN tokens THEN run[tokens[next].begin] ELSE <<>>
    IN run[offset]

groups_run_before(offset) ==
    LET PastNotes(at) ==
            CHOOSE k \in 1 .. at : /\ \A j \in k .. at - 1 : tokens[j].s = Note
                                   /\ k > 1 => tokens[k - 1].s # Note
        run[at \in 1 .. Len(tokens)] ==
            LET k == PastNotes(at)
                Ending == {n \in DOMAIN groups : k > 1 /\ groups[n].end = tokens[k - 1].end}
            IN IF Ending = {} THEN <<>>
               ELSE LET g == groups[CHOOSE n \in Ending : TRUE]
                    IN run[first_token_from(g.begin)] \o <<g>>
        first == first_token_from(offset)
    IN IF BeginsAt(first, offset) THEN run[first] ELSE <<>>

groups_between(begin, end) == SelectSeq(groups, LAMBDA g : g.begin >= begin /\ g.end <= end)

groups_after_name(name) ==
    LET next == next_token_offset(name) IN IF next = 0 THEN <<>> ELSE groups_run_at(next)

\* field_groups: start is where the extent of the field starts, name where
\* its name is.
field_groups(start, name) ==
    groups_run_before(start) \o groups_run_at(start) \o groups_after_name(name)

\* function_groups: the same for a class, an enumeration or a function.
function_groups(start, name) ==
    groups_run_before(start) \o groups_between(start, name) \o groups_after_name(name)

-----------------------------------------------------------------------------
Inside(a) == {k \in DOMAIN tokens : tokens[k].begin >= a.arguments_begin
                                    /\ tokens[k].end <= a.arguments_end
                                    /\ tokens[k].s # Note}
\* The argument's tokens without the comments.
Argument(a) == SelectSeq([k \in DOMAIN tokens |-> k], LAMBDA k : k \in Inside(a))

\* White space goes between two tokens that were apart.
Apart(arg, n) == tokens[arg[n - 1]].end < tokens[arg[n]].begin

follows_member_access(arg, n) == n > 1 /\ tokens[arg[n - 1]].s \in Access

\* A root identifier: one that argument_text asks qualifier_of about.
Root(arg, n) == IsIdentifier(tokens[arg[n]].s) /\ ~follows_member_access(arg, n)

Qualifier == "T::"
argument_text(a) ==
    LET arg == Argument(a) IN
    FlattenSeq([n \in DOMAIN arg |->
        (IF n > 1 /\ Apart(arg, n) THEN <<Space>> ELSE <<>>)
        \o (IF Root(arg, n) /\ tokens[arg[n]].s \in Members THEN <<Qualifier>> ELSE <<>>)
        \o <<tokens[arg[n]].s>>])

external_identifiers(a) ==
    LET arg == Argument(a) IN
    {tokens[arg[n]].s : n \in {m \in DOMAIN arg : Root(arg, m)}} \ (Members \cup {"reflgen", "std"})

-----------------------------------------------------------------------------
\* The characters of the text as far as declares_attribute tells them apart.
Raw(text) ==
    FlattenSeq([k \in DOMAIN text |->
        CASE text[k] = "quoted]]" -> <<"quote", "]", "]", "quote">>
          [] text[k] = "::" -> <<":", ":">>
          [] OTHER -> <<text[k]>>])
IsWord(c) == (IsIdentifier(c) /\ c # "quote") \/ c \in Keyword \cup {"0"}

contains_word(list, word) ==
    \E at \in 1 .. Len(list) - Len(word) + 1 :
        /\ SubSeq(list, at, at + Len(word) - 1) = word
        /\ at = 1 \/ ~IsWord(list[at - 1])
        /\ at + Len(word) > Len(list) \/ ~IsWord(list[at + Len(word)])

\* The list without white space.
Compact(list) == SelectSeq(list, LAMBDA c : c # Space)

declares_attribute(text, name) ==
    LET raw == Raw(text)
        Pairs(o, c) == {k \in o .. Len(raw) - 1 : raw[k] = c /\ raw[k + 1] = c}
        First(S) == CHOOSE k \in S : \A j \in S : k <= j
        prefix == <<"using", "reflgen", ":">>
        found(list) == IF IsPrefix(prefix, list)
                       THEN contains_word(SubSeq(list, 4, Len(list)), <<name>>)
                       ELSE contains_word(list, <<"reflgen", ":", ":", name>>)
        from[o \in 1 .. Len(raw) + 2] ==
            IF Pairs(o, "[") = {} THEN FALSE
            ELSE LET open == First(Pairs(o, "[")) IN
                 IF Pairs(open + 2, "]") = {} THEN FALSE
                 ELSE \/ found(Compact(SubSeq(raw, open + 2, First(Pairs(open + 2, "]")) - 1)))
                      \/ from[open + 2]
    IN from[1]

declares_reflection(text) ==
    declares_attribute(text, "reflect") \/ declares_attribute(text, "runtime")

-----------------------------------------------------------------------------
Arguments == UNION {{a \in ToSet(groups[k].attributes) : a.has_arguments} : k \in DOMAIN groups}
Fields == input.fields
Begins(gs) == [k \in DOMAIN gs |-> gs[k].begin]

\* A field has the groups in front of its declaration and the ones behind its
\* own name, and none of another field of the same statement, wherever
\* libclang lets the extent of the field start: at the first group (version
\* 22) or at the type (version 20).
FieldsOwnGroups ==
    pc = "done" => \A f \in ToSet(Fields) : \A start \in {f.first, f.type} :
        Begins(field_groups(start, f.name)) = f.leading \o f.own

\* The same for a function, whose groups may stand anywhere before its name:
\* it has none of the declaration before it.
FunctionsOwnGroups ==
    pc = "done" /\ Fields # <<>> => LET f == Fields[1] IN
        \A start \in {f.first, f.type} :
            Begins(function_groups(start, f.name)) = f.leading \o f.own

\* What is found in front of an extent and what is found from its start on
\* never overlap, so that adding both counts no attribute twice.
RunsDisjoint ==
    pc = "done" /\ input.use = "fields" => \A k \in DOMAIN tokens :
        ToSet(groups_run_before(tokens[k].begin)) \cap ToSet(groups_run_at(tokens[k].begin)) = {}

\* The generated code knows the names of an argument: members it qualifies,
\* what follows a member access, reflgen and std, and what is recorded as
\* needing the original header. A name behind a leading :: is looked up like
\* any other.
NamesResolve ==
    pc = "done" /\ input.use = "argument" => \A a \in Arguments :
        LET t == SelectSeq(argument_text(a), LAMBDA s : s # Space)
            Hangs(n) == n > 1 /\ \/ t[n - 1] \in {".", "->", Qualifier}
                                 \/ t[n - 1] = "::" /\ n > 2 /\ is_name(t[n - 2])
        IN \A n \in DOMAIN t :
            IsIdentifier(t[n]) /\ t[n] # Qualifier /\ ~Hangs(n) =>
                t[n] \in {"reflgen", "std"} \cup external_identifiers(a)

\* No two words of an argument grow together in the generated code, also
\* where only a comment kept them apart.
NothingFuses ==
    pc = "done" /\ input.use = "argument" => \A a \in Arguments :
        LET t == argument_text(a) IN
        \A n \in 1 .. Len(t) - 1 : ~(IsWord(t[n]) /\ t[n] # Qualifier /\ IsWord(t[n + 1]))

\* --discover skips no header in which the scan would find an attribute that
\* asks for reflection.
DiscoverMissesNothing ==
    pc = "done" /\ input.use = "discover" =>
        ((\E k \in DOMAIN groups : \E a \in ToSet(groups[k].attributes) :
              a.scope = "reflgen" /\ a.name \in {"reflect", "runtime"})
         => declares_reflection(input.text))

\* Every declarator gets its groups, each of them once, whichever libclang is
\* loaded (field_groups, function_groups); --discover overlooks no header; and
\* what argument_text rebuilds outside its class means what it meant inside.
AttributesExact ==
    /\ FieldsOwnGroups /\ FunctionsOwnGroups /\ RunsDisjoint
    /\ DiscoverMissesNothing
    /\ NamesResolve /\ NothingFuses
=============================================================================
