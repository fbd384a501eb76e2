------------------------------ MODULE Extraction ------------------------------
(***************************************************************************)
(* generator/src/extract.cpp: one walk over the declarations that libclang *)
(* has parsed, from the marked ones to the models that code is emitted     *)
(* from. A unit is a sequence of declarations in source order:             *)
(*   kind    "namespace", "anonymous" (an unnamed one), "class", "union",  *)
(*           "template", "partial" (specialization), "enum", "enumerator", *)
(*           "field", "method", "fntemplate", "special" (a constructor or  *)
(*           destructor), "var", "using" (a using declaration), "alias",   *)
(*           "param"                                                       *)
(*   in      the declaration around it, 0 for none                         *)
(*   name, access ("public" or not), bases (<<class, access>> each)        *)
(*   marks   the directives of its attributes                              *)
(*   flags   what else the code asks: "here" (in a listed header),         *)
(*           "defined", "invalid" (to clang), "system", "specialized",     *)
(*           "static", "deleted", "consteval", "bitfield", "reference",    *)
(*           "unnamed", "friend" (befriends reflgen::access), "recipe"     *)
(*           (a static reflect() that returns a schema), "external" (its   *)
(*           attributes use names that only the source header declares),   *)
(*           "scoped", "based" (an enum-base is written)                   *)
(* The walk is recursive in the code; here the calls it has not come to    *)
(* yet are a list.                                                         *)
(***************************************************************************)
EXTENDS Integers, Sequences, SequencesExt

CONSTANTS Units  \* [decls, errors (of clang), collect (interop is on), versions (-std=)]

VARIABLES unit,
          todo,     \* calls to come: [op, at]
          context,  \* member_context of the class whose members are visited
          models,   \* class and enum models, in order
          exports,  \* classes, values and tables for the language bindings
          extents,  \* declarations whose extent was noted
          report,   \* diagnostics: [code, at, level]
          phase     \* "walk", "parsed", "done"

vars == <<unit, todo, context, models, exports, extents, report, phase>>

-----------------------------------------------------------------------------
(* What a cursor tells                                                      *)

D(d) == unit.decls[d]
Decls == DOMAIN unit.decls
Is(d, flag) == flag \in D(d).flags
Marked(d, directive) == directive \in D(d).marks
Children(d) == SelectSeq([i \in Decls |-> i], LAMBDA i : D(i).in = d)
Around(d) == LET up[n \in 0 .. Len(unit.decls)] ==
                     IF n = 0 THEN {D(d).in} ELSE up[n - 1] \cup {D(e).in : e \in up[n - 1] \ {0}}
             IN  up[Len(unit.decls)] \ {0}
model_for(d) == Is(d, "here")
enclosing_namespaces(d) == \A e \in Around(d) : D(e).kind # "anonymous"
IsRecord(kind) == kind \in {"class", "union", "template", "partial"}
Nested(d) == \E e \in Around(d) : IsRecord(D(e).kind)
InteropMarks == {"interop", "lifetime", "value", "table", "callback", "return_ownership"}
has_interop(d) == D(d).marks \cap InteropMarks # {}

Diag(code, d, level) == [code |-> code, at |-> d, level |-> level]
Error(code, d) == Diag(code, d, "error")
Warning(code, d) == Diag(code, d, "warning")
has_errors == \E x \in report : x.level = "error"

\* note_declaration
Noted(d) == IF Is(d, "invalid") THEN {Error("RG0102", d)} ELSE {}

Calls(op, ds) == [i \in DOMAIN ds |-> [op |-> op, at |-> ds[i]]]
At(op) == phase = "walk" /\ todo # <<>> /\ Head(todo).op = op
Here == Head(todo).at

Init ==
    /\ unit \in Units
    /\ todo = LET roots == SelectSeq([i \in DOMAIN unit.decls |-> i], LAMBDA i : unit.decls[i].in = 0)
              IN  [i \in DOMAIN roots |-> [op |-> "visit", at |-> roots[i]]]
    /\ context = <<>> /\ models = <<>> /\ exports = <<>> /\ extents = {} /\ report = {} /\ phase = "walk"

-----------------------------------------------------------------------------
(* visit_scope                                                              *)

\* validate_interop_location, the parameters of a function included.
InteropPlaced(d) ==
    \/ ~has_interop(d)
    \/ D(d).kind = "class" /\ Is(d, "defined") /\ ~Marked(d, "table")
    \/ D(d).kind = "method" /\ D(d).in # 0 /\ D(D(d).in).kind = "class" /\ ~Marked(d, "table")
    \/ D(d).kind = "alias" /\ D(d).marks \cap {"value", "table"} # {}
Misplaced(d) ==
    {e \in {d} \cup (IF D(d).kind \in {"method", "fntemplate", "special"}
                     THEN {c \in Decls : D(c).in = d /\ D(c).kind = "param"} ELSE {}) : ~InteropPlaced(e)}

\* What is visited within a declaration, and the call behind it.
\* visit_definition: nested types of a template only for the language bindings.
Within(d) ==
    LET inner == Calls("visit", Children(d))
        whenCollecting == IF unit.collect THEN inner ELSE <<>>
    IN  CASE D(d).kind \in {"namespace", "anonymous"} -> inner
          [] ~model_for(d) \/ ~Is(d, "defined") -> <<>>
          [] D(d).kind = "class" ->
                 inner \o (IF unit.collect THEN <<[op |-> "interop", at |-> d]>> ELSE <<>>)
                       \o <<[op |-> "class", at |-> d]>>
          [] D(d).kind = "enum" -> whenCollecting \o <<[op |-> "enum", at |-> d]>>
          [] D(d).kind = "union" -> inner
          [] D(d).kind \in {"template", "partial"} -> whenCollecting
          [] OTHER -> <<>>

\* warn_if_reflected
Unsupported(d) ==
    IF D(d).kind \in {"union", "template"} /\ model_for(d) /\ Is(d, "defined") /\ Marked(d, "reflect")
    THEN {Warning("RG0005", d)} ELSE {}

visit_scope ==
    /\ At("visit")
    /\ LET d == Here
           wrong == IF unit.collect /\ model_for(d) THEN Misplaced(d) ELSE {}
           alias == unit.collect /\ model_for(d) /\ D(d).kind = "alias" /\ D(d).marks \cap {"value", "table"} # {}
       IN  /\ todo' = Within(d) \o Tail(todo)
           /\ extents' = extents \cup wrong \cup (IF alias THEN {d} ELSE {})
           /\ exports' = IF alias THEN Append(exports, [at |-> d, methods |-> {}]) ELSE exports
           /\ report' = report \cup Unsupported(d) \cup (IF alias THEN Noted(d) ELSE {})
                        \cup UNION {Noted(e) \cup {Error("RG0200", e)} : e \in wrong}
    /\ UNCHANGED <<unit, context, models, phase>>

-----------------------------------------------------------------------------
(* The language bindings' own pass over a class                             *)

Overloads(c, name) ==
    LET Count(kinds) == Cardinality({i \in Decls : D(i).in = c /\ D(i).name = name /\ D(i).kind \in kinds}) IN
    Count({"method", "fntemplate"}) + 2 * Count({"using"})

visit_interop_class ==
    /\ At("interop")
    /\ LET d == Here
           chosen == {m \in Decls : D(m).in = d /\ D(m).kind = "method" /\ has_interop(m)}
           way == {d} \cup Around(d)
           wrong == {m \in chosen : Is(m, "deleted")}
                    \cup (IF ~enclosing_namespaces(d) \/ Is(d, "unnamed")
                             \/ \E e \in way : \/ D(e).kind \in {"template", "partial"}
                                                \/ Is(e, "specialized") \/ D(e).access # "public"
                          THEN {d} ELSE {})
       IN  /\ todo' = Tail(todo)
           /\ IF ~has_interop(d) /\ chosen = {} THEN UNCHANGED <<exports, extents, report>>
              ELSE /\ exports' = Append(exports, [at |-> d, methods |-> chosen])
                   /\ extents' = extents \cup {d} \cup wrong
                   /\ report' = report \cup Noted(d) \cup UNION {Noted(e) \cup {Error("RG0200", e)} : e \in wrong}
    /\ UNCHANGED <<unit, context, models, phase>>

-----------------------------------------------------------------------------
(* visit_class and its members                                              *)

is_reflected(d, runtime) ==
    Marked(d, "reflect") \/ (runtime /\ Marked(d, "runtime")) \/ Is(d, "recipe")

\* The nearest reflected ancestors on public paths, each once; nothing above
\* a class of a system header.
RECURSIVE reflected_ancestors(_, _)
reflected_ancestors(d, runtime) ==
    LET Of(b) == IF b[2] # "public" \/ Is(b[1], "system") THEN <<>>
                 ELSE IF is_reflected(b[1], runtime) THEN <<b[1]>>
                 ELSE reflected_ancestors(b[1], runtime)
        all == FlattenSeq([i \in DOMAIN D(d).bases |-> Of(D(d).bases[i])])
    IN  FoldLeft(LAMBDA done, b : IF Contains(done, b) THEN done ELSE Append(done, b), <<>>, all)

\* The class itself, up to its members.
visit_class ==
    /\ At("class")
    /\ LET d == Here
           runtime == ~Marked(d, "reflect") /\ Marked(d, "runtime")
       IN  \/ /\ D(d).marks \cap {"reflect", "runtime"} = {}
              /\ todo' = Tail(todo) /\ UNCHANGED <<context, extents, report>>
           \/ /\ D(d).marks \cap {"reflect", "runtime"} # {} /\ ~enclosing_namespaces(d)
              /\ report' = report \cup {Warning("RG0005", d)}
              /\ todo' = Tail(todo) /\ UNCHANGED <<context, extents>>
           \/ /\ D(d).marks \cap {"reflect", "runtime"} # {} /\ enclosing_namespaces(d)
              /\ extents' = extents \cup {d}
              /\ report' = report \cup Noted(d)
              /\ context' = [at |-> d, runtime |-> runtime, hidden |-> {}, fields |-> <<>>, methods |-> <<>>,
                             bases |-> reflected_ancestors(d, runtime), overloads |-> FALSE,
                             public_fields |-> runtime \/ Marked(d, "public_fields"),
                             public_methods |-> runtime \/ Marked(d, "public_methods")]
              /\ todo' = Calls("member", Children(d)) \o <<[op |-> "close", at |-> d]>> \o Tail(todo)
    /\ UNCHANGED <<unit, models, exports, phase>>

\* first_hidden_member
Hide(m) == IF D(m).access # "public" /\ context.hidden = {} THEN {m} ELSE context.hidden

Skip(code, m) == report' = report \cup {Warning(code, m)} /\ UNCHANGED context

add_field(m) ==
    IF Marked(m, "ignore") \/ (context.public_fields /\ D(m).access # "public") THEN UNCHANGED <<report, context>>
    ELSE IF Is(m, "unnamed") \/ Is(m, "bitfield") \/ (Is(m, "reference") /\ ~context.runtime) THEN Skip("RG0004", m)
    ELSE context' = [context EXCEPT !.fields = Append(@, m), !.hidden = Hide(m)] /\ UNCHANGED report

\* MUTANT: an overload is skipped.
add_method_Skips(m) ==
    LET overloaded == Overloads(context.at, D(m).name) > 1 IN
    IF Marked(m, "ignore")
       \/ ~(Marked(m, "reflect") \/ (context.public_methods /\ D(m).access = "public"))
       \/ (overloaded /\ ~context.public_methods)
    THEN UNCHANGED <<report, context>>
    ELSE IF Is(m, "static") \/ Is(m, "deleted") \/ Is(m, "consteval") THEN Skip("RG0004", m)
    ELSE /\ context' = [context EXCEPT !.methods = Append(@, m), !.hidden = Hide(m), !.overloads = @ \/ overloaded]
         /\ UNCHANGED report
add_method(m) ==
    LET overloaded == Overloads(context.at, D(m).name) > 1 IN
    IF Marked(m, "ignore") \/ ~(Marked(m, "reflect") \/ (context.public_methods /\ D(m).access = "public"))
    THEN UNCHANGED <<report, context>>
    ELSE IF Is(m, "static") \/ Is(m, "deleted") THEN Skip("RG0004", m)
    ELSE IF overloaded /\ ~context.public_methods
    THEN report' = report \cup {Error("RG0006", m)} /\ UNCHANGED context
    ELSE IF Is(m, "consteval")   \* hidden all the same
    THEN report' = report \cup {Warning("RG0004", m)} /\ context' = [context EXCEPT !.hidden = Hide(m)]
    ELSE /\ context' = [context EXCEPT !.methods = Append(@, m), !.hidden = Hide(m), !.overloads = @ \/ overloaded]
         /\ UNCHANGED report

visit_members ==
    /\ At("member")
    /\ CASE D(Here).kind = "field" -> add_field(Here)
         [] D(Here).kind = "method" -> add_method(Here)
         [] D(Here).kind \in {"fntemplate", "special", "var"} /\ Marked(Here, "reflect") ->
                Skip(IF D(Here).kind = "fntemplate" THEN "RG0005" ELSE "RG0004", Here)
         [] OTHER -> UNCHANGED <<report, context>>
    /\ todo' = Tail(todo)
    /\ UNCHANGED <<unit, models, exports, extents, phase>>

\* The end of visit_class.
CloseClass ==
    /\ At("close")
    /\ report' = IF context.hidden # {} /\ ~Is(Here, "friend") THEN report \cup {Error("RG0002", Here)} ELSE report
    /\ models' = Append(models, context)
    /\ context' = <<>> /\ todo' = Tail(todo)
    /\ UNCHANGED <<unit, exports, extents, phase>>

visit_enum ==
    /\ At("enum")
    /\ LET d == Here
           marked == {e \in Decls : D(e).in = d /\ D(e).kind = "enumerator" /\ Marked(e, "user")}
       IN  IF ~Marked(d, "reflect") THEN UNCHANGED <<models, extents, report>>
           ELSE IF ~enclosing_namespaces(d)
           THEN report' = report \cup {Warning("RG0005", d)} /\ UNCHANGED <<models, extents>>
           ELSE /\ extents' = extents \cup {d}
                /\ report' = report \cup Noted(d) \cup {Warning("RG0004", e) : e \in marked}
                /\ models' = Append(models, [at |-> d])
    /\ todo' = Tail(todo)
    /\ UNCHANGED <<unit, context, exports, phase>>

-----------------------------------------------------------------------------
(* extract: what clang reported, once the walk is over                      *)

InExtent(e, d) == e.at # 0 /\ (e.at = d \/ d \in Around(e.at))

report_clang_errors ==
    /\ phase = "walk" /\ todo = <<>>
    /\ LET loud == {e \in unit.errors : e.fatal \/ \E d \in extents : InExtent(e, d)} IN
       report' = report \cup {Error("RG0100", e.at) : e \in loud}
                 \cup {Diag("RG0101", e.at, "note") : e \in unit.errors \ loud}
    /\ phase' = "parsed"
    /\ UNCHANGED <<unit, todo, context, models, exports, extents>>

Next ==
    \/ visit_scope \/ visit_interop_class \/ visit_class \/ visit_members \/ CloseClass \/ visit_enum
    \/ report_clang_errors

-----------------------------------------------------------------------------
(* clang_arguments_for                                                      *)

\* A -std= argument: <<"year", 17>>, <<"draft", "2a">> or <<"other", ..>>.
DraftRank == [v \in {"2a", "2b", "2c"} |-> IF v = "2a" THEN 20 ELSE IF v = "2b" THEN 23 ELSE 26]
standard_rank(version) ==
    CASE version[1] = "draft" -> DraftRank[version[2]]
      [] version[1] = "year" -> IF version[2] >= 98 THEN version[2] - 100 ELSE version[2]
      [] OTHER -> 0

\* The one standard that is passed on: the first of the highest, C++20 when
\* none is given.
standard(versions) ==
    IF versions = <<>> THEN <<"year", 20>>
    ELSE FoldLeft(LAMBDA best, v : IF standard_rank(v) > standard_rank(best) THEN v ELSE best,
                  Head(versions), Tail(versions))

-----------------------------------------------------------------------------
InModel(d) == \E k \in DOMAIN models :
    LET m == models[k] IN
    \/ m.at = d
    \/ D(m.at).kind = "class" /\ d \in Range(m.fields) \cup Range(m.methods)
Named(d) == \E x \in report : x.at = d

\* A class, an enum, a union or a class template that is marked, and a marked
\* member of a class in the models, is described or named in a diagnostic.
\* (What a class template holds is only looked at for the language bindings.)
NothingSilent ==
    phase = "parsed" => \A d \in Decls :
        /\ Marked(d, "reflect") /\ Is(d, "here") /\ Is(d, "defined")
        /\ D(d).kind # "partial" /\ \A e \in Around(d) : D(e).kind \notin {"template", "partial"}
        /\ IF D(d).kind \in {"field", "method", "fntemplate", "special", "var"}
           THEN InModel(D(d).in) /\ ~Marked(d, "ignore") /\ D(d).kind # "field"
           ELSE D(d).kind \in {"class", "enum", "union", "template"}
        => InModel(d) \/ Named(d)

\* Whatever makes clang misread a declaration that is described or exported
\* fails the run: an error anywhere within it, a declaration that is invalid,
\* a parse that stopped.
MisreadFails ==
    phase = "parsed" /\ ~has_errors =>
        LET used == {models[k].at : k \in DOMAIN models} \cup {exports[k].at : k \in DOMAIN exports} IN
        /\ \A d \in used : ~Is(d, "invalid")
        /\ \A e \in unit.errors : ~e.fatal /\ \A d \in used : ~InExtent(e, d)

\* The bases of a described class: every described class that public bases
\* lead to without passing another, each once, and none beyond.
AncestorsExact ==
    phase = "parsed" => \A k \in DOMAIN models : D(models[k].at).kind = "class" =>
        LET c == models[k]
            open(b) == b[2] = "public" /\ ~Is(b[1], "system")
            up(ds) == ds \cup {b[1] : b \in {b \in UNION {Range(D(d).bases) : d \in {d \in ds : d = c.at \/ ~is_reflected(d, c.runtime)}} : open(b)}}
            reach[n \in 0 .. Len(unit.decls)] == IF n = 0 THEN {c.at} ELSE up(reach[n - 1])
        IN  /\ Range(c.bases) = {d \in reach[Len(unit.decls)] \ {c.at} : is_reflected(d, c.runtime)}
            /\ Cardinality(Range(c.bases)) = Len(c.bases)

\* A described class without access to its members is an error whatever other
\* members it has: every non-public member that is described needs the friend.
HiddenNeedsFriend ==
    phase = "parsed" /\ ~has_errors =>
        \A k \in DOMAIN models : D(models[k].at).kind = "class" =>
            \/ Is(models[k].at, "friend")
            \/ \A m \in Range(models[k].fields) \cup Range(models[k].methods) : D(m).access = "public"

\* Of the standards a build system gives, the newest is the one that counts.
Order == <<<<"year", 98>>, <<"year", 3>>, <<"year", 11>>, <<"year", 17>>, <<"draft", "2a">>, <<"year", 23>>, <<"draft", "2c">>>>
Age(v) == CHOOSE k \in DOMAIN Order : Order[k] = v
NewestStandard ==
    unit.versions # <<>> => \A k \in DOMAIN unit.versions : Age(unit.versions[k]) <= Age(standard(unit.versions))
=============================================================================
