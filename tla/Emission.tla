------------------------------- MODULE Emission -------------------------------
(***************************************************************************)
(* generator/src/emit.cpp: the generated header of one source header. It   *)
(* is included into every translation unit, so it does without the source  *)
(* header wherever forward declarations are enough. Lines that come from a *)
(* member carry a #line to the member, and the lines behind them one back. *)
(***************************************************************************)
EXTENDS Extraction

VARIABLE output  \* the header: [included, forward, text]

None == [included |-> FALSE, forward |-> {}, text |-> <<>>]

-----------------------------------------------------------------------------
(* text_builder                                                             *)

Blank == [lines |-> 0, text |-> <<>>]

\* line: the text of a declaration, or of nothing (0); it may have line breaks
\* of its own (a raw string).
Line(out, d, height) ==
    [lines |-> out.lines + height,
     text |-> out.text \o [k \in 1 .. height |-> [of |-> d, nth |-> k, file |-> "", line |-> 0]]]
Directive(out, file, line) ==
    [lines |-> out.lines + 1, text |-> Append(out.text, [of |-> 0, nth |-> 0, file |-> file, line |-> line])]
\* The source line of a declaration is its number.
point_to(out, d) == Directive(out, "source", d)
point_back(out) == Directive(out, "generated", out.lines + 2)

Height(d) == IF Is(d, "tall") THEN 2 ELSE 1

\* emit_class: bases, then every member at its own place, then the class's
\* attributes at theirs.
emit_class(out, c) ==
    LET members == c.fields \o c.methods
        opened == FoldLeft(LAMBDA o, b : Line(o, 0, 1), Line(out, 0, 2), c.bases)
        listed == FoldLeft(LAMBDA o, m : Line(point_to(o, m), m, Height(m)), opened, members)
        closed == Line(IF members = <<>> THEN listed ELSE point_back(listed), 0, 1)
        named == IF Marked(c.at, "user")
                 THEN point_back(Line(point_to(Line(closed, 0, 1), c.at), c.at, Height(c.at)))
                 ELSE Line(closed, 0, 1)
    IN  Line(named, 0, 1)

emit_enum(out, e) == Line(out, 0, 2)

-----------------------------------------------------------------------------
IsClass(m) == D(m.at).kind = "class"

\* MUTANT: the bases are not looked at.
source_needed_Bases ==
    \E k \in DOMAIN models :
        LET m == models[k] IN
        \/ Nested(m.at)
        \/ IsClass(m) /\ (m.overloads \/ Is(m.at, "external"))
        \/ ~IsClass(m) /\ D(m.at).flags \cap {"scoped", "based"} = {}
source_needed ==
    \E k \in DOMAIN models :
        LET m == models[k] IN
        \/ Nested(m.at)
        \/ IsClass(m) /\ (m.overloads \/ Is(m.at, "external"))
        \/ IsClass(m) /\ \E b \in Range(m.bases) : Nested(b) \/ Is(b, "specialized")
        \/ ~IsClass(m) /\ D(m.at).flags \cap {"scoped", "based"} = {}

emit_forward_declarations ==
    UNION {{models[k].at} \cup (IF IsClass(models[k]) THEN Range(models[k].bases) ELSE {}) : k \in DOMAIN models}

\* emit_header: enums first.
emit_header ==
    /\ phase = "parsed" /\ ~has_errors
    /\ LET enums == SelectSeq(models, LAMBDA m : ~IsClass(m))
           classes == SelectSeq(models, IsClass)
           start == Line(Blank, 0, 1)
       IN  output' = [included |-> source_needed,
                      forward |-> IF source_needed THEN {} ELSE emit_forward_declarations,
                      text |-> FoldLeft(emit_class, FoldLeft(emit_enum, start, enums), classes).text]
    /\ phase' = "done"
    /\ UNCHANGED <<unit, todo, context, models, exports, extents, report>>

EmitInit == Init /\ output = None
EmitNext == (Next /\ UNCHANGED output) \/ emit_header

-----------------------------------------------------------------------------
\* A type that an opaque declaration in its namespace can introduce.
Declarable(d) ==
    /\ ~Nested(d) /\ ~Is(d, "specialized")
    /\ D(d).kind = "enum" => D(d).flags \cap {"scoped", "based"} # {}

\* A generated header that leaves the source header out stands on its own:
\* every type it names is declared in it, and can be. (A base in an unnamed
\* namespace of the source has no name outside of it.)
HeaderStands ==
    phase = "done" /\ ~output.included =>
        \A k \in DOMAIN models :
            LET m == models[k]
                names == {m.at} \cup (IF IsClass(m) THEN {b \in Range(m.bases) : enclosing_namespaces(b)} ELSE {})
            IN  /\ names \subseteq output.forward /\ \A d \in names : Declarable(d)
                /\ ~Is(m.at, "external")
                /\ IsClass(m) => \A x \in Range(m.methods) : Overloads(m.at, D(x).name) = 1

\* Where the compiler takes line n of the header to be.
Reported(n) ==
    LET before == {k \in 1 .. n - 1 : output.text[k].nth = 0} IN
    IF before = {} THEN <<"generated", n>>
    ELSE LET last == CHOOSE k \in before : \A j \in before : j <= k IN
         <<output.text[last].file, output.text[last].line + (n - last - 1)>>

\* An error in the text of a member is reported at the member, an error
\* anywhere else in the generated header at its own line.
LinesReported ==
    phase = "done" => \A n \in DOMAIN output.text :
        LET l == output.text[n] IN
        CASE l.nth = 0 -> TRUE
          [] l.nth # 0 /\ l.of = 0 -> Reported(n) = <<"generated", n>>
          [] l.nth # 0 /\ l.of # 0 -> l.nth = 1 => Reported(n) = <<"source", l.of>>
=============================================================================
