----------------------------- MODULE MCGenerator -----------------------------
(***************************************************************************)
(* The generator for TLC, one part at a time: attribute lists ("scan"),    *)
(* the walk over declarations and the header emitted from it ("extract"),  *)
(* and the language bindings: the inputs of the F# tables, of the C, C#    *)
(* and F# bindings and of PrSM, and the threads that use owned handles.    *)
(***************************************************************************)
EXTENDS AttributeUse, OwnedHandle

VARIABLES unit, todo, context, models, exports, extents, report, phase, output  \* Emission

avars == vars
evars == <<unit, todo, context, models, exports, extents, report, phase, output>>

-----------------------------------------------------------------------------
(* Headers put together from the pieces of attribute lists, well formed and *)
(* not; statements that declare two fields, with groups in every place a    *)
(* group may stand.                                                         *)

Open == <<"[", "[">>
Close == <<"]", "]">>
Reflect == <<"reflgen", "::", "reflect">>
\* The texts of up to n pieces.
Upto(n, pieces) ==
    LET texts[k \in 0 .. n] ==
            IF k = 0 THEN {<<>>} ELSE {t \o p : t \in texts[k - 1], p \in pieces \cup {<<>>}}
    IN  texts[n]
Text(use, text) == [use |-> use, text |-> text, fields |-> <<>>]

\* Everything that can follow an opening pair of brackets.
Pieces == {Open, Close, Reflect, <<"x">>, <<",">>, <<"(">>, <<")">>, <<"[">>, <<"]">>,
           <<"using", "reflgen", ":">>, <<"0">>, <<"note">>}
ScanInputs == {Text("scan", Open \o s) : s \in Upto(4, Pieces)}
              \cup {Text("scan", Open \o <<"x", "(">> \o s \o Close) : s \in Upto(3, Pieces)}

\* Attributes as --discover meets them, with white space between any two.
Attributes == {Reflect, <<"reflgen", Space, "::", Space, "runtime">>, <<"game", "::", "reflect">>,
               <<"x", "(", "0", ")">>}
Lists == {<<>>} \cup {<<a>> : a \in Attributes} \cup {<<a, <<",">>, b>> : a \in Attributes, b \in Attributes}
Group(list) == FlattenSeq(<<Open>> \o list \o <<Close>>)
Prefixed == {<<<<"using", "reflgen", ":", Space>>, <<a>>>> : a \in {"reflect", "runtime", "x"}}
Headers == {Group(l) : l \in Lists \cup Prefixed}
DiscoverInputs == {Text("discover", g \o <<"int", "y", "[", "0", "]", ";">> \o h) : g \in Headers, h \in Headers}

\* Statements <<leading>> int a <<own>>, b <<own>>; behind another one.
Some(n) == {[k \in 1 .. j |-> <<"[", "[", "x", "]", "]">>] : j \in 0 .. n}
GroupsAt(offset, pieces) == [n \in DOMAIN pieces |-> offset + Len(FlattenSeq(SubSeq(pieces, 1, n - 1)))]
Statement(tail, leading, own1, own2) ==
    LET t0 == <<"int", "z">> \o FlattenSeq(tail) \o <<";">>
        t1 == t0 \o FlattenSeq(leading)
        t2 == t1 \o <<"int", "a">> \o FlattenSeq(own1)
        t3 == t2 \o <<",", "b">> \o FlattenSeq(own2)
        field(name, own) == [first |-> Len(t0) + 1, type |-> Len(t1) + 1, name |-> name,
                             leading |-> GroupsAt(Len(t0) + 1, leading),
                             own |-> GroupsAt(name + 1, own)]
    IN [use |-> "fields", text |-> t3 \o <<";">>,
        fields |-> <<field(Len(t1) + 2, own1), field(Len(t2) + 2, own2)>>]
FieldInputs == {Statement(t, l, a, b) : t \in Some(1), l \in Some(3), a \in Some(2), b \in Some(2)}

\* Arguments of up to three pieces.
Expressions == {<<"0">>, <<"hp">>, <<"game">>, <<".">>, <<",">>, <<"std">>, <<Space>>, <<"note">>,
                <<"game", "::", "hp">>, <<"(">>, <<")">>}
ArgumentInputs ==
    {Text("argument", Open \o <<"x", "(">> \o s \o <<")">> \o Close) :
        s \in {t \in Upto(3, Expressions) : \A k \in 1 .. Len(t) - 1 : ~(IsWord(t[k]) /\ IsWord(t[k + 1]))}}

MCInputs == ScanInputs \cup DiscoverInputs \cup FieldInputs \cup ArgumentInputs

-----------------------------------------------------------------------------
(* Translation units                                                        *)

Decl(kind, in, marks, flags) ==
    [kind |-> kind, in |-> in, name |-> kind, access |-> "public", bases |-> <<>>, marks |-> marks,
     flags |-> flags \cup {"here", "defined"}]
Hidden(d) == [d EXCEPT !.access = "private"]
Called(d, name) == [d EXCEPT !.name = name]
Unit(decls, faults, collect) == [decls |-> decls, errors |-> faults, collect |-> collect, versions |-> <<>>]
Fault(d, fatal) == [at |-> d, fatal |-> fatal]

\* A marked type in every kind of scope, and clang errors around and in it.
Scopes ==
    {Unit(<<Decl(outer, 0, {}, {}), Decl(kind, 1, marks, flags)>>, faults, collect) :
        outer \in {"namespace", "anonymous", "class", "union", "template", "partial"},
        kind \in {"class", "enum", "union", "template"},
        marks \in {{}, {"reflect"}, {"runtime"}, {"reflect", "user"}},
        flags \in {{}, {"invalid"}, {"based"}, {"external"}},
        faults \in {{}, {Fault(0, FALSE)}, {Fault(1, FALSE)}, {Fault(2, FALSE), Fault(0, FALSE)}, {Fault(0, TRUE)}},
        collect \in BOOLEAN}
\* Types at the top, forward declarations and other files' types among them.
Tops ==
    {Unit(<<[Decl("enum", 0, {"reflect"}, flags) EXCEPT !.flags = @ \ less], Decl("enumerator", 1, marks, {}),
            Decl("class", 0, {"reflect"}, {"external"} \cap flags)>>, {}, collect) :
        flags \in {{}, {"scoped"}, {"based"}, {"external", "scoped"}}, less \in {{}, {"defined"}, {"here"}},
        marks \in {{}, {"user"}}, collect \in BOOLEAN}

Reflect1 == {"reflect"}
MemberDecls ==
    {Decl("field", 1, {}, {}), Hidden(Decl("field", 1, {}, {})), Decl("field", 1, {"ignore"}, {}),
     Decl("field", 1, {"user"}, {"tall"}), Decl("field", 1, {}, {"bitfield"}), Decl("field", 1, {}, {"reference"}),
     Decl("field", 1, {}, {"unnamed"}), Decl("fntemplate", 1, Reflect1, {}), Decl("special", 1, Reflect1, {}),
     Decl("var", 1, Reflect1, {}), Called(Decl("using", 1, {}, {}), "method")}
    \cup {Decl("method", 1, marks, flags) :
             marks \in {{}, Reflect1, {"reflect", "ignore"}}, flags \in {{}, {"static"}, {"deleted"}, {"consteval"}, {"tall"}}}
    \cup {Hidden(Decl("method", 1, marks, flags)) : marks \in {{}, Reflect1}, flags \in {{}, {"consteval"}}}
    \cup {Called(Decl("fntemplate", 1, {}, {}), "method"), Called(Decl("method", 1, Reflect1, {}), "other")}
Seconds ==
    {Decl("field", 1, {}, {}), Hidden(Decl("field", 1, {}, {})), Decl("method", 1, {}, {}), Decl("method", 1, Reflect1, {"tall"}),
     Hidden(Decl("method", 1, Reflect1, {})), Called(Decl("method", 1, Reflect1, {}), "other"), Called(Decl("using", 1, {}, {}), "method")}
Bodies ==
    {Unit(<<Decl("class", 0, marks, flags), m1, m2>>, faults, FALSE) :
        marks \in {Reflect1, {"runtime", "user"}, {"reflect", "public_methods"}, {"reflect", "public_fields"}, {}},
        flags \in {{}, {"friend"}}, m1 \in MemberDecls, m2 \in Seconds, faults \in {{}, {Fault(3, FALSE)}}}

\* Hierarchies: 4 derives from 3 and 2, 3 from 1, 2 from 1.
Class(marks, flags, bases) == [Decl("class", 0, marks, flags) EXCEPT !.bases = bases]
Hierarchies ==
    {Unit(<<Class(m1, {}, <<>>), Class(m2, f2, <<<<1, "public">>>>), Class(m3, f3, <<<<1, a>>>>),
            Class(m4, {}, <<<<3, b>>, <<2, "public">>>>)>>, {}, FALSE) :
        m1 \in {{}, Reflect1, {"runtime"}}, m2 \in {{}, Reflect1}, f2 \in {{}, {"system"}, {"recipe"}},
        m3 \in {{}, Reflect1}, f3 \in {{}, {"specialized"}}, m4 \in {Reflect1, {"runtime"}},
        a \in {"public", "private"}, b \in {"public", "private"}}
InnerBases ==
    {Unit(<<Decl(outer, 0, {}, {}), [Decl("class", 1, Reflect1, flags) EXCEPT !.flags = @ \ less], Class(Reflect1, {}, <<<<2, "public">>>>)>>,
          {}, FALSE) :
        outer \in {"namespace", "anonymous", "class"}, flags \in {{}, {"specialized"}}, less \in {{}, {"here"}}}

\* Directives of the language bindings, in their places and out of them.
Bound ==
    {Unit(<<[Decl(outer, 0, {}, {}) EXCEPT !.access = access], [Decl("class", 1, c, f) EXCEPT !.flags = @ \ less],
            Decl("method", 2, m, g), Decl("param", 3, p, {})>>, faults, collect) :
        outer \in {"namespace", "anonymous", "class", "template"}, access \in {"public", "private"},
        c \in {{}, {"interop"}, {"table"}, {"interop", "reflect"}}, f \in {{}, {"invalid"}},
        less \in {{}, {"defined"}, {"here"}}, m \in {{}, {"interop"}}, g \in {{}, {"deleted"}},
        p \in {{}, {"interop"}}, faults \in {{Fault(3, FALSE)}}, collect \in BOOLEAN}
Aliases ==
    {Unit(<<Decl("alias", 0, a, f), Decl(kind, 0, m, {})>>, {Fault(e, FALSE)}, TRUE) :
        a \in {{}, {"value"}, {"table"}, {"interop"}}, f \in {{}, {"invalid"}}, kind \in {"var", "enum"},
        m \in {{}, {"interop"}, {"table"}}, e \in 0 .. 2}

Standards == <<<<"year", 98>>, <<"year", 3>>, <<"year", 11>>, <<"year", 17>>, <<"draft", "2a">>, <<"year", 23>>, <<"draft", "2c">>>>
Versions ==
    {[Unit(<<>>, {}, FALSE) EXCEPT !.versions = [k \in DOMAIN v |-> Standards[v[k]]]] :
        v \in UNION {[1 .. n -> DOMAIN Standards] : n \in 0 .. 3}}

MCUnits ==
    Scopes \cup Tops \cup Hierarchies \cup InnerBases \cup Aliases \cup Versions \cup Bound \cup Bodies

E == INSTANCE Emission WITH Units <- MCUnits

-----------------------------------------------------------------------------
(* F# tables                                                                *)

Ty(via, base) == [via |-> via, base |-> base, flags |-> {}]
Ptr1 == <<-1>>
\* Types with their sizes and alignments, laid out as a compiler does.
Laid(t, size, align) == [type |-> t, size |-> size, align |-> align]
I32 == Laid(Ty(<<>>, "int32"), 4, 4)
I8 == Laid(Ty(<<>>, "int8"), 1, 1)

PtrTo(base) == Laid(Ty(Ptr1, base), 8, 8)
RoundUp(n, a) == ((n + a - 1) \div a) * a
Biggest(S) == CHOOSE x \in S : \A y \in S : x >= y
Struct(ps, flat) ==
    LET at[k \in 0 .. Len(ps)] == IF k = 0 THEN 0 ELSE
            LET before == IF k = 1 THEN 0 ELSE at[k - 1] + ps[k - 1].size IN RoundUp(before, ps[k].align)
        align == Biggest({1} \cup {ps[k].align : k \in DOMAIN ps})
    IN  [kind |-> "record", flags |-> {}, flat |-> flat, align |-> align,
         size |-> RoundUp(at[Len(ps)] + ps[Len(ps)].size, align),
         fields |-> [k \in DOMAIN ps |-> [name |-> <<"a", "b">>[k], type |-> ps[k].type, offset |-> at[k], flags |-> {}]]]
Of(v, name) == Laid(Ty(<<>>, name), v.size, v.align)
ArrayOf(p, n) == Laid([p.type EXCEPT !.via = <<n>> \o @], n * p.size, p.align)

EnumE == [kind |-> "enum", flags |-> {}, flat |-> <<"E">>, size |-> 1, align |-> 1,
          fields |-> <<[name |-> "u", type |-> I8.type, offset |-> 0, flags |-> {}]>>]
Opaques == [Struct(<<I32>>, <<"O">>) EXCEPT !.flags = {"virtual"}]
\* A record no CLR layout stands for: packed, over-aligned, with a bit-field, of bool.
Odd ==
    {[Struct(<<I8, I32>>, <<"C">>) EXCEPT !.fields[2].offset = 1, !.size = 5, !.align = 1],
     [Struct(<<I32>>, <<"C">>) EXCEPT !.align = 16, !.size = 16],
     [Struct(<<I32, I32>>, <<"C">>) EXCEPT !.fields[2].flags = {"bitfield"}],
     [Struct(<<I32, I32>>, <<"C">>) EXCEPT !.fields[2].offset = 2],
     Struct(<<Laid(Ty(<<>>, "bool"), 1, 1)>>, <<"C">>)}
Cs == {Struct(<<I32>>, <<"C">>), Struct(<<PtrTo("A"), I8>>, <<"C">>)} \cup Odd
Bs(c) == {Struct(ps, flat) : ps \in {<<Of(c, "C")>>, <<PtrTo("A"), Of(EnumE, "E")>>, <<ArrayOf(Of(c, "C"), 2)>>, <<PtrTo("C"), PtrTo("A")>>,
                                     <<PtrTo("O"), PtrTo("variadic")>>, <<ArrayOf(ArrayOf(I32, 2), 4)>>},
                             flat \in {<<"B">>, <<"A", "a">>}}
As(b) == {Struct(ps, <<"A">>) : ps \in {<<PtrTo("B"), I32>>, <<I8, Of(b, "B")>>, <<ArrayOf(Of(b, "B"), 2), PtrTo("A")>>, <<ArrayOf(I8, 3)>>}}
Graphs ==
    UNION {UNION {{[A |-> a, B |-> b, C |-> c, E |-> EnumE, O |-> Opaques] : a \in As(b)} : b \in Bs(c)} : c \in Cs}

TField(name, offset, type, result, params) ==
    [name |-> name, offset |-> offset, type |-> type, flags |-> {}, result |-> result, params |-> params]
Head1(name, offset) == TField(name, offset, I32.type, Ty(<<>>, "void"), <<>>)
Entry(name, offset, result, params) == TField(name, offset, Ty(Ptr1, "function"), result, params)
Table(name, fields, size) == [name |-> name, fields |-> fields, size |-> size, align |-> 8, flags |-> {}]
Plain(result, params) == Table("T", <<Head1("version", 0), Head1("size", 4), Entry("f", 8, result, params)>>, 16)
Signatures == {<<Ty(<<>>, r), <<Ty(v, b)>>>> : r \in {"void", "B", "bool"}, v \in {<<>>, Ptr1}, b \in {"A", "C", "O"}}
              \cup {<<Ty(<<>>, "void"), <<Ty(Ptr1, "B"), Ty(<<>>, "A")>>>>, <<Ty(<<>>, "C"), <<Ty(<<2>>, "C")>>>>}
OneGraph == CHOOSE g \in Graphs : g.A.fields[1].type = Ty(Ptr1, "B") /\ g.B.fields[1].type = Ty(<<>>, "C") /\ g.C.size = 4
MCTableInputs ==
    {[tables |-> <<Plain(s[1], s[2])>>, values |-> g] : s \in Signatures, g \in Graphs}
    \cup {[tables |-> <<Table(n1, <<Head1("version", v), Head1("size", s), Entry("f", f, Ty(<<>>, "void"), <<Ty(Ptr1, "A")>>)>>, size),
                        Table(n2, <<Head1("version", 0), Head1("size", 4), Entry("g", 8, Ty(<<>>, "B"), <<>>)>>, 16)>>, values |-> OneGraph] :
             n1 \in {"T"}, n2 \in {"T", "U"}, v \in {0, 4, 8, 16}, s \in {0, 4, 12}, f \in {4, 8, 12, 16, 24}, size \in {16, 24, 32}}

-----------------------------------------------------------------------------
(* C, C# and F#                                                             *)

IType(kind, spelled, size, signed) == [kind |-> kind, native |-> spelled, size |-> size, signed |-> signed, to |-> "none", flags |-> {}]
Pointer(to, flags) == [IType("pointer", <<"pointer", to>>, 8, FALSE) EXCEPT !.to = to, !.flags = flags]
Void == IType("void", <<"void">>, 0, FALSE)
Long4(n) == IType("integer", <<"long">>, n, TRUE)
Char(s) == IType("integer", <<"char">>, 1, s)
ITypes == {Void, Char(TRUE), Char(FALSE), Long4(8), IType("float", <<"long double">>, 16, TRUE),
           IType("enum", <<"E">>, 1, FALSE), IType("record", <<"R">>, 4, FALSE), IType("callback", <<"int(*)(int)">>, 8, FALSE),
           Pointer("N", {}), Pointer("Q", {}), Pointer("N", {"const"}), Pointer("pointer", {})}
Fs == <<"interop", "fsharp">>
Own == <<"lifetime", "owned">>
Borrow == <<"lifetime", "borrowed">>
IMethod(name, attrs, flags, result, params) == [name |-> name, attrs |-> attrs, flags |-> flags, result |-> result, params |-> params]
IClass(name, flat, attrs, methods) == [name |-> name, flat |-> flat, attrs |-> attrs, nested |-> FALSE, methods |-> methods]
Node(attrs) == IClass("N", <<"N">>, attrs, <<>>)
Record(size, offset, type) ==
    [name |-> "R", of |-> <<"R">>, size |-> size, align |-> 4, attrs |-> <<Fs>>, flags |-> {},
     fields |-> <<[name |-> "x", offset |-> offset, flags |-> {}, type |-> type]>>]
Records == {<<>>, <<Record(4, 0, Char(TRUE))>>, <<Record(4, 0, Char(FALSE))>>, <<Record(8, 4, Char(TRUE))>>}
Contracts == {<<>>, <<<<"callback", "synchronous">>>>, <<<<"return_ownership", "owned">>>>, <<<<"consume_ownership", "0">>>>}
Of1(target, contract, result, params, classAttrs, node, values) ==
    [classes |-> <<Node(node), IClass("Q", <<"Q">>, classAttrs, <<IMethod("m", <<<<"interop", target>>>> \o contract, {}, result, params)>>)>>,
     values |-> values]
Generation ==
    {Of1(target, contract, Void, <<t>>, <<Fs, Borrow>>, node, <<>>) :
        target \in {"fsharp", "c", "prsm"}, contract \in Contracts, t \in ITypes, node \in {<<Fs, Own>>, <<Fs, Borrow>>, <<>>}}
    \cup {Of1("fsharp", contract, t, <<>>, <<Fs, Own>>, node, values) :
             contract \in Contracts, t \in ITypes, node \in {<<Fs, Own>>, <<Fs, Borrow>>}, values \in Records}
    \cup {[classes |-> <<IClass(n1, f1, <<Fs, Own>>, <<IMethod(m1, <<Fs>>, {}, Void, <<>>)>>), IClass("Z", <<"A", "b">>, attrs, <<>>)>>, values |-> <<>>] :
             n1 \in {"A"}, f1 \in {<<"A">>, <<"A", "b">>}, m1 \in {"handle", "b", "destroy"},
             attrs \in {<<>>, <<Fs, Own>>, <<Fs>>, <<Own>>, <<Fs, Fs, Own>>, <<<<"interop", "c">>, Own>>}}
\* A fixed native side and another generation of the managed one.
Alike(a) == {b \in Generation : Len(b.classes) = Len(a.classes) /\ b.classes[2].attrs = a.classes[2].attrs /\ b.classes[1].name = a.classes[1].name}
MCModules == {<<a, a>> : a \in Generation}
    \cup UNION {{<<a, b>> : b \in Alike(a)} : a \in
        {Of1("fsharp", <<>>, Void, <<Char(TRUE)>>, <<Fs, Borrow>>, <<Fs, Own>>, <<>>),
         Of1("fsharp", <<>>, IType("record", <<"R">>, 4, FALSE), <<>>, <<Fs, Own>>, <<Fs, Own>>, <<Record(4, 0, Char(TRUE))>>)}}

-----------------------------------------------------------------------------
(* PrSM                                                                     *)

Slot(base, ref) == [base |-> base, ref |-> ref]
Prsm == <<"interop", "prsm">>
PMethod(name, attrs, flags, result, params) ==
    [name |-> name, attrs |-> <<Prsm>> \o attrs, flags |-> flags, result |-> result, params |-> params]
PEnum(cases) == [name |-> "E", attrs |-> <<Prsm, <<"value", "E">>>>, kind |-> "enum", cases |-> cases, fields |-> <<>>, size |-> 4, flags |-> {}]
PRecord(fields, size) == [PEnum(<<>>) EXCEPT !.name = "V", !.attrs[2][2] = "V", !.kind = "record", !.fields = fields, !.size = size]
Enums == {PEnum(<<<<"a", "1">>, <<"b", "2">>>>), PEnum(<<<<"b", "2">>, <<"a", "1">>>>), PEnum(<<<<"a", "1">>>>), PEnum(<<<<"a", "1">>, <<"b", "1">>>>)}
PRecords == {PRecord(<<<<"x", "int32", 0>>, <<"y", "int32", 4>>>>, 8), PRecord(<<<<"y", "int32", 0>>, <<"x", "int32", 4>>>>, 8),
             PRecord(<<<<"x", "int32", 0>>, <<"y", "int32", 2>>>>, 8)}
PClass(attrs, methods) == [name |-> "K", attrs |-> <<Prsm, <<"lifetime", "borrowed">>>> \o attrs, nested |-> FALSE, methods |-> methods]
Gen(attrs, methods, values) == [classes |-> <<PClass(attrs, methods)>>, values |-> values]
Ones ==
    {PMethod("m", <<>>, {}, r, <<p>>) : r \in {Slot("void", ""), Slot("E", ""), Slot("V", "const&"), Slot("V", "&")},
                                        p \in {Slot("E", ""), Slot("V", "const&"), Slot("bool", ""), Slot("odd", "")}}
Versions1 ==
    {Gen(attrs, <<m>>, <<e, v>>) : attrs \in {<<>>}, m \in Ones, e \in Enums, v \in PRecords}
    \cup {Gen(attrs, <<PMethod("g", get, {"const"}, Slot("E", ""), <<>>), PMethod("s", set, {}, Slot("void", ""), <<Slot(p, "")>>)>>,
              <<PEnum(<<<<"a", "1">>, <<"b", "2">>>>)>>) :
             attrs \in {<<>>, <<<<"receiver", "entity">>>>, <<<<"owner", "world">>>>, <<<<"owner", "K">>>>, <<<<"receiver", "odd">>>>},
             get \in {<<>>, <<<<"property_get", "p">>>>, <<<<"property_get", "p">>, <<"effect", "write">>>>},
             set \in {<<>>, <<<<"property_set", "p">>>>, <<<<"property_set", "q">>>>, <<<<"effect", "read">>>>},
             p \in {"E", "int32"}}
\* A script of one generation and the native side of another that differs in
\* its values, its receiver or its members.
Near(a, b) ==
    /\ a.classes[1].methods[1].name = b.classes[1].methods[1].name
    /\ \/ a.classes = b.classes /\ Len(a.values) = 2
       \/ Len(a.values) = 1 /\ a.values = b.values
MCGenerations ==
    {[script |-> a, native |-> b, tables |-> 1] : <<a, b>> \in {x \in Versions1 \X Versions1 : Near(x[1], x[2])}}
    \cup {[script |-> a, native |-> a, tables |-> n] : a \in {v \in Versions1 : Len(v.values) = 1}, n \in {0, 2}}

-----------------------------------------------------------------------------
VARIABLES part,
          \* FSharpTable
          source, calls, seen, models_, visiting_, completed_, pointed_values_, names_, ordered_definitions_,
          wrong, stage, reads,
          modules, outputs, at, symbols, classes, contract, errors,     \* Interop
          versions, built, step, call, guard, out, status, invoked      \* PrSM

fvars == <<source, calls, seen, models_, visiting_, completed_, pointed_values_, names_, ordered_definitions_,
           wrong, stage, reads>>
ivars == <<modules, outputs, at, symbols, classes, contract, errors>>
pvars == <<versions, built, step, call, guard, out, status, invoked>>
bvars == <<fvars, ivars, ovars, pvars>>

F == INSTANCE FSharpTable WITH
    TableInputs <- MCTableInputs, MaxDepth <- 8, MaxTypes <- 5, MaxNesting <- 2, MaxArray <- 3, errors <- wrong
I == INSTANCE Interop WITH Modules <- MCModules
P == INSTANCE PrSM WITH Generations <- MCGenerations, pc <- step

NoTables ==
    /\ source = <<>> /\ calls = <<>> /\ ordered_definitions_ = <<>> /\ reads = <<>> /\ stage = "none"
    /\ seen = {} /\ models_ = {} /\ visiting_ = {} /\ completed_ = {} /\ pointed_values_ = {} /\ names_ = {} /\ wrong = {}
NoInterop ==
    modules = <<>> /\ outputs = <<>> /\ at = 0 /\ symbols = {} /\ classes = <<>> /\ contract = <<>> /\ errors = {}
NoPrsm ==
    /\ versions = <<>> /\ built = <<>> /\ call = <<>> /\ out = <<>> /\ invoked = <<>>
    /\ step = "none" /\ status = "none" /\ guard = FALSE
NoBindings == NoTables /\ NoInterop /\ OInit /\ NoPrsm

BindingsInit ==
    \/ part = "tables" /\ F!FInit /\ NoInterop /\ OInit /\ NoPrsm
    \/ part = "interop" /\ I!IInit /\ NoTables /\ OInit /\ NoPrsm
    \/ part = "owned" /\ OInit /\ NoTables /\ NoInterop /\ NoPrsm
    \/ part = "prsm" /\ P!PInit /\ NoTables /\ NoInterop /\ OInit

BindingsNext ==
    \/ part = "tables" /\ F!FNext /\ UNCHANGED <<ivars, ovars, pvars>>
    \/ part = "interop" /\ I!INext /\ UNCHANGED <<fvars, ovars, pvars>>
    \/ part = "owned" /\ ONext /\ UNCHANGED <<fvars, ivars, pvars>>
    \/ part = "prsm" /\ P!PNext /\ UNCHANGED <<fvars, ivars, ovars>>

-----------------------------------------------------------------------------
NoScan == input = <<>> /\ tokens = <<>> /\ i = 0 /\ pc = "none" /\ position = 0 /\ default_scope = ""
          /\ attributes = <<>> /\ groups = <<>>
NoUnit == unit = <<>> /\ todo = <<>> /\ context = <<>> /\ models = <<>> /\ exports = <<>> /\ extents = {}
          /\ report = {} /\ phase = "none" /\ output = <<>>

GeneratorInit ==
    \/ part = "scan" /\ Init /\ NoUnit /\ NoBindings
    \/ part = "extract" /\ E!EmitInit /\ NoScan /\ NoBindings
    \/ BindingsInit /\ NoScan /\ NoUnit

GeneratorNext ==
    /\ \/ part = "scan" /\ Next /\ UNCHANGED <<evars, bvars>>
       \/ part = "extract" /\ E!EmitNext /\ UNCHANGED <<avars, bvars>>
       \/ BindingsNext /\ UNCHANGED <<avars, evars>>
    /\ UNCHANGED part

GeneratorSpec == GeneratorInit /\ [][GeneratorNext]_<<part, avars, evars, bvars>>

-----------------------------------------------------------------------------
\* What extract makes of a translation unit: nothing marked is dropped without
\* a word, nothing that clang may have misread is described, the bases are
\* the nearest described ones, and members that only a friend can name need
\* one.
ExtractionExact ==
    part = "extract" =>
        /\ E!NothingSilent /\ E!MisreadFails /\ E!AncestorsExact /\ E!HiddenNeedsFriend /\ E!NewestStandard

\* The generated header stands without the source header where it leaves it
\* out, and its errors are reported where they belong.
HeaderExact ==
    part = "extract" =>
        /\ E!LinesReported
        /\ (\E k \in DOMAIN models : E!Is(models[k].at, "specialized")) \/ E!HeaderStands

\* emit.cpp:253 of source_needed: the reason why the generated header cannot
\* stand on forward declarations alone; "if it is empty, it can".
EmptyReasonStands == part = "extract" => E!HeaderStands

\* fsharp_table: a type is defined before every type that holds it by value,
\* the layout the CLR gives the emitted structs is the native one, and bind
\* reads no field behind the size the producer of the table reports.
TablesExact == part = "tables" => F!DefinitionsOrdered /\ F!LayoutExact /\ F!BindWithin

\* interop and prsm: two generations of a binding whose contracts agree agree
\* on every slot of every call, only an owner releases, and a call of the PrSM
\* wrapper reaches the native member with values of its own types or not at all.
BindingsAgree ==
    /\ part = "interop" => I!ContractCovers /\ I!OwnershipClosed
    /\ part = "prsm" => P!BoundAgrees /\ P!WrapperSound
=============================================================================
