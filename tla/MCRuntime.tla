------------------------------ MODULE MCRuntime ------------------------------
(***************************************************************************)
(* The runtime layer for TLC, one part at a time: views and the storage    *)
(* they keep ("views"), calls of native methods by data ("calls": a method *)
(* with no or one parameter of each type and passing, and with two         *)
(* parameters that tell the steps apart), and the descriptors of class     *)
(* hierarchies ("types").                                                  *)
(***************************************************************************)
EXTENDS ValueViews, MethodCall, TLC

VARIABLES part,
          program, asked    \* TypeDescriptor

descriptorState == <<program, asked>>

\* The slots are alike.
Symmetry == Permutations(Slots)

ASSUME ViewsAssumption

-----------------------------------------------------------------------------
Type(shape, fixed, plain, copyable, default, readable, optin) ==
    [shape |-> shape, fixed |-> fixed, plain |-> plain, copyable |-> copyable,
     default |-> default, readable |-> readable, optin |-> optin]

Number == Type("value", FALSE, TRUE, TRUE, TRUE, TRUE, FALSE)
Text == Type("text", TRUE, TRUE, TRUE, TRUE, TRUE, FALSE)
Pointer == Type("pointer", FALSE, TRUE, TRUE, TRUE, FALSE, FALSE)
Types ==
    {Number, Text, Pointer,
     Type("value", FALSE, TRUE, TRUE, FALSE, TRUE, FALSE),      \* no default constructor
     Type("value", FALSE, FALSE, TRUE, TRUE, TRUE, FALSE),      \* a record with a pointer
     Type("value", FALSE, FALSE, FALSE, TRUE, FALSE, FALSE),    \* not copyable
     Type("span", TRUE, TRUE, TRUE, TRUE, TRUE, FALSE),
     Type("span", FALSE, TRUE, TRUE, TRUE, TRUE, FALSE),
     Type("span", TRUE, FALSE, TRUE, TRUE, TRUE, FALSE),        \* const records with pointers
     Type("owner", FALSE, TRUE, TRUE, TRUE, TRUE, FALSE),       \* shared_ptr
     Type("owner", FALSE, TRUE, FALSE, TRUE, TRUE, FALSE),      \* unique_ptr
     Type("owner", TRUE, TRUE, TRUE, TRUE, TRUE, FALSE),        \* shared_ptr<const T>
     Type("pointer", TRUE, TRUE, TRUE, TRUE, FALSE, FALSE),
     Type("pointer", TRUE, FALSE, TRUE, TRUE, FALSE, FALSE),    \* const record with a pointer
     Type("pointer", TRUE, TRUE, TRUE, TRUE, TRUE, TRUE)}       \* const char*, opted in

Params == [type : Types, passing : {"value", "cref", "ref", "rref"}]
Few == [type : {Number, Pointer}, passing : {"value", "ref"}]

Views(p) ==
    {b \in [kind : {"exact", "target", "wrapper", "other"}, writable : BOOLEAN, adapter : BOOLEAN,
            consent : BOOLEAN, empty : BOOLEAN] :
        /\ p.type.shape # "pointer" => b.kind \in {"exact", "other"} /\ ~b.adapter /\ ~b.consent /\ ~b.empty
        /\ b.kind \in {"target", "other"} => ~b.adapter /\ ~b.consent /\ ~b.empty}

Method(params, constant, result, internal, once) ==
    [params |-> params, constant |-> constant, result |-> result, internal |-> internal, once |-> once]
Call(m, way, items, array, closed, bindings, writable, sameType) ==
    [method |-> m, way |-> way, items |-> items, array |-> array, closed |-> closed,
     bindings |-> bindings, writable |-> writable, sameType |-> sameType]

Items == {"good", "null", "bad"}
Ways == {"serialized", "borrow", "bound"}

\* One parameter of any type, bound to any view or read.
One ==
    UNION {{Call(Method(<<p>>, TRUE, "value", FALSE, FALSE), "bound", <<item>>, TRUE, TRUE, bindings, TRUE, TRUE) :
               item \in Items, bindings \in {<<>>, <<<<>>>>} \cup {<<<<b>>>> : b \in Views(p)}} : p \in Params}
Unbound ==
    {Call(Method(<<p>>, constant, result, FALSE, FALSE), way, items, TRUE, TRUE, <<>>, TRUE, TRUE) :
        p \in Params, constant \in BOOLEAN, result \in {"void", "value", "rvalue", "opaque"}, way \in Ways,
        items \in {<<>>, <<"good">>}}
None ==
    {Call(Method(<<>>, constant, "reference", FALSE, once), way, items, TRUE, closed, <<>>, writable, TRUE) :
        constant, once, closed, writable \in BOOLEAN, way \in Ways, items \in {<<>>, <<"good">>}}
Refused ==
    {Call(Method(<<[type |-> Number, passing |-> "value"]>>, TRUE, "value", internal, once), way, <<"good">>,
          array, TRUE, <<>>, TRUE, sameType) : internal, once, array, sameType \in BOOLEAN, way \in Ways}
Two ==
    LET Shown(p) == {<<>>} \cup {<<v>> : v \in {v \in Views(p) : ~v.empty /\ v.kind \in {"exact", "target"} /\ v.consent = v.adapter}} IN
    UNION {{Call(Method(<<p, q>>, TRUE, "value", FALSE, FALSE), "bound", items, TRUE, closed, bindings, TRUE, TRUE) :
               closed \in BOOLEAN, items \in {<<x, y>> : x, y \in Items} \cup {<<"good">>, <<"null", "null", "null">>},
               bindings \in {<<b, c>> : b \in Shown(p), c \in Shown(q)} \cup {<<b>> : b \in Shown(p)}} : p, q \in Few}

MCCalls == One \cup Unbound \cup None \cup Refused \cup Two

ASSUME CallsAssumption

-----------------------------------------------------------------------------
(* Class hierarchies: a chain, two bases, a base in two ways, and a class   *)
(* without a schema in between.                                             *)

Entry(name, lvalue, params, result, internal) ==
    [name |-> name, lvalue |-> lvalue, params |-> params, result |-> result, internal |-> internal]
F == Entry("f", TRUE, <<>>, "void", FALSE)
G == Entry("g", TRUE, <<"only_move">>, "assignable", FALSE)
Overload == Entry("f", TRUE, <<"rref", "copy">>, "fixed", FALSE)
OnRvalue == Entry("f", FALSE, <<>>, "void", FALSE)
Internal == Entry("f", TRUE, <<"rref">>, "incomplete", TRUE)
Bodies ==
    {<<a, b, c, d>> : a \in {<<F>>, <<G, Overload>>}, b \in {<<>>, <<F, Overload>>, <<OnRvalue>>},
                      c \in {<<>>, <<F>>, <<Internal, G>>}, d \in {<<>>, <<OnRvalue, G>>, <<F>>}}
Graphs ==
    {<<<<>>, <<1>>, <<2>>, <<3>>>>, <<<<>>, <<>>, <<1, 2>>, <<3>>>>,
     <<<<>>, <<1>>, <<>>, <<3, 2>>>>, <<<<>>, <<1>>, <<1>>, <<2, 3>>>>}
MCPrograms ==
    {[c \in 1 .. 4 |->
         [described |-> c # plain, bases |-> graph[c], methods |-> bodies[c], made |-> c # 1,
          fields |-> [k \in DOMAIN bodies[c] |->
                         [name |-> bodies[c][k].name, fixed |-> bodies[c][k].internal, io |-> bodies[c][k].lvalue]]]] :
        graph \in Graphs, bodies \in Bodies, plain \in {0, 2}}

T == INSTANCE TypeDescriptor WITH Programs <- MCPrograms, MemberNames <- {"f", "g"}, NotFound <- <<>>

-----------------------------------------------------------------------------
NoCall == call = <<>> /\ phase = "idle" /\ slots = <<>> /\ entered = FALSE /\ output = <<>>
NoTypes == program = <<>> /\ asked = <<>>

MCInit ==
    \/ part = "views" /\ Init /\ NoCall /\ NoTypes
    \/ part = "calls" /\ CallInit /\ Init /\ NoTypes
    \/ part = "types" /\ T!Init /\ Init /\ NoCall

MCNext ==
    \/ part = "views" /\ Next /\ UNCHANGED <<part, callState, descriptorState>>
    \/ part = "calls" /\ CallNext /\ UNCHANGED <<part, vars, descriptorState>>
    \/ part = "types" /\ T!Next /\ UNCHANGED <<part, vars, callState>>

MCSpec == MCInit /\ [][MCNext]_<<part, vars, callState, descriptorState>>

-----------------------------------------------------------------------------
\* What type_descriptor answers: its table of methods, reached by index, is
\* that of the class and all its bases; find_field, find_method and upcast
\* answer as C++ name lookup and conversion do; an invoke that throws was not
\* made.
DescriptorsExact ==
    part = "types" => T!TableExact /\ T!LookupExact /\ T!UpcastExact /\ T!RefusedUntouched
=============================================================================
