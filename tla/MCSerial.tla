------------------------------ MODULE MCSerial ------------------------------
(***************************************************************************)
(* The serialization layer for TLC, one part at a time: the writing of     *)
(* object graphs by one thread ("path") and by two ("threads"), the        *)
(* reading of a described class ("class") and the serializers of every     *)
(* category of type ("types"), and polymorphic pointers read and written   *)
(* while other threads register types ("pointers").                        *)
(***************************************************************************)
EXTENDS WritePath, PolymorphicPointer, ObjectRead

VARIABLES part,
          type, object, last                                \* Serializers

tvars == <<type, object, last>>
mcvars == <<part, vars, objectVars, tvars, pointerVars>>

-----------------------------------------------------------------------------
\* Three objects; a holds b by value, behind another member.
MCInner == "a" :> "b"
MCAddress == [o \in Objects |-> o]

\* S is the static type; A and B derive from it and have one name, and B does
\* not declare its base; C derives from S and takes its name.
MCNameOf == "S" :> "s" @@ "A" :> "a" @@ "B" :> "a" @@ "C" :> "s"

\* A chain, two bases, and a base with a base beside another one; the class
\* itself may add two fields, its bases one each.
MCShapes == {<<<<>>, <<1>>, <<2>>>>, <<<<>>, <<>>, <<1, 2>>>>, <<<<>>, <<1>>, <<2, 1>>>>}
MCMaxOwn == <<1, 1, 2>>

ASSUME /\ WritePathAssumption /\ AddressesDiffer
       /\ PointerAssumption

-----------------------------------------------------------------------------
(* Every kind of type, alone and inside another.                            *)

Int1 == [kind |-> "int", lo |-> 0, hi |-> 1]
Wide == [kind |-> "int", lo |-> -1, hi |-> 2]
Enum == [kind |-> "enum", names |-> (0 :> "none" @@ 1 :> "one"), hi |-> 2]
Of(kind, t) == [kind |-> kind, of |-> t]
Key(key, t, attr) == [key |-> key, type |-> t, attr |-> attr]
Record == [kind |-> "rec", fields |-> <<Key("a", Int1, "none"), Key("b", Of("opt", Int1), "none")>>]
Strict == [kind |-> "rec", fields |-> <<Key("a", Int1, "required"), Key("b", Of("seq", Int1), "none"), Key("c", Int1, "transient")>>]
Locked == [kind |-> "rec", fields |-> <<Key("a", Int1, "readonly"), Key("b", Int1, "none")>>]
Variant == [kind |-> "var", alts |-> <<Int1, Of("seq", Int1)>>]
Map == [kind |-> "map", key |-> Enum, of |-> Int1]
Small == [kind |-> "rec", fields |-> <<Key("a", Int1, "none"), Key("b", Int1, "none")>>]
Pairs == [kind |-> "map", key |-> Int1, of |-> Int1]

MCTypes ==
    {Wide, Enum, Record, Strict, Locked, Variant, Map,
     Of("opt", Record), Of("opt", Of("opt", Int1)), Of("ptr", Record), Of("opt", Variant),
     Of("cell", [kind |-> "tuple", items |-> <<Int1, Int1>>]),
     [kind |-> "tuple", items |-> <<Int1, Of("opt", Enum)>>],
     [kind |-> "fixed", size |-> 2, of |-> Small],
     Of("seq", Small), Of("set", Wide), Of("valarray", Int1), Of("heap", Wide),
     [kind |-> "map", key |-> Int1, of |-> Of("opt", Int1)],
     [kind |-> "multi", key |-> Int1, of |-> Int1],
     [kind |-> "exp", of |-> Int1, err |-> Enum],
     [kind |-> "rec", fields |-> <<Key("m", Pairs, "none"), Key("v", Of("opt", Int1), "none")>>]}

S == INSTANCE Serializers WITH Types <- MCTypes, MaxLen <- 2

-----------------------------------------------------------------------------
\* A part that is not looked at has not begun.
Nothing == [o \in Objects |-> [k \in 1 .. Pointers |-> Null]]
NoPath == pointers = Nothing /\ Init
\* A class without fields is read from an empty object.
NoClass ==
    /\ bases = (CHOOSE shape \in Shapes : TRUE) /\ own = [c \in Classes |-> <<>>] /\ input = <<>> /\ taken = 0
    /\ seen = {} /\ value = [k \in {} |-> 0] /\ reading = "reading"
NoTypes == type = <<>> /\ object = <<>> /\ last = <<>>

\* Two threads write graphs of two of the objects, b and c.
Two == Init /\ pointers["a"] = Nothing["a"] /\ \A o \in Objects, k \in 1 .. Pointers : pointers[o][k] # "a"
InTwo == \A t \in Threads : calls'[t] # <<>> => calls'[t][1].object # "a"

MCInit ==
    \/ part = "path" /\ Init /\ NoClass /\ NoTypes /\ PointerInit
    \/ part = "threads" /\ Two /\ NoClass /\ NoTypes /\ PointerInit
    \/ part = "class" /\ ObjectInit /\ NoPath /\ NoTypes /\ PointerInit
    \/ part = "types" /\ S!Init /\ NoPath /\ NoClass /\ PointerInit
    \/ part = "pointers" /\ PointerInit /\ NoPath /\ NoClass /\ NoTypes

MCNext ==
    \/ part = "path" /\ Serialize("t1") /\ UNCHANGED <<part, objectVars, tvars, pointerVars>>
    \/ part = "threads" /\ Next /\ InTwo /\ UNCHANGED <<part, objectVars, tvars, pointerVars>>
    \/ part = "class" /\ ObjectNext /\ UNCHANGED <<part, vars, tvars, pointerVars>>
    \/ part = "types" /\ S!Next /\ UNCHANGED <<part, vars, objectVars, pointerVars>>
    \/ part = "pointers" /\ PointerNext /\ UNCHANGED <<part, vars, objectVars, tvars>>

MCSpec == MCInit /\ [][MCNext]_mcvars

-----------------------------------------------------------------------------
\* What serialize writes is read back, into whatever object and by both
\* readers, also an object that an earlier read has left half way; a described
\* object inside an optional keeps the fields a document leaves out; of a
\* map's key that comes twice the last entry counts.
ReadsBack == part = "types" => S!ReadsBack /\ S!OptionalInPlace /\ S!LastEntryWins

\* An object is a value of its type after every read, the ones that fail
\* included.
ObjectValid == part = "types" => S!ObjectValid

\* Assignment through a view is all or nothing.
AssignWhole == [][part = "types" => S!AssignWhole]_mcvars
=============================================================================
