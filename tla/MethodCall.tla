----------------------------- MODULE MethodCall -----------------------------
(***************************************************************************)
(* runtime/type_descriptor.h, runtime/value_descriptor_impl.h: calling a   *)
(* native method by data. invoke_serialized reads every argument from an   *)
(* array; borrow_result reads them and keeps them with the result;         *)
(* invoke_bound takes each argument from the array or from a view that the *)
(* engine has resolved. Whether a method offers a call at all is decided   *)
(* at compile time from the types in its signature.                        *)
(*                                                                         *)
(* A type is the record of the C++ facts that the code asks for:           *)
(*   shape      "value", "text" (string_view), "span", "owner" (a smart    *)
(*              pointer), "pointer"                                        *)
(*   fixed      a span's elements, a pointer's or an owner's target, are   *)
(*              const                                                      *)
(*   plain      runtime_assignment_safe of the value, the element or the   *)
(*              target: copying it copies everything it leads to           *)
(*   copyable, default (constructible), readable (deserializable),         *)
(*   optin      runtime_value_traits::argument_safe, for text pointers     *)
(***************************************************************************)
EXTENDS Integers, Sequences, SequencesExt

CONSTANTS Calls  \* the calls that are tried: method, way, document, bindings

TypeFacts ==
    [shape : {"value", "text", "span", "owner", "pointer"}, fixed : BOOLEAN, plain : BOOLEAN,
     copyable : BOOLEAN, default : BOOLEAN, readable : BOOLEAN, optin : BOOLEAN]
BoundView ==
    [kind : {"exact", "target", "wrapper", "other"}, writable : BOOLEAN, adapter : BOOLEAN,
     consent : BOOLEAN, empty : BOOLEAN]
Parameter == [type : TypeFacts, passing : {"value", "cref", "ref", "rref"}]

\* Consent is for text pointers (argument_safe in value_descriptor.h); a value
\* of another kind that gives it leads to nothing that is not copied with it,
\* and the characters of a string_view are const. Only invoke_bound has views.
CallsAssumption ==
    \A c \in Calls :
        /\ c.method.params \in Seq(Parameter)
        /\ \A p \in Range(c.method.params) :
               p.type.shape = "text" \/ (p.type.shape = "value" /\ p.type.optin) => p.type.plain
        /\ c.way \in {"serialized", "borrow", "bound"} /\ c.array \in BOOLEAN /\ c.closed \in BOOLEAN
        /\ c.items \in Seq({"good", "null", "bad"})
        /\ c.bindings \in Seq(Seq(BoundView)) /\ (c.bindings # <<>> => c.way = "bound")

VARIABLES call,    \* the call that is made
          phase,   \* "enter", "read", "native", "respond", "done", "failed"
          slots,   \* the arguments read so far
          entered, \* whether native code was entered
          output   \* what has been written or is returned

callState == <<call, phase, slots, entered, output>>

Arity == Len(call.method.params)
IsPointer(t) == t.shape = "pointer"
PointerShaped(t) == t.shape \in {"pointer", "owner"}

-----------------------------------------------------------------------------
\* What a signature permits.
serialized_argument_safe(t) ==
    \/ t.optin
    \/ t.shape = "text"
    \/ ~PointerShaped(t) /\ t.plain

borrowed_argument_safe(p) ==
    /\ p.passing \in {"value", "cref"}
    /\ IF IsPointer(p.type) THEN p.type.fixed /\ p.type.optin
       ELSE IF p.type.shape = "span" THEN p.type.fixed /\ p.type.plain
       ELSE ~PointerShaped(p.type) /\ serialized_argument_safe(p.type)

materializable(t) == serialized_argument_safe(t) /\ t.default /\ t.readable

bound_argument_allowed(p) ==
    /\ p.passing # "rref"
    /\ IsPointer(p.type) => p.passing = "value"
    /\ p.passing = "value" => p.type.copyable

bound_argument_readonly_safe(t) ==
    IF t.shape = "span" THEN t.fixed /\ t.plain
    ELSE ~PointerShaped(t) /\ serialized_argument_safe(t)

SerializedOk(p) == materializable(p.type)
BorrowOk(p) == borrowed_argument_safe(p) /\ p.type.default /\ p.type.readable
BoundOk(m) == m.result # "rvalue" /\ \A p \in Range(m.params) : bound_argument_allowed(p)

\* make_method_info: the three capabilities of a method. Its result is
\* "void", a "value", a "reference", an "rvalue" reference or an "opaque"
\* value that cannot be serialized; every value can be moved.
offered(m, way) ==
    /\ ~m.internal
    /\ CASE way = "serialized" -> m.result # "opaque" /\ \A p \in Range(m.params) : SerializedOk(p)
         [] way = "borrow" -> /\ ~m.once /\ m.result # "void"
                              /\ m.params # <<>> => m.constant /\ \A p \in Range(m.params) : BorrowOk(p)
         [] way = "bound" -> BoundOk(m)

-----------------------------------------------------------------------------
CallInit ==
    /\ call \in Calls
    /\ phase = "enter" /\ slots = <<>> /\ entered = FALSE /\ output = <<>>

Fail == phase' = "failed" /\ UNCHANGED <<call, slots, entered, output>>

\* The checks of invoke_serialized, borrow_result and invoke_bound.
Admitted ==
    /\ offered(call.method, call.way)
    /\ call.way \in {"borrow", "bound"} /\ ~call.writable => call.method.constant
    /\ call.way = "bound" => call.sameType
    /\ call.bindings # <<>> => Len(call.bindings) = Arity

Enter ==
    /\ phase = "enter"
    /\ IF Admitted THEN phase' = "read" /\ UNCHANGED <<call, slots, entered, output>> ELSE Fail

\* What the native code is given: nothing (a null pointer), an own copy or
\* backing, or the bound object itself.
Slot(from, writable) == [from |-> from, writable |-> writable]
Error == Slot("error", FALSE)

\* bound_argument_slot::bind. A binding is a view: kind tells how its type
\* relates to the parameter ("exact", "target" of a pointer, a "wrapper"
\* whose adapter has that target, "other"), adapter whether it can be
\* dereferenced, consent whether its target may then be written, empty
\* whether it is null.
bind_pointer(p, b) ==
    LET direct == b.kind = "target"
        writable == b.writable /\ (direct \/ b.consent) IN
    IF b.kind = "other" THEN Error
    ELSE IF b.kind = "exact" /\ b.empty THEN Slot("null", FALSE)
    ELSE IF ~direct /\ ~b.adapter THEN Error
    ELSE IF ~direct /\ b.empty THEN Slot("null", FALSE)
    ELSE IF p.type.fixed /\ ~writable /\ ~p.type.plain THEN Error
    ELSE IF ~p.type.fixed /\ ~writable THEN Error
    ELSE Slot("bound", writable)

bind_object(p, b) ==
    IF b.kind # "exact" THEN Error
    ELSE IF ~b.writable /\ ~bound_argument_readonly_safe(p.type) THEN Error
    ELSE IF ~b.writable /\ p.passing = "ref" THEN Error
    ELSE Slot("bound", b.writable)

\* bound_argument_slot::read and runtime_argument_slot::read.
ReadSlot(p, item, binding) ==
    IF binding # <<>>
    THEN IF item # "null" THEN Error
         ELSE IF IsPointer(p.type) THEN bind_pointer(p, binding[1])
         ELSE bind_object(p, binding[1])
    ELSE IF materializable(p.type) /\ item = "good" THEN Slot("own", TRUE) ELSE Error

Binding(i) == IF call.bindings = <<>> THEN <<>> ELSE call.bindings[i]

\* begin_array and one turn of read_one.
ReadOne ==
    /\ phase = "read" /\ Len(slots) < Arity
    /\ LET i == Len(slots) + 1
           slot == ReadSlot(call.method.params[i], call.items[i], Binding(i)) IN
       IF ~call.array \/ Len(call.items) < i \/ slot = Error THEN Fail
       ELSE slots' = Append(slots, slot) /\ UNCHANGED <<call, phase, entered, output>>

\* MUTANT: the end of the array is left to the caller.
EndArguments_Open ==
    /\ phase = "read" /\ Len(slots) = Arity
    /\ phase' = "native" /\ UNCHANGED <<call, slots, entered, output>>

EndArguments ==
    /\ phase = "read" /\ Len(slots) = Arity
    /\ IF ~call.array \/ Len(call.items) > Arity \/ ~call.closed THEN Fail
       ELSE phase' = "native" /\ UNCHANGED <<call, slots, entered, output>>

\* The native method runs; it may throw, and it may destroy what was bound.
NativeMethod(throws) ==
    /\ phase = "native"
    /\ entered' = TRUE
    /\ phase' = IF throws THEN "failed" ELSE "respond"
    /\ UNCHANGED <<call, slots, output>>

\* MUTANT: bound arguments are given back too.
OutputOf_All(slot) == slot.from
\* bound_argument_slot::output.
OutputOf(slot) == IF slot.from = "own" THEN "own" ELSE "empty"

\* What is returned: the result, then the arguments. The response of
\* invoke_serialized is written piece by piece and the writer may throw.
Respond ==
    /\ phase = "respond"
    /\ \/ /\ call.way = "serialized"
          /\ Len(output) < 1 + Arity
          /\ \/ output' = Append(output, "own") /\ UNCHANGED <<call, phase, slots, entered>>
             \/ Fail
       \/ /\ call.way = "serialized" => Len(output) = 1 + Arity
          /\ phase' = "done"
          /\ output' = CASE call.way = "serialized" -> output
                         [] call.way = "borrow" -> <<"result">>
                         [] call.way = "bound" -> <<"result">> \o [i \in 1 .. Arity |-> OutputOf(slots[i])]
          /\ UNCHANGED <<call, slots, entered>>

Finished == phase \in {"done", "failed"} /\ UNCHANGED callState

CallNext == Enter \/ ReadOne \/ EndArguments \/ (\E throws \in BOOLEAN : NativeMethod(throws)) \/ Respond \/ Finished

CallSpec == CallInit /\ [][CallNext]_callState

-----------------------------------------------------------------------------
\* Every part of the call is right: the reference for the steps above. For
\* a bound argument the access the parameter gets is what the view grants.
ItemRight(i) ==
    LET p == call.method.params[i] IN
    IF Binding(i) = <<>> THEN call.items[i] = "good" /\ materializable(p.type)
    ELSE call.items[i] = "null"
WholeCall ==
    /\ call.array /\ call.closed /\ Len(call.items) = Arity
    /\ \A i \in 1 .. Arity : ItemRight(i)

\* Native code is entered only after the whole argument array, its arity and
\* every placeholder have been read: a bad last element or a missing end
\* leaves no side effect.
NativeAfterWholeCall == entered => WholeCall /\ offered(call.method, call.way)

\* What native code could write through an argument of this type, given the
\* C++ rules: the object itself, or something the object leads to.
WritesThrough(p) ==
    \/ p.passing = "ref"
    \/ p.type.shape \in {"span", "owner", "pointer"} /\ ~p.type.fixed
    \/ ~p.type.plain

\* No argument hands native code a way to write what its view shows readonly,
\* neither the object nor, by copying an owner, a span or a record with
\* pointers, what it leads to.
CapabilityKept ==
    entered => \A i \in 1 .. Arity :
        slots[i].from = "bound" /\ ~slots[i].writable => ~WritesThrough(call.method.params[i])

\* A pointer that native code is given is null, leads to a bound object or,
\* for text, into memory the call owns: no address comes from the document.
PointersResolved ==
    entered => \A i \in 1 .. Arity :
        PointerShaped(call.method.params[i].type) /\ slots[i].from = "own" => call.method.params[i].type.optin

\* A finished bound call returns no address of an object that was bound: the
\* method may have destroyed it.
OutputsOwned == phase = "done" => \A i \in 2 .. Len(output) : output[i] \in {"own", "empty"}

\* All of it: a call opens no way to memory that its views do not grant.
NoForeignAccess == CapabilityKept /\ PointersResolved /\ OutputsOwned
=============================================================================
