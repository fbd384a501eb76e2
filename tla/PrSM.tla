-------------------------------- MODULE PrSM --------------------------------
(***************************************************************************)
(* PrSM script bindings: prsm.cpp lowers the selected declarations,        *)
(* binding_ir.cpp validates them and describes each call, a script is      *)
(* compiled against the catalog of one generation and runs against the     *)
(* native tables of another, validator.h decides whether the two belong    *)
(* together, and the generated wrapper makes the call through the engine's *)
(* access guard. SHA-256 is taken to be the descriptor itself.             *)
(*                                                                         *)
(* A class is [name, attrs, nested, methods], a method [name, attrs,       *)
(* flags, result, params], attributes pairs <<directive, argument>>; a     *)
(* type is [base, ref]: a scalar or a value's name, and "", "const&" or    *)
(* "&". A value is [name, attrs, kind, fields | cases, flags]; a case is   *)
(* <<name, number>>, a field <<name, scalar, offset>>.                     *)
(***************************************************************************)
EXTENDS Integers, Sequences, SequencesExt

CONSTANTS Generations  \* [script, native]: declarations of each; tables: how often the native table is registered

VARIABLES versions,
          built,     \* "script" or "native" -> the callables of build_binding_module, or {}
          pc,        \* "lower", "validate", "bound", then the steps of the wrapper
          call,      \* the script's callable, its arguments and what the engine makes of the handle
          guard,     \* the access guard is held
          out,       \* what was written to the output, <<>> for nothing
          status,
          invoked    \* arguments native code was called with, and its result

pvars == <<versions, built, pc, call, guard, out, status, invoked>>

-----------------------------------------------------------------------------
(* Annotations and slots                                                    *)

Scalars == {"void", "bool", "int32", "uint64"}
Width == [bool |-> 1, int32 |-> 4, uint64 |-> 8]
PNames == {"interop", "lifetime", "property_get", "property_set", "effect", "owner", "receiver", "value"}
Policy(attrs) == [n \in {a[1] : a \in ToSet(attrs)} \cap PNames |-> SelectSeq(attrs, LAMBDA a : a[1] = n)[1][2]]
Twice(attrs) == \E n \in PNames : Len(SelectSeq(attrs, LAMBDA a : a[1] = n)) > 1
Given(p, name) == name \in DOMAIN p
SaysP(p, name, argument) == name \in DOMAIN p /\ p[name] = argument

\* The values lower_prsm takes over; those of F# are left to it.
ForPrsm(v) == ~SaysP(Policy(v.attrs), "interop", "fsharp")
Values(g) == SelectSeq(g.values, ForPrsm)
find_value(g, name) == LET vs == SelectSeq(Values(g), LAMBDA v : v.name = name) IN IF vs = <<>> THEN <<>> ELSE vs[1]
value_slot(g, t) == t.ref \in {"", "const&"} /\ find_value(g, t.base) # <<>>
scalar(t) == t.ref = "" /\ t.base \in Scalars
slot_token(g, t) == IF value_slot(g, t) THEN <<find_value(g, t.base).kind, t.base>> ELSE <<"scalar", t.base>>

-----------------------------------------------------------------------------
(* lower_prsm and build_binding_module                                      *)

ValueErrors(g, v) ==
    LET p == Policy(v.attrs)
        End(k) == IF k = 0 THEN 0 ELSE v.fields[k][3] + Width[v.fields[k][2]]
        distinct(s) == IsInjective(s)
    IN  \/ Twice(v.attrs) \/ DOMAIN p # {"interop", "value"} \/ ~SaysP(p, "interop", "prsm") \/ v.flags # {}
        \/ IF v.kind = "record"
           THEN \/ v.fields = <<>> \/ ~distinct([k \in DOMAIN v.fields |-> v.fields[k][1]])
                \/ \E k \in DOMAIN v.fields :
                       LET f == v.fields[k] IN
                       \/ f[2] \in {"void", "bool"} \/ f[3] < End(k - 1) \/ f[3] % Width[f[2]] # 0 \/ f[3] + Width[f[2]] > v.size
           ELSE v.cases = <<>> \/ ~distinct([k \in DOMAIN v.cases |-> v.cases[k][1]]) \/ ~distinct([k \in DOMAIN v.cases |-> v.cases[k][2]])
        \/ \E w \in ToSet(Values(g)) : w # v /\ (w.name = v.name \/ SaysP(Policy(w.attrs), "value", IF Given(p, "value") THEN p["value"] ELSE "none"))

Operation(p) == IF Given(p, "property_set") THEN "setter" ELSE IF Given(p, "property_get") THEN "getter" ELSE "method"
Effect(p) == IF Given(p, "effect") THEN p["effect"] ELSE IF Given(p, "property_get") THEN "read" ELSE "write"
Script(p, m) == IF Given(p, "property_set") THEN p["property_set"] ELSE IF Given(p, "property_get") THEN p["property_get"] ELSE m.name
ReceiverKind(p) == IF Given(p, "receiver") THEN p["receiver"] ELSE "handle"

LowerCall(g, c, m) ==
    LET p == Policy(m.attrs) IN
    [symbol |-> <<c.name, m.name>>, receiver |-> c.name, kind |-> ReceiverKind(Policy(c.attrs)), script |-> Script(p, m),
     operation |-> Operation(p), effect |-> Effect(p), flags |-> m.flags, result |-> m.result, params |-> m.params]

CallErrors(g, c, m) ==
    LET p == Policy(m.attrs)
        Supported(t) == value_slot(g, t) \/ scalar(t)
        void == ~value_slot(g, m.result) /\ m.result.base = "void"
        number == Len(m.params)
    IN  \/ Twice(m.attrs) \/ m.flags \ {"const", "noexcept"} # {} \/ {"lifetime", "owner", "receiver"} \cap DOMAIN p # {}
        \/ ~Supported(m.result)
        \/ \E k \in 1 .. number : ~Supported(m.params[k]) \/ (m.params[k].base = "void")
        \/ Given(p, "property_get") /\ Given(p, "property_set")
        \/ Effect(p) \notin {"read", "write"}
        \/ Operation(p) = "getter" /\ (number > 0 \/ void \/ Effect(p) # "read")
        \/ Operation(p) = "setter" /\ (number # 1 \/ ~void \/ Effect(p) # "write")

Selected(c) == SaysP(Policy(c.attrs), "interop", "prsm")
Chosen(c) == SelectSeq(c.methods, LAMBDA m : SaysP(Policy(m.attrs), "interop", "prsm"))

ClassErrors(g, c) ==
    LET p == Policy(c.attrs)
        Needs == {"property_get", "property_set", "effect", "owner"}
    IN  \/ Twice(c.attrs)
        \/ Given(p, "interop") /\ p["interop"] \notin {"prsm", "c", "csharp", "fsharp"}
        \/ IF ~Selected(c)
           THEN \/ Given(p, "owner")
                \/ \E m \in ToSet(c.methods) : SaysP(Policy(m.attrs), "interop", "prsm") \/ Needs \cap DOMAIN Policy(m.attrs) # {}
           ELSE \/ c.nested \/ ~SaysP(p, "lifetime", "borrowed") \/ (Needs \ {"owner"}) \cap DOMAIN p # {}
                \/ ReceiverKind(p) \notin {"handle", "entity", "component"}
                \/ \E m \in ToSet(c.methods) :
                       LET q == Policy(m.attrs) IN
                       \/ SaysP(q, "interop", "prsm") /\ CallErrors(g, c, m)
                       \/ Given(q, "interop") /\ q["interop"] \notin {"prsm", "c", "csharp", "fsharp"}
                       \/ ~Given(q, "interop") /\ (Needs \cup {"lifetime", "receiver"}) \cap DOMAIN q # {}

\* A property is a getter, or a getter and a setter of the same slot; other
\* members have a name of their own.
MemberErrors(g, calls) ==
    \/ ~IsInjective([k \in DOMAIN calls |-> calls[k].symbol])
    \/ \E k \in DOMAIN calls :
           LET same == {n \in DOMAIN calls : calls[n].receiver = calls[k].receiver /\ calls[n].script = calls[k].script}
               Op(o) == {n \in same : calls[n].operation = o}
           IN  ~ \/ same = {k} /\ calls[k].operation # "setter"
                 \/ /\ Cardinality(same) = 2 /\ Cardinality(Op("getter")) = 1 /\ Cardinality(Op("setter")) = 1
                    /\ \A r \in Op("getter"), w \in Op("setter") :
                           slot_token(g, calls[w].params[1]) = slot_token(g, calls[r].result)

\* owner("Name") on a class gives the script a way to a first handle.
Owner(c) ==
    IF Given(Policy(c.attrs), "owner")
    THEN <<[symbol |-> <<c.name, "owner">>, receiver |-> "", kind |-> ReceiverKind(Policy(c.attrs)), script |-> Policy(c.attrs)["owner"],
            operation |-> "owner", effect |-> "read", flags |-> {}, result |-> [base |-> "handle", ref |-> c.name], params |-> <<>>]>>
    ELSE <<>>
LowerAll(g) ==
    LET cs == SelectSeq(g.classes, Selected) IN
    FlattenSeq([k \in DOMAIN cs |-> Owner(cs[k]) \o [n \in DOMAIN Chosen(cs[k]) |-> LowerCall(g, cs[k], Chosen(cs[k])[n])]])

\* Types, values and owners share one space of names.
GlobalNames(g) ==
    LET cs == SelectSeq(g.classes, Selected) IN
    [k \in DOMAIN cs |-> cs[k].name] \o [k \in DOMAIN Values(g) |-> Policy(Values(g)[k].attrs)["value"]]
    \o FlattenSeq([k \in DOMAIN cs |-> [n \in DOMAIN Owner(cs[k]) |-> Owner(cs[k])[n].script]])

Rejected(g) ==
    \/ \E v \in ToSet(Values(g)) : ValueErrors(g, v)
    \/ \E c \in ToSet(g.classes) : ClassErrors(g, c)
    \/ MemberErrors(g, SelectSeq(LowerAll(g), LAMBDA c : c.operation # "owner"))
    \/ ~IsInjective(GlobalNames(g))

-----------------------------------------------------------------------------
(* descriptor                                                               *)

\* MUTANT: the definitions are left out.
append_values_Names(g, c) ==
    LET slots == SelectSeq(<<c.result>> \o c.params, LAMBDA t : value_slot(g, t))
    IN  [k \in DOMAIN slots |-> slots[k].base]
\* Every value of the call with its full definition, once, in the order of
\* the result and the parameters.
append_values(g, c) ==
    LET slots == SelectSeq(<<c.result>> \o c.params, LAMBDA t : value_slot(g, t))
        first == SelectSeq([k \in DOMAIN slots |-> k], LAMBDA k : \A n \in 1 .. k - 1 : slots[n].base # slots[k].base)
        Definition(v) ==
            IF v.kind = "record" THEN <<"record", v.name, v.size, Len(v.fields)>> \o FlattenSeq(v.fields)
            ELSE <<"enum", v.name, Len(v.cases)>> \o FlattenSeq(v.cases)
    IN  FlattenSeq([k \in DOMAIN first |-> Definition(find_value(g, slots[first[k]].base))])

descriptor(g, c) ==
    <<c.kind, c.symbol, c.operation, c.receiver, c.flags, c.effect, slot_token(g, c.result), Len(c.params)>>
    \o [k \in DOMAIN c.params |-> slot_token(g, c.params[k])] \o append_values(g, c)

\* What build_binding_module gives to the catalog and to the native table.
build_binding_module(g) ==
    IF Rejected(g) THEN <<>>
    ELSE [k \in DOMAIN LowerAll(g) |-> [call |-> LowerAll(g)[k], digest |-> descriptor(g, LowerAll(g)[k])]]

-----------------------------------------------------------------------------
PInit ==
    /\ versions \in Generations
    /\ built = [script |-> <<>>, native |-> <<>>] /\ pc = "lower" /\ call = <<>> /\ guard = FALSE
    /\ out = <<>> /\ status = "none" /\ invoked = <<>>

lower_prsm ==
    /\ pc = "lower"
    /\ built' = [script |-> build_binding_module(versions.script), native |-> build_binding_module(versions.native)]
    /\ pc' = IF built'.script = <<>> \/ built'.native = <<>> THEN "rejected" ELSE "validate"
    /\ UNCHANGED <<versions, call, guard, out, status, invoked>>

\* validate_binding: exactly one entry of all registered tables has the
\* symbol, and the digest is its own.
Entries(symbol) ==
    {<<t, k>> \in (1 .. versions.tables) \X DOMAIN built.native : built.native[k].call.symbol = symbol}
validate_binding(k) ==
    /\ pc = "validate" /\ k \in DOMAIN built.script
    /\ LET entry == built.script[k]
           found == Entries(entry.call.symbol)
           ok == Cardinality(found) = 1 /\ \A e \in found : built.native[e[2]].digest = entry.digest
       IN  /\ pc' = IF ok THEN "bound" ELSE "refused"
           /\ status' = IF ok THEN "none" ELSE "abi_mismatch"
           /\ call' = [script |-> entry.call, native |-> IF ok THEN built.native[(CHOOSE e \in found : TRUE)[2]].call ELSE entry.call]
    /\ UNCHANGED <<versions, built, guard, out, invoked>>

\* The arguments a script compiled against its own catalog can pass.
Cases(g, t) == IF value_slot(g, t) /\ find_value(g, t.base).kind = "enum" THEN Len(find_value(g, t.base).cases) ELSE 0
Args(g, c) == {a \in [DOMAIN c.params -> -1 .. 3] :
                  \A k \in DOMAIN a : a[k] \in (IF Cases(g, c.params[k]) > 0 THEN 0 .. Cases(g, c.params[k]) ELSE {-1, 0})}

Return(s) == status' = s /\ pc' = "returned" /\ guard' = FALSE

\* The wrapper: its own checks, the guard, the native call, the result.
Enter(args, outNull) ==
    /\ pc = "bound" /\ args \in Args(versions.script, call.script)
    /\ LET c == call.native
           Bad(k) == IF Cases(versions.native, c.params[k]) > 0 THEN args[k] >= Cases(versions.native, c.params[k])
                     ELSE value_slot(versions.native, c.params[k]) /\ args[k] = -1  \* a null record
           void == c.result.base = "void"
       IN  IF (outNull /\ ~void) \/ \E k \in DOMAIN args : Bad(k)
           THEN Return("invalid_argument") /\ UNCHANGED call
           ELSE pc' = "access" /\ call' = [script |-> call.script, native |-> c, args |-> args] /\ UNCHANGED <<status, guard>>
    /\ UNCHANGED <<versions, built, out, invoked>>

\* status() of the guard, then get(): a stale handle, another thread, no
\* context, or an object that is gone.
Access(engine) ==
    /\ pc = "access"
    /\ IF engine # "live" THEN Return(IF engine = "gone" THEN "invalid_handle" ELSE engine)
       ELSE guard' = TRUE /\ pc' = "invoke" /\ UNCHANGED status
    /\ UNCHANGED <<versions, built, call, out, invoked>>

\* Native code returns a value, here the number of an enumerator or 7, or
\* throws. The owner ingress only hands its handle out.
Invoke(result) ==
    /\ pc = "invoke"
    /\ invoked' = <<call.args, result>>
    /\ LET t == call.native.result
           g == versions.native
           index == IF Cases(g, t) = 0 THEN {} ELSE {k \in 1 .. Cases(g, t) : find_value(g, t.base).cases[k][2] = result}
       IN  IF result = "throws" THEN Return("native_failure") /\ UNCHANGED out
           ELSE IF t.base = "void" THEN Return("ok") /\ UNCHANGED out
           ELSE IF Cases(g, t) = 0 THEN Return("ok") /\ out' = <<"value", result>>
           ELSE IF index = {} THEN Return("native_failure") /\ UNCHANGED out
           ELSE Return("ok") /\ out' = <<"case", Min(index) - 1>>
    /\ UNCHANGED <<versions, built, call>>

PNext ==
    \/ lower_prsm \/ \E k \in 1 .. 4 : validate_binding(k)
    \/ \E args \in UNION {[1 .. n -> -1 .. 3] : n \in 0 .. 2}, outNull \in BOOLEAN : Enter(args, outNull)
    \/ \E engine \in {"live", "gone", "invalid_handle", "wrong_thread", "invalid_context"} : Access(engine)
    \/ \E result \in {"throws", "7", "1", "2"} : Invoke(result)

-----------------------------------------------------------------------------
\* What a value or scalar means, with its definition.
Meaning(g, t) == IF value_slot(g, t) THEN [find_value(g, t.base) EXCEPT !.attrs = <<>>] ELSE t.base

\* A script that binds means by every argument and by the result what native
\* code means: the same records, the same cases in the same order, the same
\* kind of receiver (binding_ir.cpp:174, validator.h:13).
BoundAgrees ==
    pc \in {"bound", "access", "invoke", "returned"} =>
        LET s == call.script
            n == call.native
            Slots(g, c) == <<Meaning(g, c.result)>> \o [k \in DOMAIN c.params |-> Meaning(g, c.params[k])]
        IN  /\ s.receiver = n.receiver /\ s.kind = n.kind /\ s.operation = n.operation /\ s.effect = n.effect
            /\ Slots(versions.script, s) = Slots(versions.native, n)

\* Native code runs only under the guard and with cases it has; the output is
\* written only by a call that succeeds, and then with what native code
\* returned, as the script numbers it (prsm.cpp:594, 639).
WrapperSound ==
    /\ invoked # <<>> => \A k \in DOMAIN invoked[1] :
           Cases(versions.native, call.native.params[k]) > 0 => invoked[1][k] < Cases(versions.native, call.native.params[k])
    /\ pc = "returned" => /\ ~guard
                          /\ out # <<>> => status = "ok" /\ invoked # <<>>
                          /\ (status = "ok" /\ call.native.result.base # "void") => out # <<>>
    /\ (out # <<>> /\ out[1] = "case") =>
           find_value(versions.script, call.script.result.base).cases[out[2] + 1][2] = invoked[2]
=============================================================================
