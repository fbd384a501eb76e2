------------------------------- MODULE Interop -------------------------------
(***************************************************************************)
(* generator/src/interop.cpp: the classes and values selected for C, C#    *)
(* and F# are lowered to one C ABI, whose contract a fingerprint stands    *)
(* for. The native side is built from one generation of the bindings and   *)
(* the managed side from another: outputs holds both.                      *)
(*                                                                         *)
(* A type is [kind, native, size, signed, to, flags]: native is its        *)
(* canonical spelling, to what it points to or, for an enum, how it is     *)
(* stored. A class is [name, flat, attrs, nested, methods], an attribute   *)
(* <<name, argument>>. The fingerprint is taken to be the contract itself: *)
(* FNV-1a is no proof against collisions and nothing here depends on one.  *)
(***************************************************************************)
EXTENDS Integers, Sequences, SequencesExt

CONSTANTS Modules  \* pairs of [classes, values], classes in the order of their names

VARIABLES modules, outputs,
          at,        \* the class that is lowered next
          symbols, classes, contract, errors

ivars == <<modules, outputs, at, symbols, classes, contract, errors>>

Now == modules[Len(outputs) + 1]

-----------------------------------------------------------------------------
(* Annotations                                                              *)

Directives == {"interop", "lifetime", "callback", "return_ownership", "consume_ownership"}
Arguments(attrs, name) == SelectSeq(attrs, LAMBDA a : a[1] = name)
Says(attrs, name, argument) == <<name, argument>> \in ToSet(attrs)
Has(attrs, name) == Arguments(attrs, name) # <<>>

\* What read_policy reports: a directive twice, a value it does not know, or
\* one in a place that is not its own.
PolicyErrors(attrs, is_class) ==
    \/ \E name \in Directives : Len(Arguments(attrs, name)) > 1
    \/ \E a \in ToSet(attrs) :
           CASE a[1] = "interop" -> a[2] \notin {"c", "csharp", "fsharp"}
             [] a[1] = "lifetime" -> ~is_class \/ a[2] \notin {"borrowed", "owned"}
             [] a[1] = "callback" -> is_class \/ a[2] # "synchronous"
             [] a[1] = "return_ownership" -> is_class \/ a[2] # "owned"
             [] a[1] = "consume_ownership" -> is_class \/ a[2] # "0"
             [] OTHER -> FALSE
Target(attrs) == IF Has(attrs, "interop") THEN Arguments(attrs, "interop")[1][2] ELSE "none"

-----------------------------------------------------------------------------
(* Types                                                                    *)

Refused == [how |-> "refused"]
Lowered(t, how, c) == [how |-> how, native |-> t.native, size |-> t.size, c |-> c]
Number(signed, size) == <<IF signed THEN "int" ELSE "uint", 8 * size>>

lower_type(t, allow_void) ==
    CASE "volatile" \in t.flags -> Refused
      [] t.kind = "enum" -> IF t.size \in {1, 2, 4, 8} THEN Lowered(t, "numeric", Number(t.signed, t.size)) ELSE Refused
      [] t.kind = "callback" -> IF allow_void THEN Refused ELSE Lowered(t, "callback", <<"callback_i32_i32">>)
      [] t.kind = "pointer" -> IF allow_void \/ t.to \in {"pointer", "function"} THEN Refused
                               ELSE Lowered(t, "pointer", <<IF "const" \in t.flags THEN "const void*" ELSE "void*">>)
      [] t.kind = "void" -> IF allow_void THEN Lowered(t, "void", <<"void">>) ELSE Refused
      [] t.kind = "bool" -> Lowered(t, "bool", <<"uint", 8>>)
      [] t.kind = "integer" -> IF t.size \in {1, 2, 4, 8} THEN Lowered(t, "numeric", Number(t.signed, t.size)) ELSE Refused
      [] t.kind = "float" -> IF t.size \in {4, 8} THEN Lowered(t, "numeric", <<t.native>>) ELSE Refused
      [] OTHER -> Refused

\* A pointer to a class that is selected for F# and owned; it is looked for
\* among the exports, not among the classes lowered so far.
owned_class_pointer(t) ==
    /\ t.kind = "pointer" /\ t.flags = {}
    /\ \E c \in ToSet(Now.classes) : c.name = t.to /\ Says(c.attrs, "interop", "fsharp") /\ Says(c.attrs, "lifetime", "owned")

lower_record_value(t, target) ==
    /\ t.kind = "record" /\ target = "fsharp"
    /\ \E v \in ToSet(Now.values) : v.of = t.native /\ Says(v.attrs, "interop", "fsharp")

LowerResult(m) ==
    LET t == m.result IN
    CASE Says(m.attrs, "return_ownership", "owned") ->
             IF Target(m.attrs) = "fsharp" /\ owned_class_pointer(t) THEN Lowered(t, "owned result", <<"void*">>) ELSE Refused
      [] lower_record_value(t, Target(m.attrs)) -> Lowered(t, "record", <<"void*">>)
      [] OTHER -> lower_type(t, TRUE)
LowerParameter(m, k) ==
    LET t == m.params[k] IN
    CASE k = 1 /\ Says(m.attrs, "consume_ownership", "0") ->
             IF Target(m.attrs) = "fsharp" /\ owned_class_pointer(t) THEN Lowered(t, "owned argument", <<"void**">>) ELSE Refused
      [] lower_record_value(t, Target(m.attrs)) -> Lowered(t, "record", <<"const void*">>)
      [] OTHER -> lower_type(t, FALSE)

-----------------------------------------------------------------------------
(* The contract                                                             *)

append_type_contract(t) == IF t = Refused THEN <<>> ELSE <<t.native, t.size, t.c, t.how>>

LowerMethod(c, m) ==
    [symbol |-> c.flat \o <<m.name>>, target |-> Target(m.attrs), result |-> LowerResult(m),
     params |-> [k \in DOMAIN m.params |-> LowerParameter(m, k)]]
\* The signature as it is spelled, the calling convention and the exception
\* specification are appended too; what follows does without them.
MethodContract(m, l) ==
    <<"method", l.symbol, l.target, m.flags \cap {"const"}>> \o append_type_contract(l.result)
    \o <<Len(l.params)>> \o FlattenSeq([k \in DOMAIN l.params |-> append_type_contract(l.params[k])])

MethodErrors(c, m) ==
    LET l == LowerMethod(c, m)
        callbacks == {k \in DOMAIN l.params : l.params[k].how = "callback"}
    IN  \/ PolicyErrors(m.attrs, FALSE)
        \/ IF ~Has(m.attrs, "interop")
           THEN \E name \in {"callback", "return_ownership", "consume_ownership"} : Has(m.attrs, name)
           ELSE \/ ~Has(c.attrs, "interop")
                \/ Target(m.attrs) \in {"csharp", "fsharp"} /\ Target(c.attrs) # Target(m.attrs)
                \/ m.flags \ {"const"} # {}
                \/ \E n \in ToSet(c.methods) : n # m /\ n.name = m.name
                \/ l.result = Refused \/ Refused \in ToSet(l.params)
                \/ Says(m.attrs, "consume_ownership", "0") /\ m.params = <<>>
                \/ (callbacks # {}) # Says(m.attrs, "callback", "synchronous") \/ Cardinality(callbacks) > 1

-----------------------------------------------------------------------------
IInit ==
    /\ modules \in Modules
    /\ outputs = <<>> /\ at = 1 /\ symbols = {} /\ classes = <<>> /\ contract = <<>> /\ errors = {}

\* One round of the loop over the classes.
lower_class ==
    /\ Len(outputs) < 2 /\ at <= Len(Now.classes)
    /\ LET c == Now.classes[at]
           selected == Has(c.attrs, "interop")
           owned == Says(c.attrs, "lifetime", "owned")
           handle == Append(c.flat, "handle")
           chosen == SelectSeq(c.methods, LAMBDA m : Has(m.attrs, "interop"))
           ls == [k \in DOMAIN chosen |-> LowerMethod(c, chosen[k])]
           new == (IF selected THEN <<handle>> \o (IF owned THEN <<Append(handle, "destroy")>> ELSE <<>>) ELSE <<>>)
                  \o [k \in DOMAIN ls |-> ls[k].symbol]
           wrong == \/ PolicyErrors(c.attrs, TRUE)
                    \/ Has(c.attrs, "lifetime") # selected
                    \/ owned /\ Target(c.attrs) # "fsharp"
                    \/ selected /\ c.nested
                    \/ \E m \in ToSet(c.methods) : MethodErrors(c, m)
           collision == \E k \in DOMAIN new : new[k] \in symbols \cup {new[n] : n \in 1 .. k - 1}
       IN  /\ symbols' = symbols \cup ToSet(new)
           /\ errors' = errors \cup (IF wrong THEN {"RG0200"} ELSE {}) \cup (IF collision THEN {"RG0203"} ELSE {})
           /\ classes' = IF selected THEN Append(classes, [name |-> c.name, flat |-> c.flat, owned |-> owned, methods |-> ls]) ELSE classes
           /\ contract' = contract
                  \o (IF selected THEN <<"class", c.name, Target(c.attrs), owned>> ELSE <<>>)
                  \o FlattenSeq([k \in DOMAIN ls |-> MethodContract(chosen[k], ls[k])])
    /\ at' = at + 1 /\ UNCHANGED <<modules, outputs>>

\* F# value layouts, in the order of their aliases; then the output, if
\* nothing was wrong.
Layouts == SelectSeq(Now.values, LAMBDA v : Says(v.attrs, "interop", "fsharp"))
LayoutErrors ==
    \/ ~IsInjective([k \in DOMAIN Layouts |-> Layouts[k].name])
    \/ \E v \in ToSet(Layouts) :
           \/ v.flags # {} \/ v.fields = <<>> \/ Len(Arguments(v.attrs, "interop")) > 1
           \/ \E f \in ToSet(v.fields) : f.flags # {} \/ f.type.kind \notin {"integer", "float"} \/ lower_type(f.type, FALSE) = Refused
LayoutContract(v) ==
    <<"layout", v.name, v.of, v.size, v.align>>
    \o FlattenSeq([k \in DOMAIN v.fields |-> <<v.fields[k].name, v.fields[k].offset>>
                                             \o append_type_contract(lower_type(v.fields[k].type, FALSE))])

emit_interop ==
    /\ Len(outputs) < 2 /\ at > Len(Now.classes)
    /\ outputs' = Append(outputs,
           [ok |-> errors = {} /\ ~LayoutErrors, classes |-> classes,
            layouts |-> [k \in DOMAIN Layouts |-> [name |-> Layouts[k].name, of |-> Layouts[k].of, size |-> Layouts[k].size,
                                                    align |-> Layouts[k].align, fields |-> Layouts[k].fields]],
            fingerprint |-> contract \o FlattenSeq([k \in DOMAIN Layouts |-> LayoutContract(Layouts[k])])])
    /\ at' = 1 /\ symbols' = {} /\ classes' = <<>> /\ contract' = <<>> /\ errors' = {}
    /\ UNCHANGED modules

INext == lower_class \/ emit_interop

-----------------------------------------------------------------------------
Emitted(k) == k <= Len(outputs) /\ outputs[k].ok

\* Two generations whose fingerprints agree agree on everything a call passes:
\* the symbols, how each argument and result crosses, and the layouts of the
\* records (interop.cpp:376, 813).
ContractCovers ==
    (Emitted(1) /\ Emitted(2) /\ outputs[1].fingerprint = outputs[2].fingerprint) =>
        outputs[1].classes = outputs[2].classes /\ outputs[1].layouts = outputs[2].layouts

\* Whoever gets an owned pointer across the ABI finds the matching Owned_
\* class with its destroy function in the same output, every record that
\* crosses by its bytes has its layout there, and no two generated names are
\* the same (interop.cpp:634, 653).
OwnershipClosed ==
    \A k \in 1 .. 2 : Emitted(k) =>
        LET out == outputs[k]
            owned == {c.name : c \in {d \in ToSet(out.classes) : d.owned}}
            Values(m) == {m.result} \cup ToSet(m.params)
            all == FlattenSeq([n \in DOMAIN out.classes |->
                       <<Append(out.classes[n].flat, "handle")>> \o (IF out.classes[n].owned THEN <<out.classes[n].flat \o <<"handle", "destroy">>>> ELSE <<>>)
                       \o [i \in DOMAIN out.classes[n].methods |-> out.classes[n].methods[i].symbol]])
        IN  /\ IsInjective(all)
            /\ \A c \in ToSet(out.classes) : \A m \in ToSet(c.methods) : \A v \in Values(m) :
                   /\ v.how \in {"owned result", "owned argument"} => \E o \in owned : v.native = <<"pointer", o>>
                   /\ v.how = "record" => \E l \in ToSet(out.layouts) : l.of = v.native
=============================================================================
