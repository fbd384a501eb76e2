----------------------------- MODULE FSharpTable -----------------------------
(***************************************************************************)
(* Native function tables for F#: extract.cpp collects the types that a    *)
(* selected table reaches, fsharp_table.cpp lowers them to CLR definitions *)
(* with explicit layouts, and the generated Bind reads a table of the host *)
(* through them.                                                           *)
(*                                                                         *)
(* A type is [via, base, flags]: via leads from the type to its base by    *)
(* pointers (Ptr) and arrays (their length); base is a primitive,          *)
(* "function", "variadic" (a function that cannot be called through a      *)
(* delegate) or the name of a value. A value is                            *)
(* [kind, size, align, fields, flags, flat]; flat is its name flattened,   *)
(* as the words between the underscores. A table is [size, align, fields]; *)
(* its fields have an offset, a type and, behind a function, a result and  *)
(* parameters.                                                             *)
(***************************************************************************)
EXTENDS Integers, Sequences, FiniteSets, SequencesExt

CONSTANTS TableInputs,   \* [tables: a sequence in the order of managed_name, values: name -> value]
          MaxDepth,      \* of the types collect follows: 64
          MaxTypes,      \* that collect names: 2048
          MaxNesting,    \* of values within values: 64
          MaxArray       \* elements of an array: 16384

VARIABLES source,    \* the input
          calls,     \* of collect and lower that are to come
          seen,      \* names collect has met
          models_,   \* values collected, for all tables
          visiting_, completed_, pointed_values_, names_, ordered_definitions_,
          errors,
          stage,     \* "collect", "lower", "pointed", "done", "bound"
          reads      \* the ends of what Bind has read, and how much there is

fvars == <<source, calls, seen, models_, visiting_, completed_, pointed_values_, names_,
           ordered_definitions_, errors, stage, reads>>
emitter == <<models_, visiting_, completed_, pointed_values_, names_, ordered_definitions_>>

-----------------------------------------------------------------------------
(* Types as clang describes them                                            *)

Ptr == -1
PointerBytes == 8
Primitive == [int8 |-> 1, int32 |-> 4, int64 |-> 8, float |-> 4, char16 |-> 2, bool |-> 1]
IsValue(base) == base \in DOMAIN source.values
Value(name) == source.values[name]
Deref(t) == [t EXCEPT !.via = Tail(@)]
IsPointer(t) == t.via # <<>> /\ Head(t.via) = Ptr
IsArray(t) == t.via # <<>> /\ Head(t.via) # Ptr

RECURSIVE SizeOf(_)
SizeOf(t) ==
    CASE IsPointer(t) -> PointerBytes
      [] IsArray(t) -> Head(t.via) * SizeOf(Deref(t))
      [] IsValue(t.base) -> Value(t.base).size
      [] t.base \in DOMAIN Primitive -> Primitive[t.base]
      [] OTHER -> 0
RECURSIVE AlignOf(_)
AlignOf(t) ==
    CASE IsPointer(t) -> PointerBytes
      [] IsArray(t) -> AlignOf(Deref(t))
      [] IsValue(t.base) -> Value(t.base).align
      [] t.base \in DOMAIN Primitive -> Primitive[t.base]
      [] OTHER -> 0

Call(op, t, context, depth) == [op |-> op, type |-> t, context |-> context, depth |-> depth]
NoType == [via |-> <<>>, base |-> "void", flags |-> {}]
IsCalled(op) == calls # <<>> /\ Head(calls).op = op
Signature(f) == <<f.result>> \o f.params

-----------------------------------------------------------------------------
(* extract.cpp: visit_table_alias                                           *)

\* The calls of collect for the fields of a table: pointers to functions are
\* two steps away from their results and parameters.
Roots(t) ==
    FlattenSeq([k \in DOMAIN t.fields |->
        IF t.fields[k].type.base = "function" /\ IsPointer(t.fields[k].type)
        THEN [n \in DOMAIN Signature(t.fields[k]) |-> Call("collect", Signature(t.fields[k])[n], <<>>, 2)]
        ELSE <<Call("collect", t.fields[k].type, <<>>, 0)>>])

FInit ==
    /\ source \in TableInputs
    /\ calls = FlattenSeq([k \in DOMAIN source.tables |->
                   <<Call("start", NoType, <<>>, k)>> \o Roots(source.tables[k])])
    /\ seen = {} /\ models_ = {} /\ visiting_ = {} /\ completed_ = {} /\ pointed_values_ = {}
    /\ names_ = {<<"RootedCallback">>, <<"AbiFingerprint">>, <<"validateLayouts">>, <<"validateTarget">>}
    /\ ordered_definitions_ = <<>> /\ errors = {} /\ stage = "collect" /\ reads = <<>>

\* Each table starts with itself seen.
start ==
    /\ stage = "collect" /\ IsCalled("start")
    /\ seen' = {source.tables[Head(calls).depth].name} /\ calls' = Tail(calls)
    /\ UNCHANGED <<source, emitter, errors, stage, reads>>

\* What stays opaque behind a pointer.
Opaque(v) == v.size <= 0 \/ v.flags \cap {"union", "based", "virtual", "destructor", "private"} # {}

collect ==
    /\ stage = "collect" /\ IsCalled("collect")
    /\ LET t == Head(calls).type
           depth == Head(calls).depth
           new == IsValue(t.base) /\ t.base \notin seen
           Into(u) == Call("collect", u, <<>>, depth + 1)
       IN  IF depth > MaxDepth \/ Cardinality(seen) > MaxTypes
           THEN errors' = errors \cup {"RG0402"} /\ calls' = Tail(calls) /\ UNCHANGED <<seen, models_>>
           ELSE IF t.via # <<>>
           THEN calls' = <<Into(Deref(t))>> \o Tail(calls) /\ UNCHANGED <<errors, seen, models_>>
           ELSE /\ seen' = IF IsValue(t.base) THEN seen \cup {t.base} ELSE seen
                /\ IF new /\ ~Opaque(Value(t.base))
                   THEN /\ models_' = models_ \cup {t.base}
                        /\ calls' = (IF Value(t.base).kind = "enum" THEN <<>>
                                     ELSE [k \in DOMAIN Value(t.base).fields |-> Into(Value(t.base).fields[k].type)])
                                    \o Tail(calls)
                   ELSE calls' = Tail(calls) /\ UNCHANGED models_
                /\ UNCHANGED errors
    /\ UNCHANGED <<source, visiting_, completed_, pointed_values_, names_, ordered_definitions_, stage, reads>>

\* emitter::run takes over with all values of all tables.
run ==
    /\ stage = "collect" /\ calls = <<>>
    /\ stage' = "lower"
    /\ calls' = [k \in DOMAIN source.tables |-> Call("table", NoType, <<>>, k)]
    /\ UNCHANGED <<source, seen, emitter, errors, reads>>

-----------------------------------------------------------------------------
(* Which values a CLR struct can stand for                                  *)

RECURSIVE representable(_, _)
simple_shape(t, met) ==
    LET InnerOf[k \in 1 .. Len(t.via) + 1] ==   \* the type behind k - 1 arrays
            IF k > Len(t.via)
            THEN \/ t.base \in DOMAIN Primitive \ {"bool"}
                 \/ IsValue(t.base) /\ representable(t.base, met)
            ELSE \/ t.via[k] = Ptr
                 \/ t.via[k] > 0 /\ t.via[k] <= MaxArray /\ InnerOf[k + 1]
    IN  "volatile" \notin t.flags /\ SizeOf(t) > 0 /\ AlignOf(t) \in 1 .. 8 /\ InnerOf[1]

\* Fields in order, apart, at their alignment and within the value, which is
\* aligned as its fields are: no packed and no over-aligned value.
representable(name, met) ==
    LET v == Value(name)
        now == met \cup {name}
        End(k) == IF k = 0 THEN 0 ELSE v.fields[k].offset + SizeOf(v.fields[k].type)
    IN  /\ name \in models_ /\ name \notin met /\ Cardinality(now) <= MaxNesting
        /\ v.size > 0 /\ v.align \in 1 .. 8 /\ v.flags \cap {"union", "based", "virtual", "destructor"} = {}
        /\ IF v.kind = "enum" THEN simple_shape(v.fields[1].type, now)
           ELSE /\ v.fields # <<>>
                /\ \A k \in DOMAIN v.fields :
                       LET f == v.fields[k] IN
                       /\ f.flags = {} /\ f.offset >= End(k - 1) /\ simple_shape(f.type, now)
                       /\ f.offset % AlignOf(f.type) = 0 /\ f.offset <= v.size - SizeOf(f.type)
                /\ v.align = Max({1} \cup {AlignOf(v.fields[k].type) : k \in DOMAIN v.fields})
                /\ v.size % v.align = 0

-----------------------------------------------------------------------------
(* Lowering                                                                 *)

\* reserve, and the report of a name that is taken.
Reserve(new) ==
    /\ names_' = names_ \cup ToSet(new)
    /\ errors' = errors \cup (IF \E k \in DOMAIN new : new[k] \in names_ \cup ToSet(SubSeq(new, 1, k - 1))
                              THEN {"RG0403"} ELSE {})

\* MUTANT: a value behind a pointer is declared on the spot.
LowerPointer_AsValue(t) ==
    LET name == t.base
        pod == Len(t.via) = 1 /\ IsValue(name) /\ representable(name, {})
    IN  /\ calls' = (IF pod THEN <<Call("value", [NoType EXCEPT !.base = name], <<>>, 0)>> ELSE <<>>) \o Tail(calls)
        /\ UNCHANGED <<errors, pointed_values_, names_>>
\* A pointer never makes a dependency: a value behind it is declared when all
\* by-value dependencies are in order.
LowerPointer(t) ==
    LET name == t.base
        pod == Len(t.via) = 1 /\ IsValue(name) /\ representable(name, {})
    IN  /\ errors' = IF Len(t.via) = 1 /\ name = "variadic" THEN errors \cup {"RG0402"} ELSE errors
        /\ pointed_values_' = IF pod /\ name \notin completed_ \cup visiting_
                              THEN pointed_values_ \cup {name} ELSE pointed_values_
        /\ calls' = Tail(calls) /\ UNCHANGED names_

LowerArray(t, context) ==
    LET n == Head(t.via)
        name == Append(context, "Array")
    IN  IF n <= 0 \/ n > MaxArray \/ SizeOf(Deref(t)) <= 0
        THEN errors' = errors \cup {"RG0402"} /\ calls' = Tail(calls) /\ UNCHANGED <<names_, pointed_values_>>
        ELSE /\ Reserve(<<name>>)
             /\ calls' = <<Call("lower", Deref(t), Append(name, "Element"), 0), Call("array", t, name, 0)>> \o Tail(calls)
             /\ UNCHANGED pointed_values_

\* lower: bool, functions by value and incomplete types are refused; void is
\* a result only.
lower ==
    /\ IsCalled("lower")
    /\ LET t == Head(calls).type
           Refuse == errors' = errors \cup {"RG0402"} /\ calls' = Tail(calls) /\ UNCHANGED <<names_, pointed_values_>>
       IN  IF "volatile" \in t.flags THEN Refuse
           ELSE IF IsPointer(t) THEN LowerPointer(t)
           ELSE IF IsArray(t) THEN LowerArray(t, Head(calls).context)
           ELSE IF IsValue(t.base) /\ representable(t.base, {})
           THEN calls' = <<[Head(calls) EXCEPT !.op = "value"]>> \o Tail(calls) /\ UNCHANGED <<errors, names_, pointed_values_>>
           ELSE IF t.base \in DOMAIN Primitive \ {"bool"} \/ (t.base = "void" /\ Head(calls).depth = 1)
           THEN calls' = Tail(calls) /\ UNCHANGED <<errors, names_, pointed_values_>>
           ELSE Refuse
    /\ UNCHANGED <<source, seen, models_, visiting_, completed_, ordered_definitions_, stage, reads>>

array ==
    /\ IsCalled("array")
    /\ ordered_definitions_' = Append(ordered_definitions_, [array |-> TRUE, name |-> Head(calls).context, type |-> Head(calls).type])
    /\ calls' = Tail(calls)
    /\ UNCHANGED <<source, seen, models_, visiting_, completed_, pointed_values_, names_, errors, stage, reads>>

lower_value ==
    /\ IsCalled("value")
    /\ LET name == Head(calls).type.base
           v == Value(name)
           Parts == [k \in DOMAIN v.fields |-> Call("lower", v.fields[k].type,
                        IF v.kind = "enum" THEN v.flat ELSE Append(v.flat, v.fields[k].name), 0)]
       IN  IF name \in completed_ \cup visiting_
           THEN calls' = Tail(calls) /\ UNCHANGED <<visiting_, names_, errors>>
           ELSE /\ visiting_' = visiting_ \cup {name} /\ Reserve(<<v.flat>>)
                /\ calls' = Parts \o <<[Head(calls) EXCEPT !.op = "defined"]>> \o Tail(calls)
    /\ UNCHANGED <<source, seen, models_, completed_, pointed_values_, ordered_definitions_, stage, reads>>

defined ==
    /\ IsCalled("defined")
    /\ LET name == Head(calls).type.base IN
       /\ ordered_definitions_' =
              Append(ordered_definitions_, [array |-> FALSE, name |-> Value(name).flat, type |-> [NoType EXCEPT !.base = name]])
       /\ visiting_' = visiting_ \ {name} /\ completed_' = completed_ \cup {name}
    /\ calls' = Tail(calls)
    /\ UNCHANGED <<source, seen, models_, pointed_values_, names_, errors, stage, reads>>

\* lower_table: which fields are header, entry or wrong. A table with an error
\* keeps the whole output back, so nothing more of it is lowered here.
Header(f) == f.name \in {"version", "size"}
HeaderRight(f) == f.type.via = <<>> /\ f.type.base = "int32" /\ f.type.flags = {} /\ f.offset % 4 = 0 /\ f.offset <= 4
EntryRight(f) ==
    /\ f.type.via = <<Ptr>> /\ f.type.base = "function" /\ f.type.flags = {}
    /\ f.offset % PointerBytes = 0 /\ f.offset >= 8
FieldRight(t, k) ==
    LET f == t.fields[k]
        before == {n \in 1 .. k - 1 : t.fields[n].flags = {}}
    IN  /\ f.flags = {} /\ SizeOf(f.type) > 0 /\ f.offset <= t.size - SizeOf(f.type)
        /\ \A n \in before : f.offset >= t.fields[n].offset + SizeOf(t.fields[n].type) /\ f.name # t.fields[n].name

lower_table ==
    /\ stage = "lower" /\ IsCalled("table")
    /\ LET t == source.tables[Head(calls).depth]
           entries == SelectSeq(t.fields, LAMBDA f : ~Header(f))
           Delegate(f) == <<t.name, f.name, "Delegate">>
           own == <<<<t.name>>, <<t.name, "Version">>, <<t.name, "Size">>>>
                  \o FlattenSeq([k \in DOMAIN entries |-> <<Delegate(entries[k]), <<"root", t.name, entries[k].name, "callback">>>>])
           Lowered(f) == [n \in DOMAIN Signature(f) |->
                             Call("lower", Signature(f)[n], Delegate(f) \o <<IF n = 1 THEN "Result" ELSE "Argument", ToString(n)>>,
                                  IF n = 1 THEN 1 ELSE 0)]
           wrong == \/ t.size < 8 \/ t.align # PointerBytes \/ t.flags # {}
                    \/ \E k \in DOMAIN t.fields :
                           \/ ~FieldRight(t, k)
                           \/ ~(IF Header(t.fields[k]) THEN HeaderRight(t.fields[k]) ELSE EntryRight(t.fields[k]))
                           \/ \E n \in DOMAIN t.fields[k].params : IsArray(t.fields[k].params[n])
                    \/ {"version", "size"} \ {t.fields[k].name : k \in DOMAIN t.fields} # {} \/ entries = <<>>
       IN  /\ names_' = names_ \cup ToSet(own)
           /\ errors' = errors \cup (IF wrong THEN {"RG0401"} ELSE {})
                        \cup (IF \E n \in ToSet(own) : n \in names_ THEN {"RG0403"} ELSE {})
           /\ calls' = (IF wrong THEN <<>> ELSE FlattenSeq([k \in DOMAIN entries |-> Lowered(entries[k])])) \o Tail(calls)
    /\ UNCHANGED <<source, seen, models_, visiting_, completed_, pointed_values_, ordered_definitions_, stage, reads>>

\* The values behind pointers, one by one, once all tables are lowered.
pointed ==
    /\ stage = "lower" /\ calls = <<>> /\ pointed_values_ # {}
    /\ \E name \in pointed_values_ :
           /\ pointed_values_' = pointed_values_ \ {name}
           /\ calls' = <<Call("value", [NoType EXCEPT !.base = name], <<>>, 0)>>
    /\ UNCHANGED <<source, seen, models_, visiting_, completed_, names_, ordered_definitions_, errors, stage, reads>>

emit ==
    /\ stage = "lower" /\ calls = <<>> /\ pointed_values_ = {}
    /\ stage' = IF errors = {} THEN "emitted" ELSE "refused"
    /\ UNCHANGED <<source, calls, seen, emitter, errors, reads>>

-----------------------------------------------------------------------------
(* The generated BindWithOptional                                           *)

\* A host gives an address and says how many bytes it may read. The header is
\* read once eight bytes are there, the entries once the whole table is.
Bind(t, available, headerMatches) ==
    /\ stage = "emitted"
    /\ LET Ends(fs) == {f.offset + SizeOf(f.type) : f \in ToSet(fs)}
           header == Ends(SelectSeq(t.fields, Header))
           entries == Ends(SelectSeq(t.fields, LAMBDA f : ~Header(f)))
           read == IF available < 8 THEN {}
                   ELSE IF ~headerMatches \/ available < t.size THEN header ELSE header \cup entries
       IN  reads' = [ends |-> read, available |-> available]
    /\ stage' = "bound"
    /\ UNCHANGED <<source, calls, seen, emitter, errors>>

FNext ==
    \/ start \/ collect \/ run \/ lower \/ array \/ lower_value \/ defined \/ lower_table \/ pointed \/ emit
    \/ \E k \in DOMAIN source.tables, available \in {0, 4, 7, 8, 12, 16, 24, 32}, same \in BOOLEAN :
           Bind(source.tables[k], available, same)

-----------------------------------------------------------------------------
Emitted == stage \in {"emitted", "bound"}
RECURSIVE ByValue(_)
\* The definitions a CLR type is made of: named by array contexts and values.
ByValue(t) == IF IsPointer(t) THEN {} ELSE IF IsArray(t) THEN ByValue(Deref(t)) ELSE {t.base} \cap DOMAIN source.values
Parts(d) ==
    IF d.array THEN ByValue(Deref(d.type))
    ELSE UNION {ByValue(Value(d.type.base).fields[k].type) : k \in DOMAIN Value(d.type.base).fields}

\* An F# definition is usable only behind its own: every definition is made
\* once and behind all the values it holds, values that point to each other in
\* a circle included, and nothing that a delegate takes is missing. Two
\* definitions never share a name (fsharp_table.cpp:199, 297).
DefinitionsOrdered ==
    Emitted =>
        LET ds == ordered_definitions_
            At(v) == {k \in DOMAIN ds : ~ds[k].array /\ ds[k].type.base = v}
        IN  /\ IsInjective([k \in DOMAIN ds |-> ds[k].name])
            /\ \A k \in DOMAIN ds : \A v \in Parts(ds[k]) : \E n \in At(v) : n < k
            /\ \A i \in DOMAIN source.tables : \A f \in ToSet(source.tables[i].fields) :
                   ~Header(f) => \A t \in ToSet(Signature(f)) : \A v \in ByValue(t) : At(v) # {}

\* What the CLR lays out for the definitions is what the native compiler laid
\* out (fsharp_table.cpp:337): fields apart and inside, and the alignment that
\* follows from the fields is the native one.
LayoutExact ==
    Emitted =>
        \A d \in ToSet(ordered_definitions_) :
            (~d.array /\ Value(d.type.base).kind = "record") =>
                LET v == Value(d.type.base)
                    Bytes(f) == f.offset .. f.offset + SizeOf(f.type) - 1
                IN  /\ \A k, n \in DOMAIN v.fields : k # n => Bytes(v.fields[k]) \cap Bytes(v.fields[n]) = {}
                    /\ \A k \in DOMAIN v.fields : Bytes(v.fields[k]) \subseteq 0 .. v.size - 1
                    /\ v.align = Max({AlignOf(v.fields[k].type) : k \in DOMAIN v.fields})

\* Bind reads nothing of a table beyond the bytes the host vouches for, however
\* the table is laid out (fsharp_table.cpp:727).
BindWithin == stage = "bound" => \A e \in reads.ends : e <= reads.available
=============================================================================
