---------------------------- MODULE TypeDescriptor ----------------------------
(***************************************************************************)
(* include/reflgen/runtime/type_descriptor.h: the descriptors of a program *)
(* and what a caller asks of them by name. The tables are compile-time:    *)
(* the methods of a class and of everything above it, bases first, are     *)
(* reached by arithmetic on an index into schemas that stay where they     *)
(* are. A class is                                                         *)
(*   described  whether it has a schema                                    *)
(*   bases      the classes it names with base<>, all of smaller number    *)
(*   fields     [name, fixed, io]: const, and whether the type of the      *)
(*              field can be serialized                                    *)
(*   methods    [name, lvalue, params, result, internal]: whether an       *)
(*              lvalue can be called with the slots of its parameters,     *)
(*              how each is passed, what becomes of the result             *)
(*   made       default constructible, not abstract, new and delete open   *)
(* A pointer is the path of casts from the object it was cast from.        *)
(***************************************************************************)
EXTENDS Integers, Sequences, SequencesExt

CONSTANTS Programs,  \* sequences of classes
          MemberNames, NotFound

VARIABLES program,
          asked    \* the request and its answer

vars == <<program, asked>>

Classes == DOMAIN program
At(owner, k) == [owner |-> owner, at |-> k]
MethodAt(d) == program[d.owner].methods[d.at]
FieldAt(d) == program[d.owner].fields[d.at]

-----------------------------------------------------------------------------
(* The tables                                                               *)

\* all_fields_of: bases first, nothing of a class without a schema.
AllFields ==
    LET fields[c \in Classes] ==
            IF ~program[c].described THEN <<>>
            ELSE FlattenSeq([i \in DOMAIN program[c].bases |-> fields[program[c].bases[i]]])
                 \o [k \in DOMAIN program[c].fields |-> At(c, k)]
    IN  fields

count_method_descriptors ==
    LET count[c \in Classes] ==
            IF ~program[c].described THEN 0
            ELSE Len(program[c].methods)
                 + FoldSeq(LAMBDA b, n : n + count[b], 0, program[c].bases)
    IN  count

RECURSIVE runtime_method_descriptor(_, _)
RECURSIVE inherited_method_descriptor(_, _)

inherited_method_descriptor(bases, i) ==
    LET first == count_method_descriptors[Head(bases)] IN
    IF i < first THEN runtime_method_descriptor(Head(bases), i)
    ELSE inherited_method_descriptor(Tail(bases), i - first)

runtime_method_descriptor(c, i) ==
    LET inherited == count_method_descriptors[c] - Len(program[c].methods) IN
    IF i < inherited THEN inherited_method_descriptor(program[c].bases, i)
    ELSE At(c, i - inherited + 1)

\* runtime_method_callable, runtime_method_indices, runtime_methods: what can
\* be called through slots, in the order of the descriptors.
Methods(c) ==
    SelectSeq([i \in 1 .. count_method_descriptors[c] |-> runtime_method_descriptor(c, i - 1)],
              LAMBDA d : MethodAt(d).lvalue)

\* make_field_info, make_type_descriptor: what a descriptor can do.
field_info(d) ==
    [write |-> FieldAt(d).io, read |-> FieldAt(d).io /\ ~FieldAt(d).fixed]
type_descriptor(c) ==
    LET infos == {field_info(AllFields[c][i]) : i \in DOMAIN AllFields[c]} IN
    [create |-> program[c].made,
     write |-> \A f \in infos : f.write,
     read |-> \A f \in infos : f.read]

-----------------------------------------------------------------------------
(* Requests                                                                 *)

Nothing == [op |-> "none"]
Answer(op, c, arg, answer) ==
    /\ asked = Nothing
    /\ asked' = [op |-> op, type |-> c, arg |-> arg, answer |-> answer]
    /\ UNCHANGED program

find_field(c, n) ==
    LET i == SelectLastInSeq(AllFields[c], LAMBDA d : FieldAt(d).name = n) IN
    Answer("find_field", c, n, IF i = 0 THEN NotFound ELSE AllFields[c][i])

find_method(c, n) ==
    LET i == SelectLastInSeq(Methods(c), LAMBDA d : MethodAt(d).name = n) IN
    Answer("find_method", c, n, IF i = 0 THEN NotFound ELSE Methods(c)[i])

\* The cast goes through the first base that leads to the target.
RECURSIVE upcast(_, _, _)
upcast(object, c, target) ==
    LET Via(b) == IF b = target THEN Append(object, b)
                  ELSE IF program[b].described THEN upcast(Append(object, b), b, target)
                  ELSE NotFound
        ways == SelectSeq([i \in DOMAIN program[c].bases |-> Via(program[c].bases[i])],
                          LAMBDA p : p # NotFound)
    IN  IF c = target THEN object ELSE IF ways = <<>> THEN NotFound ELSE Head(ways)

Upcast(c, target) == Answer("upcast", c, target, upcast(<<c>>, c, target))

\* method_argument: what is left of the object in a slot after the call.
LeftIn(passing) == IF passing \in {"rref", "only_move"} THEN "moved" ELSE "kept"

\* MUTANT: the result is looked at when the call has been made.
invoke_Late(c, i, given, wanted) ==
    LET m == MethodAt(Methods(c)[i])
        refused == m.internal \/ Len(given) # Len(m.params)
    IN  Answer("invoke", c, [method |-> i, given |-> given, wanted |-> wanted],
               [called |-> ~refused,
                threw |-> refused \/ (wanted /\ m.result \in {"fixed", "incomplete"}),
                slots |-> IF refused THEN given ELSE [k \in DOMAIN given |-> LeftIn(m.params[k])]])
\* method_info::invoke, invoke_with: everything that can be refused is refused
\* before the call.
invoke(c, i, given, wanted) ==
    LET m == MethodAt(Methods(c)[i])
        refused == \/ m.internal
                   \/ Len(given) # Len(m.params)
                   \/ wanted /\ m.result \in {"fixed", "incomplete"}
    IN  Answer("invoke", c, [method |-> i, given |-> given, wanted |-> wanted],
               [called |-> ~refused, threw |-> refused,
                slots |-> IF refused THEN given ELSE [k \in DOMAIN given |-> LeftIn(m.params[k])]])

\* create, serialize and deserialize throw where the descriptor has no way.
Use(c, op) == Answer(op, c, "whole", [done |-> type_descriptor(c)[op]])

\* The caller goes on; descriptors never change.
Forget == asked # Nothing /\ asked' = Nothing /\ UNCHANGED program

Init == program \in Programs /\ asked = Nothing

Next ==
    \/ \E c \in {c \in Classes : program[c].described} :
           \/ \E n \in MemberNames : find_field(c, n) \/ find_method(c, n)
           \/ \E target \in Classes : Upcast(c, target)
           \/ \E i \in DOMAIN Methods(c), n \in 0 .. 2, wanted \in BOOLEAN :
                  invoke(c, i, [k \in 1 .. n |-> "kept"], wanted)
           \/ \E op \in {"create", "write", "read"} : Use(c, op)
    \/ Forget

-----------------------------------------------------------------------------
(* Reference definitions                                                    *)

\* The classes on the way up from c, by paths of declared bases; a class
\* without a schema tells nothing of its own bases.
Paths(c) ==
    LET up[n \in 0 .. Len(program)] ==
            IF n = 0 THEN {<<c>>}
            ELSE up[n - 1] \cup
                 UNION {{Append(p, program[Last(p)].bases[i]) : i \in DOMAIN program[Last(p)].bases} :
                            p \in {p \in up[n - 1] : program[Last(p)].described}}
    IN  up[Len(program)]

Above(c) == {d \in Classes : \E p \in Paths(c) : Last(p) = d}
Shared(c) == \E p, q \in Paths(c) : p # q /\ Last(p) = Last(q)

\* A member of this name, found in the same class or in one that derives from
\* the answer's, hides the answer.
Hidden(c, d, Declares(_)) ==
    \E e \in Above(c) : program[e].described /\ e # d.owner /\ d.owner \in Above(e) /\ Declares(e)

Callable(c, n) == {k \in DOMAIN program[c].methods : program[c].methods[k].name = n /\ program[c].methods[k].lvalue}
Fields(c, n) == {k \in DOMAIN program[c].fields : program[c].fields[k].name = n}
Ups(c) == {e \in Above(c) : program[e].described}

\* methods() by index: each callable method of the class and of every class
\* above it once for every way that leads there, those of a class together and
\* behind those of its bases.
TableExact ==
    asked = Nothing => \A c \in {c \in Classes : program[c].described} :
        LET table == Methods(c)
            ways(e) == Cardinality({p \in Paths(c) : Last(p) = e})
        IN  /\ \A e \in Classes, k \in 1 .. 2 :
                   LET places == {i \in DOMAIN table : table[i] = At(e, k)} IN
                   Cardinality(places) = (IF e \in Ups(c) /\ k \in DOMAIN program[e].methods /\ program[e].methods[k].lvalue
                                          THEN ways(e) ELSE 0)
            /\ \A i, j \in DOMAIN table : i < j /\ table[i].owner = table[j].owner /\ ways(table[i].owner) = 1
                   => table[i].at < table[j].at
            /\ \A i, j \in DOMAIN table :
                   table[i].owner # table[j].owner /\ table[i].owner \in Above(table[j].owner) /\ ways(table[i].owner) = 1
                   => i < j

\* find_field and find_method answer whenever the class or one above has such
\* a member, with one that no derived class hides; of overloads it is the last.
\* (Where a class is a base in two ways the answer may be hidden.)
LookupExact ==
    asked.op \in {"find_field", "find_method"} =>
        LET Has(e) == IF asked.op = "find_field" THEN Fields(e, asked.arg) ELSE Callable(e, asked.arg)
            d == asked.answer
        IN  /\ d = NotFound <=> \A e \in Ups(asked.type) : Has(e) = {}
            /\ d # NotFound =>
                   /\ d.at \in Has(d.owner) /\ \A k \in Has(d.owner) : k <= d.at
                   /\ Shared(asked.type) \/ ~Hidden(asked.type, d, LAMBDA e : Has(e) # {})

\* upcast arrives at a subobject of the target whenever declared bases lead
\* there, and answers nullptr otherwise.
UpcastExact ==
    asked.op = "upcast" =>
        IF asked.arg \in Above(asked.type)
        THEN asked.answer \in Paths(asked.type) /\ Last(asked.answer) = asked.arg
        ELSE asked.answer = NotFound

\* invoke: a call that throws was not made and has moved nothing.
RefusedUntouched ==
    asked.op = "invoke" /\ asked.answer.threw =>
        ~asked.answer.called /\ asked.answer.slots = asked.arg.given
=============================================================================
