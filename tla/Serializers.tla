----------------------------- MODULE Serializers -----------------------------
(***************************************************************************)
(* include/reflgen/serial: what serialize writes for each category of type *)
(* and what deserialize does to an object, and the second pair of          *)
(* functions, runtime_serialize and runtime_deserialize, which runtime     *)
(* values go through. An object may be read several times; a read that     *)
(* fails leaves it the way it was at that moment.                          *)
(*                                                                         *)
(* A document is a tree: <<"null">>, <<"int", n>>, <<"str", s>>,           *)
(* <<"arr", nodes>>, <<"obj", pairs of a key and a node>>, and <<"bad">>   *)
(* for input that no reader accepts at that place.                         *)
(*                                                                         *)
(* A type is a record with a kind:                                         *)
(*   int (lo, hi), enum (names: value -> name, hi), opt (of),              *)
(*   ptr (of: a smart pointer to a type without virtual functions),        *)
(*   cell (of: complex, duration, time_point, atomic), var (alts),         *)
(*   tuple (items), seq, set, valarray, fixed, heap (of: a priority queue),*)
(*   map (key, of: unique keys that can be text), multi (key, of),         *)
(*   exp (of, err), rec (fields: key, type, attr)                          *)
(***************************************************************************)
EXTENDS Integers, Sequences, SequencesExt, TLC

CONSTANTS Types,   \* the types of the object
          MaxLen   \* bound: elements of the containers that are written

VARIABLES type, object,
          last     \* the last operation and whether it succeeded

vars == <<type, object, last>>

Modes == {"serial", "runtime"}
Done(v) == [ok |-> TRUE, v |-> v]
Failed(v) == [ok |-> FALSE, v |-> v]
Items(node) == node[2]

RECURSIVE Default(_)
Default(t) ==
    CASE t.kind \in {"int", "enum"} -> 0
      [] t.kind = "cell" -> Default(t.of)
      [] t.kind = "var" -> <<0, Default(t.alts[1])>>
      [] t.kind = "tuple" -> [i \in DOMAIN t.items |-> Default(t.items[i])]
      [] t.kind = "fixed" -> [i \in 1 .. t.size |-> Default(t.of)]
      [] t.kind = "exp" -> <<"value", Default(t.of)>>
      [] t.kind = "rec" -> [i \in DOMAIN t.fields |-> Default(t.fields[i].type)]
      [] OTHER -> <<>>

-----------------------------------------------------------------------------
\* encode_key, decode_key: -1 stands for a key that cannot be decoded.
encode_key(t, key) == IF t.kind = "enum" /\ key \in DOMAIN t.names THEN t.names[key] ELSE ToString(key)
decode_key(t, text) ==
    LET named == IF t.kind = "enum" THEN {k \in DOMAIN t.names : t.names[k] = text} ELSE {}
        number == {n \in 0 .. t.hi : ToString(n) = text} IN
    IF named # {} THEN CHOOSE k \in named : TRUE
    ELSE IF number # {} THEN CHOOSE n \in number : TRUE
    ELSE -1

Kept(t) == SelectSeq([i \in DOMAIN t.fields |-> i], LAMBDA i : t.fields[i].attr # "transient")

\* serializer<T>::write and runtime_serialize. What they write is the same,
\* apart from byte ranges, which are not among the types here.
RECURSIVE write(_, _)
write(t, v) ==
    CASE t.kind = "int" -> <<"int", v>>
      [] t.kind = "enum" -> IF v \in DOMAIN t.names THEN <<"str", t.names[v]>> ELSE <<"int", v>>
      [] t.kind \in {"opt", "ptr"} -> IF v = <<>> THEN <<"null">> ELSE write(t.of, v[1])
      [] t.kind = "cell" -> write(t.of, v)
      [] t.kind = "var" -> <<"arr", <<<<"int", v[1]>>, write(t.alts[v[1] + 1], v[2])>>>>
      [] t.kind = "tuple" -> <<"arr", [i \in DOMAIN v |-> write(t.items[i], v[i])]>>
      [] t.kind \in {"seq", "set", "valarray", "fixed", "heap"} -> <<"arr", [i \in DOMAIN v |-> write(t.of, v[i])]>>
      [] t.kind = "map" -> <<"obj", [i \in DOMAIN v |-> <<encode_key(t.key, v[i][1]), write(t.of, v[i][2])>>]>>
      [] t.kind = "multi" ->
            <<"arr", [i \in DOMAIN v |-> <<"arr", <<write(t.key, v[i][1]), write(t.of, v[i][2])>>>>]>>
      [] t.kind = "exp" -> <<"obj", <<<<v[1], write(IF v[1] = "value" THEN t.of ELSE t.err, v[2])>>>>>>
      [] t.kind = "rec" ->
            <<"obj", [i \in DOMAIN Kept(t) |->
                        LET f == Kept(t)[i] IN <<t.fields[f].key, write(t.fields[f].type, v[f])>>]>>

-----------------------------------------------------------------------------
\* Where a new element goes. An entry of a map replaces the one with its
\* key; elements of a set are unique; equal keys of a multimap keep the
\* order in which they came; a priority queue sifts the element up.
Put(s, k, x) == SubSeq(s, 1, k) \o <<x>> \o SubSeq(s, k + 1, Len(s))
Smaller(s, Before(_)) == Len(SelectSeq(s, Before))
add_map(s, key, x) ==
    LET same == {i \in DOMAIN s : s[i][1] = key} IN
    IF same # {} THEN [s EXCEPT ![CHOOSE i \in same : TRUE] = <<key, x>>]
    ELSE Put(s, Smaller(s, LAMBDA e : e[1] < key), <<key, x>>)
add_multi(s, key, x) == Put(s, Smaller(s, LAMBDA e : e[1] <= key), <<key, x>>)
add_set(s, x) == IF x \in ToSet(s) THEN s ELSE Put(s, Smaller(s, LAMBDA e : e < x), x)

RECURSIVE sift_up(_, _)
sift_up(s, i) ==
    LET up == i \div 2 IN
    IF i = 1 \/ s[up] >= s[i] THEN s ELSE sift_up([s EXCEPT ![i] = s[up], ![up] = s[i]], up)
push(s, x) == sift_up(Append(s, x), Len(s) + 1)

add(t, s, x) == IF t.kind = "set" THEN add_set(s, x) ELSE Append(s, x)

\* serializer<T>::read ("serial") and runtime_deserialize ("runtime"): the
\* object behind the read, also when it fails.
RECURSIVE read(_, _, _, _)

\* read_optional reads in place; runtime_deserialize reads a new object and
\* puts it in place when it is complete.
read_optional(mode, t, old, node) ==
    IF node = <<"null">> THEN Done(<<>>)
    ELSE IF mode = "serial"
    THEN LET r == read(mode, t.of, IF old = <<>> THEN Default(t.of) ELSE old[1], node) IN [ok |-> r.ok, v |-> <<r.v>>]
    ELSE LET r == read(mode, t.of, Default(t.of), node) IN IF r.ok THEN Done(<<r.v>>) ELSE Failed(old)

\* read_pointer: other owners may look at the object that is there.
read_pointer(t, old, node) ==
    IF node = <<"null">> THEN Done(<<>>)
    ELSE LET r == read("serial", t.of, Default(t.of), node) IN IF r.ok THEN Done(<<r.v>>) ELSE Failed(old)

\* read_complex, read_duration, read_time_point, read_atomic: the parts are
\* read to the side.
read_cell(t, old, node) == LET r == read("serial", t.of, Default(t.of), node) IN IF r.ok THEN r ELSE Failed(old)

read_variant(mode, t, old, node) ==
    IF node[1] # "arr" \/ Len(Items(node)) < 2 \/ Items(node)[1][1] # "int" THEN Failed(old)
    ELSE LET index == Items(node)[1][2] IN
         IF index \notin 0 .. Len(t.alts) - 1 THEN Failed(old)
         ELSE LET alt == t.alts[index + 1]
                  r == read(mode, alt, Default(alt), Items(node)[2])
              IN  [ok |-> r.ok /\ Len(Items(node)) = 2, v |-> <<index, r.v>>]

\* read_tuple, read_fixed_range: element by element into what is there.
read_elements(mode, types, old, node) ==
    IF node[1] # "arr" THEN Failed(old)
    ELSE LET Step(a, i) ==
                 IF ~a.ok THEN a
                 ELSE LET r == read(mode, types[i], a.v[i], Items(node)[i])
                      IN  [ok |-> r.ok, v |-> [a.v EXCEPT ![i] = r.v]]
             both == IF Len(Items(node)) < Len(types) THEN Len(Items(node)) ELSE Len(types)
             r == FoldLeft(Step, Done(old), [i \in 1 .. both |-> i])
         IN  [ok |-> r.ok /\ Len(Items(node)) = Len(types), v |-> r.v]

\* Elements that a container which starts as from takes from the nodes.
Collect(mode, t, from, nodes) ==
    FoldLeft(LAMBDA a, n : IF ~a.ok THEN a
                           ELSE LET r == read(mode, t.of, Default(t.of), n)
                                IN  IF r.ok THEN Done(add(t, a.v, r.v)) ELSE Failed(a.v),
             Done(from), nodes)

\* read_sequence: begin_array first, then the container is emptied and takes
\* the elements one by one; a valarray takes all of them at the end.
read_sequence(mode, t, old, node) ==
    IF node[1] # "arr" THEN Failed(old)
    ELSE LET r == Collect(mode, t, <<>>, Items(node)) IN
         IF t.kind = "valarray" /\ ~r.ok THEN Failed(old) ELSE r

\* MUTANT: the queue takes the items as they come.
read_adapter_Copy(t, old, node) ==
    LET r == read_sequence("serial", [t EXCEPT !.kind = "seq"], <<>>, node) IN IF r.ok THEN r ELSE Failed(old)
\* read_adapter: everything is read, then the queue is emptied and the items
\* are pushed.
read_adapter(t, old, node) ==
    LET r == read_sequence("serial", [t EXCEPT !.kind = "seq"], <<>>, node) IN
    IF r.ok THEN Done(FoldLeft(push, <<>>, r.v)) ELSE Failed(old)

\* MUTANT: the first of two entries with one key wins.
read_map_First(mode, t, old, node) ==
    IF node[1] # "obj" THEN Failed(<<>>)
    ELSE FoldLeft(LAMBDA a, e :
                      LET key == decode_key(t.key, e[1])
                          r == read(mode, t.of, Default(t.of), e[2]) IN
                      IF ~a.ok THEN a ELSE IF key = -1 \/ ~r.ok THEN Failed(a.v)
                      ELSE IF key \in {a.v[i][1] : i \in DOMAIN a.v} THEN a ELSE Done(add_map(a.v, key, r.v)),
                  Done(<<>>), Items(node))
\* read_map: the map is emptied before the input is looked at.
read_map(mode, t, old, node) ==
    IF node[1] # "obj" THEN Failed(<<>>)
    ELSE FoldLeft(LAMBDA a, e :
                      LET key == decode_key(t.key, e[1])
                          r == read(mode, t.of, Default(t.of), e[2]) IN
                      IF ~a.ok THEN a ELSE IF key = -1 \/ ~r.ok THEN Failed(a.v) ELSE Done(add_map(a.v, key, r.v)),
                  Done(<<>>), Items(node))

read_pairs(mode, t, old, node) ==
    IF node[1] # "arr" THEN Failed(<<>>)
    ELSE FoldLeft(LAMBDA a, e :
                      LET r == read_elements(mode, <<t.key, t.of>>, <<Default(t.key), Default(t.of)>>, e) IN
                      IF ~a.ok THEN a ELSE IF ~r.ok THEN Failed(a.v) ELSE Done(add_multi(a.v, r.v[1], r.v[2])),
                  Done(<<>>), Items(node))

read_expected(mode, t, old, node) ==
    IF node[1] # "obj" \/ Len(Items(node)) = 0 THEN Failed(old)
    ELSE LET key == Items(node)[1][1] IN
         IF key \notin {"value", "error"} THEN Failed(old)
         ELSE LET of == IF key = "value" THEN t.of ELSE t.err
                  r == read(mode, of, Default(of), Items(node)[1][2])
              IN  IF ~r.ok THEN Failed(old) ELSE [ok |-> Len(Items(node)) = 1, v |-> <<key, r.v>>]

\* read_object, and the record branch of runtime_deserialize, which refuses a
\* key that comes twice.
read_record(mode, t, old, node) ==
    IF node[1] # "obj" THEN Failed(old)
    ELSE LET Step(a, e) ==
                 LET at == {i \in ToSet(Kept(t)) : t.fields[i].key = e[1]} IN
                 IF ~a.ok THEN a
                 ELSE IF at = {} THEN [a EXCEPT !.ok = e[2] # <<"bad">>]
                 ELSE LET i == CHOOSE i \in at : TRUE
                          r == read(mode, t.fields[i].type, a.v[i], e[2]) IN
                      IF mode = "runtime" /\ i \in a.seen THEN [a EXCEPT !.ok = FALSE]
                      ELSE [ok |-> r.ok, v |-> [a.v EXCEPT ![i] = r.v], seen |-> a.seen \cup {i}]
             r == FoldLeft(Step, [ok |-> TRUE, v |-> old, seen |-> {}], Items(node))
             needed == {i \in DOMAIN t.fields : t.fields[i].attr = "required"}
         IN  [ok |-> r.ok /\ needed \subseteq r.seen, v |-> r.v]

\* read_integer: the data model is wider than the type.
read_integer(t, old, node) ==
    IF node[1] = "int" /\ node[2] \in t.lo .. t.hi THEN Done(node[2]) ELSE Failed(old)
read_enum(t, old, node) ==
    IF node[1] = "str"
    THEN LET named == {k \in DOMAIN t.names : t.names[k] = node[2]}
         IN  IF named = {} THEN Failed(old) ELSE Done(CHOOSE k \in named : TRUE)
    ELSE read_integer([lo |-> 0, hi |-> t.hi], old, node)

\* Pointers, cells and adapters have no runtime reader of their own: inside
\* them runtime_deserialize goes on as deserialize.
read(mode, t, old, node) ==
    CASE t.kind = "int" -> read_integer(t, old, node)
      [] t.kind = "enum" -> read_enum(t, old, node)
      [] t.kind = "opt" -> read_optional(mode, t, old, node)
      [] t.kind = "ptr" -> read_pointer(t, old, node)
      [] t.kind = "cell" -> read_cell(t, old, node)
      [] t.kind = "var" -> read_variant(mode, t, old, node)
      [] t.kind = "tuple" -> read_elements(mode, t.items, old, node)
      [] t.kind = "fixed" -> read_elements(mode, [i \in 1 .. t.size |-> t.of], old, node)
      [] t.kind \in {"seq", "set", "valarray"} -> read_sequence(mode, t, old, node)
      [] t.kind = "heap" -> read_adapter(t, old, node)
      [] t.kind = "map" -> read_map(mode, t, old, node)
      [] t.kind = "multi" -> read_pairs(mode, t, old, node)
      [] t.kind = "exp" -> read_expected(mode, t, old, node)
      [] t.kind = "rec" -> read_record(mode, t, old, node)

-----------------------------------------------------------------------------
\* runtime_assignment_safe: whether a whole value may be replaced.
RECURSIVE assignment_safe(_)
assignment_safe(t) ==
    CASE t.kind \in {"int", "enum"} -> TRUE
      [] t.kind = "ptr" -> FALSE
      [] t.kind = "rec" -> \A i \in DOMAIN t.fields :
                               t.fields[i].attr # "readonly" /\ assignment_safe(t.fields[i].type)
      [] t.kind = "var" -> \A i \in DOMAIN t.alts : assignment_safe(t.alts[i])
      [] t.kind = "tuple" -> \A i \in DOMAIN t.items : assignment_safe(t.items[i])
      [] t.kind \in {"map", "multi"} -> assignment_safe(t.key) /\ assignment_safe(t.of)
      [] t.kind = "exp" -> assignment_safe(t.of) /\ assignment_safe(t.err)
      [] t.kind \in {"cell", "heap"} -> FALSE
      [] OTHER -> assignment_safe(t.of)

\* MUTANT: the value is read where it is.
assign_runtime_value_InPlace(t, old, node) == read("runtime", t, old, node)
\* assign_runtime_value: a copy is read and swapped in.
assign_runtime_value(t, old, node) ==
    LET staged == read("runtime", t, old, node) IN IF staged.ok THEN staged ELSE Failed(old)

-----------------------------------------------------------------------------
\* The values of a type, with containers of at most MaxLen elements.
Sorted(S) == {s \in S : \A i, j \in DOMAIN s : i < j => s[i] < s[j]}
SortedKeys(S, strict) ==
    {s \in S : \A i, j \in DOMAIN s : i < j => s[i][1] < s[j][1] \/ (~strict /\ s[i][1] = s[j][1])}
Heaps(S) == {s \in S : \A i \in DOMAIN s : i > 1 => s[i \div 2] >= s[i]}

RECURSIVE Tuples(_)
Tuples(sets) == IF sets = <<>> THEN {<<>>}
                ELSE {<<x>> \o rest : x \in Head(sets), rest \in Tuples(Tail(sets))}

RECURSIVE Values(_)
Values(t) ==
    CASE t.kind = "int" -> t.lo .. t.hi
      [] t.kind = "enum" -> 0 .. t.hi
      [] t.kind = "cell" -> Values(t.of)
      [] t.kind \in {"opt", "ptr"} -> {<<>>} \cup {<<v>> : v \in Values(t.of)}
      [] t.kind = "var" -> UNION {{<<i - 1, v>> : v \in Values(t.alts[i])} : i \in DOMAIN t.alts}
      [] t.kind = "tuple" -> Tuples([i \in DOMAIN t.items |-> Values(t.items[i])])
      [] t.kind = "fixed" -> [1 .. t.size -> Values(t.of)]
      [] t.kind \in {"seq", "valarray"} -> BoundedSeq(Values(t.of), MaxLen)
      [] t.kind = "set" -> Sorted(BoundedSeq(Values(t.of), MaxLen))
      [] t.kind = "heap" -> Heaps(BoundedSeq(Values(t.of), MaxLen + 1))
      [] t.kind = "map" -> SortedKeys(BoundedSeq(Values(t.key) \X Values(t.of), MaxLen), TRUE)
      [] t.kind = "multi" -> SortedKeys(BoundedSeq(Values(t.key) \X Values(t.of), MaxLen), FALSE)
      [] t.kind = "exp" -> {<<"value", v>> : v \in Values(t.of)} \cup {<<"error", v>> : v \in Values(t.err)}
      [] t.kind = "rec" -> Tuples([i \in DOMAIN t.fields |-> Values(t.fields[i].type)])

\* Documents: what some value of the type is written as, and what becomes of
\* that when one place in it is damaged.
RECURSIVE Damaged(_)
Damaged(node) ==
    {<<"bad">>, <<"null">>, <<"int", 7>>} \cup
    CASE node[1] = "arr" ->
            {<<"arr", SubSeq(Items(node), 1, n)>> : n \in 0 .. Len(Items(node)) - 1}
            \cup {<<"arr", Append(Items(node), x)>> : x \in {<<"bad">>} \cup ToSet(Items(node))}
            \cup UNION {{<<"arr", [Items(node) EXCEPT ![i] = x]>> : x \in Damaged(Items(node)[i])} : i \in DOMAIN Items(node)}
      [] node[1] = "obj" ->
            {<<"obj", SubSeq(Items(node), 1, n)>> : n \in 0 .. Len(Items(node)) - 1}
            \cup {<<"obj", Append(Items(node), <<"other", x>>)>> : x \in {<<"bad">>, <<"null">>}}
            \cup {<<"obj", Append(Items(node), <<Items(node)[i][1], Items(node)[j][2]>>)>> : i, j \in DOMAIN Items(node)}
            \cup UNION {{<<"obj", [Items(node) EXCEPT ![i][2] = x]>> : x \in Damaged(Items(node)[i][2])} : i \in DOMAIN Items(node)}
      [] OTHER -> {}
Written(t) == {write(t, v) : v \in Values(t)}
Documents == [t \in Types |-> Written(t) \cup UNION {Damaged(n) : n \in Written(t)}]

Init ==
    /\ type \in Types
    /\ object = Default(type)
    /\ last = [op |-> "none", ok |-> TRUE]

Apply(op, r) == object' = r.v /\ last' = [op |-> op, ok |-> r.ok] /\ UNCHANGED type

deserialize(node) == Apply("deserialize", read("serial", type, object, node))
runtime_deserialize(node) == Apply("runtime", read("runtime", type, object, node))
assign_serialized(node) ==
    /\ assignment_safe(type)
    /\ Apply("assign", assign_runtime_value(type, object, node))

Next == \E node \in Documents[type] :
            deserialize(node) \/ runtime_deserialize(node) \/ assign_serialized(node)

Spec == Init /\ [][Next]_vars

-----------------------------------------------------------------------------
\* A document shows a null where the content of an optional is itself null.
RECURSIVE Nullable(_)
Nullable(t) == t.kind \in {"opt", "ptr"} \/ (t.kind = "cell" /\ Nullable(t.of))
RECURSIVE Distinct(_)
Distinct(t) ==
    CASE t.kind \in {"opt", "ptr"} -> ~Nullable(t.of) /\ Distinct(t.of)
      [] t.kind = "var" -> \A i \in DOMAIN t.alts : Distinct(t.alts[i])
      [] t.kind = "tuple" -> \A i \in DOMAIN t.items : Distinct(t.items[i])
      [] t.kind = "rec" -> \A i \in DOMAIN t.fields : Distinct(t.fields[i].type)
      [] t.kind = "exp" -> Distinct(t.of) /\ Distinct(t.err)
      [] t.kind \in {"int", "enum"} -> TRUE
      [] OTHER -> Distinct(t.of)

\* Transient fields keep what they were.
Kept_from(t, v, old) ==
    IF t.kind # "rec" THEN v
    ELSE [i \in DOMAIN v |-> IF t.fields[i].attr = "transient" THEN old[i] ELSE v[i]]

\* What is written is read back, into whatever object and by both readers,
\* also an object that an earlier read has left half way.
ReadsBack ==
    Distinct(type) =>
        \A v \in Values(type), mode \in Modes :
            read(mode, type, object, write(type, v)) = Done(Kept_from(type, v, object))

\* An object is a value of its type after every read, the ones that fail
\* included: keys stay unique and sorted, a queue stays a heap, an
\* alternative that was chosen is there.
RECURSIVE Valid(_, _)
Valid(t, v) ==
    CASE t.kind = "int" -> v \in t.lo .. t.hi
      [] t.kind = "enum" -> v \in 0 .. t.hi
      [] t.kind = "cell" -> Valid(t.of, v)
      [] t.kind \in {"opt", "ptr"} -> v = <<>> \/ (Len(v) = 1 /\ Valid(t.of, v[1]))
      [] t.kind = "var" -> v[1] \in 0 .. Len(t.alts) - 1 /\ Valid(t.alts[v[1] + 1], v[2])
      [] t.kind = "tuple" -> DOMAIN v = DOMAIN t.items /\ \A i \in DOMAIN v : Valid(t.items[i], v[i])
      [] t.kind = "fixed" -> Len(v) = t.size /\ \A i \in DOMAIN v : Valid(t.of, v[i])
      [] t.kind \in {"seq", "valarray"} -> \A i \in DOMAIN v : Valid(t.of, v[i])
      [] t.kind = "set" -> v \in Sorted({v}) /\ \A i \in DOMAIN v : Valid(t.of, v[i])
      [] t.kind = "heap" -> v \in Heaps({v}) /\ \A i \in DOMAIN v : Valid(t.of, v[i])
      [] t.kind \in {"map", "multi"} ->
            v \in SortedKeys({v}, t.kind = "map") /\ \A i \in DOMAIN v : Valid(t.key, v[i][1]) /\ Valid(t.of, v[i][2])
      [] t.kind = "exp" -> Valid(IF v[1] = "value" THEN t.of ELSE t.err, v[2])
      [] t.kind = "rec" -> DOMAIN v = DOMAIN t.fields /\ \A i \in DOMAIN v : Valid(t.fields[i].type, v[i])
ObjectValid == Valid(type, object)

\* Assignment through a view is all or nothing: a document that cannot be
\* read to its end leaves the engine's value alone.
AssignWhole == last'.op = "assign" /\ ~last'.ok => object' = object

\* A described object inside an optional keeps the fields the document leaves
\* out, as it does outside of one: reading nothing changes nothing.
OptionalInPlace ==
    type.kind = "opt" /\ type.of.kind = "rec" /\ object # <<>>
    /\ (\A i \in DOMAIN type.of.fields : type.of.fields[i].attr # "required") =>
        read("serial", type, object, <<"obj", <<>>>>) = Done(object)

\* Where a key comes twice the last entry counts.
LastEntryWins ==
    type.kind = "map" =>
        \A v, w \in Values(type) :
            LET twice == <<"obj", Items(write(type, v)) \o Items(write(type, w))>>
                r == read("serial", type, object, twice)
            IN  r.ok /\ ToSet(w) \subseteq ToSet(r.v)
=============================================================================
