----------------------------- MODULE ObjectRead -----------------------------
(***************************************************************************)
(* read_object (include/reflgen/serial/detail/object.h): a described class *)
(* is read from the keys of an object, in whatever order they come. The    *)
(* class, its bases and the input are chosen at the start: a class has     *)
(* direct bases and fields of its own, a field a key and attributes, the   *)
(* input a sequence of keys whose values can be read or cannot.            *)
(* Indices count from 0, as in the code. The names of this module stand    *)
(* beside those of WritePath in MCSerial.                                  *)
(***************************************************************************)
EXTENDS Integers, SequencesExt

CONSTANTS NumClasses,   \* the class that is read, and those it derives from
          Shapes,       \* the choices of direct bases: functions on Classes
          Keys,         \* serialized_name or name
          Unknown,      \* a key no field has
          MaxOwn,       \* bounds on the fields a class adds: a function
          MaxInput      \* bound on the keys in the input

\* A base has a smaller number than its class.
Classes == 1 .. NumClasses
T == NumClasses

ObjectAssumption ==
    /\ NumClasses \in Nat \ {0}
    /\ Shapes \subseteq [Classes -> Seq(Classes)]
    /\ \A shape \in Shapes : \A c \in Classes : \A k \in DOMAIN shape[c] : shape[c][k] < c
    /\ Unknown \notin Keys
    /\ MaxOwn \in [Classes -> Nat] /\ MaxInput \in Nat

ASSUME ObjectAssumption

VARIABLES bases, own,   \* the class
          input,        \* the keys of the object
          taken,        \* the number of those that next_key has returned
          seen,         \* indices of the fields that were read
          value,        \* by index: 0 for the old value, or which key's was stored
          reading       \* what has become of read_object

objectVars == <<bases, own, input, taken, seen, value, reading>>

OwnField == [key : Keys, attribute : {"none", "required", "transient"}]
Member == [key : Keys \cup {Unknown}, readable : BOOLEAN]
Kept(field) == field.attribute # "transient"

\* for_each_field: the fields of the bases in their order, then its own.
visit_fields[c \in Classes] ==
    FlattenSeq([k \in DOMAIN bases[c] |-> visit_fields[bases[c][k]]]) \o own[c]
field_count == [c \in Classes |-> Len(visit_fields[c])]

\* check_object_contract: no two kept fields share a key.
serialized_keys_unique(c) ==
    \A i, j \in DOMAIN visit_fields[c] :
        LET f == visit_fields[c][i]
            g == visit_fields[c][j]
        IN  Kept(f) /\ Kept(g) /\ f.key = g.key => i = j

ObjectInit ==
    /\ bases \in Shapes
    /\ own \in [Classes -> BoundedSeq(OwnField, Max({MaxOwn[c] : c \in Classes}))]
    /\ \A c \in Classes : Len(own[c]) <= MaxOwn[c]
    /\ serialized_keys_unique(T)
    /\ input \in BoundedSeq(Member, MaxInput)
    /\ taken = 0
    /\ seen = {}
    /\ value = [k \in 0 .. field_count[T] - 1 |-> 0]
    /\ reading = "reading"

-----------------------------------------------------------------------------
\* offset behind the first k direct bases.
Offset(c, k) ==
    LET sum[n \in 0 .. Len(bases[c])] ==
            IF n = 0 THEN 0 ELSE sum[n - 1] + field_count[bases[c][n]]
    IN  sum[k]

\* read_one_field stores the value if it has the key.
Takes(field, key) == Kept(field) /\ field.key = key

\* read_own_and_base_field, by class: the index of the field that takes the
\* key, and field_count when there is none.
read_field(key) ==
    LET index[c \in Classes] ==
            LET in_base == {k \in DOMAIN bases[c] :
                                index[bases[c][k]] # field_count[bases[c][k]]}
                in_own == {n \in DOMAIN own[c] : Takes(own[c][n], key)}
            IN  IF in_base # {}
                THEN Offset(c, Min(in_base) - 1) + index[bases[c][Min(in_base)]]
                ELSE IF in_own # {} THEN Offset(c, Len(bases[c])) + Min(in_own) - 1
                ELSE field_count[c]
    IN  index

More == taken < Len(input)
Current == input[taken + 1]

\* next_key and the field it belongs to; when deserialize of the field throws,
\* the field has its old value or part of the new one.
ReadField ==
    /\ reading = "reading" /\ More
    /\ LET index == read_field(Current.key)[T]
       IN  /\ index # field_count[T]
           /\ \/ /\ value' = [value EXCEPT ![index] = taken + 1]
                 /\ seen' = seen \cup {index}
                 /\ Current.readable
              \/ /\ value' \in {value, [value EXCEPT ![index] = taken + 1]}
                 /\ seen' = seen
                 /\ ~Current.readable
    /\ reading' = IF Current.readable THEN reading ELSE "failed"
    /\ taken' = taken + 1
    /\ UNCHANGED <<bases, own, input>>

\* skip_value of what no field takes: a value that is not well-formed throws.
SkipValue ==
    /\ reading = "reading" /\ More
    /\ read_field(Current.key)[T] = field_count[T]
    /\ reading' = IF Current.readable THEN reading ELSE "failed"
    /\ taken' = taken + 1
    /\ UNCHANGED <<bases, own, input, seen, value>>

\* MUTANT: end_object without the check of the required fields.
Missing_None == {}

\* The required fields that were not seen, by index.
Missing ==
    {k \in 0 .. field_count[T] - 1 :
        visit_fields[T][k + 1].attribute = "required" /\ k \notin seen}

\* end_object and the check of the required fields.
End ==
    /\ reading = "reading" /\ ~More
    /\ reading' = IF Missing = {} THEN "read" ELSE "missing"
    /\ UNCHANGED <<bases, own, input, taken, seen, value>>

ObjectNext == ReadField \/ SkipValue \/ End

ObjectSpec == ObjectInit /\ [][ObjectNext]_objectVars

-----------------------------------------------------------------------------
FieldTypes ==
    /\ seen \subseteq 0 .. field_count[T] - 1
    /\ value \in [0 .. field_count[T] - 1 -> 0 .. taken]
    /\ reading \in {"reading", "read", "missing", "failed"}

\* "A field missing from the input keeps its current value", "Unknown keys are
\* skipped", and of a key that comes twice the last value stays: whichever
\* class of the hierarchy declares the field, and although transient fields
\* may share its key. On failure this holds of the other fields.
Stored ==
    \A k \in DOMAIN value :
        LET field == visit_fields[T][k + 1]
            named == {n \in 1 .. taken : input[n].key = field.key}
            last == IF Kept(field) /\ named # {} THEN Max(named) ELSE 0
        IN  value[k] = last \/ (reading = "failed" /\ last = taken)

\* A required field is in the input of everything that was read: seen[] is
\* filled by one traversal of the hierarchy and looked up by another.
RequiredWasRead ==
    reading = "read" =>
        \A k \in DOMAIN value :
            visit_fields[T][k + 1].attribute = "required" => value[k] # 0

\* Nothing is refused as missing that was read.
MissingIsMissing ==
    reading = "missing" =>
        \E k \in DOMAIN value :
            visit_fields[T][k + 1].attribute = "required" /\ value[k] = 0

\* read_object: a field missing from the input keeps its value, of a key that
\* comes twice the last value stays, unknown keys change nothing; it returns
\* exactly when every required field was in the input.
FieldsExact == FieldTypes /\ Stored /\ RequiredWasRead /\ MissingIsMissing
=============================================================================
