------------------------------ MODULE WritePath ------------------------------
(***************************************************************************)
(* serialize() over a graph of described objects: the recursion of         *)
(* write_fields and write_pointer, the addresses of the indirections it    *)
(* is inside of (active_indirections, serial/detail/cycle.h) and the       *)
(* segments from the root (active_path, serial/detail/path.h). Both stacks *)
(* are per thread and are undone by destructors, on return as on a throw.  *)
(* An object has pointer fields (unique_ptr, shared_ptr, reference_wrapper)*)
(* and may hold another object by value, as its first member.              *)
(***************************************************************************)
EXTENDS Integers, SequencesExt

CONSTANTS Threads, Objects, Null,
          Inner,        \* what an object holds by value: a function
          Address,      \* the address of an object: a function
          Pointers,     \* number of pointer fields of an object
          MaxDepth      \* max_depth_ of the writer

WritePathAssumption ==
    /\ Null \notin Objects
    /\ DOMAIN Inner \subseteq Objects
    /\ \A o \in DOMAIN Inner : Inner[o] \in Objects
    /\ DOMAIN Address = Objects
    /\ Pointers \in Nat
    /\ MaxDepth \in Nat

VARIABLES pointers,     \* what the pointer fields of the objects hold
          calls,        \* the write_object calls a thread is inside of
          active,       \* active_indirections_storage
          path,         \* active_path_storage
          error,        \* path of the last error
          outcome

vars == <<pointers, calls, active, path, error, outcome>>

Outcomes == {"idle", "writing", "written", "cyclic", "refused"}

Fields(o) ==
    (IF o \in DOMAIN Inner THEN <<[guarded |-> FALSE, to |-> Inner[o]]>> ELSE <<>>)
    \o [k \in 1 .. Pointers |-> [guarded |-> TRUE, to |-> pointers[o][k]]]

Top(t) == Last(calls[t])
Frame(object, guarded) == [object |-> object, guarded |-> guarded, next |-> 1]

Init ==
    /\ pointers \in [Objects -> [1 .. Pointers -> Objects \cup {Null}]]
    /\ calls = [t \in Threads |-> <<>>]
    /\ active = [t \in Threads |-> <<>>]
    /\ path = [t \in Threads |-> <<>>]
    /\ error = [t \in Threads |-> <<>>]
    /\ outcome = [t \in Threads |-> "idle"]

-----------------------------------------------------------------------------
\* serialize(out, object) by the application, with a new writer.
Start(t, object) ==
    /\ calls[t] = <<>>
    /\ MaxDepth > 0
    /\ calls' = [calls EXCEPT ![t] = <<Frame(object, FALSE)>>]
    /\ outcome' = [outcome EXCEPT ![t] = "writing"]
    /\ error' = [error EXCEPT ![t] = <<>>]
    /\ UNCHANGED <<pointers, active, path>>

Writing(t) == calls[t] # <<>> /\ outcome[t] = "writing"
Field(t) == Fields(Top(t).object)[Top(t).next]
HasField(t) == Top(t).next <= Len(Fields(Top(t).object))

\* The segment of the field that is being written.
Segment(t) == Append(path[t], Top(t).next)

Advanced(t) == [calls[t] EXCEPT ![Len(calls[t])].next = @ + 1]

\* A serialization_error is made: it takes the path along, then the frames
\* are unwound.
Throw(t, kind, place) ==
    /\ outcome' = [outcome EXCEPT ![t] = kind]
    /\ error' = [error EXCEPT ![t] = place]
    /\ UNCHANGED <<pointers, calls, active, path>>

\* MUTANT: only the innermost indirection is looked at.
OnPath_Innermost(t, object) ==
    active[t] # <<>> /\ Last(active[t]) = Address[object]

\* MUTANT: the stack of addresses is not per thread.
OnPath_Shared(t, object) ==
    \E s \in Threads : Address[object] \in ToSet(active[s])

\* indirection_guard finds the address in active_indirections().
OnPath(t, object) == Address[object] \in ToSet(active[t])

WriteNull(t) ==
    /\ Writing(t) /\ HasField(t)
    /\ Field(t).to = Null
    /\ calls' = [calls EXCEPT ![t] = Advanced(t)]
    /\ UNCHANGED <<pointers, active, path, error, outcome>>

Cycle(t) ==
    /\ Writing(t) /\ HasField(t)
    /\ Field(t).to # Null
    /\ Field(t).guarded /\ OnPath(t, Field(t).to)
    /\ Throw(t, "cyclic", Segment(t))

\* Enter the object of a field: path_scope, the guard if it is behind a
\* pointer, and begin_object of the writer, which refuses to go too deep.
Enter(t) ==
    /\ Writing(t) /\ HasField(t)
    /\ Field(t).to # Null
    /\ Field(t).guarded => ~OnPath(t, Field(t).to)
    /\ Len(calls[t]) < MaxDepth
    /\ calls' = [calls EXCEPT ![t] =
                     Append(Advanced(t), Frame(Field(t).to, Field(t).guarded))]
    /\ path' = [path EXCEPT ![t] = Segment(t)]
    /\ active' = [active EXCEPT ![t] =
                     IF Field(t).guarded THEN Append(@, Address[Field(t).to]) ELSE @]
    /\ UNCHANGED <<pointers, error, outcome>>

\* The writer throws, in write_key or for the value: too deep, text that is
\* not UTF-8, a number the format does not have.
Refuse(t) ==
    /\ Writing(t) /\ HasField(t)
    /\ \E place \in {path[t], Segment(t)} : Throw(t, "refused", place)

\* The destructors of indirection_guard and path_scope.
Left(t, frame) == IF frame.guarded THEN Front(active[t]) ELSE active[t]

Pop(t) ==
    /\ calls' = [calls EXCEPT ![t] = Front(@)]
    /\ active' = [active EXCEPT ![t] = Left(t, Top(t))]
    /\ path' = [path EXCEPT ![t] = IF @ = <<>> THEN @ ELSE Front(@)]
    /\ UNCHANGED <<pointers, error>>

Return(t) ==
    /\ Writing(t) /\ ~HasField(t)
    /\ Pop(t)
    /\ outcome' = [outcome EXCEPT ![t] = IF Len(calls[t]) = 1 THEN "written" ELSE @]

Unwind(t) ==
    /\ calls[t] # <<>> /\ outcome[t] \in {"cyclic", "refused"}
    /\ Pop(t)
    /\ UNCHANGED outcome

Serialize(t) ==
    \/ \E o \in Objects : Start(t, o)
    \/ WriteNull(t) \/ Cycle(t) \/ Enter(t) \/ Refuse(t)
    \/ Return(t) \/ Unwind(t)

Next == \E t \in Threads : Serialize(t)

Spec == Init /\ [][Next]_vars

-----------------------------------------------------------------------------
FrameType == [object : Objects, guarded : BOOLEAN, next : 1 .. Pointers + 2]
Places == Seq(1 .. Pointers + 1)

TypeOK ==
    /\ pointers \in [Objects -> [1 .. Pointers -> Objects \cup {Null}]]
    /\ calls \in [Threads -> Seq(FrameType)]
    /\ active \in [Threads -> Seq({Address[o] : o \in Objects})]
    /\ path \in [Threads -> Places] /\ error \in [Threads -> Places]
    /\ outcome \in [Threads -> Outcomes]

\* How many of the first k calls came through a pointer.
Indirections(c, k) == Cardinality({j \in 1 .. k : c[j].guarded})

\* The two stacks always tell where the recursion is: the segments lead from
\* each object to the one inside it, and the addresses are those of the
\* objects that were reached through a pointer, in order. So nothing is left
\* of a document, written or refused, when the next one starts.
StacksMatch ==
    \A t \in Threads :
        /\ Len(path[t]) = IF calls[t] = <<>> THEN 0 ELSE Len(calls[t]) - 1
        /\ \A k \in DOMAIN path[t] :
               Fields(calls[t][k].object)[path[t][k]].to = calls[t][k + 1].object
        /\ Len(active[t]) = Indirections(calls[t], Len(calls[t]))
        /\ \A k \in DOMAIN calls[t] : calls[t][k].guarded =>
               active[t][Indirections(calls[t], k)] = Address[calls[t][k].object]

\* Without a limit of the writer, the guard alone bounds the recursion, for
\* every graph: no object is entered twice behind a pointer.
RecursionBounded ==
    \A t \in Threads : \A i, j \in DOMAIN calls[t] :
        calls[t][i].guarded /\ calls[t][j].guarded
        /\ calls[t][i].object = calls[t][j].object => i = j

\* cycle.h and path.h: the stacks match the recursion, and it is bounded.
PathInv == TypeOK /\ StacksMatch /\ RecursionBounded

\* "cyclic reference: the object is already being serialized on this path":
\* the segments of the error lead through the objects of the calls, from the
\* root on, to an object that is one of them. The object reached by two paths
\* is not a cycle, and neither is one that another thread is writing.
CycleIsReal ==
    \A t \in Threads :
        Writing(t) /\ outcome'[t] = "cyclic" =>
            LET objects == [k \in DOMAIN calls[t] |-> calls[t][k].object]
                fields == [k \in DOMAIN calls[t] |-> Fields(objects[k])[error'[t][k]].to]
            IN  /\ Len(error'[t]) = Len(calls[t])
                /\ \A k \in 1 .. Len(calls[t]) - 1 : fields[k] = objects[k + 1]
                /\ fields[Len(calls[t])] \in Range(objects)

Targets(o) == {Fields(o)[k].to : k \in DOMAIN Fields(o)} \ {Null}
Reachable(r) ==
    {o \in Objects : \A S \in SUBSET Objects :
        r \in S /\ (\A s \in S : Targets(s) \subseteq S) => o \in S}
Cyclic(r) ==
    \E C \in (SUBSET Reachable(r)) \ {{}} : \A o \in C : Targets(o) \cap C # {}

\* A document is only ever written to its end if the objects it reaches hold
\* no cycle.
WrittenIsAcyclic ==
    \A t \in Threads : Writing(t) /\ outcome'[t] = "written" => ~Cyclic(Top(t).object)

\* cycle.h: cycles and only cycles are refused. Two objects at one address
\* (an object and its first member) are one object to the guard.
CyclesOnly == [][CycleIsReal /\ WrittenIsAcyclic]_vars
AddressesDiffer == \A o, p \in Objects : Address[o] = Address[p] => o = p
=============================================================================
