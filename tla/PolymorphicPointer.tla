-------------------------- MODULE PolymorphicPointer --------------------------
(***************************************************************************)
(* include/reflgen/serial/detail/pointer.h: writing and reading smart      *)
(* pointers to a type with virtual functions, {"type": .., "value": ..},   *)
(* while other threads register types. An object may hold one further      *)
(* pointer of the same kind, so an object is a chain of dynamic types and  *)
(* a document the chain of tags that was written for it.                   *)
(*                                                                         *)
(* Every level asks the registry on its own, and every level of a read     *)
(* owns what it has created until it hands it on.                          *)
(***************************************************************************)
EXTENDS Registry

CONSTANTS Callers,
          Static,         \* Base, the element type of the pointers
          Fallback,       \* Base is described, serializable and concrete
          Constructible,  \* types whose descriptor can create
          Declared,       \* types that declare Static as an ancestor (base<>)
          MaxChain,       \* bound: length of a chain of objects
          Heap            \* bound: objects that reads may have at a time

PointerAssumption ==
    /\ Static \in Types /\ Static \in Declared /\ Fallback \in BOOLEAN
    /\ Constructible \subseteq Types /\ Declared \subseteq Types
    /\ MaxChain \in Nat /\ None \notin Types \cup Names

VARIABLES file,   \* the document written last: [written: types, tags: names]
          work,   \* per thread: the call under way and its document
          frames, \* per thread: the frames of read_polymorphic, outermost first
          held,   \* per thread: what its pointer holds: [kinds: types, own: objects]
          live    \* objects on the heap that reads created

pointer == <<file, work, frames, held, live>>
pointerVars == <<registry, pointer>>

Chains == UNION {[1 .. n -> Types] : n \in 1 .. MaxChain}
Doc(chain, tags) == [written |-> chain, tags |-> tags]
Idle == [op |-> "idle", doc |-> Doc(<<>>, <<>>)]
Empty == [doc |-> Doc(<<>>, <<>>), kinds |-> <<>>, own |-> {}]

PointerInit ==
    /\ RegistryInit
    /\ file = Doc(<<>>, <<>>)
    /\ work = [th \in Callers |-> Idle]
    /\ frames = [th \in Callers |-> <<>>]
    /\ held = [th \in Callers |-> Empty]
    /\ live = {}

-----------------------------------------------------------------------------
(* write_pointer                                                            *)

\* The tag of a dynamic type, None where write_polymorphic throws.
Tag(t) ==
    IF find_rtti(t) # None THEN NameOf[t]
    ELSE IF Fallback /\ t = Static THEN NameOf[Static]
    ELSE None

StartWrite(th) ==
    /\ work[th] = Idle
    /\ \E chain \in Chains : work' = [work EXCEPT ![th] = [op |-> "write", doc |-> Doc(chain, <<>>)]]
    /\ UNCHANGED <<registry, file, frames, held, live>>

\* One level; behind the last one the document is complete.
write_polymorphic(th) ==
    LET d == work[th].doc
        tag == Tag(d.written[Len(d.tags) + 1])
        more == [d EXCEPT !.tags = Append(@, tag)]
    IN  /\ work[th].op = "write"
        /\ \/ /\ tag = None
              /\ work' = [work EXCEPT ![th] = Idle] /\ UNCHANGED file
           \/ /\ tag # None /\ Len(more.tags) < Len(d.written)
              /\ work' = [work EXCEPT ![th].doc = more] /\ UNCHANGED file
           \/ /\ tag # None /\ Len(more.tags) = Len(d.written)
              /\ work' = [work EXCEPT ![th] = Idle] /\ file' = more
        /\ UNCHANGED <<registry, frames, held, live>>

-----------------------------------------------------------------------------
(* read_pointer                                                             *)

Level(th) == Len(frames[th])
Innermost(th) == frames[th][Level(th)]
At(th, op) == work[th].op = op
Goes(th, op) == work' = [work EXCEPT ![th].op = op]

\* The document may be the one written last or any other chain of tags.
StartRead(th) ==
    /\ work[th] = Idle
    /\ \E d \in {file} \cup {Doc(<<>>, <<n>>) : n \in Names \cup {None}} :
           d.tags # <<>> /\ work' = [work EXCEPT ![th] = [op |-> "find", doc |-> d]]
    /\ UNCHANGED <<registry, file, frames, held, live>>

\* A null in the document: the pointer lets go of what it held.
ReadNull(th) ==
    /\ work[th] = Idle /\ held[th] # Empty
    /\ live' = live \ held[th].own
    /\ held' = [held EXCEPT ![th] = Empty]
    /\ UNCHANGED <<registry, file, work, frames>>

\* An exception leaves every frame; their guards, and the members of the
\* objects they guard, free what was created. The pointer keeps its object.
Fails(th) ==
    /\ work' = [work EXCEPT ![th] = Idle]
    /\ frames' = [frames EXCEPT ![th] = <<>>]
    /\ live' = live \ UNION {frames[th][i].own : i \in DOMAIN frames[th]}
    /\ UNCHANGED <<registry, file, held>>

\* The type of a tag, None where read_polymorphic throws.
TypeOf(name) ==
    IF find_name(name) # None THEN find_name(name)
    ELSE IF Fallback /\ name = NameOf[Static] THEN Static
    ELSE None

\* begin_object, the tag, the lookup and the creation.
Create(th) ==
    /\ At(th, "find")
    /\ LET t == TypeOf(work[th].doc.tags[Level(th) + 1])
           o == CHOOSE o \in Heap : o \notin live
       IN  \/ t \notin Constructible /\ Fails(th)
           \/ /\ t \in Constructible /\ Heap \ live # {}
              /\ live' = live \cup {o}
              /\ frames' = [frames EXCEPT ![th] = Append(@, [type |-> t, own |-> {o}, below |-> <<>>])]
              /\ Goes(th, "cast")
              /\ UNCHANGED <<registry, file, held>>

\* MUTANT: the instance lets go of its object before the cast is looked at.
Cast_Releases(th) ==
    /\ At(th, "cast")
    /\ \/ /\ Innermost(th).type \notin Declared
          /\ work' = [work EXCEPT ![th] = Idle] /\ frames' = [frames EXCEPT ![th] = <<>>]
          /\ UNCHANGED <<registry, file, held, live>>
       \/ Innermost(th).type \in Declared /\ Goes(th, "value") /\ UNCHANGED <<registry, file, frames, held, live>>
\* upcast: only through declared bases.
Cast(th) ==
    /\ At(th, "cast")
    /\ \/ Innermost(th).type \notin Declared /\ Fails(th)
       \/ Innermost(th).type \in Declared /\ Goes(th, "value") /\ UNCHANGED <<registry, file, frames, held, live>>

\* deserialize: the value is bad, or holds a further pointer, or is read.
Value(th) ==
    /\ At(th, "value")
    /\ \/ Fails(th)
       \/ /\ Goes(th, IF Level(th) < Len(work[th].doc.tags) THEN "find" ELSE "end")
          /\ UNCHANGED <<registry, file, frames, held, live>>

\* The end of a level: a further key throws; otherwise the guard hands its
\* object to the member that waits for it or, outermost, to the pointer, which
\* frees what it had.
EndObject(th) ==
    LET top == Innermost(th)
        kinds == <<top.type>> \o top.below
        outer == frames[th][Level(th) - 1]
        parent == [type |-> outer.type, own |-> outer.own \cup top.own, below |-> kinds]
    IN  /\ At(th, "end")
        /\ \/ Fails(th)
           \/ /\ Level(th) > 1
              /\ frames' = [frames EXCEPT ![th] = Append(SubSeq(@, 1, Level(th) - 2), parent)]
              /\ UNCHANGED <<registry, file, work, held, live>>
           \/ /\ Level(th) = 1
              /\ live' = live \ held[th].own
              /\ held' = [held EXCEPT ![th] = [doc |-> work[th].doc, kinds |-> kinds, own |-> top.own]]
              /\ frames' = [frames EXCEPT ![th] = <<>>]
              /\ work' = [work EXCEPT ![th] = Idle]
              /\ UNCHANGED <<registry, file>>

-----------------------------------------------------------------------------
Register == \E t \in Types : add(t) /\ UNCHANGED pointer

PointerNext ==
    \/ Register
    \/ \E th \in Callers :
           \/ StartWrite(th) \/ write_polymorphic(th)
           \/ StartRead(th) \/ ReadNull(th) \/ Create(th) \/ Cast(th) \/ Value(th) \/ EndObject(th)

PointerSpec == PointerInit /\ [][PointerNext]_pointerVars

-----------------------------------------------------------------------------
Sets(th) == {held[th].own} \cup {frames[th][i].own : i \in DOMAIN frames[th]}

\* Every object that a read created has exactly one owner, through every
\* exception: none is leaked, none is freed twice or kept by two pointers.
OneOwner ==
    /\ live = UNION UNION {Sets(th) : th \in Callers}
    /\ \A t1, t2 \in Callers : \A a \in Sets(t1), b \in Sets(t2) :
           (t1 # t2 \/ a # b) => a \cap b = {}

\* A pointer holds an object of the type its document names at every level,
\* and one that is a Static. It is the type that was written, except where the
\* fallback wrote the name of the static type and another type has registered
\* that name since.
TagsMeanTypes ==
    \A th \in Callers : held[th] # Empty =>
        LET h == held[th] IN
        /\ Len(h.kinds) = Len(h.doc.tags)
        /\ \A i \in DOMAIN h.kinds :
               /\ NameOf[h.kinds[i]] = h.doc.tags[i] /\ h.kinds[i] \in Declared
               /\ i \in DOMAIN h.doc.written =>
                      \/ h.kinds[i] = h.doc.written[i]
                      \/ h.doc.written[i] = Static /\ by_name_[NameOf[Static]] = h.kinds[i]

\* pointer.h and registry.h together, through every interleaving of reads,
\* writes and registrations.
PointersExact == RegistryTypeOK /\ IndexesAgree /\ OneOwner /\ TagsMeanTypes
==============================================================================
