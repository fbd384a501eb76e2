----------------------------- MODULE ValueViews -----------------------------
(***************************************************************************)
(* runtime/value_descriptor.h: views of values and the storage they keep.  *)
(* A view borrows the engine's own memory (block 0) or memory the library  *)
(* has allocated: a snapshot of a proxy element, a result that was         *)
(* returned by value, the materialized arguments of a call, the record of  *)
(* a bound call. Blocks of the library are released when the last          *)
(* shared_ptr to them goes; a block may point into other blocks and its    *)
(* destructor may read them.                                               *)
(*                                                                         *)
(* storage_ is a chain of pairs of shared_ptrs. It is written here as the  *)
(* sequence of its blocks in the order in which the chain releases them: a *)
(* pair destroys its second member first.                                  *)
(*                                                                         *)
(* The engine keeps its own objects alive while views exist, as            *)
(* docs/runtime-value-bindings.md asks of it.                              *)
(***************************************************************************)
EXTENDS Integers, Sequences, SequencesExt, FiniteSets

CONSTANTS Slots,     \* places where the caller keeps views
          MaxBlocks  \* bound: blocks the library allocates

ViewsAssumption == MaxBlocks \in Nat

Blocks == 1 .. MaxBlocks
Native == 0

VARIABLES views,  \* views[s]: <<>> or <<view>>
          alive,  \* blocks that are allocated
          refers, \* refers[b]: the blocks that b points into
          holds,  \* holds[b]: storage that b itself keeps, in releasing order
          used,   \* blocks allocated so far
          dying   \* storage that is being released, in order

vars == <<views, alive, refers, holds, used, dying>>

\* frozen is history: the root was readonly, or the way to this value led
\* through a readonly field or a key.
View == [block : Blocks \cup {Native}, writable : BOOLEAN, storage : Seq(Blocks), frozen : BOOLEAN]

TypeOK ==
    /\ views \in [Slots -> Seq(View)] /\ \A s \in Slots : Len(views[s]) <= 1
    /\ alive \subseteq 1 .. used /\ used \in 0 .. MaxBlocks
    /\ refers \in [Blocks -> SUBSET Blocks]
    /\ holds \in [Blocks -> Seq(Blocks)] /\ dying \in Seq(Blocks)

Init ==
    /\ views = [s \in Slots |-> <<>>]
    /\ alive = {} /\ used = 0 /\ dying = <<>>
    /\ refers = [b \in Blocks |-> {}]
    /\ holds = [b \in Blocks |-> <<>>]

\* retain_storage: what was kept before is released first.
retain_storage(view, storage) ==
    IF storage = <<>> \/ storage = view.storage THEN view
    ELSE [view EXCEPT !.storage = @ \o storage]

retain_parent(view, parent) ==
    retain_storage([view EXCEPT !.writable = @ /\ parent.writable], parent.storage)

-----------------------------------------------------------------------------
Held(s) == views[s] # <<>>
\* One call of the library that puts view v into the free slot d.
Give(d, v) ==
    /\ dying = <<>> /\ ~Held(d)
    /\ views' = [views EXCEPT ![d] = <<v>>]
NoBlock == UNCHANGED <<alive, refers, holds, used, dying>>

\* Allocates n blocks: the i-th points into into[i] and keeps keep[i].
Allocate(into, keep) ==
    LET fresh == used + 1 .. used + Len(into) IN
    /\ used + Len(into) <= MaxBlocks
    /\ used' = used + Len(into)
    /\ alive' = alive \cup fresh
    /\ refers' = [b \in Blocks |-> IF b \in fresh THEN into[b - used] \ {Native} ELSE refers[b]]
    /\ holds' = [b \in Blocks |-> IF b \in fresh THEN keep[b - used] ELSE holds[b]]
    /\ UNCHANGED dying

\* The memory that code working on block b can get at and return.
Reachable(b) == {b} \cup IF b = Native THEN {} ELSE refers[b]

New(block, writable, storage, frozen) ==
    [block |-> block, writable |-> writable, storage |-> storage, frozen |-> frozen]

\* value_descriptor::view of an object of the engine.
Root(d, writable) == Give(d, New(Native, writable, <<>>, ~writable)) /\ NoBlock

\* MUTANT: the readonly attribute is not looked at.
select_member_Plain(d, v, readonly) ==
    Give(d, New(v.block, v.writable, v.storage, v.frozen \/ readonly)) /\ NoBlock

select_member(d, v, readonly) ==
    Give(d, New(v.block, v.writable /\ ~readonly, v.storage, v.frozen \/ readonly)) /\ NoBlock

\* select_index, and dereference of what is not a pointer, where the child
\* is a native object: an element, a mapped value, the content of an
\* optional, a variant, a tuple. For a pointer the adapter decides whether
\* its target may be written (mutable_borrow).
select_index(d, v, consent) ==
    /\ \E b \in Reachable(v.block) :
          Give(d, retain_parent(New(b, v.writable /\ consent, <<>>, v.frozen), v))
    /\ NoBlock

\* select_index where the range yields proxies: the child is a copy.
select_snapshot(d, v) ==
    \E into \in SUBSET Reachable(v.block) :
        /\ Give(d, retain_parent(New(used + 1, FALSE, <<used + 1>>, v.frozen), v))
        /\ Allocate(<<into>>, <<<<>>>>)

select_key(d, v) ==
    \E b \in Reachable(v.block) :
        Give(d, retain_parent(New(b, FALSE, <<>>, TRUE), v)) /\ NoBlock

-----------------------------------------------------------------------------
\* borrow_result of a getter, and retain_parent as the documentation asks of
\* the caller. A readonly view has only const getters to call. A reference
\* may be written unless it is const; a by-value result only where it is an
\* owner wrapper that consents to it (retained_borrow).
borrow_result(d, v, constant, byValue, consent) ==
    /\ v.writable \/ constant
    /\ IF byValue
       THEN \E into \in SUBSET Reachable(v.block) :
                /\ Give(d, retain_parent(New(used + 1, v.writable /\ consent, <<used + 1>>, v.frozen), v))
                /\ Allocate(<<into>>, <<<<>>>>)
       ELSE /\ \E b \in Reachable(v.block) :
                  Give(d, retain_parent(New(b, v.writable /\ consent, <<>>, v.frozen), v))
            /\ NoBlock

\* The same with arguments: they live in a block of their own (used + 1),
\* which the result may point into or lie in.
borrow_result_with_arguments(d, v, byValue) ==
    LET args == used + 1 IN
    IF byValue
    THEN \E into \in SUBSET ({args} \cup Reachable(v.block)) :
             /\ Give(d, retain_parent(retain_storage(New(args + 1, FALSE, <<args + 1>>, v.frozen), <<args>>), v))
             /\ Allocate(<<{}, into>>, <<<<>>, <<>>>>)
    ELSE \E b \in {args} \cup Reachable(v.block) :
             /\ Give(d, retain_parent(retain_storage(New(b, FALSE, <<>>, v.frozen), <<args>>), v))
             /\ Allocate(<<{}>>, <<<<>>>>)

\* MUTANT: the outputs, which keep the record, are kept in it.
CallStorage_Outputs(call, receiver, bound) == bound.storage \o receiver.storage \o <<call>>
\* bound_call_storage: destroyed member by member, the slots with the bound
\* views before the receiver.
CallStorage(call, receiver, bound) == bound.storage \o receiver.storage

\* invoke_bound: the record of the call is a block (used + 1) that keeps the
\* receiver's and the bound argument's storage; the empty view stands for a
\* call without bound arguments. The result is a reference or a value;
\* arguments[] gives a view of a materialized argument instead.
NoView == New(Native, FALSE, <<>>, FALSE)
invoke_bound(d, receiver, bound, constant, result, arity, consent) ==
    LET call == used + 1
        near == {call} \cup Reachable(receiver.block) \cup Reachable(bound.block)
        keep == CallStorage(call, receiver, bound)
        writable == arity = 0 /\ receiver.writable /\ consent
        frozen == receiver.frozen \/ bound.frozen IN
    /\ receiver.writable \/ constant
    /\ arity = 0 => bound = NoView /\ result # "argument"
    /\ \/ /\ result = "value"
          /\ \E into \in SUBSET near :
                /\ Give(d, retain_storage(New(call + 1, writable, <<call + 1>>, frozen), <<call>>))
                /\ Allocate(<<{}, into>>, <<keep, <<>>>>)
       \/ /\ result = "reference"
          /\ \E b \in near :
                /\ Give(d, retain_storage(New(b, writable, <<>>, frozen), <<call>>))
                /\ Allocate(<<{}>>, <<keep>>)
       \/ /\ result = "argument"
          /\ Give(d, retain_storage(New(call, FALSE, <<>>, frozen), <<call>>))
          /\ Allocate(<<{}>>, <<keep>>)

-----------------------------------------------------------------------------
\* The caller lets go of a view.
Drop(s) ==
    /\ dying = <<>> /\ Held(s)
    /\ views' = [views EXCEPT ![s] = <<>>]
    /\ dying' = views[s][1].storage
    /\ UNCHANGED <<alive, refers, holds, used>>

\* shared_ptr: the block goes with the last reference to it, and lets go of
\* what it keeps before the next one of the chain.
Keeps(b) == \/ \E s \in Slots : Held(s) /\ b \in ToSet(views[s][1].storage)
            \/ \E c \in alive : b \in ToSet(holds[c])
Release ==
    /\ dying # <<>>
    /\ LET b == Head(dying)
           rest == Tail(dying) IN
       IF Keeps(b) \/ b \in ToSet(rest)
       THEN dying' = rest /\ UNCHANGED <<alive, refers, holds>>
       ELSE /\ alive' = alive \ {b}
            /\ dying' = holds[b] \o rest
            /\ refers' = [refers EXCEPT ![b] = {}]
            /\ holds' = [holds EXCEPT ![b] = <<>>]
    /\ UNCHANGED <<views, used>>

Next ==
    \/ \E d \in Slots : \E writable \in BOOLEAN : Root(d, writable)
    \/ \E s, d \in Slots : Held(s) /\ LET v == views[s][1] IN
          \/ \E flag \in BOOLEAN : select_member(d, v, flag) \/ select_index(d, v, flag)
          \/ select_snapshot(d, v) \/ select_key(d, v)
          \/ \E constant, byValue, consent \in BOOLEAN : borrow_result(d, v, constant, byValue, consent)
          \/ \E byValue \in BOOLEAN : borrow_result_with_arguments(d, v, byValue)
          \/ \E bound \in {NoView} \cup {views[a][1] : a \in {a \in Slots : Held(a)}},
                constant, consent \in BOOLEAN, result \in {"value", "reference", "argument"}, arity \in 0 .. 1 :
                invoke_bound(d, v, bound, constant, result, arity, consent)
    \/ \E s \in Slots : Drop(s)
    \/ Release

Spec == Init /\ [][Next]_vars

-----------------------------------------------------------------------------
\* What a view shows is there for as long as the view is kept, whichever
\* other views the caller drops first.
ViewsValid == \A s \in Slots : Held(s) => views[s][1].block \in alive \cup {Native}

\* A block is destroyed before the blocks it points into, so that its
\* destructor can still read them: results before arguments, snapshots
\* before what they were taken from.
BackingOutlives == \A b \in alive : refers[b] \subseteq alive

\* When the caller has dropped its views nothing stays allocated.
NothingLeaks == (\A s \in Slots : ~Held(s)) /\ dying = <<>> => alive = {}

\* What retain_storage and retain_parent are for, all together: the storage
\* of the library outlives what is shown of it and ends with it.
StorageInv == TypeOK /\ ViewsValid /\ BackingOutlives /\ NothingLeaks

\* No chain of members, elements, targets and call results leads from a
\* readonly root, a readonly field or a key to a view that can be written.
ReadonlyStays == \A s \in Slots : Held(s) /\ views[s][1].frozen => ~views[s][1].writable
=============================================================================
