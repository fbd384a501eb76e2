----------------------------- MODULE OwnedHandle -----------------------------
(***************************************************************************)
(* The F# side of a uniquely owned native object that interop.cpp          *)
(* generates: an Owned_ class over SafeHandle, with and transfer helpers   *)
(* that lock its gate, and the C thunks that destroy and consume the       *)
(* object. Threads nest the helpers, throw out of them and dispose the     *)
(* owners at any time. SafeHandle and the monitor are .NET's; their        *)
(* protocol is modelled from how the generated code uses them.             *)
(***************************************************************************)
EXTENDS Integers, Sequences

CONSTANTS Threads, Owners, MaxNest  \* helpers open at once in a thread

VARIABLES gate,    \* owner -> the thread inside and how often
          active,  \* owner -> Active
          safe,    \* owner -> SafeHandle: references, closed, disposed
          native,  \* owner -> "live", "deleted", "consumed"; "twice" must not happen
          stack    \* thread -> helpers entered: [op, owner, pc, acquired, slot]

ovars == <<gate, active, safe, native, stack>>

OInit ==
    /\ gate = [o \in Owners |-> [by |-> {}, depth |-> 0]]
    /\ active = [o \in Owners |-> FALSE]
    /\ safe = [o \in Owners |-> [refs |-> 1, closed |-> FALSE, disposed |-> FALSE]]
    /\ native = [o \in Owners |-> "live"]
    /\ stack = [t \in Threads |-> <<>>]

Idle(t) == stack[t] = <<>>
Top(t) == stack[t][Len(stack[t])]
At(t, pc) == ~Idle(t) /\ Top(t).pc = pc
\* User code runs: outside the helpers or in the callback of one.
InUserCode(t) == Idle(t) \/ At(t, "invoke")
Goto(t, frame) == stack' = [stack EXCEPT ![t][Len(stack[t])] = frame]

-----------------------------------------------------------------------------
(* SafeHandle                                                               *)

\* InternalRelease: the last reference closes the handle and calls
\* ReleaseHandle, unless the handle was closed before.
ReleaseRef(o, s) ==
    LET last == s.refs = 1 /\ ~s.closed IN
    /\ safe' = [safe EXCEPT ![o] = [s EXCEPT !.refs = @ - 1, !.closed = @ \/ last]]
    /\ native' = IF last THEN [native EXCEPT ![o] = IF @ = "live" THEN "deleted" ELSE "twice"] ELSE native

Dispose(t, o) ==
    /\ InUserCode(t) /\ ~safe[o].disposed
    /\ ReleaseRef(o, [safe[o] EXCEPT !.disposed = TRUE])
    /\ UNCHANGED <<gate, active, stack>>

-----------------------------------------------------------------------------
(* withOwned_ and transferOwned_                                            *)

Lock(t, op, o) ==
    /\ InUserCode(t) /\ Len(stack[t]) < MaxNest
    /\ gate[o].by \subseteq {t}
    /\ gate' = [gate EXCEPT ![o] = [by |-> {t}, depth |-> @.depth + 1]]
    /\ stack' = [stack EXCEPT ![t] = Append(@, [op |-> op, owner |-> o, pc |-> "locked", acquired |-> FALSE, slot |-> TRUE])]
    /\ UNCHANGED <<active, safe, native>>

Unlock(o) == gate' = [gate EXCEPT ![o] = [by |-> IF @.depth = 1 THEN {} ELSE @.by, depth |-> @.depth - 1]]
Pop(t) == stack' = [stack EXCEPT ![t] = SubSeq(@, 1, Len(@) - 1)]

\* "reentrant owned handle access" leaves Active to the frame that set it.
Enter(t) ==
    /\ At(t, "locked")
    /\ LET o == Top(t).owner IN
       IF active[o] THEN Unlock(o) /\ Pop(t) /\ UNCHANGED active
       ELSE /\ active' = [active EXCEPT ![o] = TRUE]
            /\ Goto(t, [Top(t) EXCEPT !.pc = "addref"]) /\ UNCHANGED gate
    /\ UNCHANGED <<safe, native>>

\* DangerousAddRef throws for a closed handle; the finally block runs.
AddRef(t) ==
    /\ At(t, "addref")
    /\ LET o == Top(t).owner IN
       IF safe[o].closed THEN Goto(t, [Top(t) EXCEPT !.pc = "leave"]) /\ UNCHANGED safe
       ELSE /\ safe' = [safe EXCEPT ![o].refs = @ + 1]
            /\ Goto(t, [Top(t) EXCEPT !.pc = "invoke", !.acquired = TRUE])
    /\ UNCHANGED <<gate, active, native>>

\* append_thunk of a consuming method, called with the slot: a null slot and
\* the receiver itself are refused; then the slot is cleared before the
\* method runs, whether that returns or throws.
Consume(t, receiver) ==
    /\ At(t, "invoke") /\ Top(t).op = "transfer"
    /\ Top(t).slot /\ receiver # Top(t).owner
    /\ Goto(t, [Top(t) EXCEPT !.slot = FALSE])
    /\ native' = [native EXCEPT ![Top(t).owner] = IF @ = "live" THEN "consumed" ELSE "twice"]
    /\ UNCHANGED <<gate, active, safe>>

\* MUTANT: a consumed slot does not invalidate the handle.
Invoked_Forgets(t) ==
    /\ At(t, "invoke") /\ Goto(t, [Top(t) EXCEPT !.pc = "release"])
    /\ UNCHANGED <<gate, active, safe, native>>
\* The callback returns or throws; transfer looks at the slot either way.
Invoked(t) ==
    /\ At(t, "invoke")
    /\ LET f == Top(t) IN
       /\ safe' = IF f.op = "transfer" /\ ~f.slot THEN [safe EXCEPT ![f.owner].closed = TRUE] ELSE safe
       /\ Goto(t, [f EXCEPT !.pc = "release"])
    /\ UNCHANGED <<gate, active, native>>

Release(t) ==
    /\ At(t, "release")
    /\ ReleaseRef(Top(t).owner, safe[Top(t).owner])
    /\ Goto(t, [Top(t) EXCEPT !.pc = "leave"])
    /\ UNCHANGED <<gate, active>>

Leave(t) ==
    /\ At(t, "leave")
    /\ active' = [active EXCEPT ![Top(t).owner] = FALSE]
    /\ Unlock(Top(t).owner) /\ Pop(t)
    /\ UNCHANGED <<safe, native>>

ONext ==
    \E t \in Threads :
        \/ \E o \in Owners : Dispose(t, o) \/ Consume(t, o) \/ \E op \in {"with", "transfer"} : Lock(t, op, o)
        \/ Enter(t) \/ AddRef(t) \/ Invoked(t) \/ Release(t) \/ Leave(t)

OSpec == OInit /\ [][ONext]_ovars

-----------------------------------------------------------------------------
\* Every native object ends once: destroyed by the last release of its owner
\* or consumed by native code, never both and never twice; while a helper has
\* handed its address out it is alive; and once nobody is inside, a disposed
\* owner has left no object behind and no gate closed (interop.cpp:1195).
OwnedOnce ==
    /\ \A o \in Owners : native[o] # "twice"
    /\ \A t \in Threads : \A k \in DOMAIN stack[t] :
           (stack[t][k].acquired /\ stack[t][k].pc = "invoke" /\ stack[t][k].slot) => native[stack[t][k].owner] = "live"
    /\ (\A t \in Threads : Idle(t)) =>
           \A o \in Owners : /\ gate[o].depth = 0 /\ ~active[o]
                             /\ safe[o].disposed => native[o] # "live"
=============================================================================
