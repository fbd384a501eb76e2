------------------------------- MODULE Registry -------------------------------
(***************************************************************************)
(* include/reflgen/runtime/registry.h: descriptors of types by name, by id *)
(* and by dynamic type. Every operation holds the mutex for its whole      *)
(* length, so each is one step; what a caller does with an answer is not   *)
(* under the lock. An index from ids or from dynamic types to descriptors  *)
(* is a set of types here: both keys belong to one type.                   *)
(***************************************************************************)
EXTENDS Naturals, Sequences, FiniteSets

CONSTANTS Types,    \* polymorphic reflected types
          NameOf,   \* the name of each type's schema
          None

VARIABLES by_name_, by_id_, by_rtti_,
          types_,   \* in the order of registration
          failed    \* an allocation of add has failed

registry == <<by_name_, by_id_, by_rtti_, types_, failed>>

Names == {NameOf[t] : t \in Types}

RegistryTypeOK ==
    /\ by_name_ \in [Names -> Types \cup {None}]
    /\ by_id_ \subseteq Types /\ by_rtti_ \subseteq Types
    /\ types_ \in Seq(Types) /\ failed \in BOOLEAN

RegistryInit ==
    /\ by_name_ = [n \in Names |-> None]
    /\ by_id_ = {} /\ by_rtti_ = {} /\ types_ = <<>> /\ failed = FALSE

find_name(n) == IF n \in Names THEN by_name_[n] ELSE None
find_rtti(t) == IF t \in by_rtti_ THEN t ELSE None

\* add: nothing to do for a type that is there, and an exception, with nothing
\* changed, for a name that another type has. An allocation that fails leaves
\* the indexes that were filled before it (its k-th of four).
add(t) ==
    /\ find_name(NameOf[t]) = None
    /\ \E k \in 1 .. 5 :
           /\ by_name_' = IF k > 1 THEN [by_name_ EXCEPT ![NameOf[t]] = t] ELSE by_name_
           /\ by_id_' = IF k > 2 THEN by_id_ \cup {t} ELSE by_id_
           /\ by_rtti_' = IF k > 3 THEN by_rtti_ \cup {t} ELSE by_rtti_
           /\ types_' = IF k > 4 THEN Append(types_, t) ELSE types_
           /\ failed' = (failed \/ k < 5)

\* Every index names types under their own keys; an earlier index holds what a
\* later one does, and while no allocation failed they hold the same types.
IndexesAgree ==
    LET listed == {types_[i] : i \in DOMAIN types_}
        named == {t \in Types : by_name_[NameOf[t]] = t}
    IN  /\ \A n \in Names : by_name_[n] = None \/ NameOf[by_name_[n]] = n
        /\ listed \subseteq by_rtti_ /\ by_rtti_ \subseteq by_id_ /\ by_id_ \subseteq named
        /\ ~failed => listed = named
        /\ Cardinality(listed) = Len(types_)
=============================================================================
