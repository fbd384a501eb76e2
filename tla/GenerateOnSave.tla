--------------------------- MODULE GenerateOnSave ---------------------------
(***************************************************************************)
(* What generate-on-save promises, whatever becomes of tasks, processes    *)
(* and tokens: a request supersedes the one before it of the same project, *)
(* generations run one at a time, every request is ended once, and what    *)
(* they changed is shown once, when no request is left standing            *)
(* (vs/src/Reflgen.VisualStudio/GenerationRunner.cs:16-33).                *)
(* GenerationRunner is shown to implement it.                              *)
(***************************************************************************)
EXTENDS Naturals

CONSTANT Projects

VARIABLES
  issued,   \* number of requests so far
  open,     \* requests that are not ended
  latest,   \* latest[p]: the request of p that stands, 0 if none
  running,  \* requests whose generation runs: one at most
  due,      \* generated code changed and is not shown yet
  shown,    \* what IntelliSense was shown last
  session   \* a solution is open

promised == <<issued, open, latest, running, due, shown, session>>

PromiseInit ==
  /\ issued = 0 /\ open = {} /\ running = {}
  /\ latest = [p \in Projects |-> 0]
  /\ due = FALSE /\ session = FALSE
  /\ shown \in [Projects -> Nat]

Request(p) ==
  /\ issued' = issued + 1
  /\ open' = open \cup {issued + 1}
  /\ latest' = [latest EXCEPT ![p] = issued + 1]
  /\ UNCHANGED <<running, due, shown, session>>

Run(r) ==
  /\ r \in open /\ running = {}
  /\ running' = {r}
  /\ UNCHANGED <<issued, open, latest, due, shown, session>>

\* By itself, by the deadline or because a newer request came.
Stop ==
  /\ running # {} /\ running' = {}
  /\ UNCHANGED <<issued, open, latest, due, shown, session>>

\* Somebody is still there to show it.
Change ==
  /\ open # {} /\ due' = TRUE
  /\ UNCHANGED <<issued, open, latest, running, shown, session>>

\* Only the request that stands is taken away; the last one shows the changes.
End(r) ==
  /\ r \in open \ running
  /\ open' = open \ {r}
  /\ latest' = [p \in Projects |-> IF latest[p] = r THEN 0 ELSE latest[p]]
  /\ IF due /\ \A p \in Projects : latest'[p] = 0
       THEN due' = FALSE /\ shown' \in [Projects -> Nat]
       ELSE UNCHANGED <<due, shown>>
  /\ UNCHANGED <<issued, running, session>>

OpenSolution ==
  /\ ~session /\ session' = TRUE
  /\ shown' \in [Projects -> Nat]
  /\ UNCHANGED <<issued, open, latest, running, due>>

CloseSolution ==
  /\ session /\ session' = FALSE
  /\ UNCHANGED <<issued, open, latest, running, due, shown>>

PromiseNext ==
  \/ \E p \in Projects : Request(p)
  \/ \E r \in open : Run(r) \/ End(r)
  \/ Stop \/ Change \/ OpenSolution \/ CloseSolution

Promise == PromiseInit /\ [][PromiseNext]_promised
=============================================================================
