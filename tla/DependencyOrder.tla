--------------------------- MODULE DependencyOrder ---------------------------
(***************************************************************************)
(* What the engine promises about the order in which the threads of a      *)
(* manifest come and go, whatever the manifest: a thread starts only when  *)
(* the threads of everything it imports run, and it stops only when no     *)
(* running thread imports it any more.  Every invocation that a component  *)
(* makes through an import therefore finds a thread that will receive it.  *)
(***************************************************************************)
CONSTANT Node        \* everything that runs in a thread: workloads, services

VARIABLES
  deps,              \* deps[n]: what n imports
  alive              \* the nodes whose thread runs

vars == <<deps, alive>>

Init ==
  /\ DOMAIN deps = Node
  /\ alive = {}

Start(n) ==
  /\ n \in Node \ alive
  /\ deps[n] \subseteq alive
  /\ alive' = alive \cup {n}
  /\ UNCHANGED deps

Stop(n) ==
  /\ n \in alive
  /\ \A m \in alive \ {n} : n \notin deps[m]
  /\ alive' = alive \ {n}
  /\ UNCHANGED deps

Next == \E n \in Node : Start(n) \/ Stop(n)

Spec == Init /\ [][Next]_vars
=============================================================================
