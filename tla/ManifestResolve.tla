--------------------------- MODULE ManifestResolve ---------------------------
(***************************************************************************)
(* Engine::apply_manifest (crates/wasmlet/src/engine/mod.rs): how the      *)
(* workloads and services of one manifest are resolved against each other  *)
(* and started, and how their threads stop again when the application      *)
(* fails or when a later manifest replaces this one.                       *)
(*                                                                         *)
(* A workload that imports another is linked to it through a clone of the  *)
(* sender of the target's invocation channel.  Such a sender exists only   *)
(* once the target has been instantiated, so apply_manifest makes a first  *)
(* pass over the workloads, and further passes over those left unresolved, *)
(* until none is left or a pass resolves nothing.  A workload thread runs  *)
(* until every sender of its channel is dropped; the senders are in the    *)
(* engine's map and in the linkers of the threads that import it.          *)
(*                                                                         *)
(* The names of the manifest are sorted (BTreeMap), and a workload is      *)
(* known by its position.  The vectors of positions that the code keeps    *)
(* are always increasing, so they are sets here and are visited from the   *)
(* least element up.                                                       *)
(***************************************************************************)
EXTENDS Naturals

CONSTANTS
  N,             \* the number of workloads of the manifest
  Service,       \* the services of the manifest
  Missing        \* an import target that the manifest does not define

Workload == 1 .. N
Target == Workload \cup {Missing}

ASSUME NAssumption == N \in Nat
ASSUME MissingAssumption == Missing \notin Workload \cup Service
ASSUME ServiceAssumption == Service \cap Workload = {}

VARIABLES
  imports,       \* the workload imports of each workload: never changes
  svcImports,    \* the workload imports of each service: never changes
  phase,         \* how far apply_manifest has come
  pre,           \* workload_pres
  pending,       \* the imports field of WorkloadPre::Unresolved
  unresolved,    \* the list the current pass visits
  todo,          \* the part of it that is still to be visited
  deferred,      \* the list the current pass leaves to the next
  svcTodo,       \* the services still to be instantiated
  scheduled,     \* the keys of next.workloads, later of state.workloads
  services,      \* the keys of next.services, later of state.services
  threads,       \* the workloads whose thread runs
  svcThreads,    \* the services whose thread runs
  outcome        \* what apply_manifest returned

manifest == <<imports, svcImports>>
worklist == <<unresolved, todo, deferred>>
resolution == <<pre, pending, unresolved, todo, deferred>>
running == <<scheduled, services, threads, svcThreads>>
vars == <<imports, svcImports, phase, pre, pending, unresolved, todo,
          deferred, svcTodo, scheduled, services, threads, svcThreads,
          outcome>>

Phases == {"compile", "first", "worklist", "services", "done", "retired"}
Errors == {"not_found", "cycle", "corrupted", "unresolved_service", "failed"}

TypeOK ==
  /\ imports \in [Workload -> SUBSET Target]
  /\ svcImports \in [Service -> SUBSET Target]
  /\ phase \in Phases
  /\ pre \in [Workload -> {"Taken", "Compiled", "Unresolved", "Resolved"}]
  /\ pending \in [Workload -> SUBSET Target]
  /\ unresolved \in SUBSET Workload
  /\ todo \in SUBSET Workload
  /\ deferred \in SUBSET Workload
  /\ svcTodo \in SUBSET Service
  /\ scheduled \in SUBSET Workload
  /\ services \in SUBSET Service
  /\ threads \in SUBSET Workload
  /\ svcThreads \in SUBSET Service
  /\ outcome \in {"none", "ok"} \cup Errors

Init ==
  /\ imports \in [Workload -> SUBSET Target]
  /\ svcImports \in [Service -> SUBSET Target]
  /\ phase = "compile"
  /\ pre = [w \in Workload |-> "Taken"]
  /\ pending = [w \in Workload |-> {}]
  /\ unresolved = {}
  /\ todo = {}
  /\ deferred = {}
  /\ svcTodo = Service
  /\ scheduled = {}
  /\ services = {}
  /\ threads = {}
  /\ svcThreads = {}
  /\ outcome = "none"

-----------------------------------------------------------------------------
(***************************************************************************)
(* Leaving apply_manifest with an error drops next and workload_pres, and  *)
(* with them every sender but those in the linkers of started threads.     *)
(***************************************************************************)
Bail(error) ==
  /\ outcome' = error
  /\ phase' = "done"
  /\ scheduled' = {}
  /\ services' = {}
  /\ UNCHANGED <<manifest, resolution, svcTodo, threads, svcThreads>>

(***************************************************************************)
(* Plugins are loaded and every workload is compiled before any starts.    *)
(***************************************************************************)
Compile ==
  /\ phase = "compile"
  /\ \/ Bail("failed")
     \/ /\ pre' = [w \in Workload |-> "Compiled"]
        /\ todo' = Workload
        /\ phase' = "first"
        /\ UNCHANGED <<manifest, pending, unresolved, deferred, svcTodo,
                       running, outcome>>

Visited(w) == w \in todo /\ \A v \in todo : w <= v

Resolved == {w \in Workload : pre[w] = "Resolved"}

\* A slip: takes a target that an earlier visit deferred for a started one.
UnlinkedIfCompiled(targets) ==
  {t \in targets \cap Workload : pre[t] = "Compiled"}

Unlinked(targets) == targets \ Resolved

(***************************************************************************)
(* The imports are visited in the order of their names, which says nothing *)
(* of their targets: of several that are wrong, any may be met first.  The *)
(* workload being visited has been taken from workload_pres.  A plugin     *)
(* that is not found, an export that does not fit, or an instantiation     *)
(* that does not succeed is "failed".                                      *)
(***************************************************************************)
ImportErrors(w, targets) ==
  {e \in {"not_found", "cycle"} :
     \/ e = "not_found" /\ Missing \in targets
     \/ e = "cycle" /\ w \in targets}

Defer(w, targets) ==
  /\ pre' = [pre EXCEPT ![w] = "Unresolved"]
  /\ pending' = [pending EXCEPT ![w] = Unlinked(targets)]
  /\ deferred' = deferred \cup {w}
  /\ UNCHANGED <<scheduled, threads>>

InstantiateWorkload(w) ==
  /\ pre' = [pre EXCEPT ![w] = "Resolved"]
  /\ scheduled' = scheduled \cup {w}
  /\ threads' = threads \cup {w}
  /\ UNCHANGED <<pending, deferred>>

Settle(w, targets) ==
  /\ ImportErrors(w, targets) = {}
  /\ IF Unlinked(targets) # {} THEN Defer(w, targets)
                               ELSE InstantiateWorkload(w)
  /\ todo' = todo \ {w}
  /\ UNCHANGED <<manifest, phase, unresolved, svcTodo, services, svcThreads,
                 outcome>>

FirstVisit(w) ==
  /\ phase = "first"
  /\ Visited(w)
  /\ \/ pre[w] # "Compiled" /\ Bail("corrupted")
     \/ /\ pre[w] = "Compiled"
        /\ \/ \E e \in ImportErrors(w, imports[w]) \cup {"failed"} : Bail(e)
           \/ Settle(w, imports[w])

NextVisit(w) ==
  /\ phase = "worklist"
  /\ Visited(w)
  /\ \/ pre[w] # "Unresolved" /\ Bail("corrupted")
     \/ /\ pre[w] = "Unresolved"
        /\ \/ pending[w] \cap Resolved # {} /\ Bail("failed")
           \/ \E e \in ImportErrors(w, pending[w]) : Bail(e)
           \/ Settle(w, pending[w])

\* A slip: the positions shift by one as the list is rebuilt.
BeginShiftedPass ==
  /\ unresolved' = {w + 1 : w \in deferred}
  /\ todo' = {w + 1 : w \in deferred}
  /\ deferred' = {}
  /\ phase' = IF deferred = {} THEN "services" ELSE "worklist"
  /\ UNCHANGED <<manifest, pre, pending, svcTodo, running, outcome>>

BeginPass ==
  /\ unresolved' = deferred
  /\ todo' = deferred
  /\ deferred' = {}
  /\ phase' = IF deferred = {} THEN "services" ELSE "worklist"
  /\ UNCHANGED <<manifest, pre, pending, svcTodo, running, outcome>>

\* A slip: the workloads that the first pass deferred are forgotten.
EndOnlyPass ==
  /\ phase = "first" /\ todo = {}
  /\ phase' = "services"
  /\ UNCHANGED <<manifest, resolution, svcTodo, running, outcome>>

EndFirstPass ==
  /\ phase = "first" /\ todo = {}
  /\ BeginPass

\* Two slips: any remainder is called a cycle; no remainder ever is.
EndPassEager ==
  /\ phase = "worklist" /\ todo = {}
  /\ IF deferred # {} THEN Bail("cycle") ELSE BeginPass

EndPassForever ==
  /\ phase = "worklist" /\ todo = {}
  /\ BeginPass

EndPass ==
  /\ phase = "worklist" /\ todo = {}
  /\ IF deferred = unresolved THEN Bail("cycle") ELSE BeginPass

(***************************************************************************)
(* A service is compiled, linked and started in one go: nothing is         *)
(* deferred, so every workload it imports has to be resolved by now.       *)
(***************************************************************************)
InstantiateService(s) ==
  /\ phase = "services"
  /\ s \in svcTodo
  /\ \/ \E e \in {"failed"} \cup ImportErrors(s, svcImports[s]) : Bail(e)
     \/ /\ ImportErrors(s, svcImports[s]) = {}
        /\ IF Unlinked(svcImports[s]) # {}
           THEN Bail("unresolved_service")
           ELSE /\ svcTodo' = svcTodo \ {s}
                /\ services' = services \cup {s}
                /\ svcThreads' = svcThreads \cup {s}
                /\ UNCHANGED <<manifest, phase, resolution, scheduled,
                               threads, outcome>>

(***************************************************************************)
(* The threads of the previous manifest are shut down and next becomes     *)
(* the state of the engine.                                                *)
(***************************************************************************)
Commit ==
  /\ phase = "services" /\ svcTodo = {}
  /\ phase' = "done"
  /\ outcome' = "ok"
  /\ UNCHANGED <<manifest, resolution, svcTodo, running>>

(***************************************************************************)
(* A later manifest has been applied: the shutdown channel changes and     *)
(* both maps are drained, before any thread is joined.                     *)
(***************************************************************************)
\* A slip: the senders in the engine's map outlive the join.
RetireUndrained ==
  /\ phase = "done" /\ outcome = "ok"
  /\ phase' = "retired"
  /\ services' = {}
  /\ UNCHANGED <<manifest, resolution, svcTodo, scheduled, threads,
                 svcThreads, outcome>>

Retire ==
  /\ phase = "done" /\ outcome = "ok"
  /\ phase' = "retired"
  /\ scheduled' = {}
  /\ services' = {}
  /\ UNCHANGED <<manifest, resolution, svcTodo, threads, svcThreads, outcome>>

(***************************************************************************)
(* The channel of w is closed: handle_workload returns.                    *)
(***************************************************************************)
\* Two slips: linkers that hold no sender of the channel they send on.
NoImporters(w) == {}
NoSvcImporters(w) == {}

Importers(w) == {v \in threads \ {w} : w \in imports[v]}
SvcImporters(w) == {s \in svcThreads : w \in svcImports[s]}

WorkloadExit(w) ==
  /\ w \in threads \ scheduled
  /\ Importers(w) = {} /\ SvcImporters(w) = {}
  /\ threads' = threads \ {w}
  /\ UNCHANGED <<manifest, phase, resolution, svcTodo, scheduled, services,
                 svcThreads, outcome>>

(***************************************************************************)
(* should_exit: the shutdown channel has changed or was dropped.           *)
(***************************************************************************)
ServiceExit(s) ==
  /\ s \in svcThreads \ services
  /\ svcThreads' = svcThreads \ {s}
  /\ UNCHANGED <<manifest, phase, resolution, svcTodo, scheduled, services,
                 threads, outcome>>

Apply ==
  \/ Compile
  \/ \E w \in Workload : FirstVisit(w) \/ NextVisit(w)
  \/ EndFirstPass
  \/ EndPass
  \/ \E s \in Service : InstantiateService(s)
  \/ Commit

Exit ==
  \/ \E w \in Workload : WorkloadExit(w)
  \/ \E s \in Service : ServiceExit(s)

Next == Apply \/ Retire \/ Exit

(***************************************************************************)
(* apply_manifest runs on the engine thread, which nothing else uses; a    *)
(* thread whose channel is closed, or whose guest traps at its next epoch, *)
(* gets to run.  Nobody has to apply a second manifest.                    *)
(***************************************************************************)
Spec == Init /\ [][Next]_vars /\ WF_vars(Apply) /\ WF_vars(Exit)

-----------------------------------------------------------------------------
(***************************************************************************)
(* Whether an order exists in which every workload starts after those it   *)
(* imports: every set of workloads has a member that imports none of them. *)
(***************************************************************************)
WellFounded(S) ==
  \A T \in SUBSET S : T # {} => \E w \in T : imports[w] \cap T = {}

(***************************************************************************)
(* The verdict is about the manifest alone, not about the order of its     *)
(* names: it is accepted only when every import has a target and the       *)
(* workloads can be ordered, and "cycle in workload resolution" is said    *)
(* only of a manifest whose workloads cannot be.                           *)
(***************************************************************************)
Verdict ==
  /\ outcome = "ok" =>
       /\ WellFounded(Workload)
       /\ \A w \in Workload : Missing \notin imports[w]
       /\ \A s \in Service : Missing \notin svcImports[s]
  /\ outcome = "cycle" => ~ WellFounded(Workload)
  /\ outcome = "not_found" =>
       \/ \E w \in Workload : Missing \in imports[w]
       \/ \E s \in Service : Missing \in svcImports[s]

(***************************************************************************)
(* The three internal checks of apply_manifest never fire: no pass visits  *)
(* a workload in another state than it expects, and no workload is left    *)
(* unresolved when the services are linked.                                *)
(***************************************************************************)
NoInternalError == outcome \notin {"corrupted", "unresolved_service"}

(***************************************************************************)
(* Whatever a running thread imports runs too, while the manifest is being *)
(* applied, when it fails half-way and its threads stop one by one, and    *)
(* when it is replaced: an import never meets a closed channel.            *)
(***************************************************************************)
TargetAlive ==
  /\ \A w \in threads : imports[w] \subseteq threads
  /\ \A s \in svcThreads : svcImports[s] \subseteq threads

(***************************************************************************)
(* The passes end, so that apply_manifest always returns; and a manifest   *)
(* that failed half-way, or was replaced, leaves no thread behind: the     *)
(* chain of importers unwinds and the engine's joins return.               *)
(***************************************************************************)
Unwinds ==
  /\ <>(outcome # "none")
  /\ (phase = "retired" \/ (phase = "done" /\ outcome # "ok"))
       ~> (threads = {} /\ svcThreads = {})

-----------------------------------------------------------------------------
(***************************************************************************)
(* Resolution and tear-down implement the abstract order of threads.       *)
(***************************************************************************)
Order == INSTANCE DependencyOrder
  WITH Node <- Workload \cup Service,
       deps <- [n \in Workload \cup Service |->
                  IF n \in Workload THEN imports[n] ELSE svcImports[n]],
       alive <- threads \cup svcThreads

OrderSpec == Order!Spec
=============================================================================
