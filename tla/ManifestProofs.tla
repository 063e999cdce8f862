--------------------------- MODULE ManifestProofs ---------------------------
(***************************************************************************)
(* Proofs about ManifestResolve, for every number of workloads, every set  *)
(* of services and every manifest.                                         *)
(***************************************************************************)
EXTENDS ManifestResolve, TLAPS

Active == {"compile", "first", "worklist", "services"}

(***************************************************************************)
(* While apply_manifest runs, the threads are those of the workloads it    *)
(* has resolved and of the services it has instantiated.                   *)
(***************************************************************************)
ThreadsInv ==
  /\ outcome = "none" <=> phase \in Active
  /\ phase \in Active =>
       /\ scheduled = Resolved /\ threads = Resolved
       /\ services = svcThreads
  /\ threads \subseteq Resolved
  /\ \A s \in Service \ svcTodo : svcImports[s] \subseteq Workload
  /\ \A s \in svcThreads : s \notin svcTodo

(***************************************************************************)
(* The resolved workloads are closed under imports and can be ordered.     *)
(***************************************************************************)
ClosedInv ==
  /\ \A w \in Resolved : imports[w] \subseteq Resolved
  /\ WellFounded(Resolved)

Found(w) == Missing \notin imports[w] /\ w \notin imports[w]

Waiting(w) ==
  /\ pre[w] = "Unresolved"
  /\ Found(w)
  /\ pending[w] \subseteq imports[w]
  /\ imports[w] \ pending[w] \subseteq Resolved

(***************************************************************************)
(* What the lists of a pass say of the workloads on them.  The last        *)
(* conjunct on the worklist is what makes an unchanged list a cycle.       *)
(***************************************************************************)
ListsInv ==
  /\ phase = "compile" => Resolved = {} /\ deferred = {}
  /\ phase \in {"first", "worklist"} =>
       /\ Resolved \cup todo \cup deferred = Workload
       /\ todo \cap deferred = {}
       /\ \A w \in deferred : Waiting(w) /\ pending[w] # {}
  /\ phase = "first" => \A w \in todo : pre[w] = "Compiled"
  /\ phase = "worklist" =>
       /\ unresolved # {}
       /\ todo \cup deferred \subseteq unresolved
       /\ \A w \in todo : Waiting(w)
       /\ \A w \in deferred : pending[w] \subseteq unresolved
  /\ phase = "services" \/ outcome = "ok" => Resolved = Workload
  /\ outcome = "ok" => svcTodo = {}

IInv ==
  /\ TypeOK
  /\ ThreadsInv
  /\ ClosedInv
  /\ ListsInv
  /\ TargetAlive
  /\ Verdict
  /\ NoInternalError

-----------------------------------------------------------------------------
(***************************************************************************)
(* A workload that imports only ordered ones, and that none of them        *)
(* imports, comes last in their order.  This is the step by which every    *)
(* instantiation keeps ClosedInv.                                          *)
(***************************************************************************)
LEMMA OrderGrows ==
  ASSUME NEW R \in SUBSET Workload, NEW w \in Workload \ R,
         imports[w] \subseteq R,
         \A v \in R : imports[v] \subseteq R,
         WellFounded(R)
  PROVE  WellFounded(R \cup {w})
<1> SUFFICES ASSUME NEW T \in SUBSET (R \cup {w}), T # {}
             PROVE  \E v \in T : imports[v] \cap T = {}
  BY DEF WellFounded
<1>1. CASE T \ {w} = {}
  <2>1. T = {w}
    BY <1>1
  <2>2. imports[w] \cap T = {}
    BY <2>1
  <2> QED
    BY <2>1, <2>2
<1>2. CASE T \ {w} # {}
  <2>1. PICK v \in T \ {w} : imports[v] \cap (T \ {w}) = {}
    BY <1>2 DEF WellFounded
  <2>2. w \notin imports[v]
    BY <2>1
  <2> QED
    BY <2>1, <2>2
<1> QED
  BY <1>1, <1>2

(***************************************************************************)
(* A workload that imports itself, or a list of workloads each of which    *)
(* imports one on the list, cannot be ordered.                             *)
(***************************************************************************)
LEMMA CycleFound ==
  ASSUME NEW T \in SUBSET Workload, T # {},
         \A w \in T : imports[w] \cap T # {}
  PROVE  ~ WellFounded(Workload)
BY DEF WellFounded

(***************************************************************************)
(* Returning an error keeps the invariant, when the error is true of the   *)
(* manifest.                                                               *)
(***************************************************************************)
LEMMA BailKeeps ==
  ASSUME IInv, NEW e \in Errors, Bail(e), phase \in Active,
         e \notin {"corrupted", "unresolved_service"},
         e = "cycle" => ~ WellFounded(Workload),
         e = "not_found" =>
           \/ \E w \in Workload : Missing \in imports[w]
           \/ \E s \in Service : Missing \in svcImports[s]
  PROVE  IInv'
<1> USE DEF Bail, manifest, resolution
<1>1. TypeOK'
  BY DEF IInv, TypeOK, Errors, Phases
<1>2. ThreadsInv'
  BY DEF IInv, TypeOK, Errors, ThreadsInv, Active, Resolved
<1>3. ClosedInv'
  BY DEF IInv, ClosedInv, Resolved, WellFounded
<1>4. ListsInv'
  BY DEF IInv, ListsInv, Errors
<1>5. TargetAlive'
  BY DEF IInv, TargetAlive
<1>6. Verdict'
  BY DEF Verdict, WellFounded, Errors
<1>7. NoInternalError'
  BY DEF NoInternalError
<1> QED
  BY <1>1, <1>2, <1>3, <1>4, <1>5, <1>6, <1>7 DEF IInv

(***************************************************************************)
(* A visit that finds nothing wrong keeps the invariant, whether it starts *)
(* the workload or leaves it to the next pass.                             *)
(***************************************************************************)
LEMMA SettleKeeps ==
  ASSUME IInv, phase \in {"first", "worklist"},
         NEW w \in todo, NEW targets \in SUBSET imports[w],
         imports[w] \ targets \subseteq Resolved,
         pre[w] \in {"Compiled", "Unresolved"},
         Settle(w, targets)
  PROVE  IInv'
<1> USE DEF Settle, manifest
<1>w. w \in Workload /\ w \notin Resolved /\ targets \subseteq Target
  BY DEF IInv, TypeOK, Resolved
<1>f. Found(w)
  <2>1. "not_found" \notin ImportErrors(w, targets)
        /\ "cycle" \notin ImportErrors(w, targets)
    OBVIOUS
  <2>2. Missing \notin targets /\ w \notin targets
    BY <2>1 DEF ImportErrors
  <2>3. Missing \notin Resolved
    BY MissingAssumption DEF Resolved
  <2> QED
    BY <1>w, <2>2, <2>3 DEF Found
<1>g. targets \subseteq Workload
  BY <1>w, <1>f DEF Found, Target
<1>u. TypeOK /\ ThreadsInv /\ ClosedInv /\ ListsInv /\ TargetAlive
  BY DEF IInv
<1>v. /\ Verdict' /\ NoInternalError'
  BY DEF IInv, Verdict, NoInternalError, ThreadsInv, Active
<1>1. CASE Unlinked(targets) # {}
  <2> USE <1>1 DEF Defer
  <2>0. Defer(w, targets)
    OBVIOUS
  <2>r. Resolved' = Resolved
    BY <1>w, <1>u DEF Resolved, TypeOK
  <2>1. TypeOK'
    BY <1>w, <1>u DEF TypeOK, Unlinked
  <2>2. ThreadsInv'
    BY <1>u, <2>r DEF ThreadsInv
  <2>3. ClosedInv'
    BY <1>u, <2>r DEF ClosedInv, WellFounded
  <2>4. ListsInv'
    <3>1. Waiting(w)' /\ pending'[w] # {}
      BY <1>w, <1>f, <1>u, <2>r DEF Waiting, Found, TypeOK, Unlinked
    <3>2. \A v \in (todo \cup deferred) \ {w} :
            /\ pre'[v] = pre[v] /\ pending'[v] = pending[v]
            /\ Waiting(v) => Waiting(v)'
      BY <1>w, <1>u, <2>r DEF Waiting, Found, TypeOK
    <3>3. phase = "worklist" => pending'[w] \subseteq unresolved
      BY <1>w, <1>g, <1>u DEF ListsInv, TypeOK, Unlinked
    <3> QED
      BY <1>w, <1>u, <2>r, <3>1, <3>2, <3>3 DEF ListsInv, ThreadsInv, Active
  <2>5. TargetAlive'
    BY <1>u DEF TargetAlive
  <2> QED
    BY <1>v, <2>1, <2>2, <2>3, <2>4, <2>5 DEF IInv
<1>2. CASE Unlinked(targets) = {}
  <2> USE <1>2 DEF InstantiateWorkload
  <2>0. InstantiateWorkload(w)
    OBVIOUS
  <2>i. imports[w] \subseteq Resolved
    BY DEF Unlinked
  <2>r. Resolved' = Resolved \cup {w}
    BY <1>w, <1>u DEF Resolved, TypeOK
  <2>1. TypeOK'
    BY <1>w, <1>u DEF TypeOK
  <2>2. ThreadsInv'
    BY <1>u, <2>r DEF ThreadsInv, Active
  <2>3. ClosedInv'
    <3>1. WellFounded(Resolved \cup {w})
      <4> Resolved \in SUBSET Workload
        BY DEF Resolved
      <4> QED
        BY <1>w, <1>u, <2>i, OrderGrows DEF ClosedInv
    <3>2. WellFounded(Resolved)'
      BY <3>1, <2>r DEF WellFounded
    <3> QED
      BY <1>u, <2>i, <2>r, <3>2 DEF ClosedInv
  <2>4. ListsInv'
    <3>1. \A v \in (todo \cup deferred) \ {w} :
            /\ pre'[v] = pre[v] /\ pending'[v] = pending[v]
            /\ Waiting(v) => Waiting(v)'
      BY <1>w, <1>u, <2>r DEF Waiting, Found, TypeOK
    <3> QED
      BY <1>w, <1>u, <2>r, <3>1 DEF ListsInv, ThreadsInv, Active
  <2>5. TargetAlive'
    BY <1>u, <2>i DEF TargetAlive, ThreadsInv, Active
  <2> QED
    BY <1>v, <2>1, <2>2, <2>3, <2>4, <2>5 DEF IInv
<1> QED
  BY <1>1, <1>2

\* A visit of the worklist settles, defers or drops one workload.
LEMMA VisitKeeps ==
  ASSUME IInv, NEW w \in Workload, FirstVisit(w) \/ NextVisit(w)
  PROVE  IInv'
<1>u. TypeOK /\ ThreadsInv /\ ListsInv
  BY DEF IInv
<1>1. CASE FirstVisit(w)
  <2>1. phase = "first" /\ w \in todo /\ pre[w] = "Compiled"
    BY <1>1, <1>u DEF FirstVisit, Visited, ListsInv
  <2>2. CASE Settle(w, imports[w])
    BY <2>1, <2>2, SettleKeeps
  <2>3. ASSUME NEW e \in ImportErrors(w, imports[w]) \cup {"failed"}, Bail(e)
        PROVE  IInv'
    <3>1. e = "cycle" => ~ WellFounded(Workload)
      <4> SUFFICES ASSUME e = "cycle" PROVE ~ WellFounded(Workload)
        OBVIOUS
      <4>1. {w} \in SUBSET Workload /\ {w} # {}
            /\ \A v \in {w} : imports[v] \cap {w} # {}
        BY <2>3 DEF ImportErrors
      <4> QED
        BY <4>1, CycleFound
    <3>2. e = "not_found" => \E v \in Workload : Missing \in imports[v]
      BY <2>3 DEF ImportErrors
    <3>3. e \in {"not_found", "cycle", "failed"}
      BY <2>3 DEF ImportErrors
    <3> QED
      BY <2>1, <2>3, <3>1, <3>2, <3>3, BailKeeps DEF Errors, Active
  <2> QED
    BY <1>1, <2>1, <2>2, <2>3 DEF FirstVisit
<1>2. CASE NextVisit(w)
  <2>1. /\ phase = "worklist" /\ w \in todo /\ pre[w] = "Unresolved"
        /\ pending[w] \subseteq imports[w]
        /\ imports[w] \ pending[w] \subseteq Resolved
        /\ Found(w)
    BY <1>2, <1>u DEF NextVisit, Visited, ListsInv, Waiting
  <2>2. CASE Settle(w, pending[w])
    BY <2>1, <2>2, SettleKeeps
  <2>3. ImportErrors(w, pending[w]) = {}
    BY <2>1 DEF ImportErrors, Found
  <2>4. CASE Bail("failed")
    BY <2>1, <2>4, BailKeeps DEF Errors, Active
  <2> QED
    BY <1>2, <2>1, <2>2, <2>3, <2>4 DEF NextVisit
<1> QED
  BY <1>1, <1>2

\* The pass over the remaining imports starts, ends and is repeated.
LEMMA PassKeeps ==
  ASSUME IInv, EndFirstPass \/ EndPass
  PROVE  IInv'
<1>u. TypeOK /\ ThreadsInv /\ ClosedInv /\ ListsInv /\ TargetAlive
  BY DEF IInv
<1>1. phase \in {"first", "worklist"} /\ todo = {}
  BY DEF EndFirstPass, EndPass
<1>2. CASE BeginPass
  <2> USE <1>1, <1>2 DEF BeginPass, manifest, running
  <2>r. Resolved' = Resolved
    BY DEF Resolved
  <2>1. TypeOK'
    BY <1>u DEF TypeOK, Phases
  <2>2. ThreadsInv'
    BY <1>u, <2>r DEF ThreadsInv, Active
  <2>3. ClosedInv'
    BY <1>u, <2>r DEF ClosedInv, WellFounded
  <2>4. ListsInv'
    <3>1. \A w \in deferred : Waiting(w)'
      BY <1>u, <2>r DEF ListsInv, Waiting, Found
    <3> QED
      BY <1>u, <2>r, <3>1 DEF ListsInv, ThreadsInv, Active
  <2>5. TargetAlive'
    BY <1>u DEF TargetAlive
  <2>6. Verdict' /\ NoInternalError'
    BY <1>u DEF Verdict, NoInternalError, ThreadsInv, Active
  <2> QED
    BY <2>1, <2>2, <2>3, <2>4, <2>5, <2>6 DEF IInv
<1>3. CASE phase = "worklist" /\ deferred = unresolved /\ Bail("cycle")
  <2>1. unresolved # {} /\ unresolved \subseteq Workload
    BY <1>3, <1>u DEF ListsInv, TypeOK
  <2>2. \A w \in unresolved : imports[w] \cap unresolved # {}
    BY <1>3, <1>u DEF ListsInv, Waiting
  <2>3. ~ WellFounded(Workload)
    BY <2>1, <2>2, CycleFound
  <2> QED
    BY <1>3, <2>3, BailKeeps DEF Errors, Active
<1> QED
  BY <1>2, <1>3 DEF EndFirstPass, EndPass

\* A service is linked when no workload is unresolved any more.
LEMMA ServiceKeeps ==
  ASSUME IInv, NEW s \in Service, InstantiateService(s)
  PROVE  IInv'
<1>u. TypeOK /\ ThreadsInv /\ ClosedInv /\ ListsInv /\ TargetAlive
  BY DEF IInv
<1>1. phase = "services" /\ s \in svcTodo /\ Resolved = Workload
  BY <1>u DEF InstantiateService, ListsInv
<1>2. ASSUME NEW e \in {"failed"} \cup ImportErrors(s, svcImports[s]), Bail(e)
      PROVE  IInv'
  <2>1. s \notin svcImports[s]
    BY <1>u, MissingAssumption, ServiceAssumption, <1>2 DEF TypeOK, Target
  <2>2. e \in {"failed", "not_found"}
        /\ (e = "not_found" => Missing \in svcImports[s])
    BY <1>2, <2>1 DEF ImportErrors
  <2> QED
    BY <1>1, <1>2, <2>2, BailKeeps DEF Errors, Active
<1>3. CASE ImportErrors(s, svcImports[s]) = {}
  <2>1. svcImports[s] \subseteq Workload
    <3>1. "not_found" \notin ImportErrors(s, svcImports[s])
      BY <1>3
    <3>2. Missing \notin svcImports[s]
      BY <3>1 DEF ImportErrors
    <3> QED
      BY <1>u, <3>2 DEF TypeOK, Target
  <2>2. Unlinked(svcImports[s]) = {}
    BY <1>1, <2>1 DEF Unlinked
  <2>3. CASE svcThreads' = svcThreads \cup {s}
             /\ services' = services \cup {s} /\ svcTodo' = svcTodo \ {s}
             /\ UNCHANGED <<manifest, phase, resolution, scheduled, threads,
                            outcome>>
    <3> USE <1>1, <2>3 DEF manifest, resolution
    <3>r. Resolved' = Resolved
      BY DEF Resolved
    <3>1. TypeOK'
      BY <1>u DEF TypeOK
    <3>2. ThreadsInv'
      BY <1>u, <2>1, <3>r DEF ThreadsInv, Active, TypeOK
    <3>3. ClosedInv'
      BY <1>u, <3>r DEF ClosedInv, WellFounded
    <3>4. ListsInv'
      BY <1>u, <3>r DEF ListsInv, ThreadsInv, Active
    <3>5. TargetAlive'
      BY <1>u, <2>1 DEF TargetAlive, ThreadsInv, Active
    <3>6. Verdict' /\ NoInternalError'
      BY <1>u DEF Verdict, NoInternalError, ThreadsInv, Active
    <3> QED
      BY <3>1, <3>2, <3>3, <3>4, <3>5, <3>6 DEF IInv
  <2> QED
    BY <1>2, <1>3, <2>2, <2>3 DEF InstantiateService
<1> QED
  BY <1>2, <1>3 DEF InstantiateService

\* Compiling a component touches nothing that is in force.
LEMMA CompileKeeps ==
  ASSUME IInv, Compile
  PROVE  IInv'
<1>u. TypeOK /\ ThreadsInv /\ ClosedInv /\ ListsInv /\ TargetAlive
  BY DEF IInv
<1>1. phase = "compile" /\ Resolved = {} /\ deferred = {}
  BY <1>u DEF Compile, ListsInv
<1>2. CASE Bail("failed")
  BY <1>1, <1>2, BailKeeps DEF Errors, Active
<1>3. CASE /\ pre' = [w \in Workload |-> "Compiled"]
           /\ todo' = Workload
           /\ phase' = "first"
           /\ UNCHANGED <<manifest, pending, unresolved, deferred, svcTodo,
                          running, outcome>>
  <2> USE <1>3 DEF manifest, running
  <2>r. Resolved' = {}
    BY DEF Resolved
  <2>1. TypeOK'
    BY <1>u DEF TypeOK, Phases
  <2>2. ThreadsInv'
    BY <1>1, <1>u, <2>r DEF ThreadsInv, Active
  <2>3. ClosedInv'
    BY <2>r DEF ClosedInv, WellFounded
  <2>4. ListsInv'
    BY <1>1, <1>u, <2>r DEF ListsInv, ThreadsInv, Active
  <2>5. TargetAlive'
    BY <1>u DEF TargetAlive
  <2>6. Verdict' /\ NoInternalError'
    BY <1>1, <1>u DEF Verdict, NoInternalError, ThreadsInv, Active
  <2> QED
    BY <2>1, <2>2, <2>3, <2>4, <2>5, <2>6 DEF IInv
<1> QED
  BY <1>2, <1>3 DEF Compile

\* The new manifest takes over, and the old threads are released.
LEMMA CommitKeeps ==
  ASSUME IInv, Commit \/ Retire
  PROVE  IInv'
<1>u. TypeOK /\ ThreadsInv /\ ClosedInv /\ ListsInv /\ TargetAlive /\ Verdict
  BY DEF IInv
<1> USE DEF Commit, Retire, manifest, resolution, running
<1>r. Resolved' = Resolved
  BY DEF Resolved
<1>1. TypeOK'
  BY <1>u DEF TypeOK, Phases
<1>2. ThreadsInv'
  BY <1>u, <1>r DEF ThreadsInv, Active
<1>3. ClosedInv'
  BY <1>u, <1>r DEF ClosedInv, WellFounded
<1>4. ListsInv'
  BY <1>u, <1>r DEF ListsInv, ThreadsInv, Active
<1>5. TargetAlive'
  BY <1>u DEF TargetAlive
<1>6. NoInternalError'
  BY DEF IInv, NoInternalError
<1>7. Verdict'
  <2>1. CASE Retire
    BY <1>u, <2>1 DEF Verdict, WellFounded
  <2>2. CASE Commit
    <3>1. Resolved = Workload
      BY <1>u, <2>2 DEF ListsInv
    <3>2. WellFounded(Workload) /\ \A w \in Workload : imports[w] \subseteq Workload
      BY <1>u, <3>1 DEF ClosedInv
    <3>3. \A s \in Service : svcImports[s] \subseteq Workload
      BY <1>u, <2>2 DEF ThreadsInv
    <3> QED
      BY <2>2, <3>2, <3>3, MissingAssumption DEF Verdict, WellFounded
  <2> QED
    BY <2>1, <2>2
<1> QED
  BY <1>1, <1>2, <1>3, <1>4, <1>5, <1>6, <1>7 DEF IInv

\* A thread exits only when nobody can call it.
LEMMA ExitKeeps ==
  ASSUME IInv, Exit
  PROVE  IInv'
<1>u. /\ TypeOK /\ ThreadsInv /\ ClosedInv /\ ListsInv /\ TargetAlive
      /\ Verdict /\ NoInternalError
  BY DEF IInv
<1> USE DEF Exit, WorkloadExit, ServiceExit, manifest, resolution
<1>r. Resolved' = Resolved
  BY DEF Resolved
<1>1. TypeOK'
  BY <1>u DEF TypeOK
<1>2. ThreadsInv'
  BY <1>u, <1>r DEF ThreadsInv
<1>3. ClosedInv'
  BY <1>u, <1>r DEF ClosedInv, WellFounded
<1>4. ListsInv'
  BY <1>u, <1>r DEF ListsInv, Waiting, Found
<1>5. TargetAlive'
  BY <1>u DEF TargetAlive, Importers, SvcImporters
<1>6. Verdict' /\ NoInternalError'
  BY <1>u DEF Verdict, NoInternalError, WellFounded
<1> QED
  BY <1>1, <1>2, <1>3, <1>4, <1>5, <1>6 DEF IInv

\* The invariant holds before the first manifest.
LEMMA InitIInv == Init => IInv
<1> SUFFICES ASSUME Init PROVE IInv
  OBVIOUS
<1> USE DEF Init
<1>r. Resolved = {}
  BY DEF Resolved
<1>1. TypeOK
  BY DEF TypeOK, Phases
<1>2. ThreadsInv
  BY <1>r DEF ThreadsInv, Active
<1>3. ClosedInv
  BY <1>r DEF ClosedInv, WellFounded
<1>4. ListsInv
  BY <1>r DEF ListsInv
<1>5. TargetAlive /\ Verdict /\ NoInternalError
  BY DEF TargetAlive, Verdict, NoInternalError
<1> QED
  BY <1>1, <1>2, <1>3, <1>4, <1>5 DEF IInv

\* It is a state predicate: a step that changes nothing keeps it.
LEMMA StutterKeeps ==
  ASSUME IInv, UNCHANGED vars
  PROVE  IInv'
<1> USE DEF vars
<1>r. Resolved' = Resolved
  BY DEF Resolved
<1>1. TypeOK'
  BY DEF IInv, TypeOK
<1>2. ThreadsInv'
  BY <1>r DEF IInv, ThreadsInv
<1>3. ClosedInv'
  BY <1>r DEF IInv, ClosedInv, WellFounded
<1>4. ListsInv'
  BY <1>r DEF IInv, ListsInv, Waiting, Found
<1>5. TargetAlive' /\ Verdict' /\ NoInternalError'
  BY DEF IInv, TargetAlive, Verdict, NoInternalError, WellFounded
<1> QED
  BY <1>1, <1>2, <1>3, <1>4, <1>5 DEF IInv

\* Every step keeps the invariant.
LEMMA NextIInv == IInv /\ [Next]_vars => IInv'
<1> SUFFICES ASSUME IInv, [Next]_vars PROVE IInv'
  OBVIOUS
<1>1. CASE Compile
  BY <1>1, CompileKeeps
<1>2. CASE \E w \in Workload : FirstVisit(w) \/ NextVisit(w)
  BY <1>2, VisitKeeps
<1>3. CASE EndFirstPass \/ EndPass
  BY <1>3, PassKeeps
<1>4. CASE \E s \in Service : InstantiateService(s)
  BY <1>4, ServiceKeeps
<1>5. CASE Commit \/ Retire
  BY <1>5, CommitKeeps
<1>6. CASE Exit
  BY <1>6, ExitKeeps
<1>7. CASE UNCHANGED vars
  BY <1>7, StutterKeeps
<1> QED
  BY <1>1, <1>2, <1>3, <1>4, <1>5, <1>6, <1>7 DEF Next, Apply

\* The invariant holds in every reachable state.
LEMMA AlwaysIInv == Spec => []IInv
BY InitIInv, NextIInv, PTL DEF Spec

-----------------------------------------------------------------------------
(***************************************************************************)
(* The state of apply_manifest and of the threads it starts keeps its type *)
(* for every manifest.                                                     *)
(***************************************************************************)
THEOREM TypeCorrect == Spec => []TypeOK
<1>1. IInv => TypeOK
  BY DEF IInv
<1> QED
  BY <1>1, AlwaysIInv, PTL

(***************************************************************************)
(* A manifest is accepted only if its imports can be resolved in some      *)
(* order, and refused as cyclic or as incomplete only if it is.            *)
(***************************************************************************)
THEOREM VerdictCorrect == Spec => []Verdict
<1>1. IInv => Verdict
  BY DEF IInv
<1> QED
  BY <1>1, AlwaysIInv, PTL

(***************************************************************************)
(* The bail!("corrupted ...") branches and the "contains unresolved        *)
(* imports" check of apply_manifest are unreachable.                       *)
(***************************************************************************)
THEOREM InternalChecksHold == Spec => []NoInternalError
<1>1. IInv => NoInternalError
  BY DEF IInv
<1> QED
  BY <1>1, AlwaysIInv, PTL

(***************************************************************************)
(* An import never meets a closed invocation channel.                      *)
(***************************************************************************)
THEOREM TargetsAlive == Spec => []TargetAlive
<1>1. IInv => TargetAlive
  BY DEF IInv
<1> QED
  BY <1>1, AlwaysIInv, PTL

-----------------------------------------------------------------------------
(***************************************************************************)
(* The steps of apply_manifest as seen through the threads alone: none     *)
(* starts twice, and no step moves two of them.                            *)
(***************************************************************************)
LEMMA ThreadSteps ==
  ASSUME IInv, Next
  PROVE  /\ UNCHANGED manifest
         /\ \/ UNCHANGED <<threads, svcThreads>>
            \/ \E w \in Workload \ threads :
                 threads' = threads \cup {w} /\ UNCHANGED svcThreads
            \/ \E s \in Service \ svcThreads :
                 svcThreads' = svcThreads \cup {s} /\ UNCHANGED threads
            \/ \E w \in Workload : WorkloadExit(w)
            \/ \E s \in Service : ServiceExit(s)
<1>u. TypeOK /\ ThreadsInv
  BY DEF IInv
<1>b. ASSUME NEW e, Bail(e)
      PROVE  UNCHANGED <<manifest, threads, svcThreads>>
  BY <1>b DEF Bail
<1>s. ASSUME NEW w \in todo, NEW targets, phase \in {"first", "worklist"},
             pre[w] \in {"Compiled", "Unresolved"}, Settle(w, targets)
      PROVE  /\ UNCHANGED manifest
             /\ \/ UNCHANGED <<threads, svcThreads>>
                \/ \E v \in Workload \ threads :
                     threads' = threads \cup {v} /\ UNCHANGED svcThreads
  <2>1. w \in Workload \ threads
    BY <1>s, <1>u DEF TypeOK, ThreadsInv, Active, Resolved
  <2> QED
    BY <1>s, <2>1 DEF Settle, Defer, InstantiateWorkload
<1>1. CASE Compile
  BY <1>1, <1>b DEF Compile, running
<1>2. ASSUME NEW w \in Workload, FirstVisit(w) \/ NextVisit(w)
      PROVE  /\ UNCHANGED manifest
             /\ \/ UNCHANGED <<threads, svcThreads>>
                \/ \E v \in Workload \ threads :
                     threads' = threads \cup {v} /\ UNCHANGED svcThreads
  BY <1>2, <1>b, <1>s DEF FirstVisit, NextVisit, Visited
<1>3. CASE EndFirstPass \/ EndPass
  BY <1>3, <1>b DEF EndFirstPass, EndPass, BeginPass, running
<1>4. ASSUME NEW s \in Service, InstantiateService(s)
      PROVE  /\ UNCHANGED manifest
             /\ \/ UNCHANGED <<threads, svcThreads>>
                \/ \E r \in Service \ svcThreads :
                     svcThreads' = svcThreads \cup {r} /\ UNCHANGED threads
  <2>1. s \notin svcThreads
    BY <1>4, <1>u DEF InstantiateService, ThreadsInv
  <2> QED
    BY <1>4, <1>b, <2>1 DEF InstantiateService
<1>5. CASE Commit \/ Retire
  BY <1>5 DEF Commit, Retire, running
<1>6. CASE Exit
  BY <1>6 DEF Exit, WorkloadExit, ServiceExit
<1> QED
  BY <1>1, <1>2, <1>3, <1>4, <1>5, <1>6 DEF Next, Apply

\* Every step is a step of the abstract order, or changes nothing of it.
LEMMA OrderStep ==
  ASSUME IInv, IInv', [Next]_vars
  PROVE  [Order!Next]_(Order!vars)
<1> DEFINE Deps == [n \in Workload \cup Service |->
                      IF n \in Workload THEN imports[n] ELSE svcImports[n]]
           Alive == threads \cup svcThreads
<1>u. TypeOK /\ TargetAlive /\ TypeOK' /\ TargetAlive' /\ ThreadsInv'
      /\ ClosedInv'
  BY DEF IInv
<1>v. threads \subseteq Workload /\ svcThreads \subseteq Service
  BY <1>u DEF TypeOK
<1>0. CASE UNCHANGED vars
  BY <1>0 DEF vars, Order!vars
<1>d. ASSUME UNCHANGED manifest
      PROVE  UNCHANGED Deps
  BY <1>d DEF manifest
<1>1. CASE UNCHANGED manifest /\ UNCHANGED <<threads, svcThreads>>
  BY <1>1, <1>d DEF Order!vars
<1>2. ASSUME UNCHANGED manifest, NEW w \in Workload \ threads,
             threads' = threads \cup {w}, UNCHANGED svcThreads
      PROVE  Order!Next
  <2>1. imports[w] \subseteq threads
    <3>1. imports[w] \subseteq threads \cup {w}
      BY <1>2, <1>u DEF TargetAlive, manifest
    <3>2. {w} \in SUBSET Resolved'
      BY <1>2, <1>u DEF ThreadsInv
    <3>3. w \notin imports[w]
      BY <1>2, <1>u, <3>2 DEF ClosedInv, WellFounded, manifest
    <3> QED
      BY <3>1, <3>3
  <2>2. w \in (Workload \cup Service) \ Alive /\ Deps[w] \subseteq Alive
    BY <1>2, <1>v, <2>1, ServiceAssumption
  <2>3. Alive' = Alive \cup {w} /\ Deps' = Deps
    BY <1>2, <1>d
  <2>4. Order!Start(w)
    BY <2>2, <2>3 DEF Order!Start
  <2> QED
    BY <2>4 DEF Order!Next
<1>3. ASSUME UNCHANGED manifest, NEW s \in Service \ svcThreads,
             svcThreads' = svcThreads \cup {s}, UNCHANGED threads
      PROVE  Order!Next
  <2>1. svcImports[s] \subseteq threads
    BY <1>3, <1>u DEF TargetAlive, manifest
  <2>2. s \in (Workload \cup Service) \ Alive /\ Deps[s] \subseteq Alive
    BY <1>3, <1>v, <2>1, ServiceAssumption
  <2>3. Alive' = Alive \cup {s} /\ Deps' = Deps
    BY <1>3, <1>d
  <2>4. Order!Start(s)
    BY <2>2, <2>3 DEF Order!Start
  <2> QED
    BY <2>4 DEF Order!Next
<1>4. ASSUME UNCHANGED manifest, NEW w \in Workload, WorkloadExit(w)
      PROVE  Order!Next
  <2>1. w \in threads /\ w \notin svcThreads
    BY <1>4, <1>v, ServiceAssumption DEF WorkloadExit
  <2>2. \A m \in Alive \ {w} : w \notin Deps[m]
    BY <1>4, <1>v, ServiceAssumption DEF WorkloadExit, Importers, SvcImporters
  <2>3. Alive' = Alive \ {w} /\ Deps' = Deps
    BY <1>4, <1>d, <2>1 DEF WorkloadExit
  <2>4. Order!Stop(w)
    BY <2>1, <2>2, <2>3 DEF Order!Stop
  <2> QED
    BY <2>4 DEF Order!Next
<1>5. ASSUME UNCHANGED manifest, NEW s \in Service, ServiceExit(s)
      PROVE  Order!Next
  <2>1. s \in svcThreads /\ s \notin threads
    BY <1>5, <1>v, ServiceAssumption DEF ServiceExit
  <2>2. \A m \in Alive \ {s} : s \notin Deps[m]
    <3>1. \A m \in threads : s \notin imports[m]
      BY <1>u, <1>v, ServiceAssumption DEF TargetAlive
    <3>2. \A m \in svcThreads : s \notin svcImports[m]
      BY <1>u, <1>v, ServiceAssumption DEF TargetAlive
    <3> QED
      BY <1>v, <3>1, <3>2, ServiceAssumption
  <2>3. Alive' = Alive \ {s} /\ Deps' = Deps
    BY <1>5, <1>d, <2>1 DEF ServiceExit
  <2>4. Order!Stop(s)
    BY <2>1, <2>2, <2>3 DEF Order!Stop
  <2> QED
    BY <2>4 DEF Order!Next
<1> QED
  BY <1>0, <1>1, <1>2, <1>3, <1>4, <1>5, ThreadSteps

(***************************************************************************)
(* Whatever the manifest, its threads come and go in the abstract order:   *)
(* a thread starts after, and stops before, everything it imports.         *)
(***************************************************************************)
THEOREM ImplementsOrder == Spec => OrderSpec
<1>1. Init => Order!Init
  BY DEF Init, Order!Init
<1>2. IInv /\ IInv' /\ [Next]_vars => [Order!Next]_(Order!vars)
  BY OrderStep
<1>3. Spec => Order!Spec
  BY <1>1, <1>2, AlwaysIInv, PTL DEF Spec, Order!Spec
<1> QED
  BY <1>3 DEF OrderSpec
=============================================================================
