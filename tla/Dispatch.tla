------------------------------ MODULE Dispatch ------------------------------
(***************************************************************************)
(* Engine::handle_workload and handle_workload_import                      *)
(* (crates/wasmlet/src/engine/mod.rs): the threads that serve the          *)
(* workloads of one manifest, the permits and pooled instances they share, *)
(* the calls that a guest makes into another workload through an import,   *)
(* and the exit of a thread whose invocation channel has been closed.      *)
(*                                                                         *)
(* Each workload has a thread with one loop.  The loop takes an invocation *)
(* from the channel, waits for a permit of the workload, then for a permit *)
(* of the engine, takes an instance from its pool or makes a new store,    *)
(* and spawns a task on the thread's executor that runs the guest.         *)
(*                                                                         *)
(* A call through an import hands the callee's store over to the caller,   *)
(* which lowers its arguments into it, sends it back to be run, receives   *)
(* it again to lift the results, and finally gives it back:                *)
(*                                                                         *)
(*   sending - queued - permit - engine - spawned - offered - running      *)
(*     - returned - returning - done                                       *)
(*                                                                         *)
(* An HTTP invocation skips the stages in which the caller has the store.  *)
(***************************************************************************)
EXTENDS Integers, Sequences, FiniteSetsExt

CONSTANTS
  Workload,      \* the workloads of the manifest
  Imports,       \* Imports[w]: the workloads that w imports
  Limit,         \* Limit[w]: max_instances of w, the capacity of its channel
  PoolSize,      \* PoolSize[w]: capacity of its pool of idle instances
  MaxInstances,  \* permits of the engine and slots of wasmtime's allocator
  Call,          \* identities of invocations; bounds how many are made
  Host           \* the caller of an HTTP invocation

\* A manifest without workloads has nothing to dispatch.
ASSUME WorkloadAssumption == IsFiniteSet(Workload) /\ Workload # {}
ASSUME LimitAssumption ==
  /\ MaxInstances \in Nat \ {0}
  /\ Limit \in [Workload -> 1 .. MaxInstances]
  /\ PoolSize \in [Workload -> Nat]
  /\ \A w \in Workload : PoolSize[w] <= Limit[w]
ASSUME ImportsAssumption ==
  /\ Imports \in [Workload -> SUBSET Workload]
  /\ \A S \in SUBSET Workload : S # {} => \E w \in S : Imports[w] \cap S = {}
ASSUME HostAssumption == Host \notin Call

VARIABLES
  stage,         \* how far each call has come
  target,        \* the workload it is for
  parent,        \* the call whose guest made it, or Host
  store,         \* the instance that serves it
  pool,          \* pool[w]: the idle instances of w, oldest first
  queue,         \* queue[w]: the invocation channel of w
  waiting,       \* the queue of the engine's semaphore
  reply,         \* what became of the call
  scheduled,     \* the workloads whose sender the engine still holds
  threads        \* the workloads whose thread runs

vars == <<stage, target, parent, store, pool, queue, waiting, reply,
          scheduled, threads>>

Stages == {"idle", "sending", "queued", "permit", "engine", "spawned",
           "offered", "running", "returned", "returning", "done"}
Stores == {"none", "new", "sound", "failed", "trapped"}
Replies == {"none", "ok", "error", "refused", "dropped", "panicked"}

TypeOK ==
  /\ stage \in [Call -> Stages]
  /\ target \in [Call -> Workload]
  /\ parent \in [Call -> Call \cup {Host}]
  /\ store \in [Call -> Stores]
  /\ pool \in [Workload -> Seq({"sound", "trapped"})]
  /\ \A w \in Workload : Len(pool[w]) <= PoolSize[w]
  /\ queue \in [Workload -> Seq(Call)]
  /\ \A w \in Workload : Len(queue[w]) <= Limit[w]
  /\ waiting \in Seq(Call)
  /\ reply \in [Call -> Replies]
  /\ scheduled \in SUBSET Workload
  /\ threads \in SUBSET Workload

Init ==
  /\ stage = [c \in Call |-> "idle"]
  /\ target = [c \in Call |-> CHOOSE w \in Workload : TRUE]
  /\ parent = [c \in Call |-> Host]
  /\ store = [c \in Call |-> "none"]
  /\ pool = [w \in Workload |-> <<>>]
  /\ queue = [w \in Workload |-> <<>>]
  /\ waiting = <<>>
  /\ reply = [c \in Call |-> "none"]
  /\ scheduled = Workload
  /\ threads = Workload

-----------------------------------------------------------------------------
Of(w, stages) == {c \in Call : target[c] = w /\ stage[c] \in stages}

Tasks == {"spawned", "offered", "running", "returned", "returning"}

\* Mutant: the permit comes back with the store, before it is pooled.
EnginePermitsShort == {c \in Call : stage[c] \in Tasks \ {"returning"}}

(***************************************************************************)
(* A permit is owned by the task, and released when the task ends, however *)
(* it ends.  While the loop waits for the engine it owns the other one.    *)
(***************************************************************************)
WorkloadPermits(w) == Of(w, Tasks \cup {"engine"})
EnginePermits == {c \in Call : stage[c] \in Tasks}

(***************************************************************************)
(* The loop of w holds an invocation and is blocked on a semaphore.        *)
(***************************************************************************)
Blocked(w) == Of(w, {"permit", "engine"}) # {}

(***************************************************************************)
(* The call that the guest of c is waiting for.                            *)
(***************************************************************************)
Awaited(c) ==
  {d \in Call : parent[d] = c /\ stage[d] \notin {"idle", "returning", "done"}}

(***************************************************************************)
(* The caller still holds the other end of the call's channels.            *)
(***************************************************************************)
CallerWaits(c) == parent[c] # Host /\ stage[parent[c]] = "running"

Instances == {"sound", "trapped"}
LiveInstances ==
  Cardinality({c \in Call : store[c] \in Instances})
    + SumFunctionOnSet([w \in Workload |-> Len(pool[w])], Workload)

\* Mutant: the pool is unbounded.
GiveBackAlways(w, instance) == [pool EXCEPT ![w] = Append(@, instance)]

(***************************************************************************)
(* try_send into the pool: a full pool, or none, drops the instance.       *)
(***************************************************************************)
GiveBack(w, instance) ==
  IF Len(pool[w]) < PoolSize[w]
  THEN [pool EXCEPT ![w] = Append(@, instance)]
  ELSE pool

(***************************************************************************)
(* The task of c ends.  A caller that gets an error traps: its instance    *)
(* can only fail from then on.                                             *)
(***************************************************************************)
End(c, answer) ==
  /\ stage' = [stage EXCEPT ![c] = "done"]
  /\ reply' = [reply EXCEPT ![c] = answer]
  /\ store' = [d \in Call |->
                 IF d = c THEN "none"
                 ELSE IF d = parent[c] /\ CallerWaits(c) /\ answer # "ok"
                      THEN "trapped" ELSE store[d]]

-----------------------------------------------------------------------------
(***************************************************************************)
(* Engine::invoke: try_send, which never waits.  The host gets "workload   *)
(* queue full" or "workload not found" as its answer.                      *)
(***************************************************************************)
Invoke(c, w) ==
  /\ stage[c] = "idle"
  /\ target' = [target EXCEPT ![c] = w]
  /\ IF w \in scheduled /\ Len(queue[w]) < Limit[w]
     THEN /\ stage' = [stage EXCEPT ![c] = "queued"]
          /\ queue' = [queue EXCEPT ![w] = Append(@, c)]
          /\ UNCHANGED reply
     ELSE /\ stage' = [stage EXCEPT ![c] = "done"]
          /\ reply' = [reply EXCEPT ![c] = "refused"]
          /\ UNCHANGED queue
  /\ UNCHANGED <<parent, store, pool, waiting, scheduled, threads>>

(***************************************************************************)
(* The guest of p calls an import; send waits while the channel is full.   *)
(***************************************************************************)
CallImport(p, c, w) ==
  /\ stage[p] = "running" /\ store[p] = "sound" /\ Awaited(p) = {}
  /\ stage[c] = "idle"
  /\ w \in Imports[target[p]]
  /\ stage' = [stage EXCEPT ![c] = "sending"]
  /\ target' = [target EXCEPT ![c] = w]
  /\ parent' = [parent EXCEPT ![c] = p]
  /\ UNCHANGED <<store, pool, queue, waiting, reply, scheduled, threads>>

SendImport(c) ==
  /\ stage[c] = "sending"
  /\ Len(queue[target[c]]) < Limit[target[c]]
  /\ stage' = [stage EXCEPT ![c] = "queued"]
  /\ queue' = [queue EXCEPT ![target[c]] = Append(@, c)]
  /\ UNCHANGED <<target, parent, store, pool, waiting, reply, scheduled,
                 threads>>

-----------------------------------------------------------------------------
(***************************************************************************)
(* The loop of w.                                                          *)
(***************************************************************************)
Receive(w) ==
  /\ w \in threads
  /\ ~ Blocked(w) /\ queue[w] # <<>>
  /\ stage' = [stage EXCEPT ![Head(queue[w])] = "permit"]
  /\ queue' = [queue EXCEPT ![w] = Tail(@)]
  /\ UNCHANGED <<target, parent, store, pool, waiting, reply, scheduled,
                 threads>>

AcquireWorkload(c) ==
  /\ stage[c] = "permit"
  /\ Cardinality(WorkloadPermits(target[c])) < Limit[target[c]]
  /\ stage' = [stage EXCEPT ![c] = "engine"]
  /\ waiting' = Append(waiting, c)
  /\ UNCHANGED <<target, parent, store, pool, queue, reply, scheduled,
                 threads>>

(***************************************************************************)
(* The engine's semaphore is fair: its permits go to the waiters in the    *)
(* order in which they came.  The same step takes the instance and spawns  *)
(* the task, as the loop does without awaiting anything.                   *)
(***************************************************************************)
AcquireEngine(c) ==
  /\ waiting # <<>> /\ c = Head(waiting)
  /\ Cardinality(EnginePermits) < MaxInstances
  /\ waiting' = Tail(waiting)
  /\ stage' = [stage EXCEPT ![c] = "spawned"]
  /\ IF pool[target[c]] # <<>>
     THEN /\ store' = [store EXCEPT ![c] = Head(pool[target[c]])]
          /\ pool' = [pool EXCEPT ![target[c]] = Tail(@)]
     ELSE /\ store' = [store EXCEPT ![c] = "new"]
          /\ UNCHANGED pool
  /\ UNCHANGED <<target, parent, queue, reply, scheduled, threads>>

-----------------------------------------------------------------------------
(***************************************************************************)
(* The task of c: instantiate_async fails when wasmtime's pooling          *)
(* allocator has no slot left, and may fail for reasons of the component.  *)
(***************************************************************************)
Exhausted == LiveInstances >= MaxInstances

Instantiated(c) ==
  IF store[c] # "new" THEN {store[c]}
  ELSE IF Exhausted THEN {"failed"} ELSE {"sound", "failed"}

Instantiate(c) ==
  /\ stage[c] = "spawned"
  /\ \E instance \in Instantiated(c) :
       \/ /\ parent[c] = Host /\ instance = "failed"
          /\ End(c, "error")
          /\ UNCHANGED pool
       \/ /\ \/ parent[c] = Host /\ instance # "failed"
             \/ CallerWaits(c)
          /\ stage' = [stage EXCEPT ![c] = IF parent[c] = Host THEN "running"
                                           ELSE "offered"]
          /\ store' = [store EXCEPT ![c] = instance]
          /\ UNCHANGED <<pool, reply>>
       \/ /\ parent[c] # Host /\ ~ CallerWaits(c)
          /\ End(c, "dropped")
          /\ pool' = IF instance = "failed" THEN pool
                     ELSE GiveBack(target[c], instance)
  /\ UNCHANGED <<target, parent, queue, waiting, scheduled, threads>>

(***************************************************************************)
(* The caller lowers its arguments into the offered store and sends it     *)
(* back to be run; if it cannot, the store is dropped.  An instantiation   *)
(* that failed is reported only now.                                       *)
(***************************************************************************)
Lower(c) ==
  /\ stage[c] = "offered" /\ CallerWaits(c)
  /\ \/ End(c, "error")
     \/ /\ store[c] # "failed"
        /\ stage' = [stage EXCEPT ![c] = "running"]
        /\ UNCHANGED <<store, reply>>
  /\ UNCHANGED <<target, parent, pool, queue, waiting, scheduled, threads>>

(***************************************************************************)
(* The guest returns.                                                      *)
(***************************************************************************)
GuestOk(c) ==
  /\ stage[c] = "running" /\ store[c] = "sound" /\ Awaited(c) = {}
  /\ \/ /\ parent[c] = Host
        /\ End(c, "ok")
        /\ pool' = GiveBack(target[c], "sound")
     \/ /\ CallerWaits(c)
        /\ stage' = [stage EXCEPT ![c] = "returned"]
        /\ UNCHANGED <<store, reply, pool>>
     \/ /\ parent[c] # Host /\ ~ CallerWaits(c)
        /\ End(c, "dropped")
        /\ UNCHANGED pool
  /\ UNCHANGED <<target, parent, queue, waiting, scheduled, threads>>

\* Mutant: an HTTP task that fails returns without sending its result.
GuestErrorSilent(c) ==
  /\ stage[c] = "running" /\ Awaited(c) = {}
  /\ End(c, IF parent[c] = Host THEN "dropped" ELSE "error")
  /\ IF parent[c] = Host THEN UNCHANGED pool
     ELSE \E instance \in {store[c], "trapped"} :
            pool' = GiveBack(target[c], instance)
  /\ UNCHANGED <<target, parent, queue, waiting, scheduled, threads>>

(***************************************************************************)
(* The guest traps, or the call fails before it is entered.  After HTTP    *)
(* the instance is dropped; after a call through an import it goes back to *)
(* the pool, trapped or not.                                               *)
(***************************************************************************)
GuestError(c) ==
  /\ stage[c] = "running" /\ Awaited(c) = {}
  /\ End(c, "error")
  /\ IF parent[c] = Host THEN UNCHANGED pool
     ELSE \E instance \in {store[c], "trapped"} :
            pool' = GiveBack(target[c], instance)
  /\ UNCHANGED <<target, parent, queue, waiting, scheduled, threads>>

(***************************************************************************)
(* The guest calls a host function that panics, one that is todo! of       *)
(* wasi/http/host/types.rs.  The panic unwinds the task: its store, its    *)
(* permits and the sender of its answer are dropped, while the thread and  *)
(* its other tasks go on.  The caller finds "sender channel closed", or    *)
(* "workload thread exited".                                               *)
(***************************************************************************)
GuestPanics(c) ==
  /\ stage[c] = "running" /\ Awaited(c) = {}
  /\ End(c, "panicked")
  /\ UNCHANGED <<target, parent, pool, queue, waiting, scheduled, threads>>

\* Mutant: a caller that cannot lift the results keeps the store.
LiftKeeps(c) ==
  /\ stage[c] = "returned" /\ CallerWaits(c)
  /\ store[parent[c]] # "trapped"
  /\ \/ /\ store' = [store EXCEPT ![parent[c]] = "trapped"]
        /\ UNCHANGED <<stage, reply>>
     \/ /\ stage' = [stage EXCEPT ![c] = "returning"]
        /\ UNCHANGED <<store, reply>>
  /\ UNCHANGED <<target, parent, pool, queue, waiting, scheduled, threads>>

(***************************************************************************)
(* The caller lifts the results.  Having done so it gives the store back   *)
(* and goes on, before the task of c has pooled it and ended.              *)
(***************************************************************************)
Lift(c) ==
  /\ stage[c] = "returned" /\ CallerWaits(c)
  /\ \/ End(c, "error")
     \/ /\ stage' = [stage EXCEPT ![c] = "returning"]
        /\ UNCHANGED <<store, reply>>
  /\ UNCHANGED <<target, parent, pool, queue, waiting, scheduled, threads>>

Return(c) ==
  /\ stage[c] = "returning"
  /\ End(c, "ok")
  /\ pool' = GiveBack(target[c], store[c])
  /\ UNCHANGED <<target, parent, queue, waiting, scheduled, threads>>

(***************************************************************************)
(* The caller is gone while it had the store: the task finds its channel   *)
(* closed and ends.                                                        *)
(***************************************************************************)
Abandoned(c) ==
  /\ stage[c] \in {"offered", "returned"} /\ ~ CallerWaits(c)
  /\ End(c, "dropped")
  /\ UNCHANGED <<target, parent, pool, queue, waiting, scheduled, threads>>

-----------------------------------------------------------------------------
(***************************************************************************)
(* The engine drops its senders when the manifest is replaced.             *)
(***************************************************************************)
Retire ==
  /\ scheduled # {}
  /\ scheduled' = {}
  /\ UNCHANGED <<stage, target, parent, store, pool, queue, waiting, reply,
                 threads>>

\* Mutant: a linked import holds no sender of the workload it calls.
ImportersWeak(w) == {}
\* Mutant: a workload holds a sender of its own channel.
ImportersAndSelf(w) == {v \in threads : v = w \/ w \in Imports[v]}

Importers(w) == {v \in threads : w \in Imports[v]}

(***************************************************************************)
(* recv returns None: no sender is left and the channel is empty.  The     *)
(* loop returns, and dropping its tasks aborts every call still in flight, *)
(* with what they have borrowed from others.                               *)
(***************************************************************************)
WorkloadExit(w) ==
  /\ w \in threads \ scheduled
  /\ Importers(w) = {}
  /\ queue[w] = <<>> /\ ~ Blocked(w)
  /\ threads' = threads \ {w}
  /\ pool' = [pool EXCEPT ![w] = <<>>]
  /\ LET aborted == Of(w, Tasks)
         unsent == {c \in Call : stage[c] = "sending" /\ parent[c] \in aborted}
         borrowed == {c \in Call : /\ stage[c] \in {"offered", "returned"}
                                  /\ parent[c] \in aborted}
     IN /\ stage' = [c \in Call |-> IF c \in aborted \cup unsent
                                    THEN "done" ELSE stage[c]]
        /\ reply' = [c \in Call |-> IF c \in aborted \cup unsent
                                    THEN "dropped" ELSE reply[c]]
        /\ store' = [c \in Call |-> IF c \in aborted \cup borrowed
                                    THEN "none" ELSE store[c]]
  /\ UNCHANGED <<target, parent, queue, waiting, scheduled>>

-----------------------------------------------------------------------------
Step(c) ==
  \/ SendImport(c)
  \/ AcquireWorkload(c)
  \/ AcquireEngine(c)
  \/ Instantiate(c)
  \/ Lower(c)
  \/ Lift(c)
  \/ Return(c)
  \/ Abandoned(c)

Guest(c) == GuestOk(c) \/ GuestError(c) \/ GuestPanics(c)

Loop(w) == Receive(w) \/ WorkloadExit(w)

Environment ==
  \/ \E c \in Call, w \in Workload : Invoke(c, w)
  \/ \E p, c \in Call, w \in Workload : CallImport(p, c, w)
  \/ Retire

Next ==
  \/ Environment
  \/ \E c \in Call : Step(c) \/ Guest(c)
  \/ \E w \in Workload : Loop(w)

(***************************************************************************)
(* Executors poll what is ready.  A guest returns, traps or panics in the  *)
(* end: its execution time is limited.  Nobody has to call, or to retire.  *)
(***************************************************************************)
Fairness ==
  /\ \A c \in Call : WF_vars(Step(c)) /\ WF_vars(Guest(c))
  /\ \A w \in Workload : WF_vars(Loop(w))

Spec == Init /\ [][Next]_vars /\ Fairness

-----------------------------------------------------------------------------
(***************************************************************************)
(* An answer is lost only for a cause.  A caller whose guest still runs    *)
(* finds its channel closed (handle_workload_import fails with "sender     *)
(* channel closed") only when the very guest it called panicked: never     *)
(* when the workload is retired, for a thread that is asked to exit        *)
(* outlives everyone that imports it.  And an HTTP invocation that was     *)
(* accepted finds its own closed ("workload thread exited") only when its  *)
(* guest panicked or the thread has exited, which needs the replacement of *)
(* the manifest; not when it failed, trapped or found no allocator slot.   *)
(***************************************************************************)
Lost == {"dropped", "panicked"}

AnswerLostForCause ==
  [][\A c \in Call :
       stage[c] # "done" /\ reply'[c] \in Lost
         => \/ GuestPanics(c)
            \/ parent[c] = Host /\ target[c] \notin threads' \cup scheduled
            \/ parent[c] # Host /\ ~ CallerWaits(c)']_vars

(***************************************************************************)
(* The instances of running tasks always fit the allocator: when a new     *)
(* store finds no slot although its task holds both permits, then idle     *)
(* instances, which hold none, have taken it.                              *)
(***************************************************************************)
ExhaustedByIdle ==
  \A c \in Call :
    stage[c] = "spawned" /\ store[c] = "new" /\ Exhausted
      => \E w \in Workload : pool[w] # <<>>

(***************************************************************************)
(* Everyone waits on everyone only in one way: every permit of the engine  *)
(* is held by a task whose guest waits for a call into another workload,   *)
(* and none of those calls has a permit.                                   *)
(***************************************************************************)
NestedStall ==
  /\ Cardinality(EnginePermits) = MaxInstances
  /\ \A c \in EnginePermits : Imports[target[c]] # {} /\ Awaited(c) # {}

(***************************************************************************)
(* Unless nested calls take every permit, every call that is made ends.    *)
(***************************************************************************)
EveryCallEnds ==
  \A c \in Call : stage[c] # "idle" ~> stage[c] = "done" \/ NestedStall

(***************************************************************************)
(* A retired manifest frees everything it holds: its threads exit and no   *)
(* task, permit or instance is left.                                       *)
(***************************************************************************)
RetirementFrees ==
  scheduled = {} ~>
    (threads = {} /\ EnginePermits = {} /\ LiveInstances = 0) \/ NestedStall
=============================================================================
