------------------------------- MODULE Engine -------------------------------
(***************************************************************************)
(* The engine thread (Engine::handle_commands and apply_manifest,          *)
(* crates/wasmlet/src/engine/mod.rs) between its clients, which send       *)
(* commands on a bounded channel (crates/wasmlet/src/host.rs and           *)
(* src/main.rs), and the threads it starts for each manifest.              *)
(*                                                                         *)
(* A manifest has one workload, which stands for all of its workloads, and *)
(* a number of services; Manifests says how many.  What the resolution of  *)
(* imports adds is in ManifestResolve, what happens inside a workload      *)
(* thread is in Dispatch; here an invocation is queued, runs with a permit *)
(* of the engine in a store of its workload, and responds.  The workload   *)
(* is one that imports nothing of another: what calls between workloads    *)
(* hold up is in Dispatch.  A manifest is known by the application that    *)
(* installs it, a store by the request that it was made for.               *)
(***************************************************************************)
EXTENDS Integers, SequencesExt, FiniteSetsExt

CONSTANTS
  Request,       \* HTTP requests to the proxy
  Apply,         \* applications of a manifest
  ServiceCount,  \* ServiceCount[a]: how many services the manifest of a has
  MaxInstances,  \* permits of the engine, and of the host
  CmdCapacity,   \* capacity of the command channel
  None           \* no application, and no store

ASSUME EngineAssumption ==
  /\ IsFiniteSet(Apply)
  /\ ServiceCount \in [Apply -> Nat]
  /\ MaxInstances \in Nat \ {0}
  /\ CmdCapacity \in Nat \ {0}
  /\ Request \cap Apply = {}
  /\ None \notin Request \cup Apply

Cmd == Request \cup Apply

VARIABLES
  main,          \* "up", or "down" once ^C has dropped host and senders
  client,        \* what the sender of each command knows of it
  chan,          \* the command channel
  buf,           \* what blocking_recv_many has taken from it
  engine,        \* where the engine thread is
  current,       \* the manifest in force, if any
  workload,      \* the workload thread of each manifest
  permits,       \* the permits in the Service values of each manifest
  services,      \* how many service threads of each manifest run
  stop,          \* the manifests whose shutdown channel has changed
  graceOver,     \* the manifests whose shutdown deadline has passed
  place,         \* where each accepted invocation is
  servedBy,      \* the manifest it was handed to
  instance,      \* the store that it runs or ran in
  idle           \* the stores in the pools

vars == <<main, client, chan, buf, engine, current, workload, permits,
          services, stop, graceOver, place, servedBy, instance, idle>>
threadVars == <<workload, permits, services, stop, graceOver>>
requestVars == <<place, servedBy, instance, idle>>

ClientStates == {"idle", "waiting", "accepted", "answered", "failed", "gone"}
EngineStates == {"idle", "loop", "apply", "join", "failed", "exited", "gone"}

\* Mutant: a task that ends forgets its permit.
FreePermitsLeak ==
  MaxInstances - Cardinality({r \in Request : place[r] \in {"running", "done"}})
               - SumFunctionOnSet(permits, Apply)

\* A permit is held by every running invocation and in every Service.
FreePermits ==
  MaxInstances - Cardinality({r \in Request : place[r] = "running"})
               - SumFunctionOnSet(permits, Apply)

TypeOK ==
  /\ main \in {"up", "down"}
  /\ client \in [Cmd -> ClientStates]
  /\ chan \in Seq(Cmd) /\ Len(chan) <= CmdCapacity
  /\ buf \in Seq(Cmd)
  /\ engine \in EngineStates
  /\ current \in Apply \cup {None}
  /\ workload \in [Apply -> {"none", "open", "closed", "exited"}]
  /\ permits \in [Apply -> 0 .. MaxInstances]
  /\ services \in [Apply -> 0 .. MaxInstances]
  /\ stop \in SUBSET Apply
  /\ graceOver \in SUBSET stop
  /\ place \in [Request -> {"none", "queue", "running", "done"}]
  /\ servedBy \in [Request -> Apply \cup {None}]
  /\ instance \in [Request -> Request \cup {None}]
  /\ idle \in SUBSET Request
  /\ FreePermits \in Nat

Init ==
  /\ main = "up"
  /\ client = [c \in Cmd |-> "idle"]
  /\ chan = <<>>
  /\ buf = <<>>
  /\ engine = "idle"
  /\ current = None
  /\ workload = [a \in Apply |-> "none"]
  /\ permits = [a \in Apply |-> 0]
  /\ services = [a \in Apply |-> 0]
  /\ stop = {}
  /\ graceOver = {}
  /\ place = [r \in Request |-> "none"]
  /\ servedBy = [r \in Request |-> None]
  /\ instance = [r \in Request |-> None]
  /\ idle = {}

-----------------------------------------------------------------------------
(***************************************************************************)
(* The clients.  The proxy refuses a request when it has no permit left    *)
(* ("maximum instance count reached") or the channel is full ("engine      *)
(* buffer full"), and keeps the permit until the head of the response.     *)
(***************************************************************************)
EngineGone == engine = "gone"

HostPermits == {r \in Request : client[r] \in {"waiting", "accepted"}}

SendRequest(r) ==
  /\ main = "up" /\ client[r] = "idle"
  /\ IF /\ Cardinality(HostPermits) < MaxInstances
        /\ Len(chan) < CmdCapacity
        /\ ~ EngineGone
     THEN /\ client' = [client EXCEPT ![r] = "waiting"]
          /\ chan' = Append(chan, r)
     ELSE /\ client' = [client EXCEPT ![r] = "failed"]
          /\ UNCHANGED chan
  /\ UNCHANGED <<main, buf, engine, current, threadVars, requestVars>>

(***************************************************************************)
(* The manifest is applied at start, on SIGHUP and on Kubernetes events;   *)
(* send waits for a place in the channel.                                  *)
(***************************************************************************)
SendApply(a) ==
  /\ main = "up" /\ client[a] = "idle"
  /\ \/ /\ EngineGone
        /\ client' = [client EXCEPT ![a] = "failed"]
        /\ UNCHANGED chan
     \/ /\ ~ EngineGone /\ Len(chan) < CmdCapacity
        /\ client' = [client EXCEPT ![a] = "waiting"]
        /\ chan' = Append(chan, a)
  /\ UNCHANGED <<main, buf, engine, current, threadVars, requestVars>>

(***************************************************************************)
(* An HTTP client closes its connection: hyper drops the future that       *)
(* serves it, and with it the receivers of the command's replies.          *)
(***************************************************************************)
Disconnect(r) ==
  /\ r \in HostPermits
  /\ client' = [client EXCEPT ![r] = "gone"]
  /\ UNCHANGED <<main, chan, buf, engine, current, threadVars, requestVars>>

(***************************************************************************)
(* ^C: main drops the host and its senders, and aborts every task.         *)
(***************************************************************************)
CtrlC ==
  /\ main = "up"
  /\ main' = "down"
  /\ client' = [c \in Cmd |-> IF client[c] \in {"idle", "waiting", "accepted"}
                              THEN "gone" ELSE client[c]]
  /\ UNCHANGED <<chan, buf, engine, current, threadVars, requestVars>>

-----------------------------------------------------------------------------
(***************************************************************************)
(* The engine thread.                                                      *)
(***************************************************************************)
(***************************************************************************)
(* Dropping a state: the manifest loses its senders, its permits and its   *)
(* shutdown channel.                                                       *)
(***************************************************************************)
\* Mutant: a clone of the senders survives.
DropKeepsSenders(as) ==
  /\ permits' = [a \in Apply |-> IF a \in as THEN 0 ELSE permits[a]]
  /\ stop' = stop \cup as
  /\ UNCHANGED workload
\* Mutant: the services are not told to stop.
DropQuietly(as) ==
  /\ workload' = [a \in Apply |-> IF a \in as /\ workload[a] = "open"
                                  THEN "closed" ELSE workload[a]]
  /\ permits' = [a \in Apply |-> IF a \in as THEN 0 ELSE permits[a]]
  /\ UNCHANGED stop

Drop(as) ==
  /\ workload' = [a \in Apply |-> IF a \in as /\ workload[a] = "open"
                                  THEN "closed" ELSE workload[a]]
  /\ permits' = [a \in Apply |-> IF a \in as THEN 0 ELSE permits[a]]
  /\ stop' = stop \cup as

(***************************************************************************)
(* Leaving the closure of handle_commands drops the state, the one under   *)
(* construction, and what was taken from the channel; no deadline is sent. *)
(* The receiver of the channel lives until the scope has joined every      *)
(* thread, and so do the commands left in it.                              *)
(***************************************************************************)
Fail(cmds) ==
  client' = [c \in Cmd |-> IF c \in Range(cmds) /\ client[c] = "waiting"
                           THEN "failed" ELSE client[c]]

Leave(how, dropped) ==
  /\ engine' = how
  /\ Drop(dropped \ {None})
  /\ current' = None
  /\ buf' = <<>>
  /\ Fail(buf)
  /\ UNCHANGED <<main, chan, services, graceOver>>

ReceiveMany ==
  /\ engine = "idle" /\ chan # <<>>
  /\ engine' = "loop"
  /\ buf' = chan
  /\ chan' = <<>>
  /\ UNCHANGED <<main, client, current, threadVars, requestVars>>

\* Mutant: the state outlives the loop.
ReceiveNoneKeeps ==
  /\ engine = "idle" /\ chan = <<>> /\ main = "down"
  /\ Leave("exited", {})
  /\ UNCHANGED requestVars

ReceiveNone ==
  /\ engine = "idle" /\ chan = <<>> /\ main = "down"
  /\ Leave("exited", {current})
  /\ UNCHANGED requestVars

EndOfBuffer ==
  /\ engine = "loop" /\ buf = <<>>
  /\ engine' = "idle"
  /\ UNCHANGED <<main, client, chan, buf, current, threadVars, requestVars>>

(***************************************************************************)
(* result.send(answer): when nobody listens any more, handle_commands      *)
(* returns the error "main thread exited".                                 *)
(***************************************************************************)
Reply(c, answer) ==
  /\ client[c] = "waiting"
  /\ client' = [client EXCEPT ![c] = answer]
  /\ engine' = "loop"
  /\ buf' = Tail(buf)

ReplyFails(c, dropped) ==
  /\ client[c] = "gone"
  /\ Leave("failed", dropped)

(***************************************************************************)
(* Engine::invoke.  The queue holds one invocation per instance of the     *)
(* limit; with no manifest in force there is no workload to find.          *)
(***************************************************************************)
ServedBy(a) == {r \in Request : servedBy[r] = a}

Queued(a) == {r \in ServedBy(a) : place[r] = "queue"}

Enqueue(r) ==
  IF current # None /\ Cardinality(Queued(current)) < MaxInstances
  THEN /\ place' = [place EXCEPT ![r] = "queue"]
       /\ servedBy' = [servedBy EXCEPT ![r] = current]
  ELSE UNCHANGED <<place, servedBy>>

HandleInvoke ==
  /\ engine = "loop" /\ buf # <<>> /\ Head(buf) \in Request
  /\ Enqueue(Head(buf))
  /\ UNCHANGED <<instance, idle>>
  /\ \/ /\ Reply(Head(buf),
                 IF place'[Head(buf)] = "queue" THEN "accepted" ELSE "failed")
        /\ UNCHANGED <<main, chan, current, threadVars>>
     \/ ReplyFails(Head(buf), {current})

\* Mutant: the old manifest is told to stop before the new one is resolved.
BeginApplyStops ==
  /\ engine = "loop" /\ buf # <<>> /\ Head(buf) \in Apply
  /\ engine' = "apply"
  /\ stop' = stop \cup ({current} \ {None})
  /\ UNCHANGED <<main, client, chan, buf, current, workload, permits, services,
                 graceOver, requestVars>>

BeginApply ==
  /\ engine = "loop" /\ buf # <<>> /\ Head(buf) \in Apply
  /\ engine' = "apply"
  /\ UNCHANGED <<main, client, chan, buf, current, threadVars, requestVars>>

(***************************************************************************)
(* The workloads are instantiated, and after them the services, each of    *)
(* which takes a permit and keeps it.                                      *)
(***************************************************************************)
StartWorkload(a) ==
  /\ engine = "apply" /\ a = Head(buf)
  /\ workload[a] = "none"
  /\ workload' = [workload EXCEPT ![a] = "open"]
  /\ UNCHANGED <<main, client, chan, buf, engine, current, permits, services,
                 stop, graceOver, requestVars>>

InstantiateService(a) ==
  /\ engine = "apply" /\ a = Head(buf)
  /\ workload[a] = "open" /\ permits[a] < ServiceCount[a]
  /\ FreePermits > 0
  /\ permits' = [permits EXCEPT ![a] = @ + 1]
  /\ services' = [services EXCEPT ![a] = @ + 1]
  /\ UNCHANGED <<main, client, chan, buf, engine, current, workload, stop,
                 graceOver, requestVars>>

(***************************************************************************)
(* Any step of the application may fail: next is dropped, and the manifest *)
(* in force goes on.                                                       *)
(***************************************************************************)
FailApply(a) ==
  /\ engine = "apply" /\ a = Head(buf)
  /\ workload[a] # "open" \/ permits[a] < ServiceCount[a]
  /\ \/ /\ Reply(a, "failed")
        /\ Drop({a})
        /\ UNCHANGED <<main, chan, current, services, graceOver>>
     \/ ReplyFails(a, {a, current})
  /\ UNCHANGED requestVars

(***************************************************************************)
(* "Manifest applied, initiate shutdown": the deadline is sent, the        *)
(* permits of the old services and the senders of the old workloads are    *)
(* dropped, and the old threads are joined before the new state is set.    *)
(***************************************************************************)
InitiateShutdown(a) ==
  /\ engine = "apply" /\ a = Head(buf)
  /\ workload[a] = "open" /\ permits[a] = ServiceCount[a]
  /\ engine' = "join"
  /\ Drop({current} \ {None})
  /\ UNCHANGED <<main, client, chan, buf, current, services, graceOver,
                 requestVars>>

\* Mutant: the threads of the old services are joined, the others are not.
JoinedServices(a) == services[a] = 0

Joined(a) == workload[a] \in {"none", "exited"} /\ services[a] = 0

FinishApply(a) ==
  /\ engine = "join" /\ a = Head(buf)
  /\ current # None => Joined(current)
  /\ \/ /\ Reply(a, "answered")
        /\ current' = a
        /\ UNCHANGED <<main, chan, threadVars>>
     \/ ReplyFails(a, {a})
  /\ UNCHANGED requestVars

\* The scope of handle_commands has joined every thread.
EndOfScope ==
  /\ engine \in {"failed", "exited"}
  /\ \A a \in Apply : Joined(a)
  /\ engine' = "gone"
  /\ chan' = <<>>
  /\ Fail(chan)
  /\ UNCHANGED <<main, buf, current, threadVars, requestVars>>

-----------------------------------------------------------------------------
(***************************************************************************)
(* The threads.  A workload thread runs an invocation once it has a permit *)
(* of the engine, in a store of its pool or in a new one; the guest may    *)
(* set its response-outparam, now or in a later invocation of the same     *)
(* store, and runs until it returns, traps or panics.                      *)
(***************************************************************************)
\* Mutant: only the permits of the workload are acquired.
DispatchFreely(r) ==
  /\ place[r] = "queue"
  /\ place' = [place EXCEPT ![r] = "running"]
  /\ \E s \in {r} \cup {i \in idle : servedBy[i] = servedBy[r]} :
       /\ instance' = [instance EXCEPT ![r] = s]
       /\ idle' = idle \ {s}
  /\ UNCHANGED <<main, client, chan, buf, engine, current, threadVars,
                 servedBy>>

Dispatch(r) ==
  /\ place[r] = "queue" /\ FreePermits > 0
  /\ place' = [place EXCEPT ![r] = "running"]
  /\ \E s \in {r} \cup {i \in idle : servedBy[i] = servedBy[r]} :
       /\ instance' = [instance EXCEPT ![r] = s]
       /\ idle' = idle \ {s}
  /\ UNCHANGED <<main, client, chan, buf, engine, current, threadVars,
                 servedBy>>

\* The guests that can use what the invocation of r has left in its store.
Users(r) == {u \in Request : place[u] = "running" /\ instance[u] = instance[r]}

Respond(r) ==
  /\ client[r] = "accepted" /\ Users(r) # {}
  /\ client' = [client EXCEPT ![r] = "answered"]
  /\ UNCHANGED <<main, chan, buf, engine, current, threadVars, requestVars>>

(***************************************************************************)
(* A later invocation of the store drops the outparam of an earlier one,   *)
(* whose result has been sent: "workload did not send a response".         *)
(***************************************************************************)
DropOutparam(r) ==
  /\ client[r] = "accepted" /\ place[r] = "done" /\ Users(r) # {}
  /\ client' = [client EXCEPT ![r] = "failed"]
  /\ UNCHANGED <<main, chan, buf, engine, current, threadVars, requestVars>>

\* The outparams of rs are dropped, and no result is to come.
Unanswered(rs) ==
  client' = [c \in Cmd |-> IF c \in rs /\ client[c] = "accepted"
                           THEN "failed" ELSE client[c]]

\* Mutant: who waits for the outparams of a lost store is not told.
FinishLeaves(r) ==
  /\ place[r] = "running"
  /\ place' = [place EXCEPT ![r] = "done"]
  /\ \/ /\ idle' = idle \cup {instance[r]}
        /\ Unanswered({r}) \/ UNCHANGED client
     \/ Unanswered({r}) /\ UNCHANGED idle
  /\ UNCHANGED <<main, chan, buf, engine, current, threadVars, servedBy,
                 instance>>

(***************************************************************************)
(* The task ends.  A guest that returned leaves its store to the pool, and *)
(* with it the outparams that nobody has set or dropped.  A guest that     *)
(* trapped or panicked, or one that finds the pool full, loses the store   *)
(* and all the outparams in it.                                            *)
(***************************************************************************)
Finish(r) ==
  /\ place[r] = "running"
  /\ place' = [place EXCEPT ![r] = "done"]
  /\ \/ /\ idle' = idle \cup {instance[r]}
        /\ Unanswered({r}) \/ UNCHANGED client
     \/ /\ Unanswered({u \in Request : instance[u] = instance[r]})
        /\ UNCHANGED idle
  /\ UNCHANGED <<main, chan, buf, engine, current, threadVars, servedBy,
                 instance>>

(***************************************************************************)
(* handle_workload returns when its channel is closed and empty, without   *)
(* joining its tasks: what still runs is aborted, and every store that the *)
(* thread had is dropped.                                                  *)
(***************************************************************************)
WorkloadExit(a) ==
  /\ workload[a] = "closed" /\ Queued(a) = {}
  /\ workload' = [workload EXCEPT ![a] = "exited"]
  /\ place' = [r \in Request |-> IF r \in ServedBy(a) THEN "done" ELSE place[r]]
  /\ Unanswered(ServedBy(a))
  /\ idle' = idle \ ServedBy(a)
  /\ UNCHANGED <<main, buf, chan, engine, current, permits, services, stop,
                 graceOver, servedBy, instance>>

(***************************************************************************)
(* handle_service returns when the shutdown channel has changed, or when   *)
(* the service cannot be instantiated again after it returned.             *)
(***************************************************************************)
ServiceExit(a) ==
  /\ services[a] > 0
  /\ services' = [services EXCEPT ![a] = @ - 1]
  /\ UNCHANGED <<main, client, chan, buf, engine, current, workload, permits,
                 stop, graceOver, requestVars>>

StoppedServiceExit(a) == a \in stop /\ ServiceExit(a)

(***************************************************************************)
(* The clock reaches the deadline that was sent on the shutdown channel.   *)
(***************************************************************************)
GraceEnds(a) ==
  /\ a \in stop \ graceOver
  /\ graceOver' = graceOver \cup {a}
  /\ UNCHANGED <<main, client, chan, buf, engine, current, workload, permits,
                 services, stop, requestVars>>

-----------------------------------------------------------------------------
Clients ==
  \/ \E r \in Request : SendRequest(r) \/ Disconnect(r)
  \/ \E a \in Apply : SendApply(a)
  \/ CtrlC

EngineThread ==
  \/ ReceiveMany
  \/ ReceiveNone
  \/ EndOfBuffer
  \/ HandleInvoke
  \/ BeginApply
  \/ \E a \in Apply : StartWorkload(a) \/ InitiateShutdown(a) \/ FinishApply(a)
  \/ EndOfScope

Next ==
  \/ Clients
  \/ EngineThread
  \/ \E a \in Apply : \/ InstantiateService(a) \/ FailApply(a)
                      \/ WorkloadExit(a) \/ ServiceExit(a) \/ GraceEnds(a)
  \/ \E r \in Request : \/ Dispatch(r) \/ Respond(r) \/ DropOutparam(r)
                        \/ Finish(r)

(***************************************************************************)
(* Every thread is scheduled.  The semaphore of the engine is fair, so who *)
(* waits for a permit gets one if permits come back again and again.  A    *)
(* guest returns, traps or panics: its execution time is limited, one that *)
(* is told to shut down traps at its next epoch, and it calls no other     *)
(* workload.  Clients need not do anything, guests need not respond, and   *)
(* applications need not fail.                                             *)
(***************************************************************************)
Fairness ==
  /\ WF_vars(EngineThread)
  /\ \A a \in Apply : /\ SF_vars(InstantiateService(a))
                      /\ WF_vars(WorkloadExit(a))
                      /\ WF_vars(StoppedServiceExit(a))
  /\ \A r \in Request : SF_vars(Dispatch(r)) /\ WF_vars(Finish(r))

Spec == Init /\ [][Next]_vars /\ Fairness

-----------------------------------------------------------------------------
(***************************************************************************)
(* The manifest in force serves until the next one is complete: while one  *)
(* is being applied, and after one has failed at any step, its workloads   *)
(* are reachable and nothing has told its guests to stop.  And when an     *)
(* application is acknowledged nothing of the manifest that it replaces    *)
(* runs any more: no thread, and no invocation; nor does a client wait for *)
(* a response of it.                                                       *)
(***************************************************************************)
InForceServes ==
  current # None /\ engine # "join" =>
    workload[current] = "open" /\ current \notin stop

ReplacedIsGone ==
  \A a \in Apply :
    client[a] = "answered" /\ current # None /\ a # current =>
      Joined(a) /\ \A r \in ServedBy(a) : /\ place[r] = "done"
                                           /\ client[r] # "accepted"

ServesUntilReplaced == InForceServes /\ ReplacedIsGone

(***************************************************************************)
(* The permits bound what runs: more instances run than there are permits  *)
(* only while services that were told to stop have not noticed it, since   *)
(* their permits are dropped before their threads are joined.              *)
(***************************************************************************)
PermitsBoundInstances ==
  Cardinality({r \in Request : place[r] = "running"})
    + SumFunctionOnSet(services, Apply \ stop) <= MaxInstances

(***************************************************************************)
(* handle_commands stops serving only when main is gone: the error that it *)
(* returns reads "main thread exited".                                     *)
(***************************************************************************)
FailsOnlyWithMain == engine = "failed" => main = "down"

(***************************************************************************)
(* A new manifest gives the guests of the old one a grace period: none of  *)
(* them is cut off before the deadline that apply_manifest computes.       *)
(***************************************************************************)
GraceHonoured ==
  [][\A a \in Apply :
       workload[a] = "closed" /\ workload'[a] = "exited" /\ engine = "join"
         => \/ a \in graceOver
            \/ \A r \in ServedBy(a) : place[r] # "running"]_vars

(***************************************************************************)
(* The engine thread waits for a permit that nobody can give back: the     *)
(* services of the manifest in force hold theirs until the next manifest   *)
(* is complete; or it joins a workload thread that waits for a permit      *)
(* while services hold them all.                                           *)
(***************************************************************************)
ServicesHoldAll ==
  SumFunctionOnSet(permits, Apply) = MaxInstances

StarvedByServices ==
  /\ engine \in {"apply", "join"} /\ ServicesHoldAll
  /\ engine = "apply" => permits[Head(buf)] < ServiceCount[Head(buf)]
  /\ engine = "join" => Queued(current) # {}

(***************************************************************************)
(* The guest of r has returned without its response-outparam set, and its  *)
(* store, with the outparam in its table, is in the pool or used again.    *)
(***************************************************************************)
Forgotten(r) ==
  /\ client[r] = "accepted" /\ place[r] = "done"
  /\ instance[r] \in idle \/ Users(r) # {}

(***************************************************************************)
(* Every command is answered in the end, even those that the engine had    *)
(* taken from its channel when it failed: an application is acknowledged   *)
(* or refused, a request gets a response or an error and returns the       *)
(* permit of the host.  The exceptions, for workloads that import nothing  *)
(* of each other (nested calls can hold all the permits: Dispatch):        *)
(*   - an engine starved by services, and an invocation that waits for a   *)
(*     permit while services hold all of them;                             *)
(*   - a response-outparam that the guest neither sets nor drops: as long  *)
(*     as its store is kept, mod.rs:663, the proxy waits at host.rs:397    *)
(*     and keeps its permit.                                               *)
(***************************************************************************)
CommandsResolve ==
  /\ \A a \in Apply :
       client[a] = "waiting" ~> client[a] # "waiting" \/ StarvedByServices
  /\ \A r \in Request :
       r \in HostPermits ~>
         r \notin HostPermits \/ ServicesHoldAll \/ Forgotten(r)

(***************************************************************************)
(* After ^C the engine thread ends, and with it every thread it started:   *)
(* main can join it.                                                       *)
(***************************************************************************)
ShutdownCompletes ==
  main = "down" ~>
    \/ EngineGone
    \/ StarvedByServices
=============================================================================
