# A TLA+ model of wasmlet

wasmlet runs WebAssembly components on a host. A *manifest* names *workloads* (components that are
instantiated per invocation and pooled), *services* (components that run all the time) and plugins.
HTTP requests reach workloads through a proxy, workloads reach each other through imports, and a new
manifest replaces the old one while the program runs. The core is `src/crates/wasmlet`, the program
around it `src/src/main.rs`. Below, `E` is `src/crates/wasmlet/src/engine/mod.rs`, `W` is
`src/crates/wasmlet/src/engine/wasi` and `H` is `src/crates/wasmlet/src/host.rs`.

The project models the parts in which threads, tasks, permits, channels and clocks interact, checks
them with TLC on small instances, and proves the parts that are within reach of TLAPS for all
instances.

## The system

| component | state | operations | interacts by |
|---|---|---|---|
| engine thread (`Engine::handle_commands`, `invoke`, `apply_manifest`) | the manifest in force: senders of workload threads, handles of threads, services with their permits, shutdown channel | receive commands, hand over an invocation, apply a manifest, exit | bounded command channel, a oneshot for each reply, joins of threads |
| resolution (`apply_manifest`) | a state for each workload: compiled, pre-instantiated, taken; threads started so far | compile, first pass, further passes until nothing is left, services, commit | starts a thread per workload; an importer holds a sender of what it imports |
| workload thread (`handle_workload`, `handle_workload_import`) | invocation channel, permits of the workload, pool of idle instances, tasks | receive, take both permits, take or make an instance, spawn a task, exit when the channel is closed | the engine's semaphore, wasmtime's pooling allocator; a store is handed between callee and caller four times in a call |
| service thread (`handle_service`) | its store and permit | run the guest, exit on shutdown | shutdown channel |
| store (`new_store`, `wasi:io/poll`) | budget of epochs, deadline | epoch callback, poll, pooling | the epoch thread, the shutdown channel |
| HTTP response (`W/http`, `W/io`, `H`) | outparam, response, body and stream in the guest's table; receivers in the proxy | the guest's host calls; `poll_frame` | channels of head, data, trailers, result, connection error; a semaphore for bytes |
| HTTP proxy, main (`H`, `src/src/main.rs`) | host permits, senders | send `Invoke`, ^C | command channel |
| reload tasks (`src/src/main.rs`, `H:170`) | the manifest they are loading; the watch of a Kubernetes pod | SIGHUP, pod events, fetch, send `ApplyManifest`, write the status of the pod | command channel, the file, the API server, whose answer to a status is an event |
| TCP sockets, streams, pollables (`W/sockets/tcp.rs`, `W/io`) | `TcpState`, shared by the socket and its pollables; the two streams of a connection; wakers | the host functions of sockets, streams and poll | the I/O driver of tokio, the network |
| socket options (`W/sockets/tcp.rs`, `util.rs`, `host/tcp.rs`) | what the kernel keeps, the backlog that the socket keeps, `SO_REUSEADDR` | get and set, bind, listen | survive the transitions of `TcpState` |
| header collections (`W/http/host/types.rs`, `WithChildren` in `E`) | a map shared by the request, the handles made of it and the response | fields, headers, new response | the guest's resource table |
| value transfer (`engine/workload/value.rs`) | resource tables of two stores | lower, lift | called from `handle_workload_import` |
| clocks (`W/clocks`) | the time at which the store was made | now, subscribe | `Sleep` pollables |

What is hard in it, and what the properties are for (`PROJECT.json` has each hazard at its line):

- threads must exit after everyone that imports them, in normal replacement and when an application
  fails half-way; one sender too many and a join never returns, one too few and a call is lost;
- permits are taken in one order (workload, engine), kept across calls into other workloads, and
  given back on every way a task can end;
- the engine thread itself waits, for permits of services and for joins, and serves nobody meanwhile;
- the store of a call changes hands, and either side may be aborted in between;
- two clocks, a budget that is granted in slices, and a deadline that may be overridden at any time
  must add up, also on a store that is pooled and used again;
- polling a pollable changes the socket it was made of, and a waker lasts only as long as the future
  that registered it;
- a response has five channels whose senders move, close and are left behind in pooled stores;
- collections, sockets and streams are moved or shared between owners that must not see each other's
  writes, and a call may fail half-way through the move;
- reloading is triggered by the events that its own outcome causes.

## Modules

| module | models | checked by |
|---|---|---|
| `DependencyOrder` | abstract: threads start after and stop before what they import | refined by `ManifestResolve` |
| `ManifestResolve` | `apply_manifest`: resolution of imports, failure, tear-down | `MCManifestResolve`, `ManifestProofs` |
| `Dispatch` | `handle_workload`, `handle_workload_import`, pools, permits, exit | `MCDispatch`, `DispatchProofs` |
| `Engine` | `handle_commands`, clients, replacement, services, ^C | `MCEngine`, `EngineProofs` |
| `GuestTime` | `new_store`'s epoch callback, `poll`, pooling, shutdown deadline | `MCGuestTime`, `GuestTimeProofs` |
| `HttpBody` | outparam, response, body, stream; the proxy's service and `OutgoingBodyReceiver` | `MCHttpBody`, `HttpBodyProofs` |
| `Pollables` | the task of a guest that waits: `poll`, `pollable.block`, blocking calls, wakers | with `Tcp` |
| `TcpSocket` | `TcpState`: its transitions, its poll, accept, finish-connect | with `Tcp` |
| `TcpStream` | the two streams of a TCP connection: read, write, splice, blocking calls | with `Tcp` |
| `Tcp` | composes the three: a guest with a socket and the streams of a connection | `MCTcp`, `TcpProofs` |
| `Reload` | the tasks of SIGHUP and of Kubernetes, the watch, the status of the pod | with `Parts` |
| `HttpFields` | header collections of an invocation, `WithChildren` | with `Parts` |
| `Transfer` | `lower` and `lift`: resources that calls move between stores | with `Parts` |
| `SocketOptions` | options, backlog and `SO_REUSEADDR` of a TCP socket | with `Parts` |
| `Parts` | one of the four above, the others at rest | `MCParts`, `PartsProofs` |
| `FiniteSums` | facts about the sums over sets and sequences that the models use | used by the proofs of `Dispatch`, `Engine`, `HttpBody`, `Parts` |

The modules are cut where the code is: `Engine` sees a manifest as one workload with a number of
services, `ManifestResolve` is the inside of its application, `Dispatch` the inside of the workload
threads, `GuestTime` and `HttpBody` the inside of one task. Each module names in its comments what it
takes from the others. Operators named in a comment "Mutant:" are deliberately wrong variants of the
definition after them; they are not part of any specification, and `PROJECT.json` says which property
each of them breaks.

### ManifestResolve

Nodes are the workloads `1..N`, in the order of the `BTreeMap`, and the services. `imports[n]` is
arbitrary: it may contain `n` itself and the name `Missing`. It stands for the imports that the
component really uses; the code skips configuration of unused ones (`E:361-367`). `Compile` fixes the
imports of a node; `FirstVisit` and `NextVisit` are the two loops over workloads, with `Settle`,
`Defer` and the errors of a visit; `EndFirstPass` and `EndPass` decide between another pass, the
services and the cycle error; `InstantiateService` and `Commit` follow, `Bail` is any `?`. Linking,
loading of plugins and instantiation may fail at any time (error `failed`). `Retire` is a later
replacement, and `WorkloadExit`, `ServiceExit` are the ends of threads: a workload thread exits when
no sender of its channel is left, i.e. when the engine has dropped its own and no running thread
imports it.

`Verdict` is the reference definition: a manifest may be accepted only if its imports can be ordered,
and called cyclic only if they cannot. `OrderSpec` is the refinement: with `deps` the imports and `alive` the
running threads, every step is a step of `DependencyOrder` or a stutter.

### Dispatch

One `stage` per call follows it from the caller through the loop and the task back to the caller (the
module's first comment has the sequence), `store` says who serves it and in what condition, and the
permits are derived from the stages (`WorkloadPermits`, `EnginePermits`), since the code binds them to
the task. `AcquireEngine` takes the permit, the instance and spawns the task in one step: the loop
awaits nothing in between. The engine's semaphore is tokio's, which is FIFO (`waiting`). What the
guest does is nondeterministic: it returns, traps, calls an import, or calls a host function that panics
(`GuestPanics`; several of `W/http/host/types.rs` are `todo!`). A panic unwinds the task only: its store,
permits and the sender of its answer are dropped, and the thread logs it and goes on. A `trapped` instance
only fails. `Exhausted` is wasmtime's pooling allocator with as many slots as there are permits
(`src/crates/wasmlet/src/wasmtime.rs`).

### Engine

`chan` and `buf` are the channel and what `blocking_recv_many` has taken from it; `engine` is the
place of the thread: idle, in the loop over `buf`, applying, joining what it replaced, failed or
exited, and gone after `EndOfScope` has joined all threads (the receiver of the channel outlives the
scope). `permits[a]` are those inside the `Service` values of manifest `a`. A client is waiting, accepted,
answered, failed or gone.

An invocation runs in a store, its own or one of the pool (`instance`, `idle`; a store is named by the
request that it was made for). A guest that returns without having set its response-outparam leaves it in the
table of the store, which goes back to the pool (`E:663`): the proxy then waits (`H:397`), with its permit,
until a later invocation of the store sets or drops the outparam (`Respond`, `DropOutparam`) or the store is
lost (`Finish`, `WorkloadExit`). The size of the pool is left to chance. The workload imports nothing of
another one; what nested calls hold up is in `Dispatch`.

### GuestTime

`now` counts epochs; `Tick` is the epoch thread. A store has a `budget`, from which the callback
grants slices of at most `Slice` (100 in the code), and a `deadline` that `poll` compares with the
clock, whatever unit it has. `Callback` (`CallbackTraps`, `CallbackOverrides`, `CallbackGrants`) is
`epoch_deadline_callback`; yields are not charged to the budget. `EnterPoll`, `Wake`, `Loop`, `Spin`
are `poll`, in which all pollables are one event. `Return` and `Reuse` are the pool.

### HttpBody

The resources of the guest are four variables; each host function of the table
`HostOutgoingBody`, `HostResponseOutparam`, `HostOutgoingResponse`, `HostOutputStream` that changes
them is an action. Where the senders are follows from them (`DataSenders`, `TrailersSender`), so that
dropping a resource, or the store (`DropStore`), closes the channels as it does in the code.
`ReceiveHead` is the service of the proxy after the invocation was accepted; `PollFailure`,
`PollData`, `PollTrailers` and `PollPending` are the outcomes of `poll_frame`. A store that returned
to the pool keeps its table, and `Reenter` lets a later guest use what is in it. A response that is
set without a body, or with one that was finished before, is cut off by the code after its head:
nothing was left that could send trailers. The model shows this as `receiver = "failed"`. A guest that panics
loses its store and the sender of its result as one whose thread exits (`ThreadExit`): the proxy says
"workload thread exited" in both cases, in the first of which the thread lives.

### Tcp: Pollables, TcpSocket, TcpStream

A guest is sequential, and its host functions borrow the store: while one of them waits only the network,
the other end and the driver act. `guest` says whether it runs, works in a blocking call between two waits,
or waits for the pollables `on`; `armed` are those that hold a waker of its task, `woken` that the task will
be polled. `Suspend` is a poll that found nothing ready, `Resume` the next one. A waker survives in a future
that is awaited (`pollable.block`, blocking calls) and in a socket, but not in the list of `poll` for a
stream (`Kept`): `Pollable::poll` drops the future that it has polled (`W/io/mod.rs:168`), and tokio then
takes its waker off the list. Deadlines and the shutdown channel, which `GuestTime` has, are `Nudge` here.

`TcpSocket` has the states of `TcpState`, the queue of the kernel and the connection that a poll has
parked in `pending_accept`; `net` is the outgoing connection as the network has it, which starts when
its future is polled for the first time. `PollSocket` is `TcpState::poll`. Operations that fail and
put back what they found are stutters. `TcpStream` counts bytes: `rcv` and `free` are the kernel's
buffers, `rd` and `wr` what tokio remembers of them, which a call clears when it would block and the driver sets
again. `sent`, `acked` and `partial` are history: what the kernel took, and which writes reported it.
A blocking splice reads once and then writes what it has read, waiting between the pieces
(`WriteWhatWasRead`); one that does not block loses what it has read and cannot write (`Splice`).
`AcceptWithStreams` gives the guest the streams of the connection that it has accepted.

### Parts: Reload, HttpFields, Transfer, SocketOptions

These share no state and none waits for another, so a behaviour of one of them stands for all
interleavings: `Parts` chooses one by `part` and keeps the others at rest. They are checked in one run,
and each keeps its own specification (`ReloadSpec`, `FieldsSpec`, `TransferSpec`, `OptionsSpec`), about
which the theorems are.

`Reload` has main, which applies the file first, the task of SIGHUP (`ReceiveHangup`, `ReadFile`, `Load`)
and that of Kubernetes (`List`, `ReceiveEvent`, `Load`, `Report`); both wait for the engine
(`EngineApplies`, the command channel in order). The pod has a version, by which the API server refuses a
status that is about an older one (`AcceptsStatus`); a status that is the same as before changes nothing.
Versions are only compared, and the model uses one again that nobody refers to any more. `edited`,
`lastRead`, `lastSeen` and `missed` are history. A load reads files and asks servers anew, so that one that
succeeded may fail the next time and the other way round: `Fetching[m]` has every way in which fetching the
sources of `m` may end, `Applying[m]` the answers of the engine, and each load picks one. `Outcomes(m)` are the
statuses that may come of it.

`HttpFields` has the collections as maps from names to sequences of parsed values, and the handles of the
guest: `parent` owns a collection, `child` refers to that of the request. `Write` is the order of the
checks of all the setters (name, forbidden, values, mutability), and `Collected` the reference count.
Each host function of `fields`, `incoming-request.headers` and the constructor of responses is an action.

`Transfer` has one caller and the stores of the workload it calls: `Offer`, `Lower`, the guest's steps,
`Lift`, and every failure between them. `table` says which store has a host resource, `maker` which store
made a resource of the guest's own. `TakenElsewhere` and `BackFromElsewhere` are calls of others.

`SocketOptions` takes each setter down to the kernel and back: `NormalSet`, `SetSockOpt`, `GetSockOpt`,
`NormalGet`. Numbers are scaled (`U32` is 2^32, `Second` a second), each limit to a number of its own.
`Supported` and `Nearest` are the reference.

## Runs

| run | instance | shows |
|---|---|---|
| `manifest` | 3 workloads, 1 service, every import graph; 413,785 states | `Verdict`, `NoInternalError`, `TargetAlive`, `OrderSpec`; every application returns, and after a failure or replacement every thread stops (`Unwinds`) |
| `dispatch` | front imports middle imports back; 2 engine permits, limits 1, 2, 1, pools of 1, 3 calls; 98,759 states | an answer is lost only for a cause (`AnswerLostForCause`): to a running caller by a panic of the guest that it called, to an HTTP client also by the exit of a retired thread; the allocator is exhausted only by idle instances (`ExhaustedByIdle`); unless nested calls hold every engine permit (`NestedStall`) every call ends (`EveryCallEnds`) and a retired manifest frees all it held (`RetirementFrees`) |
| `engine` | 2 requests, manifests with 0 and 2 services, 2 permits, channel of 2; 89,447 states | the old manifest serves until the new one is complete and is gone when that is acknowledged, whatever fails (`ServesUntilReplaced`); permits bound instances; requests and applications are answered (`CommandsResolve`) and ^C completes (`ShutdownCompletes`), unless services starve the engine or a pooled store keeps an outparam that its guest has left |
| `parts` | headers: 2 handles, 2 names, 2 values each; sockets: 6 options, numbers around every limit; transfer: 2 host resources, 1 of the guest, 3 stores, 2 arguments; reload: 4 manifests, one with a source that fails now and then and one that the engine refuses, 4 changes; 963,593 states | what the host holds of headers is not changed by writes through other handles (`HeadersKept`); settings survive states and failures (`SettingsKept`); a resource is in one table and is not lost on the way (`MovedOnce`); a status is about the spec it is written to (`StatusIsOfSpec`); reloading comes to rest with what was asked last, unless its loads fare differently (`Settles`) |
| `engine_client_gone` | violated | `FailsOnlyWithMain` (below) |
| `engine_grace` | violated | `GraceHonoured` (below) |
| `guest_time` | slices of 2, grace of 3, limits 1, 3 and none, 2 epochs per turn, 10 in all; 1,383,233 states | no guest is cut off early, none computes beyond its limits |
| `guest_time_pooled` | violated | `InvocationHasItsTime` (below) |
| `guest_time_poll` | violated | `ReadyPollReturns` (below) |
| `http_body` | window of 3, chunks of 1, 2 and 4, 6 bytes in all; 33,328 states | complete bodies only, finished bodies arrive, the internal checks hold, permitted writes never trap; responses end and blocked writers proceed |
| `tcp` | 2 incoming connections, buffers of 1, reads and writes of 1 and 2, 3 bytes sent; 467,857 states | connections are accepted once and in order, none that the network has is lost, a pollable that was ready is not followed by would-block, no wake-up is lost, bytes are sent once; who waits for what has happened goes on |
| `tcp_poll` | violated | `PolledStreamWakes` (below) |

Bounds. Three workloads are the least on which a cycle can hide behind a workload that resolves, and on
which a pass makes progress without finishing; a fourth adds no new kind of visit. In `Dispatch` a chain of
three under two permits is the least in which one call through it takes every permit, in which a workload is
imported and imports, and in which idle instances (pools of one, which fill and overflow) take every slot.
In `Engine`, services take none of two permits or, for the other manifest, all of them, one after the other,
while an old invocation needs one; two requests are the least of which one finds what the other has left in
a store, and three manifests beside them take too long. Three epochs with slices of two have a
first and a last slice of different length; ten leave room for a second invocation and for a shutdown
before, during and after the limit. In `HttpBody` a chunk of four never fits, two chunks of two never fit
together, and one and two fill the window exactly. In `Tcp` two connections are the least that can be
reordered, one parked and one queued; a write of two into a buffer of one is always cut, and three bytes
leave room for a write after it. In `Reload` four changes are an edit and a SIGHUP, a pod that is made and
deleted or edited while its manifest is loaded, and an interruption of the watch in between; eight versions
suffice since at most the pod, the task and the events refer to one each. In `HttpFields` two handles are
the least with which one write may be seen through another, and two values per name the least for append. In
`Transfer` two arguments are the least of which the first is moved and the second fails; three stores are
one in use, one pooled, one dropped. In `SocketOptions` every limit has a number below, at and above it.
`CHECK_DEADLOCK FALSE` is used in every run because every one of these systems may stop: no client has to
call, a process may have exited, a clock is bounded.

Constants that only bound a run: `Call` and `Request` (how many calls are made), `MaxTime` and `MaxTurn`
(epochs), `MaxSent` (bytes, in `HttpBody` and in `TcpStream`), `Conn` (connections), `MaxChanges` and
`Version` (`Reload`), `MaxValues`, `Handle` and `Coll` (`HttpFields`), `MaxArgs` and `Store` (`Transfer`),
`Argument` (`SocketOptions`).

Fairness. Executors poll tasks that are ready and the operating system runs threads: weak fairness of the steps
of a thread or task. tokio's semaphores are FIFO, so who waits for a permit that comes back again and again gets
one: strong fairness of `InstantiateService` and `Dispatch` in `Engine`, where the queue itself is not modelled;
`Dispatch.tla` has the queue, and weak fairness is enough there. Guests return, trap or panic in the end: this
is an assumption. `execution-time-ms` is optional, and `pollable.block` and the blocking calls on streams look
neither at the deadline nor at the shutdown channel ("TODO: Shutdown deadline"). In `HttpBody` the client reads
or goes away; a guest has to do nothing. In `Tcp` the executor polls a task that was woken, the driver looks at
the kernel, and a blocking call goes on; the guest and the network have to do nothing. In `Reload` tasks that
are ready run and the engine answers, which `Engine` shows it to do unless services starve it; that a fetch
ends, well or not, is an assumption on the servers, since `fetch_src` has no timeout. `GuestTime` has a bounded
clock and so no liveness: that guests are stopped is the safety property `ComputesWithinLimits`. No fairness is
assumed of clients, of ^C, or of a new manifest.

## What the runs found

- `engine_client_gone`: `handle_commands` returns "main thread exited" when a reply cannot be
  delivered (`E:1188`). A reply also cannot be delivered when an HTTP client has disconnected; then
  one client ends the engine thread and every workload.
- `engine_grace`: `apply_manifest` in `H:191` announces a grace period of one second to the guests of
  the old manifest; `handle_workload` returns as soon as its channel is closed and drops its `JoinSet`
  (`E:535`), which aborts them at once.
- `guest_time_pooled`: the execution time is documented as a limit of an invocation (`E:79-80`) and is
  kept by the store, so that an invocation on a pooled instance gets what earlier ones have left.
- `guest_time_poll`: after a shutdown has been requested `poll` spins in its inner loop
  (`W/io/poll.rs:62`) and no longer looks at what it polls (`src/crates/wasmlet/wit/deps/io/poll.wit:29`).
- `tcp_poll`: a guest that has a stream in the list of `poll` is not woken when the stream becomes ready
  (`W/io/mod.rs:168`), only by something else. `NoLostWakeup` and `WaiterWakes` hold for every other wait.

Some results are stated as what does hold. `StarvedByServices` in `Engine` and `NestedStall` in `Dispatch`
name the only states in which everyone waits for everyone. `CommandsResolve` in `Engine` has three exceptions:
services that hold every permit; a guest that returns without a response and whose store is pooled with the
outparam in it (`Forgotten`), for which the proxy waits without a limit; and, since the workload of `Engine`
imports nothing, nested calls. The second exception ends with the store: whoever waits for an outparam of it
is told when it is lost, and no such client is left when a manifest has been replaced. `AnswerLostForCause` in
`Dispatch` says of a lost answer whose fault it was.

`Settles` in `Reload` has three exceptions. A pod whose loads do not all go alike may be reloaded for ever,
since each status that differs from the one before is an event: one source that fails now and then is enough
(`H:70`), and so are several that fail with different errors. A load that failed, be it for once, is tried
again only at the next signal or event, and until then an older manifest stays in force (`UpToDate`). And a
pod that is deleted while the watch has to be listed again stays in force (`missed`): the list has only pods
that exist, and nothing compares it with what was there before (`src/src/main.rs:318`).

## Proofs

All are checked by TLAPS, without unproved leaves. The assumptions are the ones the modules name
(`ASSUME`), which say what kind of value a constant is.

`ManifestProofs` proves for any number of workloads and any set of services: type correctness,
`Verdict`, `NoInternalError`, `TargetAlive`, and `Spec => OrderSpec`. `Verdict` speaks of an order of
all workloads, and is not inductive: its strengthening `ClosedInv` says that those started so far can
be ordered, with what they import among them. Settling one more workload extends the order
(`OrderGrows`). For the other half (`CycleFound`), a pass without progress leaves a set in which
everyone imports a member. `ThreadsInv` ties the states of workloads to running threads and to
the lists of the passes (`ListsInv`); `TargetAlive` follows, and the refinement with it.

`GuestTimeProofs` proves for any slice, grace period and set of execution times: type correctness,
`NeverEarly`, `ComputesWithinLimits`. The invariant relates what a store has been granted to
what it has used and what is left (`Funded`, `Spent`), the deadline to the time at which the store was made
(`DeadlineInv`), and the time past a shutdown deadline to the current slice (`Lateness`).

`DispatchProofs` proves for any finite set of workloads, any imports, limits, pools and calls: type correctness,
`ExhaustedByIdle`, `AnswerLostForCause`. None of the three is inductive. `QueueInv` and `WaitingInv` say that a
call is in one place of one channel or of the semaphore's queue and has got no further; `ThreadInv` that whoever
has been received is served by a thread that runs; `ImportInv` that a call through an import was made by a guest
that has the import, and so keeps the sender of its thread; `ReplyInv` that only a call that has ended has an
answer; `StoreInv` what the store of a task may hold at each stage, of which the hand-over between caller and
callee is the delicate part: it is lost under a task only when the caller that lent it is gone. `PermitsInv`
counts both semaphores. That a caller loses no answer to a retirement follows from `ThreadInv` and `ImportInv`:
the thread of its callee cannot exit while the caller has a sender. What is left is the panic of the guest that
it called.

`EngineProofs` proves for any requests, applications, manifests, permits and capacity of the channel: type
correctness, `ServesUntilReplaced`, `PermitsBoundInstances`. A command is in one place of the channel or of the
buffer, and unanswered there (`QueueInv`); the manifest of an application that is queued has not been dropped
(`FreshInv`); `HeadInv` says which one is being applied. The manifest in force has been acknowledged
(`CurrentInv`) and therefore is in no queue: what is applied next is another one, and retiring it cannot touch
its successor. `ServedInv` says that a thread that has exited leaves no invocation and no client that waits for
a response: all the stores that could have held the outparam are gone. `ServiceInv` and `PermitInv` tie running
services to the permits of their manifest.

`HttpBodyProofs` proves for any window, chunks and bound: type correctness, `InternalChecks`,
`FinishedArrives`, `CompleteBodiesOnly` and `PermittedWritesNeverTrap`. For the first two properties, the
invariant says that no call leaves `Corrupted` behind, that an unspent outparam excludes a body that has
senders, that the head precedes whatever uses the senders, and that a result which is a failure belongs to a
failed invocation. For the others it counts bytes (`DataInv`): while the receiver exists, what the guest sent
is what the client got and what the channel and the receiver hold; what is permitted is at most the window
less what is held, so that a permit is never given twice; and the end of the body is seen only when nothing
is held.

`TcpProofs` proves for any connections, buffers and lengths: `EstablishedIsKept` and `NoLostWakeup`, which
are inductive as they stand; `ToldReadyIsReady`, from `ReadyIsHeld`: what made a pollable ready is parked in
the socket, since the kernel's queue can shrink; `SentOnce`, with the types of the streams and the task,
which say that a guest that runs is in no call; and `AcceptsInOrder`, from `Accepting`: for a listener, what
has arrived is what was handed out, then what is parked, then the queue, in this order, and a socket that is
no listener has nothing parked or queued. Only a listener parks a connection, so that going back to listening
(`finish_listen`) discards none. Type correctness follows from the invariants of both.

`PartsProofs` proves `SettingsKept` for any limits, any `Second` and any 2^32: the invariant says
that kernel and socket have what the setters made of the values asked for; rounding up to seconds and
cutting to a range give the nearest supported value (`SecondsAreNearest`, `ClampIsNearest`), of which there
is one (`OneNearest`). It proves `MovedOnce` from the invariant that the store of a call is used for nothing
else and has the host resources among the results, and `StatusIsOfSpec` from four facts: events with the
version of the pod have its spec, so has the work of the task, what is in the channel was fetched and is
there once, and a report is an outcome of its manifest. That versions are new only as long as somebody refers
to the old one is enough (`NewVersions`, `Telling`).

For `HttpFields` it proves `HeadersKept` for any finite table, names and values. The invariant says that a
child has the collection of the request (`ChildrenShare`), and that the collection of a parent is nobody
else's (`ParentsOwn`), so that a write through one parent is seen through no other handle and never by the
host; `HostKeeps` is the property itself, with the collections that are in use. That a new handle finds a
collection of its own is a matter of counting (`FreshIs`): a free index of the table leaves one more
collection than are in use. `from_list` keeps the order of the values of a name, which the model states by
rank (`Nth`), so that what a list becomes (`MapIs`) needs no induction over it.

`PartsKeep` says of the composition what was proved of its modules, and `TypeCorrect` that all their variables
keep their types: what a setter stores and the kernel makes of it stays within their ranges, whatever number
the guest gives.

`FiniteSums` has what the counting proofs rest on: the sum over a finite set does not change when its values
do not, grows by what one value grows, is monotonic, and for sequences follows `Append` and `Tail`. The sum
is a fold over the set, and each fact is an induction over finite sets. The library's induction theorems take a
predicate as a parameter, which the provers cannot instantiate; here each induction is a minimal
counterexample instead, which exists by the library's theorem on well-founded relations (`WFMin`).

The assumptions on constants say of what kind a value is. Beyond that, `Dispatch` assumes that a manifest has
finitely many workloads, and at least one (it is about one with workloads), `Engine` that finitely many
applications are made, and `HttpFields` that the resource table, and so the collections in use, are finitely
many, with two collections more than the table has indices; all hold of any run of the program.

Every safety invariant and action property that a run checks is stated by a theorem. Only model-checked is
liveness, which TLAPS cannot prove (`EveryCallEnds`, `RetirementFrees`, `Unwinds`, `CommandsResolve`,
`ShutdownCompletes`, `Settles` and those of `HttpBody` and `Tcp`).

## Not modelled

UDP sockets cannot be reached by a guest (`todo!`), nor can `OutputStream::Limited` around a socket. Socket
addresses and name lookup are predicates and conversions without state. Clocks, random numbers and the
command line are one host call each; that `now` is relative to the store and `subscribe_instant` is not
(`W/clocks/host.rs:60`) would need two clocks and no interleaving. Streams of standard I/O never wait. Of
request bodies the stream returns an error and `finish` is `todo!`; the HTTP client and most of the file
system that a guest can reach are stubs. Parsing of manifests, plugins and the admin endpoint (one flag) are
pure I/O or foreign code: what they produce is an input of `ManifestResolve`, `Engine` or `Reload`.

Left out of a module that has the rest of its component: in `Engine`, the restart of a service that returns,
and ^C without a grace period, at which guests are cut off; in `HttpBody`, the lock that consecutive
requests of one connection share (`W/http/body.rs:60`), and whether a chunk larger than the window
(`W/http/body.rs:99`) or a wait in `pollable.block` past the deadline ever ends (both do not, and no
document promises that they do). `TcpStream` has no property about the bytes that a splice loses when its
write fails (`W/io/mod.rs:587`), nor `Transfer` one that a resource of the callee's own whose entry the
caller drops is destroyed: it is not. `SocketOptions` has the size of the queue that is asked of `listen`, which
the kernel may cut (`somaxconn`), and `Transfer` deletes and pushes a resource in one step: `lower` awaits
nothing in between, and the push into a table that is full is left out.
A response whose body was left open in a pooled store waits like one without a head (`ResponseEnds` excludes
such stores); nothing in the code ends either before the store.

## Plan

Done, in this order: `ManifestResolve`, `Dispatch`, `Engine`, `GuestTime`, `HttpBody`, `Tcp`, `Reload`,
`HttpFields`, `Transfer`, `SocketOptions`, and `Parts`, which checks the last four.

Next:

1. Proofs: an abstract specification of what a client of the engine sees (a command is answered once, and by
   the manifest in force), implemented by `Engine` step by step; the same for an invocation and `Dispatch`.
2. Requests of consecutive guests on one connection in `HttpBody` (the lock of the connection), and the
   restart of services in `Engine`.
3. `Transfer` as the inside of `Lower` and `Lift` in `Dispatch`, in a run of their own.
