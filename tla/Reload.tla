------------------------------- MODULE Reload -------------------------------
(***************************************************************************)
(* Where manifests come from (src/main.rs and crates/wasmlet/src/host.rs). *)
(* Main applies wasmlet.toml before anything else.  Then one task reads    *)
(* the file again at every SIGHUP, and another applies the spec of a       *)
(* Kubernetes pod at every event of its watch and writes the outcome into  *)
(* the status of the pod, which is an event again.  Each task waits for    *)
(* the answer of the engine before it goes on.                             *)
(*                                                                         *)
(* The pod, its versions and the watch belong to the API server, which     *)
(* changes nothing when it is sent what it has.  The watcher resumes a     *)
(* watch that breaks; only when its version has expired does it list the   *)
(* pods again, and tells of those that exist.  Events of other pods are    *)
(* skipped by the code and left out here.                                  *)
(***************************************************************************)
EXTENDS Integers, Sequences, FiniteSets

CONSTANTS
  Manifest,     \* contents of wasmlet.toml and specs of the pod
  Default,      \* the manifest without workloads and services
  NoFile,       \* there is no wasmlet.toml
  Error,        \* texts of errors
  Fetching,     \* Fetching[m]: how fetching the sources of m may end
  Applying,     \* Applying[m]: how the engine may answer to m
  Version,      \* resource versions
  MaxChanges    \* how often users and the network change something

Fetched == "fetched"    \* every source of a manifest was read
Applied == "applied"    \* the empty error of PodStatus
NoStatus == "unset"

ASSUME ReloadAssumption ==
  /\ Default \in Manifest /\ NoFile \notin Manifest
  /\ Error \cap {Fetched, Applied, NoStatus} = {}
  /\ Fetching \in [Manifest -> (SUBSET (Error \cup {Fetched})) \ {{}}]
  /\ Applying \in [Manifest -> (SUBSET (Error \cup {Applied})) \ {{}}]
  /\ Fetching[Default] = {Fetched} /\ Applying[Default] = {Applied}
  /\ Version # {}
  /\ MaxChanges \in Nat

Source == {"sighup", "k8s"}
Status == Error \cup {Applied, NoStatus}

VARIABLES
  main,       \* "starting", "ready", or "failed" when main has returned
  file,       \* wasmlet.toml
  signal,     \* a SIGHUP that the task has not received
  pod,        \* the pod: whether it exists, its version, spec and status
  watching,   \* the watch is up
  events,     \* its events that the task has not received
  task,       \* what each task does, and with which manifest
  chan,       \* the tasks with a command in the channel of the engine
  inForce,    \* the manifest in force, if any
  changes,    \* changes so far
  edited,     \* history: the file has changed since the last SIGHUP
  lastRead,   \* history: what was read last from the file
  lastSeen,   \* history: the manifest of the last event dealt with
  missed      \* history: the watch did not tell of the deletion

reloadVars == <<main, file, signal, pod, watching, events, task, chan,
                inForce, changes, edited, lastRead, lastSeen, missed>>
sources == <<file, signal, pod, watching>>
history == <<edited, lastRead, lastSeen, missed>>

Content == Manifest \cup {NoFile}
Event == [kind : {"apply", "delete"}, version : Version, spec : Manifest]
Work == [at : {"idle", "read", "load", "wait", "report"}, manifest : Manifest,
         kind : {"apply", "delete"}, version : Version, result : Status]

ReloadTypeOK ==
  /\ main \in {"starting", "ready", "failed"}
  /\ file \in Content
  /\ pod \in [exists : BOOLEAN, version : Version, spec : Manifest,
              status : Status]
  /\ {signal, watching, edited, missed} \subseteq BOOLEAN
  /\ events \in Seq(Event)
  /\ task \in [Source -> Work]
  /\ chan \in Seq(Source)
  /\ inForce \in Content
  /\ changes \in 0 .. MaxChanges
  /\ lastRead \in Content
  /\ lastSeen \in Manifest

FirstVersion == CHOOSE v \in Version : TRUE

NothingHappened ==
  /\ signal = FALSE
  /\ pod = [exists |-> FALSE, version |-> FirstVersion, spec |-> Default,
            status |-> NoStatus]
  /\ watching = FALSE /\ events = <<>>
  /\ task = [t \in Source |->
               [at |-> "idle", manifest |-> Default, kind |-> "apply",
                version |-> FirstVersion, result |-> NoStatus]]
  /\ chan = <<>>
  /\ inForce = NoFile
  /\ changes = 0
  /\ edited = FALSE /\ lastRead = NoFile
  /\ lastSeen = Default /\ missed = FALSE

ReloadInit == main = "starting" /\ file \in Content /\ NothingHappened

-----------------------------------------------------------------------------
(***************************************************************************)
(* Users.  A version that nobody refers to any more stands for a new one:  *)
(* versions are only compared with each other.                             *)
(***************************************************************************)
Change == changes < MaxChanges /\ changes' = changes + 1

Known == {pod.version, task["k8s"].version}
           \cup {events[i].version : i \in DOMAIN events}

NewVersion == CHOOSE v \in Version : v \notin Known

Tell(kind, p) ==
  events' = IF watching
            THEN Append(events, [kind |-> kind, version |-> p.version,
                                 spec |-> p.spec])
            ELSE events

EditFile(f) ==
  /\ main = "ready" /\ f # file /\ Change
  /\ file' = f
  /\ edited' = TRUE
  /\ UNCHANGED <<main, signal, pod, watching, events, task, chan, inForce,
                 lastRead, lastSeen, missed>>

(***************************************************************************)
(* The handler of SIGHUP is installed after the first manifest has been    *)
(* applied; until then the signal ends the process.                        *)
(***************************************************************************)
Hangup ==
  /\ main # "failed" /\ Change
  /\ \/ /\ main = "starting" /\ main' = "failed"
        /\ UNCHANGED <<signal, edited>>
     \/ /\ main = "ready" /\ UNCHANGED main
        /\ signal' = TRUE
        /\ edited' = FALSE
  /\ UNCHANGED <<file, pod, watching, events, task, chan, inForce, lastRead,
                 lastSeen, missed>>

PutPod(m) ==
  /\ Version \ Known # {} /\ Change
  /\ pod.exists => pod.spec # m
  /\ pod' = [exists |-> TRUE, version |-> NewVersion, spec |-> m,
             status |-> IF pod.exists THEN pod.status ELSE NoStatus]
  /\ Tell("apply", pod')
  /\ missed' = FALSE
  /\ UNCHANGED <<main, file, signal, watching, task, chan, inForce, edited,
                 lastRead, lastSeen>>

DeletePod ==
  /\ Version \ Known # {} /\ Change
  /\ pod.exists
  /\ pod' = [pod EXCEPT !.exists = FALSE, !.version = NewVersion]
  /\ Tell("delete", pod')
  /\ missed' = ~ watching
  /\ UNCHANGED <<main, file, signal, watching, task, chan, inForce, edited,
                 lastRead, lastSeen>>

(***************************************************************************)
(* The watch.                                                              *)
(***************************************************************************)
Expire ==
  /\ watching /\ Change
  /\ watching' = FALSE
  /\ events' = <<>>
  /\ missed' = (missed \/ \E i \in DOMAIN events : /\ events[i].kind = "delete"
                                                  /\ ~ pod.exists)
  /\ UNCHANGED <<main, file, signal, pod, task, chan, inForce, edited,
                 lastRead, lastSeen>>

List ==
  /\ main = "ready" /\ ~ watching
  /\ watching' = TRUE
  /\ events' = IF pod.exists
               THEN <<[kind |-> "apply", version |-> pod.version,
                       spec |-> pod.spec]>>
               ELSE <<>>
  /\ UNCHANGED <<main, file, signal, pod, task, chan, inForce, changes,
                 history>>

-----------------------------------------------------------------------------
Read(f) == IF f = NoFile THEN Default ELSE f

(***************************************************************************)
(* What a load of m may end with.  Files and servers are read anew by each *)
(* load: one may fail where the last did not, or get other contents.       *)
(***************************************************************************)
Outcomes(m) ==
  (Fetching[m] \ {Fetched})
    \cup (IF Fetched \in Fetching[m] THEN Applying[m] ELSE {})

(***************************************************************************)
(* Main applies the file if there is one, and returns its error.           *)
(***************************************************************************)
Start ==
  /\ main = "starting"
  /\ \E result \in IF file = NoFile THEN {Applied} ELSE Outcomes(file) :
       IF result = Applied
       THEN main' = "ready" /\ inForce' = file
       ELSE main' = "failed" /\ UNCHANGED inForce
  /\ lastRead' = file
  /\ UNCHANGED <<sources, events, task, chan, changes, edited, lastSeen,
                 missed>>

(***************************************************************************)
(* Receiving the signal clears it; any number of signals since then are    *)
(* one.                                                                    *)
(***************************************************************************)
ReceiveHangup ==
  /\ main = "ready" /\ task["sighup"].at = "idle" /\ signal
  /\ signal' = FALSE
  /\ task' = [task EXCEPT !["sighup"].at = "read"]
  /\ UNCHANGED <<main, file, pod, watching, events, chan, inForce, changes,
                 history>>

ReadFile ==
  /\ task["sighup"].at = "read"
  /\ task' = [task EXCEPT !["sighup"].at = "load",
                          !["sighup"].manifest = Read(file)]
  /\ lastRead' = file
  /\ UNCHANGED <<main, sources, events, chan, inForce, changes, edited,
                 lastSeen, missed>>

(***************************************************************************)
(* An event of the pod.  A deleted pod leaves the default manifest, which  *)
(* has nothing to load.                                                    *)
(***************************************************************************)
ReceiveEvent ==
  /\ main = "ready" /\ task["k8s"].at = "idle" /\ events # <<>>
  /\ LET e == Head(events) IN
       /\ task' = [task EXCEPT !["k8s"] =
                     [at |-> IF e.kind = "apply" THEN "load" ELSE "wait",
                      manifest |-> IF e.kind = "apply" THEN e.spec ELSE Default,
                      kind |-> e.kind, version |-> e.version, result |-> NoStatus]]
       /\ chan' = IF e.kind = "apply" THEN chan ELSE Append(chan, "k8s")
       /\ lastSeen' = IF e.kind = "apply" THEN e.spec ELSE Default
  /\ events' = Tail(events)
  /\ UNCHANGED <<main, sources, inForce, changes, edited, lastRead, missed>>

(***************************************************************************)
(* The answer: the task of the signal logs it, the other one reports it    *)
(* unless the pod is gone.                                                 *)
(***************************************************************************)
Answer(t, result) ==
  task' = [task EXCEPT ![t].at = IF t = "k8s" /\ task[t].kind = "apply"
                                 THEN "report" ELSE "idle",
                       ![t].result = result]

(***************************************************************************)
(* All sources are fetched before the manifest is sent; one that cannot be *)
(* read this time ends the load with its error, and is not tried again.    *)
(***************************************************************************)
Load(t) ==
  /\ task[t].at = "load"
  /\ \/ /\ \E e \in Fetching[task[t].manifest] \ {Fetched} : Answer(t, e)
        /\ UNCHANGED chan
     \/ /\ Fetched \in Fetching[task[t].manifest]
        /\ task' = [task EXCEPT ![t].at = "wait"]
        /\ chan' = Append(chan, t)
  /\ UNCHANGED <<main, sources, events, inForce, changes, history>>

EngineApplies ==
  /\ chan # <<>>
  /\ LET t == Head(chan)
         m == task[t].manifest
     IN \E result \in Applying[m] :
          /\ Answer(t, result)
          /\ inForce' = IF result = Applied THEN m ELSE inForce
  /\ chan' = Tail(chan)
  /\ UNCHANGED <<main, sources, events, changes, history>>

\* Mutant: the status is sent without the version it is about.
AcceptsStatusAlways(version) == pod.exists
\* Mutant: the status tells when it was written.
StatusOfDated(w) ==
  CHOOSE s \in Status : s # pod.status

(***************************************************************************)
(* replace_status: the server refuses it when the pod has changed since    *)
(* the event, which is logged, as is a request that fails.                 *)
(***************************************************************************)
AcceptsStatus(version) == pod.exists /\ pod.version = version

StatusOf(w) == w.result

Report ==
  /\ task["k8s"].at = "report"
  /\ task' = [task EXCEPT !["k8s"].at = "idle"]
  /\ LET status == StatusOf(task["k8s"]) IN
       \/ /\ AcceptsStatus(task["k8s"].version) /\ status # pod.status
          /\ Version \ Known # {}
          /\ pod' = [pod EXCEPT !.status = status, !.version = NewVersion]
          /\ Tell("apply", pod')
          /\ UNCHANGED changes
       \/ /\ ~ AcceptsStatus(task["k8s"].version) \/ status = pod.status
          /\ UNCHANGED <<pod, events, changes>>
       \/ Change /\ UNCHANGED <<pod, events>>
  /\ UNCHANGED <<main, file, signal, watching, chan, inForce, history>>

-----------------------------------------------------------------------------
Users ==
  \/ \E f \in Content : EditFile(f)
  \/ Hangup
  \/ \E m \in Manifest : PutPod(m)
  \/ DeletePod
  \/ Expire

SighupTask == ReceiveHangup \/ ReadFile \/ Load("sighup")

K8sTask == List \/ ReceiveEvent \/ Load("k8s") \/ Report

ReloadNext == Users \/ Start \/ SighupTask \/ K8sTask \/ EngineApplies

(***************************************************************************)
(* Tasks that are ready run, and the engine answers (Engine).  That a load *)
(* ends is up to the servers it fetches from: fetch_src has no timeout.    *)
(***************************************************************************)
ReloadFairness ==
  /\ WF_reloadVars(Start) /\ WF_reloadVars(SighupTask)
  /\ WF_reloadVars(K8sTask) /\ WF_reloadVars(EngineApplies)

ReloadSpec == ReloadInit /\ [][ReloadNext]_reloadVars /\ ReloadFairness

-----------------------------------------------------------------------------
(***************************************************************************)
(* A status that the task writes is about the spec that the pod has at     *)
(* that moment: an edit while the manifest was loaded or applied, or a pod *)
(* deleted and created again, never gets the outcome of the spec before.   *)
(***************************************************************************)
StatusIsOfSpec ==
  [][pod.exists /\ pod'.exists /\ pod'.status # pod.status
       => /\ task["k8s"].manifest = pod'.spec
          /\ pod'.status \in Outcomes(pod'.spec)]_reloadVars

Quiet ==
  /\ ~ signal /\ watching /\ events = <<>> /\ chan = <<>>
  /\ \A t \in Source : task[t].at = "idle"

(***************************************************************************)
(* When there is nothing left to do, the file was read after the last      *)
(* signal, the last event dealt with had the spec of the pod, and the      *)
(* deletion of the pod was noticed unless it happened while the watch had  *)
(* to be listed again.  If the last load of either succeeded, one of the   *)
(* two is in force.  If not, an older one may be, and stays so: a load     *)
(* that failed, be it for once, is not tried again before the next signal  *)
(* or event.                                                               *)
(***************************************************************************)
UpToDate ==
  /\ ~ edited => lastRead = file
  /\ pod.exists => lastSeen = pod.spec
  /\ ~ pod.exists => lastSeen = Default \/ missed
  /\ (\A t \in Source : task[t].result \in {Applied, NoStatus}) =>
       inForce \in {lastRead, Read(lastRead), lastSeen}

(***************************************************************************)
(* Reloading comes to rest, although every status that is written is an    *)
(* event that reloads the manifest: the second status equals the first.    *)
(* The exception is a pod whose spec fares differently from load to load:  *)
(* one source that fails now and then is enough, or several that fail.     *)
(* Each change of its status loads it again, so that nothing ends this but *)
(* loads that go alike.                                                    *)
(***************************************************************************)
Settles ==
  \/ <>[](main = "failed" \/ (Quiet /\ UpToDate))
  \/ []<><<pod'.status # pod.status
           /\ Cardinality(Outcomes(pod.spec)) > 1>>_reloadVars
=============================================================================
