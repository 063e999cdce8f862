--------------------------- MODULE DispatchProofs ---------------------------
(***************************************************************************)
(* Theorems about Dispatch, for any manifest, any limits and any number of *)
(* invocations: its types, that an answer is lost only to a panic, to the  *)
(* end of its caller or to the retirement of the manifest, and that only   *)
(* idle instances exhaust the allocator.                                   *)
(*                                                                         *)
(* None of the three is inductive.  What they rest on is where a call may  *)
(* be (QueueInv, WaitingInv, ThreadInv), whom it was made by (ImportInv,   *)
(* ReplyInv) and what its store may hold at each stage (StoreInv).         *)
(***************************************************************************)
EXTENDS Dispatch, FiniteSums

(***************************************************************************)
(* A channel holds calls for its own workload, each once, and no call has  *)
(* got further while it is there.                                          *)
(***************************************************************************)
QueueInv ==
  \A w \in Workload :
    /\ \A i \in DOMAIN queue[w] : /\ stage[queue[w][i]] = "queued"
                                  /\ target[queue[w][i]] = w
    /\ \A i, j \in DOMAIN queue[w] : queue[w][i] = queue[w][j] => i = j

(***************************************************************************)
(* The same of the semaphore's queue.                                      *)
(***************************************************************************)
WaitingInv ==
  /\ \A i \in DOMAIN waiting : stage[waiting[i]] = "engine"
  /\ \A i, j \in DOMAIN waiting : waiting[i] = waiting[j] => i = j

(***************************************************************************)
(* Whoever has been received is served by a thread that runs.              *)
(***************************************************************************)
ThreadInv ==
  \A c \in Call : stage[c] \in Tasks \cup {"permit", "engine"}
                    => target[c] \in threads

(***************************************************************************)
(* A call through an import was made by a guest that has the import.       *)
(***************************************************************************)
ImportInv ==
  \A c \in Call :
    /\ parent[c] # Host => /\ stage[c] # "idle"
                           /\ stage[parent[c]] # "idle"
                           /\ target[c] \in Imports[target[parent[c]]]
    /\ stage[c] \in {"sending", "offered", "returned", "returning"}
         => parent[c] # Host

(***************************************************************************)
(* An answer ends a call.                                                  *)
(***************************************************************************)
ReplyInv == \A c \in Call : stage[c] # "done" => reply[c] = "none"

(***************************************************************************)
(* Only a task has a store.  It is lost under the task only if the caller  *)
(* that had borrowed it is gone.                                           *)
(***************************************************************************)
StoresAt(s) ==
  CASE s = "spawned" -> {"new", "sound", "trapped"}
    [] s = "offered" -> {"failed", "sound", "trapped", "none"}
    [] s = "returned" -> {"sound", "trapped", "none"}
    [] s \in {"running", "returning"} -> {"sound", "trapped"}
    [] s \in Stages \ Tasks -> {"none"}

StoreInv ==
  \A c \in Call :
    /\ store[c] \in StoresAt(stage[c])
    /\ stage[c] \in {"offered", "returned"} /\ store[c] = "none"
         => stage[parent[c]] = "done"

(***************************************************************************)
(* Both semaphores are kept.                                               *)
(***************************************************************************)
PermitsInv ==
  IsFiniteSet(EnginePermits) /\ Cardinality(EnginePermits) <= MaxInstances

IInv ==
  /\ TypeOK
  /\ QueueInv /\ WaitingInv /\ ThreadInv /\ ImportInv /\ ReplyInv /\ StoreInv
  /\ PermitsInv

-----------------------------------------------------------------------------
(***************************************************************************)
(* What appending to a sequence and taking from it do to its elements.     *)
(***************************************************************************)
LEMMA Appended ==
  ASSUME NEW S, NEW s \in Seq(S), NEW x \in S
  PROVE  /\ Append(s, x) \in Seq(S) /\ Len(Append(s, x)) = Len(s) + 1
         /\ \A i \in DOMAIN Append(s, x) :
              \/ i \in DOMAIN s /\ Append(s, x)[i] = s[i]
              \/ i = Len(s) + 1 /\ Append(s, x)[i] = x
OBVIOUS

LEMMA Taken ==
  ASSUME NEW S, NEW s \in Seq(S), s # <<>>
  PROVE  /\ Head(s) \in S /\ 1 \in DOMAIN s /\ Head(s) = s[1]
         /\ Tail(s) \in Seq(S) /\ Len(Tail(s)) = Len(s) - 1 /\ Len(s) >= 1
         /\ \A i \in DOMAIN Tail(s) :
              i + 1 \in DOMAIN s /\ i # 0 /\ Tail(s)[i] = s[i + 1]
OBVIOUS

(***************************************************************************)
(* A set with a member more, or less.                                      *)
(***************************************************************************)
LEMMA Counted ==
  ASSUME NEW S, IsFiniteSet(S), NEW n \in Nat, Cardinality(S) <= n, NEW T
  PROVE  /\ T \subseteq S => IsFiniteSet(T) /\ Cardinality(T) <= n
         /\ \A x : T \subseteq S \cup {x} /\ Cardinality(S) < n
                     => IsFiniteSet(T) /\ Cardinality(T) <= n
<1>1. Cardinality(S) \in Nat
  BY FS_CardinalityType
<1>2. ASSUME T \subseteq S
      PROVE  IsFiniteSet(T) /\ Cardinality(T) <= n
  <2>1. IsFiniteSet(T) /\ Cardinality(T) <= Cardinality(S)
    BY <1>2, FS_Subset
  <2>2. Cardinality(T) \in Nat
    BY <2>1, FS_CardinalityType
  <2> QED  BY <1>1, <2>1, <2>2
<1>3. ASSUME NEW x, T \subseteq S \cup {x}, Cardinality(S) < n
      PROVE  IsFiniteSet(T) /\ Cardinality(T) <= n
  <2>1. /\ IsFiniteSet(S \cup {x})
        /\ Cardinality(S \cup {x}) \in {Cardinality(S), Cardinality(S) + 1}
    BY FS_AddElement
  <2>2. IsFiniteSet(T) /\ Cardinality(T) <= Cardinality(S \cup {x})
    BY <1>3, <2>1, FS_Subset
  <2>3. Cardinality(T) \in Nat
    BY <2>2, FS_CardinalityType
  <2> QED  BY <1>1, <1>3, <2>1, <2>2, <2>3
<1> QED  BY <1>2, <1>3

(***************************************************************************)
(* The pool keeps its bound, whether it takes an instance or not.          *)
(***************************************************************************)
PoolOK ==
  /\ pool \in [Workload -> Seq(Instances)]
  /\ \A w \in Workload : Len(pool[w]) <= PoolSize[w]

LEMMA GivenBack ==
  ASSUME PoolOK, NEW w \in Workload, NEW instance \in Instances,
         pool' = GiveBack(w, instance)
  PROVE  PoolOK'
<1>1. pool[w] \in Seq(Instances) /\ PoolSize[w] \in Nat
  BY LimitAssumption DEF PoolOK
<1> DEFINE longer == Append(pool[w], instance)
<1>2. longer \in Seq(Instances) /\ Len(longer) = Len(pool[w]) + 1
  BY <1>1, Appended
<1> HIDE DEF longer
<1>3. CASE Len(pool[w]) < PoolSize[w]
  <2>1. pool' = [pool EXCEPT ![w] = longer]
    BY <1>3 DEF GiveBack, longer
  <2>2. Len(longer) <= PoolSize[w]
    BY <1>1, <1>2, <1>3
  <2> QED  BY <1>2, <2>1, <2>2 DEF PoolOK
<1>4. CASE ~ Len(pool[w]) < PoolSize[w]
  BY <1>4 DEF GiveBack, PoolOK
<1> QED  BY <1>3, <1>4

(***************************************************************************)
(* The types of what has one value for each call.                          *)
(***************************************************************************)
CallsOK ==
  /\ stage \in [Call -> Stages]
  /\ target \in [Call -> Workload]
  /\ parent \in [Call -> Call \cup {Host}]
  /\ store \in [Call -> Stores]
  /\ reply \in [Call -> Replies]

ChannelsOK ==
  /\ queue \in [Workload -> Seq(Call)]
  /\ \A w \in Workload : Len(queue[w]) <= Limit[w]
  /\ waiting \in Seq(Call)

ThreadsOK == scheduled \in SUBSET Workload /\ threads \in SUBSET Workload

LEMMA TypeParts == TypeOK <=> CallsOK /\ PoolOK /\ ChannelsOK /\ ThreadsOK
BY DEF TypeOK, CallsOK, PoolOK, ChannelsOK, ThreadsOK, Instances

LEMMA TypePartsNext ==
  TypeOK' <=> CallsOK' /\ PoolOK' /\ ChannelsOK' /\ ThreadsOK'
BY DEF TypeOK, CallsOK, PoolOK, ChannelsOK, ThreadsOK, Instances

(***************************************************************************)
(* StoresAt, stage by stage.                                               *)
(***************************************************************************)
LEMMA StoresAtStages ==
  /\ StoresAt("spawned") = {"new", "sound", "trapped"}
  /\ StoresAt("offered") = {"failed", "sound", "trapped", "none"}
  /\ StoresAt("returned") = {"sound", "trapped", "none"}
  /\ StoresAt("running") = {"sound", "trapped"}
  /\ StoresAt("returning") = {"sound", "trapped"}
  /\ \A s \in Stages \ Tasks : StoresAt(s) = {"none"}
  /\ \A s \in Stages : StoresAt(s) \subseteq Stores
BY DEF StoresAt, Stages, Tasks, Stores

-----------------------------------------------------------------------------
(***************************************************************************)
(* The invariant holds at the start.                                       *)
(***************************************************************************)
LEMMA InitIInv == Init => IInv
<1> SUFFICES ASSUME Init
             PROVE  IInv
  OBVIOUS
<1>1. CallsOK
  <2>1. (CHOOSE w \in Workload : TRUE) \in Workload
    BY WorkloadAssumption
  <2> HIDE WorkloadAssumption
  <2> QED  BY <2>1 DEF Init, CallsOK, Stages, Stores, Replies
<1>2. PoolOK
  BY LimitAssumption DEF Init, PoolOK
<1>3. ChannelsOK /\ ThreadsOK
  BY LimitAssumption DEF Init, ChannelsOK, ThreadsOK
<1>4. QueueInv /\ WaitingInv
  BY DEF Init, QueueInv, WaitingInv
<1>5. ThreadInv /\ ImportInv /\ ReplyInv
  BY DEF Init, ThreadInv, ImportInv, ReplyInv, Tasks
<1>6. StoreInv
  BY StoresAtStages DEF Init, StoreInv, Stages, Tasks
<1>7. PermitsInv
  <2>1. EnginePermits = {}
    BY DEF Init, EnginePermits, Tasks
  <2> QED  BY <2>1, FS_EmptySet, LimitAssumption DEF PermitsInv
<1> QED  BY <1>1, <1>2, <1>3, <1>4, <1>5, <1>6, <1>7, TypeParts DEF IInv

-----------------------------------------------------------------------------
(***************************************************************************)
(* A task ends, whatever it gives as its answer: it touches nobody else    *)
(* but the instance of a caller whose guest runs.                          *)
(***************************************************************************)
LEMMA EndPreserves ==
  ASSUME IInv, NEW c \in Call,
         NEW answer \in {"ok", "error", "dropped", "panicked"},
         stage[c] \in Tasks, End(c, answer), PoolOK',
         UNCHANGED <<target, parent, queue, waiting, scheduled, threads>>
  PROVE  IInv'
<1> USE HostAssumption
<1>1. CallsOK /\ ChannelsOK /\ ThreadsOK
  BY TypeParts DEF IInv
<1>2. /\ stage' \in [Call -> Stages] /\ reply' \in [Call -> Replies]
      /\ stage'[c] = "done" /\ reply'[c] = answer
      /\ \A d \in Call \ {c} : stage'[d] = stage[d] /\ reply'[d] = reply[d]
  BY <1>1 DEF End, CallsOK, Stages, Replies
<1>3. /\ store' \in [Call -> Stores] /\ store'[c] = "none"
      /\ \A d \in Call \ {c} : \/ store'[d] = store[d]
                               \/ stage[d] = "running" /\ store'[d] = "trapped"
  BY <1>1 DEF End, CallsOK, Stores, CallerWaits
<1>4. CallsOK' /\ ChannelsOK' /\ ThreadsOK'
  BY <1>1, <1>2, <1>3 DEF CallsOK, ChannelsOK, ThreadsOK
<1>5. QueueInv'
  <2>1. stage[c] # "queued"
    BY DEF Tasks
  <2>2. \A w \in Workload : \A i \in DOMAIN queue[w] : queue[w][i] \in Call
    BY <1>1 DEF ChannelsOK
  <2> QED  BY <1>2, <2>1, <2>2 DEF IInv, QueueInv
<1>6. WaitingInv'
  <2>1. stage[c] # "engine"
    BY DEF Tasks
  <2>2. \A i \in DOMAIN waiting : waiting[i] \in Call
    BY <1>1 DEF ChannelsOK
  <2> QED  BY <1>2, <2>1, <2>2 DEF IInv, WaitingInv
<1>7. ThreadInv'
  BY <1>2 DEF IInv, ThreadInv, Tasks
<1>8. ImportInv'
  BY <1>1, <1>2 DEF IInv, ImportInv, CallsOK
<1>9. ReplyInv'
  BY <1>2 DEF IInv, ReplyInv
<1>10. StoreInv'
  <2>1. ASSUME NEW d \in Call
        PROVE  store'[d] \in StoresAt(stage'[d])
    BY <1>2, <1>3, StoresAtStages DEF IInv, StoreInv, Stages, Tasks
  <2>2. ASSUME NEW d \in Call, stage'[d] \in {"offered", "returned"},
               store'[d] = "none"
        PROVE  stage'[parent[d]] = "done"
    <3>1. d # c /\ stage[d] = stage'[d] /\ store[d] = "none"
      BY <1>2, <1>3, <2>2
    <3>2. stage[parent[d]] = "done" /\ parent[d] \in Call
      BY <1>1, <2>2, <3>1 DEF IInv, StoreInv, ImportInv, CallsOK
    <3> QED  BY <1>2, <3>2
  <2> QED  BY <2>1, <2>2 DEF StoreInv
<1>11. PermitsInv'
  <2>1. EnginePermits' \subseteq EnginePermits
    BY <1>2 DEF EnginePermits, Tasks
  <2> QED  BY <2>1, Counted, LimitAssumption DEF IInv, PermitsInv
<1> QED  BY <1>4, <1>5, <1>6, <1>7, <1>8, <1>9, <1>10, <1>11, TypePartsNext
         DEF IInv

(***************************************************************************)
(* A task goes on to its next stage, with an instance that fits it.        *)
(***************************************************************************)
LEMMA TaskPreserves ==
  ASSUME IInv, NEW c \in Call, NEW s \in Tasks, NEW instance,
         stage[c] \in Tasks, stage' = [stage EXCEPT ![c] = s],
         store' = [store EXCEPT ![c] = instance],
         instance \in StoresAt(s) \ {"none"},
         s # "running" => parent[c] # Host,
         UNCHANGED <<target, parent, pool, queue, waiting, reply, scheduled,
                     threads>>
  PROVE  IInv'
<1> USE HostAssumption
<1>1. CallsOK /\ PoolOK /\ ChannelsOK /\ ThreadsOK
  BY TypeParts DEF IInv
<1>2. s \in Stages /\ instance \in Stores
  BY StoresAtStages DEF Stages, Tasks
<1>3. /\ stage' \in [Call -> Stages] /\ stage'[c] = s
      /\ \A d \in Call \ {c} : stage'[d] = stage[d]
  BY <1>1, <1>2 DEF CallsOK
<1>4. /\ store' \in [Call -> Stores] /\ store'[c] = instance
      /\ \A d \in Call \ {c} : store'[d] = store[d]
  BY <1>1, <1>2 DEF CallsOK
<1>5. CallsOK' /\ PoolOK' /\ ChannelsOK' /\ ThreadsOK'
  BY <1>1, <1>3, <1>4 DEF CallsOK, PoolOK, ChannelsOK, ThreadsOK
<1>6. QueueInv'
  <2>1. stage[c] # "queued"
    BY DEF Tasks
  <2>2. \A w \in Workload : \A i \in DOMAIN queue[w] : queue[w][i] \in Call
    BY <1>1 DEF ChannelsOK
  <2> QED  BY <1>3, <2>1, <2>2 DEF IInv, QueueInv
<1>7. WaitingInv'
  <2>1. stage[c] # "engine"
    BY DEF Tasks
  <2>2. \A i \in DOMAIN waiting : waiting[i] \in Call
    BY <1>1 DEF ChannelsOK
  <2> QED  BY <1>3, <2>1, <2>2 DEF IInv, WaitingInv
<1>8. ThreadInv'
  BY <1>3 DEF IInv, ThreadInv
<1>9. ImportInv'
  BY <1>1, <1>3 DEF IInv, ImportInv, CallsOK, Tasks
<1>10. ReplyInv'
  BY <1>3 DEF IInv, ReplyInv, Tasks
<1>11. StoreInv'
  <2>1. ASSUME NEW d \in Call
        PROVE  store'[d] \in StoresAt(stage'[d])
    BY <1>3, <1>4 DEF IInv, StoreInv
  <2>2. ASSUME NEW d \in Call, stage'[d] \in {"offered", "returned"},
               store'[d] = "none"
        PROVE  stage'[parent[d]] = "done"
    <3>1. d # c /\ stage[d] = stage'[d] /\ store[d] = "none"
      BY <1>3, <1>4, <2>2
    <3>2. stage[parent[d]] = "done" /\ parent[d] \in Call
      BY <1>1, <2>2, <3>1 DEF IInv, StoreInv, ImportInv, CallsOK
    <3> QED  BY <1>3, <3>2 DEF Tasks
  <2> QED  BY <2>1, <2>2 DEF StoreInv
<1>12. PermitsInv'
  <2>1. EnginePermits' \subseteq EnginePermits
    BY <1>3 DEF EnginePermits
  <2> QED  BY <2>1, Counted, LimitAssumption DEF IInv, PermitsInv
<1> QED  BY <1>5, <1>6, <1>7, <1>8, <1>9, <1>10, <1>11, <1>12, TypePartsNext
         DEF IInv

-----------------------------------------------------------------------------
(***************************************************************************)
(* The steps of a task.  A caller that waits has lent the store back: it   *)
(* is not lost under the task.                                             *)
(***************************************************************************)
LEMMA LentBack ==
  ASSUME IInv, NEW c \in Call, CallerWaits(c),
         stage[c] \in {"offered", "returned"}
  PROVE  store[c] \in StoresAt(stage[c]) \ {"none"}
BY DEF IInv, StoreInv, CallerWaits

LEMMA InstantiatePreserves ==
  ASSUME IInv, NEW c \in Call, Instantiate(c)
  PROVE  IInv'
<1> USE HostAssumption
<1>1. CallsOK /\ PoolOK
  BY TypeParts DEF IInv
<1>2. stage[c] = "spawned" /\ stage[c] \in Tasks
  BY DEF Instantiate, Tasks
<1>3. store[c] \in {"new", "sound", "trapped"}
  BY <1>2, StoresAtStages DEF IInv, StoreInv
<1>4. Instantiated(c) \subseteq {"sound", "trapped", "failed"}
  BY <1>3 DEF Instantiated
<1>5. PICK instance \in Instantiated(c) :
        \/ /\ parent[c] = Host /\ instance = "failed"
           /\ End(c, "error")
           /\ UNCHANGED pool
        \/ /\ \/ parent[c] = Host /\ instance # "failed"
              \/ CallerWaits(c)
           /\ stage' = [stage EXCEPT ![c] = IF parent[c] = Host THEN "running"
                                            ELSE "offered"]
           /\ store' = [store EXCEPT ![c] = instance]
           /\ UNCHANGED <<pool, reply>>
        \/ /\ parent[c] # Host /\ ~ CallerWaits(c)
           /\ End(c, "dropped")
           /\ pool' = IF instance = "failed" THEN pool
                      ELSE GiveBack(target[c], instance)
  BY DEF Instantiate
<1>6. UNCHANGED <<target, parent, queue, waiting, scheduled, threads>>
  BY DEF Instantiate
<1>7. CASE parent[c] = Host /\ End(c, "error") /\ UNCHANGED pool
  <2>1. PoolOK'
    BY <1>1, <1>7 DEF PoolOK
  <2> QED  BY <1>2, <1>6, <1>7, <2>1, EndPreserves
<1>8. CASE /\ \/ parent[c] = Host /\ instance # "failed"
              \/ CallerWaits(c)
           /\ stage' = [stage EXCEPT ![c] = IF parent[c] = Host THEN "running"
                                            ELSE "offered"]
           /\ store' = [store EXCEPT ![c] = instance]
           /\ UNCHANGED <<pool, reply>>
  <2> DEFINE s == IF parent[c] = Host THEN "running" ELSE "offered"
  <2>1. /\ s \in Tasks /\ instance \in StoresAt(s) \ {"none"}
        /\ s # "running" => parent[c] # Host
    BY <1>4, <1>8, StoresAtStages DEF Tasks, CallerWaits
  <2>2. stage' = [stage EXCEPT ![c] = s]
    BY <1>8
  <2> HIDE DEF s
  <2> QED  BY <1>2, <1>6, <1>8, <2>1, <2>2, TaskPreserves
<1>9. CASE /\ parent[c] # Host
           /\ End(c, "dropped")
           /\ pool' = IF instance = "failed" THEN pool
                      ELSE GiveBack(target[c], instance)
  <2>1. PoolOK'
    <3>1. CASE instance = "failed"
      BY <1>1, <1>9, <3>1 DEF PoolOK
    <3>2. CASE instance # "failed"
      <4>1. target[c] \in Workload /\ instance \in Instances
        BY <1>1, <1>4, <3>2 DEF CallsOK, Instances
      <4> QED  BY <1>1, <1>9, <3>2, <4>1, GivenBack
    <3> QED  BY <3>1, <3>2
  <2> QED  BY <1>2, <1>6, <1>9, <2>1, EndPreserves
<1> QED  BY <1>5, <1>7, <1>8, <1>9

LEMMA LowerPreserves ==
  ASSUME IInv, NEW c \in Call, Lower(c)
  PROVE  IInv'
<1>1. /\ stage[c] = "offered" /\ stage[c] \in Tasks /\ CallerWaits(c)
      /\ UNCHANGED <<target, parent, pool, queue, waiting, scheduled, threads>>
  BY DEF Lower, Tasks
<1>2. CASE End(c, "error")
  <2>1. PoolOK'
    BY <1>1, TypeParts DEF IInv, PoolOK
  <2> QED  BY <1>1, <1>2, <2>1, EndPreserves
<1>3. CASE /\ store[c] # "failed"
           /\ stage' = [stage EXCEPT ![c] = "running"]
           /\ UNCHANGED <<store, reply>>
  <2>1. store[c] \in StoresAt("running") \ {"none"}
    BY <1>1, <1>3, LentBack, StoresAtStages
  <2>2. store' = [store EXCEPT ![c] = store[c]]
    BY <1>3, TypeParts DEF IInv, CallsOK
  <2>3. "running" \in Tasks
    BY DEF Tasks
  <2> QED  BY <1>1, <1>3, <2>1, <2>2, <2>3, TaskPreserves
<1> QED  BY <1>2, <1>3 DEF Lower

LEMMA LiftPreserves ==
  ASSUME IInv, NEW c \in Call, Lift(c)
  PROVE  IInv'
<1>1. /\ stage[c] = "returned" /\ stage[c] \in Tasks /\ CallerWaits(c)
      /\ UNCHANGED <<target, parent, pool, queue, waiting, scheduled, threads>>
  BY DEF Lift, Tasks
<1>2. CASE End(c, "error")
  <2>1. PoolOK'
    BY <1>1, TypeParts DEF IInv, PoolOK
  <2> QED  BY <1>1, <1>2, <2>1, EndPreserves
<1>3. CASE /\ stage' = [stage EXCEPT ![c] = "returning"]
           /\ UNCHANGED <<store, reply>>
  <2>1. store[c] \in StoresAt("returning") \ {"none"}
    BY <1>1, LentBack, StoresAtStages
  <2>2. store' = [store EXCEPT ![c] = store[c]]
    BY <1>3, TypeParts DEF IInv, CallsOK
  <2>3. "returning" \in Tasks /\ parent[c] # Host
    BY <1>1 DEF Tasks, CallerWaits
  <2> QED  BY <1>1, <1>3, <2>1, <2>2, <2>3, TaskPreserves
<1> QED  BY <1>2, <1>3 DEF Lift

LEMMA ReturnPreserves ==
  ASSUME IInv, NEW c \in Call, Return(c)
  PROVE  IInv'
<1>1. /\ stage[c] = "returning" /\ stage[c] \in Tasks /\ End(c, "ok")
      /\ pool' = GiveBack(target[c], store[c])
      /\ UNCHANGED <<target, parent, queue, waiting, scheduled, threads>>
  BY DEF Return, Tasks
<1>2. store[c] \in Instances
  BY <1>1, StoresAtStages DEF IInv, StoreInv, Instances
<1>3. PoolOK'
  <2>1. PoolOK /\ target[c] \in Workload
    BY TypeParts DEF IInv, CallsOK
  <2> QED  BY <1>1, <1>2, <2>1, GivenBack
<1> QED  BY <1>1, <1>3, EndPreserves

LEMMA AbandonedPreserves ==
  ASSUME IInv, NEW c \in Call, Abandoned(c)
  PROVE  IInv'
<1>1. /\ stage[c] \in {"offered", "returned"} /\ stage[c] \in Tasks
      /\ End(c, "dropped")
      /\ UNCHANGED <<target, parent, pool, queue, waiting, scheduled, threads>>
  BY DEF Abandoned, Tasks
<1>2. parent[c] # Host
  BY <1>1 DEF IInv, ImportInv
<1>3. PoolOK'
  BY <1>1, TypeParts DEF IInv, PoolOK
<1> QED  BY <1>1, <1>2, <1>3, EndPreserves

LEMMA GuestOkPreserves ==
  ASSUME IInv, NEW c \in Call, GuestOk(c)
  PROVE  IInv'
<1>1. /\ stage[c] = "running" /\ stage[c] \in Tasks /\ store[c] = "sound"
      /\ UNCHANGED <<target, parent, queue, waiting, scheduled, threads>>
  BY DEF GuestOk, Tasks
<1>2. PoolOK /\ CallsOK
  BY TypeParts DEF IInv
<1>3. CASE End(c, "ok") /\ pool' = GiveBack(target[c], "sound")
  <2>1. target[c] \in Workload /\ "sound" \in Instances
    BY <1>2 DEF CallsOK, Instances
  <2>2. PoolOK'
    BY <1>2, <1>3, <2>1, GivenBack
  <2> QED  BY <1>1, <1>3, <2>2, EndPreserves
<1>4. CASE /\ CallerWaits(c)
           /\ stage' = [stage EXCEPT ![c] = "returned"]
           /\ UNCHANGED <<store, reply, pool>>
  <2>1. store' = [store EXCEPT ![c] = store[c]]
    BY <1>2, <1>4 DEF CallsOK
  <2>2. store[c] \in StoresAt("returned") \ {"none"}
    BY <1>1, StoresAtStages
  <2>3. "returned" \in Tasks /\ parent[c] # Host
    BY <1>4 DEF Tasks, CallerWaits
  <2> QED  BY <1>1, <1>4, <2>1, <2>2, <2>3, TaskPreserves
<1>5. CASE parent[c] # Host /\ End(c, "dropped") /\ UNCHANGED pool
  <2>1. PoolOK'
    BY <1>2, <1>5 DEF PoolOK
  <2> QED  BY <1>1, <1>5, <2>1, EndPreserves
<1> QED  BY <1>3, <1>4, <1>5 DEF GuestOk

LEMMA GuestErrorPreserves ==
  ASSUME IInv, NEW c \in Call, GuestError(c)
  PROVE  IInv'
<1>1. /\ stage[c] = "running" /\ stage[c] \in Tasks /\ End(c, "error")
      /\ UNCHANGED <<target, parent, queue, waiting, scheduled, threads>>
  BY DEF GuestError, Tasks
<1>2. PoolOK /\ target[c] \in Workload
  BY TypeParts DEF IInv, CallsOK
<1>3. PoolOK'
  <2>1. CASE UNCHANGED pool
    BY <1>2, <2>1 DEF PoolOK
  <2>2. ASSUME NEW instance \in {store[c], "trapped"},
               pool' = GiveBack(target[c], instance)
        PROVE  PoolOK'
    <3>1. instance \in Instances
      BY <1>1, StoresAtStages DEF IInv, StoreInv, Instances
    <3> QED  BY <1>2, <2>2, <3>1, GivenBack
  <2> QED  BY <2>1, <2>2 DEF GuestError
<1> QED  BY <1>1, <1>3, EndPreserves

LEMMA GuestPanicsPreserves ==
  ASSUME IInv, NEW c \in Call, GuestPanics(c)
  PROVE  IInv'
<1>1. /\ stage[c] = "running" /\ stage[c] \in Tasks /\ End(c, "panicked")
      /\ UNCHANGED <<target, parent, pool, queue, waiting, scheduled, threads>>
  BY DEF GuestPanics, Tasks
<1>2. PoolOK'
  BY <1>1, TypeParts DEF IInv, PoolOK
<1> QED  BY <1>1, <1>2, EndPreserves

-----------------------------------------------------------------------------
(***************************************************************************)
(* The capacity of a channel.                                              *)
(***************************************************************************)
LEMMA LimitIsNat == \A w \in Workload : Limit[w] \in Nat
<1>1. ASSUME NEW w \in Workload
      PROVE  Limit[w] \in Nat
  <2>1. Limit[w] \in 1 .. MaxInstances /\ MaxInstances \in Nat
    BY LimitAssumption
  <2> QED  BY <2>1
<1> QED  BY <1>1

(***************************************************************************)
(* A call enters a channel.                                                *)
(***************************************************************************)
LEMMA EnterPreserves ==
  ASSUME QueueInv, CallsOK, ChannelsOK, NEW c \in Call, NEW w \in Workload,
         stage[c] \in {"idle", "sending"}, Len(queue[w]) < Limit[w],
         CallsOK', stage'[c] = "queued", target'[c] = w,
         \A d \in Call \ {c} : stage'[d] = stage[d] /\ target'[d] = target[d],
         queue' = [queue EXCEPT ![w] = Append(@, c)], UNCHANGED waiting
  PROVE  QueueInv' /\ ChannelsOK'
<1> DEFINE longer == Append(queue[w], c)
<1>1. queue[w] \in Seq(Call) /\ Limit[w] \in Nat
  BY LimitIsNat DEF ChannelsOK
<1>2. /\ longer \in Seq(Call) /\ Len(longer) = Len(queue[w]) + 1
      /\ \A i \in DOMAIN longer :
           \/ i \in DOMAIN queue[w] /\ longer[i] = queue[w][i]
           \/ i = Len(queue[w]) + 1 /\ longer[i] = c
  BY <1>1, Appended
<1>3. queue' = [queue EXCEPT ![w] = longer]
  OBVIOUS
<1> HIDE DEF longer
<1>4. queue'[w] = longer /\ \A v \in Workload \ {w} : queue'[v] = queue[v]
  BY <1>3 DEF ChannelsOK
<1>5. ChannelsOK'
  <2>1. Len(longer) <= Limit[w]
    BY <1>1, <1>2
  <2> QED  BY <1>2, <1>3, <1>4, <2>1 DEF ChannelsOK
<1>6. \A v \in Workload : \A i \in DOMAIN queue[v] :
        /\ queue[v][i] \in Call \ {c} /\ stage[queue[v][i]] = "queued"
        /\ target[queue[v][i]] = v
  <2>1. \A v \in Workload : \A i \in DOMAIN queue[v] : queue[v][i] \in Call
    BY DEF ChannelsOK
  <2> QED  BY <2>1 DEF QueueInv
<1>7. QueueInv'
  <2>1. ASSUME NEW v \in Workload, v # w
        PROVE  /\ \A i \in DOMAIN queue'[v] : /\ stage'[queue'[v][i]] = "queued"
                                              /\ target'[queue'[v][i]] = v
               /\ \A i, j \in DOMAIN queue'[v] :
                    queue'[v][i] = queue'[v][j] => i = j
    <3>1. queue'[v] = queue[v]
      BY <1>4, <2>1
    <3>2. \A i \in DOMAIN queue[v] : /\ stage'[queue[v][i]] = "queued"
                                     /\ target'[queue[v][i]] = v
      BY <1>6
    <3>3. \A i, j \in DOMAIN queue[v] : queue[v][i] = queue[v][j] => i = j
      BY DEF QueueInv
    <3>4. \A i \in DOMAIN queue'[v] : /\ stage'[queue'[v][i]] = "queued"
                                      /\ target'[queue'[v][i]] = v
      BY ONLY <3>1, <3>2
    <3>5. \A i, j \in DOMAIN queue'[v] : queue'[v][i] = queue'[v][j] => i = j
      BY ONLY <3>1, <3>3
    <3> QED  BY <3>4, <3>5
  <2>2. \A i \in DOMAIN longer : /\ stage'[longer[i]] = "queued"
                                 /\ target'[longer[i]] = w
    BY <1>2, <1>6
  <2>3. ASSUME NEW i \in DOMAIN longer, NEW j \in DOMAIN longer,
               longer[i] = longer[j]
        PROVE  i = j
    BY <1>2, <1>6, <2>3 DEF QueueInv
  <2> QED  BY <1>4, <2>1, <2>2, <2>3 DEF QueueInv
<1> QED  BY <1>5, <1>7

(***************************************************************************)
(* The host's call, which may be refused.                                  *)
(***************************************************************************)
LEMMA InvokePreserves ==
  ASSUME IInv, NEW c \in Call, NEW w \in Workload, Invoke(c, w)
  PROVE  IInv'
<1> USE HostAssumption
<1>1. CallsOK /\ PoolOK /\ ChannelsOK /\ ThreadsOK
  BY TypeParts DEF IInv
<1>2. /\ stage[c] = "idle" /\ parent[c] = Host
      /\ reply[c] = "none" /\ store[c] = "none"
  <2>1. stage[c] = "idle"
    BY DEF Invoke
  <2> QED  BY <2>1, StoresAtStages
           DEF IInv, ImportInv, ReplyInv, StoreInv, Stages, Tasks
<1>3. /\ target' \in [Call -> Workload] /\ target'[c] = w
      /\ \A d \in Call \ {c} : target'[d] = target[d]
      /\ UNCHANGED <<parent, store, pool, waiting, scheduled, threads>>
  BY <1>1 DEF Invoke, CallsOK
<1>4. /\ stage' \in [Call -> Stages] /\ stage'[c] \in {"queued", "done"}
      /\ \A d \in Call \ {c} : stage'[d] = stage[d]
  BY <1>1 DEF Invoke, CallsOK, Stages
<1>5. /\ reply' \in [Call -> Replies] /\ reply'[c] \in {"none", "refused"}
      /\ stage'[c] # "done" => reply'[c] = "none"
      /\ \A d \in Call \ {c} : reply'[d] = reply[d]
  BY <1>1, <1>2 DEF Invoke, CallsOK, Replies
<1>6. CallsOK' /\ PoolOK' /\ ThreadsOK'
  BY <1>1, <1>3, <1>4, <1>5 DEF CallsOK, PoolOK, ThreadsOK
<1>7. QueueInv' /\ ChannelsOK'
  <2>1. CASE w \in scheduled /\ Len(queue[w]) < Limit[w]
    <3>1. stage'[c] = "queued" /\ queue' = [queue EXCEPT ![w] = Append(@, c)]
      BY <1>1, <2>1 DEF Invoke, CallsOK
    <3>2. QueueInv
      BY DEF IInv
    <3> QED  BY <1>1, <1>2, <1>3, <1>4, <1>6, <2>1, <3>1, <3>2,
                EnterPreserves
  <2>2. CASE ~ (w \in scheduled /\ Len(queue[w]) < Limit[w])
    <3>1. UNCHANGED queue
      BY <2>2 DEF Invoke
    <3>2. \A v \in Workload : \A i \in DOMAIN queue[v] :
            queue[v][i] \in Call \ {c}
      BY <1>1, <1>2 DEF IInv, QueueInv, ChannelsOK
    <3>3. ChannelsOK'
      BY <1>1, <1>3, <3>1 DEF ChannelsOK
    <3>4. QueueInv'
      BY <1>3, <1>4, <3>1, <3>2 DEF IInv, QueueInv
    <3> QED  BY <3>3, <3>4
  <2> QED  BY <2>1, <2>2
<1>8. WaitingInv'
  <2>1. \A i \in DOMAIN waiting : waiting[i] \in Call \ {c}
    BY <1>1, <1>2 DEF IInv, WaitingInv, ChannelsOK
  <2> QED  BY <1>3, <1>4, <2>1 DEF IInv, WaitingInv
<1>9. ThreadInv'
  BY <1>3, <1>4 DEF IInv, ThreadInv, Tasks
<1>10. ImportInv'
  <2>1. ASSUME NEW d \in Call, parent[d] # Host
        PROVE  d # c /\ parent[d] # c /\ parent[d] \in Call
    BY <1>1, <1>2, <2>1 DEF IInv, ImportInv, CallsOK
  <2> QED  BY <1>2, <1>3, <1>4, <2>1 DEF IInv, ImportInv
<1>11. ReplyInv'
  BY <1>3, <1>4, <1>5 DEF IInv, ReplyInv
<1>12. StoreInv'
  <2>1. ASSUME NEW d \in Call
        PROVE  store'[d] \in StoresAt(stage'[d])
    BY <1>2, <1>3, <1>4, StoresAtStages DEF IInv, StoreInv, Stages, Tasks
  <2>2. ASSUME NEW d \in Call, stage'[d] \in {"offered", "returned"},
               store'[d] = "none"
        PROVE  stage'[parent'[d]] = "done"
    <3>1. d # c /\ stage[d] = stage'[d] /\ store[d] = "none"
      BY <1>3, <1>4, <2>2
    <3>2. stage[parent[d]] = "done" /\ parent[d] \in Call
      BY <1>1, <2>2, <3>1 DEF IInv, StoreInv, ImportInv, CallsOK
    <3> QED  BY <1>2, <1>3, <1>4, <3>2
  <2> QED  BY <2>1, <2>2 DEF StoreInv
<1>13. PermitsInv'
  <2>1. EnginePermits' \subseteq EnginePermits
    BY <1>4 DEF EnginePermits, Tasks
  <2> QED  BY <2>1, Counted, LimitAssumption DEF IInv, PermitsInv
<1> QED  BY <1>6, <1>7, <1>8, <1>9, <1>10, <1>11, <1>12, <1>13,
            TypePartsNext DEF IInv

-----------------------------------------------------------------------------
(***************************************************************************)
(* Whoever is in a channel is no call that another stage has.              *)
(***************************************************************************)
LEMMA NotQueued ==
  ASSUME QueueInv, ChannelsOK, NEW c \in Call, stage[c] # "queued"
  PROVE  \A v \in Workload : \A i \in DOMAIN queue[v] :
           queue[v][i] \in Call \ {c}
BY DEF QueueInv, ChannelsOK

LEMMA NotWaiting ==
  ASSUME WaitingInv, ChannelsOK, NEW c \in Call, stage[c] # "engine"
  PROVE  \A i \in DOMAIN waiting : waiting[i] \in Call \ {c}
BY DEF WaitingInv, ChannelsOK

(***************************************************************************)
(* The guest's call.                                                       *)
(***************************************************************************)
LEMMA CallImportPreserves ==
  ASSUME IInv, NEW p \in Call, NEW c \in Call, NEW w \in Workload,
         CallImport(p, c, w)
  PROVE  IInv'
<1> USE HostAssumption
<1>1. CallsOK /\ PoolOK /\ ChannelsOK /\ ThreadsOK
  BY TypeParts DEF IInv
<1>2. /\ stage[c] = "idle" /\ stage[p] = "running" /\ c # p
      /\ w \in Imports[target[p]]
  BY DEF CallImport
<1>3. parent[c] = Host /\ reply[c] = "none" /\ store[c] = "none"
  BY <1>2, StoresAtStages
  DEF IInv, ImportInv, ReplyInv, StoreInv, Stages, Tasks
<1>4. /\ stage' \in [Call -> Stages] /\ stage'[c] = "sending"
      /\ target' \in [Call -> Workload] /\ target'[c] = w
      /\ parent' \in [Call -> Call \cup {Host}] /\ parent'[c] = p
      /\ \A d \in Call \ {c} : /\ stage'[d] = stage[d]
                               /\ target'[d] = target[d]
                               /\ parent'[d] = parent[d]
      /\ UNCHANGED <<store, pool, queue, waiting, reply, scheduled, threads>>
  BY <1>1 DEF CallImport, CallsOK, Stages
<1>5. CallsOK' /\ PoolOK' /\ ChannelsOK' /\ ThreadsOK'
  BY <1>1, <1>4 DEF CallsOK, PoolOK, ChannelsOK, ThreadsOK
<1>6. QueueInv'
  <2>1. \A v \in Workload : \A i \in DOMAIN queue[v] :
          queue[v][i] \in Call \ {c}
    BY <1>1, <1>2, NotQueued DEF IInv
  <2> QED  BY <1>4, <2>1 DEF IInv, QueueInv
<1>7. WaitingInv'
  <2>1. \A i \in DOMAIN waiting : waiting[i] \in Call \ {c}
    BY <1>1, <1>2, NotWaiting DEF IInv
  <2> QED  BY <1>4, <2>1 DEF IInv, WaitingInv
<1>8. ThreadInv'
  BY <1>4 DEF IInv, ThreadInv, Tasks
<1>9. ImportInv'
  <2>1. ASSUME NEW d \in Call, d # c, parent[d] # Host
        PROVE  parent[d] # c /\ parent[d] \in Call
    BY <1>1, <1>2, <2>1 DEF IInv, ImportInv, CallsOK
  <2>2. ASSUME NEW d \in Call, d # c
        PROVE  /\ parent'[d] # Host =>
                    /\ stage'[d] # "idle" /\ stage'[parent'[d]] # "idle"
                    /\ target'[d] \in Imports[target'[parent'[d]]]
               /\ stage'[d] \in {"sending", "offered", "returned", "returning"}
                    => parent'[d] # Host
    BY <1>4, <2>1, <2>2 DEF IInv, ImportInv
  <2>3. /\ stage'[c] # "idle" /\ stage'[parent'[c]] # "idle"
        /\ target'[c] \in Imports[target'[parent'[c]]] /\ parent'[c] # Host
    BY <1>2, <1>4
  <2> QED  BY <2>2, <2>3 DEF ImportInv
<1>10. ReplyInv'
  BY <1>3, <1>4 DEF IInv, ReplyInv
<1>11. StoreInv'
  <2>1. ASSUME NEW d \in Call
        PROVE  store'[d] \in StoresAt(stage'[d])
    BY <1>3, <1>4, StoresAtStages DEF IInv, StoreInv, Stages, Tasks
  <2>2. ASSUME NEW d \in Call, stage'[d] \in {"offered", "returned"},
               store'[d] = "none"
        PROVE  stage'[parent'[d]] = "done"
    <3>1. d # c /\ stage[d] = stage'[d] /\ store[d] = "none"
      BY <1>4, <2>2
    <3>2. stage[parent[d]] = "done" /\ parent[d] \in Call
      BY <1>1, <2>2, <3>1 DEF IInv, StoreInv, ImportInv, CallsOK
    <3> QED  BY <1>2, <1>4, <3>1, <3>2
  <2> QED  BY <2>1, <2>2 DEF StoreInv
<1>12. PermitsInv'
  <2>1. EnginePermits' \subseteq EnginePermits
    BY <1>4 DEF EnginePermits, Tasks
  <2> QED  BY <2>1, Counted, LimitAssumption DEF IInv, PermitsInv
<1> QED  BY <1>5, <1>6, <1>7, <1>8, <1>9, <1>10, <1>11, <1>12,
            TypePartsNext DEF IInv

-----------------------------------------------------------------------------
(***************************************************************************)
(* A call moves on before it has an instance, or gets one: what the steps  *)
(* from the channel to the task have in common.                            *)
(***************************************************************************)
Early == {"sending", "queued", "permit", "engine"}

LEMMA AdvancePreserves ==
  ASSUME IInv, NEW c \in Call, NEW s \in Stages, stage[c] \in Early,
         stage' = [stage EXCEPT ![c] = s],
         s \in (Early \ {"sending"}) \cup {"spawned"},
         UNCHANGED <<target, parent, reply, scheduled, threads>>,
         store' \in [Call -> Stores], store'[c] \in StoresAt(s),
         \A d \in Call \ {c} : store'[d] = store[d],
         s # "queued" => target[c] \in threads
  PROVE  /\ CallsOK' /\ ThreadsOK'
         /\ ThreadInv' /\ ImportInv' /\ ReplyInv' /\ StoreInv'
<1> USE HostAssumption
<1>1. CallsOK /\ ThreadsOK
  BY TypeParts DEF IInv
<1>2. /\ stage' \in [Call -> Stages] /\ stage'[c] = s
      /\ \A d \in Call \ {c} : stage'[d] = stage[d]
  BY <1>1 DEF CallsOK
<1>3. CallsOK' /\ ThreadsOK'
  BY <1>1, <1>2 DEF CallsOK, ThreadsOK
<1>4. ThreadInv'
  BY <1>2 DEF IInv, ThreadInv, Tasks
<1>5. ImportInv'
  BY <1>1, <1>2 DEF IInv, ImportInv, CallsOK, Early
<1>6. ReplyInv'
  BY <1>2 DEF IInv, ReplyInv, Early
<1>7. StoreInv'
  <2>1. ASSUME NEW d \in Call
        PROVE  store'[d] \in StoresAt(stage'[d])
    BY <1>2 DEF IInv, StoreInv
  <2>2. ASSUME NEW d \in Call, stage'[d] \in {"offered", "returned"},
               store'[d] = "none"
        PROVE  stage'[parent[d]] = "done"
    <3>1. d # c /\ stage[d] = stage'[d] /\ store[d] = "none"
      BY <1>2, <2>2 DEF Early
    <3>2. stage[parent[d]] = "done" /\ parent[d] \in Call
      BY <1>1, <2>2, <3>1 DEF IInv, StoreInv, ImportInv, CallsOK
    <3> QED  BY <1>2, <3>2 DEF Early
  <2> QED  BY <2>1, <2>2 DEF StoreInv
<1> QED  BY <1>3, <1>4, <1>5, <1>6, <1>7

(***************************************************************************)
(* The same without a store, and without a permit of the engine.           *)
(***************************************************************************)
LEMMA EarlyPreserves ==
  ASSUME IInv, NEW c \in Call, NEW s \in Early \ {"sending"},
         stage[c] \in Early, stage' = [stage EXCEPT ![c] = s],
         UNCHANGED <<target, parent, store, pool, reply, scheduled, threads>>,
         s # "queued" => target[c] \in threads
  PROVE  /\ CallsOK' /\ ThreadsOK' /\ PoolOK'
         /\ ThreadInv' /\ ImportInv' /\ ReplyInv' /\ StoreInv'
         /\ PermitsInv'
<1>1. CallsOK /\ PoolOK
  BY TypeParts DEF IInv
<1>2. s \in Stages \ Tasks /\ stage[c] \in Stages \ Tasks
  BY DEF Early, Stages, Tasks
<1>3. store[c] = "none" /\ store'[c] \in StoresAt(s)
  BY <1>2, StoresAtStages DEF IInv, StoreInv
<1>4. /\ store' \in [Call -> Stores]
      /\ \A d \in Call \ {c} : store'[d] = store[d]
  BY <1>1 DEF CallsOK
<1>5. PoolOK'
  BY <1>1 DEF PoolOK
<1>6. PermitsInv'
  <2>1. EnginePermits' \subseteq EnginePermits
    BY <1>1, <1>2 DEF EnginePermits, CallsOK
  <2> QED  BY <2>1, Counted, LimitAssumption DEF IInv, PermitsInv
<1>7. s \in (Early \ {"sending"}) \cup {"spawned"}
  OBVIOUS
<1> QED  BY <1>2, <1>3, <1>4, <1>5, <1>6, <1>7, AdvancePreserves

LEMMA SendImportPreserves ==
  ASSUME IInv, NEW c \in Call, SendImport(c)
  PROVE  IInv'
<1> DEFINE w == target[c]
<1>1. CallsOK /\ ChannelsOK /\ w \in Workload
  BY TypeParts DEF IInv, CallsOK
<1>2. /\ stage[c] = "sending" /\ Len(queue[w]) < Limit[w]
      /\ stage' = [stage EXCEPT ![c] = "queued"]
      /\ queue' = [queue EXCEPT ![w] = Append(@, c)]
      /\ UNCHANGED <<target, parent, store, pool, waiting, reply, scheduled,
                     threads>>
  BY DEF SendImport
<1>3. "queued" \in Early \ {"sending"} /\ stage[c] \in Early
  BY <1>2 DEF Early
<1>4. /\ CallsOK' /\ ThreadsOK' /\ PoolOK'
      /\ ThreadInv' /\ ImportInv' /\ ReplyInv' /\ StoreInv'
      /\ PermitsInv'
  BY <1>2, <1>3, EarlyPreserves
<1>5. /\ stage'[c] = "queued" /\ target'[c] = w
      /\ \A d \in Call \ {c} : stage'[d] = stage[d] /\ target'[d] = target[d]
  BY <1>1, <1>2 DEF CallsOK
<1>6. QueueInv
  BY DEF IInv
<1>7. QueueInv' /\ ChannelsOK'
  <2> HIDE DEF w
  <2> QED  BY <1>1, <1>2, <1>4, <1>5, <1>6, EnterPreserves
<1>8. WaitingInv'
  <2>1. \A i \in DOMAIN waiting : waiting[i] \in Call \ {c}
    BY <1>1, <1>2, NotWaiting DEF IInv
  <2> QED  BY <1>2, <1>5, <2>1 DEF IInv, WaitingInv
<1> QED  BY <1>4, <1>7, <1>8, TypePartsNext DEF IInv

(***************************************************************************)
(* The loop takes the first call of its channel.                           *)
(***************************************************************************)
LEMMA ReceivePreserves ==
  ASSUME IInv, NEW w \in Workload, Receive(w)
  PROVE  IInv'
<1> DEFINE c == Head(queue[w])
           shorter == Tail(queue[w])
<1>1. CallsOK /\ ChannelsOK /\ queue[w] \in Seq(Call) /\ queue[w] # <<>>
  BY TypeParts DEF IInv, ChannelsOK, Receive
<1>2. /\ c \in Call /\ 1 \in DOMAIN queue[w] /\ c = queue[w][1]
      /\ shorter \in Seq(Call) /\ Len(shorter) = Len(queue[w]) - 1
      /\ \A i \in DOMAIN shorter :
           i + 1 \in DOMAIN queue[w] /\ i # 0 /\ shorter[i] = queue[w][i + 1]
  BY <1>1, Taken
<1>3. /\ w \in threads /\ stage' = [stage EXCEPT ![c] = "permit"]
      /\ queue' = [queue EXCEPT ![w] = shorter]
      /\ UNCHANGED <<target, parent, store, pool, waiting, reply, scheduled,
                     threads>>
  BY DEF Receive
<1> HIDE DEF c, shorter
<1>4. stage[c] = "queued" /\ target[c] = w
  BY <1>2 DEF IInv, QueueInv
<1>5. "permit" \in Early \ {"sending"} /\ stage[c] \in Early
  BY <1>4 DEF Early
<1>6. /\ CallsOK' /\ ThreadsOK' /\ PoolOK'
      /\ ThreadInv' /\ ImportInv' /\ ReplyInv' /\ StoreInv'
      /\ PermitsInv'
  BY <1>2, <1>3, <1>4, <1>5, EarlyPreserves
<1>7. stage'[c] = "permit" /\ \A d \in Call \ {c} : stage'[d] = stage[d]
  BY <1>1, <1>2, <1>3 DEF CallsOK
<1>8. queue'[w] = shorter /\ \A v \in Workload \ {w} : queue'[v] = queue[v]
  BY <1>1, <1>3 DEF ChannelsOK
<1>9. ChannelsOK'
  <2>1. Len(shorter) <= Limit[w]
    <3>1. Len(queue[w]) <= Limit[w] /\ Len(queue[w]) \in Nat
      BY <1>1 DEF ChannelsOK
    <3> QED  BY <1>2, <3>1, LimitIsNat
  <2> QED  BY <1>1, <1>2, <1>3, <1>8, <2>1 DEF ChannelsOK
<1>10. QueueInv'
  <2>1. ASSUME NEW v \in Workload \ {w}, NEW i \in DOMAIN queue[v]
        PROVE  stage'[queue[v][i]] = "queued" /\ target'[queue[v][i]] = v
    <3>1. target[queue[v][i]] = v /\ queue[v][i] \in Call
      BY <1>1 DEF IInv, QueueInv, ChannelsOK
    <3>2. queue[v][i] # c
      BY <1>4, <3>1
    <3> QED  BY <1>3, <1>7, <3>1, <3>2 DEF IInv, QueueInv
  <2>2. ASSUME NEW i \in DOMAIN shorter
        PROVE  stage'[shorter[i]] = "queued" /\ target'[shorter[i]] = w
    <3>1. i + 1 \in DOMAIN queue[w] /\ i + 1 # 1 /\ shorter[i] = queue[w][i + 1]
      BY <1>2
    <3>2. shorter[i] # c /\ shorter[i] \in Call
      <4>1. \A k, l \in DOMAIN queue[w] : queue[w][k] = queue[w][l] => k = l
        BY DEF IInv, QueueInv
      <4>2. queue[w][i + 1] # queue[w][1]
        BY <1>2, <3>1, <4>1
      <4> QED  BY <1>1, <1>2, <3>1, <4>2
    <3>3. stage[shorter[i]] = "queued" /\ target[shorter[i]] = w
      BY <3>1 DEF IInv, QueueInv
    <3> QED  BY <1>3, <1>7, <3>2, <3>3
  <2>3. ASSUME NEW i \in DOMAIN shorter, NEW j \in DOMAIN shorter,
               shorter[i] = shorter[j]
        PROVE  i = j
    <3>1. i + 1 = j + 1
      BY <1>2, <2>3 DEF IInv, QueueInv
    <3>2. i \in Int /\ j \in Int
      BY <1>2
    <3> QED  BY <3>1, <3>2
  <2>4. \A v \in Workload \ {w} :
          \A i, j \in DOMAIN queue[v] : queue[v][i] = queue[v][j] => i = j
    BY DEF IInv, QueueInv
  <2> QED  BY <1>8, <2>1, <2>2, <2>3, <2>4 DEF QueueInv
<1>11. WaitingInv'
  <2>1. \A i \in DOMAIN waiting : waiting[i] \in Call \ {c}
    BY <1>1, <1>2, <1>4, NotWaiting DEF IInv
  <2> QED  BY <1>3, <1>7, <2>1 DEF IInv, WaitingInv
<1> QED  BY <1>6, <1>9, <1>10, <1>11, TypePartsNext DEF IInv

(***************************************************************************)
(* The loop has a permit of its workload, and queues for the engine's.     *)
(***************************************************************************)
LEMMA AcquireWorkloadPreserves ==
  ASSUME IInv, NEW c \in Call, AcquireWorkload(c)
  PROVE  IInv'
<1> DEFINE longer == Append(waiting, c)
<1>1. CallsOK /\ ChannelsOK /\ waiting \in Seq(Call)
  BY TypeParts DEF IInv, ChannelsOK
<1>2. /\ stage[c] = "permit" /\ stage' = [stage EXCEPT ![c] = "engine"]
      /\ waiting' = longer
      /\ UNCHANGED <<target, parent, store, pool, queue, reply, scheduled,
                     threads>>
  BY DEF AcquireWorkload
<1>3. /\ longer \in Seq(Call)
      /\ \A i \in DOMAIN longer :
           \/ i \in DOMAIN waiting /\ longer[i] = waiting[i]
           \/ i = Len(waiting) + 1 /\ longer[i] = c
  BY <1>1, Appended
<1> HIDE DEF longer
<1>4. "engine" \in Early \ {"sending"} /\ stage[c] \in Early
  BY <1>2 DEF Early
<1>5. target[c] \in threads
  BY <1>2 DEF IInv, ThreadInv
<1>6. /\ CallsOK' /\ ThreadsOK' /\ PoolOK'
      /\ ThreadInv' /\ ImportInv' /\ ReplyInv' /\ StoreInv'
      /\ PermitsInv'
  BY <1>2, <1>4, <1>5, EarlyPreserves
<1>7. stage'[c] = "engine" /\ \A d \in Call \ {c} : stage'[d] = stage[d]
  BY <1>1, <1>2 DEF CallsOK
<1>8. ChannelsOK'
  BY <1>1, <1>2, <1>3 DEF ChannelsOK
<1>9. QueueInv'
  <2>1. \A v \in Workload : \A i \in DOMAIN queue[v] :
          queue[v][i] \in Call \ {c}
    BY <1>1, <1>2, NotQueued DEF IInv
  <2> QED  BY <1>2, <1>7, <2>1 DEF IInv, QueueInv
<1>10. WaitingInv'
  <2>1. \A i \in DOMAIN waiting : waiting[i] \in Call \ {c}
    BY <1>1, <1>2, NotWaiting DEF IInv
  <2>2. \A i \in DOMAIN longer : stage'[longer[i]] = "engine"
    BY <1>3, <1>7, <2>1 DEF IInv, WaitingInv
  <2>3. ASSUME NEW i \in DOMAIN longer, NEW j \in DOMAIN longer,
               longer[i] = longer[j]
        PROVE  i = j
    BY <1>3, <2>1, <2>3 DEF IInv, WaitingInv
  <2> QED  BY <1>2, <2>2, <2>3 DEF WaitingInv
<1> QED  BY <1>6, <1>8, <1>9, <1>10, TypePartsNext DEF IInv

(***************************************************************************)
(* A permit of the engine: there is one left.                              *)
(***************************************************************************)
LEMMA AcquireEnginePreserves ==
  ASSUME IInv, NEW c \in Call, AcquireEngine(c)
  PROVE  IInv'
<1> DEFINE shorter == Tail(waiting)
           w == target[c]
<1>1. CallsOK /\ PoolOK /\ ChannelsOK /\ waiting \in Seq(Call) /\ waiting # <<>>
  BY TypeParts DEF IInv, ChannelsOK, AcquireEngine
<1>2. /\ 1 \in DOMAIN waiting /\ c = waiting[1]
      /\ shorter \in Seq(Call)
      /\ \A i \in DOMAIN shorter :
           i + 1 \in DOMAIN waiting /\ i # 0 /\ shorter[i] = waiting[i + 1]
  BY <1>1, Taken DEF AcquireEngine
<1>3. /\ Cardinality(EnginePermits) < MaxInstances
      /\ waiting' = shorter /\ stage' = [stage EXCEPT ![c] = "spawned"]
      /\ UNCHANGED <<target, parent, queue, reply, scheduled, threads>>
  BY DEF AcquireEngine
<1> HIDE DEF shorter
<1>4. stage[c] = "engine" /\ target[c] \in threads /\ w \in Workload
  BY <1>1, <1>2 DEF IInv, WaitingInv, ThreadInv, CallsOK
<1>5. /\ PoolOK' /\ store' \in [Call -> Stores]
      /\ store'[c] \in StoresAt("spawned")
      /\ \A d \in Call \ {c} : store'[d] = store[d]
  <2>1. CASE pool[w] # <<>>
    <3> DEFINE instance == Head(pool[w])
               rest == Tail(pool[w])
    <3>1. /\ store' = [store EXCEPT ![c] = instance]
          /\ pool' = [pool EXCEPT ![w] = rest]
      BY <2>1 DEF AcquireEngine
    <3>2. pool[w] \in Seq(Instances) /\ Len(pool[w]) <= PoolSize[w]
      BY <1>1, <1>4 DEF PoolOK
    <3>3. /\ instance \in Instances /\ rest \in Seq(Instances)
          /\ Len(rest) = Len(pool[w]) - 1
      BY <2>1, <3>2, Taken
    <3> HIDE DEF instance, rest
    <3>4. Len(rest) <= PoolSize[w]
      <4>1. PoolSize[w] \in Nat /\ Len(pool[w]) \in Nat
        BY <1>4, <3>2, LimitAssumption
      <4> QED  BY <3>2, <3>3, <4>1
    <3>5. PoolOK'
      BY <1>1, <1>4, <3>1, <3>3, <3>4 DEF PoolOK
    <3>6. instance \in Stores /\ instance \in StoresAt("spawned")
      BY <3>3, StoresAtStages DEF Instances, Stores
    <3> QED  BY <1>1, <3>1, <3>5, <3>6 DEF CallsOK
  <2>2. CASE pool[w] = <<>>
    <3>1. store' = [store EXCEPT ![c] = "new"] /\ UNCHANGED pool
      BY <2>2 DEF AcquireEngine
    <3> QED  BY <1>1, <3>1, StoresAtStages DEF CallsOK, PoolOK, Stores
  <2> QED  BY <2>1, <2>2
<1>6. "spawned" \in Stages /\ stage[c] \in Early
  BY <1>4 DEF Early, Stages
<1>7. /\ CallsOK' /\ ThreadsOK'
      /\ ThreadInv' /\ ImportInv' /\ ReplyInv' /\ StoreInv'
  BY <1>3, <1>4, <1>5, <1>6, AdvancePreserves
<1>8. stage'[c] = "spawned" /\ \A d \in Call \ {c} : stage'[d] = stage[d]
  BY <1>1, <1>3 DEF CallsOK
<1>9. ChannelsOK'
  BY <1>1, <1>2, <1>3 DEF ChannelsOK
<1>10. QueueInv'
  <2>1. \A v \in Workload : \A i \in DOMAIN queue[v] :
          queue[v][i] \in Call \ {c}
    BY <1>1, <1>4, NotQueued DEF IInv
  <2> QED  BY <1>3, <1>8, <2>1 DEF IInv, QueueInv
<1>11. WaitingInv'
  <2>1. ASSUME NEW i \in DOMAIN shorter
        PROVE  stage'[shorter[i]] = "engine"
    <3>1. i + 1 \in DOMAIN waiting /\ i + 1 # 1 /\ shorter[i] = waiting[i + 1]
      BY <1>2
    <3>2. shorter[i] # c /\ shorter[i] \in Call
      BY <1>1, <1>2, <3>1 DEF IInv, WaitingInv
    <3> QED  BY <1>8, <3>1, <3>2 DEF IInv, WaitingInv
  <2>2. ASSUME NEW i \in DOMAIN shorter, NEW j \in DOMAIN shorter,
               shorter[i] = shorter[j]
        PROVE  i = j
    <3>1. i + 1 = j + 1
      BY <1>2, <2>2 DEF IInv, WaitingInv
    <3>2. i \in Int /\ j \in Int
      BY <1>2
    <3> QED  BY <3>1, <3>2
  <2> QED  BY <1>3, <2>1, <2>2 DEF WaitingInv
<1>12. PermitsInv'
  <2>1. EnginePermits' \subseteq EnginePermits \cup {c}
    BY <1>8 DEF EnginePermits
  <2> QED  BY <1>3, <2>1, Counted, LimitAssumption DEF IInv, PermitsInv
<1> QED  BY <1>5, <1>7, <1>9, <1>10, <1>11, <1>12, TypePartsNext DEF IInv

-----------------------------------------------------------------------------
(***************************************************************************)
(* A thread exits.  Its tasks end with it, and the stores that their       *)
(* guests had borrowed are gone.                                           *)
(***************************************************************************)
LEMMA WorkloadExitPreserves ==
  ASSUME IInv, NEW w \in Workload, WorkloadExit(w)
  PROVE  IInv'
<1> USE HostAssumption
<1> DEFINE aborted == Of(w, Tasks)
           unsent == {c \in Call : stage[c] = "sending" /\ parent[c] \in aborted}
           borrowed == {c \in Call : /\ stage[c] \in {"offered", "returned"}
                                     /\ parent[c] \in aborted}
           ended == aborted \cup unsent
<1>1. CallsOK /\ PoolOK /\ ChannelsOK /\ ThreadsOK
  BY TypeParts DEF IInv
<1>2. /\ threads' = threads \ {w} /\ ~ Blocked(w)
      /\ pool' = [pool EXCEPT ![w] = <<>>]
      /\ stage' = [c \in Call |-> IF c \in ended THEN "done" ELSE stage[c]]
      /\ reply' = [c \in Call |-> IF c \in ended THEN "dropped" ELSE reply[c]]
      /\ store' = [c \in Call |-> IF c \in aborted \cup borrowed
                                  THEN "none" ELSE store[c]]
      /\ UNCHANGED <<target, parent, queue, waiting, scheduled>>
  BY DEF WorkloadExit
<1>3. /\ \A c \in Call : c \in aborted <=> target[c] = w /\ stage[c] \in Tasks
      /\ \A c \in Call : c \in unsent <=> /\ stage[c] = "sending"
                                          /\ parent[c] \in aborted
      /\ \A c \in Call : c \in borrowed <=>
                            /\ stage[c] \in {"offered", "returned"}
                            /\ parent[c] \in aborted
      /\ aborted \subseteq Call
      /\ \A c \in Call : c \in ended <=> c \in aborted \/ c \in unsent
  BY DEF Of
<1> HIDE DEF aborted, unsent, borrowed, ended
<1>4. \A c \in ended : c \in Call => stage[c] \in Tasks \cup {"sending"}
  BY <1>3
<1>5. CallsOK'
  BY <1>1, <1>2 DEF CallsOK, Stages, Replies, Stores
<1>6. PoolOK' /\ ChannelsOK' /\ ThreadsOK'
  <2>1. PoolSize[w] \in Nat
    BY LimitAssumption
  <2> QED  BY <1>1, <1>2, <2>1 DEF PoolOK, ChannelsOK, ThreadsOK
<1>7. QueueInv'
  <2>1. \A v \in Workload : \A i \in DOMAIN queue[v] :
          queue[v][i] \in Call /\ queue[v][i] \notin ended
    BY <1>1, <1>4 DEF IInv, QueueInv, ChannelsOK, Tasks
  <2> QED  BY <1>2, <2>1 DEF IInv, QueueInv
<1>8. WaitingInv'
  <2>1. \A i \in DOMAIN waiting : waiting[i] \in Call /\ waiting[i] \notin ended
    BY <1>1, <1>4 DEF IInv, WaitingInv, ChannelsOK, Tasks
  <2> QED  BY <1>2, <2>1 DEF IInv, WaitingInv
<1>9. ThreadInv'
  <2>1. ASSUME NEW c \in Call, stage'[c] \in Tasks \cup {"permit", "engine"}
        PROVE  target[c] \in threads /\ target[c] # w
    <3>1. stage'[c] = stage[c] /\ c \notin ended
      BY <1>2, <2>1 DEF Tasks
    <3>2. ~ (target[c] = w /\ stage[c] \in {"permit", "engine"})
      BY <1>2 DEF Blocked, Of
    <3> QED  BY <1>3, <2>1, <3>1, <3>2 DEF IInv, ThreadInv
  <2> QED  BY <1>2, <2>1 DEF ThreadInv
<1>10. ImportInv'
  <2>1. \A c \in Call : stage[c] # "idle" => stage'[c] # "idle"
    BY <1>2
  <2>2. \A c \in Call : stage'[c] # "done" => stage'[c] = stage[c]
    BY <1>2
  <2>3. \A c \in Call : parent[c] # Host => parent[c] \in Call
    BY <1>1 DEF CallsOK
  <2> QED  BY <1>2, <2>1, <2>2, <2>3 DEF IInv, ImportInv
<1>11. ReplyInv'
  BY <1>2 DEF IInv, ReplyInv
<1>12. StoreInv'
  <2>1. ASSUME NEW c \in Call
        PROVE  store'[c] \in StoresAt(stage'[c])
    <3>1. CASE c \in ended
      <4>1. stage'[c] = "done" /\ store'[c] \in {"none", store[c]}
        BY <1>2, <3>1
      <4>2. c \in unsent => store[c] = "none"
        BY <1>3, StoresAtStages DEF IInv, StoreInv, Stages, Tasks
      <4>3. c \in aborted => store'[c] = "none"
        BY <1>2
      <4> QED  BY <1>3, <3>1, <4>1, <4>2, <4>3, StoresAtStages DEF Stages, Tasks
    <3>2. CASE c \notin ended /\ c \in borrowed
      BY <1>2, <1>3, <3>2, StoresAtStages
    <3>3. CASE c \notin ended /\ c \notin borrowed
      BY <1>2, <1>3, <3>3 DEF IInv, StoreInv
    <3> QED  BY <3>1, <3>2, <3>3
  <2>2. ASSUME NEW c \in Call, stage'[c] \in {"offered", "returned"},
               store'[c] = "none"
        PROVE  stage'[parent[c]] = "done"
    <3>1. stage[c] = stage'[c] /\ c \notin ended
      BY <1>2, <2>2
    <3>2. parent[c] \in Call
      BY <1>1, <2>2, <3>1 DEF IInv, ImportInv, CallsOK
    <3>3. CASE c \in borrowed
      <4>1. parent[c] \in ended
        BY <1>3, <3>2, <3>3
      <4> QED  BY <1>2, <3>2, <4>1
    <3>4. CASE c \notin borrowed
      <4>1. store[c] = "none"
        BY <1>2, <1>3, <2>2, <3>1, <3>4
      <4>2. stage[parent[c]] = "done"
        BY <2>2, <3>1, <4>1 DEF IInv, StoreInv
      <4> QED  BY <1>2, <3>2, <4>2
    <3> QED  BY <3>3, <3>4
  <2> QED  BY <1>2, <2>1, <2>2 DEF StoreInv
<1>13. PermitsInv'
  <2>1. EnginePermits' \subseteq EnginePermits
    BY <1>2 DEF EnginePermits, Tasks
  <2> QED  BY <2>1, Counted, LimitAssumption DEF IInv, PermitsInv
<1> QED  BY <1>5, <1>6, <1>7, <1>8, <1>9, <1>10, <1>11, <1>12, <1>13,
            TypePartsNext DEF IInv

(***************************************************************************)
(* The engine drops its senders; or nothing happens.                       *)
(***************************************************************************)
LEMMA RetirePreserves ==
  ASSUME IInv, scheduled' \in SUBSET Workload,
         UNCHANGED <<stage, target, parent, store, pool, queue, waiting, reply,
                     threads>>
  PROVE  IInv'
<1>1. TypeOK'
  BY DEF IInv, TypeOK
<1>2. QueueInv' /\ WaitingInv' /\ ThreadInv' /\ ImportInv' /\ ReplyInv'
  BY DEF IInv, QueueInv, WaitingInv, ThreadInv, ImportInv, ReplyInv
<1>3. StoreInv' /\ PermitsInv'
  BY DEF IInv, StoreInv, PermitsInv, EnginePermits
<1> QED  BY <1>1, <1>2, <1>3 DEF IInv

(***************************************************************************)
(* Every step keeps the invariant.                                         *)
(***************************************************************************)
LEMMA NextPreserves == IInv /\ [Next]_vars => IInv'
<1> SUFFICES ASSUME IInv, [Next]_vars
             PROVE  IInv'
  OBVIOUS
<1>1. ASSUME NEW c \in Call, Step(c)
      PROVE  IInv'
  BY <1>1, SendImportPreserves, AcquireWorkloadPreserves,
     AcquireEnginePreserves, InstantiatePreserves, LowerPreserves,
     LiftPreserves, ReturnPreserves, AbandonedPreserves DEF Step
<1>2. ASSUME NEW c \in Call, Guest(c)
      PROVE  IInv'
  BY <1>2, GuestOkPreserves, GuestErrorPreserves, GuestPanicsPreserves
  DEF Guest
<1>3. ASSUME NEW w \in Workload, Loop(w)
      PROVE  IInv'
  BY <1>3, ReceivePreserves, WorkloadExitPreserves DEF Loop
<1>4. CASE Environment
  <2>1. CASE Retire
    BY <2>1, RetirePreserves DEF Retire
  <2> QED  BY <1>4, <2>1, InvokePreserves, CallImportPreserves
           DEF Environment
<1>5. CASE UNCHANGED vars
  <2>1. scheduled \in SUBSET Workload
    BY DEF IInv, TypeOK
  <2> QED  BY <1>5, <2>1, RetirePreserves DEF vars
<1> QED  BY <1>1, <1>2, <1>3, <1>4, <1>5 DEF Next

(***************************************************************************)
(* What the invariant says, it says of every behaviour.                    *)
(***************************************************************************)
LEMMA Invariance == Spec => []IInv
<1>1. Init => IInv
  BY InitIInv
<1>2. IInv /\ [Next]_vars => IInv'
  BY NextPreserves
<1> QED  BY <1>1, <1>2, PTL DEF Spec

-----------------------------------------------------------------------------
(***************************************************************************)
(* Type correctness: among the rest, that Invoke, SendImport and GiveBack   *)
(* never fill a channel or a pool beyond its capacity.                     *)
(***************************************************************************)
THEOREM TypeCorrect == Spec => []TypeOK
<1>1. IInv => TypeOK
  BY DEF IInv
<1> QED  BY <1>1, Invariance, PTL

(***************************************************************************)
(* ExhaustedByIdle, for any pools and limits: every instance that is not   *)
(* idle is in a task with a permit of the engine, other than the one that  *)
(* asks for a new instance; so without idle ones there is a slot left when *)
(* Instantiate asks wasmtime's allocator for it.                           *)
(***************************************************************************)
THEOREM OnlyIdleExhaust == Spec => []ExhaustedByIdle
<1>1. IInv => ExhaustedByIdle
  <2> SUFFICES ASSUME IInv, NEW c \in Call, stage[c] = "spawned",
                      store[c] = "new", \A w \in Workload : pool[w] = <<>>
               PROVE  ~ Exhausted
    BY DEF ExhaustedByIdle
  <2> DEFINE busy == {d \in Call : store[d] \in Instances}
             idle == [w \in Workload |-> Len(pool[w])]
  <2>1. SumFunctionOnSet(idle, Workload) = 0
    <3>1. \A w \in Workload : idle[w] = 0
      OBVIOUS
    <3> HIDE DEF idle
    <3> QED  BY <3>1, WorkloadAssumption, SumZero
  <2>2. busy \subseteq EnginePermits \ {c}
    <3>1. ASSUME NEW d \in Call, store[d] \in Instances
          PROVE  stage[d] \in Tasks /\ d # c
      BY <3>1, StoresAtStages, TypeParts
      DEF IInv, StoreInv, CallsOK, Instances
    <3> QED  BY <3>1 DEF EnginePermits
  <2>3. c \in EnginePermits
    BY DEF EnginePermits, Tasks
  <2>4. /\ IsFiniteSet(EnginePermits) /\ Cardinality(EnginePermits) \in Nat
        /\ Cardinality(EnginePermits) <= MaxInstances
    BY FS_CardinalityType DEF IInv, PermitsInv
  <2>5. /\ IsFiniteSet(EnginePermits \ {c})
        /\ Cardinality(EnginePermits \ {c}) = Cardinality(EnginePermits) - 1
    BY <2>3, <2>4, FS_RemoveElement
  <2>6. /\ Cardinality(busy) <= Cardinality(EnginePermits \ {c})
        /\ Cardinality(busy) \in Nat
    BY <2>2, <2>5, FS_Subset, FS_CardinalityType
  <2>7. LiveInstances = Cardinality(busy) + 0
    BY <2>1 DEF LiveInstances
  <2> HIDE DEF busy
  <2> QED  BY <2>4, <2>5, <2>6, <2>7, LimitAssumption DEF Exhausted
<1> QED  BY <1>1, Invariance, PTL

(***************************************************************************)
(* AnswerLostForCause, for any acyclic imports: a thread with a task that  *)
(* a running guest has called has an importer that runs, the thread of     *)
(* that guest, so WorkloadExit is not enabled; a task drops the answer of  *)
(* its own accord only when its caller is gone; and what is left is the    *)
(* panic of the guest that was called.                                     *)
(***************************************************************************)
THEOREM AnswersAreLostForCause == Spec => AnswerLostForCause
<1>1. IInv /\ [Next]_vars =>
        [\A c \in Call :
           stage[c] # "done" /\ reply'[c] \in Lost
             => \/ GuestPanics(c)
                \/ parent[c] = Host /\ target[c] \notin threads' \cup scheduled
                \/ parent[c] # Host /\ ~ CallerWaits(c)']_vars
  <2> SUFFICES ASSUME IInv, Next, NEW c \in Call, stage[c] # "done",
                      reply'[c] \in Lost, ~ GuestPanics(c)
               PROVE  \/ /\ parent[c] = Host
                         /\ target[c] \notin threads' \cup scheduled
                      \/ parent[c] # Host /\ ~ CallerWaits(c)'
    BY Zenon
  <2> USE HostAssumption
  <2>1. reply[c] = "none" /\ CallsOK
    BY TypeParts DEF IInv, ReplyInv
  <2>2. ASSUME NEW d \in Call, NEW answer, End(d, answer), UNCHANGED parent,
               answer = "dropped" => parent[d] # Host /\ ~ CallerWaits(d),
               answer = "panicked" => GuestPanics(d)
        PROVE  parent[c] # Host /\ ~ CallerWaits(c)'
    <3>1. /\ stage' = [stage EXCEPT ![d] = "done"]
          /\ reply' = [reply EXCEPT ![d] = answer]
      BY <2>2 DEF End
    <3>2. d = c
      BY <2>1, <3>1 DEF CallsOK, Lost
    <3>3. answer \in {"dropped", "panicked"}
      BY <2>1, <3>1, <3>2 DEF CallsOK, Lost
    <3>4. answer # "panicked"
      BY <2>2, <3>2
    <3>5. parent[c] # Host /\ ~ CallerWaits(c)
      BY <2>2, <3>2, <3>3, <3>4
    <3> QED  BY <2>1, <2>2, <3>1, <3>5 DEF CallerWaits, CallsOK
  <2>3. ~ UNCHANGED reply
    BY <2>1 DEF Lost
  <2>4. ASSUME NEW w \in Workload, WorkloadExit(w)
        PROVE  \/ /\ parent[c] = Host
                  /\ target[c] \notin threads' \cup scheduled
               \/ parent[c] # Host /\ ~ CallerWaits(c)'
    <3>1. /\ w \notin scheduled /\ threads' = threads \ {w}
          /\ \A d \in Call : stage'[d] \in {stage[d], "done"}
          /\ UNCHANGED parent
      BY <2>4 DEF WorkloadExit
    <3>2. CASE c \in Of(w, Tasks)
      <4>1. target[c] = w /\ stage[c] \in Tasks
        BY <3>2 DEF Of
      <4>2. ASSUME parent[c] # Host, CallerWaits(c)'
            PROVE  FALSE
        <5>1. parent[c] \in Call /\ stage[parent[c]] = "running"
          BY <2>1, <3>1, <4>2 DEF CallsOK, CallerWaits
        <5>2. w \in Imports[target[parent[c]]] /\ target[parent[c]] \in threads
          BY <4>1, <5>1 DEF IInv, ImportInv, ThreadInv, Tasks
        <5>3. target[parent[c]] \in Importers(w)
          BY <5>2 DEF Importers
        <5> QED  BY <2>4, <5>3 DEF WorkloadExit
      <4> QED  BY <3>1, <4>1, <4>2
    <3>3. CASE c \notin Of(w, Tasks)
      <4>1. parent[c] \in Of(w, Tasks)
        BY <2>1, <2>4, <3>3 DEF WorkloadExit, Lost
      <4>2. parent[c] \in Call /\ stage'[parent[c]] = "done"
        BY <2>4, <4>1 DEF WorkloadExit, Of
      <4> QED  BY <3>1, <4>2 DEF CallerWaits
    <3> QED  BY <3>2, <3>3
  <2>5. ASSUME NEW d \in Call, Step(d)
        PROVE  parent[c] # Host /\ ~ CallerWaits(c)'
    <3>1. CASE SendImport(d) \/ AcquireWorkload(d) \/ AcquireEngine(d)
      BY <2>3, <3>1 DEF SendImport, AcquireWorkload, AcquireEngine
    <3>2. CASE Instantiate(d)
      BY <2>2, <2>3, <3>2 DEF Instantiate
    <3>3. CASE Lower(d) \/ Lift(d) \/ Return(d)
      BY <2>2, <2>3, <3>3 DEF Lower, Lift, Return
    <3>4. CASE Abandoned(d)
      <4>1. parent[d] # Host /\ ~ CallerWaits(d)
        BY <3>4 DEF Abandoned, IInv, ImportInv
      <4> QED  BY <2>2, <3>4, <4>1 DEF Abandoned
    <3> QED  BY <2>5, <3>1, <3>2, <3>3, <3>4 DEF Step
  <2>6. ASSUME NEW d \in Call, Guest(d)
        PROVE  parent[c] # Host /\ ~ CallerWaits(c)'
    <3>1. CASE GuestOk(d)
      BY <2>2, <2>3, <3>1 DEF GuestOk
    <3>2. CASE GuestError(d)
      BY <2>2, <3>2 DEF GuestError
    <3>3. CASE GuestPanics(d)
      <4>1. End(d, "panicked") /\ UNCHANGED parent
        BY <3>3 DEF GuestPanics
      <4> QED  BY <2>2, <3>3, <4>1
    <3> QED  BY <2>6, <3>1, <3>2, <3>3 DEF Guest
  <2>7. ASSUME NEW w \in Workload, Receive(w)
        PROVE  FALSE
    BY <2>3, <2>7 DEF Receive
  <2>8. CASE Environment
    <3>1. ASSUME NEW d \in Call, NEW w \in Workload, Invoke(d, w)
          PROVE  FALSE
      BY <2>1, <3>1 DEF Invoke, CallsOK, Lost
    <3>2. ASSUME NEW p \in Call, NEW d \in Call, NEW w \in Workload,
                 CallImport(p, d, w)
          PROVE  FALSE
      BY <2>3, <3>2 DEF CallImport
    <3>3. CASE Retire
      BY <2>3, <3>3 DEF Retire
    <3> QED  BY <2>8, <3>1, <3>2, <3>3 DEF Environment
  <2> QED  BY <2>4, <2>5, <2>6, <2>7, <2>8 DEF Next, Loop
<1> QED  BY <1>1, Invariance, PTL DEF Spec, AnswerLostForCause
=============================================================================
