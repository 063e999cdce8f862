---------------------------- MODULE EngineProofs ----------------------------
(***************************************************************************)
(* Theorems about Engine, for any number of requests and applications, any *)
(* manifests, any number of permits and any capacity of the channel: its   *)
(* types, that a manifest serves until it is replaced, and that permits    *)
(* bound what runs.                                                        *)
(*                                                                         *)
(* An application is handled once: QueueInv says that a command is in one  *)
(* place of the channel or of the buffer and unanswered there, FreshInv    *)
(* that its manifest has not been dropped, HeadInv which one is applied.   *)
(* The manifest in force has been acknowledged (CurrentInv), so it is none *)
(* of these.                                                               *)
(***************************************************************************)
EXTENDS Engine, FiniteSums

Pending == {"waiting", "gone"}

QueueInv ==
  /\ \A i \in DOMAIN chan : client[chan[i]] \in Pending
  /\ \A i \in DOMAIN buf : client[buf[i]] \in Pending
  /\ \A i, j \in DOMAIN chan : chan[i] = chan[j] => i = j
  /\ \A i, j \in DOMAIN buf : buf[i] = buf[j] => i = j
  /\ \A i \in DOMAIN chan : \A j \in DOMAIN buf : chan[i] # buf[j]

FreshInv ==
  \A a \in stop :
    /\ client[a] # "idle"
    /\ \A i \in DOMAIN chan : chan[i] # a
    /\ \A i \in DOMAIN buf : buf[i] # a

HeadInv ==
  /\ engine \in {"apply", "join"} => buf # <<>> /\ Head(buf) \in Apply
  /\ engine = "join" => workload[Head(buf)] = "open"

(***************************************************************************)
(* Who is told to stop has lost its senders, and its permits.              *)
(***************************************************************************)
OpenInv == \A a \in Apply : workload[a] = "open" => a \notin stop

ServiceInv == \A a \in Apply \ stop : services[a] <= permits[a]

(***************************************************************************)
(* A thread that has exited has left no invocation behind, and no client   *)
(* that waits for a response.                                              *)
(***************************************************************************)
ServedInv ==
  \A r \in Request :
    servedBy[r] # None => /\ place[r] # "none"
                          /\ workload[servedBy[r]] = "exited"
                               => place[r] = "done" /\ client[r] # "accepted"

CurrentInv ==
  current # None => /\ client[current] = "answered"
                    /\ workload[current] # "none"

Alive == {"idle", "loop", "apply", "join"}

AliveInv ==
  engine \in Alive /\ current = None =>
    \A a \in Apply : client[a] # "answered"

Running == {r \in Request : place[r] = "running"}

PermitInv ==
  /\ IsFiniteSet(Running)
  /\ Cardinality(Running) + SumFunctionOnSet(permits, Apply) <= MaxInstances

(***************************************************************************)
(* TypeOK without the permits, which PermitInv counts.                     *)
(***************************************************************************)
ClientsOK ==
  /\ main \in {"up", "down"}
  /\ client \in [Cmd -> ClientStates]
  /\ chan \in Seq(Cmd) /\ Len(chan) <= CmdCapacity
  /\ buf \in Seq(Cmd)

EngineOK ==
  /\ engine \in EngineStates
  /\ current \in Apply \cup {None}
  /\ workload \in [Apply -> {"none", "open", "closed", "exited"}]
  /\ stop \in SUBSET Apply
  /\ graceOver \in SUBSET stop

CountsOK ==
  /\ permits \in [Apply -> 0 .. MaxInstances]
  /\ services \in [Apply -> 0 .. MaxInstances]

RequestsOK ==
  /\ place \in [Request -> {"none", "queue", "running", "done"}]
  /\ servedBy \in [Request -> Apply \cup {None}]
  /\ instance \in [Request -> Request \cup {None}]
  /\ idle \in SUBSET Request
  /\ \A r \in Request : place[r] = "running" => instance[r] \in Request

IInv ==
  /\ ClientsOK /\ EngineOK /\ CountsOK /\ RequestsOK
  /\ QueueInv /\ FreshInv /\ HeadInv /\ OpenInv /\ ServiceInv /\ ServedInv
  /\ CurrentInv /\ AliveInv /\ PermitInv
  /\ InForceServes /\ ReplacedIsGone

-----------------------------------------------------------------------------
(***************************************************************************)
(* What the constants are.                                                 *)
(***************************************************************************)
LEMMA Constants ==
  /\ IsFiniteSet(Apply) /\ MaxInstances \in Nat \ {0} /\ CmdCapacity \in Nat
  /\ Request \subseteq Cmd /\ Apply \subseteq Cmd /\ Request \cap Apply = {}
  /\ None \notin Apply /\ \A c \in Cmd : c \in Request \/ c \in Apply
BY EngineAssumption DEF Cmd

(***************************************************************************)
(* What appending to a sequence and taking from it do to its elements.     *)
(***************************************************************************)
LEMMA Appended ==
  ASSUME NEW S, NEW s \in Seq(S), NEW x \in S
  PROVE  /\ Append(s, x) \in Seq(S) /\ Len(Append(s, x)) = Len(s) + 1
         /\ \A i \in DOMAIN Append(s, x) :
              \/ i \in DOMAIN s /\ Append(s, x)[i] = s[i]
              \/ i = Len(s) + 1 /\ Append(s, x)[i] = x
OBVIOUS

LEMMA Taken ==
  ASSUME NEW S, NEW s \in Seq(S), s # <<>>
  PROVE  /\ Head(s) \in S /\ 1 \in DOMAIN s /\ Head(s) = s[1]
         /\ Tail(s) \in Seq(S) /\ Len(Tail(s)) = Len(s) - 1 /\ Len(s) >= 1
         /\ \A i \in DOMAIN Tail(s) :
              /\ i \in Int /\ i + 1 \in DOMAIN s /\ i + 1 # 1
              /\ Tail(s)[i] = s[i + 1]
OBVIOUS

(***************************************************************************)
(* The permits in services, and in all.                                    *)
(***************************************************************************)
LEMMA CountsAreNat ==
  ASSUME NEW n \in [Apply -> 0 .. MaxInstances]
  PROVE  /\ \A a \in Apply : n[a] \in Nat
         /\ IntegersOn(n, Apply) /\ SumFunctionOnSet(n, Apply) \in Nat
<1>1. \A a \in Apply : n[a] \in Nat
  <2>1. ASSUME NEW a \in Apply
        PROVE  n[a] \in 0 .. MaxInstances
    OBVIOUS
  <2> QED  BY <2>1
<1>2. IntegersOn(n, Apply)
  BY <1>1 DEF IntegersOn
<1> QED  BY <1>1, <1>2, Constants, SumNatural

LEMMA PermitsFewer ==
  ASSUME CountsOK, PermitInv, CountsOK', Running' \subseteq Running,
         \A a \in Apply : permits'[a] <= permits[a]
  PROVE  PermitInv'
<1>1. /\ SumFunctionOnSet(permits, Apply) \in Nat
      /\ SumFunctionOnSet(permits', Apply) \in Nat
      /\ IntegersOn(permits, Apply) /\ IntegersOn(permits', Apply)
  BY CountsAreNat DEF CountsOK
<1>2. SumFunctionOnSet(permits', Apply) <= SumFunctionOnSet(permits, Apply)
  BY <1>1, Constants, SumMonotone
<1>3. /\ IsFiniteSet(Running') /\ Cardinality(Running') \in Nat
      /\ Cardinality(Running) \in Nat
      /\ Cardinality(Running') <= Cardinality(Running)
  BY FS_Subset, FS_CardinalityType DEF PermitInv
<1> QED  BY <1>1, <1>2, <1>3, Constants DEF PermitInv

(***************************************************************************)
(* The permits that TypeOK wants to be a natural number.                   *)
(***************************************************************************)
LEMMA FreeAreLeft ==
  ASSUME CountsOK, PermitInv
  PROVE  /\ FreePermits \in Nat
         /\ FreePermits = MaxInstances - Cardinality(Running)
                            - SumFunctionOnSet(permits, Apply)
<1>1. Cardinality(Running) \in Nat
  BY FS_CardinalityType DEF PermitInv
<1>2. SumFunctionOnSet(permits, Apply) \in Nat
  BY CountsAreNat DEF CountsOK
<1> QED  BY <1>1, <1>2, Constants DEF PermitInv, FreePermits, Running

-----------------------------------------------------------------------------
(***************************************************************************)
(* The invariant holds at the start.                                       *)
(***************************************************************************)
LEMMA InitIInv == Init => IInv
<1> SUFFICES ASSUME Init
             PROVE  IInv
  OBVIOUS
<1>1. ClientsOK /\ EngineOK /\ RequestsOK
  BY Constants DEF Init, ClientsOK, EngineOK, RequestsOK, ClientStates,
                   EngineStates
<1>2. CountsOK
  BY Constants DEF Init, CountsOK
<1>3. QueueInv /\ FreshInv /\ HeadInv /\ OpenInv
  BY DEF Init, QueueInv, FreshInv, HeadInv, OpenInv
<1>4. ServiceInv /\ ServedInv /\ CurrentInv
  BY DEF Init, ServiceInv, ServedInv, CurrentInv
<1>5. AliveInv /\ InForceServes /\ ReplacedIsGone
  BY Constants DEF Init, AliveInv, InForceServes, ReplacedIsGone
<1>6. PermitInv
  <2>1. Running = {}
    BY DEF Init, Running
  <2>2. SumFunctionOnSet(permits, Apply) = 0
    <3>1. \A a \in Apply : permits[a] = 0
      BY DEF Init
    <3> QED  BY <3>1, Constants, SumZero
  <2> QED  BY <2>1, <2>2, FS_EmptySet, Constants DEF PermitInv
<1> QED  BY <1>1, <1>2, <1>3, <1>4, <1>5, <1>6 DEF IInv

-----------------------------------------------------------------------------
(***************************************************************************)
(* A replaced manifest is gone for good, as long as none is acknowledged.  *)
(***************************************************************************)
LEMMA GoneStays ==
  ASSUME ReplacedIsGone, UNCHANGED current,
         \A a \in Apply : client'[a] = "answered" => client[a] = "answered",
         \A a \in Apply : client[a] = "answered" /\ Joined(a) => Joined(a)',
         \A r \in Request : \/ servedBy'[r] = current
                            \/ /\ servedBy'[r] = servedBy[r]
                               /\ place[r] = "done" =>
                                    /\ place'[r] = "done"
                                    /\ client'[r] = "accepted" =>
                                         client[r] = "accepted"
  PROVE  ReplacedIsGone'
<1> SUFFICES ASSUME NEW a \in Apply, client'[a] = "answered", current # None,
                    a # current
             PROVE  /\ Joined(a)'
                    /\ \A r \in Request :
                         servedBy'[r] = a =>
                           place'[r] = "done" /\ client'[r] # "accepted"
  BY DEF ReplacedIsGone, ServedBy
<1>1. /\ Joined(a)
      /\ \A r \in Request :
           servedBy[r] = a => place[r] = "done" /\ client[r] # "accepted"
  BY DEF ReplacedIsGone, ServedBy
<1> QED  BY <1>1

(***************************************************************************)
(* A command that is sent: it was in no queue, and its sender waits.       *)
(***************************************************************************)
LEMMA SendPreserves ==
  ASSUME IInv, NEW c \in Cmd, client[c] = "idle", Len(chan) < CmdCapacity,
         c \in Apply => c \notin stop,
         client' = [client EXCEPT ![c] = "waiting"],
         chan' = Append(chan, c),
         UNCHANGED <<main, buf, engine, current, threadVars, requestVars>>
  PROVE  IInv'
<1> DEFINE longer == Append(chan, c)
<1>1. ClientsOK /\ EngineOK
  BY DEF IInv
<1>2. /\ longer \in Seq(Cmd) /\ Len(longer) = Len(chan) + 1
      /\ \A i \in DOMAIN longer :
           \/ i \in DOMAIN chan /\ longer[i] = chan[i]
           \/ i = Len(chan) + 1 /\ longer[i] = c
  BY <1>1, Appended DEF ClientsOK
<1> HIDE DEF longer
<1>3. chan' = longer
  BY DEF longer
<1>4. client'[c] = "waiting" /\ \A d \in Cmd \ {c} : client'[d] = client[d]
  BY <1>1 DEF ClientsOK
<1>5. ClientsOK'
  BY <1>1, <1>2, <1>3, Constants DEF ClientsOK, ClientStates
<1>6. EngineOK' /\ CountsOK' /\ RequestsOK'
  BY DEF IInv, EngineOK, CountsOK, RequestsOK, threadVars, requestVars
<1>7. /\ \A i \in DOMAIN chan : chan[i] \in Cmd \ {c}
      /\ \A i \in DOMAIN buf : buf[i] \in Cmd \ {c}
  BY <1>1 DEF IInv, QueueInv, Pending, ClientsOK
<1>8. QueueInv'
  <2>1. \A i \in DOMAIN longer : client'[longer[i]] \in Pending
    BY <1>2, <1>4, <1>7 DEF IInv, QueueInv, Pending
  <2>2. \A i \in DOMAIN buf : client'[buf[i]] \in Pending
    BY <1>4, <1>7 DEF IInv, QueueInv
  <2>3. ASSUME NEW i \in DOMAIN longer, NEW j \in DOMAIN longer,
               longer[i] = longer[j]
        PROVE  i = j
    BY <1>2, <1>7, <2>3 DEF IInv, QueueInv
  <2>4. ASSUME NEW i \in DOMAIN longer, NEW j \in DOMAIN buf
        PROVE  longer[i] # buf[j]
    BY <1>2, <1>7 DEF IInv, QueueInv
  <2> QED  BY <1>3, <2>1, <2>2, <2>3, <2>4 DEF IInv, QueueInv
<1>9. FreshInv'
  <2>1. ASSUME NEW a \in stop
        PROVE  client'[a] # "idle" /\ \A i \in DOMAIN longer : longer[i] # a
    <3>1. a \in Cmd /\ a # c
      BY <1>1, Constants DEF EngineOK
    <3> QED  BY <1>2, <1>4, <3>1 DEF IInv, FreshInv
  <2> QED  BY <1>3, <2>1 DEF IInv, FreshInv, threadVars
<1>10. HeadInv' /\ OpenInv' /\ ServiceInv' /\ ServedInv'
  BY <1>4, Constants
  DEF IInv, HeadInv, OpenInv, ServiceInv, ServedInv, threadVars, requestVars
<1>11. CurrentInv' /\ AliveInv'
  BY <1>1, <1>4, Constants
  DEF IInv, CurrentInv, AliveInv, EngineOK, threadVars
<1>12. PermitInv' /\ InForceServes'
  BY DEF IInv, PermitInv, Running, InForceServes, threadVars, requestVars
<1>13. ReplacedIsGone'
  BY <1>4, Constants, GoneStays DEF IInv, Joined, threadVars, requestVars
<1> QED  BY <1>5, <1>6, <1>8, <1>9, <1>10, <1>11, <1>12, <1>13 DEF IInv

(***************************************************************************)
(* Clients that give up, fail or are answered outside the channel, without *)
(* a manifest being acknowledged.                                          *)
(***************************************************************************)
LEMMA ClientsPreserve ==
  ASSUME IInv, main' \in {"up", "down"}, client' \in [Cmd -> ClientStates],
         \A c \in Cmd : /\ client[c] \in Pending => client'[c] \in Pending
                        /\ client'[c] = "idle" => client[c] = "idle"
                        /\ client'[c] = "accepted" => client[c] = "accepted"
                        /\ c \in Apply =>
                             (client'[c] = "answered" <=> client[c] = "answered"),
         UNCHANGED <<chan, buf, engine, current, threadVars, requestVars>>
  PROVE  IInv'
<1>1. ClientsOK /\ EngineOK
  BY DEF IInv
<1>2. ClientsOK' /\ EngineOK' /\ CountsOK' /\ RequestsOK'
  BY DEF IInv, ClientsOK, EngineOK, CountsOK, RequestsOK, threadVars,
         requestVars
<1>3. QueueInv'
  <2>1. /\ \A i \in DOMAIN chan : chan[i] \in Cmd
        /\ \A i \in DOMAIN buf : buf[i] \in Cmd
    BY <1>1 DEF ClientsOK
  <2> QED  BY <2>1 DEF IInv, QueueInv
<1>4. FreshInv'
  <2>1. stop \subseteq Cmd
    BY <1>1, Constants DEF EngineOK
  <2> QED  BY <2>1 DEF IInv, FreshInv, threadVars
<1>5. HeadInv' /\ OpenInv' /\ ServiceInv' /\ ServedInv'
  BY Constants
  DEF IInv, HeadInv, OpenInv, ServiceInv, ServedInv, threadVars, requestVars
<1>6. CurrentInv' /\ AliveInv'
  BY <1>1, Constants DEF IInv, CurrentInv, AliveInv, EngineOK, threadVars
<1>7. PermitInv' /\ InForceServes'
  BY DEF IInv, PermitInv, Running, InForceServes, threadVars, requestVars
<1>8. ReplacedIsGone'
  BY Constants, GoneStays DEF IInv, Joined, threadVars, requestVars
<1> QED  BY <1>2, <1>3, <1>4, <1>5, <1>6, <1>7, <1>8 DEF IInv

LEMMA SendRequestPreserves ==
  ASSUME IInv, NEW r \in Request, SendRequest(r)
  PROVE  IInv'
<1>1. r \in Cmd /\ r \notin Apply /\ client \in [Cmd -> ClientStates]
      /\ main \in {"up", "down"}
  BY Constants DEF IInv, ClientsOK
<1>2. CASE /\ Len(chan) < CmdCapacity
           /\ client' = [client EXCEPT ![r] = "waiting"]
           /\ chan' = Append(chan, r)
  BY <1>1, <1>2, SendPreserves DEF SendRequest
<1>3. CASE client' = [client EXCEPT ![r] = "failed"] /\ UNCHANGED chan
  <2>1. client' \in [Cmd -> ClientStates]
    BY <1>1, <1>3 DEF ClientStates
  <2>2. client[r] = "idle"
    BY DEF SendRequest
  <2>3. client'[r] = "failed" /\ \A c \in Cmd \ {r} : client'[c] = client[c]
    BY <1>1, <1>3
  <2> QED  BY <1>1, <1>3, <2>1, <2>2, <2>3, ClientsPreserve
           DEF SendRequest, Pending
<1> QED  BY <1>2, <1>3 DEF SendRequest

LEMMA SendApplyPreserves ==
  ASSUME IInv, NEW a \in Apply, SendApply(a)
  PROVE  IInv'
<1>1. a \in Cmd /\ client \in [Cmd -> ClientStates] /\ main \in {"up", "down"}
  BY Constants DEF IInv, ClientsOK
<1>2. client[a] = "idle" /\ a \notin stop
  BY DEF SendApply, IInv, FreshInv
<1>3. CASE /\ Len(chan) < CmdCapacity
           /\ client' = [client EXCEPT ![a] = "waiting"]
           /\ chan' = Append(chan, a)
  BY <1>1, <1>2, <1>3, SendPreserves DEF SendApply
<1>4. CASE client' = [client EXCEPT ![a] = "failed"] /\ UNCHANGED chan
  <2>1. client' \in [Cmd -> ClientStates]
    BY <1>1, <1>4 DEF ClientStates
  <2>2. client'[a] = "failed" /\ \A c \in Cmd \ {a} : client'[c] = client[c]
    BY <1>1, <1>4
  <2> QED  BY <1>1, <1>2, <1>4, <2>1, <2>2, ClientsPreserve
           DEF SendApply, Pending
<1> QED  BY <1>3, <1>4 DEF SendApply

LEMMA DisconnectPreserves ==
  ASSUME IInv, NEW r \in Request, Disconnect(r)
  PROVE  IInv'
<1>1. r \in Cmd /\ r \notin Apply /\ client \in [Cmd -> ClientStates]
      /\ main \in {"up", "down"}
  BY Constants DEF IInv, ClientsOK
<1>2. client' = [client EXCEPT ![r] = "gone"]
  BY DEF Disconnect
<1>3. client' \in [Cmd -> ClientStates]
  BY <1>1, <1>2 DEF ClientStates
<1>4. client'[r] = "gone" /\ \A c \in Cmd \ {r} : client'[c] = client[c]
  BY <1>1, <1>2
<1> QED  BY <1>1, <1>3, <1>4, ClientsPreserve DEF Disconnect, Pending

LEMMA CtrlCPreserves ==
  ASSUME IInv, CtrlC
  PROVE  IInv'
<1>1. client \in [Cmd -> ClientStates]
  BY DEF IInv, ClientsOK
<1>2. \A c \in Cmd :
        client'[c] = IF client[c] \in {"idle", "waiting", "accepted"}
                     THEN "gone" ELSE client[c]
  BY DEF CtrlC
<1>3. client' \in [Cmd -> ClientStates]
  BY <1>1 DEF CtrlC, ClientStates
<1> QED  BY <1>2, <1>3, ClientsPreserve DEF CtrlC, Pending

LEMMA RespondPreserves ==
  ASSUME IInv, NEW r \in Request, Respond(r)
  PROVE  IInv'
<1>1. r \in Cmd /\ r \notin Apply /\ client \in [Cmd -> ClientStates]
      /\ main \in {"up", "down"}
  BY Constants DEF IInv, ClientsOK
<1>2. client[r] = "accepted" /\ client' = [client EXCEPT ![r] = "answered"]
  BY DEF Respond
<1>3. client' \in [Cmd -> ClientStates]
  BY <1>1, <1>2 DEF ClientStates
<1>4. client'[r] = "answered" /\ \A c \in Cmd \ {r} : client'[c] = client[c]
  BY <1>1, <1>2
<1> QED  BY <1>1, <1>2, <1>3, <1>4, ClientsPreserve DEF Respond, Pending

LEMMA DropOutparamPreserves ==
  ASSUME IInv, NEW r \in Request, DropOutparam(r)
  PROVE  IInv'
<1>1. r \in Cmd /\ r \notin Apply /\ client \in [Cmd -> ClientStates]
      /\ main \in {"up", "down"}
  BY Constants DEF IInv, ClientsOK
<1>2. client[r] = "accepted" /\ client' = [client EXCEPT ![r] = "failed"]
  BY DEF DropOutparam
<1>3. client' \in [Cmd -> ClientStates]
  BY <1>1, <1>2 DEF ClientStates
<1>4. client'[r] = "failed" /\ \A c \in Cmd \ {r} : client'[c] = client[c]
  BY <1>1, <1>2
<1> QED  BY <1>1, <1>2, <1>3, <1>4, ClientsPreserve DEF DropOutparam, Pending

-----------------------------------------------------------------------------
(***************************************************************************)
(* The engine goes round its loop.                                         *)
(***************************************************************************)
LEMMA ReceiveManyPreserves ==
  ASSUME IInv, ReceiveMany
  PROVE  IInv'
<1>1. /\ engine = "idle" /\ engine' = "loop" /\ buf' = chan /\ chan' = <<>>
      /\ UNCHANGED <<main, client, current, threadVars, requestVars>>
  BY DEF ReceiveMany
<1>2. ClientsOK' /\ EngineOK' /\ CountsOK' /\ RequestsOK'
  BY <1>1, Constants
  DEF IInv, ClientsOK, EngineOK, EngineStates, CountsOK, RequestsOK,
      threadVars, requestVars
<1>3. QueueInv' /\ FreshInv'
  BY <1>1 DEF IInv, QueueInv, FreshInv, threadVars
<1>4. HeadInv' /\ OpenInv' /\ ServiceInv' /\ ServedInv'
  BY <1>1
  DEF IInv, HeadInv, OpenInv, ServiceInv, ServedInv, threadVars, requestVars
<1>5. CurrentInv' /\ AliveInv'
  BY <1>1 DEF IInv, CurrentInv, AliveInv, Alive, threadVars
<1>6. PermitInv' /\ InForceServes'
  BY <1>1
  DEF IInv, PermitInv, Running, InForceServes, threadVars, requestVars
<1>7. ReplacedIsGone'
  BY <1>1 DEF IInv, ReplacedIsGone, Joined, ServedBy, threadVars, requestVars
<1> QED  BY <1>2, <1>3, <1>4, <1>5, <1>6, <1>7 DEF IInv

(***************************************************************************)
(* Only the place of the engine changes, and not where it could matter.    *)
(***************************************************************************)
LEMMA EngineMoves ==
  ASSUME IInv, engine' \in {"idle", "apply"}, engine \in Alive \ {"join"},
         engine' = "apply" => buf # <<>> /\ Head(buf) \in Apply,
         UNCHANGED <<main, client, chan, buf, current, threadVars, requestVars>>
  PROVE  IInv'
<1>1. ClientsOK' /\ EngineOK' /\ CountsOK' /\ RequestsOK'
  BY DEF IInv, ClientsOK, EngineOK, EngineStates, CountsOK, RequestsOK,
         threadVars, requestVars
<1>2. QueueInv' /\ FreshInv' /\ HeadInv' /\ OpenInv'
  BY DEF IInv, QueueInv, FreshInv, HeadInv, OpenInv, threadVars
<1>3. ServiceInv' /\ ServedInv' /\ CurrentInv' /\ AliveInv'
  BY DEF IInv, ServiceInv, ServedInv, CurrentInv, AliveInv, threadVars,
         requestVars
<1>4. PermitInv' /\ InForceServes'
  BY DEF IInv, PermitInv, Running, InForceServes, Alive, threadVars,
         requestVars
<1>5. ReplacedIsGone'
  BY DEF IInv, ReplacedIsGone, Joined, ServedBy, threadVars, requestVars
<1> QED  BY <1>1, <1>2, <1>3, <1>4, <1>5 DEF IInv

LEMMA EndOfBufferPreserves ==
  ASSUME IInv, EndOfBuffer
  PROVE  IInv'
BY EngineMoves DEF EndOfBuffer, Alive

LEMMA BeginApplyPreserves ==
  ASSUME IInv, BeginApply
  PROVE  IInv'
BY EngineMoves DEF BeginApply, Alive

-----------------------------------------------------------------------------
(***************************************************************************)
(* A reply takes the command out of the buffer; it was nowhere else.       *)
(***************************************************************************)
LEMMA HeadOnce ==
  ASSUME IInv, buf # <<>>
  PROVE  /\ Head(buf) \in Cmd /\ client[Head(buf)] \in Pending
         /\ Head(buf) \notin stop
         /\ \A i \in DOMAIN chan : chan[i] \in Cmd \ {Head(buf)}
         /\ Tail(buf) \in Seq(Cmd)
         /\ \A i \in DOMAIN Tail(buf) :
              /\ i \in Int /\ i + 1 \in DOMAIN buf
              /\ Tail(buf)[i] = buf[i + 1]
              /\ Tail(buf)[i] \in Cmd \ {Head(buf)}
<1>1. buf \in Seq(Cmd) /\ chan \in Seq(Cmd)
  BY DEF IInv, ClientsOK
<1>2. /\ Head(buf) \in Cmd /\ 1 \in DOMAIN buf /\ Head(buf) = buf[1]
      /\ Tail(buf) \in Seq(Cmd)
      /\ \A i \in DOMAIN Tail(buf) :
           /\ i \in Int /\ i + 1 \in DOMAIN buf /\ i + 1 # 1
           /\ Tail(buf)[i] = buf[i + 1]
  BY <1>1, Taken
<1>3. client[Head(buf)] \in Pending /\ Head(buf) \notin stop
  BY <1>2 DEF IInv, QueueInv, FreshInv
<1>4. ASSUME NEW i \in DOMAIN chan
      PROVE  chan[i] \in Cmd \ {Head(buf)}
  <2>1. chan[i] # buf[1]
    BY <1>2 DEF IInv, QueueInv
  <2> QED  BY <1>1, <1>2, <2>1
<1>5. ASSUME NEW i \in DOMAIN Tail(buf)
      PROVE  Tail(buf)[i] \in Cmd \ {Head(buf)}
  <2>1. /\ i + 1 \in DOMAIN buf /\ i + 1 # 1 /\ Tail(buf)[i] = buf[i + 1]
    BY <1>2
  <2>2. buf[i + 1] # buf[1]
    BY <1>2, <2>1 DEF IInv, QueueInv
  <2> QED  BY <1>1, <1>2, <2>1, <2>2
<1> QED  BY <1>2, <1>3, <1>4, <1>5

LEMMA ReplyTakes ==
  ASSUME IInv, buf # <<>>, NEW answer \in ClientStates,
         Reply(Head(buf), answer), UNCHANGED <<main, chan>>
  PROVE  /\ ClientsOK' /\ QueueInv'
         /\ engine' = "loop" /\ client'[Head(buf)] = answer
         /\ \A c \in Cmd \ {Head(buf)} : client'[c] = client[c]
         /\ \A i \in DOMAIN buf' :
              \E j \in DOMAIN buf : buf'[i] = buf[j] /\ buf'[i] # Head(buf)
<1> DEFINE c == Head(buf)
           shorter == Tail(buf)
<1>1. /\ c \in Cmd /\ shorter \in Seq(Cmd)
      /\ \A i \in DOMAIN chan : chan[i] \in Cmd \ {c}
      /\ \A i \in DOMAIN shorter :
           /\ i \in Int /\ i + 1 \in DOMAIN buf /\ shorter[i] = buf[i + 1]
           /\ shorter[i] \in Cmd \ {c}
  BY HeadOnce
<1>2. /\ client' = [client EXCEPT ![c] = answer] /\ engine' = "loop"
      /\ buf' = shorter
  BY DEF Reply
<1> HIDE DEF c, shorter
<1>3. client'[c] = answer /\ \A d \in Cmd \ {c} : client'[d] = client[d]
  BY <1>1, <1>2 DEF IInv, ClientsOK
<1>4. ClientsOK'
  BY <1>1, <1>2 DEF IInv, ClientsOK
<1>5. QueueInv'
  <2>1. /\ \A i \in DOMAIN chan : client'[chan[i]] \in Pending
        /\ \A i, j \in DOMAIN chan : chan[i] = chan[j] => i = j
    BY <1>1, <1>3 DEF IInv, QueueInv
  <2>2. \A i \in DOMAIN shorter : client'[shorter[i]] \in Pending
    BY <1>1, <1>3 DEF IInv, QueueInv
  <2>3. ASSUME NEW i \in DOMAIN shorter, NEW j \in DOMAIN shorter,
               shorter[i] = shorter[j]
        PROVE  i = j
    <3>1. i + 1 = j + 1
      BY <1>1, <2>3 DEF IInv, QueueInv
    <3>2. i \in Int /\ j \in Int
      BY <1>1
    <3> QED  BY <3>1, <3>2
  <2>4. \A i \in DOMAIN chan : \A j \in DOMAIN shorter : chan[i] # shorter[j]
    BY <1>1 DEF IInv, QueueInv
  <2> QED  BY <1>2, <2>1, <2>2, <2>3, <2>4 DEF QueueInv
<1>6. \A i \in DOMAIN buf' :
        \E j \in DOMAIN buf : buf'[i] = buf[j] /\ buf'[i] # c
  BY <1>1, <1>2
<1> QED  BY <1>2, <1>3, <1>4, <1>5, <1>6 DEF c

(***************************************************************************)
(* What dropping a state does to its manifests.                            *)
(***************************************************************************)
LEMMA Dropped ==
  ASSUME EngineOK, CountsOK, OpenInv, ServiceInv, NEW as \in SUBSET Apply,
         Drop(as), UNCHANGED services
  PROVE  /\ CountsOK' /\ OpenInv' /\ ServiceInv'
         /\ workload' \in [Apply -> {"none", "open", "closed", "exited"}]
         /\ stop' = stop \cup as /\ stop' \in SUBSET Apply
         /\ \A a \in Apply : /\ permits'[a] <= permits[a]
                             /\ a \notin as => workload'[a] = workload[a]
                             /\ workload[a] \in {"none", "exited"} <=>
                                  workload'[a] \in {"none", "exited"}
                             /\ workload[a] = "exited" <=>
                                  workload'[a] = "exited"
<1>1. /\ workload' = [a \in Apply |-> IF a \in as /\ workload[a] = "open"
                                      THEN "closed" ELSE workload[a]]
      /\ permits' = [a \in Apply |-> IF a \in as THEN 0 ELSE permits[a]]
      /\ stop' = stop \cup as
  BY DEF Drop
<1>2. \A a \in Apply : permits[a] \in Nat /\ services[a] \in Nat
  BY CountsAreNat DEF CountsOK
<1>3. CountsOK'
  <2>1. 0 \in 0 .. MaxInstances
    BY Constants
  <2> QED  BY <1>1, <2>1 DEF CountsOK
<1>4. OpenInv' /\ ServiceInv'
  BY <1>1 DEF OpenInv, ServiceInv
<1>5. ASSUME NEW a \in Apply
      PROVE  permits'[a] <= permits[a]
  <2>1. permits'[a] = 0 \/ permits'[a] = permits[a]
    BY <1>1
  <2>2. permits[a] \in Nat
    BY <1>2
  <2>3. ASSUME NEW n, NEW m \in Nat, n = 0 \/ n = m
        PROVE  n <= m
    BY <2>3
  <2> QED  BY <2>1, <2>2, <2>3
<1>6. /\ workload' \in [Apply -> {"none", "open", "closed", "exited"}]
      /\ stop' \in SUBSET Apply
  BY <1>1 DEF EngineOK
<1>7. \A a \in Apply : /\ a \notin as => workload'[a] = workload[a]
                       /\ workload[a] \in {"none", "exited"} <=>
                            workload'[a] \in {"none", "exited"}
                       /\ workload[a] = "exited" <=> workload'[a] = "exited"
  BY <1>1
<1> QED  BY <1>1, <1>3, <1>4, <1>5, <1>6, <1>7

LEMMA LeaveExits ==
  ASSUME IInv, NEW how, NEW dropped \in SUBSET (Apply \cup {None}),
         Leave(how, dropped)
  PROVE  /\ \A a \in Apply : workload'[a] = "exited" <=> workload[a] = "exited"
         /\ \A r \in Request : client'[r] = "accepted" => client[r] = "accepted"
<1>1. Drop(dropped \ {None}) /\ UNCHANGED services
  BY DEF Leave
<1>2. dropped \ {None} \in SUBSET Apply
  OBVIOUS
<1>3. \A a \in Apply : workload'[a] = "exited" <=> workload[a] = "exited"
  BY <1>1, <1>2, Dropped DEF IInv
<1>4. \A r \in Request : client'[r] = "accepted" => client[r] = "accepted"
  BY Constants DEF Leave, Fail
<1> QED  BY <1>3, <1>4

(***************************************************************************)
(* The engine thread leaves: what it held is dropped, what it had taken    *)
(* from the channel fails.  The requests are up to the caller.             *)
(***************************************************************************)
LEMMA LeavePreserves ==
  ASSUME IInv, NEW how \in {"failed", "exited"},
         NEW dropped \in SUBSET (Apply \cup {None}), Leave(how, dropped),
         \A a \in dropped \ {None} : /\ client[a] # "idle"
                                     /\ \A i \in DOMAIN chan : chan[i] # a,
         RequestsOK', ServedInv', Running' \subseteq Running
  PROVE  IInv'
<1> DEFINE as == dropped \ {None}
<1>1. /\ engine' = how /\ Drop(as) /\ current' = None /\ buf' = <<>>
      /\ client' = [c \in Cmd |-> IF c \in Range(buf) /\ client[c] = "waiting"
                                  THEN "failed" ELSE client[c]]
      /\ UNCHANGED <<main, chan, services, graceOver>>
  BY DEF Leave, Fail
<1>2. as \in SUBSET Apply
  OBVIOUS
<1>3. \A a \in as : client[a] # "idle" /\ \A i \in DOMAIN chan : chan[i] # a
  OBVIOUS
<1> HIDE DEF as
<1>4. /\ CountsOK' /\ OpenInv' /\ ServiceInv'
      /\ workload' \in [Apply -> {"none", "open", "closed", "exited"}]
      /\ stop' = stop \cup as /\ stop' \in SUBSET Apply
      /\ \A a \in Apply : permits'[a] <= permits[a]
  BY <1>1, <1>2, Dropped DEF IInv
<1>5. ClientsOK'
  BY <1>1 DEF IInv, ClientsOK, ClientStates
<1>6. EngineOK'
  BY <1>1, <1>4 DEF IInv, EngineOK, EngineStates
<1>7. \A c \in Cmd : /\ client'[c] \in {client[c], "failed"}
                     /\ c \notin Range(buf) => client'[c] = client[c]
  BY <1>1
<1>8. QueueInv'
  <2>1. ASSUME NEW i \in DOMAIN chan
        PROVE  client'[chan[i]] \in Pending
    <3>1. chan[i] \in Cmd /\ chan[i] \notin Range(buf)
      BY DEF IInv, ClientsOK, QueueInv, Range
    <3> QED  BY <1>7, <3>1 DEF IInv, QueueInv
  <2> QED  BY <1>1, <2>1 DEF IInv, QueueInv
<1>9. FreshInv'
  <2>1. ASSUME NEW a \in stop'
        PROVE  client'[a] # "idle" /\ \A i \in DOMAIN chan : chan[i] # a
    <3>1. a \in Cmd
      BY <1>4, Constants
    <3>2. client[a] # "idle" /\ \A i \in DOMAIN chan : chan[i] # a
      BY <1>3, <1>4 DEF IInv, FreshInv
    <3> QED  BY <1>7, <3>1, <3>2
  <2> QED  BY <1>1, <2>1 DEF FreshInv
<1>10. HeadInv' /\ CurrentInv' /\ AliveInv' /\ InForceServes' /\ ReplacedIsGone'
  BY <1>1
  DEF HeadInv, CurrentInv, AliveInv, Alive, InForceServes, ReplacedIsGone
<1>11. PermitInv'
  BY <1>4, PermitsFewer DEF IInv
<1> QED  BY <1>4, <1>5, <1>6, <1>8, <1>9, <1>10, <1>11 DEF IInv

(***************************************************************************)
(* The manifest in force may be dropped: it is in no queue.                *)
(***************************************************************************)
LEMMA CurrentIsOut ==
  ASSUME IInv, current # None
  PROVE  /\ current \in Apply /\ client[current] # "idle"
         /\ \A i \in DOMAIN chan : chan[i] # current
         /\ \A i \in DOMAIN buf : buf[i] # current
BY DEF IInv, EngineOK, CurrentInv, QueueInv, Pending

-----------------------------------------------------------------------------
(***************************************************************************)
(* The threads.                                                            *)
(***************************************************************************)
LEMMA DispatchPreserves ==
  ASSUME IInv, NEW r \in Request, Dispatch(r)
  PROVE  IInv'
<1>1. /\ place[r] = "queue" /\ FreePermits > 0
      /\ place' = [place EXCEPT ![r] = "running"]
      /\ UNCHANGED <<main, client, chan, buf, engine, current, threadVars,
                     servedBy>>
  BY DEF Dispatch
<1> PICK s \in {r} \cup idle : /\ instance' = [instance EXCEPT ![r] = s]
                              /\ idle' = idle \ {s}
  BY DEF Dispatch
<1>2. /\ place'[r] = "running"
      /\ \A q \in Request \ {r} : place'[q] = place[q]
  BY <1>1 DEF IInv, RequestsOK
<1>3. ClientsOK' /\ EngineOK' /\ CountsOK' /\ RequestsOK'
  <2>1. ClientsOK' /\ EngineOK' /\ CountsOK'
    BY <1>1 DEF IInv, ClientsOK, EngineOK, CountsOK, threadVars
  <2>2. s \in Request
    BY DEF IInv, RequestsOK
  <2>3. RequestsOK'
    BY <1>1, <2>2 DEF IInv, RequestsOK
  <2> QED  BY <2>1, <2>3
<1>4. QueueInv' /\ FreshInv' /\ HeadInv' /\ OpenInv' /\ ServiceInv'
  BY <1>1 DEF IInv, QueueInv, FreshInv, HeadInv, OpenInv, ServiceInv, threadVars
<1>5. ServedInv'
  BY <1>1, <1>2 DEF IInv, ServedInv, threadVars
<1>6. CurrentInv' /\ AliveInv' /\ InForceServes'
  BY <1>1 DEF IInv, CurrentInv, AliveInv, InForceServes, threadVars
<1>7. PermitInv'
  <2>1. Running' = Running \cup {r} /\ r \notin Running
    BY <1>1, <1>2 DEF Running
  <2>2. /\ IsFiniteSet(Running') /\ Cardinality(Running) \in Nat
        /\ Cardinality(Running') = Cardinality(Running) + 1
    BY <2>1, FS_AddElement, FS_CardinalityType DEF IInv, PermitInv
  <2>3. /\ FreePermits = MaxInstances - Cardinality(Running)
                           - SumFunctionOnSet(permits, Apply)
        /\ SumFunctionOnSet(permits, Apply) \in Nat
    BY FreeAreLeft, CountsAreNat DEF IInv, CountsOK
  <2>4. permits' = permits
    BY <1>1 DEF threadVars
  <2> QED  BY <1>1, <2>2, <2>3, <2>4, Constants DEF PermitInv
<1>8. ReplacedIsGone'
  <2>1. /\ \A a \in Apply : Joined(a) => Joined(a)'
        /\ UNCHANGED <<client, current, servedBy>>
    BY <1>1 DEF Joined, threadVars
  <2> QED  BY <1>1, <1>2, <2>1, GoneStays DEF IInv
<1> QED  BY <1>3, <1>4, <1>5, <1>6, <1>7, <1>8 DEF IInv

(***************************************************************************)
(* Invocations end, alone or with their workload thread, and clients learn *)
(* that no response will come.                                             *)
(***************************************************************************)
LEMMA EndPreserves ==
  ASSUME IInv, NEW ended \in SUBSET Request,
         place' = [r \in Request |-> IF r \in ended THEN "done" ELSE place[r]],
         client' \in [Cmd -> ClientStates],
         \A c \in Cmd : \/ client'[c] = client[c]
                        \/ /\ c \notin Apply /\ client[c] = "accepted"
                           /\ client'[c] = "failed",
         workload' \in [Apply -> {"none", "open", "closed", "exited"}],
         \A a \in Apply :
           \/ workload'[a] = workload[a]
           \/ /\ workload[a] = "closed" /\ workload'[a] = "exited"
              /\ \A r \in Request :
                   servedBy[r] = a => r \in ended /\ client'[r] # "accepted",
         idle' \in SUBSET Request,
         UNCHANGED <<main, chan, buf, engine, current, permits, services, stop,
                     graceOver, servedBy, instance>>
  PROVE  IInv'
<1>1. /\ \A r \in ended : place'[r] = "done"
      /\ \A r \in Request \ ended : place'[r] = place[r]
  OBVIOUS
<1>2. ClientsOK' /\ EngineOK' /\ CountsOK' /\ RequestsOK'
  <2>1. ClientsOK' /\ EngineOK' /\ CountsOK'
    BY DEF IInv, ClientsOK, EngineOK, CountsOK
  <2>2. place' \in [Request -> {"none", "queue", "running", "done"}]
    BY DEF IInv, RequestsOK
  <2>3. \A r \in Request : place'[r] = "running" => place[r] = "running"
    BY <1>1
  <2> QED  BY <2>1, <2>2, <2>3 DEF IInv, RequestsOK
<1>3. QueueInv'
  <2>1. /\ \A i \in DOMAIN chan : chan[i] \in Cmd
        /\ \A i \in DOMAIN buf : buf[i] \in Cmd
    BY DEF IInv, ClientsOK
  <2> QED  BY <2>1 DEF IInv, QueueInv, Pending
<1>4. FreshInv'
  <2>1. stop \subseteq Cmd
    BY Constants DEF IInv, EngineOK
  <2> QED  BY <2>1 DEF IInv, FreshInv
<1>5. HeadInv' /\ OpenInv' /\ ServiceInv'
  BY DEF IInv, HeadInv, OpenInv, ServiceInv
<1>6. ServedInv'
  <2> SUFFICES ASSUME NEW r \in Request, servedBy[r] # None
               PROVE  /\ place'[r] # "none"
                      /\ workload'[servedBy[r]] = "exited" =>
                           place'[r] = "done" /\ client'[r] # "accepted"
    BY DEF ServedInv
  <2>1. servedBy[r] \in Apply /\ place[r] # "none" /\ r \in Cmd
    BY Constants DEF IInv, RequestsOK, ServedInv
  <2>2. workload[servedBy[r]] = "exited" =>
          place[r] = "done" /\ client[r] # "accepted"
    BY DEF IInv, ServedInv
  <2> QED  BY <1>1, <2>1, <2>2
<1>7. CurrentInv' /\ AliveInv' /\ InForceServes'
  BY Constants DEF IInv, EngineOK, CurrentInv, AliveInv, InForceServes
<1>8. PermitInv'
  <2>1. Running' \subseteq Running
    BY <1>1 DEF Running
  <2>2. \A a \in Apply : permits'[a] <= permits[a]
    BY CountsAreNat DEF IInv, CountsOK
  <2> QED  BY <1>2, <2>1, <2>2, PermitsFewer DEF IInv
<1>9. ReplacedIsGone'
  <2>1. \A a \in Apply : Joined(a) => Joined(a)'
    BY DEF Joined
  <2>2. \A a \in Apply : client'[a] = client[a]
    BY Constants
  <2>3. \A r \in Request : client'[r] = "accepted" => client[r] = "accepted"
    BY Constants
  <2> QED  BY <1>1, <2>1, <2>2, <2>3, GoneStays DEF IInv
<1> QED  BY <1>2, <1>3, <1>4, <1>5, <1>6, <1>7, <1>8, <1>9 DEF IInv

(***************************************************************************)
(* What the drop of outparams tells their clients.                         *)
(***************************************************************************)
LEMMA ClientsOfDropped ==
  ASSUME client \in [Cmd -> ClientStates], NEW rs \in SUBSET Request,
         Unanswered(rs)
  PROVE  /\ client' \in [Cmd -> ClientStates]
         /\ \A c \in Cmd : \/ client'[c] = client[c]
                           \/ /\ c \notin Apply /\ client[c] = "accepted"
                              /\ client'[c] = "failed"
         /\ \A r \in rs : client'[r] # "accepted"
BY Constants DEF Unanswered, ClientStates

LEMMA FinishPreserves ==
  ASSUME IInv, NEW r \in Request, Finish(r)
  PROVE  IInv'
<1>1. /\ place[r] = "running" /\ place' = [place EXCEPT ![r] = "done"]
      /\ UNCHANGED <<main, chan, buf, engine, current, workload, permits,
                     services, stop, graceOver, servedBy, instance>>
  BY DEF Finish, threadVars
<1>2. place' = [q \in Request |-> IF q \in {r} THEN "done" ELSE place[q]]
  BY <1>1 DEF IInv, RequestsOK
<1>3. workload' \in [Apply -> {"none", "open", "closed", "exited"}]
  BY <1>1 DEF IInv, EngineOK
<1>4. idle' \in SUBSET Request
  BY <1>1 DEF Finish, IInv, RequestsOK
<1>5. /\ client' \in [Cmd -> ClientStates]
      /\ \A c \in Cmd : \/ client'[c] = client[c]
                        \/ /\ c \notin Apply /\ client[c] = "accepted"
                           /\ client'[c] = "failed"
  <2>1. client \in [Cmd -> ClientStates]
    BY DEF IInv, ClientsOK
  <2>2. CASE UNCHANGED client
    BY <2>1, <2>2
  <2>3. CASE Unanswered({r})
    BY <2>1, <2>3, ClientsOfDropped
  <2>4. CASE Unanswered({u \in Request : instance[u] = instance[r]})
    BY <2>1, <2>4, ClientsOfDropped
  <2> QED  BY <2>2, <2>3, <2>4 DEF Finish
<1> QED  BY <1>1, <1>2, <1>3, <1>4, <1>5, EndPreserves

LEMMA WorkloadExitPreserves ==
  ASSUME IInv, NEW a \in Apply, WorkloadExit(a)
  PROVE  IInv'
<1>1. /\ workload[a] = "closed"
      /\ workload' = [workload EXCEPT ![a] = "exited"]
      /\ place' = [r \in Request |->
                     IF r \in ServedBy(a) THEN "done" ELSE place[r]]
      /\ Unanswered(ServedBy(a)) /\ idle' = idle \ ServedBy(a)
      /\ UNCHANGED <<main, chan, buf, engine, current, permits, services, stop,
                     graceOver, servedBy, instance>>
  BY DEF WorkloadExit
<1>2. /\ ServedBy(a) \in SUBSET Request
      /\ \A r \in Request : servedBy[r] = a => r \in ServedBy(a)
  BY DEF ServedBy
<1>3. /\ workload' \in [Apply -> {"none", "open", "closed", "exited"}]
      /\ workload'[a] = "exited"
      /\ \A b \in Apply \ {a} : workload'[b] = workload[b]
  BY <1>1 DEF IInv, EngineOK
<1>4. /\ client' \in [Cmd -> ClientStates]
      /\ \A c \in Cmd : \/ client'[c] = client[c]
                        \/ /\ c \notin Apply /\ client[c] = "accepted"
                           /\ client'[c] = "failed"
      /\ \A r \in ServedBy(a) : client'[r] # "accepted"
  BY <1>1, <1>2, ClientsOfDropped DEF IInv, ClientsOK
<1>5. idle' \in SUBSET Request
  BY <1>1 DEF IInv, RequestsOK
<1> QED  BY <1>1, <1>2, <1>3, <1>4, <1>5, EndPreserves

LEMMA ServiceExitPreserves ==
  ASSUME IInv, NEW a \in Apply, ServiceExit(a)
  PROVE  IInv'
<1>1. /\ services[a] > 0 /\ services' = [services EXCEPT ![a] = @ - 1]
      /\ UNCHANGED <<main, client, chan, buf, engine, current, workload,
                     permits, stop, graceOver, requestVars>>
  BY DEF ServiceExit
<1>2. services[a] \in 0 .. MaxInstances /\ MaxInstances \in Nat
  BY Constants DEF IInv, CountsOK
<1>3. services[a] - 1 \in 0 .. MaxInstances /\ services[a] - 1 < services[a]
  BY <1>1, <1>2
<1>4. /\ services'[a] = services[a] - 1
      /\ \A b \in Apply \ {a} : services'[b] = services[b]
  BY <1>1 DEF IInv, CountsOK
<1>5. ClientsOK' /\ EngineOK' /\ CountsOK' /\ RequestsOK'
  BY <1>1, <1>3
  DEF IInv, ClientsOK, EngineOK, CountsOK, RequestsOK, requestVars
<1>6. QueueInv' /\ FreshInv' /\ HeadInv' /\ OpenInv'
  BY <1>1 DEF IInv, QueueInv, FreshInv, HeadInv, OpenInv
<1>7. ServiceInv'
  <2>1. ASSUME NEW b \in Apply \ stop
        PROVE  services'[b] <= permits[b]
    <3>1. /\ services[b] <= permits[b] /\ services[b] \in Nat
          /\ permits[b] \in Nat
      BY CountsAreNat DEF IInv, ServiceInv, CountsOK
    <3>2. CASE b = a
      BY <1>4, <3>1, <3>2
    <3>3. CASE b # a
      BY <1>4, <3>1, <3>3
    <3> QED  BY <3>2, <3>3
  <2> QED  BY <1>1, <2>1 DEF ServiceInv
<1>8. ServedInv' /\ CurrentInv' /\ AliveInv' /\ InForceServes' /\ PermitInv'
  BY <1>1
  DEF IInv, ServedInv, CurrentInv, AliveInv, InForceServes, PermitInv, Running,
      requestVars
<1>9. ReplacedIsGone'
  <2>1. \A b \in Apply : Joined(b) => Joined(b)'
    BY <1>1, <1>2, <1>4 DEF Joined
  <2> QED  BY <1>1, <2>1, GoneStays DEF IInv, requestVars
<1> QED  BY <1>5, <1>6, <1>7, <1>8, <1>9 DEF IInv

LEMMA GraceEndsPreserves ==
  ASSUME IInv, NEW a \in Apply, GraceEnds(a)
  PROVE  IInv'
<1>1. /\ a \in stop /\ graceOver' = graceOver \cup {a}
      /\ UNCHANGED <<main, client, chan, buf, engine, current, workload,
                     permits, services, stop, requestVars>>
  BY DEF GraceEnds
<1>2. ClientsOK' /\ EngineOK' /\ CountsOK' /\ RequestsOK'
  BY <1>1 DEF IInv, ClientsOK, EngineOK, CountsOK, RequestsOK, requestVars
<1>3. QueueInv' /\ FreshInv' /\ HeadInv' /\ OpenInv' /\ ServiceInv'
  BY <1>1 DEF IInv, QueueInv, FreshInv, HeadInv, OpenInv, ServiceInv
<1>4. ServedInv' /\ CurrentInv' /\ AliveInv' /\ InForceServes' /\ PermitInv'
  BY <1>1
  DEF IInv, ServedInv, CurrentInv, AliveInv, InForceServes, PermitInv, Running,
      requestVars
<1>5. ReplacedIsGone'
  BY <1>1 DEF IInv, ReplacedIsGone, Joined, ServedBy, requestVars
<1> QED  BY <1>2, <1>3, <1>4, <1>5 DEF IInv

-----------------------------------------------------------------------------
(***************************************************************************)
(* The engine thread, handling a command.                                  *)
(***************************************************************************)
LEMMA ReceiveNonePreserves ==
  ASSUME IInv, ReceiveNone
  PROVE  IInv'
<1>1. Leave("exited", {current}) /\ UNCHANGED requestVars
  BY DEF ReceiveNone
<1>2. {current} \in SUBSET (Apply \cup {None})
  BY DEF IInv, EngineOK
<1>3. \A a \in {current} \ {None} :
        client[a] # "idle" /\ \A i \in DOMAIN chan : chan[i] # a
  BY CurrentIsOut
<1>4. RequestsOK' /\ Running' \subseteq Running
  BY <1>1 DEF IInv, RequestsOK, Running, requestVars
<1>5. ServedInv'
  BY <1>1, <1>2, LeaveExits DEF IInv, ServedInv, RequestsOK, requestVars
<1> QED  BY <1>1, <1>2, <1>3, <1>4, <1>5, LeavePreserves

LEMMA HandleInvokePreserves ==
  ASSUME IInv, HandleInvoke
  PROVE  IInv'
<1> DEFINE r == Head(buf)
<1>1. /\ engine = "loop" /\ buf # <<>> /\ r \in Request /\ Enqueue(r)
      /\ r \in Cmd /\ r \notin Apply /\ UNCHANGED <<instance, idle>>
  BY Constants DEF HandleInvoke
<1>2. /\ RequestsOK' /\ Running' \subseteq Running
      /\ \A q \in Request : \/ place'[q] = place[q] /\ servedBy'[q] = servedBy[q]
                            \/ /\ current # None /\ place'[q] = "queue"
                               /\ servedBy'[q] = current
  <2>1. CASE UNCHANGED <<place, servedBy>>
    BY <1>1, <2>1 DEF IInv, RequestsOK, Running
  <2>2. CASE /\ current # None
             /\ place' = [place EXCEPT ![r] = "queue"]
             /\ servedBy' = [servedBy EXCEPT ![r] = current]
    <3>1. /\ place'[r] = "queue" /\ servedBy'[r] = current
          /\ \A q \in Request \ {r} :
               place'[q] = place[q] /\ servedBy'[q] = servedBy[q]
      BY <1>1, <2>2 DEF IInv, RequestsOK
    <3>2. \A q \in Request : place'[q] = "running" => place[q] = "running"
      BY <3>1
    <3>3. RequestsOK'
      BY <1>1, <2>2, <3>2 DEF IInv, RequestsOK, EngineOK
    <3> QED  BY <2>2, <3>1, <3>2, <3>3 DEF Running
  <2> QED  BY <1>1, <2>1, <2>2 DEF Enqueue
<1>3. current # None => workload[current] = "open"
  BY <1>1 DEF IInv, InForceServes
<1>4. ASSUME \A a \in Apply : workload'[a] = "exited" <=> workload[a] = "exited",
             \A q \in Request :
               client'[q] = "accepted" =>
                 client[q] = "accepted" \/ place'[q] = "queue"
      PROVE  ServedInv'
  <2> SUFFICES ASSUME NEW q \in Request, servedBy'[q] # None
               PROVE  /\ place'[q] # "none"
                      /\ workload'[servedBy'[q]] = "exited" =>
                           place'[q] = "done" /\ client'[q] # "accepted"
    BY DEF ServedInv
  <2>1. servedBy'[q] \in Apply
    BY <1>2 DEF RequestsOK
  <2>2. CASE place'[q] = place[q] /\ servedBy'[q] = servedBy[q]
    <3>1. /\ place[q] # "none"
          /\ workload[servedBy[q]] = "exited" =>
               place[q] = "done" /\ client[q] # "accepted"
      BY <2>2 DEF IInv, ServedInv
    <3> QED  BY <1>4, <2>1, <2>2, <3>1
  <2>3. CASE /\ current # None /\ place'[q] = "queue" /\ servedBy'[q] = current
    <3>1. workload'[current] # "exited"
      BY <1>3, <1>4, <2>1, <2>3
    <3> QED  BY <2>3, <3>1
  <2> QED  BY <1>2, <2>2, <2>3
<1>5. CASE ReplyFails(r, {current})
  <2>1. Leave("failed", {current})
    BY <1>5 DEF ReplyFails
  <2>2. {current} \in SUBSET (Apply \cup {None})
    BY DEF IInv, EngineOK
  <2>3. \A a \in {current} \ {None} :
          client[a] # "idle" /\ \A i \in DOMAIN chan : chan[i] # a
    BY CurrentIsOut
  <2>4. ServedInv'
    BY <1>4, <2>1, <2>2, LeaveExits
  <2> QED  BY <1>2, <2>1, <2>2, <2>3, <2>4, LeavePreserves
<1>6. CASE /\ Reply(r, IF place'[r] = "queue" THEN "accepted" ELSE "failed")
           /\ UNCHANGED <<main, chan, current, threadVars>>
  <2>1. PICK answer \in {"accepted", "failed"} :
               Reply(r, answer) /\ (answer = "accepted" => place'[r] = "queue")
    BY <1>6
  <2>2. /\ ClientsOK' /\ QueueInv'
        /\ engine' = "loop" /\ client'[r] = answer
        /\ \A c \in Cmd \ {r} : client'[c] = client[c]
        /\ \A i \in DOMAIN buf' :
             \E j \in DOMAIN buf : buf'[i] = buf[j] /\ buf'[i] # r
    BY <1>1, <1>6, <2>1, ReplyTakes DEF ClientStates
  <2>3. EngineOK' /\ CountsOK' /\ OpenInv' /\ ServiceInv'
    BY <1>6, <2>2
    DEF IInv, EngineOK, EngineStates, CountsOK, OpenInv, ServiceInv, threadVars
  <2>4. \A a \in Apply : a # r /\ a \in Cmd /\ client'[a] = client[a]
    BY <1>1, <2>2, Constants
  <2>5. FreshInv'
    <3>1. stop \subseteq Apply
      BY DEF IInv, EngineOK
    <3> QED  BY <1>6, <2>2, <2>4, <3>1 DEF IInv, FreshInv, threadVars
  <2>6. HeadInv' /\ InForceServes'
    BY <1>1, <1>6, <2>2 DEF IInv, HeadInv, InForceServes, threadVars
  <2>7. \A q \in Request :
          client'[q] = "accepted" =>
            client[q] = "accepted" \/ place'[q] = "queue"
    BY <2>1, <2>2, Constants
  <2>8. ServedInv'
    BY <1>4, <1>6, <2>7 DEF threadVars
  <2>9. CurrentInv' /\ AliveInv'
    BY <1>1, <1>6, <2>4 DEF IInv, EngineOK, CurrentInv, AliveInv, Alive, threadVars
  <2>10. PermitInv'
    <3>1. \A a \in Apply : permits'[a] <= permits[a]
      BY <1>6, CountsAreNat DEF IInv, CountsOK, threadVars
    <3> QED  BY <1>2, <2>3, <3>1, PermitsFewer DEF IInv
  <2>11. ReplacedIsGone'
    <3>1. /\ \A a \in Apply : Joined(a) => Joined(a)'
          /\ UNCHANGED current
      BY <1>6 DEF Joined, threadVars
    <3>2. ASSUME NEW q \in Request
          PROVE  \/ servedBy'[q] = current
                 \/ /\ servedBy'[q] = servedBy[q]
                    /\ place[q] = "done" =>
                         /\ place'[q] = "done"
                         /\ client'[q] = "accepted" => client[q] = "accepted"
      BY <1>2, <2>7
    <3> QED  BY <2>4, <3>1, <3>2, GoneStays DEF IInv
  <2> QED  BY <1>2, <2>2, <2>3, <2>5, <2>6, <2>9, <2>10, <2>11, <2>8 DEF IInv
<1> QED  BY <1>5, <1>6 DEF HandleInvoke

LEMMA StartWorkloadPreserves ==
  ASSUME IInv, NEW a \in Apply, StartWorkload(a)
  PROVE  IInv'
<1>1. /\ engine = "apply" /\ a = Head(buf) /\ workload[a] = "none"
      /\ workload' = [workload EXCEPT ![a] = "open"]
      /\ UNCHANGED <<main, client, chan, buf, engine, current, permits,
                     services, stop, graceOver, requestVars>>
  BY DEF StartWorkload
<1>2. client[a] \in Pending /\ a \notin stop
  BY <1>1, HeadOnce DEF IInv, HeadInv
<1>3. /\ workload'[a] = "open"
      /\ \A b \in Apply \ {a} : workload'[b] = workload[b]
  BY <1>1 DEF IInv, EngineOK
<1>4. ClientsOK' /\ EngineOK' /\ CountsOK' /\ RequestsOK'
  BY <1>1 DEF IInv, ClientsOK, EngineOK, CountsOK, RequestsOK, requestVars
<1>5. QueueInv' /\ FreshInv' /\ HeadInv' /\ ServiceInv'
  BY <1>1 DEF IInv, QueueInv, FreshInv, HeadInv, ServiceInv
<1>6. OpenInv'
  BY <1>1, <1>2, <1>3 DEF IInv, OpenInv
<1>7. ServedInv'
  BY <1>1, <1>3 DEF IInv, RequestsOK, ServedInv, requestVars
<1>8. CurrentInv' /\ AliveInv' /\ InForceServes' /\ PermitInv'
  BY <1>1, <1>2, <1>3
  DEF IInv, EngineOK, CurrentInv, AliveInv, InForceServes, PermitInv, Running,
      Pending, requestVars
<1>9. ReplacedIsGone'
  <2>1. \A b \in Apply :
          client[b] = "answered" /\ Joined(b) => Joined(b)'
    BY <1>1, <1>2, <1>3 DEF Joined, Pending
  <2> QED  BY <1>1, <2>1, GoneStays DEF IInv, requestVars
<1> QED  BY <1>4, <1>5, <1>6, <1>7, <1>8, <1>9 DEF IInv

LEMMA InstantiateServicePreserves ==
  ASSUME IInv, NEW a \in Apply, InstantiateService(a)
  PROVE  IInv'
<1>1. /\ engine = "apply" /\ a = Head(buf) /\ workload[a] = "open"
      /\ FreePermits > 0
      /\ permits' = [permits EXCEPT ![a] = @ + 1]
      /\ services' = [services EXCEPT ![a] = @ + 1]
      /\ UNCHANGED <<main, client, chan, buf, engine, current, workload, stop,
                     graceOver, requestVars>>
  BY DEF InstantiateService
<1>2. client[a] \in Pending /\ a \notin stop
  BY <1>1, HeadOnce DEF IInv, HeadInv
<1>3. /\ permits'[a] = permits[a] + 1 /\ services'[a] = services[a] + 1
      /\ \A b \in Apply \ {a} :
           permits'[b] = permits[b] /\ services'[b] = services[b]
  BY <1>1 DEF IInv, CountsOK
<1>4. /\ \A b \in Apply : permits[b] \in Nat /\ services[b] \in Nat
      /\ IntegersOn(permits, Apply) /\ SumFunctionOnSet(permits, Apply) \in Nat
  BY CountsAreNat DEF IInv, CountsOK
<1>5. permits'[a] \in Nat /\ services'[a] \in Nat
  BY <1>3, <1>4
<1>6. SumFunctionOnSet(permits', Apply) = SumFunctionOnSet(permits, Apply) + 1
  <2>1. SumFunctionOnSet(permits', Apply)
          = SumFunctionOnSet(permits, Apply) + permits'[a] - permits[a]
    BY <1>3, <1>4, <1>5, Constants, SumUpdate
  <2> QED  BY <1>3, <1>4, <2>1
<1>7. PermitInv'
  <2>1. /\ FreePermits = MaxInstances - Cardinality(Running)
                           - SumFunctionOnSet(permits, Apply)
        /\ IsFiniteSet(Running) /\ Cardinality(Running) \in Nat
    BY FreeAreLeft, FS_CardinalityType DEF IInv, PermitInv
  <2>2. Running' = Running
    BY <1>1 DEF Running, requestVars
  <2> QED  BY <1>1, <1>4, <1>6, <2>1, <2>2, Constants DEF PermitInv
<1>8. permits[a] + 1 \in 0 .. MaxInstances
  <2>1. \A b \in Apply : permits'[b] \in Nat
    BY <1>3, <1>4, <1>5
  <2>2. permits'[a] <= SumFunctionOnSet(permits', Apply)
    BY <2>1, Constants, SumMember
  <2>3. Cardinality(Running') \in Nat
    BY <1>7, FS_CardinalityType DEF PermitInv
  <2> QED  BY <1>3, <1>4, <1>5, <1>6, <1>7, <2>2, <2>3, Constants DEF PermitInv
<1>9. services[a] + 1 \in 0 .. MaxInstances /\ services[a] + 1 <= permits[a] + 1
  <2>1. services[a] <= permits[a]
    BY <1>2 DEF IInv, ServiceInv
  <2> QED  BY <1>4, <1>8, <2>1, Constants
<1>10. ClientsOK' /\ EngineOK' /\ CountsOK' /\ RequestsOK'
  BY <1>1, <1>8, <1>9
  DEF IInv, ClientsOK, EngineOK, CountsOK, RequestsOK, requestVars
<1>11. QueueInv' /\ FreshInv' /\ HeadInv' /\ OpenInv'
  BY <1>1 DEF IInv, QueueInv, FreshInv, HeadInv, OpenInv
<1>12. ServiceInv'
  BY <1>1, <1>3, <1>9 DEF IInv, ServiceInv
<1>13. ServedInv' /\ CurrentInv' /\ AliveInv' /\ InForceServes'
  BY <1>1
  DEF IInv, ServedInv, CurrentInv, AliveInv, InForceServes, requestVars
<1>14. ReplacedIsGone'
  <2>1. \A b \in Apply :
          client[b] = "answered" /\ Joined(b) => Joined(b)'
    BY <1>1, <1>2, <1>3 DEF Joined, Pending
  <2> QED  BY <1>1, <2>1, GoneStays DEF IInv, requestVars
<1> QED  BY <1>7, <1>10, <1>11, <1>12, <1>13, <1>14 DEF IInv

(***************************************************************************)
(* An application that fails drops its own manifest, the one in force goes *)
(* on.                                                                     *)
(***************************************************************************)
LEMMA FailApplyPreserves ==
  ASSUME IInv, NEW a \in Apply, FailApply(a)
  PROVE  IInv'
<1>1. /\ engine = "apply" /\ a = Head(buf) /\ buf # <<>>
      /\ UNCHANGED requestVars
  BY DEF FailApply, IInv, HeadInv
<1>2. /\ a \in Cmd /\ client[a] \in Pending
      /\ \A i \in DOMAIN chan : chan[i] # a
      /\ a # current
  BY <1>1, HeadOnce, Constants DEF IInv, CurrentInv, Pending
<1>3. RequestsOK' /\ Running' = Running
  BY <1>1 DEF IInv, RequestsOK, Running, requestVars
<1>4. ASSUME \A b \in Apply : workload'[b] = "exited" <=> workload[b] = "exited",
             \A r \in Request : client'[r] = "accepted" => client[r] = "accepted"
      PROVE  ServedInv'
  BY <1>1, <1>4 DEF IInv, RequestsOK, ServedInv, requestVars
<1>5. CASE ReplyFails(a, {a, current})
  <2>1. Leave("failed", {a, current})
    BY <1>5 DEF ReplyFails
  <2>2. {a, current} \in SUBSET (Apply \cup {None})
    BY DEF IInv, EngineOK
  <2>3. \A b \in {a, current} \ {None} :
          client[b] # "idle" /\ \A i \in DOMAIN chan : chan[i] # b
    BY <1>2, CurrentIsOut DEF Pending
  <2>4. ServedInv'
    BY <1>4, <2>1, <2>2, LeaveExits
  <2> QED  BY <1>3, <2>1, <2>2, <2>3, <2>4, LeavePreserves
<1>6. CASE /\ Reply(a, "failed") /\ Drop({a})
           /\ UNCHANGED <<main, chan, current, services, graceOver>>
  <2>1. /\ ClientsOK' /\ QueueInv'
        /\ engine' = "loop" /\ client'[a] = "failed"
        /\ \A c \in Cmd \ {a} : client'[c] = client[c]
        /\ \A i \in DOMAIN buf' :
             \E j \in DOMAIN buf : buf'[i] = buf[j] /\ buf'[i] # a
    BY <1>1, <1>6, ReplyTakes DEF ClientStates
  <2>2. /\ CountsOK' /\ OpenInv' /\ ServiceInv'
        /\ workload' \in [Apply -> {"none", "open", "closed", "exited"}]
        /\ stop' = stop \cup {a} /\ stop' \in SUBSET Apply
        /\ \A b \in Apply : /\ permits'[b] <= permits[b]
                            /\ b # a => workload'[b] = workload[b]
                            /\ workload[b] \in {"none", "exited"} <=>
                                 workload'[b] \in {"none", "exited"}
                            /\ workload[b] = "exited" <=>
                                 workload'[b] = "exited"
    BY <1>6, Dropped DEF IInv
  <2>3. EngineOK'
    BY <1>6, <2>1, <2>2 DEF IInv, EngineOK, EngineStates
  <2>4. \A b \in Apply \ {a} : client'[b] = client[b]
    BY <2>1, Constants
  <2>5. FreshInv'
    <3> SUFFICES ASSUME NEW b \in stop'
                 PROVE  /\ client'[b] # "idle"
                        /\ \A i \in DOMAIN chan' : chan'[i] # b
                        /\ \A i \in DOMAIN buf' : buf'[i] # b
      BY DEF FreshInv
    <3>1. CASE b = a
      BY <1>2, <1>6, <2>1, <3>1
    <3>2. CASE b \in stop /\ b # a
      <4>1. b \in Apply
        BY <2>2
      <4> QED  BY <1>6, <2>1, <2>4, <3>2, <4>1 DEF IInv, FreshInv
    <3> QED  BY <2>2, <3>1, <3>2
  <2>6. HeadInv' /\ InForceServes' /\ CurrentInv' /\ AliveInv'
    <3>1. HeadInv'
      BY <2>1 DEF HeadInv
    <3>2. current # None => workload'[current] = workload[current]
      BY <1>2, <2>2 DEF IInv, EngineOK
    <3>3. InForceServes'
      BY <1>1, <1>2, <1>6, <2>2, <3>2 DEF IInv, InForceServes
    <3>4. CurrentInv'
      BY <1>2, <1>6, <2>4, <3>2 DEF IInv, EngineOK, CurrentInv
    <3>5. AliveInv'
      BY <1>1, <1>6, <2>1, <2>4 DEF IInv, AliveInv, Alive
    <3> QED  BY <3>1, <3>3, <3>4, <3>5
  <2>7. \A r \in Request : client'[r] = client[r]
    BY <2>1, Constants
  <2>8. ServedInv'
    BY <1>4, <2>2, <2>7
  <2>9. PermitInv'
    BY <1>3, <2>2, PermitsFewer DEF IInv
  <2>10. ReplacedIsGone'
    <3>1. \A b \in Apply : Joined(b) => Joined(b)'
      BY <1>6, <2>2 DEF Joined
    <3>2. \A b \in Apply : client'[b] = "answered" => client[b] = "answered"
      BY <2>1, <2>4
    <3> QED  BY <1>1, <1>6, <2>7, <3>1, <3>2, GoneStays DEF IInv, requestVars
  <2> QED  BY <1>3, <2>1, <2>2, <2>3, <2>5, <2>6, <2>9, <2>10, <2>8 DEF IInv
<1> QED  BY <1>5, <1>6 DEF FailApply

LEMMA InitiateShutdownPreserves ==
  ASSUME IInv, NEW a \in Apply, InitiateShutdown(a)
  PROVE  IInv'
<1>1. /\ engine = "apply" /\ a = Head(buf) /\ buf # <<>> /\ Head(buf) \in Apply
      /\ workload[a] = "open" /\ engine' = "join" /\ Drop({current} \ {None})
      /\ UNCHANGED <<main, client, chan, buf, current, services, graceOver,
                     requestVars>>
  BY DEF InitiateShutdown, IInv, HeadInv
<1>2. client[a] \in Pending /\ a # current
  BY <1>1, HeadOnce, Constants DEF IInv, CurrentInv, Pending
<1> DEFINE as == {current} \ {None}
<1>3. as \in SUBSET Apply
  BY DEF IInv, EngineOK
<1>4. /\ CountsOK' /\ OpenInv' /\ ServiceInv'
      /\ workload' \in [Apply -> {"none", "open", "closed", "exited"}]
      /\ stop' = stop \cup as /\ stop' \in SUBSET Apply
      /\ \A b \in Apply : /\ permits'[b] <= permits[b]
                          /\ b \notin as => workload'[b] = workload[b]
                          /\ workload[b] \in {"none", "exited"} <=>
                               workload'[b] \in {"none", "exited"}
                          /\ workload[b] = "exited" <=> workload'[b] = "exited"
  BY <1>1, <1>3, Dropped DEF IInv
<1>5. ClientsOK' /\ EngineOK' /\ RequestsOK' /\ QueueInv'
  BY <1>1, <1>4
  DEF IInv, ClientsOK, EngineOK, EngineStates, RequestsOK, QueueInv, requestVars
<1>6. FreshInv'
  <2>1. ASSUME NEW b \in as
        PROVE  /\ client[b] # "idle"
               /\ \A i \in DOMAIN chan : chan[i] # b
               /\ \A i \in DOMAIN buf : buf[i] # b
    BY CurrentIsOut
  <2> HIDE DEF as
  <2>2. ASSUME NEW b \in stop'
        PROVE  /\ client[b] # "idle"
               /\ \A i \in DOMAIN chan : chan[i] # b
               /\ \A i \in DOMAIN buf : buf[i] # b
    BY <1>4, <2>1 DEF IInv, FreshInv
  <2> QED  BY <1>1, <2>2 DEF FreshInv
<1>7. HeadInv'
  BY <1>1, <1>2, <1>4 DEF HeadInv
<1>8. ServedInv'
  BY <1>1, <1>4 DEF IInv, RequestsOK, ServedInv, requestVars
<1>9. CurrentInv' /\ AliveInv' /\ InForceServes'
  BY <1>1, <1>4
  DEF IInv, EngineOK, CurrentInv, AliveInv, Alive, InForceServes
<1>10. PermitInv'
  <2>1. Running' = Running
    BY <1>1 DEF Running, requestVars
  <2> QED  BY <1>4, <2>1, PermitsFewer DEF IInv
<1>11. ReplacedIsGone'
  <2>1. \A b \in Apply : Joined(b) => Joined(b)'
    BY <1>1, <1>4 DEF Joined
  <2> QED  BY <1>1, <2>1, GoneStays DEF IInv, requestVars
<1> QED  BY <1>4, <1>5, <1>6, <1>7, <1>8, <1>9, <1>10, <1>11 DEF IInv

(***************************************************************************)
(* The manifest that was in force has been joined: its workload thread has *)
(* exited, which leaves no invocation.                                     *)
(***************************************************************************)
LEMMA FinishApplyPreserves ==
  ASSUME IInv, NEW a \in Apply, FinishApply(a)
  PROVE  IInv'
<1>1. /\ engine = "join" /\ a = Head(buf) /\ buf # <<>> /\ workload[a] = "open"
      /\ current # None => Joined(current)
      /\ UNCHANGED requestVars
  BY DEF FinishApply, IInv, HeadInv
<1>2. /\ a \in Cmd /\ client[a] \in Pending /\ a \notin stop /\ a # current
      /\ \A i \in DOMAIN chan : chan[i] # a
  BY <1>1, HeadOnce, Constants DEF IInv, CurrentInv, Pending
<1>3. RequestsOK' /\ Running' = Running
  BY <1>1 DEF IInv, RequestsOK, Running, requestVars
<1>4. CASE ReplyFails(a, {a})
  <2>1. Leave("failed", {a})
    BY <1>4 DEF ReplyFails
  <2>2. {a} \in SUBSET (Apply \cup {None})
    OBVIOUS
  <2>3. \A b \in {a} \ {None} :
          client[b] # "idle" /\ \A i \in DOMAIN chan : chan[i] # b
    BY <1>2 DEF Pending
  <2>4. ServedInv'
    BY <1>1, <2>1, <2>2, LeaveExits
    DEF IInv, RequestsOK, ServedInv, requestVars
  <2> QED  BY <1>3, <2>1, <2>2, <2>3, <2>4, LeavePreserves
<1>5. CASE /\ Reply(a, "answered") /\ current' = a
           /\ UNCHANGED <<main, chan, threadVars>>
  <2>1. /\ ClientsOK' /\ QueueInv'
        /\ engine' = "loop" /\ client'[a] = "answered"
        /\ \A c \in Cmd \ {a} : client'[c] = client[c]
        /\ \A i \in DOMAIN buf' :
             \E j \in DOMAIN buf : buf'[i] = buf[j] /\ buf'[i] # a
    BY <1>1, <1>5, ReplyTakes DEF ClientStates
  <2>2. EngineOK' /\ CountsOK' /\ OpenInv' /\ ServiceInv' /\ PermitInv'
    BY <1>3, <1>5, <2>1
    DEF IInv, EngineOK, EngineStates, CountsOK, OpenInv, ServiceInv, PermitInv,
        threadVars
  <2>3. \A b \in Apply \ {a} : client'[b] = client[b]
    BY <2>1, Constants
  <2>4. FreshInv'
    <3>1. stop \subseteq Apply \ {a}
      BY <1>2 DEF IInv, EngineOK
    <3> QED  BY <1>5, <2>1, <2>3, <3>1 DEF IInv, FreshInv, threadVars
  <2>5. HeadInv' /\ CurrentInv' /\ AliveInv' /\ InForceServes'
    BY <1>1, <1>2, <1>5, <2>1, Constants
    DEF HeadInv, CurrentInv, AliveInv, InForceServes, threadVars
  <2>6. \A r \in Request : client'[r] = client[r]
    BY <2>1, Constants
  <2>7. ServedInv'
    BY <1>1, <1>5, <2>6 DEF IInv, ServedInv, threadVars, requestVars
  <2>8. ReplacedIsGone'
    <3> SUFFICES ASSUME NEW b \in Apply, client'[b] = "answered", b # a
                 PROVE  /\ Joined(b)
                        /\ \A r \in Request :
                             servedBy[r] = b =>
                               place[r] = "done" /\ client[r] # "accepted"
      BY <1>1, <1>5, <2>6
      DEF ReplacedIsGone, Joined, ServedBy, threadVars, requestVars
    <3>1. client[b] = "answered"
      BY <2>3
    <3>2. current # None
      BY <1>1, <3>1 DEF IInv, AliveInv, Alive
    <3>3. CASE b = current
      <4>1. Joined(b) /\ workload[b] # "none"
        BY <1>1, <3>2, <3>3 DEF IInv, CurrentInv
      <4>2. workload[b] = "exited" /\ b # None
        BY <3>2, <3>3, <4>1 DEF Joined
      <4> QED  BY <4>1, <4>2 DEF IInv, ServedInv
    <3>4. CASE b # current
      BY <3>1, <3>2, <3>4 DEF IInv, ReplacedIsGone, ServedBy
    <3> QED  BY <3>3, <3>4
  <2> QED  BY <1>3, <2>1, <2>2, <2>4, <2>5, <2>7, <2>8 DEF IInv
<1> QED  BY <1>4, <1>5 DEF FinishApply

LEMMA EndOfScopePreserves ==
  ASSUME IInv, EndOfScope
  PROVE  IInv'
<1>1. /\ engine \in {"failed", "exited"} /\ engine' = "gone" /\ chan' = <<>>
      /\ client' = [c \in Cmd |-> IF c \in Range(chan) /\ client[c] = "waiting"
                                  THEN "failed" ELSE client[c]]
      /\ UNCHANGED <<main, buf, current, threadVars, requestVars>>
  BY DEF EndOfScope, Fail
<1>2. \A c \in Cmd : \/ client'[c] = client[c]
                     \/ /\ c \in Range(chan) /\ client[c] = "waiting"
                        /\ client'[c] = "failed"
  BY <1>1
<1>3. ClientsOK' /\ EngineOK' /\ CountsOK' /\ RequestsOK'
  BY <1>1, Constants
  DEF IInv, ClientsOK, ClientStates, EngineOK, EngineStates, CountsOK,
      RequestsOK, threadVars, requestVars
<1>4. QueueInv'
  <2>1. ASSUME NEW i \in DOMAIN buf
        PROVE  client'[buf[i]] \in Pending
    <3>1. buf[i] \in Cmd /\ buf[i] \notin Range(chan)
      BY DEF IInv, ClientsOK, QueueInv, Range
    <3> QED  BY <1>2, <3>1 DEF IInv, QueueInv
  <2> QED  BY <1>1, <2>1 DEF IInv, QueueInv
<1>5. FreshInv'
  <2>1. stop \subseteq Cmd
    BY Constants DEF IInv, EngineOK
  <2> QED  BY <1>1, <1>2, <2>1 DEF IInv, FreshInv, threadVars
<1>6. \A r \in Request : client'[r] = "accepted" => client[r] = "accepted"
  BY <1>2, Constants
<1>7. HeadInv' /\ OpenInv' /\ ServiceInv' /\ ServedInv'
  BY <1>1, <1>6
  DEF IInv, HeadInv, OpenInv, ServiceInv, ServedInv, threadVars, requestVars
<1>8. CurrentInv' /\ AliveInv'
  BY <1>1, <1>2, Constants
  DEF IInv, EngineOK, CurrentInv, AliveInv, Alive, threadVars
<1>9. PermitInv' /\ InForceServes'
  BY <1>1
  DEF IInv, PermitInv, Running, InForceServes, threadVars, requestVars
<1>10. ReplacedIsGone'
  <2>1. \A a \in Apply : client'[a] = "answered" => client[a] = "answered"
    BY <1>2, Constants
  <2>2. \A a \in Apply : Joined(a) => Joined(a)'
    BY <1>1 DEF Joined, threadVars
  <2> QED  BY <1>1, <1>6, <2>1, <2>2, GoneStays DEF IInv, requestVars
<1> QED  BY <1>3, <1>4, <1>5, <1>7, <1>8, <1>9, <1>10 DEF IInv

-----------------------------------------------------------------------------
LEMMA StutterPreserves ==
  ASSUME IInv, UNCHANGED vars
  PROVE  IInv'
<1>1. ClientsOK' /\ EngineOK' /\ CountsOK' /\ RequestsOK'
  BY DEF IInv, ClientsOK, EngineOK, CountsOK, RequestsOK, vars
<1>2. QueueInv' /\ FreshInv' /\ HeadInv' /\ OpenInv' /\ ServiceInv'
  BY DEF IInv, QueueInv, FreshInv, HeadInv, OpenInv, ServiceInv, vars
<1>3. ServedInv' /\ CurrentInv' /\ AliveInv' /\ PermitInv'
  BY DEF IInv, ServedInv, CurrentInv, AliveInv, PermitInv, Running, vars
<1>4. InForceServes' /\ ReplacedIsGone'
  BY DEF IInv, InForceServes, ReplacedIsGone, Joined, ServedBy, vars
<1> QED  BY <1>1, <1>2, <1>3, <1>4 DEF IInv

LEMMA NextPreserves == IInv /\ [Next]_vars => IInv'
<1> SUFFICES ASSUME IInv, [Next]_vars
             PROVE  IInv'
  BY Zenon
<1>1. CASE Clients
  BY <1>1, SendRequestPreserves, DisconnectPreserves, SendApplyPreserves,
     CtrlCPreserves
  DEF Clients
<1>2. CASE EngineThread
  <2>1. CASE ReceiveMany \/ ReceiveNone \/ EndOfBuffer
    BY <2>1, ReceiveManyPreserves, ReceiveNonePreserves, EndOfBufferPreserves
  <2>2. CASE HandleInvoke \/ BeginApply \/ EndOfScope
    BY <2>2, HandleInvokePreserves, BeginApplyPreserves, EndOfScopePreserves
  <2>3. CASE \E a \in Apply :
               StartWorkload(a) \/ InitiateShutdown(a) \/ FinishApply(a)
    BY <2>3, StartWorkloadPreserves, InitiateShutdownPreserves,
       FinishApplyPreserves
  <2> QED  BY <1>2, <2>1, <2>2, <2>3 DEF EngineThread
<1>3. CASE \E a \in Apply : \/ InstantiateService(a) \/ FailApply(a)
                            \/ WorkloadExit(a) \/ ServiceExit(a) \/ GraceEnds(a)
  BY <1>3, InstantiateServicePreserves, FailApplyPreserves,
     WorkloadExitPreserves, ServiceExitPreserves, GraceEndsPreserves
<1>4. CASE \E r \in Request : \/ Dispatch(r) \/ Respond(r) \/ DropOutparam(r)
                              \/ Finish(r)
  BY <1>4, DispatchPreserves, RespondPreserves, DropOutparamPreserves,
     FinishPreserves
<1>5. CASE UNCHANGED vars
  BY <1>5, StutterPreserves
<1> QED  BY <1>1, <1>2, <1>3, <1>4, <1>5 DEF Next

LEMMA Invariance == Spec => []IInv
<1>1. Init => IInv
  BY InitIInv
<1>2. IInv /\ [Next]_vars => IInv'
  BY NextPreserves
<1> QED  BY <1>1, <1>2, PTL DEF Spec

-----------------------------------------------------------------------------
(***************************************************************************)
(* Every variable has its type; the semaphore of the engine never has less *)
(* than no permit, whatever the invocations, the services and the          *)
(* applications that fail do with them.                                    *)
(***************************************************************************)
THEOREM TypeCorrect == Spec => []TypeOK
<1>1. IInv => TypeOK
  BY FreeAreLeft DEF IInv, TypeOK, ClientsOK, EngineOK, CountsOK, RequestsOK
<1> QED  BY <1>1, Invariance, PTL

(***************************************************************************)
(* The manifest in force serves, untouched, until the next one is          *)
(* complete; and when apply_manifest answers, nothing of a manifest that   *)
(* was replaced runs any more.                                             *)
(***************************************************************************)
THEOREM ReplacedWhole == Spec => []ServesUntilReplaced
<1>1. IInv => ServesUntilReplaced
  BY DEF IInv, ServesUntilReplaced
<1> QED  BY <1>1, Invariance, PTL

(***************************************************************************)
(* What runs under the permits of the engine, invocations and services     *)
(* that have not been told to stop, never exceeds them.                    *)
(***************************************************************************)
THEOREM InstancesBounded == Spec => []PermitsBoundInstances
<1>1. IInv => PermitsBoundInstances
  <2> SUFFICES ASSUME IInv
               PROVE  PermitsBoundInstances
    OBVIOUS
  <2>1. /\ \A a \in Apply : permits[a] \in Nat /\ services[a] \in Nat
        /\ SumFunctionOnSet(permits, Apply) \in Nat
    BY CountsAreNat DEF IInv, CountsOK
  <2> DEFINE serving == Apply \ stop
  <2>2. /\ serving \in SUBSET Apply /\ IsFiniteSet(serving)
        /\ IntegersOn(services, serving) /\ IntegersOn(permits, serving)
    BY <2>1, Constants, FS_Subset DEF IntegersOn
  <2>3. \A a \in serving : services[a] <= permits[a]
    BY DEF IInv, ServiceInv
  <2>4. SumFunctionOnSet(services, serving) \in Nat
    BY <2>1, <2>2, SumNatural
  <2>5. SumFunctionOnSet(permits, serving) \in Nat
    BY <2>1, <2>2, SumNatural
  <2>6. SumFunctionOnSet(services, serving) <= SumFunctionOnSet(permits, serving)
    BY <2>2, <2>3, SumMonotone
  <2>7. SumFunctionOnSet(permits, serving) <= SumFunctionOnSet(permits, Apply)
    BY <2>1, <2>2, Constants, SumPart
  <2>8. Cardinality(Running) \in Nat
    BY FS_CardinalityType DEF IInv, PermitInv
  <2>9. Cardinality(Running) + SumFunctionOnSet(permits, Apply) <= MaxInstances
    BY DEF IInv, PermitInv
  <2>10. Cardinality(Running) + SumFunctionOnSet(services, serving)
           <= MaxInstances
    <3> HIDE DEF serving
    <3> QED  BY <2>1, <2>4, <2>5, <2>6, <2>7, <2>8, <2>9, Constants
  <2> QED  BY <2>10 DEF PermitsBoundInstances, Running
<1> QED  BY <1>1, Invariance, PTL
=============================================================================
