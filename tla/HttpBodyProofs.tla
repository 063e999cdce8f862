--------------------------- MODULE HttpBodyProofs ---------------------------
(***************************************************************************)
(* The invariants of HttpBody, for every window, every set of chunks and   *)
(* every bound.  Two do not depend on the amount of data: no call of a     *)
(* guest meets a corrupted body, and a finished body fails only with its   *)
(* invocation.  The others count bytes: no permit is given twice, so that  *)
(* a permitted write never traps, and a body ends with all of its bytes.   *)
(***************************************************************************)
EXTENDS HttpBody, FiniteSums

\* The bodies that have been given the senders.
SentBodies == {"CreatedSet", "Trailers"}

(***************************************************************************)
(* No call leaves Corrupted behind, where the next call would find it.     *)
(***************************************************************************)
BodyInv ==
  body \in {"none", "Created", "CreatedSet", "Pending", "Trailers",
            "Finished", "Dropped", "gone"}

(***************************************************************************)
(* The outparam has the only senders, of the head as of the trailers.      *)
(***************************************************************************)
OutparamInv ==
  outparam => body \notin SentBodies \cup {"gone"} /\ head = "empty"

(***************************************************************************)
(* The proxy has not read the head yet: if the senders have been put to    *)
(* use it finds one, and that it is not an error.                          *)
(***************************************************************************)
HeadInv ==
  receiver = "head" /\ (body \in SentBodies \/ trailers # "unsent")
    => head = "ok"

(***************************************************************************)
(* A result that is a failure is the one of a failed invocation.           *)
(***************************************************************************)
Failed == outcome \in {"trap", "abort"}
DoneInv == done \in {"err", "closed"} => Failed

IInv ==
  /\ BodyInv /\ OutparamInv /\ HeadInv /\ DoneInv
  /\ InternalChecks /\ FinishedArrives

-----------------------------------------------------------------------------
(***************************************************************************)
(* The invariant holds at the start of an invocation.                      *)
(***************************************************************************)
LEMMA InitIInv == Init => IInv
BY DEF Init, IInv, BodyInv, OutparamInv, HeadInv, DoneInv, InternalChecks,
       FinishedArrives, SentBodies, Failed

(***************************************************************************)
(* Dropping the store, with or without a result: no sender is left, and    *)
(* an invocation that has an outcome keeps it.                             *)
(***************************************************************************)
LEMMA StoreDropped ==
  ASSUME IInv, DropStore, UNCHANGED <<head, trailers, receiver>>,
         \/ UNCHANGED outcome
         \/ outcome = "none" /\ outcome' \in {"ok", "trap", "abort"},
         done' \in {"err", "closed"} => Failed' \/ done' = done,
         trapped' # "internal"
  PROVE  IInv'
<1>1. Failed => Failed'
  BY DEF Failed
<1>2. BodyInv' /\ OutparamInv' /\ InternalChecks'
  BY DEF DropStore, BodyInv, OutparamInv, InternalChecks, SentBodies
<1>3. HeadInv'
  BY DEF DropStore, IInv, HeadInv, SentBodies
<1>4. DoneInv'
  BY <1>1 DEF IInv, DoneInv
<1>5. FinishedArrives'
  BY <1>1 DEF IInv, FinishedArrives, Failed
<1> QED  BY <1>2, <1>3, <1>4, <1>5 DEF IInv

(***************************************************************************)
(* A trap of the guest's own, or by a write.                               *)
(***************************************************************************)
LEMMA TrapKeeps ==
  ASSUME IInv, NEW cause, Trap(cause), cause # "internal"
  PROVE  IInv'
<1>1. DropStore /\ UNCHANGED <<head, trailers, receiver>> /\ trapped' = cause
  BY DEF Trap
<1>2. CASE outcome = "none"
  BY <1>1, <1>2, StoreDropped DEF Trap, Failed
<1>3. CASE outcome # "none"
  <2>1. UNCHANGED <<outcome, done>>
    BY <1>3 DEF Trap
  <2> QED  BY <1>1, <2>1, StoreDropped
<1> QED  BY <1>2, <1>3

(***************************************************************************)
(* A chunk that is sent touches none of the variables of the invariant.    *)
(***************************************************************************)
LEMMA SendKeeps ==
  ASSUME IInv, NEW n, Send(n)
  PROVE  IInv'
BY DEF Send, IInv, BodyInv, OutparamInv, HeadInv, DoneInv, InternalChecks,
       FinishedArrives, SentBodies, Failed

-----------------------------------------------------------------------------
(***************************************************************************)
(* The calls on response, body and stream.  The two that could find the    *)
(* body in a state they do not expect are the interesting ones: the        *)
(* outparam excludes one, BodyInv the other.                               *)
(***************************************************************************)
LEMMA SetKeeps ==
  ASSUME IInv, SetResponse
  PROVE  IInv'
<1>1. body \in {"none", "Created", "Pending", "Finished", "Dropped"}
  BY DEF IInv, BodyInv, OutparamInv, SetResponse, SentBodies
<1>2. /\ outparam' = FALSE /\ body' = BodyAfterSet /\ SendHead("ok")
      /\ UNCHANGED <<outcome, trapped, trailers, done, receiver>>
  BY <1>1 DEF SetResponse, guestVars
<1>3. BodyInv'
  BY <1>1, <1>2 DEF BodyAfterSet, BodyInv
<1>4. HeadInv'
  BY <1>2 DEF SendHead, HeadInv
<1>5. OutparamInv' /\ DoneInv' /\ InternalChecks' /\ FinishedArrives'
  BY <1>2 DEF IInv, OutparamInv, DoneInv, InternalChecks, FinishedArrives,
              Failed
<1> QED  BY <1>3, <1>4, <1>5 DEF IInv

LEMMA OpenKeeps ==
  ASSUME IInv, OpenStream
  PROVE  IInv'
<1>1. body # "Corrupted"
  BY DEF IInv, BodyInv
<1>2. /\ body' = BodyAfterOpen
      /\ UNCHANGED <<outcome, trapped, outparam, head, trailers, done,
                     receiver>>
  BY <1>1 DEF OpenStream, guestVars, channels
<1>3. BodyInv' /\ (body' \in SentBodies <=> body \in SentBodies)
      /\ (body' = "gone" <=> body = "gone")
  BY <1>1, <1>2 DEF BodyAfterOpen, IInv, BodyInv, SentBodies
<1>4. OutparamInv' /\ HeadInv'
  BY <1>2, <1>3 DEF IInv, OutparamInv, HeadInv
<1>5. DoneInv' /\ InternalChecks' /\ FinishedArrives'
  BY <1>2 DEF IInv, DoneInv, InternalChecks, FinishedArrives, Failed
<1> QED  BY <1>3, <1>4, <1>5 DEF IInv

LEMMA FinishKeeps ==
  ASSUME IInv, NEW t, FinishBody(t)
  PROVE  IInv'
<1>1. body # "Corrupted"
  BY DEF IInv, BodyInv
<1>2. /\ body' = "Finished"
      /\ UNCHANGED <<outcome, trapped, outparam, head, done, receiver>>
      /\ \/ body \in SentBodies /\ Receiving
         \/ UNCHANGED trailers
  BY <1>1 DEF FinishBody, guestVars, SentBodies
<1>3. BodyInv' /\ OutparamInv' /\ DoneInv' /\ InternalChecks'
  BY <1>2 DEF IInv, BodyInv, OutparamInv, DoneInv, InternalChecks, SentBodies,
              Failed
<1>4. HeadInv'
  BY <1>2 DEF IInv, HeadInv, SentBodies
<1>5. FinishedArrives'
  BY <1>2 DEF IInv, FinishedArrives, Receiving
<1> QED  BY <1>3, <1>4, <1>5 DEF IInv

(***************************************************************************)
(* The other calls of the guest.                                           *)
(***************************************************************************)
LEMMA DropsKeep ==
  ASSUME IInv,
         \/ NewResponse \/ TakeBody \/ DropResponse
         \/ SetError \/ DropOutparam \/ DropBody \/ DropStream
         \/ StreamError \/ CheckWrite
  PROVE  IInv'
<1> USE DEF IInv, BodyInv, OutparamInv, HeadInv, DoneInv, InternalChecks,
            FinishedArrives, SentBodies, Failed, guestVars, channels
<1>1. CASE NewResponse
  BY <1>1 DEF NewResponse
<1>2. CASE TakeBody
  BY <1>2 DEF TakeBody
<1>3. CASE DropResponse
  BY <1>3 DEF DropResponse
<1>4. CASE SetError
  BY <1>4 DEF SetError, SendHead
<1>5. CASE DropOutparam
  BY <1>5 DEF DropOutparam
<1>6. CASE DropBody
  BY <1>6 DEF DropBody
<1>7. CASE DropStream
  BY <1>7 DEF DropStream
<1>8. CASE StreamError
  BY <1>8 DEF StreamError
<1>9. CASE CheckWrite
  BY <1>9 DEF CheckWrite
<1> QED  BY <1>1, <1>2, <1>3, <1>4, <1>5, <1>6, <1>7, <1>8, <1>9

(***************************************************************************)
(* The proxy: a receiver that fails has read a failure, or has found the   *)
(* trailers closed without having been sent.                               *)
(***************************************************************************)
LEMMA ProxyKeeps ==
  ASSUME IInv, Proxy
  PROVE  IInv'
<1> USE DEF IInv, BodyInv, OutparamInv, HeadInv, DoneInv, InternalChecks,
            FinishedArrives, SentBodies, Failed, guestVars, resources
<1>1. CASE ReceiveHead
  BY <1>1 DEF ReceiveHead, Stop
<1>2. CASE PollFailure
  BY <1>2 DEF PollFailure, Stop
<1>3. CASE PollData
  BY <1>3 DEF PollData, ReadDone
<1>4. CASE PollTrailers
  BY <1>4 DEF PollTrailers, ReadDone, Stop
<1>5. CASE PollPending
  BY <1>5 DEF PollPending, ReadDone
<1>6. CASE Disconnect
  BY <1>6 DEF Disconnect, Stop
<1>7. CASE ConnEnds
  BY <1>7 DEF ConnEnds
<1> QED  BY <1>1, <1>2, <1>3, <1>4, <1>5, <1>6, <1>7 DEF Proxy, PollFrame

(***************************************************************************)
(* The end of invocations, and the exit of the thread.                     *)
(***************************************************************************)
LEMMA EndsKeep ==
  ASSUME IInv, Return \/ Engine
  PROVE  IInv'
<1>1. CASE Return
  <2>1. /\ UNCHANGED <<trapped, head, trailers, receiver>>
        /\ \/ UNCHANGED <<outcome, done>>
           \/ outcome = "none" /\ outcome' = "ok" /\ done' = "ok"
    BY <1>1 DEF Return
  <2>2. CASE DropStore
    BY <2>1, <2>2, StoreDropped DEF IInv, InternalChecks
  <2>3. CASE UNCHANGED resources
    BY <2>1, <2>3 DEF IInv, BodyInv, OutparamInv, HeadInv, DoneInv,
      InternalChecks, FinishedArrives, SentBodies, Failed, resources
  <2> QED  BY <1>1, <2>2, <2>3 DEF Return
<1>2. CASE Unblock
  BY <1>2, SendKeeps DEF Unblock
<1>3. CASE Reenter
  BY <1>3 DEF Reenter, IInv, BodyInv, OutparamInv, HeadInv, DoneInv,
    InternalChecks, FinishedArrives, SentBodies, Failed, resources, channels
<1>4. CASE ThreadExit
  <2>1. DropStore /\ UNCHANGED <<trapped, head, trailers, done, receiver>>
    BY <1>4 DEF ThreadExit, channels
  <2>2. \/ UNCHANGED outcome
        \/ outcome = "none" /\ outcome' = "abort"
    BY <1>4 DEF ThreadExit
  <2> QED  BY <2>1, <2>2, StoreDropped DEF IInv, InternalChecks
<1>5. CASE CloseDone
  BY <1>5 DEF CloseDone, IInv, BodyInv, OutparamInv, HeadInv, DoneInv,
    InternalChecks, FinishedArrives, SentBodies, Failed, guestVars, resources
<1> QED  BY <1>1, <1>2, <1>3, <1>4, <1>5 DEF Engine

-----------------------------------------------------------------------------
(***************************************************************************)
(* Every step preserves the invariant.                                     *)
(***************************************************************************)
LEMMA NextIInv == IInv /\ [Next]_vars => IInv'
<1> SUFFICES ASSUME IInv, [Next]_vars
             PROVE  IInv'
  OBVIOUS
<1>1. CASE SetResponse
  BY <1>1, SetKeeps
<1>2. CASE OpenStream
  BY <1>2, OpenKeeps
<1>3. ASSUME NEW t \in {"none", "some"}, FinishBody(t)
      PROVE  IInv'
  BY <1>3, FinishKeeps
<1>4. CASE \/ NewResponse \/ TakeBody \/ DropResponse
           \/ SetError \/ DropOutparam \/ DropBody \/ DropStream
           \/ StreamError \/ CheckWrite
  BY <1>4, DropsKeep
<1>5. ASSUME NEW n \in Chunk, Write(n)
      PROVE  IInv'
  <2>1. CASE n <= Available
    BY <1>5, <2>1, SendKeeps DEF Write
  <2>2. CASE ~ (n <= Available) /\ n <= allowed
    BY <1>5, <2>2, TrapKeeps DEF Write
  <2>3. CASE ~ (n <= Available) /\ ~ (n <= allowed)
    BY <1>5, <2>3, TrapKeeps DEF Write
  <2> QED  BY <2>1, <2>2, <2>3
<1>6. ASSUME NEW n \in Chunk, BlockingWrite(n)
      PROVE  IInv'
  BY <1>6 DEF BlockingWrite, IInv, BodyInv, OutparamInv, HeadInv, DoneInv,
    InternalChecks, FinishedArrives, SentBodies, Failed, resources, channels
<1>7. CASE Return \/ Engine
  BY <1>7, EndsKeep
<1>8. CASE GuestTrap
  BY <1>8, TrapKeeps DEF GuestTrap
<1>9. CASE Proxy
  BY <1>9, ProxyKeeps
<1>10. CASE UNCHANGED vars
  BY <1>10 DEF IInv, BodyInv, OutparamInv, HeadInv, DoneInv, InternalChecks,
    FinishedArrives, SentBodies, Failed, vars, guestVars, resources, channels
<1> QED
  BY <1>1, <1>2, <1>3, <1>4, <1>5, <1>6, <1>7, <1>8, <1>9, <1>10
  DEF Next, Guest

LEMMA Invariance == Spec => []IInv
<1>1. Init /\ [][Next]_vars => []IInv
  BY InitIInv, NextIInv, PTL
<1> QED  BY <1>1, PTL DEF Spec

(***************************************************************************)
(* Whatever a guest does, no host function finds a corrupted body.         *)
(***************************************************************************)
THEOREM InternalChecksHold == Spec => []InternalChecks
<1>1. IInv => InternalChecks
  BY DEF IInv
<1> QED  BY <1>1, Invariance, PTL

(***************************************************************************)
(* A body that was finished in time fails only with its invocation.        *)
(***************************************************************************)
THEOREM FinishedBodiesArrive == Spec => []FinishedArrives
<1>1. IInv => FinishedArrives
  BY DEF IInv
<1> QED  BY <1>1, Invariance, PTL

-----------------------------------------------------------------------------
(***************************************************************************)
(* The states of the resources and of the channels, and what does not      *)
(* depend on the amount of data in TypeOK.                                 *)
(***************************************************************************)
States ==
  /\ guest \in {"running", "idle", "gone"}
  /\ outcome \in {"none", "ok", "trap", "abort"}
  /\ trapped \in {"no", "guest", "write", "internal"}
  /\ outparam \in BOOLEAN
  /\ response \in {"none", "bare", "bodied", "gone"}
  /\ body \in OwnedBodies \cup {"none", "Finished", "Dropped", "gone"}
  /\ stream \in {"none", "pending", "offered", "writing", "closed", "gone"}
  /\ head \in {"empty", "ok", "err"}
  /\ trailers \in {"unsent", "none", "some"}
  /\ done \in {"empty", "ok", "err", "closed", "taken"}
  /\ conn \in {"open", "failed", "closed"}
  /\ receiver \in {"head", "body", "ended", "failed", "gone"}

(***************************************************************************)
(* The bytes on the data channel.  They occupy permits, and check-write    *)
(* has allowed no more than is left; a blocking write that waits stays     *)
(* within the bound that it was started with.  As long as the proxy has    *)
(* the receiver, every byte accepted is handed on or on the channel.       *)
(***************************************************************************)
Held == Total(data)

Bytes ==
  /\ data \in Seq(Chunk) /\ Held <= Window
  /\ wanted \in {0} \cup Chunk
  /\ allowed \in Nat /\ allowed <= Window - Held
  /\ sent \in Nat /\ got \in Nat
  /\ sent + wanted <= MaxSent
  /\ Receiving => sent = got + Held
  /\ ~ Receiving => data = <<>> /\ got <= sent

Ended == receiver = "ended" => trailers # "unsent" /\ got = sent

DataInv == States /\ Bytes /\ Ended

(***************************************************************************)
(* What appending to the channel and taking from it do to what it holds.   *)
(***************************************************************************)
LEMMA Chunks ==
  /\ Window \in Nat /\ MaxSent \in Nat /\ Chunk \subseteq Nat \ {0}
  /\ Total(<<>>) = 0
  /\ \A s \in Seq(Chunk) :
       /\ Total(s) \in Nat
       /\ \A n \in Chunk : /\ Append(s, n) \in Seq(Chunk)
                           /\ Total(Append(s, n)) = Total(s) + n
       /\ s # <<>> => /\ Head(s) \in Chunk /\ Tail(s) \in Seq(Chunk)
                      /\ Total(s) = Head(s) + Total(Tail(s))
<1>1. Window \in Nat /\ MaxSent \in Nat /\ Chunk \subseteq Nat \ {0}
  BY HttpBodyAssumption
<1>2. ASSUME NEW s \in Seq(Chunk)
      PROVE  /\ Total(s) \in Nat
             /\ \A n \in Chunk :
                  /\ Append(s, n) \in Seq(Chunk)
                  /\ Total(Append(s, n)) = Total(s) + n
             /\ s # <<>> => /\ Head(s) \in Chunk /\ Tail(s) \in Seq(Chunk)
                            /\ Total(s)
                                 = Head(s) + Total(Tail(s))
  <2>1. s \in Seq(Nat) /\ \A n \in Chunk : n \in Nat
    <3>1. Chunk \subseteq Nat
      BY <1>1
    <3>2. \A i \in 1 .. Len(s) : s[i] \in Chunk
      OBVIOUS
    <3>3. \A i \in 1 .. Len(s) : s[i] \in Nat
      BY <3>1, <3>2
    <3>4. s \in Seq(Nat)
      BY <3>3
    <3> QED  BY <3>1, <3>4
  <2>2. \A n \in Chunk : Append(s, n) \in Seq(Chunk)
    OBVIOUS
  <2>3. s # <<>> => Head(s) \in Chunk /\ Tail(s) \in Seq(Chunk)
    OBVIOUS
  <2> QED  BY <2>1, <2>2, <2>3, TotalNatural, TotalAppend, TotalTail
<1> QED  BY <1>1, <1>2, TotalEmpty

LEMMA HeldIsNatural ==
  ASSUME data \in Seq(Chunk)
  PROVE  Held \in Nat
BY Chunks DEF Held

LEMMA AvailableIsLeft == Available = Window - Held
BY DEF Available, Held, Total

(***************************************************************************)
(* Nothing but the guest's wait may end, and the outparam's senders go,    *)
(* without touching the bytes.                                             *)
(***************************************************************************)
LEMMA BytesStay ==
  ASSUME Bytes, UNCHANGED <<data, allowed, sent, got, receiver>>,
         wanted' \in {0, wanted}
  PROVE  Bytes'
<1>1. Held' = Held /\ Receiving' = Receiving
  BY DEF Held, Receiving
<1>2. wanted' \in {0} \cup Chunk /\ sent + wanted' <= MaxSent
  <2>1. wanted \in Nat /\ sent \in Nat /\ sent + wanted <= MaxSent
    BY Chunks DEF Bytes
  <2>2. CASE wanted' = 0
    BY <2>1, <2>2, Chunks
  <2>3. CASE wanted' = wanted
    BY <2>3 DEF Bytes
  <2> QED  BY <2>2, <2>3
<1> QED  BY <1>1, <1>2 DEF Bytes

(***************************************************************************)
(* A chunk is sent only if it has its permits.                             *)
(***************************************************************************)
LEMMA SendCounts ==
  ASSUME Bytes, NEW n \in Chunk, n <= Available, sent + n <= MaxSent,
         wanted' = 0, Send(n)
  PROVE  Bytes'
<1>1. /\ n \in Nat /\ Held \in Nat /\ n <= Window - Held
      /\ UNCHANGED <<receiver, got>>
  BY Chunks, HeldIsNatural, AvailableIsLeft DEF Bytes, Send
<1>2. CASE Receiving
  <2>1. /\ data' = Append(data, n) /\ sent' = sent + n
        /\ allowed' = IF n < allowed THEN allowed - n ELSE 0
    BY <1>2 DEF Send
  <2>2. data' \in Seq(Chunk) /\ Held' = Held + n /\ Receiving'
    BY <1>1, <1>2, <2>1, Chunks DEF Bytes, Held, Receiving
  <2>3. allowed' \in Nat /\ allowed' <= Window - Held'
    BY <1>1, <2>1, <2>2, Chunks DEF Bytes
  <2> QED  BY <1>1, <1>2, <2>1, <2>2, <2>3, Chunks DEF Bytes
<1>3. CASE ~ Receiving
  <2>1. UNCHANGED <<data, sent, allowed>>
    BY <1>3 DEF Send
  <2> QED  BY <1>1, <2>1, BytesStay
<1> QED  BY <1>2, <1>3

(***************************************************************************)
(* When the receiver goes the channel is emptied.                          *)
(***************************************************************************)
LEMMA StopCounts ==
  ASSUME Bytes, Receiving, NEW r \in {"ended", "failed", "gone"}, Stop(r),
         UNCHANGED <<allowed, wanted, sent, got>>
  PROVE  Bytes'
<1>1. data' = <<>> /\ receiver' = r
  BY DEF Stop
<1>2. /\ ~ Receiving' /\ Held' = 0 /\ Held \in Nat /\ data' \in Seq(Chunk)
      /\ Window \in Nat
  BY <1>1, Chunks, HeldIsNatural DEF Receiving, Held, Bytes
<1>3. allowed \in Nat /\ allowed <= Window - 0 /\ got <= sent
  BY <1>2 DEF Bytes
<1> QED  BY <1>1, <1>2, <1>3 DEF Bytes

LEMMA TrapCounts ==
  ASSUME DataInv, NEW cause \in {"guest", "write", "internal"}, Trap(cause)
  PROVE  DataInv'
<1>1. /\ DropStore /\ trapped' = cause
      /\ UNCHANGED <<allowed, sent, head, data, trailers, conn, receiver, got>>
      /\ \/ outcome' = "trap" /\ done' = "err"
         \/ UNCHANGED <<outcome, done>>
  BY DEF Trap
<1>2. States'
  BY <1>1 DEF DataInv, States, DropStore
<1>3. Bytes'
  BY <1>1, BytesStay DEF DataInv, DropStore
<1>4. Ended'
  BY <1>1 DEF DataInv, Ended
<1> QED  BY <1>2, <1>3, <1>4 DEF DataInv

-----------------------------------------------------------------------------
(***************************************************************************)
(* The guest's calls that leave the bytes alone.                           *)
(***************************************************************************)
LEMMA CallsCount ==
  ASSUME DataInv,
         \/ NewResponse \/ TakeBody \/ DropResponse
         \/ SetResponse \/ SetError \/ DropOutparam
         \/ OpenStream \/ DropBody \/ DropStream
         \/ StreamError
  PROVE  DataInv'
<1> SUFFICES ASSUME ~ Trap("internal")
             PROVE  DataInv'
  BY TrapCounts
<1>1. UNCHANGED <<data, allowed, wanted, sent, got, receiver, trailers>>
  BY DEF NewResponse, TakeBody, DropResponse, SetResponse, SetError,
         DropOutparam, OpenStream, DropBody, DropStream, StreamError,
         guestVars, channels
<1>2. States'
  <2> USE DEF DataInv, States, OwnedBodies, guestVars, channels, resources
  <2>1. CASE NewResponse \/ TakeBody \/ DropResponse
    BY <2>1 DEF NewResponse, TakeBody, DropResponse
  <2>2. CASE SetResponse
    <3>1. BodyAfterSet \in OwnedBodies \cup {"none", "Finished", "Dropped", "gone"}
      BY DEF BodyAfterSet
    <3> QED  BY <2>2, <3>1 DEF SetResponse, SendHead
  <2>3. CASE SetError \/ DropOutparam
    BY <2>3 DEF SetError, DropOutparam, SendHead
  <2>4. CASE OpenStream
    <3>1. BodyAfterOpen \in OwnedBodies \cup {"none", "Finished", "Dropped", "gone"}
      BY DEF BodyAfterOpen
    <3>2. stream' \in {stream, "pending", "writing"}
      BY <2>4 DEF OpenStream
    <3> QED  BY <2>4, <3>1, <3>2 DEF OpenStream
  <2>5. CASE DropBody
    BY <2>5 DEF DropBody, StreamLoses
  <2>6. CASE DropStream \/ StreamError
    BY <2>6 DEF DropStream, StreamError, ReadConn
  <2> QED  BY <2>1, <2>2, <2>3, <2>4, <2>5, <2>6
<1>3. Bytes'
  BY <1>1, BytesStay DEF DataInv
<1>4. Ended'
  BY <1>1 DEF DataInv, Ended
<1> QED  BY <1>2, <1>3, <1>4 DEF DataInv

LEMMA FinishCounts ==
  ASSUME DataInv, NEW t \in {"none", "some"}, FinishBody(t)
  PROVE  DataInv'
<1>1. CASE Trap("internal")
  BY <1>1, TrapCounts
<1>2. CASE /\ body' = "Finished" /\ StreamLoses
           /\ \/ Receiving /\ trailers' = t /\ ReadConn
              \/ UNCHANGED <<trailers, conn>>
           /\ UNCHANGED <<guestVars, outparam, response, head, data, done,
                          receiver, got>>
  <2>1. States'
    BY <1>2 DEF DataInv, States, OwnedBodies, guestVars, StreamLoses, ReadConn
  <2>2. Bytes'
    BY <1>2, BytesStay DEF DataInv, guestVars
  <2>3. Ended'
    BY <1>2 DEF DataInv, Ended, guestVars, Receiving
  <2> QED  BY <2>1, <2>2, <2>3 DEF DataInv
<1> QED  BY <1>1, <1>2 DEF FinishBody

(***************************************************************************)
(* The guest writes: check-write answers with what is left, which the      *)
(* receiver can only increase.                                             *)
(***************************************************************************)
LEMMA CheckCounts ==
  ASSUME DataInv, CheckWrite
  PROVE  DataInv'
<1>1. /\ stream' = "writing" /\ allowed' = Window - Held
      /\ UNCHANGED <<guest, outcome, wanted, trapped, sent, outparam, response,
                     body, channels, receiver, got>>
  BY AvailableIsLeft DEF CheckWrite, Permit
<1>2. Held' = Held /\ Held \in Nat /\ Receiving' = Receiving
  BY <1>1, HeldIsNatural DEF DataInv, Bytes, Held, channels, Receiving
<1>3. States' /\ Ended'
  BY <1>1 DEF DataInv, States, Ended, channels
<1>4. Bytes'
  BY <1>1, <1>2, Chunks DEF DataInv, Bytes, channels
<1> QED  BY <1>3, <1>4 DEF DataInv

LEMMA SendStates ==
  ASSUME DataInv, NEW n, Send(n), UNCHANGED wanted \/ wanted' = 0
  PROVE  States' /\ Ended'
<1>1. States'
  BY DEF Send, DataInv, States
<1>2. Ended'
  BY DEF Send, DataInv, Ended, Receiving
<1> QED  BY <1>1, <1>2

LEMMA WriteCounts ==
  ASSUME DataInv, NEW n \in Chunk, Write(n)
  PROVE  DataInv'
<1>1. /\ wanted = 0 /\ sent + n <= MaxSent
      /\ n \in Nat /\ Held \in Nat /\ Available = Window - Held
  BY Chunks, HeldIsNatural, AvailableIsLeft DEF Write, Runs, DataInv, Bytes
<1>2. CASE n <= Available
  <2>1. Send(n) /\ UNCHANGED wanted
    BY <1>2 DEF Write
  <2> QED  BY <1>1, <1>2, <2>1, SendCounts, SendStates DEF DataInv
<1>3. CASE ~ n <= Available
  <2>1. ~ n <= allowed
    BY <1>1, <1>3, Chunks DEF DataInv, Bytes
  <2>2. Trap("write")
    BY <1>3, <2>1 DEF Write
  <2> QED  BY <2>2, TrapCounts
<1> QED  BY <1>2, <1>3

LEMMA BlockingCounts ==
  ASSUME DataInv, NEW n \in Chunk, BlockingWrite(n)
  PROVE  DataInv'
<1>1. /\ sent + n <= MaxSent /\ wanted' = n
      /\ UNCHANGED <<guest, outcome, allowed, trapped, sent, resources,
                     channels, receiver, got>>
  BY DEF BlockingWrite
<1>2. States' /\ Ended'
  BY <1>1 DEF DataInv, States, Ended, resources, channels
<1>3. Bytes'
  BY <1>1 DEF DataInv, Bytes, Held, Receiving, channels
<1> QED  BY <1>2, <1>3 DEF DataInv

LEMMA UnblockCounts ==
  ASSUME DataInv, Unblock
  PROVE  DataInv'
<1>1. /\ wanted > 0 /\ wanted <= Available /\ wanted' = 0 /\ Send(wanted)
      /\ wanted \in Chunk /\ sent + wanted <= MaxSent
  BY DEF Unblock, DataInv, Bytes
<1> QED  BY <1>1, SendCounts, SendStates DEF DataInv

(***************************************************************************)
(* The end of an invocation.                                               *)
(***************************************************************************)
LEMMA EndsCount ==
  ASSUME DataInv, Return \/ Reenter \/ ThreadExit \/ CloseDone
  PROVE  DataInv'
<1>1. /\ UNCHANGED <<data, allowed, sent, got, receiver, trailers>>
      /\ wanted' \in {0, wanted}
  BY DEF Return, Reenter, ThreadExit, CloseDone, DropStore, guestVars, channels
<1>2. States'
  <2> USE DEF DataInv, States
  <2>1. CASE Return
    <3>1. /\ outcome' \in {outcome, "ok"} /\ done' \in {done, "ok"}
          /\ UNCHANGED <<trapped, head, trailers, conn, receiver>>
      BY <2>1 DEF Return
    <3>2. CASE guest' = "idle" /\ UNCHANGED resources
      BY <3>1, <3>2 DEF resources
    <3>3. CASE DropStore
      BY <3>1, <3>3, ZenonT(30) DEF DropStore
    <3> QED  BY <2>1, <3>2, <3>3 DEF Return
  <2>2. CASE Reenter \/ CloseDone
    BY <2>2 DEF Reenter, CloseDone, guestVars, channels, resources
  <2>3. CASE ThreadExit
    <3>1. /\ outcome' \in {outcome, "abort"} /\ DropStore
          /\ UNCHANGED <<trapped, channels, receiver>>
      BY <2>3 DEF ThreadExit
    <3>2. /\ guest' = "gone" /\ outparam' = FALSE /\ response' = "gone"
          /\ body' = "gone" /\ stream' = "gone"
          /\ UNCHANGED <<trapped, head, trailers, done, conn, receiver>>
      BY <3>1 DEF DropStore, channels
    <3> QED  BY <3>1, <3>2
  <2> QED  BY <2>1, <2>2, <2>3
<1>3. Bytes'
  BY <1>1, BytesStay DEF DataInv
<1>4. Ended'
  BY <1>1 DEF DataInv, Ended
<1> QED  BY <1>2, <1>3, <1>4 DEF DataInv

(***************************************************************************)
(* The proxy.  A body ends when the channel is empty and nobody can send:  *)
(* then everything has been handed on.                                     *)
(***************************************************************************)
LEMMA ReceiveHeadCounts ==
  ASSUME DataInv, ReceiveHead
  PROVE  DataInv'
<1>1. /\ receiver = "head"
      /\ UNCHANGED <<guestVars, resources, head, trailers, done, conn, got>>
  BY DEF ReceiveHead
<1>2. CASE receiver' = "body" /\ UNCHANGED data
  <2>1. Receiving /\ Receiving' /\ Held' = Held
    BY <1>1, <1>2 DEF Receiving, Held
  <2> QED  BY <1>1, <1>2, <2>1
           DEF DataInv, States, Bytes, Ended, guestVars, resources
<1>3. CASE Stop("failed")
  <2>1. Bytes'
    BY <1>1, <1>3, StopCounts DEF DataInv, Receiving, guestVars
  <2> QED  BY <1>1, <1>3, <2>1
           DEF DataInv, States, Ended, Stop, guestVars, resources
<1> QED  BY <1>2, <1>3 DEF ReceiveHead

LEMMA Handed ==
  \A w, a, g, t, held, rest, n \in Nat :
    held = n + rest /\ held <= w /\ a <= w - held /\ t = g + held
    => /\ rest <= w /\ a <= w - rest
       /\ g + n \in Nat /\ t = (g + n) + rest
OBVIOUS

LEMMA PollDataCounts ==
  ASSUME DataInv, PollData
  PROVE  DataInv'
<1>1. /\ receiver = "body" /\ data # <<>> /\ ReadDone
      /\ data' = Tail(data) /\ got' = got + Head(data)
      /\ UNCHANGED <<guestVars, resources, head, trailers, conn, receiver>>
  BY DEF PollData
<1>2. /\ Head(data) \in Chunk /\ Head(data) \in Nat
      /\ data' \in Seq(Chunk) /\ Held = Head(data) + Held'
      /\ Held' \in Nat /\ Receiving /\ Receiving'
  BY <1>1, Chunks DEF DataInv, Bytes, Held, Receiving
<1>3. States'
  <2>1. done' \in {done, "taken"}
    BY <1>1 DEF ReadDone
  <2> QED  BY <1>1, <2>1 DEF DataInv, States, guestVars, resources
<1>4. Bytes'
  <2>1. PICK h \in Nat, rest \in Nat, n \in Nat :
          h = Held /\ rest = Held' /\ h = n + rest /\ got' = got + n
    <3>1. Held \in Nat
      BY HeldIsNatural DEF DataInv, Bytes
    <3> QED  BY <1>1, <1>2, <3>1
  <2>2. /\ Window \in Nat /\ allowed \in Nat /\ got \in Nat /\ sent \in Nat
        /\ h <= Window /\ allowed <= Window - h /\ sent = got + h
    BY <1>2, <2>1, Chunks DEF DataInv, Bytes
  <2>3. /\ rest <= Window /\ allowed <= Window - rest
        /\ got + n \in Nat /\ sent = (got + n) + rest
    <3>1. h \in Nat /\ rest \in Nat /\ n \in Nat /\ h = n + rest
      BY <2>1
    <3> QED  BY ONLY <3>1, <2>2, Handed
  <2>4. UNCHANGED <<wanted, allowed, sent>>
    BY <1>1 DEF guestVars
  <2>5. wanted \in {0} \cup Chunk /\ sent + wanted <= MaxSent
    BY DEF DataInv, Bytes
  <2> QED  BY <1>2, <2>1, <2>2, <2>3, <2>4, <2>5 DEF Bytes
<1>5. Ended'
  BY <1>1 DEF Ended
<1> QED  BY <1>3, <1>4, <1>5 DEF DataInv

LEMMA StopsCount ==
  ASSUME DataInv, PollFailure \/ PollTrailers \/ Disconnect
  PROVE  DataInv'
<1>1. PICK r \in {"ended", "failed", "gone"} :
        /\ Stop(r) /\ Receiving /\ done' \in {"taken", done}
        /\ UNCHANGED <<guestVars, resources, head, trailers, conn, got>>
        /\ r = "ended" => trailers # "unsent" /\ data = <<>>
  BY DEF PollFailure, PollTrailers, Disconnect, Receiving, ReadDone, DataEnds
<1>2. States'
  BY <1>1 DEF DataInv, States, Stop, guestVars, resources
<1>3. Bytes'
  BY <1>1, StopCounts DEF DataInv, guestVars
<1>4. Ended'
  <2>1. r = "ended" => Held = 0 /\ sent = got + Held
    BY <1>1, Chunks DEF DataInv, Bytes, Held
  <2>2. r = "ended" => got = sent
    BY <2>1 DEF DataInv, Bytes
  <2> QED  BY <1>1, <2>2 DEF Ended, Stop, guestVars
<1> QED  BY <1>2, <1>3, <1>4 DEF DataInv

LEMMA OthersCount ==
  ASSUME DataInv, PollPending \/ ConnEnds \/ UNCHANGED vars
  PROVE  DataInv'
<1>1. UNCHANGED <<data, allowed, wanted, sent, got, receiver, trailers>>
  BY DEF PollPending, ConnEnds, vars, guestVars, channels
<1>2. States'
  BY DEF PollPending, ConnEnds, ReadDone, vars, guestVars, resources, channels,
         DataInv, States
<1>3. Bytes' /\ Ended'
  BY <1>1, BytesStay DEF DataInv, Ended
<1> QED  BY <1>2, <1>3 DEF DataInv

LEMMA InitDataInv == Init => DataInv
<1> SUFFICES ASSUME Init
             PROVE  DataInv
  OBVIOUS
<1>1. States /\ Ended
  BY DEF Init, States, Ended, OwnedBodies
<1>2. Held = 0
  BY Chunks DEF Init, Held
<1>3. Bytes
  BY <1>2, Chunks DEF Init, Bytes, Receiving
<1> QED  BY <1>1, <1>3 DEF DataInv

LEMMA NextDataInv == DataInv /\ [Next]_vars => DataInv'
<1> SUFFICES ASSUME DataInv, [Next]_vars
             PROVE  DataInv'
  BY Zenon
<1>1. CASE Guest
  <2>1. CASE \/ NewResponse \/ TakeBody \/ DropResponse
             \/ SetResponse \/ SetError \/ DropOutparam
             \/ OpenStream \/ DropBody \/ DropStream
             \/ StreamError
    BY <2>1, CallsCount
  <2>2. CASE \E t \in {"none", "some"} : FinishBody(t)
    BY <2>2, FinishCounts
  <2>3. CASE CheckWrite
    BY <2>3, CheckCounts
  <2>4. CASE \E n \in Chunk : Write(n) \/ BlockingWrite(n)
    BY <2>4, WriteCounts, BlockingCounts
  <2>5. CASE Return \/ GuestTrap
    BY <2>5, EndsCount, TrapCounts DEF GuestTrap
  <2> QED  BY <1>1, <2>1, <2>2, <2>3, <2>4, <2>5 DEF Guest
<1>2. CASE Engine
  BY <1>2, UnblockCounts, EndsCount DEF Engine
<1>3. CASE Proxy
  BY <1>3, ReceiveHeadCounts, PollDataCounts, StopsCount, OthersCount
  DEF Proxy, PollFrame
<1>4. CASE UNCHANGED vars
  BY <1>4, OthersCount
<1> QED  BY <1>1, <1>2, <1>3, <1>4 DEF Next

LEMMA DataInvariance == Spec => []DataInv
<1>1. Init => DataInv
  BY InitDataInv
<1>2. DataInv /\ [Next]_vars => DataInv'
  BY NextDataInv
<1> QED  BY <1>1, <1>2, PTL DEF Spec

(***************************************************************************)
(* The chunks on the channel never exceed the window, and what is handed   *)
(* to the connection never exceeds what was accepted.                      *)
(***************************************************************************)
THEOREM TypeCorrect == Spec => []TypeOK
<1>1. DataInv => TypeOK
  <2> SUFFICES ASSUME DataInv
               PROVE  TypeOK
    OBVIOUS
  <2>1. Held \in Nat /\ Window \in Nat /\ MaxSent \in Nat
        /\ \A n \in Chunk : n \in Nat
    BY Chunks, HeldIsNatural DEF DataInv, Bytes
  <2>2. allowed \in 0 .. Window /\ sent \in 0 .. MaxSent /\ got \in 0 .. sent
    BY <2>1 DEF DataInv, Bytes
  <2>3. data \in Seq(Chunk) /\ FoldSeq(+, 0, data) <= Window
    BY DEF DataInv, Bytes, Held, Total
  <2> QED  BY <2>2, <2>3 DEF DataInv, States, Bytes, TypeOK
<1> QED  BY <1>1, DataInvariance, PTL

(***************************************************************************)
(* A client sees the end of a body only if the guest has finished it, and  *)
(* with every byte that poll_frame had to hand on.                         *)
(***************************************************************************)
THEOREM BodiesComplete == Spec => []CompleteBodiesOnly
<1>1. DataInv => CompleteBodiesOnly
  BY DEF DataInv, Ended, CompleteBodiesOnly
<1> QED  BY <1>1, DataInvariance, PTL

(***************************************************************************)
(* What check-write has permitted stays permitted, whatever the proxy and  *)
(* the connection do in between.                                           *)
(***************************************************************************)
THEOREM PermittedWritesSucceed == Spec => []PermittedWritesNeverTrap
<1>1. DataInv => PermittedWritesNeverTrap
  BY DEF DataInv, States, PermittedWritesNeverTrap
<1> QED  BY <1>1, DataInvariance, PTL
=============================================================================
