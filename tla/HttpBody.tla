------------------------------ MODULE HttpBody ------------------------------
(***************************************************************************)
(* The way of an HTTP response from a guest to the client of the proxy:    *)
(* the resources response-outparam, outgoing-response, outgoing-body and   *)
(* output-stream (engine/wasi/http/host/types.rs, engine/wasi/http/body.rs *)
(* and engine/wasi/io/mod.rs), and on the other side the service of the    *)
(* proxy and its OutgoingBodyReceiver (host.rs).                           *)
(*                                                                         *)
(* The two sides share only channels: the head of the response, the chunks *)
(* of data with the permits they occupy, the trailers, the result of the   *)
(* invocation, and the error of the connection.  The senders of data and   *)
(* trailers lie in the outparam until the response is set, then in the     *)
(* body and its stream, and a channel closes when its sender is dropped,   *)
(* by the guest or with the store of the guest.                            *)
(*                                                                         *)
(* One invocation, one response.  A store that returned to the pool keeps  *)
(* what the guest has left in its table, for later invocations to use.     *)
(***************************************************************************)
EXTENDS Integers, SequencesExt

CONSTANTS
  Window,        \* permits of the body: bytes accepted and not yet polled
  Chunk,         \* lengths of the guest's writes
  MaxSent        \* bound: bytes accepted in all

ASSUME HttpBodyAssumption ==
  Window \in Nat \ {0} /\ Chunk \subseteq Nat \ {0} /\ MaxSent \in Nat

VARIABLES
  guest,         \* it runs, its store is idle in the pool, or gone
  outcome,       \* how the invocation ended
  wanted,        \* the bytes that a blocking write waits to send
  allowed,       \* what is left of the last answer of check-write
  trapped,       \* why the guest trapped
  outparam,      \* the guest has the outparam and in it all the senders
  response,      \* the outgoing-response, "bodied" once body was called
  body,          \* the state of the outgoing-body
  stream,        \* the state of its output-stream
  head,          \* the head of the response, on its channel
  data,          \* the chunks on the data channel
  trailers,      \* the trailers, on their channel
  done,          \* the result of the invocation, on its channel
  conn,          \* the connection: an error is on its channel once it failed
  receiver,      \* what the proxy waits for
  sent,          \* bytes accepted from the guest
  got            \* bytes handed to the connection

resources == <<outparam, response, body, stream>>
guestVars == <<guest, outcome, wanted, allowed, trapped, sent>>
channels == <<head, data, trailers, done, conn>>
vars == <<guestVars, resources, channels, receiver, got>>

\* OutgoingBody::Created is "Created" before the response is set and
\* "CreatedSet" after, when it has the senders.
OwnedBodies == {"Created", "CreatedSet", "Pending", "Trailers", "Corrupted"}

TypeOK ==
  /\ guest \in {"running", "idle", "gone"}
  /\ outcome \in {"none", "ok", "trap", "abort"}
  /\ wanted \in {0} \cup Chunk
  /\ allowed \in 0 .. Window
  /\ trapped \in {"no", "guest", "write", "permitted write", "internal"}
  /\ outparam \in BOOLEAN
  /\ response \in {"none", "bare", "bodied", "gone"}
  /\ body \in OwnedBodies \cup {"none", "Finished", "Dropped", "gone"}
  /\ stream \in {"none", "pending", "offered", "writing", "closed", "gone"}
  /\ head \in {"empty", "ok", "err"}
  /\ data \in Seq(Chunk) /\ FoldSeq(+, 0, data) <= Window
  /\ trailers \in {"unsent", "none", "some"}
  /\ done \in {"empty", "ok", "err", "closed", "taken"}
  /\ conn \in {"open", "failed", "closed"}
  /\ receiver \in {"head", "body", "ended", "failed", "gone"}
  /\ sent \in 0 .. MaxSent
  /\ got \in 0 .. sent

Init ==
  /\ guest = "running" /\ outcome = "none" /\ trapped = "no"
  /\ wanted = 0 /\ allowed = 0
  /\ outparam = TRUE /\ response = "none" /\ body = "none" /\ stream = "none"
  /\ head = "empty" /\ data = <<>> /\ trailers = "unsent" /\ done = "empty"
  /\ conn = "open" /\ receiver = "head"
  /\ sent = 0 /\ got = 0

-----------------------------------------------------------------------------
\* Mutant: the permit is dropped with the call that acquired it.
AvailableAlways == Window
\* Mutant: permits come back when the body ends, not when a chunk is polled.
AvailableLate == Window - sent

(***************************************************************************)
(* A chunk occupies as many permits as it has bytes until it is polled or  *)
(* dropped.                                                                *)
(***************************************************************************)
Available == Window - FoldSeq(+, 0, data)

Connected == stream \in {"offered", "writing"}

\* Mutant: the proxy keeps a sender of its own.
DataSendersKept == TRUE

DataSenders == outparam \/ body = "CreatedSet" \/ Connected
TrailersSender == outparam \/ body \in {"CreatedSet", "Trailers"}

(***************************************************************************)
(* The proxy has the receivers of data and trailers.                       *)
(***************************************************************************)
Receiving == receiver \in {"head", "body"}

Runs == guest = "running" /\ wanted = 0

(***************************************************************************)
(* The store is dropped, and every resource in its table.                  *)
(***************************************************************************)
DropStore ==
  /\ guest' = "gone" /\ wanted' = 0
  /\ outparam' = FALSE /\ response' = "gone" /\ body' = "gone"
  /\ stream' = "gone"

(***************************************************************************)
(* handle_http returns an error: the task sends it and drops the store.    *)
(* Traps of later invocations have a result of their own.                  *)
(***************************************************************************)
Trap(cause) ==
  /\ DropStore
  /\ trapped' = cause
  /\ IF outcome = "none" THEN outcome' = "trap" /\ done' = "err"
     ELSE UNCHANGED <<outcome, done>>
  /\ UNCHANGED <<allowed, sent, head, data, trailers, conn, receiver, got>>

\* conn.try_recv(): the error is there once, the next try finds it closed.
ReadConn == conn' = IF conn = "failed" THEN "closed" ELSE conn

-----------------------------------------------------------------------------
(***************************************************************************)
(* The guest's calls on the response.                                      *)
(***************************************************************************)
NewResponse ==
  /\ Runs /\ response = "none"
  /\ response' = "bare"
  /\ UNCHANGED <<guestVars, outparam, body, stream, channels, receiver, got>>

TakeBody ==
  /\ Runs /\ response = "bare"
  /\ response' = "bodied" /\ body' = "Created"
  /\ UNCHANGED <<guestVars, outparam, stream, channels, receiver, got>>

DropResponse ==
  /\ Runs /\ response \in {"bare", "bodied"}
  /\ response' = "gone"
  /\ UNCHANGED <<guestVars, outparam, body, stream, channels, receiver, got>>

\* A send whose receiver is gone is ignored.
SendHead(h) == head' = IF receiver = "head" THEN h ELSE head

(***************************************************************************)
(* response-outparam.set: the senders move to the body and, if it is open  *)
(* already, to its stream.  Without a body, or with one that has been      *)
(* finished or dropped, they are dropped.                                  *)
(***************************************************************************)
BodyAfterSet ==
  CASE body = "Created" -> "CreatedSet"
    [] body = "Pending" -> "Trailers"
    [] OTHER -> body

SetResponse ==
  /\ Runs /\ outparam /\ response \in {"bare", "bodied"}
  /\ IF body \in {"none", "Created", "Pending", "Finished", "Dropped"}
     THEN /\ outparam' = FALSE /\ response' = "gone"
          /\ body' = BodyAfterSet
          /\ stream' = IF stream = "pending" THEN "offered" ELSE stream
          /\ SendHead("ok")
          /\ UNCHANGED <<guestVars, data, trailers, done, conn, receiver, got>>
     ELSE Trap("internal")

SetError ==
  /\ Runs /\ outparam
  /\ outparam' = FALSE
  /\ SendHead("err")
  /\ UNCHANGED <<guestVars, response, body, stream, data, trailers, done,
                 conn, receiver, got>>

DropOutparam ==
  /\ Runs /\ outparam
  /\ outparam' = FALSE
  /\ UNCHANGED <<guestVars, response, body, stream, channels, receiver, got>>

-----------------------------------------------------------------------------
\* Mutant: an error does not put the previous state back.
BodyAfterOpenForgets ==
  CASE body = "Created" -> "Pending"
    [] body = "CreatedSet" -> "Trailers"
    [] OTHER -> "Corrupted"

BodyAfterOpen ==
  CASE body = "Created" -> "Pending"
    [] body = "CreatedSet" -> "Trailers"
    [] OTHER -> body

(***************************************************************************)
(* outgoing-body.write returns the stream, the first time.                 *)
(***************************************************************************)
OpenStream ==
  /\ Runs /\ body \in OwnedBodies
  /\ IF body # "Corrupted"
     THEN /\ body' = BodyAfterOpen
          /\ stream' = CASE body = "Created" -> "pending"
                         [] body = "CreatedSet" -> "writing"
                         [] OTHER -> stream
          /\ UNCHANGED <<guestVars, outparam, response, channels, receiver,
                         got>>
     ELSE Trap("internal")

\* The sender that a pending stream waits for is dropped with the body.
StreamLoses == stream' = IF stream = "pending" THEN "closed" ELSE stream

(***************************************************************************)
(* outgoing-body.finish: an error before the response is set.  The stream  *)
(* may live on.                                                            *)
(***************************************************************************)
FinishBody(t) ==
  /\ Runs /\ body \in OwnedBodies
  /\ IF body # "Corrupted"
     THEN /\ body' = "Finished" /\ StreamLoses
          /\ IF body \in {"CreatedSet", "Trailers"} /\ Receiving
             THEN trailers' = t /\ ReadConn
             ELSE UNCHANGED <<trailers, conn>>
          /\ UNCHANGED <<guestVars, outparam, response, head, data, done,
                         receiver, got>>
     ELSE Trap("internal")

DropBody ==
  /\ Runs /\ body \in OwnedBodies
  /\ IF body # "Corrupted"
     THEN /\ body' = "Dropped" /\ StreamLoses
          /\ UNCHANGED <<guestVars, outparam, response, channels, receiver,
                         got>>
     ELSE Trap("internal")

DropStream ==
  /\ Runs /\ stream \notin {"none", "gone"}
  /\ stream' = "gone"
  /\ UNCHANGED <<guestVars, outparam, response, body, channels, receiver, got>>

-----------------------------------------------------------------------------
(***************************************************************************)
(* Writing.  A stream whose sender has not come, or never will, only       *)
(* returns errors.  Once the connection has ended, so does every stream.   *)
(***************************************************************************)
StreamError ==
  /\ Runs /\ Connected /\ conn # "open"
  /\ ReadConn
  /\ stream' = "writing"
  /\ UNCHANGED <<guestVars, outparam, response, body, head, data, trailers,
                 done, receiver, got>>

\* Mutant: the answer is the size of the window.
PermitWindow == Window

Permit == Available

CheckWrite ==
  /\ Runs /\ Connected /\ conn = "open"
  /\ stream' = "writing"
  /\ allowed' = Permit
  /\ UNCHANGED <<guest, outcome, wanted, trapped, sent, outparam, response,
                 body, channels, receiver, got>>

(***************************************************************************)
(* A chunk is sent, unless the receiver is gone.                           *)
(***************************************************************************)
Send(n) ==
  /\ stream' = "writing"
  /\ IF Receiving
     THEN /\ data' = Append(data, n)
          /\ sent' = sent + n
          /\ allowed' = IF n < allowed THEN allowed - n ELSE 0
     ELSE UNCHANGED <<data, sent, allowed>>
  /\ UNCHANGED <<guest, outcome, trapped, outparam, response, body, head,
                 trailers, done, conn, receiver, got>>

Write(n) ==
  /\ Runs /\ Connected /\ conn = "open"
  /\ sent + n <= MaxSent
  /\ IF n <= Available
     THEN Send(n) /\ UNCHANGED wanted
     ELSE Trap(IF n <= allowed THEN "permitted write" ELSE "write")

(***************************************************************************)
(* blocking-write-and-flush awaits the permits, whoever may be gone by     *)
(* then.  More than the window would never come.                           *)
(***************************************************************************)
BlockingWrite(n) ==
  /\ Runs /\ Connected /\ conn = "open"
  /\ sent + n <= MaxSent /\ n <= Window
  /\ wanted' = n
  /\ UNCHANGED <<guest, outcome, allowed, trapped, sent, resources, channels,
                 receiver, got>>

Unblock ==
  /\ wanted > 0 /\ wanted <= Available
  /\ wanted' = 0
  /\ Send(wanted)

-----------------------------------------------------------------------------
(***************************************************************************)
(* The end of an invocation.  The result is sent when the store has gone   *)
(* back to the pool, which may have no place for it.                       *)
(***************************************************************************)
Return ==
  /\ Runs
  /\ IF outcome = "none" THEN outcome' = "ok" /\ done' = "ok"
     ELSE UNCHANGED <<outcome, done>>
  /\ \/ guest' = "idle" /\ UNCHANGED <<resources, wanted>>
     \/ DropStore
  /\ UNCHANGED <<allowed, trapped, sent, head, data, trailers, conn, receiver,
                 got>>

GuestTrap == Runs /\ Trap("guest")

\* The store serves another invocation, whose own channels are not modelled.
Reenter ==
  /\ guest = "idle"
  /\ guest' = "running"
  /\ UNCHANGED <<outcome, wanted, allowed, trapped, sent, resources, channels,
                 receiver, got>>

(***************************************************************************)
(* The workload thread exits, its tasks and its pool are dropped; or the   *)
(* guest calls a host function that panics, which drops its task.  The     *)
(* task's sender of the result may be dropped after the store.             *)
(***************************************************************************)
ThreadExit ==
  /\ guest # "gone"
  /\ DropStore
  /\ outcome' = IF outcome = "none" THEN "abort" ELSE outcome
  /\ UNCHANGED <<allowed, trapped, sent, channels, receiver, got>>

CloseDone ==
  /\ outcome = "abort" /\ done = "empty"
  /\ done' = "closed"
  /\ UNCHANGED <<guestVars, resources, head, data, trailers, conn, receiver,
                 got>>

-----------------------------------------------------------------------------
(***************************************************************************)
(* The proxy.  When the receiver goes, what is queued goes with it.        *)
(***************************************************************************)
Stop(r) == receiver' = r /\ data' = <<>>

ReceiveHead ==
  /\ receiver = "head"
  /\ \/ /\ head = "ok"
        /\ receiver' = "body"
        /\ UNCHANGED data
     \/ /\ \/ head = "err"
           \/ head = "empty" /\ ~ outparam /\ done # "empty"
        /\ Stop("failed")
  /\ UNCHANGED <<guestVars, resources, head, trailers, done, conn, got>>

\* Mutant: the channel of the result is read again after it has been taken.
ReadDoneAgain == done' = IF done = "ok" THEN "closed" ELSE done

ReadDone == done' = IF done = "ok" THEN "taken" ELSE done

(***************************************************************************)
(* OutgoingBodyReceiver::poll_frame looks at the result, the data and the  *)
(* trailers, in this order.                                                *)
(***************************************************************************)
PollFailure ==
  /\ receiver = "body" /\ done \in {"err", "closed"}
  /\ done' = "taken"
  /\ Stop("failed")
  /\ UNCHANGED <<guestVars, resources, head, trailers, conn, got>>

PollData ==
  /\ receiver = "body" /\ done \notin {"err", "closed"}
  /\ data # <<>>
  /\ ReadDone
  /\ data' = Tail(data) /\ got' = got + Head(data)
  /\ UNCHANGED <<guestVars, resources, head, trailers, conn, receiver>>

\* Mutant: the trailers are taken when they are there.
DataEndsEarly == ~ DataSenders \/ trailers # "unsent"

DataEnds == data = <<>> /\ ~ DataSenders

PollTrailers ==
  /\ receiver = "body" /\ done \notin {"err", "closed"}
  /\ DataEnds
  /\ \/ trailers # "unsent" /\ Stop("ended")
     \/ trailers = "unsent" /\ ~ TrailersSender /\ Stop("failed")
  /\ ReadDone
  /\ UNCHANGED <<guestVars, resources, head, trailers, conn, got>>

(***************************************************************************)
(* Nothing but the result is there yet.                                    *)
(***************************************************************************)
PollPending ==
  /\ receiver = "body" /\ done = "ok"
  /\ data = <<>>
  /\ DataSenders \/ (trailers = "unsent" /\ TrailersSender)
  /\ ReadDone
  /\ UNCHANGED <<guestVars, resources, head, data, trailers, conn, receiver,
                 got>>

PollFrame == PollFailure \/ PollData \/ PollTrailers \/ PollPending

\* The client goes away: hyper drops what it serves.
Disconnect ==
  /\ Receiving
  /\ Stop("gone")
  /\ UNCHANGED <<guestVars, resources, head, trailers, done, conn, got>>

(***************************************************************************)
(* The connection ends after its response is over, with or without error.  *)
(***************************************************************************)
ConnEnds ==
  /\ ~ Receiving /\ conn = "open"
  /\ conn' \in {"failed", "closed"}
  /\ UNCHANGED <<guestVars, resources, head, data, trailers, done, receiver,
                 got>>

-----------------------------------------------------------------------------
Guest ==
  \/ NewResponse \/ TakeBody \/ DropResponse
  \/ SetResponse \/ SetError \/ DropOutparam
  \/ OpenStream \/ DropBody \/ DropStream
  \/ \E t \in {"none", "some"} : FinishBody(t)
  \/ StreamError \/ CheckWrite
  \/ \E n \in Chunk : Write(n) \/ BlockingWrite(n)
  \/ Return \/ GuestTrap

Engine == Unblock \/ Reenter \/ ThreadExit \/ CloseDone

Proxy == ReceiveHead \/ PollFrame \/ Disconnect \/ ConnEnds

Next == Guest \/ Engine \/ Proxy

(***************************************************************************)
(* Executors poll what is ready, and the client reads or goes away: hyper  *)
(* polls the body as long as the socket takes what it yields.  The guest   *)
(* has to do nothing.                                                      *)
(***************************************************************************)
Fairness ==
  /\ WF_vars(Unblock) /\ WF_vars(CloseDone)
  /\ WF_vars(ReceiveHead) /\ WF_vars(PollFrame)

Spec == Init /\ [][Next]_vars /\ Fairness

-----------------------------------------------------------------------------
(***************************************************************************)
(* A client sees the end of a body only if the guest has finished it, and  *)
(* then has every byte that was accepted from the guest; all other bodies  *)
(* are cut off (poll_frame: "trailer sender closed").                      *)
(***************************************************************************)
CompleteBodiesOnly ==
  receiver = "ended" => trailers # "unsent" /\ got = sent

(***************************************************************************)
(* A body that the guest has finished in time fails only with the          *)
(* invocation: when it trapped, or its task is gone by a panic or with its *)
(* thread (poll_frame returns the error of the result before anything      *)
(* else, once).                                                            *)
(***************************************************************************)
FinishedArrives ==
  receiver = "failed" /\ trailers # "unsent" => outcome \in {"trap", "abort"}

(***************************************************************************)
(* Whatever a guest does with its resources, in whatever order, it never   *)
(* meets "outgoing body corrupted" or "outgoing body already set": each    *)
(* mem::replace is made good before the call returns.                      *)
(***************************************************************************)
InternalChecks == trapped # "internal"

(***************************************************************************)
(* A guest that writes no more than check-write has permitted, in one or   *)
(* several calls, is never trapped by "write not permitted".               *)
(***************************************************************************)
PermittedWritesNeverTrap == trapped # "permitted write"

Leaves == outparam \/ body \in {"CreatedSet", "Trailers"} \/ Connected

(***************************************************************************)
(* When the invocation has ended and the guest has left no sender in a     *)
(* pooled store, the client's response ends one way or the other: the      *)
(* channels close and wake the receiver.                                   *)
(***************************************************************************)
ResponseEnds == outcome # "none" /\ ~ Leaves ~> ~ Receiving

(***************************************************************************)
(* A guest that waits for permits gets them, also when the client goes     *)
(* away meanwhile: the chunks on the channel are dropped with their        *)
(* permits, and the guest learns of it by an error.                        *)
(***************************************************************************)
BlockedWriterProceeds == wanted > 0 ~> wanted = 0
=============================================================================
