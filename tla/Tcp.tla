-------------------------------- MODULE Tcp --------------------------------
(***************************************************************************)
(* A guest with one TCP socket and the streams of one connection.  The     *)
(* guest is sequential: its host functions borrow the store, so that while *)
(* one of them waits only the network and the I/O driver act.              *)
(***************************************************************************)
EXTENDS TcpSocket, TcpStream

vars == <<taskVars, socketVars, streamVars>>

TypeOK == PollablesTypeOK /\ SocketTypeOK /\ StreamTypeOK

Init == PollablesInit /\ SocketInit /\ StreamInit

-----------------------------------------------------------------------------
(***************************************************************************)
(* Waiting.  Polling the socket may move it on, whether the guest waits    *)
(* for it or only asks.  told' is the answer of its pollable.              *)
(***************************************************************************)
Held(p) == IF p = "socket" THEN "pollable" \in holders ELSE open

PollAll(ps) == IF "socket" \in ps THEN PollSocket ELSE UNCHANGED socketVars

SomeReady(ps) ==
  \/ "socket" \in ps /\ told'
  \/ "readable" \in ps /\ rd
  \/ "writable" \in ps /\ wr

\* HostPollable::ready.
AskSocket ==
  /\ Held("socket")
  /\ PollSocket
  /\ UNCHANGED <<taskVars, streamVars>>

\* pollable.block and poll.
Wait(how, ps) ==
  /\ \A p \in ps : Held(p)
  /\ PollAll(ps)
  /\ IF SomeReady(ps) THEN UNCHANGED taskVars ELSE Suspend(how, ps)
  /\ UNCHANGED streamVars

\* The task is polled again.
Resume ==
  /\ Waiting /\ woken
  /\ PollAll(on)
  /\ IF SomeReady(on) THEN Continue(IF op = "none" THEN "running" ELSE "working")
                      ELSE Suspend(guest, on)
  /\ UNCHANGED streamVars

-----------------------------------------------------------------------------
(***************************************************************************)
(* The guest's calls.                                                      *)
(***************************************************************************)
\* Only the streams of the first connection are modelled.
AcceptWithStreams == Accept /\ (UNCHANGED streamVars \/ (~ open /\ Open(FALSE)))

UseSocket ==
  /\ \/ /\ StartBind \/ FinishBind \/ StartListen \/ FinishListen
           \/ StartConnect \/ Subscribe \/ (\E h \in holders : Drop(h))
        /\ UNCHANGED streamVars
     \/ FinishConnect /\ IF state' = "Connected" THEN Open(TRUE)
                                                 ELSE UNCHANGED streamVars
     \/ AcceptWithStreams
  /\ UNCHANGED taskVars

UseInput(n) == Read(n) \/ Skip(n) \/ Begin("read", n)

UseOutput(n) ==
  \/ Write(n) \/ WriteZeroes(n) \/ Splice(n)
  \/ sent + n <= MaxSent /\ (Begin("write", n) \/ Begin("splice", n))

UseStreams ==
  /\ open
  /\ \/ \E n \in Chunk : UseInput(n) \/ UseOutput(n)
     \/ (state = "Connected" => "socket" \in holders) /\ Shutdown
  /\ UNCHANGED socketVars

WaitForSome ==
  \/ AskSocket
  \/ \E p \in Pollable : Wait("blocking", {p})
  \/ \E ps \in (SUBSET Pollable) \ {{}} : Wait("polling", ps)

Guest ==
  /\ guest = "running"
  /\ UseSocket \/ UseStreams \/ WaitForSome

\* What a blocking call does between two waits.
Work == (BlockingRead \/ BlockingWrite) /\ UNCHANGED socketVars

Outside ==
  \/ Network /\ UNCHANGED streamVars
  \/ Nudge /\ UNCHANGED <<socketVars, streamVars>>
  \/ Peer /\ UNCHANGED socketVars

DriverActs == Driver /\ UNCHANGED socketVars

Next == Guest \/ Work \/ Resume \/ Outside \/ DriverActs

(***************************************************************************)
(* The executor polls tasks that were woken and the driver looks at the    *)
(* kernel.  Neither the guest nor the network has to do anything.          *)
(***************************************************************************)
Fairness ==
  /\ WF_vars(Work)
  /\ WF_vars(Resume)
  /\ WF_vars(DriverActs)

Spec == Init /\ [][Next]_vars /\ Fairness

-----------------------------------------------------------------------------
(***************************************************************************)
(* Whoever takes connections off the listener, accept or a pollable, none  *)
(* is lost or handed out twice, and they come in the order in which they   *)
(* arrived.                                                                *)
(***************************************************************************)
AcceptsInOrder ==
  IF state \in Listener THEN arrived = handed \o parked \o queue
                        ELSE parked = <<>> /\ IsPrefix(handed, arrived)

(***************************************************************************)
(* A connection that the network has, or is about to have, is in the state *)
(* of its socket as long as anyone has that: no WouldBlock, and no poll,   *)
(* leaves the placeholder Closed behind.                                   *)
(***************************************************************************)
EstablishedIsKept ==
  net \in {"started", "syn", "ok"} /\ holders # {} =>
    state \in Connecting \cup {"Connected"}

(***************************************************************************)
(* A pollable "can be used to wait for their success or failure, after     *)
(* which the method can be retried" (wit/deps/sockets/tcp.wit:359): once   *)
(* it was ready, the next finish or accept does not return would-block,    *)
(* whatever the network does in between.                                   *)
(***************************************************************************)
Blocked ==
  \/ state = "Listening" /\ parked = <<>> /\ queue = <<>>
  \/ state = "ConnectStarted" /\ net \notin {"ok", "refused"}

ToldReadyIsReady == told => ~ Blocked

(***************************************************************************)
(* No wake-up is lost: a task that is not about to be polled has its waker *)
(* with everything it waits for, and none of it is ready.  Streams in the  *)
(* list of poll are left out, whose wakers the code loses.                 *)
(***************************************************************************)
IsUp(p) ==
  \/ p = "socket" /\ ~ Blocked
  \/ p = "readable" /\ rd
  \/ p = "writable" /\ wr

NoLostWakeup ==
  Waiting /\ ~ woken =>
    \A p \in on \cap Kept(guest) : p \in armed /\ ~ IsUp(p)

(***************************************************************************)
(* Every byte is sent once: what the kernel took is what succeeding writes *)
(* reported, what failing ones had sent, and what the blocking write in    *)
(* progress has behind it.                                                 *)
(***************************************************************************)
SentOnce == sent = acked + partial + IF op = "write" THEN size - left ELSE 0

(***************************************************************************)
(* A guest that waits for what has happened goes on, except in poll for a  *)
(* stream, which is the next property.                                     *)
(***************************************************************************)
EventHere(p) ==
  \/ p = "socket" /\ ~ Blocked
  \/ p = "readable" /\ (rcv > 0 \/ eof)
  \/ p = "writable" /\ (free > 0 \/ dead)

WaitsInVain(p) ==
  Waiting /\ p \in on \cap {q \in Pollable : guest = "blocking" \/ q = "socket"}
    /\ EventHere(p)

WaiterWakes == \A p \in Pollable : WaitsInVain(p) ~> ~ WaitsInVain(p)

(***************************************************************************)
(* poll "waits until one or more of the events is ready for I/O"           *)
(* (wit/deps/io/poll.wit:29): a guest that polls a stream goes on when     *)
(* that is ready.  The code does not do so: the waker is gone.             *)
(***************************************************************************)
PolledInVain(p) == guest = "polling" /\ p \in on /\ EventHere(p)

PolledStreamWakes == \A p \in Streams : PolledInVain(p) ~> ~ PolledInVain(p)
=============================================================================
