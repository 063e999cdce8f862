----------------------------- MODULE TcpSocket -----------------------------
(***************************************************************************)
(* A TCP socket of a guest (engine/wasi/sockets/tcp.rs and host/tcp.rs).   *)
(* TcpState is shared by the socket in the guest's table and by every      *)
(* pollable made of it, so that polling a pollable moves the socket on: it *)
(* takes a connection from the kernel and parks it in pending_accept, or   *)
(* the result of a connect in ConnectReady.                                *)
(*                                                                         *)
(* Every operation takes the state out, leaves Closed in its place, and    *)
(* must put something back on every way out.  The operations that fail and *)
(* put back what they found are not steps of this module: an address that  *)
(* is not valid, a bind that fails, an operation in a state that does not  *)
(* allow it.  Of the connections that are accepted only the first has its  *)
(* streams modelled, in TcpStream.                                         *)
(***************************************************************************)
EXTENDS Pollables, SequencesExt

CONSTANT Conn    \* incoming connections

VARIABLES
  state,      \* TcpState
  net,        \* the outgoing connection, as the network has it
  queue,      \* connections that the kernel has for accept
  parked,     \* pending_accept: no or one connection
  holders,    \* who has the TcpState: the socket, its pollables
  told,       \* a pollable was ready, and the socket was not used since
  arrived,    \* history: connections that came, in order
  handed      \* history: what accept returned, in order

listenVars == <<queue, parked, arrived, handed>>
socketVars == <<state, net, holders, told, listenVars>>

Unconnected == {"Default", "BindStarted", "Bound"}
Listener == {"ListenStarted", "Listening"}
Connecting == {"ConnectStarted", "ConnectReady"}
TcpStates == Unconnected \cup Listener \cup Connecting \cup {"Connected", "Closed"}

SocketTypeOK ==
  /\ state \in TcpStates
  /\ net \in {"none", "started", "syn", "ok", "refused"}
  /\ queue \in Seq(Conn)
  /\ parked \in Seq(Conn) /\ Len(parked) <= 1
  /\ holders \subseteq {"socket", "pollable"}
  /\ told \in BOOLEAN
  /\ arrived \in Seq(Conn) /\ handed \in Seq(Conn)

SocketInit ==
  /\ state = "Default"
  /\ net = "none"
  /\ queue = <<>> /\ parked = <<>>
  /\ holders = {"socket"}
  /\ told = FALSE
  /\ arrived = <<>> /\ handed = <<>>

-----------------------------------------------------------------------------
(***************************************************************************)
(* The future of tokio's TcpSocket::connect does nothing until it is       *)
(* polled for the first time, which starts the connection or fails.        *)
(***************************************************************************)
Starts == net = "started"

PollConnect ==
  IF Starts THEN net' \in {"syn", "refused"} ELSE UNCHANGED net

(***************************************************************************)
(* TcpState::poll.  It is ready unless the socket listens and has no       *)
(* connection, or its connection is in progress.                           *)
(***************************************************************************)
\* Mutant: poll asks the kernel whether there is a connection and leaves it
\* there, instead of accepting it.
PollListeningPeeks ==
  /\ state = "Listening"
  /\ told' = (parked # <<>> \/ queue # <<>>)
  /\ UNCHANGED <<state, net, holders, listenVars>>

PollListening ==
  /\ state = "Listening"
  /\ told' = (parked # <<>> \/ queue # <<>>)
  /\ IF parked = <<>> /\ queue # <<>>
     THEN parked' = <<Head(queue)>> /\ queue' = Tail(queue)
     ELSE UNCHANGED <<parked, queue>>
  /\ UNCHANGED <<state, net, holders, arrived, handed>>

PollConnecting ==
  /\ state = "ConnectStarted"
  /\ PollConnect
  /\ IF net' \in {"ok", "refused"}
     THEN state' = "ConnectReady" /\ told' = TRUE
     ELSE told' = FALSE /\ UNCHANGED state
  /\ UNCHANGED <<holders, listenVars>>

PollOther ==
  /\ state \notin {"Listening", "ConnectStarted"}
  /\ told' = TRUE
  /\ UNCHANGED <<state, net, holders, listenVars>>

PollSocket == PollListening \/ PollConnecting \/ PollOther

-----------------------------------------------------------------------------
(***************************************************************************)
(* The operations of the guest.  start_listen and start_bind fail when the *)
(* system call does; a bind is then forgotten, a listener is lost.         *)
(***************************************************************************)
Move(from, to) ==
  /\ "socket" \in holders
  /\ state \in from
  /\ state' = to
  /\ told' = FALSE

StartBind ==
  /\ Move({"Default"}, "BindStarted")
  /\ UNCHANGED <<net, holders, listenVars>>

FinishBind ==
  /\ Move({"BindStarted"}, "Bound")
  /\ UNCHANGED <<net, holders, listenVars>>

StartListen ==
  /\ \/ Move({"BindStarted", "Bound"}, "ListenStarted")
     \/ Move({"BindStarted", "Bound"}, "Closed")
  /\ UNCHANGED <<net, holders, listenVars>>

FinishListen ==
  /\ Move({"ListenStarted"}, "Listening")
  /\ parked' = <<>>
  /\ UNCHANGED <<net, holders, queue, arrived, handed>>

StartConnect ==
  /\ Move(Unconnected, "ConnectStarted")
  /\ net' = "started"
  /\ UNCHANGED <<holders, listenVars>>

(***************************************************************************)
(* finish_connect polls the future itself, unless a pollable has done so.  *)
(* While it is pending the future is put back: WouldBlock.                 *)
(***************************************************************************)
\* Mutant: the pending future is not put back.
FinishConnectLoses ==
  /\ "socket" \in holders /\ state \in Connecting
  /\ PollConnect
  /\ state' = IF net' = "ok" THEN "Connected" ELSE "Closed"
  /\ told' = FALSE
  /\ UNCHANGED <<holders, listenVars>>

FinishConnect ==
  /\ "socket" \in holders /\ state \in Connecting
  /\ PollConnect
  /\ \/ net' = "ok" /\ state' = "Connected"
     \/ net' = "refused" /\ state' = "Closed"
     \/ net' \notin {"ok", "refused"} /\ UNCHANGED state
  /\ told' = FALSE
  /\ UNCHANGED <<holders, listenVars>>

(***************************************************************************)
(* accept takes what is parked, or polls the listener; the result may be   *)
(* an error of the connection, which is handed to the guest as well.       *)
(***************************************************************************)
\* Mutant: accept asks the kernel first.
AcceptNewest ==
  /\ "socket" \in holders /\ state = "Listening"
  /\ \/ /\ queue = <<>> /\ parked # <<>>
        /\ handed' = handed \o parked
        /\ parked' = <<>>
        /\ UNCHANGED queue
     \/ /\ queue # <<>>
        /\ handed' = Append(handed, Head(queue))
        /\ queue' = Tail(queue)
        /\ UNCHANGED parked
  /\ told' = FALSE
  /\ UNCHANGED <<state, net, holders, arrived>>

Accept ==
  /\ "socket" \in holders /\ state = "Listening"
  /\ \/ /\ parked # <<>>
        /\ handed' = handed \o parked
        /\ parked' = <<>>
        /\ UNCHANGED queue
     \/ /\ parked = <<>> /\ queue # <<>>
        /\ handed' = Append(handed, Head(queue))
        /\ queue' = Tail(queue)
        /\ UNCHANGED parked
  /\ told' = FALSE
  /\ UNCHANGED <<state, net, holders, arrived>>

Subscribe ==
  /\ "socket" \in holders
  /\ holders' = holders \cup {"pollable"}
  /\ UNCHANGED <<state, net, told, listenVars>>

(***************************************************************************)
(* With its last holder the TcpState goes, and with it the listener, what  *)
(* it has parked, and a connect that has not finished.                     *)
(***************************************************************************)
Drop(holder) ==
  /\ holder \in holders
  /\ holders' = holders \ {holder}
  /\ IF holders' = {}
     THEN /\ state' = "Closed" /\ told' = FALSE
          /\ net' = IF state \in Connecting THEN "none" ELSE net
          /\ queue' = <<>> /\ parked' = <<>>
     ELSE UNCHANGED <<state, net, told, queue, parked>>
  /\ UNCHANGED <<arrived, handed>>

-----------------------------------------------------------------------------
(***************************************************************************)
(* The network, and the driver that tells of it.  Some systems take a      *)
(* connection back that its client has aborted before it was accepted.     *)
(***************************************************************************)
Arrive(c) ==
  /\ state \in Listener /\ ~ Contains(arrived, c)
  /\ queue' = Append(queue, c)
  /\ arrived' = Append(arrived, c)
  /\ Signal({"socket"})
  /\ UNCHANGED <<state, net, holders, told, parked, handed>>

Withdraw ==
  /\ \E i \in 1 .. Len(queue) :
       /\ queue' = RemoveAt(queue, i)
       /\ arrived' = RemoveAt(arrived, Len(handed) + Len(parked) + i)
  /\ UNCHANGED <<state, net, holders, told, parked, handed, taskVars>>

Resolve ==
  /\ net = "syn"
  /\ net' \in {"ok", "refused"}
  /\ Signal({"socket"})
  /\ UNCHANGED <<state, holders, told, listenVars>>

Network ==
  \/ \E c \in Conn : Arrive(c)
  \/ Withdraw
  \/ Resolve
=============================================================================
