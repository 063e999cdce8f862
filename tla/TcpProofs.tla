----------------------------- MODULE TcpProofs -----------------------------
(***************************************************************************)
(* Invariants of Tcp for every set of connections, every size of the       *)
(* kernel's buffers, every set of lengths and every number of bytes.       *)
(***************************************************************************)
EXTENDS Tcp, SequenceTheorems, TLAPS

(***************************************************************************)
(* What a step does to the socket: nothing, a poll, an operation of the    *)
(* guest, or something that the network does.                              *)
(***************************************************************************)
SocketOperation ==
  \/ StartBind \/ FinishBind \/ StartListen \/ FinishListen
  \/ StartConnect \/ FinishConnect \/ Accept \/ Subscribe
  \/ \E h \in holders : Drop(h)

LEMMA SocketSteps ==
  ASSUME [Next]_vars
  PROVE  \/ UNCHANGED socketVars
         \/ PollSocket
         \/ SocketOperation
         \/ Network
<1>1. CASE UNCHANGED vars
  BY <1>1 DEF vars
<1>2. CASE Guest
  <2>1. CASE UseSocket
    BY <2>1 DEF UseSocket, AcceptWithStreams, SocketOperation
  <2>2. CASE UseStreams
    BY <2>2 DEF UseStreams
  <2>3. CASE WaitForSome
    BY <2>3 DEF WaitForSome, AskSocket, Wait, PollAll
  <2> QED  BY <1>2, <2>1, <2>2, <2>3 DEF Guest
<1>3. CASE Work
  BY <1>3 DEF Work
<1>4. CASE Resume
  BY <1>4 DEF Resume, PollAll
<1>5. CASE Outside
  BY <1>5 DEF Outside
<1>6. CASE DriverActs
  BY <1>6 DEF DriverActs
<1> QED  BY <1>1, <1>2, <1>3, <1>4, <1>5, <1>6 DEF Next

-----------------------------------------------------------------------------
(***************************************************************************)
(* EstablishedIsKept is inductive as it stands.                            *)
(***************************************************************************)
LEMMA EstablishedStep ==
  ASSUME EstablishedIsKept, [Next]_vars
  PROVE  EstablishedIsKept'
<1> USE DEF EstablishedIsKept, Connecting
<1>1. CASE UNCHANGED socketVars
  BY <1>1 DEF socketVars
<1>2. CASE PollSocket
  BY <1>2 DEF PollSocket, PollListening, PollConnecting, PollOther, PollConnect,
              Starts
<1>3. CASE SocketOperation
  <2>1. CASE StartBind \/ FinishBind \/ StartListen \/ FinishListen
    BY <2>1 DEF StartBind, FinishBind, StartListen, FinishListen, Move
  <2>2. CASE StartConnect \/ Accept \/ Subscribe
    BY <2>2 DEF StartConnect, Accept, Subscribe, Move
  <2>3. CASE FinishConnect
    BY <2>3 DEF FinishConnect, PollConnect, Starts
  <2>4. ASSUME NEW h \in holders, Drop(h)
        PROVE  EstablishedIsKept'
    BY <2>4 DEF Drop
  <2> QED  BY <1>3, <2>1, <2>2, <2>3, <2>4 DEF SocketOperation
<1>4. CASE Network
  BY <1>4 DEF Network, Arrive, Withdraw, Resolve
<1> QED  BY <1>1, <1>2, <1>3, <1>4, SocketSteps

\* A connection of the network is in the state of its socket: see Tcp.
THEOREM Established == Spec => []EstablishedIsKept
<1>1. Init => EstablishedIsKept
  BY DEF Init, SocketInit, EstablishedIsKept
<1>2. EstablishedIsKept /\ [Next]_vars => EstablishedIsKept'
  BY EstablishedStep
<1> QED  BY <1>1, <1>2, PTL DEF Spec

-----------------------------------------------------------------------------
(***************************************************************************)
(* Between a pollable that was ready and the operation that is retried     *)
(* the kernel may take a connection back, so that the queue does not help: *)
(* what makes the pollable true is parked, or is ConnectReady.             *)
(***************************************************************************)
ReadyIsHeld ==
  told => /\ state = "Listening" => parked # <<>>
          /\ state # "ConnectStarted"

LEMMA ReadyStep ==
  ASSUME ReadyIsHeld, [Next]_vars
  PROVE  ReadyIsHeld'
<1> USE DEF ReadyIsHeld
<1>1. CASE UNCHANGED socketVars
  BY <1>1 DEF socketVars, listenVars
<1>2. CASE PollSocket
  <2>1. CASE PollListening
    <3>1. parked' # <<>> \/ (parked = <<>> /\ queue = <<>>)
      <4>1. CASE parked = <<>> /\ queue # <<>>
        <5>1. parked' = <<Head(queue)>>
          BY <2>1, <4>1 DEF PollListening
        <5>2. <<Head(queue)>> # <<>>
          OBVIOUS
        <5> QED  BY <5>1, <5>2, Zenon
      <4>2. CASE ~ (parked = <<>> /\ queue # <<>>)
        BY <2>1, <4>2, Zenon DEF PollListening
      <4> QED  BY <4>1, <4>2
    <3>2. told' => parked' # <<>>
      BY <2>1, <3>1 DEF PollListening
    <3> QED  BY <2>1, <3>2 DEF PollListening
  <2>2. CASE PollConnecting
    BY <2>2 DEF PollConnecting
  <2>3. CASE PollOther
    BY <2>3 DEF PollOther
  <2> QED  BY <1>2, <2>1, <2>2, <2>3 DEF PollSocket
<1>3. CASE SocketOperation
  <2>1. CASE StartBind \/ FinishBind \/ StartListen \/ FinishListen \/ StartConnect
    BY <2>1 DEF StartBind, FinishBind, StartListen, FinishListen, StartConnect, Move
  <2>2. CASE FinishConnect \/ Accept
    BY <2>2 DEF FinishConnect, Accept
  <2>3. CASE Subscribe
    BY <2>3 DEF Subscribe, listenVars
  <2>4. ASSUME NEW h \in holders, Drop(h)
        PROVE  ReadyIsHeld'
    BY <2>4 DEF Drop
  <2> QED  BY <1>3, <2>1, <2>2, <2>3, <2>4 DEF SocketOperation
<1>4. CASE Network
  BY <1>4 DEF Network, Arrive, Withdraw, Resolve, listenVars
<1> QED  BY <1>1, <1>2, <1>3, <1>4, SocketSteps

\* After a pollable was ready the retried operation does not block: see Tcp.
THEOREM ToldReady == Spec => []ToldReadyIsReady
<1>1. Init => ReadyIsHeld
  BY DEF Init, SocketInit, ReadyIsHeld
<1>2. ReadyIsHeld /\ [Next]_vars => ReadyIsHeld'
  BY ReadyStep
<1>3. ReadyIsHeld => ToldReadyIsReady
  BY DEF ReadyIsHeld, ToldReadyIsReady, Blocked
<1> QED  BY <1>1, <1>2, <1>3, PTL DEF Spec

-----------------------------------------------------------------------------
(***************************************************************************)
(* Sequences: the head of one moves to the end of the one before it, and   *)
(* an element behind the first of two is removed.                          *)
(***************************************************************************)
LEMMA MoveHead ==
  ASSUME NEW S, NEW s \in Seq(S), NEW q \in Seq(S), q # <<>>
  PROVE  /\ s \o q = (s \o <<Head(q)>>) \o Tail(q)
         /\ s \o q = Append(s, Head(q)) \o Tail(q)
<1>1. Head(q) \in S /\ Tail(q) \in Seq(S) /\ <<Head(q)>> \in Seq(S)
  BY HeadTailProperties
<1>2. q = <<Head(q)>> \o Tail(q)
  OBVIOUS
<1>3. (s \o <<Head(q)>>) \o Tail(q) = s \o (<<Head(q)>> \o Tail(q))
  BY <1>1, ConcatAssociative
<1>4. Append(s, Head(q)) = s \o <<Head(q)>>
  BY <1>1, AppendIsConcat
<1> QED  BY <1>2, <1>3, <1>4

LEMMA RemoveBehind ==
  ASSUME NEW S, NEW s \in Seq(S), NEW q \in Seq(S), NEW i \in 1 .. Len(q)
  PROVE  /\ RemoveAt(q, i) \in Seq(S)
         /\ RemoveAt(s \o q, Len(s) + i) = s \o RemoveAt(q, i)
<1> DEFINE a == SubSeq(q, 1, i - 1)
           b == SubSeq(q, i + 1, Len(q))
<1>1. a \in Seq(S) /\ b \in Seq(S)
  OBVIOUS
<1>2. RemoveAt(q, i) = a \o b
  BY DEF RemoveAt
<1> DEFINE t == s \o q
<1>3. /\ t \in Seq(S) /\ Len(t) = Len(s) + Len(q)
      /\ Len(s) \in Nat /\ Len(q) \in Nat /\ i \in Nat /\ i >= 1 /\ i <= Len(q)
      /\ \A j \in 1 .. Len(t) :
           t[j] = IF j <= Len(s) THEN s[j] ELSE q[j - Len(s)]
  BY ConcatProperties
<1> HIDE DEF t
<1>4. SubSeq(t, 1, (Len(s) + i) - 1) = s \o a
  <2>1. SubSeq(t, 1, (Len(s) + i) - 1) \in Seq(S)
    BY <1>3
  <2>2. Len(SubSeq(t, 1, (Len(s) + i) - 1)) = (Len(s) + i) - 1
    BY <1>3
  <2>3. \A j \in 1 .. (Len(s) + i) - 1 :
          SubSeq(t, 1, (Len(s) + i) - 1)[j] = t[j]
    BY <1>3
  <2>4. Len(a) = i - 1 /\ \A j \in 1 .. i - 1 : a[j] = q[j]
    BY <1>3
  <2>5. /\ s \o a \in Seq(S) /\ Len(s \o a) = (Len(s) + i) - 1
        /\ \A j \in 1 .. (Len(s) + i) - 1 :
             (s \o a)[j] = IF j <= Len(s) THEN s[j] ELSE a[j - Len(s)]
    BY <1>1, <1>3, <2>4, ConcatProperties
  <2>6. \A j \in 1 .. (Len(s) + i) - 1 :
          SubSeq(t, 1, (Len(s) + i) - 1)[j] = (s \o a)[j]
    <3> TAKE j \in 1 .. (Len(s) + i) - 1
    <3>1. j \in 1 .. Len(t)
      BY <1>3
    <3>2. j > Len(s) => j - Len(s) \in 1 .. i - 1
      BY <1>3
    <3> HIDE DEF a
    <3> QED  BY <1>3, <2>3, <2>4, <2>5, <3>1, <3>2, SMTT(20)
  <2> HIDE DEF a
  <2> QED  BY <2>1, <2>2, <2>5, <2>6, SeqEqual
<1>8. SubSeq(t, Len(s) + i + 1, Len(t)) = b
  <2>1. /\ SubSeq(t, Len(s) + i + 1, Len(t)) \in Seq(S)
        /\ Len(SubSeq(t, Len(s) + i + 1, Len(t))) = Len(q) - i
        /\ \A j \in 1 .. Len(q) - i :
             SubSeq(t, Len(s) + i + 1, Len(t))[j] = t[Len(s) + i + j]
    BY <1>3
  <2>2. Len(b) = Len(q) - i /\ \A j \in 1 .. Len(q) - i : b[j] = q[i + j]
    BY <1>3
  <2>3. \A j \in 1 .. Len(q) - i : t[Len(s) + i + j] = q[i + j]
    <3> TAKE j \in 1 .. Len(q) - i
    <3>1. /\ Len(s) + i + j \in 1 .. Len(t) /\ ~ (Len(s) + i + j <= Len(s))
          /\ (Len(s) + i + j) - Len(s) = i + j
      BY <1>3
    <3> QED  BY <1>3, <3>1
  <2>4. \A j \in 1 .. Len(q) - i : SubSeq(t, Len(s) + i + 1, Len(t))[j] = b[j]
    BY <2>1, <2>2, <2>3
  <2> DEFINE c == SubSeq(t, Len(s) + i + 1, Len(t))
  <2>5. /\ b \in Seq(S) /\ c \in Seq(S) /\ Len(c) = Len(b)
        /\ \A j \in 1 .. Len(c) : c[j] = b[j]
    BY <1>1, <2>1, <2>2, <2>4
  <2> HIDE DEF b, c
  <2>6. c = b
    BY ONLY <2>5, SeqEqual
  <2> QED  BY <2>6 DEF c
<1> HIDE DEF a, b
<1>5. RemoveAt(t, Len(s) + i) = (s \o a) \o b
  <2>1. RemoveAt(t, Len(s) + i)
          = SubSeq(t, 1, (Len(s) + i) - 1) \o SubSeq(t, Len(s) + i + 1, Len(t))
    BY Zenon DEF RemoveAt
  <2> QED  BY ONLY <1>4, <1>8, <2>1, Zenon
<1>6. (s \o a) \o b = s \o (a \o b)
  <2>1. ASSUME NEW x \in Seq(S), NEW y \in Seq(S)
        PROVE  (s \o x) \o y = s \o (x \o y)
    BY ONLY s \in Seq(S), x \in Seq(S), y \in Seq(S), SMTT(20)
  <2> QED  BY <1>1, <2>1, Zenon
<1>7. a \o b \in Seq(S)
  BY <1>1
<1>9. RemoveAt(t, Len(s) + i) = s \o RemoveAt(q, i) /\ RemoveAt(q, i) \in Seq(S)
  BY <1>2, <1>5, <1>6, <1>7, Zenon
<1> QED  BY <1>9 DEF t

LEMMA IsFirst ==
  ASSUME NEW S, NEW s \in Seq(S), NEW t \in Seq(S)
  PROVE  IsPrefix(s, s \o t)
<1>1. Len(s) <= Len(s \o t)
  OBVIOUS
<1>2. SubSeq(s, 1, Len(s)) = s
  OBVIOUS
<1>3. SubSeq(s \o t, 1, Len(s)) = s
  OBVIOUS
<1> QED  BY <1>1, <1>2, <1>3 DEF IsPrefix

LEMMA Queues ==
  /\ <<>> \in Seq(Conn) /\ Len(<<>>) <= 1
  /\ \A s, q \in Seq(Conn) :
       s \o q \in Seq(Conn) /\ s \o <<>> = s /\ IsPrefix(s, s \o q)
  /\ \A c \in Conn : \A s, q \in Seq(Conn) :
       Append(s \o q, c) = s \o Append(q, c)
  /\ \A s, q, r \in Seq(Conn) : (s \o q) \o r = s \o (q \o r)
<1>1. ASSUME NEW s \in Seq(Conn), NEW q \in Seq(Conn)
      PROVE  s \o q \in Seq(Conn) /\ s \o <<>> = s /\ IsPrefix(s, s \o q)
  <2>1. s \o q \in Seq(Conn) /\ s \o <<>> = s
    OBVIOUS
  <2>2. IsPrefix(s, s \o q)
    BY ONLY s \in Seq(Conn), q \in Seq(Conn), IsFirst
  <2> QED  BY <2>1, <2>2
<1>2. ASSUME NEW c \in Conn, NEW s \in Seq(Conn), NEW q \in Seq(Conn)
      PROVE  Append(s \o q, c) = s \o Append(q, c)
  <2>1. s \o q \in Seq(Conn) /\ <<c>> \in Seq(Conn)
    OBVIOUS
  <2>2. Append(s \o q, c) = (s \o q) \o <<c>>
    BY <2>1, AppendIsConcat
  <2>3. Append(q, c) = q \o <<c>>
    BY AppendIsConcat
  <2>4. (s \o q) \o <<c>> = s \o (q \o <<c>>)
    BY <2>1, ConcatAssociative
  <2> QED  BY <2>2, <2>3, <2>4, Zenon
<1>3. ASSUME NEW s \in Seq(Conn), NEW q \in Seq(Conn), NEW r \in Seq(Conn)
      PROVE  (s \o q) \o r = s \o (q \o r)
  BY ONLY s \in Seq(Conn), q \in Seq(Conn), r \in Seq(Conn), ConcatAssociative
<1>4. <<>> \in Seq(Conn) /\ Len(<<>>) <= 1
  OBVIOUS
<1>5. \A c \in Conn : \A s, q \in Seq(Conn) :
        Append(s \o q, c) = s \o Append(q, c)
  BY <1>2
<1>6. \A s, q \in Seq(Conn) :
        s \o q \in Seq(Conn) /\ s \o <<>> = s /\ IsPrefix(s, s \o q)
  BY <1>1
<1>7. \A s, q, r \in Seq(Conn) : (s \o q) \o r = s \o (q \o r)
  BY <1>3
<1> QED  BY <1>4, <1>5, <1>6, <1>7, Zenon

(***************************************************************************)
(* Connections.  What arrived is what was handed out, what is parked and   *)
(* what the kernel has, in this order, and outside a listener there is     *)
(* nothing but what was handed out.  A socket that may yet become a        *)
(* listener has seen no connection, and only one that listens parks one,   *)
(* so that finish_listen throws nothing away.                              *)
(***************************************************************************)
Accepting ==
  /\ state \in Listener => arrived = handed \o parked \o queue
  /\ state \notin Listener =>
       queue = <<>> /\ parked = <<>> /\ IsPrefix(handed, arrived)
  /\ state \in Unconnected => handed = <<>> /\ arrived = <<>>
  /\ state # "Listening" => parked = <<>>

AcceptInv == SocketTypeOK /\ Accepting

\* A step that leaves the connections alone.
LEMMA AcceptStays ==
  ASSUME AcceptInv, SocketTypeOK',
         UNCHANGED <<queue, parked, arrived, handed>>,
         \/ state' = state
         \/ state \in Unconnected
         \/ state = "ListenStarted" /\ state' = "Listening"
         \/ state \notin Listener /\ state' \notin Listener \cup Unconnected
  PROVE  AcceptInv'
<1> USE DEF AcceptInv, Accepting, Listener, Unconnected, TcpStates
<1>1. handed \in Seq(Conn)
  BY DEF SocketTypeOK
<1>2. CASE state \in Unconnected
  <2>1. IsPrefix(<<>>, <<>>) /\ <<>> = <<>> \o <<>> \o <<>>
    BY DEF IsPrefix
  <2>2. /\ queue' = <<>> /\ parked' = <<>> /\ handed' = <<>> /\ arrived' = <<>>
    BY <1>2
  <2> QED  BY <2>1, <2>2
<1>3. CASE state \notin Unconnected
  BY <1>3
<1> QED  BY <1>2, <1>3

LEMMA AcceptStep ==
  ASSUME AcceptInv, [Next]_vars
  PROVE  AcceptInv'
<1>1. /\ handed \in Seq(Conn) /\ parked \in Seq(Conn) /\ queue \in Seq(Conn)
      /\ arrived \in Seq(Conn)
      /\ handed \o parked \in Seq(Conn) /\ <<>> \in Seq(Conn)
      /\ handed \o <<>> = handed
      /\ \A s : s = <<>> => s \in Seq(Conn) /\ Len(s) <= 1
  BY Queues DEF AcceptInv, SocketTypeOK
<1>2. CASE UNCHANGED socketVars
  <2>1. UNCHANGED <<state, net, holders, told, queue, parked, arrived, handed>>
    BY <1>2 DEF socketVars, listenVars
  <2>2. SocketTypeOK'
    BY <2>1 DEF AcceptInv, SocketTypeOK
  <2> QED  BY <2>1, <2>2, AcceptStays
<1>3. CASE PollSocket
  <2>1. CASE PollListening
    <3>1. state = "Listening" /\ UNCHANGED <<state, net, holders, arrived, handed>>
          /\ told' \in BOOLEAN
      BY <2>1 DEF PollListening
    <3>2. CASE parked = <<>> /\ queue # <<>>
      <4>1. parked' = <<Head(queue)>> /\ queue' = Tail(queue)
        BY <2>1, <3>2 DEF PollListening
      <4>2. Head(queue) \in Conn /\ Tail(queue) \in Seq(Conn)
        BY <1>1, <3>2, HeadTailProperties
      <4>3. parked' \in Seq(Conn) /\ Len(parked') = 1 /\ queue' \in Seq(Conn)
        BY <4>1, <4>2
      <4>4. arrived = handed \o queue
        BY <1>1, <3>1, <3>2 DEF AcceptInv, Accepting, Listener
      <4>5. handed \o queue = (handed \o <<Head(queue)>>) \o Tail(queue)
        BY <1>1, <3>2, MoveHead
      <4>6. arrived' = handed' \o parked' \o queue'
        BY <3>1, <4>1, <4>4, <4>5, Zenon
      <4>7. SocketTypeOK'
        BY <3>1, <4>3 DEF AcceptInv, SocketTypeOK
      <4>8. Accepting'
        BY <3>1, <4>6 DEF Accepting, Listener, Unconnected
      <4> QED  BY <4>7, <4>8 DEF AcceptInv
    <3>3. CASE ~ (parked = <<>> /\ queue # <<>>)
      <4>1. UNCHANGED <<parked, queue>>
        BY <2>1, <3>3, Zenon DEF PollListening
      <4>2. SocketTypeOK'
        BY <3>1, <4>1 DEF AcceptInv, SocketTypeOK
      <4> QED  BY <3>1, <4>1, <4>2, AcceptStays DEF Listener
    <3> QED  BY <3>2, <3>3
  <2>2. CASE PollConnecting \/ PollOther
    <3>1. /\ UNCHANGED <<holders, queue, parked, arrived, handed>>
          /\ told' \in BOOLEAN
          /\ \/ state' = state
             \/ state = "ConnectStarted" /\ state' = "ConnectReady"
      BY <2>2 DEF PollConnecting, PollOther, listenVars
    <3>2. net' \in {net, "syn", "refused"}
      BY <2>2 DEF PollConnecting, PollOther, PollConnect
    <3>3. SocketTypeOK'
      BY <3>1, <3>2 DEF AcceptInv, SocketTypeOK, TcpStates, Connecting
    <3> QED  BY <3>1, <3>3, AcceptStays DEF Listener, Unconnected, TcpStates, Connecting
  <2> QED  BY <1>3, <2>1, <2>2 DEF PollSocket
<1>4. CASE SocketOperation
  <2>1. CASE \/ StartBind \/ FinishBind \/ StartListen \/ FinishListen
             \/ StartConnect \/ FinishConnect \/ Subscribe
    <3>1. UNCHANGED <<queue, arrived, handed>> /\ UNCHANGED parked
      <4>1. CASE FinishListen
        BY <4>1 DEF FinishListen, Move, AcceptInv, Accepting
      <4> QED  BY <2>1, <4>1 DEF StartBind, FinishBind, StartListen, StartConnect,
                                 FinishConnect, Subscribe, listenVars
    <3>2. /\ \/ state' = state
             \/ state \in Unconnected
             \/ state = "ListenStarted" /\ state' = "Listening"
             \/ state \notin Listener /\ state' \notin Listener \cup Unconnected
          /\ state' = state \/ state' \in TcpStates
      BY <2>1 DEF StartBind, FinishBind, StartListen, FinishListen, StartConnect,
        FinishConnect, Subscribe, Move, Listener, Unconnected, TcpStates, Connecting
    <3>3. /\ net' \in {net, "started", "syn", "refused"}
          /\ holders' \in {holders, holders \cup {"pollable"}}
          /\ told' \in {told, FALSE}
      BY <2>1 DEF StartBind, FinishBind, StartListen, FinishListen, StartConnect,
        FinishConnect, PollConnect, Subscribe, Move
    <3>4. SocketTypeOK'
      BY <3>1, <3>2, <3>3 DEF AcceptInv, SocketTypeOK
    <3> QED  BY <3>1, <3>2, <3>4, AcceptStays
  <2>2. CASE Accept
    <3>1. /\ state = "Listening" /\ told' = FALSE
          /\ UNCHANGED <<state, net, holders, arrived>>
          /\ arrived = handed \o parked \o queue
      BY <2>2 DEF Accept, AcceptInv, Accepting, Listener
    <3>2. /\ handed' \in Seq(Conn) /\ queue' \in Seq(Conn) /\ parked' = <<>>
          /\ arrived = handed' \o <<>> \o queue'
      <4>1. CASE parked # <<>>
        <5>1. handed' = handed \o parked /\ parked' = <<>> /\ queue' = queue
          BY <2>2, <4>1 DEF Accept
        <5>2. (handed \o parked) \o <<>> = handed \o parked
          BY <1>1, ConcatEmptySeq
        <5> QED  BY <1>1, <3>1, <5>1, <5>2
      <4>2. CASE parked = <<>>
        <5>1. /\ handed' = Append(handed, Head(queue)) /\ parked' = <<>>
              /\ queue' = Tail(queue) /\ queue # <<>>
          BY <2>2, <4>2 DEF Accept
        <5>2. /\ Append(handed, Head(queue)) \in Seq(Conn)
              /\ Tail(queue) \in Seq(Conn)
          BY <1>1, <5>1, HeadTailProperties, AppendProperties
        <5>3. handed \o queue = Append(handed, Head(queue)) \o Tail(queue)
          BY <1>1, <5>1, MoveHead
        <5>4. Append(handed, Head(queue)) \o <<>> = Append(handed, Head(queue))
          BY <5>2, ConcatEmptySeq
        <5> QED  BY <1>1, <3>1, <4>2, <5>1, <5>2, <5>3, <5>4, Zenon
      <4> QED  BY <4>1, <4>2
    <3>3. SocketTypeOK'
      <4>1. parked' \in Seq(Conn) /\ Len(parked') <= 1
        BY <1>1, <3>2
      <4> QED  BY <3>1, <3>2, <4>1 DEF AcceptInv, SocketTypeOK
    <3>4. Accepting'
      BY <3>1, <3>2 DEF Accepting, Listener, Unconnected
    <3> QED  BY <3>3, <3>4 DEF AcceptInv
  <2>3. ASSUME NEW h \in holders, Drop(h)
        PROVE  AcceptInv'
    <3>1. CASE holders' = {}
      <4>1. /\ holders' \subseteq holders /\ UNCHANGED <<arrived, handed>>
            /\ state' = "Closed" /\ told' = FALSE /\ net' \in {"none", net}
            /\ queue' = <<>> /\ parked' = <<>>
        BY <2>3, <3>1 DEF Drop
      <4>2. SocketTypeOK'
        <5>1. queue' \in Seq(Conn) /\ parked' \in Seq(Conn) /\ Len(parked') <= 1
          BY <1>1, <4>1
        <5> QED  BY <4>1, <5>1 DEF AcceptInv, SocketTypeOK, TcpStates
      <4>3. IsPrefix(handed, arrived)
        <5>1. CASE state \in Listener
          <6>1. arrived = (handed \o parked) \o queue
            BY <5>1 DEF AcceptInv, Accepting
          <6>2. (handed \o parked) \o queue = handed \o (parked \o queue)
            <7>1. \A r \in Seq(Conn) : \A s, q \in Seq(Conn) :
                    (s \o q) \o r = s \o (q \o r)
              BY ONLY Queues
            <7>2. /\ handed \in Seq(Conn) /\ parked \in Seq(Conn)
                  /\ queue \in Seq(Conn)
              BY <1>1
            <7> QED  BY ONLY <7>1, <7>2, Zenon
          <6>3. parked \o queue \in Seq(Conn)
            BY <1>1, ConcatProperties
          <6> QED  BY <1>1, <6>1, <6>2, <6>3, IsFirst
        <5>2. CASE state \notin Listener
          BY <5>2 DEF AcceptInv, Accepting
        <5> QED  BY <5>1, <5>2
      <4>4. Accepting'
        BY <4>1, <4>3, Zenon DEF Accepting, Listener, Unconnected
      <4> QED  BY <4>2, <4>4 DEF AcceptInv
    <3>2. CASE holders' # {}
      <4>1. /\ holders' \subseteq holders
            /\ UNCHANGED <<state, net, told, queue, parked, arrived, handed>>
        BY <2>3, <3>2, Zenon DEF Drop
      <4>2. SocketTypeOK'
        BY <4>1 DEF AcceptInv, SocketTypeOK
      <4> QED  BY <4>1, <4>2, AcceptStays
    <3> QED  BY <3>1, <3>2
  <2> QED  BY <1>4, <2>1, <2>2, <2>3 DEF SocketOperation
<1>5. CASE Network
  <2>1. ASSUME NEW c \in Conn, Arrive(c)
        PROVE  AcceptInv'
    <3>1. /\ state \in Listener /\ queue' = Append(queue, c)
          /\ arrived' = Append(arrived, c)
          /\ UNCHANGED <<state, net, holders, told, parked, handed>>
          /\ arrived = (handed \o parked) \o queue
      BY <2>1 DEF Arrive, AcceptInv, Accepting
    <3>2. queue' \in Seq(Conn) /\ arrived' \in Seq(Conn)
      BY <1>1, <3>1, AppendProperties
    <3>3. arrived' = (handed \o parked) \o Append(queue, c)
      <4>1. Append((handed \o parked) \o queue, c)
              = (handed \o parked) \o Append(queue, c)
        <5>1. \A s, q \in Seq(Conn) : Append(s \o q, c) = s \o Append(q, c)
          BY Queues, Zenon
        <5>2. handed \o parked \in Seq(Conn) /\ queue \in Seq(Conn)
          BY <1>1
        <5> QED  BY ONLY <5>1, <5>2, Zenon
      <4> QED  BY <3>1, <4>1, Zenon
    <3>4. SocketTypeOK'
      BY <3>1, <3>2 DEF AcceptInv, SocketTypeOK
    <3>5. Accepting'
      BY <3>1, <3>3 DEF AcceptInv, Accepting, Listener, Unconnected
    <3> QED  BY <3>4, <3>5 DEF AcceptInv
  <2>2. CASE Withdraw
    <3>1. PICK i \in 1 .. Len(queue) :
            /\ queue' = RemoveAt(queue, i)
            /\ arrived' = RemoveAt(arrived, Len(handed) + Len(parked) + i)
      BY <2>2 DEF Withdraw
    <3>2. /\ state \in Listener
          /\ UNCHANGED <<state, net, holders, told, parked, handed>>
      BY <2>2, <3>1 DEF Withdraw, AcceptInv, Accepting
    <3>3. arrived = (handed \o parked) \o queue
      BY <3>2 DEF AcceptInv, Accepting
    <3>4. Len(handed) + Len(parked) = Len(handed \o parked)
      BY <1>1, ConcatProperties
    <3>5. ASSUME NEW s \in Seq(Conn), NEW q \in Seq(Conn), NEW j \in 1 .. Len(q)
          PROVE  /\ RemoveAt(q, j) \in Seq(Conn)
                 /\ RemoveAt(s \o q, Len(s) + j) = s \o RemoveAt(q, j)
      BY ONLY s \in Seq(Conn), q \in Seq(Conn), j \in 1 .. Len(q), RemoveBehind
    <3>6. /\ RemoveAt(queue, i) \in Seq(Conn)
          /\ RemoveAt((handed \o parked) \o queue, Len(handed \o parked) + i)
               = (handed \o parked) \o RemoveAt(queue, i)
      BY <1>1, <3>1, <3>5, Zenon
    <3>7. /\ queue' \in Seq(Conn) /\ arrived' \in Seq(Conn)
          /\ arrived' = (handed' \o parked') \o queue'
      <4>1. arrived' = (handed \o parked) \o queue'
        BY <3>1, <3>3, <3>4, <3>6, Zenon
      <4>2. (handed \o parked) \o RemoveAt(queue, i) \in Seq(Conn)
        BY ONLY <1>1, <3>6, Queues
      <4>3. arrived' = (handed \o parked) \o RemoveAt(queue, i)
        BY <3>1, <4>1, Zenon
      <4> QED  BY <3>1, <3>2, <3>6, <4>1, <4>2, <4>3, Zenon
    <3>8. SocketTypeOK'
      BY <3>2, <3>7 DEF AcceptInv, SocketTypeOK
    <3>9. Accepting'
      BY <3>2, <3>7 DEF AcceptInv, Accepting, Listener, Unconnected
    <3> QED  BY <3>8, <3>9 DEF AcceptInv
  <2>3. CASE Resolve
    <3>1. /\ UNCHANGED <<state, holders, told, queue, parked, arrived, handed>>
          /\ net' \in {"ok", "refused"}
      BY <2>3 DEF Resolve, listenVars
    <3>2. SocketTypeOK'
      BY <3>1 DEF AcceptInv, SocketTypeOK
    <3> QED  BY <3>1, <3>2, AcceptStays
  <2> QED  BY <1>5, <2>1, <2>2, <2>3 DEF Network
<1> QED  BY <1>2, <1>3, <1>4, <1>5, SocketSteps

LEMMA AcceptInvariance == Spec => []AcceptInv
<1>1. Init => AcceptInv
  <2> SUFFICES ASSUME Init
               PROVE  AcceptInv
    OBVIOUS
  <2>1. SocketTypeOK
    BY Queues DEF Init, SocketInit, SocketTypeOK, TcpStates, Unconnected
  <2>2. IsPrefix(<<>>, <<>>)
    BY DEF IsPrefix
  <2>3. Accepting
    BY <2>2 DEF Init, SocketInit, Accepting, Listener
  <2> QED  BY <2>1, <2>3 DEF AcceptInv
<1>2. AcceptInv /\ [Next]_vars => AcceptInv'
  BY AcceptStep
<1> QED  BY <1>1, <1>2, PTL DEF Spec

\* No connection is lost, and none overtakes another: see Tcp.
THEOREM InOrder == Spec => []AcceptsInOrder
<1>1. AcceptInv => AcceptsInOrder
  BY DEF AcceptInv, Accepting, AcceptsInOrder
<1> QED  BY <1>1, AcceptInvariance, PTL

-----------------------------------------------------------------------------
(***************************************************************************)
(* Bytes.  A write starts when no other is in progress, which takes the    *)
(* types: the guest that runs is in no call.                               *)
(***************************************************************************)
Bits ==
  /\ open \in BOOLEAN /\ eof \in BOOLEAN /\ rd \in BOOLEAN
  /\ dead \in BOOLEAN /\ wr \in BOOLEAN

Numbers ==
  /\ rcv \in 0 .. Window /\ free \in 0 .. Window
  /\ size \in Nat /\ left \in 0 .. size
  /\ sent \in Nat /\ acked \in Nat /\ partial \in Nat

Calls ==
  /\ op \in {"none", "read", "splice", "write"}
  /\ op # "none" <=> size > 0
  /\ guest = "working" <=> op # "none" /\ guest # "blocking"

SentInv == PollablesTypeOK /\ StreamTypeOK /\ SentOnce

LEMMA Parts ==
  /\ StreamTypeOK <=> Bits /\ Numbers /\ Calls
  /\ StreamTypeOK' <=> Bits' /\ Numbers' /\ Calls'
BY DEF StreamTypeOK, Bits, Numbers, Calls

\* The last three conjuncts of Next change the task and nothing of the streams.
LEMMA TaskStep ==
  ASSUME SentInv, UNCHANGED streamVars,
         \/ UNCHANGED taskVars
         \/ guest = "running" /\ \E p \in Pollable : Suspend("blocking", {p})
         \/ guest = "running" /\ \E ps \in (SUBSET Pollable) \ {{}} : Suspend("polling", ps)
         \/ Waiting /\ Suspend(guest, on)
         \/ Waiting /\ Continue(IF op = "none" THEN "running" ELSE "working")
         \/ \E ps : Signal(ps)
         \/ Nudge
  PROVE  SentInv'
<1>1. StreamTypeOK' /\ SentOnce'
  BY DEF SentInv, StreamTypeOK, SentOnce, PollablesTypeOK, streamVars, incoming,
         outgoing, call, counts, taskVars, Suspend, Continue, Signal, Nudge, Waiting
<1>2. PollablesTypeOK'
  <2> USE DEF PollablesTypeOK, Waiting
  <2>1. CASE UNCHANGED taskVars
    BY <2>1 DEF SentInv, taskVars
  <2>2. ASSUME NEW how \in {"blocking", "polling"},
               NEW ps \in (SUBSET Pollable) \ {{}}, Suspend(how, ps)
        PROVE  PollablesTypeOK'
    BY <2>2 DEF Suspend
  <2>3. CASE guest = "running" /\ \E p \in Pollable : Suspend("blocking", {p})
    BY <2>2, <2>3
  <2>4. CASE Waiting /\ Suspend(guest, on)
    <3>1. guest \in {"blocking", "polling"} /\ on \in (SUBSET Pollable) \ {{}}
      BY <2>4 DEF SentInv
    <3> QED  BY <2>2, <2>4, <3>1
  <2>5. CASE Waiting /\ Continue(IF op = "none" THEN "running" ELSE "working")
    BY <2>5 DEF Continue
  <2>6. CASE (\E ps : Signal(ps)) \/ Nudge
    BY <2>6 DEF SentInv, Signal, Nudge
  <2> QED  BY <2>1, <2>2, <2>3, <2>4, <2>5, <2>6
<1> QED  BY <1>1, <1>2 DEF SentInv

LEMMA Transferred ==
  ASSUME StreamTypeOK, NEW n \in Nat
  PROVE  /\ Readable(n) \in 0 .. n /\ Readable(n) <= rcv
         /\ Writable(n) \in 0 .. n /\ Writable(n) <= free
BY TcpStreamAssumption DEF StreamTypeOK, Readable, Writable, AtMost

\* The calls that do not block: the task runs and is in no call.
LEMMA StreamStep ==
  ASSUME SentInv, guest = "running", NEW n \in Chunk,
         Read(n) \/ Write(n) \/ Splice(n)
           \/ \E how \in {"read", "splice", "write"} : Begin(how, n)
  PROVE  SentInv'
<1> n \in Nat /\ n > 0
  BY TcpStreamAssumption
<1> PollablesTypeOK /\ StreamTypeOK /\ Bits /\ Numbers /\ Calls /\ SentOnce
  BY Parts DEF SentInv
<1> USE DEF incoming, outgoing, call, counts
<1>5. PollablesTypeOK' /\ Bits' /\ Numbers' /\ Calls' /\ SentOnce' => SentInv'
  BY Parts DEF SentInv
<1>1. CASE Read(n)
  <2>1. UNCHANGED taskVars
    BY <1>1 DEF Read
  <2>2. PICK k \in Nat : k = Readable(n) /\ k <= rcv
    BY Transferred
  <2>5. (rcv' = rcv \/ rcv' = rcv - k) /\ UNCHANGED <<outgoing, call, counts>>
    BY <1>1, <2>2, Zenon DEF Read, Take
  <2>3. Numbers' /\ SentOnce'
    <3>1. Numbers'
      BY <2>2, <2>5, TcpStreamAssumption DEF Numbers
    <3>2. SentOnce'
      BY <1>1, <2>2 DEF Read, Take, Numbers, SentOnce
    <3> QED  BY <3>1, <3>2
  <2>4. Bits' /\ Calls'
    BY <1>1, <2>1 DEF Read, Take, Bits, Calls, taskVars
  <2> QED  BY <1>5, <2>1, <2>3, <2>4 DEF taskVars, PollablesTypeOK, Waiting
<1>2. CASE Write(n)
  <2>1. UNCHANGED taskVars
    BY <1>2 DEF Write
  <2>2. PICK k \in Nat : k = Writable(n) /\ k <= free /\ k <= n
    BY Transferred
  <2>5. /\ UNCHANGED <<incoming, call>>
        /\ \/ UNCHANGED <<free, counts>>
           \/ free' = free - k /\ sent' = sent + k /\ Report(n, k)
    BY <1>2, <2>2, Zenon DEF Write, Put
  <2>3. Numbers' /\ SentOnce'
    <3>1. Numbers'
      BY <2>2, <2>5, TcpStreamAssumption DEF Report, Numbers
    <3>2. SentOnce'
      BY <2>2, <2>5 DEF Report, Numbers, SentOnce
    <3> QED  BY <3>1, <3>2
  <2>4. Bits' /\ Calls'
    BY <1>2, <2>1 DEF Write, Put, Bits, Calls, taskVars
  <2> QED  BY <1>5, <2>1, <2>3, <2>4 DEF taskVars, PollablesTypeOK, Waiting
<1>3. CASE Splice(n)
  <2>1. UNCHANGED taskVars
    BY <1>3 DEF Splice
  <2>2. PICK k \in Nat : k = Readable(n) /\ k <= rcv
    BY Transferred
  <2>3. Writable(k) \in 0 .. k /\ Writable(k) <= free
    BY Transferred
  <2>4. Numbers' /\ SentOnce'
    <3>1. Numbers'
      BY <1>3, <2>2, <2>3, TcpStreamAssumption DEF Splice, Take, Put, Report, Numbers
    <3>2. SentOnce'
      BY <1>3, <2>2, <2>3 DEF Splice, Take, Put, Report, Numbers, SentOnce
    <3> QED  BY <3>1, <3>2
  <2>5. Bits' /\ Calls'
    BY <1>3, <2>1 DEF Splice, Take, Put, Bits, Calls, taskVars
  <2> QED  BY <1>5, <2>1, <2>4, <2>5 DEF taskVars, PollablesTypeOK, Waiting
<1>4. ASSUME NEW how \in {"read", "splice", "write"}, Begin(how, n)
      PROVE  SentInv'
  <2>1. Numbers' /\ SentOnce'
    BY <1>4 DEF Begin, Numbers, Calls, SentOnce
  <2>2. Bits' /\ Calls' /\ PollablesTypeOK'
    BY <1>4 DEF Begin, Continue, Bits, Calls, PollablesTypeOK, Waiting
  <2> QED  BY <1>5, <2>1, <2>2
<1> QED  BY <1>1, <1>2, <1>3, <1>4

\* What a blocking call does between two waits.
LEMMA WorkStep ==
  ASSUME SentInv, Work
  PROVE  SentInv'
<1> PollablesTypeOK /\ StreamTypeOK /\ Bits /\ Numbers /\ Calls /\ SentOnce
  BY Parts DEF SentInv
<1> SUFFICES PollablesTypeOK' /\ Bits' /\ Numbers' /\ Calls' /\ SentOnce'
  BY Parts DEF SentInv
<1> USE DEF incoming, outgoing, call, counts
<1>1. CASE BlockingRead
  <2>1. Readable(size) \in 0 .. size /\ Readable(size) <= rcv
    BY Transferred DEF Numbers
  <2>2. Numbers' /\ SentOnce'
    <3>1. Numbers'
      <4>1. rcv' \in 0 .. Window /\ UNCHANGED <<outgoing, counts>>
        BY <1>1, <2>1, TcpStreamAssumption DEF BlockingRead, Take, Numbers
      <4>2. \/ UNCHANGED call
            \/ size' = 0 /\ left' = 0
            \/ size' = Readable(size) /\ left' = Readable(size)
        BY <1>1 DEF BlockingRead, WriteWhatWasRead, End
      <4> QED  BY <2>1, <4>1, <4>2 DEF Numbers
    <3>2. SentOnce'
      BY <1>1, <2>1 DEF BlockingRead, Take, WriteWhatWasRead, End, Numbers, SentOnce
    <3> QED  BY <3>1, <3>2
  <2>4. Bits'
    BY <1>1 DEF BlockingRead, Take, Bits
  <2>5. Calls'
    BY <1>1, <2>1 DEF BlockingRead, WriteWhatWasRead, End, Continue, Suspend, Calls,
                      taskVars
  <2>3. PollablesTypeOK'
    BY <1>1 DEF BlockingRead, WriteWhatWasRead, End, Continue, Suspend, PollablesTypeOK,
                Waiting, Pollable, Streams, taskVars
  <2> QED  BY <2>2, <2>3, <2>4, <2>5
<1>2. CASE BlockingWrite
  <2>1. left \in Nat
    BY DEF Numbers
  <2>6. Writable(left) \in 0 .. left /\ Writable(left) <= free
    BY <2>1, Transferred
  <2>2. Numbers' /\ SentOnce'
    <3>1. Numbers'
      BY <1>2, <2>1, <2>6, TcpStreamAssumption DEF BlockingWrite, Put, Report, End, Numbers
    <3>2. SentOnce'
      BY <1>2, <2>1, <2>6 DEF BlockingWrite, Put, Report, End, Numbers, SentOnce
    <3> QED  BY <3>1, <3>2
  <2>4. Bits'
    BY <1>2 DEF BlockingWrite, Put, Bits
  <2>5. Calls'
    BY <1>2 DEF BlockingWrite, End, Continue, Suspend, Calls, taskVars
  <2>3. PollablesTypeOK'
    BY <1>2 DEF BlockingWrite, End, Continue, Suspend, PollablesTypeOK, Waiting,
                Pollable, Streams, taskVars
  <2> QED  BY <2>2, <2>3, <2>4, <2>5
<1> QED  BY <1>1, <1>2 DEF Work

\* The other end and the driver.
LEMMA PeerStep ==
  ASSUME SentInv, Peer \/ Driver
  PROVE  SentInv'
<1> PollablesTypeOK /\ StreamTypeOK /\ Bits /\ Numbers /\ Calls /\ SentOnce
  BY Parts DEF SentInv
<1> SUFFICES PollablesTypeOK' /\ Bits' /\ Numbers' /\ Calls' /\ SentOnce'
  BY Parts DEF SentInv
<1> USE DEF incoming, outgoing, call, counts
<1>1. CASE Peer
  <2>1. Numbers' /\ SentOnce'
    <3>1. rcv' \in 0 .. Window
      <4>1. CASE rcv' \in (rcv + 1) .. Window
        BY <4>1, TcpStreamAssumption DEF Numbers
      <4>2. CASE UNCHANGED rcv
        BY <4>2 DEF Numbers
      <4> QED  BY <1>1, <4>1, <4>2 DEF Peer, PeerSends, PeerReads, PeerCloses
    <3>3. free' \in 0 .. Window
      <4>1. CASE free' \in (free + 1) .. Window
        BY <4>1, TcpStreamAssumption DEF Numbers
      <4>2. CASE UNCHANGED free
        BY <4>2 DEF Numbers
      <4> QED  BY <1>1, <4>1, <4>2 DEF Peer, PeerSends, PeerReads, PeerCloses
    <3>4. Numbers'
      BY <1>1, <3>1, <3>3 DEF Peer, Numbers
    <3>2. SentOnce'
      BY <1>1 DEF Peer, PeerSends, PeerReads, PeerCloses, Numbers, SentOnce
    <3> QED  BY <3>2, <3>4
  <2>2. Bits' /\ Calls' /\ PollablesTypeOK'
    BY <1>1 DEF Peer, PeerSends, PeerReads, PeerCloses, taskVars, Bits, Calls,
                PollablesTypeOK, Waiting
  <2> QED  BY <2>1, <2>2
<1>2. CASE Driver
  BY <1>2 DEF Driver, DriverReadable, DriverWritable, Signal, PollablesTypeOK, Waiting,
              Bits, Numbers, Calls, SentOnce
<1> QED  BY <1>1, <1>2

LEMMA SentStep ==
  ASSUME SentInv, [Next]_vars
  PROVE  SentInv'
<1>1. CASE UNCHANGED vars
  BY <1>1, TaskStep DEF vars
<1>2. CASE Guest
  <2>1. CASE UseSocket
    <3>1. CASE UNCHANGED streamVars
      BY <2>1, <3>1, TaskStep DEF UseSocket, AcceptWithStreams
    <3>2. CASE Open(TRUE) \/ Open(FALSE)
      BY <2>1, <3>2 DEF UseSocket, AcceptWithStreams, Open, SentInv, StreamTypeOK, SentOnce,
         incoming, call, counts, taskVars, PollablesTypeOK, Waiting
    <3> QED  BY <2>1, <3>1, <3>2 DEF UseSocket, AcceptWithStreams
  <2>2. CASE UseStreams
    <3>1. CASE Shutdown
      BY <3>1, ZenonT(30) DEF Shutdown, SentInv, StreamTypeOK, SentOnce, call, counts, taskVars,
                  PollablesTypeOK, Waiting
    <3> QED  BY <1>2, <2>2, <3>1, StreamStep
             DEF UseStreams, UseInput, UseOutput, Skip, WriteZeroes, Guest
  <2>3. CASE WaitForSome
    BY <1>2, <2>3, TaskStep DEF WaitForSome, AskSocket, Wait, Guest
  <2> QED  BY <1>2, <2>1, <2>2, <2>3 DEF Guest
<1>3. CASE Work
  BY <1>3, WorkStep
<1>4. CASE Resume
  BY <1>4, TaskStep DEF Resume
<1>5. CASE Outside
  <2>1. CASE Network /\ UNCHANGED streamVars
    BY <2>1, TaskStep DEF Network, Arrive, Withdraw, Resolve
  <2>2. CASE Nudge /\ UNCHANGED <<socketVars, streamVars>>
    BY <2>2, TaskStep
  <2> QED  BY <1>5, <2>1, <2>2, PeerStep DEF Outside
<1>6. CASE DriverActs
  BY <1>6, PeerStep DEF DriverActs
<1> QED  BY <1>1, <1>2, <1>3, <1>4, <1>5, <1>6 DEF Next

LEMMA SentInvariance == Spec => []SentInv
<1>1. Init => SentInv
  <2> SUFFICES ASSUME Init
               PROVE  PollablesTypeOK /\ Bits /\ Numbers /\ Calls /\ SentOnce
    BY Parts DEF SentInv
  <2>1. PollablesTypeOK
    BY DEF Init, PollablesInit, PollablesTypeOK, Waiting
  <2>4. Calls
    BY DEF Init, PollablesInit, StreamInit, Calls
  <2>3. Bits
    BY DEF Init, StreamInit, Bits
  <2>2. Numbers /\ SentOnce
    BY TcpStreamAssumption DEF Init, StreamInit, Numbers, SentOnce
  <2> QED  BY <2>1, <2>2, <2>3, <2>4
<1>2. SentInv /\ [Next]_vars => SentInv'
  BY SentStep
<1> QED  BY <1>1, <1>2, PTL DEF Spec

\* Every byte that the kernel took is accounted for once: see Tcp.
THEOREM Sent == Spec => []SentOnce
<1>1. SentInv => SentOnce
  BY DEF SentInv
<1> QED  BY <1>1, SentInvariance, PTL

(***************************************************************************)
(* The types of the three modules: a task waits exactly when it waits for  *)
(* something, a call is in progress exactly when it has a size, and at     *)
(* most one connection is parked.                                          *)
(***************************************************************************)
THEOREM TypeCorrect == Spec => []TypeOK
<1>1. SentInv /\ AcceptInv => TypeOK
  BY DEF SentInv, AcceptInv, TypeOK
<1> QED  BY <1>1, SentInvariance, AcceptInvariance, PTL

-----------------------------------------------------------------------------
(***************************************************************************)
(* Wake-ups.  NoLostWakeup is inductive as it stands.  A task is suspended *)
(* with wakers where nothing is up, and what becomes up afterwards wakes.  *)
(***************************************************************************)
LEMMA PollTells ==
  ASSUME PollSocket, ~ told'
  PROVE  Blocked'
<1>1. CASE PollListening
  BY <1>1 DEF PollListening, Blocked
<1>2. CASE PollConnecting
  BY <1>2 DEF PollConnecting, Blocked
<1>3. CASE PollOther
  BY <1>3 DEF PollOther
<1> QED  BY <1>1, <1>2, <1>3 DEF PollSocket

LEMMA SuspendStep ==
  ASSUME NEW how, NEW ps, PollAll(ps), ~ SomeReady(ps), Suspend(how, ps),
         UNCHANGED streamVars
  PROVE  NoLostWakeup'
<1>1. ASSUME NEW p \in ps \cap Kept(how)
      PROVE  p \in armed' /\ ~ IsUp(p)'
  <2>1. p \in armed'
    BY DEF Suspend
  <2>2. p = "socket" => Blocked'
    <3>1. p = "socket" => PollSocket /\ ~ told'
      BY Zenon DEF PollAll, SomeReady
    <3> QED  BY <3>1, PollTells
  <2>3. UNCHANGED <<rd, wr>>
    BY DEF streamVars, incoming, outgoing
  <2>4. (p = "readable" => ~ rd) /\ (p = "writable" => ~ wr)
    BY Zenon DEF SomeReady
  <2>5. ~ IsUp(p)'
    BY <2>2, <2>3, <2>4, Zenon DEF IsUp
  <2> QED  BY <2>1, <2>5
<1>2. on' = ps /\ guest' = how
  BY DEF Suspend
<1> QED  BY <1>1, <1>2 DEF NoLostWakeup, Kept

LEMMA SignalStep ==
  ASSUME NoLostWakeup, NEW up, Signal({up}),
         \A p : p # up => (IsUp(p)' => IsUp(p))
  PROVE  NoLostWakeup'
<1>1. UNCHANGED <<guest, on>>
  BY DEF Signal
<1>2. SUFFICES ASSUME Waiting, ~ woken', NEW p \in on \cap Kept(guest)
               PROVE  p \in armed' /\ ~ IsUp(p)'
  BY <1>1 DEF NoLostWakeup, Waiting, Kept
<1>3. ~ woken /\ up \notin armed /\ armed' = armed
  BY <1>2 DEF Signal
<1>4. p \in armed /\ ~ IsUp(p)
  BY <1>2, <1>3 DEF NoLostWakeup
<1> QED  BY <1>3, <1>4

\* A step that wakes nobody and brings nothing up.
LEMMA QuietStep ==
  ASSUME NoLostWakeup, UNCHANGED taskVars,
         Waiting => \A p : IsUp(p)' => IsUp(p)
  PROVE  NoLostWakeup'
BY DEF NoLostWakeup, taskVars, Waiting, Kept

LEMMA WakeupStep ==
  ASSUME NoLostWakeup, [Next]_vars
  PROVE  NoLostWakeup'
<1>1. CASE UNCHANGED vars
  <2>1. UNCHANGED taskVars /\ UNCHANGED <<state, parked, queue, net, rd, wr>>
    BY <1>1 DEF vars, socketVars, listenVars, streamVars, incoming, outgoing
  <2>2. \A p : IsUp(p)' => IsUp(p)
    BY <2>1, Zenon DEF IsUp, Blocked
  <2> QED  BY <2>1, <2>2, QuietStep
<1>2. CASE Guest
  <2>1. CASE UNCHANGED taskVars
    BY <1>2, <2>1, QuietStep DEF Guest, Waiting
  <2>2. ASSUME NEW how, NEW ps, Wait(how, ps)
        PROVE  UNCHANGED taskVars \/ NoLostWakeup'
    BY <2>2, SuspendStep DEF Wait
  <2>3. ASSUME NEW where, Continue(where), where \in {"running", "working"}
        PROVE  NoLostWakeup'
    BY <2>3 DEF Continue, NoLostWakeup, Waiting
  <2>4. CASE UseSocket
    BY <2>1, <2>4 DEF UseSocket, AcceptWithStreams
  <2>5. CASE UseStreams
    BY <2>1, <2>3, <2>5 DEF UseStreams, UseInput, UseOutput, Skip, WriteZeroes,
       Read, Write, Splice, Begin, Shutdown
  <2>6. CASE WaitForSome
    BY <2>1, <2>2, <2>6 DEF WaitForSome, AskSocket
  <2> QED  BY <1>2, <2>4, <2>5, <2>6 DEF Guest
<1>3. CASE Work
  <2>1. CASE UNCHANGED taskVars
    BY <1>3, <2>1, QuietStep DEF Work, BlockingRead, BlockingWrite, Waiting
  <2>5. CASE \E k : WriteWhatWasRead(k)
    BY <2>1, <2>5 DEF WriteWhatWasRead
  <2>2. CASE End
    BY <2>2 DEF End, Continue, NoLostWakeup, Waiting
  <2>3. ASSUME Suspend("blocking", {"readable"}), rd' = FALSE
        PROVE  NoLostWakeup'
    BY <2>3 DEF Suspend, NoLostWakeup, IsUp, Kept
  <2>4. ASSUME Suspend("blocking", {"writable"}), wr' = FALSE
        PROVE  NoLostWakeup'
    BY <2>4 DEF Suspend, NoLostWakeup, IsUp, Kept
  <2> QED  BY <1>3, <2>1, <2>2, <2>3, <2>4, <2>5 DEF Work, BlockingRead, BlockingWrite
<1>4. CASE Resume
  <2>1. CASE SomeReady(on)
    BY <1>4, <2>1 DEF Resume, Continue, NoLostWakeup, Waiting
  <2>2. CASE ~ SomeReady(on)
    BY <1>4, <2>2, SuspendStep DEF Resume
  <2> QED  BY <2>1, <2>2
<1>5. CASE Outside
  <2>1. ASSUME NEW c \in Conn, Arrive(c), UNCHANGED streamVars
        PROVE  NoLostWakeup'
    <3>1. UNCHANGED <<rd, wr>>
      BY <2>1 DEF streamVars, incoming, outgoing
    <3>2. \A p : p # "socket" => (IsUp(p)' => IsUp(p))
      BY <3>1, Zenon DEF IsUp
    <3> QED  BY <2>1, <3>2, SignalStep DEF Arrive
  <2>2. CASE Withdraw /\ UNCHANGED streamVars
    <3>1. UNCHANGED <<rd, wr, state, net, parked>> /\ UNCHANGED taskVars
      BY <2>2 DEF Withdraw, streamVars, incoming, outgoing
    <3>2. queue # <<>>
      BY <2>2 DEF Withdraw
    <3>3. \A p : IsUp(p)' => IsUp(p)
      BY <3>1, <3>2, Zenon DEF IsUp, Blocked
    <3> QED  BY <3>1, <3>3, QuietStep
  <2>3. CASE Resolve /\ UNCHANGED streamVars
    <3>1. UNCHANGED <<rd, wr>>
      BY <2>3 DEF streamVars, incoming, outgoing
    <3>2. \A p : p # "socket" => (IsUp(p)' => IsUp(p))
      BY <3>1, Zenon DEF IsUp
    <3> QED  BY <2>3, <3>2, SignalStep DEF Resolve
  <2>4. CASE Nudge
    BY <2>4 DEF Nudge, NoLostWakeup
  <2>5. CASE Peer /\ UNCHANGED socketVars
    <3>1. UNCHANGED taskVars /\ UNCHANGED <<state, parked, queue, net, rd, wr>>
      BY <2>5 DEF Peer, PeerSends, PeerReads, PeerCloses, socketVars, listenVars,
                  incoming, outgoing
    <3>2. \A p : IsUp(p)' => IsUp(p)
      BY <3>1, Zenon DEF IsUp, Blocked
    <3> QED  BY <3>1, <3>2, QuietStep
  <2> QED  BY <1>5, <2>1, <2>2, <2>3, <2>4, <2>5 DEF Outside, Network
<1>6. CASE DriverActs
  <2>1. UNCHANGED <<state, parked, queue, net>>
    BY <1>6 DEF DriverActs, socketVars, listenVars
  <2>2. CASE DriverReadable
    <3>1. UNCHANGED wr
      BY <2>2 DEF DriverReadable, outgoing
    <3>2. \A p : p # "readable" => (IsUp(p)' => IsUp(p))
      BY <2>1, <3>1, Zenon DEF IsUp, Blocked
    <3> QED  BY <2>2, <3>2, SignalStep DEF DriverReadable
  <2>3. CASE DriverWritable
    <3>1. UNCHANGED rd
      BY <2>3 DEF DriverWritable, incoming
    <3>2. \A p : p # "writable" => (IsUp(p)' => IsUp(p))
      BY <2>1, <3>1, Zenon DEF IsUp, Blocked
    <3> QED  BY <2>3, <3>2, SignalStep DEF DriverWritable
  <2> QED  BY <1>6, <2>2, <2>3 DEF DriverActs, Driver
<1> QED  BY <1>1, <1>2, <1>3, <1>4, <1>5, <1>6 DEF Next

\* Who waits has its wakers, and what it waits for is not up: see Tcp.
THEOREM Wakeups == Spec => []NoLostWakeup
<1>1. Init => NoLostWakeup
  BY DEF Init, PollablesInit, NoLostWakeup, Waiting
<1>2. NoLostWakeup /\ [Next]_vars => NoLostWakeup'
  BY WakeupStep
<1> QED  BY <1>1, <1>2, PTL DEF Spec
=============================================================================
