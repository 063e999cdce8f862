----------------------------- MODULE TcpStream -----------------------------
(***************************************************************************)
(* The two streams of a TCP connection (InputStream::TcpStream and         *)
(* OutputStream::TcpStream in engine/wasi/io/mod.rs, with the host         *)
(* functions of engine/wasi/io/streams.rs).  Both share one tokio stream,  *)
(* which remembers for each direction that the kernel was ready, tries the *)
(* system call only then, and forgets it when the call would block.        *)
(*                                                                         *)
(* Bytes are counted, not told apart.  check-write and flush change        *)
(* nothing, and a stream that is dropped is one that the guest no longer   *)
(* uses.                                                                   *)
(***************************************************************************)
EXTENDS Pollables, Integers

CONSTANTS
  Window,      \* size of the kernel's buffer for each direction
  Chunk,       \* lengths that the guest reads and writes
  MaxSent      \* bound: bytes sent in all

ASSUME TcpStreamAssumption ==
  Window \in Nat \ {0} /\ Chunk \subseteq Nat \ {0} /\ MaxSent \in Nat

VARIABLES
  open,        \* the guest has the streams
  rcv, eof,    \* bytes to be read, and whether they are the last
  rd,          \* tokio: the connection is readable
  free, dead,  \* room for bytes to be sent, and whether sending fails
  wr,          \* tokio: the connection is writable
  op,          \* the blocking call that the guest is in
  size, left,  \* its length, and what is left of it
  sent,        \* history: bytes taken by the kernel
  acked,       \* history: of those, bytes of writes that succeeded
  partial      \* history: of those, bytes of writes that failed

incoming == <<rcv, eof, rd>>
outgoing == <<free, dead, wr>>
call == <<op, size, left>>
counts == <<sent, acked, partial>>
streamVars == <<open, incoming, outgoing, call, counts>>

StreamTypeOK ==
  /\ open \in BOOLEAN
  /\ rcv \in 0 .. Window /\ eof \in BOOLEAN /\ rd \in BOOLEAN
  /\ free \in 0 .. Window /\ dead \in BOOLEAN /\ wr \in BOOLEAN
  /\ op \in {"none", "read", "splice", "write"}
  /\ size \in Nat /\ left \in 0 .. size
  /\ sent \in Nat /\ acked \in Nat /\ partial \in Nat
  /\ op # "none" <=> size > 0
  /\ guest = "working" <=> op # "none" /\ guest # "blocking"

StreamInit ==
  /\ open = FALSE
  /\ rcv = 0 /\ eof = FALSE /\ rd = FALSE
  /\ free = Window /\ dead = FALSE /\ wr = FALSE
  /\ op = "none" /\ size = 0 /\ left = 0
  /\ sent = 0 /\ acked = 0 /\ partial = 0

\* A stream that was connected is known to be writable.
Open(connected) ==
  /\ open' = TRUE
  /\ wr' = connected
  /\ UNCHANGED <<incoming, free, dead, call, counts>>

AtMost(n, m) == IF n < m THEN n ELSE m

-----------------------------------------------------------------------------
(***************************************************************************)
(* try_read and try_write: what they transfer, and what tokio remembers.   *)
(***************************************************************************)
Readable(n) == IF rd THEN AtMost(n, rcv) ELSE 0
Writable(n) == IF wr /\ ~ dead THEN AtMost(n, free) ELSE 0

ReadWouldBlock == ~ rd \/ (rcv = 0 /\ ~ eof)
WriteWouldBlock == ~ wr \/ (free = 0 /\ ~ dead)

Take(n) ==
  /\ rcv' = rcv - n
  /\ UNCHANGED <<eof, rd>>

Put(n) ==
  /\ sent + n <= MaxSent
  /\ free' = free - n
  /\ sent' = sent + n
  /\ UNCHANGED <<dead, wr>>

\* A write of n bytes of which the kernel has taken k.
Report(n, k) ==
  IF k = n THEN acked' = acked + n /\ UNCHANGED partial
           ELSE partial' = partial + k /\ UNCHANGED acked

(***************************************************************************)
(* The calls that do not block.  A short write is the error ShortWrite, a  *)
(* write that would block the error WouldBlock.                            *)
(***************************************************************************)
Read(n) ==
  /\ rd
  /\ IF ReadWouldBlock THEN rd' = FALSE /\ UNCHANGED <<rcv, eof>>
                       ELSE Take(Readable(n))
  /\ UNCHANGED <<open, outgoing, call, counts, taskVars>>

Write(n) ==
  /\ wr
  /\ IF WriteWouldBlock
     THEN wr' = FALSE /\ UNCHANGED <<free, dead, counts>>
     ELSE Put(Writable(n)) /\ Report(n, Writable(n))
  /\ UNCHANGED <<open, incoming, call, taskVars>>

\* skip is a read whose bytes are dropped, write-zeroes a write.
Skip(n) == Read(n)

WriteZeroes(n) == Write(n)

(***************************************************************************)
(* splice reads no more than check-write permits, which is the size of the *)
(* whole buffer; what it has read and cannot write is lost.                *)
(***************************************************************************)
Splice(n) ==
  /\ ~ ReadWouldBlock /\ Readable(n) > 0
  /\ Take(Readable(n))
  /\ IF WriteWouldBlock
     THEN wr' = FALSE /\ UNCHANGED <<free, dead, counts>>
     ELSE LET k == Readable(n)
          IN Put(Writable(k)) /\ Report(k, Writable(k))
  /\ UNCHANGED <<open, call, taskVars>>

\* TcpState::shutdown: the kernel ends either direction or both.
Shutdown ==
  /\ eof' \in {eof, TRUE}
  /\ dead' \in {dead, TRUE}
  /\ UNCHANGED <<open, rcv, rd, free, wr, call, counts, taskVars>>

-----------------------------------------------------------------------------
(***************************************************************************)
(* The blocking calls.  They try, and await the stream when they would     *)
(* block; a write goes on with what it has not written yet.  A splice is a *)
(* read, and a write of what was read unless that is nothing: the end of   *)
(* the stream is the error Closed.                                         *)
(***************************************************************************)
Begin(how, n) ==
  /\ op' = how
  /\ size' = n /\ left' = n
  /\ Continue("working")
  /\ UNCHANGED <<open, incoming, outgoing, counts>>

End ==
  /\ op' = "none" /\ size' = 0 /\ left' = 0
  /\ Continue("running")

WriteWhatWasRead(k) ==
  /\ op' = "write" /\ size' = k /\ left' = k
  /\ UNCHANGED taskVars

BlockingRead ==
  /\ guest = "working" /\ op \in {"read", "splice"}
  /\ \/ /\ ~ ReadWouldBlock
        /\ Take(Readable(size))
        /\ IF op = "splice" /\ Readable(size) > 0
           THEN WriteWhatWasRead(Readable(size))
           ELSE End
     \/ /\ ReadWouldBlock
        /\ rd' = FALSE
        /\ Suspend("blocking", {"readable"})
        /\ UNCHANGED <<rcv, eof, call>>
  /\ UNCHANGED <<open, outgoing, counts>>

\* Mutant: after a short write the loop tries the whole of contents again.
BlockingWriteAgain ==
  /\ guest = "working" /\ op = "write"
  /\ \/ /\ ~ WriteWouldBlock /\ ~ dead
        /\ Put(Writable(left))
        /\ IF Writable(left) = left
           THEN Report(size, size) /\ End
           ELSE UNCHANGED <<call, taskVars, acked, partial>>
     \/ /\ wr /\ dead
        /\ partial' = partial + (size - left)
        /\ End
        /\ UNCHANGED <<outgoing, sent, acked>>
     \/ /\ WriteWouldBlock
        /\ wr' = FALSE
        /\ Suspend("blocking", {"writable"})
        /\ UNCHANGED <<free, dead, call, counts>>
  /\ UNCHANGED <<open, incoming>>

BlockingWrite ==
  /\ guest = "working" /\ op = "write"
  /\ \/ /\ ~ WriteWouldBlock /\ ~ dead
        /\ Put(Writable(left))
        /\ IF Writable(left) = left
           THEN Report(size, size) /\ End
           ELSE /\ left' = left - Writable(left)
                /\ UNCHANGED <<op, size, taskVars, acked, partial>>
     \/ /\ wr /\ dead
        /\ partial' = partial + (size - left)
        /\ End
        /\ UNCHANGED <<outgoing, sent, acked>>
     \/ /\ WriteWouldBlock
        /\ wr' = FALSE
        /\ Suspend("blocking", {"writable"})
        /\ UNCHANGED <<free, dead, call, counts>>
  /\ UNCHANGED <<open, incoming>>

-----------------------------------------------------------------------------
(***************************************************************************)
(* The other end, and the driver that notices what it did.                 *)
(***************************************************************************)
PeerSends ==
  /\ ~ eof /\ rcv < Window
  /\ rcv' \in (rcv + 1) .. Window
  /\ UNCHANGED <<eof, rd, outgoing>>

PeerReads ==
  /\ ~ dead /\ free < Window
  /\ free' \in (free + 1) .. Window
  /\ UNCHANGED <<dead, wr, incoming>>

PeerCloses ==
  /\ eof' = TRUE
  /\ dead' \in {dead, TRUE}
  /\ UNCHANGED <<rcv, rd, free, wr>>

Peer ==
  /\ open
  /\ PeerSends \/ PeerReads \/ PeerCloses
  /\ UNCHANGED <<open, call, counts, taskVars>>

DriverReadable ==
  /\ open /\ ~ rd /\ (rcv > 0 \/ eof)
  /\ rd' = TRUE
  /\ Signal({"readable"})
  /\ UNCHANGED <<open, rcv, eof, outgoing, call, counts>>

DriverWritable ==
  /\ open /\ ~ wr /\ (free > 0 \/ dead)
  /\ wr' = TRUE
  /\ Signal({"writable"})
  /\ UNCHANGED <<open, incoming, free, dead, call, counts>>

Driver == DriverReadable \/ DriverWritable
=============================================================================
