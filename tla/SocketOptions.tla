--------------------------- MODULE SocketOptions ---------------------------
(***************************************************************************)
(* The settings of a TCP socket (engine/wasi/sockets/tcp.rs, util.rs and   *)
(* host/tcp.rs): one of the options that the kernel keeps, the backlog,    *)
(* which the socket keeps until it listens, and SO_REUSEADDR, which every  *)
(* attempt to bind sets anew.  They must outlive the changes of TcpState   *)
(* and whatever fails on the way; TcpSocket has the steps that succeed and *)
(* who shares the state, here are those that fail as well.                 *)
(*                                                                         *)
(* Numbers are scaled down: Second units to a second, and 2^32 is U32.     *)
(* Linux is meant where systems differ.                                    *)
(***************************************************************************)
EXTENDS Integers

CONSTANTS
  Second,         \* nanoseconds of a second
  MaxSeconds,     \* i16::MAX, the longest keep-alive time in seconds
  MaxCount,       \* i8::MAX
  MaxHops,        \* u8::MAX
  MinBuffer,      \* the limits that the kernel has for buffers
  MaxBuffer,
  U32,            \* 2^32
  DefaultBacklog, \* the listen queue size of a new socket
  Argument        \* arguments of the guest, u64

Option == {"keep-alive-idle-time", "keep-alive-interval", "keep-alive-count",
           "hop-limit", "receive-buffer-size", "send-buffer-size"}
Time == {"keep-alive-idle-time", "keep-alive-interval"}
Buffer == {"receive-buffer-size", "send-buffer-size"}
Plain == {"keep-alive-count", "hop-limit"}

MaxBacklog == U32 \div 2 - 1
Limit == [o \in Option |->
            CASE o \in Time -> MaxSeconds * Second
              [] o = "keep-alive-count" -> MaxCount
              [] o = "hop-limit" -> MaxHops
              [] o \in Buffer -> MaxBuffer]

ASSUME OptionsAssumption ==
  /\ {Second, MaxSeconds, MaxCount, MaxHops, MinBuffer} \subseteq Nat \ {0}
  /\ MaxBuffer \in Nat /\ MinBuffer <= MaxBuffer /\ MaxBuffer <= MaxBacklog
  /\ U32 \in Nat /\ U32 >= 4
  /\ DefaultBacklog \in 1 .. MaxBacklog
  /\ Argument \subseteq Nat

VARIABLES
  option,     \* the option that the guest sets
  kernel,     \* its value in the kernel
  state,      \* TcpState
  reuse,      \* SO_REUSEADDR
  bound,      \* the port asked for by the bind that succeeded, or Unset
  backlog,    \* listen_backlog_size
  queueSize,  \* the backlog of the kernel, once the socket listens
  asked       \* history: the last values set with success, or Unset

optionVars == <<option, kernel, state, reuse, bound, backlog, queueSize, asked>>

Unset == -1
Setting == {"option", "backlog"}

Unconnected == {"Default", "BindStarted", "Bound"}
Listener == {"ListenStarted", "Listening"}

OptionsTypeOK ==
  /\ option \in Option
  /\ kernel \in Nat \cup {Unset}
  /\ state \in Unconnected \cup Listener \cup
       {"ConnectStarted", "ConnectReady", "Connected", "Closed"}
  /\ reuse \in BOOLEAN
  /\ bound \in {Unset, 0, 1}
  /\ backlog \in 1 .. MaxBacklog
  /\ queueSize \in 0 .. MaxBacklog
  /\ asked \in [Setting -> Nat \cup {Unset}]

OptionsInit ==
  /\ option \in Option
  /\ kernel = Unset
  /\ state = "Default"
  /\ reuse = FALSE /\ bound = Unset
  /\ backlog = DefaultBacklog /\ queueSize = 0
  /\ asked = [s \in Setting |-> Unset]

-----------------------------------------------------------------------------
Clamp(v, low, high) == IF v < low THEN low ELSE IF v > high THEN high ELSE v

(***************************************************************************)
(* The kernel: times are whole seconds, to which rustix rounds up; buffers *)
(* are kept within its limits and doubled.                                 *)
(***************************************************************************)
SetSockOpt(o, v) ==
  CASE o \in Time -> (v + Second - 1) \div Second
    [] o \in Buffer -> 2 * Clamp(v, MinBuffer, MaxBuffer)
    [] o \in Plain -> v

GetSockOpt(o, k) == IF o \in Time THEN k * Second ELSE k

\* Mutant: a time of less than a second counts as none, the way as_secs
\* rounds, and the limits are those of the type.
NormalSetTruncates(o, v) ==
  CASE o \in Time -> Clamp(v, 0, MaxSeconds * Second)
    [] o = "keep-alive-count" -> v
    [] OTHER -> Clamp(v, 1, U32 \div 2 - 1)

(***************************************************************************)
(* What the setters make of their argument, which is never 0; hop-limit is *)
(* a u8.  Getting a buffer size halves what the kernel has.                *)
(***************************************************************************)
NormalSet(o, v) ==
  CASE o \in Time -> Clamp(v, Second, MaxSeconds * Second)
    [] o = "keep-alive-count" -> Clamp(v, 1, MaxCount)
    [] o = "hop-limit" -> v
    [] o \in Buffer -> Clamp(v, 1, U32 \div 2 - 1)

NormalGet(o, k) == IF o \in Buffer THEN k \div 2 ELSE k

(***************************************************************************)
(* as_std_view: there is no socket to ask while one connects, or after it  *)
(* was closed.                                                             *)
(***************************************************************************)
HasView == state \notin {"ConnectStarted", "ConnectReady", "Closed"}

SetOption(v) ==
  /\ option = "hop-limit" => v <= MaxHops
  /\ HasView /\ v # 0
  /\ kernel' = SetSockOpt(option, NormalSet(option, v))
  /\ asked' = [asked EXCEPT !["option"] = v]
  /\ UNCHANGED <<option, state, reuse, bound, backlog, queueSize>>

Get == NormalGet(option, GetSockOpt(option, kernel))

\* Mutant: the argument is cut to 32 bits.
BacklogOfCuts(v) == Clamp(v % U32, 1, MaxBacklog)

\* Mutant: the limit is that of u32.
BacklogOfUnsigned(v) == IF v < U32 THEN v ELSE U32 - 1

BacklogOf(v) == Clamp(IF v < U32 THEN v ELSE MaxBacklog, 1, MaxBacklog)

(***************************************************************************)
(* A socket that listens listens again, which the system may not support;  *)
(* the size is kept only if it does.                                       *)
(***************************************************************************)
SetListenBacklogSize(v) ==
  /\ v # 0 /\ state \in Unconnected \cup Listener
  /\ backlog' = BacklogOf(v)
  /\ queueSize' = IF state \in Listener THEN BacklogOf(v) ELSE queueSize
  /\ asked' = [asked EXCEPT !["backlog"] = v]
  /\ UNCHANGED <<option, kernel, state, reuse, bound>>

-----------------------------------------------------------------------------
Enter(s) ==
  /\ state' = s
  /\ UNCHANGED <<option, kernel, backlog, asked>>

\* Mutant: SO_REUSEADDR is set for a specific port and left alone otherwise.
ReuseForSticks(port) == reuse \/ port > 0

(***************************************************************************)
(* start_bind.  An address of the wrong family, or one that is not         *)
(* unicast, is refused before anything happens; a bind that the system     *)
(* refuses leaves the state as it was, with SO_REUSEADDR set for the port. *)
(***************************************************************************)
ReuseFor(port) == port > 0

StartBind(port) ==
  /\ state = "Default"
  /\ reuse' = ReuseFor(port)
  /\ \/ Enter("BindStarted") /\ bound' = port
     \/ Enter("Default") /\ UNCHANGED bound
  /\ UNCHANGED queueSize

FinishBind ==
  /\ state = "BindStarted"
  /\ Enter("Bound")
  /\ UNCHANGED <<reuse, bound, queueSize>>

\* Mutant: the socket listens with the default.
ListenSizeDefault == DefaultBacklog

ListenSize == backlog

StartListen ==
  /\ state \in {"BindStarted", "Bound"}
  /\ \/ Enter("ListenStarted") /\ queueSize' = ListenSize
     \/ Enter("Closed") /\ UNCHANGED queueSize
  /\ UNCHANGED <<reuse, bound>>

FinishListen ==
  /\ state = "ListenStarted"
  /\ Enter("Listening")
  /\ UNCHANGED <<reuse, bound, queueSize>>

\* The connection is refused before anything happens if the address is not
\* valid for it; it ends with streams, or the socket is closed.
Connect ==
  /\ \/ state \in Unconnected /\ Enter("ConnectStarted")
     \/ state = "ConnectStarted" /\ Enter("ConnectReady")
     \/ state = "ConnectReady" /\ (Enter("Connected") \/ Enter("Closed"))
  /\ UNCHANGED <<reuse, bound, queueSize>>

OptionsNext ==
  \/ \E v \in Argument : SetOption(v) \/ SetListenBacklogSize(v)
  \/ \E port \in {0, 1} : StartBind(port)
  \/ FinishBind \/ StartListen \/ FinishListen \/ Connect

OptionsSpec == OptionsInit /\ [][OptionsNext]_optionVars

-----------------------------------------------------------------------------
(***************************************************************************)
(* The values a guest may see of an option, and the one nearest to what it *)
(* asks for: the least that is not below it, or the greatest of all.       *)
(***************************************************************************)
Supported(o) ==
  CASE o \in Time -> {s * Second : s \in 1 .. MaxSeconds}
    [] o \in Buffer -> MinBuffer .. MaxBuffer
    [] o \in Plain -> 1 .. Limit[o]

Nearest(v, values) ==
  CHOOSE x \in values :
    \A y \in values : IF \E z \in values : z >= v
                      THEN x >= v /\ (y >= v => x <= y)
                      ELSE y <= x

(***************************************************************************)
(* Whatever state the socket has gone through since, the guest reads the   *)
(* supported value nearest to the one it set last with success; the queue  *)
(* of a listener has the size set last, whether before it listened or      *)
(* after; and SO_REUSEADDR is what the bind that succeeded needs, not what *)
(* one before it that failed has left behind.                              *)
(***************************************************************************)
SettingsKept ==
  /\ asked["option"] # Unset /\ HasView =>
       Get = Nearest(asked["option"], Supported(option))
  /\ state \in Listener =>
       queueSize = IF asked["backlog"] = Unset THEN DefaultBacklog
                   ELSE Nearest(asked["backlog"], 1 .. MaxBacklog)
  /\ bound # Unset => reuse = (bound > 0)
=============================================================================
