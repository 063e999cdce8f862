----------------------------- MODULE GuestTime -----------------------------
(***************************************************************************)
(* How long a guest may take: Engine::new_store and its epoch callback     *)
(* (crates/wasmlet/src/engine/mod.rs), and wasi:io/poll                    *)
(* (crates/wasmlet/src/engine/wasi/io/poll.rs), which must notice what the *)
(* callback cannot while the guest waits in the host.                      *)
(*                                                                         *)
(* The module follows one store: it is created for an invocation, its      *)
(* guest computes, polls and returns, the instance waits in the pool and   *)
(* serves further invocations, until it traps.  All along, the epoch       *)
(* thread ticks and the engine may ask for shutdown.                       *)
(*                                                                         *)
(* There are two clocks.  A turn of the epoch thread increments the epoch, *)
(* of which the slices and the budget count, and publishes the             *)
(* milliseconds since start, of which the deadlines are made.  A turn      *)
(* takes a millisecond or more, so epochs fall behind.                     *)
(***************************************************************************)
EXTENDS Integers

CONSTANTS
  Slice,      \* epochs between two callbacks: 100
  Grace,      \* milliseconds from the application of a manifest to the
              \* shutdown deadline that it sends: 1000
  ExecTimes,  \* values of execution-time-ms
  MaxTurn,    \* bounds the milliseconds of one turn of the epoch thread
  MaxTime     \* bounds the clock

ASSUME TimeAssumption ==
  /\ Slice \in Nat \ {0}
  /\ Grace \in Nat
  /\ ExecTimes \in SUBSET Nat
  /\ MaxTurn \in Nat \ {0}
  /\ MaxTime \in Nat

VARIABLES
  now,        \* EPOCH_MONOTONIC_NOW
  epoch,      \* the epoch of the wasmtime engine
  execTime,   \* execution_time_ms of the workload, or NoLimit
  guest,      \* what the guest does
  cause,      \* why it trapped
  limited,    \* budget is Some
  budget,     \* what it is worth then
  check,      \* the epoch at which the next callback is due
  grant,      \* what the callback granted, while the guest yields
  deadline,   \* Ctx::deadline, 0 for none
  stopAt,     \* the value of the shutdown channel, 0 until one is sent
  open,       \* the sender of the shutdown channel is alive
  ready,      \* one of the events that the guest polls has occurred
  begun,      \* history: when the current invocation began
  ran,        \* history: the epochs in which the guest computed
  late        \* history: those of them after the shutdown deadline

vars == <<now, epoch, execTime, guest, cause, limited, budget, check, grant,
          deadline, stopAt, open, ready, begun, ran, late>>
clock == <<now, epoch, execTime>>
timing == <<limited, budget, check, grant, deadline>>
channel == <<stopAt, open>>
history == <<begun, ran, late>>

NoLimit == -1   \* a service, or a workload that sets none

HasLimit == execTime # NoLimit

Guests == {"running", "yielded", "polling", "spinning", "pooled", "trapped"}
Causes == {"none", "budget", "grace", "forced", "deadline"}

TypeOK ==
  /\ now \in Nat /\ epoch \in Nat
  /\ execTime \in ExecTimes \cup {NoLimit}
  /\ guest \in Guests
  /\ cause \in Causes
  /\ limited \in BOOLEAN
  /\ budget \in Nat
  /\ check \in Nat
  /\ grant \in 0 .. Slice
  /\ deadline \in Nat
  /\ stopAt \in Nat
  /\ open \in BOOLEAN
  /\ ready \in BOOLEAN
  /\ begun \in Nat /\ ran \in Nat /\ late \in Nat

\* Mutant: a last slice is as long as the others.
WholeSlice(time) == Slice

\* checked_sub(100): what a slice takes from the time that is left.
SliceOf(time) == IF time >= Slice THEN Slice ELSE time

(***************************************************************************)
(* new_store.  The epoch is counted from here; the clock has been started  *)
(* before.                                                                 *)
(***************************************************************************)
Born == 1

Init ==
  /\ now = Born /\ epoch = 0
  /\ execTime \in ExecTimes \cup {NoLimit}
  /\ guest = "running" /\ cause = "none"
  /\ limited = HasLimit
  /\ LET n == IF limited THEN SliceOf(execTime) ELSE Slice
     IN /\ budget = IF limited THEN execTime - n ELSE 0
        /\ check = n
  /\ grant = 0
  /\ deadline = IF limited THEN now + execTime ELSE 0
  /\ stopAt = 0 /\ open = TRUE
  /\ ready = FALSE
  /\ begun = now /\ ran = 0 /\ late = 0

-----------------------------------------------------------------------------
(***************************************************************************)
(* The epoch thread.  A guest that computes reads the epoch at every loop  *)
(* and call, and a spinning poll reads the clock, so time does not pass    *)
(* for them between a deadline and its notice.                             *)
(***************************************************************************)
Due == guest = "running" /\ epoch >= check

SpinEnds == guest = "spinning" /\ now >= deadline

Tick ==
  /\ ~ Due /\ ~ SpinEnds
  /\ \E turn \in 1 .. MaxTurn :
       /\ now + turn <= MaxTime
       /\ now' = now + turn
  /\ epoch' = epoch + 1
  /\ ran' = IF guest = "running" THEN ran + 1 ELSE ran
  /\ late' = IF guest = "running" /\ stopAt > 0 /\ now >= stopAt
             THEN late + 1 ELSE late
  /\ UNCHANGED <<execTime, guest, cause, timing, channel, ready, begun>>

Trap(why) ==
  /\ guest' = "trapped"
  /\ cause' = why

-----------------------------------------------------------------------------
(***************************************************************************)
(* The callback of new_store.  It takes a slice from the budget; once      *)
(* shutdown has been asked for, the time to its deadline is the budget.    *)
(***************************************************************************)
OutOfBudget == limited /\ budget = 0

CallbackTraps ==
  /\ Due
  /\ \/ OutOfBudget /\ Trap("budget")
     \/ ~ OutOfBudget /\ ~ open /\ Trap("forced")
     \/ ~ OutOfBudget /\ open /\ stopAt > 0 /\ now >= stopAt /\ Trap("grace")
  /\ UNCHANGED <<clock, timing, channel, ready, history>>

Yield(left, n) ==
  /\ budget' = left
  /\ grant' = n
  /\ guest' = "yielded"
  /\ UNCHANGED <<clock, cause, check, deadline, channel, ready, history>>

\* Mutant: the slice is not taken from the budget.
CallbackGrantsFree ==
  /\ Due /\ ~ OutOfBudget /\ open /\ stopAt = 0
  /\ Yield(budget, IF limited THEN SliceOf(budget) ELSE Slice)
  /\ UNCHANGED limited

CallbackGrants ==
  /\ Due /\ ~ OutOfBudget /\ open /\ stopAt = 0
  /\ IF limited THEN Yield(budget - SliceOf(budget), SliceOf(budget))
     ELSE Yield(budget, Slice)
  /\ UNCHANGED limited

\* Mutant: a shutdown leaves the guest one slice, whatever its deadline.
CallbackOverridesOnce ==
  /\ Due /\ ~ OutOfBudget /\ open /\ stopAt > now
  /\ limited' = TRUE
  /\ Yield(0, SliceOf(stopAt - now))

CallbackOverrides ==
  /\ Due /\ ~ OutOfBudget /\ open /\ stopAt > now
  /\ limited' = TRUE
  /\ Yield(stopAt - now - SliceOf(stopAt - now), SliceOf(stopAt - now))

(***************************************************************************)
(* The executor comes back to the guest.  The time it spent on others is   *)
(* not charged: the new epoch deadline is set only now.                    *)
(***************************************************************************)
Resume ==
  /\ guest = "yielded"
  /\ guest' = "running"
  /\ check' = epoch + grant
  /\ UNCHANGED <<clock, cause, limited, budget, grant, deadline, channel,
                 ready, history>>

-----------------------------------------------------------------------------
(***************************************************************************)
(* poll.  An iteration of its inner loop brings Ctx::deadline up to date,  *)
(* traps at the deadline, and otherwise waits for it, for the pollables,   *)
(* and for news of shutdown.  Once shutdown has been asked for there is no *)
(* news to wait for, and the loop goes round until the deadline.           *)
(***************************************************************************)
PollDeadline ==
  IF deadline # 0 /\ stopAt # 0
  THEN IF stopAt < deadline THEN stopAt ELSE deadline
  ELSE IF deadline = 0 THEN stopAt ELSE deadline

Loop ==
  /\ deadline' = PollDeadline
  /\ \/ PollDeadline > 0 /\ now >= PollDeadline /\ Trap("deadline")
     \/ /\ PollDeadline = 0 \/ now < PollDeadline
        /\ \/ stopAt = 0 /\ ~ open /\ Trap("forced")
           \/ stopAt = 0 /\ open /\ guest' = "polling" /\ UNCHANGED cause
           \/ stopAt > 0 /\ guest' = "spinning" /\ UNCHANGED cause
  /\ UNCHANGED <<clock, limited, budget, check, grant, channel, history>>

\* The guest polls events none of which is ready.
EnterPoll ==
  /\ guest = "running"
  /\ ready' = FALSE
  /\ Loop

EventOccurs ==
  /\ guest \in {"polling", "spinning"} /\ ~ ready
  /\ ready' = TRUE
  /\ UNCHANGED <<clock, guest, cause, timing, channel, history>>

\* The task is polled again: it was woken by an event, the deadline or the
\* shutdown channel.
PollReturns ==
  /\ guest = "polling" /\ ready
  /\ guest' = "running"
  /\ UNCHANGED <<clock, cause, timing, channel, ready, history>>

Wake ==
  /\ guest = "polling" /\ ~ ready
  /\ \/ deadline > 0 /\ now >= deadline
     \/ stopAt > 0
     \/ ~ open
  /\ Loop
  /\ UNCHANGED ready

Spin ==
  /\ SpinEnds
  /\ Trap("deadline")
  /\ UNCHANGED <<clock, timing, channel, ready, history>>

-----------------------------------------------------------------------------
(***************************************************************************)
(* The invocation returns and its instance is pooled; the next invocation  *)
(* takes store and context as they are.                                    *)
(***************************************************************************)
Return ==
  /\ guest = "running"
  /\ guest' = "pooled"
  /\ UNCHANGED <<clock, cause, timing, channel, ready, history>>

Reuse ==
  /\ guest = "pooled"
  /\ guest' = "running"
  /\ begun' = now
  /\ UNCHANGED <<clock, cause, timing, channel, ready, ran, late>>

(***************************************************************************)
(* The engine sends the deadline that was computed when the application of *)
(* the new manifest was requested, or drops the sender without one.        *)
(***************************************************************************)
SendDeadline ==
  /\ open /\ stopAt = 0
  /\ \E requested \in 1 .. now : stopAt' = requested + Grace
  /\ UNCHANGED <<clock, guest, cause, timing, open, ready, history>>

DropSender ==
  /\ open /\ stopAt = 0
  /\ open' = FALSE
  /\ UNCHANGED <<clock, guest, cause, timing, stopAt, ready, history>>

Callback == CallbackTraps \/ CallbackGrants \/ CallbackOverrides \/ Resume
Poll == EnterPoll \/ EventOccurs \/ PollReturns \/ Wake \/ Spin

Next ==
  \/ Tick
  \/ Callback
  \/ Poll
  \/ Return \/ Reuse
  \/ SendDeadline \/ DropSender

Spec == Init /\ [][Next]_vars

-----------------------------------------------------------------------------
(***************************************************************************)
(* No guest is cut off early: one that traps for want of time has reached  *)
(* the deadline of its store, or the deadline of a shutdown.  The slices   *)
(* that new_store and its callback grant add up, and the two clocks, the   *)
(* pauses, the polls and the override only ever delay the end.             *)
(***************************************************************************)
NeverEarly ==
  cause \in {"budget", "grace", "deadline"} =>
    \/ HasLimit /\ now >= Born + execTime
    \/ stopAt > 0 /\ now >= stopAt

(***************************************************************************)
(* A guest that computes is stopped in time: with a limit it computes no   *)
(* longer than its execution time, in all invocations together, unless a   *)
(* shutdown extends it; and no longer than a slice beyond the deadline of  *)
(* the shutdown.                                                           *)
(***************************************************************************)
ComputesWithinLimits ==
  /\ HasLimit /\ stopAt = 0 => ran <= execTime
  /\ late <= Slice

(***************************************************************************)
(* "The component invocation will trap if [the execution time deadline] is *)
(* reached": an invocation traps for its execution time only when it has   *)
(* had that time.                                                          *)
(***************************************************************************)
InvocationHasItsTime ==
  cause = "budget" /\ stopAt = 0 => now >= begun + execTime

(***************************************************************************)
(* poll "waits until one or more of the events is ready": a guest is not   *)
(* cut off in poll while an event that it polls is ready.                  *)
(***************************************************************************)
ReadyPollReturns == cause = "deadline" => ~ ready
=============================================================================
