----------------------------- MODULE Pollables -----------------------------
(***************************************************************************)
(* The task of a guest that waits for pollables (engine/wasi/io/mod.rs and *)
(* engine/wasi/io/poll.rs).  A host function that waits polls what it      *)
(* waits for, leaves a waker with those that are not ready, and is polled  *)
(* again when one of them wakes the task.                                  *)
(*                                                                         *)
(* A waker lasts as long as the future that registered it.  pollable.block *)
(* and the blocking calls of streams await one future until it is ready.   *)
(* poll calls Pollable::poll, which for a stream makes a future, polls it  *)
(* and drops it: tokio takes the waker of a dropped Readiness off its      *)
(* list, so that the stream wakes nobody.  A socket and a sleep keep the   *)
(* future, or the slot for the waker, in their own state.                  *)
(***************************************************************************)
EXTENDS FiniteSets

VARIABLES
  guest,    \* it runs, works in a blocking call, or waits for a waker
  on,       \* the pollables that it waits for
  armed,    \* those of them that hold a waker of the task
  woken     \* the task was woken and is about to be polled

taskVars == <<guest, on, armed, woken>>

Streams == {"readable", "writable"}
Pollable == {"socket"} \cup Streams

Waiting == guest \in {"blocking", "polling"}

PollablesTypeOK ==
  /\ guest \in {"running", "working", "blocking", "polling"}
  /\ on \subseteq Pollable
  /\ armed \subseteq on
  /\ woken \in BOOLEAN
  /\ on # {} <=> Waiting

PollablesInit ==
  /\ guest = "running"
  /\ on = {} /\ armed = {}
  /\ woken = FALSE

\* The pollables whose waker outlives the poll.
Kept(how) == IF how = "blocking" THEN Pollable ELSE Pollable \ Streams

\* Mutant: pollable.block polls a fresh future every time, as poll does.
SuspendDropping(how, ps) ==
  /\ guest' = how
  /\ on' = ps
  /\ armed' = ps \ Streams
  /\ woken' = FALSE

\* Nothing in ps is ready: the task is suspended.
Suspend(how, ps) ==
  /\ guest' = how
  /\ on' = ps
  /\ armed' = ps \cap Kept(how)
  /\ woken' = FALSE

\* Mutant: a blocking call returns when its task is woken.
ContinueInGuest(where) ==
  /\ guest' = "running"
  /\ on' = {} /\ armed' = {}
  /\ woken' = FALSE

\* The host function goes on, or returns to the guest.
Continue(where) ==
  /\ guest' = where
  /\ on' = {} /\ armed' = {}
  /\ woken' = FALSE

\* The I/O driver wakes whoever registered for these events.
Signal(ps) ==
  /\ woken' = (woken \/ armed \cap ps # {})
  /\ armed' = armed \ ps
  /\ UNCHANGED <<guest, on>>

\* Something else wakes the task: a deadline or the shutdown channel, both of
\* which are left to GuestTime, or the executor.
Nudge ==
  /\ Waiting /\ ~ woken
  /\ woken' = TRUE
  /\ UNCHANGED <<guest, on, armed>>
=============================================================================
