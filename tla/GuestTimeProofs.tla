-------------------------- MODULE GuestTimeProofs --------------------------
(***************************************************************************)
(* Proofs about GuestTime, for every slice, grace period and execution     *)
(* time.  The time that a guest is still entitled to is spread over its    *)
(* budget, the slice that runs and, while the guest yields, the slice that *)
(* has been granted; the inductive invariant bounds their sum from below   *)
(* (Funded) and from above (Spent, Lateness).                              *)
(***************************************************************************)
EXTENDS GuestTime, TLAPS

\* The epoch in which the slice ends that the guest has been given.
SliceEnd == IF guest = "yielded" THEN epoch + grant ELSE check

\* Epochs fall behind the clock, never ahead of it.
ClockInv == epoch <= now - Born

(***************************************************************************)
(* What is left of slice and budget reaches to the end of the execution    *)
(* time or, after an override, to the deadline of the shutdown.            *)
(***************************************************************************)
Funded ==
  limited =>
    \/ HasLimit /\ SliceEnd + budget >= execTime
    \/ stopAt > 0 /\ SliceEnd + budget + (now - epoch) >= stopAt

\* Ctx::deadline is the end of the execution time, or a shutdown deadline.
DeadlineInv ==
  /\ deadline > 0 => \/ HasLimit /\ deadline >= Born + execTime
                     \/ stopAt > 0 /\ deadline >= stopAt
  /\ guest = "spinning" => deadline > 0

\* What the guest has computed and may still compute is within its limit.
Spent ==
  HasLimit /\ stopAt = 0 =>
    /\ limited
    /\ guest = "yielded" => ran + grant + budget <= execTime
    /\ guest # "yielded" => /\ ran + budget <= execTime
                            /\ ran + (check - epoch) + budget <= execTime

\* After the deadline of a shutdown no slice is granted any more.
Lateness ==
  /\ late > 0 => stopAt > 0 /\ now >= stopAt /\ guest # "yielded"
  /\ guest # "yielded" => late + (check - epoch) <= Slice
  /\ late <= Slice

IInv ==
  TypeOK /\ ClockInv /\ Funded /\ DeadlineInv /\ Spent /\ Lateness /\ NeverEarly

-----------------------------------------------------------------------------
(***************************************************************************)
(* A slice is a part of the time it is taken from: checked_sub never       *)
(* underflows.                                                             *)
(***************************************************************************)
LEMMA SliceFits ==
  ASSUME NEW time \in Nat
  PROVE  /\ SliceOf(time) \in 0 .. Slice
         /\ SliceOf(time) <= time
         /\ time - SliceOf(time) \in Nat
         /\ time > 0 => SliceOf(time) > 0
BY TimeAssumption DEF SliceOf

\* The numbers of a state, for the steps that calculate with them.
LEMMA Numbers ==
  ASSUME TypeOK
  PROVE  /\ now \in Nat /\ epoch \in Nat /\ budget \in Nat /\ check \in Nat
         /\ grant \in Nat /\ grant <= Slice /\ deadline \in Nat
         /\ stopAt \in Nat /\ ran \in Nat /\ late \in Nat
         /\ HasLimit => execTime \in Nat
         /\ Slice \in Nat /\ Slice > 0
BY TimeAssumption DEF TypeOK, HasLimit, NoLimit

\* A store that new_store has just made has its whole time before it.
LEMMA InitIInv == Init => IInv
<1> SUFFICES ASSUME Init PROVE IInv
  OBVIOUS
<1>1. HasLimit => execTime \in Nat
  BY TimeAssumption DEF Init, HasLimit, NoLimit
<1>2. limited \in BOOLEAN /\ open \in BOOLEAN /\ ready \in BOOLEAN
  BY Zenon DEF Init, HasLimit
<1>3. CASE HasLimit
  <2>1. /\ SliceOf(execTime) \in 0 .. Slice
        /\ execTime - SliceOf(execTime) \in Nat
    BY <1>1, <1>3, SliceFits
  <2>2. check = SliceOf(execTime) /\ budget = execTime - SliceOf(execTime)
        /\ limited /\ deadline = 1 + execTime
    BY <1>3 DEF Init, Born
  <2>3. TypeOK
    <3>1. check \in Nat /\ budget \in Nat /\ deadline \in Nat
      BY <1>1, <1>3, <2>1, <2>2, TimeAssumption
    <3>2. /\ now = 1 /\ epoch = 0 /\ guest = "running" /\ cause = "none"
          /\ execTime \in ExecTimes \cup {NoLimit} /\ grant = 0
          /\ stopAt = 0
          /\ begun = 1 /\ ran = 0 /\ late = 0
      BY DEF Init, Born
    <3> QED
      BY <1>2, <3>1, <3>2, TimeAssumption DEF TypeOK, Guests, Causes
  <2> QED
    BY <1>1, <1>3, <2>1, <2>2, <2>3, TimeAssumption
    DEF Init, IInv, ClockInv, Funded, SliceEnd, DeadlineInv, Spent, Lateness,
        NeverEarly, Born
<1>4. CASE ~ HasLimit
  <2>1. check = Slice /\ budget = 0 /\ ~ limited /\ deadline = 0
    BY <1>4 DEF Init
  <2>2. TypeOK
    <3>1. check \in Nat /\ budget \in Nat /\ deadline \in Nat
      BY <2>1, TimeAssumption
    <3>2. /\ now = 1 /\ epoch = 0 /\ guest = "running" /\ cause = "none"
          /\ execTime \in ExecTimes \cup {NoLimit} /\ grant = 0
          /\ stopAt = 0
          /\ begun = 1 /\ ran = 0 /\ late = 0
      BY DEF Init, Born
    <3> QED
      BY <1>2, <3>1, <3>2, TimeAssumption DEF TypeOK, Guests, Causes
  <2> QED
    BY <1>4, <2>1, <2>2, TimeAssumption
    DEF Init, IInv, ClockInv, Funded, SliceEnd, DeadlineInv, Spent, Lateness,
        NeverEarly, Born
<1> QED
  BY <1>3, <1>4

-----------------------------------------------------------------------------
\* A turn of the epoch thread.
LEMMA TickKeeps == IInv /\ Tick => IInv'
<1> SUFFICES ASSUME IInv, Tick PROVE IInv'
  OBVIOUS
<1>1. /\ TypeOK /\ ClockInv /\ Funded /\ DeadlineInv
      /\ Spent /\ Lateness /\ NeverEarly
  BY DEF IInv
<1>2. PICK turn \in 1 .. MaxTurn : now' = now + turn
  BY DEF Tick
<1>3. now' \in Nat /\ now' >= now + 1 /\ epoch' = epoch + 1 /\ epoch' \in Nat
  BY <1>1, <1>2, Numbers, TimeAssumption DEF Tick
<1>4. UNCHANGED <<execTime, guest, cause, limited, budget, check, grant,
                  deadline, stopAt, open, ready, begun>>
  BY DEF Tick, timing, channel
<1>5. guest = "running" => epoch < check
  BY <1>1, Numbers DEF Tick, Due
<1>6. /\ ran' = (IF guest = "running" THEN ran + 1 ELSE ran)
      /\ late' = (IF guest = "running" /\ stopAt > 0 /\ now >= stopAt
                  THEN late + 1 ELSE late)
  BY DEF Tick
<1>7. TypeOK'
  BY <1>1, <1>3, <1>4, <1>6 DEF TypeOK
<1>8. HasLimit' <=> HasLimit
  BY <1>4 DEF HasLimit
<1>9. ClockInv'
  BY <1>1, <1>3, Numbers DEF ClockInv, Born
<1>10. DeadlineInv'
  BY <1>1, <1>4, <1>8 DEF DeadlineInv
<1>11. NeverEarly'
  BY <1>1, <1>3, <1>4, <1>8, Numbers DEF NeverEarly, Born
<1>12. Funded'
  BY <1>1, <1>3, <1>4, <1>8, Numbers DEF Funded, SliceEnd
<1>13. Spent'
  BY <1>1, <1>3, <1>4, <1>5, <1>6, <1>8, Numbers DEF Spent
<1>14. Lateness'
  BY <1>1, <1>3, <1>4, <1>5, <1>6, Numbers DEF Lateness
<1> QED
  BY <1>7, <1>9, <1>10, <1>11, <1>12, <1>13, <1>14 DEF IInv

\* The callback traps only a guest that has used up what it was funded.
LEMMA CallbackTrapsKeeps == IInv /\ CallbackTraps => IInv'
<1> SUFFICES ASSUME IInv, CallbackTraps PROVE IInv'
  OBVIOUS
<1>1. HasLimit => execTime \in Nat
  BY Numbers DEF IInv
<1>2. guest = "running" /\ epoch >= check /\ guest' = "trapped"
  BY DEF CallbackTraps, Due, Trap
<1>3. UNCHANGED <<now, epoch, execTime, limited, budget, check, grant,
                  deadline, stopAt, open, ready, begun, ran, late>>
  BY DEF CallbackTraps, clock, timing, channel, history
<1>4. /\ cause' \in {"budget", "forced", "grace"}
      /\ cause' = "budget" => limited /\ budget = 0
      /\ cause' = "grace" => stopAt > 0 /\ now >= stopAt
  BY DEF CallbackTraps, OutOfBudget, Trap
<1>5. NeverEarly'
  BY <1>1, <1>2, <1>3, <1>4
  DEF IInv, TypeOK, ClockInv, Funded, SliceEnd, NeverEarly, HasLimit, Born
<1>6. TypeOK'
  BY <1>2, <1>3, <1>4 DEF IInv, TypeOK, Guests, Causes
<1> QED
  BY <1>1, <1>2, <1>3, <1>5, <1>6
  DEF IInv, TypeOK, ClockInv, Funded, SliceEnd, DeadlineInv, Spent, Lateness,
      HasLimit

\* A slice moves from the budget to the grant.
LEMMA CallbackGrantsKeeps == IInv /\ CallbackGrants => IInv'
<1> SUFFICES ASSUME IInv, CallbackGrants PROVE IInv'
  OBVIOUS
<1>1. /\ TypeOK /\ ClockInv /\ Funded /\ DeadlineInv
      /\ Spent /\ Lateness /\ NeverEarly
  BY DEF IInv
<1>2. guest = "running" /\ epoch >= check /\ guest' = "yielded" /\ stopAt = 0
  BY DEF CallbackGrants, Due, Yield
<1>3. UNCHANGED <<now, epoch, execTime, cause, limited, check, deadline,
                  stopAt, open, ready, begun, ran, late>>
  BY DEF CallbackGrants, Yield, clock, channel, history
<1>4. Funded' /\ Spent' /\ budget' \in Nat /\ grant' \in 0 .. Slice
  <2>1. CASE limited
    <3>1. budget' = budget - SliceOf(budget) /\ grant' = SliceOf(budget)
      BY <2>1 DEF CallbackGrants, Yield
    <3>2. budget' \in Nat /\ grant' \in 0 .. Slice /\ budget' + grant' = budget
      BY <1>1, <3>1, SliceFits, Numbers
    <3>3. Funded'
      BY <1>1, <1>2, <1>3, <2>1, <3>2, Numbers DEF Funded, SliceEnd, HasLimit
    <3>4. Spent'
      BY <1>1, <1>2, <1>3, <3>2, Numbers DEF Spent, HasLimit
    <3> QED
      BY <3>2, <3>3, <3>4
  <2>2. CASE ~ limited
    <3>1. budget' = budget /\ grant' = Slice
      BY <2>2 DEF CallbackGrants, Yield
    <3>2. Funded' /\ Spent'
      BY <1>1, <1>2, <1>3, <2>2 DEF Funded, Spent, HasLimit
    <3> QED
      BY <1>1, <3>1, <3>2, Numbers
  <2> QED
    BY <2>1, <2>2
<1>5. TypeOK'
  BY <1>1, <1>2, <1>3, <1>4 DEF TypeOK, Guests
<1>6. ClockInv' /\ DeadlineInv' /\ NeverEarly'
  BY <1>1, <1>2, <1>3 DEF ClockInv, DeadlineInv, NeverEarly, HasLimit
<1>7. Lateness'
  BY <1>1, <1>2, <1>3, Numbers DEF Lateness
<1> QED
  BY <1>4, <1>5, <1>6, <1>7 DEF IInv

\* The override funds the guest up to the deadline of the shutdown.
LEMMA CallbackOverridesKeeps == IInv /\ CallbackOverrides => IInv'
<1> SUFFICES ASSUME IInv, CallbackOverrides PROVE IInv'
  OBVIOUS
<1>1. HasLimit => execTime \in Nat
  BY Numbers DEF IInv
<1>2. /\ guest = "running" /\ guest' = "yielded" /\ limited' = TRUE
      /\ stopAt > now /\ stopAt > 0
  BY DEF CallbackOverrides, Due, Yield, IInv, TypeOK
<1>3. UNCHANGED <<now, epoch, execTime, cause, check, deadline,
                  stopAt, open, ready, begun, ran, late>>
  BY DEF CallbackOverrides, Yield, clock, channel, history
<1>4. stopAt - now \in Nat
  BY <1>2 DEF IInv, TypeOK
<1>5. budget' \in Nat /\ grant' \in 0 .. Slice /\ budget' + grant' = stopAt - now
  <2>1. /\ budget' = stopAt - now - SliceOf(stopAt - now)
        /\ grant' = SliceOf(stopAt - now)
    BY DEF CallbackOverrides, Yield
  <2> QED
    BY <1>4, <2>1, SliceFits, TimeAssumption
<1>6. TypeOK'
  <2>1. limited' \in BOOLEAN
    BY <1>2, Zenon
  <2>2. guest' = "yielded"
    BY <1>2
  <2> QED
    BY <1>3, <1>5, <2>1, <2>2 DEF IInv, TypeOK, Guests
<1>7. ClockInv' /\ DeadlineInv' /\ NeverEarly'
  <2>1. guest' = "yielded"
    BY <1>2
  <2> QED
    BY <1>3, <2>1 DEF IInv, ClockInv, DeadlineInv, NeverEarly, HasLimit
<1>8. Funded'
  <2>1. guest' = "yielded" /\ stopAt > 0
    BY <1>2
  <2>2. TypeOK
    BY DEF IInv
  <2> QED
    BY <1>3, <1>5, <2>1, <2>2, Numbers DEF Funded, SliceEnd
<1>9. Spent'
  BY <1>2, <1>3 DEF Spent
<1>10. Lateness'
  BY <1>2, <1>3, TimeAssumption DEF IInv, TypeOK, Lateness
<1> QED
  BY <1>6, <1>7, <1>8, <1>9, <1>10 DEF IInv

\* The grant becomes the slice that runs.
LEMMA ResumeKeeps == IInv /\ Resume => IInv'
<1> SUFFICES ASSUME IInv, Resume PROVE IInv'
  OBVIOUS
<1>1. HasLimit => execTime \in Nat
  BY Numbers DEF IInv
<1>2. guest = "yielded" /\ guest' = "running" /\ check' = epoch + grant
  BY DEF Resume
<1>3. UNCHANGED <<now, epoch, execTime, cause, limited, budget, grant, deadline,
                  stopAt, open, ready, begun, ran, late>>
  BY DEF Resume, clock, channel, history
<1>4. TypeOK'
  BY <1>2, <1>3, TimeAssumption DEF IInv, TypeOK, Guests
<1> QED
  BY <1>1, <1>2, <1>3, <1>4, TimeAssumption
  DEF IInv, TypeOK, ClockInv, Funded, SliceEnd, DeadlineInv, Spent, Lateness,
      NeverEarly, HasLimit

-----------------------------------------------------------------------------
\* The deadline that an iteration of the loop of poll works with.
LEMMA PollDeadlineSound ==
  ASSUME IInv
  PROVE  /\ PollDeadline \in Nat
         /\ PollDeadline > 0 => \/ HasLimit /\ PollDeadline >= Born + execTime
                                \/ stopAt > 0 /\ PollDeadline >= stopAt
         /\ stopAt > 0 => PollDeadline > 0
BY DEF IInv, TypeOK, DeadlineInv, PollDeadline

\* The guest waits, spins or traps at the deadline of poll.
LEMMA LoopKeeps ==
  ASSUME IInv, Loop, guest \in {"running", "polling"}, ready' \in BOOLEAN
  PROVE  IInv'
<1>1. HasLimit => execTime \in Nat
  BY Numbers DEF IInv
<1>2. UNCHANGED <<now, epoch, execTime, limited, budget, check, grant,
                  stopAt, open, begun, ran, late>>
  BY DEF Loop, clock, channel, history
<1>3. /\ deadline' = PollDeadline
      /\ guest' \in {"trapped", "polling", "spinning"}
      /\ guest' = "spinning" => stopAt > 0
      /\ cause' \in {cause, "deadline", "forced"}
      /\ cause' # cause /\ cause' = "deadline" =>
           PollDeadline > 0 /\ now >= PollDeadline
  BY DEF Loop, Trap
<1>4. TypeOK'
  BY <1>2, <1>3, PollDeadlineSound DEF IInv, TypeOK, Guests, Causes
<1>5. DeadlineInv'
  BY <1>2, <1>3, PollDeadlineSound DEF IInv, TypeOK, DeadlineInv, HasLimit
<1>6. NeverEarly'
  BY <1>1, <1>2, <1>3, PollDeadlineSound
  DEF IInv, TypeOK, NeverEarly, HasLimit, Born
<1> QED
  BY <1>1, <1>2, <1>3, <1>4, <1>5, <1>6
  DEF IInv, TypeOK, ClockInv, Funded, SliceEnd, Spent, Lateness, HasLimit

\* The steps that change nothing but where the guest is.
LEMMA MoveKeeps ==
  ASSUME IInv,
         UNCHANGED <<now, epoch, execTime, cause, limited, budget, check, grant,
                     deadline, stopAt, ran, late>>,
         guest # "yielded", guest' \in Guests \ {"yielded"},
         guest' # "spinning" \/ guest = "spinning",
         ready' \in BOOLEAN, begun' \in Nat, open' \in BOOLEAN
  PROVE  IInv'
<1>1. HasLimit => execTime \in Nat
  BY Numbers DEF IInv
<1>2. TypeOK'
  BY DEF IInv, TypeOK
<1> QED
  BY <1>1, <1>2
  DEF IInv, TypeOK, ClockInv, Funded, SliceEnd, DeadlineInv, Spent, Lateness,
      NeverEarly, HasLimit

\* wasi:io/poll.
LEMMA PollKeeps == IInv /\ Poll => IInv'
<1> SUFFICES ASSUME IInv, Poll PROVE IInv'
  OBVIOUS
<1>1. CASE EnterPoll
  BY <1>1, LoopKeeps DEF EnterPoll
<1>2. CASE EventOccurs
  BY <1>2, MoveKeeps
  DEF EventOccurs, IInv, TypeOK, Guests, clock, timing, channel, history
<1>3. CASE PollReturns
  BY <1>3, MoveKeeps
  DEF PollReturns, IInv, TypeOK, Guests, clock, timing, channel, history
<1>4. CASE Wake
  <2>1. ready' \in BOOLEAN /\ Loop /\ guest = "polling"
    BY <1>4 DEF Wake, IInv, TypeOK
  <2> QED
    BY <2>1, LoopKeeps
<1>5. CASE Spin
  <2>1. HasLimit => execTime \in Nat
    BY Numbers DEF IInv
  <2>2. /\ guest = "spinning" /\ now >= deadline
        /\ guest' = "trapped" /\ cause' = "deadline"
    BY <1>5 DEF Spin, SpinEnds, Trap
  <2>3. UNCHANGED <<now, epoch, execTime, limited, budget, check, grant,
                    deadline, stopAt, open, ready, begun, ran, late>>
    BY <1>5 DEF Spin, clock, timing, channel, history
  <2>4. TypeOK'
    BY <2>2, <2>3 DEF IInv, TypeOK, Guests, Causes
  <2>5. NeverEarly'
    BY <2>1, <2>2, <2>3 DEF IInv, TypeOK, DeadlineInv, NeverEarly, HasLimit, Born
  <2> QED
    BY <2>1, <2>2, <2>3, <2>4, <2>5
    DEF IInv, TypeOK, ClockInv, Funded, SliceEnd, DeadlineInv, Spent, Lateness,
        HasLimit
<1> QED
  BY <1>1, <1>2, <1>3, <1>4, <1>5 DEF Poll

\* The invocation ends, and the pooled store serves another one.
LEMMA PoolKeeps == IInv /\ (Return \/ Reuse) => IInv'
<1> SUFFICES ASSUME IInv, Return \/ Reuse PROVE IInv'
  OBVIOUS
<1>1. CASE Return
  BY <1>1, MoveKeeps
  DEF Return, IInv, TypeOK, Guests, clock, timing, channel, history
<1>2. CASE Reuse
  BY <1>2, MoveKeeps
  DEF Reuse, IInv, TypeOK, Guests, clock, timing, channel
<1> QED
  BY <1>1, <1>2

\* The engine asks for shutdown.
LEMMA ShutdownKeeps == IInv /\ (SendDeadline \/ DropSender) => IInv'
<1> SUFFICES ASSUME IInv, SendDeadline \/ DropSender PROVE IInv'
  OBVIOUS
<1>1. HasLimit => execTime \in Nat
  BY Numbers DEF IInv
<1>2. UNCHANGED <<now, epoch, execTime, guest, cause, limited, budget, check,
                  grant, deadline, ready, begun, ran, late>>
  BY DEF SendDeadline, DropSender, clock, timing, history
<1>3. stopAt = 0 /\ stopAt' \in Nat
  BY Numbers, TimeAssumption DEF SendDeadline, DropSender, IInv
<1>4. open' \in BOOLEAN
  BY DEF SendDeadline, DropSender, IInv, TypeOK
<1>5. TypeOK'
  BY <1>2, <1>3, <1>4 DEF IInv, TypeOK
<1> QED
  BY <1>1, <1>2, <1>3, <1>5
  DEF IInv, TypeOK, ClockInv, Funded, SliceEnd, DeadlineInv, Spent, Lateness,
      NeverEarly, HasLimit

-----------------------------------------------------------------------------
\* Every step keeps the invariant.
LEMMA NextIInv == IInv /\ [Next]_vars => IInv'
<1> SUFFICES ASSUME IInv, [Next]_vars PROVE IInv'
  OBVIOUS
<1>1. CASE Tick
  BY <1>1, TickKeeps
<1>2. CASE Callback
  BY <1>2, CallbackTrapsKeeps, CallbackGrantsKeeps, CallbackOverridesKeeps,
     ResumeKeeps DEF Callback
<1>3. CASE Poll
  BY <1>3, PollKeeps
<1>4. CASE Return \/ Reuse
  BY <1>4, PoolKeeps
<1>5. CASE SendDeadline \/ DropSender
  BY <1>5, ShutdownKeeps
<1>6. CASE UNCHANGED vars
  BY <1>6
  DEF vars, IInv, TypeOK, ClockInv, Funded, SliceEnd, DeadlineInv, Spent,
      Lateness, NeverEarly, HasLimit
<1> QED
  BY <1>1, <1>2, <1>3, <1>4, <1>5, <1>6 DEF Next

\* The invariant holds in every reachable state.
LEMMA AlwaysIInv == Spec => []IInv
BY InitIInv, NextIInv, PTL DEF Spec

(***************************************************************************)
(* Type correctness: in particular no subtraction of new_store or its      *)
(* callback underflows, so that the budget stays a natural number.         *)
(***************************************************************************)
THEOREM TypeCorrect == Spec => []TypeOK
<1>1. IInv => TypeOK
  BY DEF IInv
<1> QED
  BY <1>1, AlwaysIInv, PTL

\* No guest is cut off before the deadline of its store or of a shutdown.
THEOREM GuestsNeverCutEarly == Spec => []NeverEarly
<1>1. IInv => NeverEarly
  BY DEF IInv
<1> QED
  BY <1>1, AlwaysIInv, PTL

\* A guest that computes is stopped by its limit, and by a shutdown.
THEOREM GuestsStopped == Spec => []ComputesWithinLimits
<1>1. IInv => ComputesWithinLimits
  <2> SUFFICES ASSUME IInv PROVE ComputesWithinLimits
    OBVIOUS
  <2>1. HasLimit => execTime \in Nat
    BY Numbers DEF IInv
  <2> QED
    BY <2>1 DEF IInv, TypeOK, Spent, Lateness, ComputesWithinLimits
<1> QED
  BY <1>1, AlwaysIInv, PTL
=============================================================================
