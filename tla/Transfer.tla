------------------------------ MODULE Transfer ------------------------------
(***************************************************************************)
(* What a call through an import does to resources (handle_workload_import *)
(* in engine/mod.rs, lower and lift in engine/workload/value.rs).  Every   *)
(* instance has a store with a resource table.  Host resources that are    *)
(* passed by value, pollables, streams and TCP sockets, are deleted from   *)
(* one table and pushed to the other.  A resource of the callee's own      *)
(* stays in the callee's store, and the caller gets an entry that refers   *)
(* to it; it is of use only in the store that made it, and the next call   *)
(* may be given another store of the pool.                                 *)
(*                                                                         *)
(* Dispatch has the life of a call; here are one caller, its calls one     *)
(* after the other, and the stores of the workload that it calls.          *)
(***************************************************************************)
EXTENDS Integers, SequencesExt, FiniteSetsExt

CONSTANTS
  Res,        \* host resources
  Rep,        \* resources of the callee's own
  Store,      \* stores of the callee
  Caller,     \* the store of the caller
  PoolSize,   \* how many stores the pool keeps
  MaxArgs     \* how many resources a call passes or returns

ASSUME TransferAssumption ==
  /\ Res \cap Rep = {}
  /\ Caller \notin Store
  /\ PoolSize \in Nat /\ MaxArgs \in Nat

VARIABLES
  table,    \* the host resources in the table of each store
  maker,    \* the store that made each resource of the callee's, or Caller
  held,     \* those that the caller has an entry for
  status,   \* what each store of the callee is used for
  call,     \* the call of the caller: nothing, a store lent, a guest that runs
  caller    \* "running", or "trapped" once a call has failed

transferVars == <<table, maker, held, status, call, caller>>

Arg == [what : Res \cup Rep, owned : BOOLEAN]
NoCall == [at |-> "none", store |-> Caller, args |-> <<>>]

TransferTypeOK ==
  /\ table \in [Store \cup {Caller} -> SUBSET Res]
  /\ maker \in [Rep -> Store \cup {Caller}]
  /\ held \subseteq Rep
  /\ status \in [Store -> {"unused", "pooled", "called", "elsewhere", "dropped"}]
  /\ call.at \in {"none", "lent", "run", "results"}
  /\ call.store \in Store \cup {Caller}
  /\ call.args \in Seq(Arg)
  /\ caller \in {"running", "trapped"}

TransferInit ==
  /\ table = [s \in Store \cup {Caller} |-> IF s = Caller THEN Res ELSE {}]
  /\ maker = [r \in Rep |-> Caller]
  /\ held = {}
  /\ status = [s \in Store |-> "unused"]
  /\ call = NoCall
  /\ caller = "running"

Pooled == {s \in Store : status[s] = "pooled"}

\* Dropping a store drops what is in its table and its instance.
Drop(s, t) == [t EXCEPT ![s] = {}]

Discard(s, t) ==
  status' = [status EXCEPT ![s] = "dropped"] /\ table' = Drop(s, t)

(***************************************************************************)
(* The store goes back to the pool, or is dropped when the pool is full.   *)
(***************************************************************************)
GiveBack(s, t) ==
  IF Cardinality(Pooled) < PoolSize
  THEN status' = [status EXCEPT ![s] = "pooled"] /\ table' = t
  ELSE Discard(s, t)

-----------------------------------------------------------------------------
(***************************************************************************)
(* The workload offers a store of its pool, or a new one if the pool is    *)
(* empty, with an instance in it.                                          *)
(***************************************************************************)
Offer(s) ==
  /\ caller = "running" /\ call.at = "none"
  /\ s \in Pooled \/ (Pooled = {} /\ status[s] = "unused")
  /\ status' = [status EXCEPT ![s] = "called"]
  /\ call' = [NoCall EXCEPT !.at = "lent", !.store = s]
  /\ UNCHANGED <<table, maker, held, caller>>

\* What the caller's guest can pass: what it has, each thing once.
CanPass(args) ==
  /\ \A i \in DOMAIN args : args[i].what \in table[Caller] \cup held
  /\ \A i, j \in DOMAIN args : args[i].what = args[j].what => i = j

(***************************************************************************)
(* Lowering goes through the arguments in order and stops at the first     *)
(* host resource that is borrowed ("TODO").  What it has moved by then is  *)
(* in the store of the callee, which is dropped.                           *)
(***************************************************************************)
NotLowered(args) ==
  {i \in DOMAIN args : args[i].what \in Res /\ ~ args[i].owned}

Moved(args, n) == {args[i].what : i \in {j \in 1 .. n : args[j].owned}}

\* Deleted from one table and pushed to the other.
Move(from, to, what) ==
  [table EXCEPT ![from] = @ \ what, ![to] = @ \cup (what \cap Res)]

\* Mutant: the resource is copied to the target's table, not moved.
LowerCopies(args) ==
  /\ call.at = "lent" /\ caller = "running" /\ CanPass(args)
  /\ NotLowered(args) = {}
  /\ table' = [table EXCEPT ![call.store] =
                 @ \cup (Moved(args, Len(args)) \cap Res)]
  /\ held' = held \ Moved(args, Len(args))
  /\ call' = [call EXCEPT !.at = "run", !.args = args]
  /\ UNCHANGED <<maker, status, caller>>

Lower(args) ==
  /\ call.at = "lent" /\ caller = "running" /\ CanPass(args)
  /\ LET failed == NotLowered(args)
         n == IF failed = {} THEN Len(args) ELSE Min(failed) - 1
         lowered == Move(Caller, call.store, Moved(args, n))
     IN /\ held' = held \ Moved(args, n)
        /\ \/ /\ failed = {}
              /\ table' = lowered
              /\ call' = [call EXCEPT !.at = "run", !.args = args]
              /\ UNCHANGED <<status, caller>>
           \/ /\ failed # {}
              /\ Discard(call.store, lowered)
              /\ call' = NoCall
              /\ caller' = "trapped"
  /\ UNCHANGED maker

(***************************************************************************)
(* The call fails when the guest traps, and before it runs when it is      *)
(* given a resource that another store made.  The store is pooled all the  *)
(* same, with everything that was moved into it.                           *)
(***************************************************************************)
Foreign(args) ==
  {i \in DOMAIN args : args[i].what \in Rep /\ maker[args[i].what] # call.store}

GuestFails ==
  /\ call.at \in {"run", "results"}
  /\ GiveBack(call.store, table)
  /\ call' = NoCall
  /\ caller' = "trapped"
  /\ UNCHANGED <<maker, held>>

(***************************************************************************)
(* The guest calls a host function that panics: its task drops the store.  *)
(***************************************************************************)
GuestPanics ==
  /\ call.at = "run" /\ Foreign(call.args) = {}
  /\ Discard(call.store, table)
  /\ call' = NoCall
  /\ caller' = "trapped"
  /\ UNCHANGED <<maker, held>>

GuestMakes(r) ==
  /\ call.at = "run" /\ Foreign(call.args) = {}
  /\ maker[r] = Caller
  /\ maker' = [maker EXCEPT ![r] = call.store]
  /\ UNCHANGED <<table, held, status, call, caller>>

GuestDrops(r) ==
  /\ call.at = "run" /\ Foreign(call.args) = {}
  /\ r \in table[call.store]
  /\ table' = [table EXCEPT ![call.store] = @ \ {r}]
  /\ UNCHANGED <<maker, held, status, call, caller>>

GuestReturns(results) ==
  /\ call.at = "run" /\ Foreign(call.args) = {}
  /\ \A i \in DOMAIN results :
       /\ results[i].owned
       /\ \/ results[i].what \in table[call.store]
          \/ results[i].what \in Rep \ held /\ maker[results[i].what] = call.store
  /\ \A i, j \in DOMAIN results : results[i].what = results[j].what => i = j
  /\ call' = [call EXCEPT !.at = "results", !.args = results]
  /\ UNCHANGED <<table, maker, held, status, caller>>

(***************************************************************************)
(* Lifting moves the results the other way, and the store goes back.       *)
(***************************************************************************)
Lift ==
  /\ call.at = "results"
  /\ LET moved == Moved(call.args, Len(call.args)) IN
       /\ GiveBack(call.store, Move(call.store, Caller, moved))
       /\ held' = held \cup (moved \cap Rep)
  /\ call' = NoCall
  /\ UNCHANGED <<maker, caller>>

(***************************************************************************)
(* The destructor of the entry does nothing: the resource stays where it   *)
(* is.                                                                     *)
(***************************************************************************)
CallerDrops(r) ==
  /\ caller = "running" /\ call.at = "none" /\ r \in held
  /\ held' = held \ {r}
  /\ UNCHANGED <<table, maker, status, call, caller>>

(***************************************************************************)
(* Calls of other callers take stores of the pool and give them back, or   *)
(* drop them when they fail.                                               *)
(***************************************************************************)
TakenElsewhere(s) ==
  /\ s \in Pooled
  /\ status' = [status EXCEPT ![s] = "elsewhere"]
  /\ UNCHANGED <<table, maker, held, call, caller>>

BackFromElsewhere(s) ==
  /\ status[s] = "elsewhere"
  /\ GiveBack(s, table) \/ Discard(s, table)
  /\ UNCHANGED <<maker, held, call, caller>>

-----------------------------------------------------------------------------
TransferNext ==
  \/ \E s \in Store : Offer(s) \/ TakenElsewhere(s) \/ BackFromElsewhere(s)
  \/ \E args \in BoundedSeq(Arg, MaxArgs) : Lower(args) \/ GuestReturns(args)
  \/ \E r \in Rep : GuestMakes(r) \/ CallerDrops(r)
  \/ \E r \in Res : GuestDrops(r)
  \/ GuestFails \/ GuestPanics \/ Lift

TransferSpec == TransferInit /\ [][TransferNext]_transferVars

-----------------------------------------------------------------------------
InTables == UNION {table[s] : s \in Store \cup {Caller}}

Dropped == {s \in Store : status[s] = "dropped"}

(***************************************************************************)
(* A host resource is never in two tables, so that no two guests use one   *)
(* socket or stream as their own; and a call loses no resource on the way  *)
(* there or back, unless it fails or the store that has it is dropped.     *)
(***************************************************************************)
MovedOnce ==
  /\ [](\A s, t \in Store \cup {Caller} : s # t => table[s] \cap table[t] = {})
  /\ [][call' # call /\ caller' = "running" /\ Dropped' = Dropped
          => InTables' = InTables]_transferVars
=============================================================================
