---------------------------- MODULE PartsProofs ----------------------------
(***************************************************************************)
(* Invariants of SocketOptions, Transfer, Reload and HttpFields, for any   *)
(* limits of the system and any size of a second, every set of resources,  *)
(* stores, manifests and versions, any number of changes, any names and    *)
(* values of headers and any finite table; and what they give for Parts.   *)
(***************************************************************************)
EXTENDS Parts, FiniteSums

(***************************************************************************)
(* SocketOptions.  What the kernel and the socket have is what the setters *)
(* made of the values asked for, a listener has the backlog of the socket, *)
(* and a socket in its first state has not been bound.                     *)
(***************************************************************************)
OptionTypes ==
  /\ option \in Option
  /\ bound \in {Unset, 0, 1}
  /\ asked \in [Setting -> Nat \cup {Unset}]

KernelAsAsked ==
  asked["option"] # Unset =>
    /\ asked["option"] > 0
    /\ option = "hop-limit" => asked["option"] <= MaxHops
    /\ kernel = SetSockOpt(option, NormalSet(option, asked["option"]))

BacklogAsAsked ==
  /\ asked["backlog"] # 0
  /\ backlog = IF asked["backlog"] = Unset THEN DefaultBacklog
               ELSE BacklogOf(asked["backlog"])
  /\ state \in Listener => queueSize = backlog

ReuseAsBound ==
  /\ state = "Default" => bound = Unset
  /\ bound # Unset => reuse = ReuseFor(bound)

OptionsInv == OptionTypes /\ KernelAsAsked /\ BacklogAsAsked /\ ReuseAsBound

LEMMA OptionsStart ==
  ASSUME OptionsInit
  PROVE  OptionsInv
<1> USE DEF OptionsInit, Unset
<1>1. asked["option"] = Unset /\ asked["backlog"] = Unset
  BY DEF Setting
<1>2. OptionTypes
  BY DEF OptionTypes
<1>3. KernelAsAsked /\ BacklogAsAsked
  BY <1>1 DEF KernelAsAsked, BacklogAsAsked, Listener
<1>4. ReuseAsBound
  BY DEF ReuseAsBound
<1> QED  BY <1>2, <1>3, <1>4 DEF OptionsInv

LEMMA OptionsStep ==
  ASSUME OptionsInv, [OptionsNext]_optionVars
  PROVE  OptionsInv'
<1> USE DEF OptionsInv
<1>1. CASE UNCHANGED optionVars
  BY <1>1
  DEF optionVars, OptionTypes, KernelAsAsked, BacklogAsAsked, ReuseAsBound
<1>2. ASSUME NEW v \in Argument, SetOption(v)
      PROVE  OptionsInv'
  <2>1. /\ v \in Nat /\ v # 0 /\ (option = "hop-limit" => v <= MaxHops)
        /\ kernel' = SetSockOpt(option, NormalSet(option, v))
        /\ asked' = [asked EXCEPT !["option"] = v]
        /\ UNCHANGED <<option, state, reuse, bound, backlog, queueSize>>
    BY <1>2, OptionsAssumption DEF SetOption
  <2>2. /\ asked' \in [Setting -> Nat \cup {Unset}]
        /\ asked'["option"] = v /\ asked'["backlog"] = asked["backlog"]
    BY <2>1 DEF OptionTypes, Setting
  <2>3. OptionTypes' /\ KernelAsAsked'
    BY <2>1, <2>2 DEF OptionTypes, KernelAsAsked
  <2>4. BacklogAsAsked' /\ ReuseAsBound'
    BY <2>1, <2>2 DEF BacklogAsAsked, ReuseAsBound
  <2> QED  BY <2>3, <2>4
<1>3. ASSUME NEW v \in Argument, SetListenBacklogSize(v)
      PROVE  OptionsInv'
  <2>1. /\ v \in Nat /\ v # 0 /\ backlog' = BacklogOf(v)
        /\ queueSize' = IF state \in Listener THEN BacklogOf(v) ELSE queueSize
        /\ asked' = [asked EXCEPT !["backlog"] = v]
        /\ UNCHANGED <<option, kernel, state, reuse, bound>>
    BY <1>3, OptionsAssumption DEF SetListenBacklogSize
  <2>2. /\ asked' \in [Setting -> Nat \cup {Unset}]
        /\ asked'["backlog"] = v /\ asked'["option"] = asked["option"]
    BY <2>1 DEF OptionTypes, Setting
  <2>3. OptionTypes' /\ KernelAsAsked' /\ ReuseAsBound'
    BY <2>1, <2>2 DEF OptionTypes, KernelAsAsked, ReuseAsBound
  <2>4. v # Unset
    BY <2>1 DEF Unset
  <2>5. BacklogAsAsked'
    BY <2>1, <2>2, <2>4 DEF BacklogAsAsked
  <2> QED  BY <2>3, <2>5
<1>4. ASSUME NEW port \in {0, 1}, StartBind(port)
      PROVE  OptionsInv'
  <2>1. /\ state = "Default" /\ reuse' = ReuseFor(port)
        /\ \/ state' = "BindStarted" /\ bound' = port
           \/ state' = "Default" /\ bound' = bound
        /\ UNCHANGED <<option, kernel, backlog, asked, queueSize>>
    BY <1>4 DEF StartBind, Enter
  <2>2. OptionTypes' /\ KernelAsAsked' /\ BacklogAsAsked'
    BY <2>1 DEF OptionTypes, KernelAsAsked, BacklogAsAsked, Listener
  <2>3. ReuseAsBound'
    BY <2>1 DEF ReuseAsBound
  <2> QED  BY <2>2, <2>3
<1>5. CASE FinishBind \/ StartListen \/ FinishListen \/ Connect
  <2>1. /\ state' # "Default"
        /\ UNCHANGED <<option, kernel, backlog, asked, reuse, bound>>
        /\ state' \in Listener =>
             \/ queueSize' = backlog
             \/ state \in Listener /\ queueSize' = queueSize
    BY <1>5
    DEF FinishBind, StartListen, FinishListen, Connect, Enter, ListenSize,
        Listener
  <2>2. OptionTypes' /\ KernelAsAsked'
    BY <2>1 DEF OptionTypes, KernelAsAsked
  <2>3. BacklogAsAsked' /\ ReuseAsBound'
    BY <2>1 DEF BacklogAsAsked, ReuseAsBound
  <2> QED  BY <2>2, <2>3
<1> QED  BY <1>1, <1>2, <1>3, <1>4, <1>5 DEF OptionsNext

(***************************************************************************)
(* There is one nearest value.                                             *)
(***************************************************************************)
IsNearest(v, values, x) ==
  \A y \in values : IF \E z \in values : z >= v
                    THEN x >= v /\ (y >= v => x <= y)
                    ELSE y <= x

LEMMA OneNearest ==
  ASSUME NEW values \in SUBSET Int, NEW v \in Int, NEW x \in values,
         IsNearest(v, values, x)
  PROVE  Nearest(v, values) = x
<1>1. ASSUME NEW y \in values, IsNearest(v, values, y)
      PROVE  y = x
  BY <1>1 DEF IsNearest
<1>2. Nearest(v, values) = CHOOSE y \in values : IsNearest(v, values, y)
  BY DEF Nearest, IsNearest
<1> HIDE DEF IsNearest
<1> QED  BY <1>1, <1>2

LEMMA ClampIsNearest ==
  ASSUME NEW v \in Nat, NEW low \in Nat, NEW high \in Nat, low <= high
  PROVE  Nearest(v, low .. high) = Clamp(v, low, high)
<1>1. Clamp(v, low, high) \in low .. high
  BY DEF Clamp
<1>2. IsNearest(v, low .. high, Clamp(v, low, high))
  <2>1. CASE v <= high
    <3>1. \E z \in low .. high : z >= v
      BY <2>1
    <3> QED  BY <2>1, <3>1 DEF IsNearest, Clamp
  <2>2. CASE v > high
    BY <2>2 DEF IsNearest, Clamp
  <2> QED  BY <2>1, <2>2
<1> QED  BY <1>1, <1>2, OneNearest

(***************************************************************************)
(* Rounding up to whole seconds.                                           *)
(***************************************************************************)
LEMMA RoundedUp ==
  ASSUME NEW v \in Nat, NEW s \in Nat \ {0}
  PROVE  LET q == (v + s - 1) \div s
         IN q \in Nat /\ q * s \in Nat /\ q * s >= v /\ q * s < v + s
  BY SMTT(30)

LEMMA Multiples ==
  ASSUME NEW s \in Nat \ {0}, NEW q \in Nat, NEW k \in Nat
  PROVE  /\ q <= k => q * s <= k * s
         /\ k < q => k * s + s <= q * s
<1>1. ASSUME q <= k  PROVE q * s <= k * s
  BY <1>1, SMTT(30)
<1>2. ASSUME k < q  PROVE k * s + s <= q * s
  <2>1. k + 1 <= q
    BY <1>2
  <2>2. (k + 1) * s <= q * s
    BY <2>1, SMTT(30)
  <2>3. (k + 1) * s = k * s + s
    BY SMTT(30)
  <2> QED  BY <2>2, <2>3
<1> QED  BY <1>1, <1>2

LEMMA SecondsAreNearest ==
  ASSUME NEW v \in Nat \ {0}, NEW s \in Nat \ {0}, NEW max \in Nat \ {0}
  PROVE  LET w == Clamp(v, s, max * s)
         IN Nearest(v, {k * s : k \in 1 .. max}) = ((w + s - 1) \div s) * s
<1> DEFINE w == Clamp(v, s, max * s)
           q == (w + s - 1) \div s
           values == {k * s : k \in 1 .. max}
<1>1. max * s \in Nat /\ s <= max * s
  <2>1. max * s \in Nat /\ 1 * s = s
    BY SMTT(30)
  <2> QED  BY <2>1, Multiples
<1>2. /\ w \in Nat /\ s <= w /\ w <= max * s
      /\ v <= max * s => v <= w /\ (w = v \/ w = s)
      /\ v > max * s => w = max * s
  BY <1>1 DEF Clamp
<1> HIDE DEF w
<1>3. q \in Nat /\ q * s \in Nat /\ q * s >= w /\ q * s < w + s
  BY <1>2, RoundedUp
<1> HIDE DEF q
<1>4. q \in 1 .. max
  <2>1. q # 0
    <3>1. 0 * s = 0
      BY SMTT(30)
    <3> QED  BY <1>2, <1>3, <3>1
  <2>2. q <= max
    <3>1. max < q => max * s + s <= q * s
      BY <1>3, Multiples
    <3> QED  BY <1>1, <1>2, <1>3, <3>1
  <2> QED  BY <1>3, <2>1, <2>2
<1>5. \A k \in 1 .. max : k * s \in Nat /\ k * s <= max * s
  <2> TAKE k \in 1 .. max
  <2>1. k \in Nat /\ k <= max
    OBVIOUS
  <2>2. k * s \in Nat
    BY <2>1, SMTT(30)
  <2> QED  BY <2>1, <2>2, Multiples
<1>6. \A k \in 1 .. max : k * s >= w => q * s <= k * s
  <2> TAKE k \in 1 .. max
  <2>1. k < q => k * s + s <= q * s
    BY <1>3, Multiples
  <2>2. q <= k => q * s <= k * s
    BY <1>3, Multiples
  <2> QED  BY <1>2, <1>3, <1>5, <2>1, <2>2
<1>7. values \in SUBSET Int /\ q * s \in values
  BY <1>4, <1>5
<1>8. IsNearest(v, values, q * s)
  <2>1. ASSUME v <= max * s, NEW k \in 1 .. max
        PROVE  q * s >= v /\ (k * s >= v => q * s <= k * s)
    <3>1. q * s >= v
      BY <1>2, <1>3, <2>1
    <3>2. ASSUME k * s >= v  PROVE k * s >= w
      <4>1. 1 * s = s /\ 1 * s <= k * s
        <5>1. 1 * s = s
          BY SMTT(30)
        <5> QED  BY <5>1, Multiples
      <4> QED  BY <1>2, <1>5, <2>1, <3>2, <4>1
    <3> QED  BY <1>6, <3>1, <3>2
  <2>2. ASSUME v > max * s, NEW k \in 1 .. max
        PROVE  k * s < v /\ k * s <= q * s
    <3>1. w = max * s
      BY <1>2, <2>2
    <3> QED  BY <1>1, <1>3, <1>5, <2>2, <3>1
  <2>3. max * s \in values
    BY DEF values
  <2>4. CASE v <= max * s
    BY <2>1, <2>3, <2>4 DEF IsNearest
  <2>5. CASE v > max * s
    BY <1>5, <2>2, <2>5 DEF IsNearest
  <2> QED  BY <1>1, <2>4, <2>5
<1>9. Nearest(v, values) = q * s
  BY <1>7, <1>8, OneNearest
<1> QED  BY <1>9 DEF q, w

LEMMA OptionIsNearest ==
  ASSUME OptionsInv, asked["option"] # Unset
  PROVE  Get = Nearest(asked["option"], Supported(option))
<1> DEFINE v == asked["option"]
<1>1. /\ v \in Nat \ {0} /\ (option = "hop-limit" => v <= MaxHops)
      /\ kernel = SetSockOpt(option, NormalSet(option, v))
      /\ option \in Option
  BY DEF OptionsInv, OptionTypes, KernelAsAsked, Setting
<1> HIDE DEF v
<1>2. CASE option \in Time
  <2>1. /\ MaxSeconds \in Nat \ {0} /\ Second \in Nat \ {0}
        /\ option \notin Buffer \cup Plain
        /\ option # "keep-alive-count" /\ option # "hop-limit"
    BY <1>2, OptionsAssumption DEF Time, Buffer, Plain
  <2>2. Get = ((Clamp(v, Second, MaxSeconds * Second) + Second - 1)
                 \div Second) * Second
    BY <1>1, <1>2, <2>1 DEF Get, GetSockOpt, NormalGet, SetSockOpt, NormalSet
  <2>3. Supported(option) = {k * Second : k \in 1 .. MaxSeconds}
    BY <1>2, <2>1 DEF Supported
  <2> QED  BY <1>1, <2>1, <2>2, <2>3, SecondsAreNearest DEF v
<1>3. CASE option \in Plain
  <2>1. /\ option \notin Time /\ option \notin Buffer
        /\ option \in {"keep-alive-count", "hop-limit"}
        /\ Limit[option] \in Nat \ {0}
        /\ Limit[option] = IF option = "hop-limit" THEN MaxHops ELSE MaxCount
    BY <1>1, <1>3, OptionsAssumption DEF Time, Buffer, Plain, Limit, Option
  <2>2. Get = Clamp(v, 1, Limit[option])
    <3>1. CASE option = "hop-limit"
      <4>1. Get = v
        BY <1>1, <1>3, <2>1, <3>1
        DEF Get, GetSockOpt, NormalGet, SetSockOpt, NormalSet
      <4> QED  BY <1>1, <2>1, <3>1, <4>1 DEF Clamp
    <3>2. CASE option = "keep-alive-count"
      BY <1>1, <1>3, <2>1, <3>2
      DEF Get, GetSockOpt, NormalGet, SetSockOpt, NormalSet
    <3> QED  BY <2>1, <3>1, <3>2
  <2>3. Supported(option) = 1 .. Limit[option]
    BY <1>3, <2>1 DEF Supported
  <2> QED  BY <1>1, <2>1, <2>2, <2>3, ClampIsNearest DEF v
<1>4. CASE option \in Buffer
  <2>1. /\ option \notin Time /\ option \notin Plain
        /\ option # "keep-alive-count" /\ option # "hop-limit"
        /\ MinBuffer \in Nat \ {0} /\ MaxBuffer \in Nat /\ MinBuffer <= MaxBuffer
        /\ U32 \div 2 - 1 \in Int /\ MaxBuffer <= U32 \div 2 - 1
    BY <1>1, <1>4, OptionsAssumption DEF Time, Buffer, Plain, MaxBacklog
  <2>2. Get = (2 * Clamp(Clamp(v, 1, U32 \div 2 - 1), MinBuffer, MaxBuffer)) \div 2
    BY <1>1, <1>4, <2>1 DEF Get, GetSockOpt, NormalGet, SetSockOpt, NormalSet
  <2>3. Get = Clamp(v, MinBuffer, MaxBuffer)
    <3>1. Clamp(Clamp(v, 1, U32 \div 2 - 1), MinBuffer, MaxBuffer)
            = Clamp(v, MinBuffer, MaxBuffer)
      BY <1>1, <2>1 DEF Clamp
    <3>2. Clamp(v, MinBuffer, MaxBuffer) \in Nat
      BY <1>1, <2>1 DEF Clamp
    <3>3. \A n \in Nat : (2 * n) \div 2 = n
      OBVIOUS
    <3> QED  BY <2>2, <3>1, <3>2, <3>3
  <2>4. Supported(option) = MinBuffer .. MaxBuffer
    BY <1>4, <2>1 DEF Supported
  <2> QED  BY <1>1, <2>1, <2>3, <2>4, ClampIsNearest DEF v
<1> QED  BY <1>1, <1>2, <1>3, <1>4 DEF Option, Time, Buffer, Plain

LEMMA BacklogIsNearest ==
  ASSUME NEW v \in Nat \ {0}
  PROVE  BacklogOf(v) = Nearest(v, 1 .. MaxBacklog)
<1>1. MaxBacklog \in Nat \ {0} /\ MaxBacklog < U32 /\ U32 \in Nat
  BY OptionsAssumption DEF MaxBacklog
<1>2. BacklogOf(v) = Clamp(v, 1, MaxBacklog)
  BY <1>1 DEF BacklogOf, Clamp
<1> QED  BY <1>1, <1>2, ClampIsNearest

LEMMA OptionsInvKeeps ==
  ASSUME OptionsInv
  PROVE  SettingsKept
<1>1. asked["option"] # Unset =>
        Get = Nearest(asked["option"], Supported(option))
  BY OptionIsNearest
<1>2. state \in Listener =>
        queueSize = IF asked["backlog"] = Unset THEN DefaultBacklog
                    ELSE Nearest(asked["backlog"], 1 .. MaxBacklog)
  BY BacklogIsNearest DEF OptionsInv, OptionTypes, BacklogAsAsked, Setting
<1>3. bound # Unset => reuse = (bound > 0)
  BY DEF OptionsInv, ReuseAsBound, ReuseFor
<1> QED  BY <1>1, <1>2, <1>3 DEF SettingsKept

(***************************************************************************)
(* SettingsKept: whatever a guest has done to the socket since, and        *)
(* whatever failed, it reads the supported value nearest to what it asked  *)
(* for, listens with the backlog it asked for, and has SO_REUSEADDR as its *)
(* bind needs it.                                                          *)
(***************************************************************************)
THEOREM SettingsAreKept == OptionsSpec => []SettingsKept
<1>1. OptionsInit => OptionsInv
  BY OptionsStart
<1>2. OptionsInv /\ [OptionsNext]_optionVars => OptionsInv'
  BY OptionsStep
<1>3. OptionsInv => SettingsKept
  BY OptionsInvKeeps
<1> QED  BY <1>1, <1>2, <1>3, PTL DEF OptionsSpec

-----------------------------------------------------------------------------
(***************************************************************************)
(* Transfer.  The store that a call has borrowed is used for nothing else, *)
(* what the caller has an entry for is no host resource, and the host      *)
(* resources among the results are in the store that returns them.         *)
(***************************************************************************)
TransferTypes ==
  /\ table \in [Store \cup {Caller} -> SUBSET Res]
  /\ held \subseteq Rep
  /\ status \in [Store -> {"unused", "pooled", "called", "elsewhere", "dropped"}]
  /\ call \in [at : {"none", "lent", "run", "results"},
               store : Store \cup {Caller}, args : Seq(Arg)]

OneTable == \A s, t \in Store \cup {Caller} : s # t => table[s] \cap table[t] = {}

Borrowed ==
  call.at # "none" => call.store \in Store /\ status[call.store] = "called"

ResultsHere ==
  call.at = "results" =>
    \A i \in DOMAIN call.args :
      call.args[i].what \in table[call.store] \cup Rep

TransferInv == TransferTypes /\ OneTable /\ Borrowed /\ ResultsHere

LEMMA ArgumentsAreSequences ==
  ASSUME NEW args \in BoundedSeq(Arg, MaxArgs)
  PROVE  args \in Seq(Arg)
  BY TransferAssumption DEF BoundedSeq, SeqOf

LEMMA MovedArguments ==
  ASSUME NEW args \in Seq(Arg), NEW S,
         \A i \in DOMAIN args : args[i].what \in S
  PROVE  Moved(args, Len(args)) \subseteq S
  BY DEF Moved

LEMMA TransferStart ==
  ASSUME TransferInit
  PROVE  TransferInv
  BY TransferAssumption
  DEF TransferInit, TransferInv, TransferTypes, OneTable, Borrowed, ResultsHere,
      NoCall

(***************************************************************************)
(* Giving back a store, or dropping it, keeps tables apart if they were    *)
(* apart.                                                                  *)
(***************************************************************************)
LEMMA GivingBack ==
  ASSUME NEW s \in Store, TransferTypes,
         NEW t \in [Store \cup {Caller} -> SUBSET Res],
         \A a, b \in Store \cup {Caller} : a # b => t[a] \cap t[b] = {},
         GiveBack(s, t) \/ Discard(s, t)
  PROVE  /\ table' \in [Store \cup {Caller} -> SUBSET Res]
         /\ OneTable'
         /\ status' \in [Store -> {"unused", "pooled", "called", "elsewhere",
                                   "dropped"}]
         /\ \A r \in Store : r # s => status'[r] = status[r]
         /\ \A r \in Store \cup {Caller} : r # s => table'[r] = t[r]
         /\ table' = t \/ status'[s] = "dropped"
  BY DEF GiveBack, Discard, TransferTypes, OneTable, Drop

(***************************************************************************)
(* What is moved from one table to another, both ways.                     *)
(***************************************************************************)
LEMMA Moving ==
  ASSUME TransferTypes, call.store \in Store, NEW M
  PROVE  LET there == Move(Caller, call.store, M)
             back == Move(call.store, Caller, M)
         IN /\ there \in [Store \cup {Caller} -> SUBSET Res]
            /\ there[Caller] = table[Caller] \ M
            /\ there[call.store] = table[call.store] \cup (M \cap Res)
            /\ \A s \in Store \ {call.store} : there[s] = table[s]
            /\ back \in [Store \cup {Caller} -> SUBSET Res]
            /\ back[call.store] = table[call.store] \ M
            /\ back[Caller] = table[Caller] \cup (M \cap Res)
            /\ \A s \in Store \ {call.store} : back[s] = table[s]
<1>1. ASSUME NEW a \in Store \cup {Caller}, NEW b \in Store \cup {Caller}, a # b
      PROVE  /\ Move(a, b, M) \in [Store \cup {Caller} -> SUBSET Res]
             /\ Move(a, b, M)[a] = table[a] \ M
             /\ Move(a, b, M)[b] = table[b] \cup (M \cap Res)
             /\ \A s \in (Store \cup {Caller}) \ {a, b} :
                  Move(a, b, M)[s] = table[s]
  <2> DEFINE x == table[a] \ M
             y == table[b] \cup (M \cap Res)
  <2>1. x \in SUBSET Res /\ y \in SUBSET Res
    BY DEF TransferTypes
  <2>2. Move(a, b, M) = [table EXCEPT ![a] = x, ![b] = y]
    BY <1>1 DEF Move
  <2> HIDE DEF x, y
  <2>3. /\ Move(a, b, M) \in [Store \cup {Caller} -> SUBSET Res]
        /\ Move(a, b, M)[a] = x /\ Move(a, b, M)[b] = y
        /\ \A s \in (Store \cup {Caller}) \ {a, b} : Move(a, b, M)[s] = table[s]
    BY <1>1, <2>1, <2>2 DEF TransferTypes
  <2> QED  BY <2>3 DEF x, y
<1>2. /\ call.store # Caller
      /\ Caller \in Store \cup {Caller} /\ call.store \in Store \cup {Caller}
  BY TransferAssumption
<1> DEFINE there == Move(Caller, call.store, M)
           back == Move(call.store, Caller, M)
<1>3. /\ there \in [Store \cup {Caller} -> SUBSET Res]
      /\ there[Caller] = table[Caller] \ M
      /\ there[call.store] = table[call.store] \cup (M \cap Res)
  BY <1>1, <1>2
<1>4. \A s \in (Store \cup {Caller}) \ {Caller, call.store} : there[s] = table[s]
  BY <1>1, <1>2, SMTT(30)
<1>5. /\ back \in [Store \cup {Caller} -> SUBSET Res]
      /\ back[call.store] = table[call.store] \ M
      /\ back[Caller] = table[Caller] \cup (M \cap Res)
  BY <1>1, <1>2
<1>6. \A s \in (Store \cup {Caller}) \ {call.store, Caller} : back[s] = table[s]
  BY <1>1, <1>2
<1> HIDE DEF there, back
<1>7. \A s \in Store \ {call.store} : there[s] = table[s] /\ back[s] = table[s]
  BY <1>4, <1>6, TransferAssumption
<1> QED  BY <1>3, <1>5, <1>7 DEF there, back

LEMMA LowerStep ==
  ASSUME TransferInv, NEW args \in BoundedSeq(Arg, MaxArgs), Lower(args)
  PROVE  /\ TransferInv'
         /\ caller' = "running" => InTables' = InTables
<1> DEFINE failed == NotLowered(args)
           n == IF failed = {} THEN Len(args) ELSE Min(failed) - 1
           M == Moved(args, n)
           lowered == Move(Caller, call.store, M)
<1>1. /\ args \in Seq(Arg)
      /\ call.at = "lent" /\ call.store \in Store /\ call.store # Caller
      /\ TransferTypes
      /\ held' = held \ M /\ held \subseteq Rep
      /\ Res \cap Rep = {}
  BY ArgumentsAreSequences, TransferAssumption
  DEF Lower, Discard, TransferInv, TransferTypes, Borrowed
<1>2. failed = {} => M \subseteq table[Caller] \cup held
  BY <1>1, MovedArguments DEF Lower, CanPass
<1>3. \/ /\ failed = {}
         /\ table' = lowered
         /\ call' = [call EXCEPT !.at = "run", !.args = args]
         /\ UNCHANGED <<status, caller>>
      \/ /\ table' = Drop(call.store, lowered)
         /\ status' = [status EXCEPT ![call.store] = "dropped"]
         /\ call' = NoCall
         /\ caller' = "trapped"
  BY DEF Lower, Discard
<1> HIDE DEF M, failed
<1>4. /\ lowered \in [Store \cup {Caller} -> SUBSET Res]
      /\ lowered[Caller] = table[Caller] \ M
      /\ lowered[call.store] = table[call.store] \cup (M \cap Res)
      /\ \A s \in Store \ {call.store} : lowered[s] = table[s]
  BY <1>1, Moving
<1> HIDE DEF lowered
<1>5. CASE table' = lowered /\ failed = {} /\ UNCHANGED status
           /\ call' = [call EXCEPT !.at = "run", !.args = args]
  <2>1. M \cap Res \subseteq table[Caller]
    BY <1>1, <1>2, <1>5
  <2>2. OneTable'
    BY <1>1, <1>4, <1>5, <2>1 DEF TransferInv, OneTable
  <2>3. InTables' = InTables
    <3>1. ASSUME NEW r \in InTables  PROVE r \in InTables'
      <4>1. PICK s \in Store \cup {Caller} : r \in table[s]
        BY DEF InTables
      <4> QED  BY <1>1, <1>4, <1>5, <4>1 DEF InTables, TransferTypes
    <3>2. ASSUME NEW r \in InTables'  PROVE r \in InTables
      <4>1. PICK s \in Store \cup {Caller} : r \in table'[s]
        BY <3>2 DEF InTables
      <4> QED  BY <1>1, <1>4, <1>5, <2>1, <4>1 DEF InTables
    <3> QED  BY <3>1, <3>2
  <2>4. TransferTypes' /\ Borrowed' /\ ResultsHere'
    BY <1>1, <1>4, <1>5
    DEF TransferInv, TransferTypes, Borrowed, ResultsHere
  <2> QED  BY <2>2, <2>3, <2>4 DEF TransferInv
<1>6. CASE /\ table' = Drop(call.store, lowered)
           /\ status' = [status EXCEPT ![call.store] = "dropped"]
           /\ call' = NoCall
           /\ caller' = "trapped"
  <2>1. /\ table' \in [Store \cup {Caller} -> SUBSET Res]
        /\ table'[Caller] = table[Caller] \ M
        /\ table'[call.store] = {}
        /\ \A s \in Store \ {call.store} : table'[s] = table[s]
    BY <1>1, <1>4, <1>6 DEF Drop
  <2>2. OneTable'
    BY <1>1, <2>1 DEF TransferInv, OneTable
  <2>3. TransferTypes' /\ Borrowed' /\ ResultsHere'
    BY <1>1, <1>6, <2>1
    DEF TransferInv, TransferTypes, Borrowed, ResultsHere, NoCall
  <2> QED  BY <1>6, <2>2, <2>3 DEF TransferInv
<1> QED  BY <1>3, <1>5, <1>6

LEMMA LiftStep ==
  ASSUME TransferInv, Lift
  PROVE  /\ TransferInv'
         /\ Dropped' = Dropped => InTables' = InTables
<1> DEFINE moved == Moved(call.args, Len(call.args))
           t == Move(call.store, Caller, moved)
<1>1. /\ call.at = "results" /\ call.store \in Store /\ call.store # Caller
      /\ status[call.store] = "called"
      /\ table \in [Store \cup {Caller} -> SUBSET Res]
      /\ call.args \in Seq(Arg)
      /\ held' = held \cup (moved \cap Rep) /\ held \subseteq Rep
      /\ call' = NoCall
      /\ GiveBack(call.store, t)
      /\ Res \cap Rep = {}
  BY TransferAssumption DEF Lift, TransferInv, TransferTypes, Borrowed
<1>2. moved \subseteq table[call.store] \cup Rep
  BY <1>1, MovedArguments DEF TransferInv, ResultsHere
<1> HIDE DEF moved
<1>3. moved \cap Res \subseteq table[call.store]
  BY <1>1, <1>2
<1>4. /\ t \in [Store \cup {Caller} -> SUBSET Res]
      /\ t[Caller] = table[Caller] \cup (moved \cap Res)
      /\ t[call.store] = table[call.store] \ moved
      /\ \A s \in Store \ {call.store} : t[s] = table[s]
  BY <1>1, Moving DEF TransferInv
<1> HIDE DEF t
<1>5. \A a, b \in Store \cup {Caller} : a # b => t[a] \cap t[b] = {}
  BY <1>1, <1>3, <1>4 DEF TransferInv, OneTable
<1>6. /\ table' \in [Store \cup {Caller} -> SUBSET Res]
      /\ OneTable'
      /\ status' \in [Store -> {"unused", "pooled", "called", "elsewhere",
                                "dropped"}]
      /\ table' = t \/ status'[call.store] = "dropped"
  BY <1>1, <1>4, <1>5, GivingBack DEF TransferInv
<1>7. TransferInv'
  BY <1>1, <1>6 DEF TransferInv, TransferTypes, Borrowed, ResultsHere, NoCall
<1>8. ASSUME Dropped' = Dropped  PROVE InTables' = InTables
  <2>1. table' = t
    BY <1>1, <1>6, <1>8 DEF Dropped
  <2>2. ASSUME NEW r \in InTables  PROVE r \in InTables'
    <3>1. PICK s \in Store \cup {Caller} : r \in table[s]
      BY DEF InTables
    <3> QED  BY <1>1, <1>4, <2>1, <3>1 DEF InTables
  <2>3. ASSUME NEW r \in InTables'  PROVE r \in InTables
    <3>1. PICK s \in Store \cup {Caller} : r \in table'[s]
      BY <2>3 DEF InTables
    <3> QED  BY <1>1, <1>3, <1>4, <2>1, <3>1 DEF InTables
  <2> QED  BY <2>2, <2>3
<1> QED  BY <1>7, <1>8

(***************************************************************************)
(* A store that another caller had comes back to the pool or is dropped    *)
(* (handle_workload_import gives it back, a panic drops it): the tables    *)
(* stay apart, and those of the other stores stay as they are.             *)
(***************************************************************************)
LEMMA ComingBack ==
  ASSUME NEW s \in Store, TransferInv, BackFromElsewhere(s)
  PROVE  /\ table' \in [Store \cup {Caller} -> SUBSET Res]
         /\ OneTable'
         /\ status' \in [Store -> {"unused", "pooled", "called", "elsewhere",
                                   "dropped"}]
         /\ \A r \in Store : r # s => status'[r] = status[r]
         /\ \A r \in Store \cup {Caller} : r # s => table'[r] = table[r]
<1>1. GiveBack(s, table) \/ Discard(s, table)
  BY DEF BackFromElsewhere
<1>2. TransferTypes /\ OneTable
  BY DEF TransferInv
<1>3. table \in [Store \cup {Caller} -> SUBSET Res]
  BY <1>2 DEF TransferTypes
<1>4. \A a, b \in Store \cup {Caller} : a # b => table[a] \cap table[b] = {}
  BY <1>2 DEF OneTable
<1> QED  BY <1>1, <1>2, <1>3, <1>4, GivingBack

NothingLost ==
  call' # call /\ caller' = "running" /\ Dropped' = Dropped
    => InTables' = InTables

LEMMA TransferStep ==
  ASSUME TransferInv, [TransferNext]_transferVars
  PROVE  TransferInv' /\ NothingLost
<1> USE DEF TransferInv, TransferTypes, OneTable, Borrowed, ResultsHere
<1>1. CASE UNCHANGED transferVars
  BY <1>1 DEF transferVars, NothingLost
<1>2. ASSUME NEW s \in Store, Offer(s)
      PROVE  TransferInv' /\ NothingLost
  <2>1. UNCHANGED <<table, held>> /\ InTables' = InTables
    BY <1>2 DEF Offer, InTables
  <2>2. /\ call' = [at |-> "lent", store |-> s, args |-> <<>>]
        /\ status' = [status EXCEPT ![s] = "called"]
    BY <1>2 DEF Offer, NoCall
  <2>3. TransferTypes'
    BY <2>1, <2>2
  <2>4. OneTable'
    BY <2>1
  <2>5. Borrowed' /\ ResultsHere'
    BY <2>2
  <2> QED  BY <2>1, <2>3, <2>4, <2>5 DEF NothingLost
<1>3. ASSUME NEW s \in Store, TakenElsewhere(s)
      PROVE  TransferInv' /\ NothingLost
  BY <1>3 DEF TakenElsewhere, NothingLost, Pooled
<1>4. ASSUME NEW s \in Store, BackFromElsewhere(s)
      PROVE  TransferInv' /\ NothingLost
  <2>1. /\ table' \in [Store \cup {Caller} -> SUBSET Res]
        /\ OneTable'
        /\ status' \in [Store -> {"unused", "pooled", "called", "elsewhere",
                                  "dropped"}]
        /\ \A r \in Store : r # s => status'[r] = status[r]
        /\ \A r \in Store \cup {Caller} : r # s => table'[r] = table[r]
    BY <1>4, ComingBack
  <2> QED  BY <1>4, <2>1 DEF BackFromElsewhere, NothingLost
<1>5. ASSUME NEW args \in BoundedSeq(Arg, MaxArgs), Lower(args)
      PROVE  TransferInv' /\ NothingLost
  BY <1>5, LowerStep DEF NothingLost
<1>6. ASSUME NEW args \in BoundedSeq(Arg, MaxArgs), GuestReturns(args)
      PROVE  TransferInv' /\ NothingLost
  <2>1. args \in Seq(Arg)
    BY ArgumentsAreSequences
  <2>2. /\ call' = [call EXCEPT !.at = "results", !.args = args]
        /\ UNCHANGED <<table, maker, held, status, caller>>
        /\ call.at = "run"
    BY <1>6 DEF GuestReturns
  <2>3. \A i \in DOMAIN args : args[i].what \in table[call.store] \cup Rep
    BY <1>6 DEF GuestReturns
  <2>4. InTables' = InTables
    BY <2>2 DEF InTables
  <2> QED  BY <2>1, <2>2, <2>3, <2>4 DEF NothingLost
<1>7. ASSUME NEW r \in Rep, GuestMakes(r) \/ CallerDrops(r)
      PROVE  TransferInv' /\ NothingLost
  BY <1>7 DEF GuestMakes, CallerDrops, NothingLost
<1>8. ASSUME NEW r \in Res, GuestDrops(r)
      PROVE  TransferInv' /\ NothingLost
  <2>1. /\ table' = [table EXCEPT ![call.store] = @ \ {r}]
        /\ UNCHANGED <<maker, held, status, call, caller>>
        /\ call.at = "run" /\ call.store \in Store
    BY <1>8 DEF GuestDrops
  <2>2. /\ table' \in [Store \cup {Caller} -> SUBSET Res]
        /\ \A s \in Store \cup {Caller} : table'[s] \subseteq table[s]
    BY <2>1
  <2>3. OneTable'
    BY <2>2
  <2> QED  BY <2>1, <2>2, <2>3 DEF NothingLost
<1>9. CASE GuestFails \/ GuestPanics
  <2>1. /\ call.store \in Store /\ call' = NoCall /\ caller' = "trapped"
        /\ UNCHANGED <<maker, held>>
    BY <1>9 DEF GuestFails, GuestPanics
  <2>2. /\ table' \in [Store \cup {Caller} -> SUBSET Res]
        /\ OneTable'
        /\ status' \in [Store -> {"unused", "pooled", "called", "elsewhere",
                                  "dropped"}]
    BY <1>9, <2>1, GivingBack DEF GuestFails, GuestPanics
  <2> QED  BY <2>1, <2>2 DEF NoCall, NothingLost
<1>10. CASE Lift
  BY <1>10, LiftStep DEF NothingLost
<1> QED
  BY <1>1, <1>2, <1>3, <1>4, <1>5, <1>6, <1>7, <1>8, <1>9, <1>10
  DEF TransferNext

(***************************************************************************)
(* MovedOnce: lower and lift never leave a host resource in two tables,    *)
(* and lose none unless the call fails or its store is dropped, for any    *)
(* number of stores, resources and arguments.                              *)
(***************************************************************************)
THEOREM ResourcesMoveOnce == TransferSpec => MovedOnce
<1>1. TransferInit => TransferInv
  BY TransferStart
<1>2. TransferInv /\ [TransferNext]_transferVars => TransferInv'
  BY TransferStep
<1>3. TransferInv =>
        \A s, t \in Store \cup {Caller} : s # t => table[s] \cap table[t] = {}
  BY DEF TransferInv, OneTable
<1>4. TransferInv /\ [TransferNext]_transferVars =>
        [call' # call /\ caller' = "running" /\ Dropped' = Dropped
           => InTables' = InTables]_transferVars
  BY TransferStep DEF NothingLost
<1> QED  BY <1>1, <1>2, <1>3, <1>4, PTL DEF TransferSpec, MovedOnce

-----------------------------------------------------------------------------
(***************************************************************************)
(* Reload.  What the watch tells of the version that the pod has is its    *)
(* spec, and so is the manifest that the task of Kubernetes works on; what *)
(* is sent to the engine has been fetched, and is in the channel once.     *)
(***************************************************************************)
ReloadTypes ==
  /\ pod \in [exists : BOOLEAN, version : Version, spec : Manifest,
              status : Status]
  /\ events \in Seq(Event)
  /\ task \in [Source -> Work]
  /\ chan \in Seq(Source)
  /\ file \in Content

EventsAreOfPod ==
  \A i \in DOMAIN events :
    events[i].kind = "apply" /\ events[i].version = pod.version /\ pod.exists
      => events[i].spec = pod.spec

WorkIsOfPod ==
  task["k8s"].at # "idle" /\ task["k8s"].kind = "apply"
    /\ task["k8s"].version = pod.version /\ pod.exists
    => task["k8s"].manifest = pod.spec

SentOnceFetched ==
  /\ \A i \in DOMAIN chan :
       /\ task[chan[i]].at = "wait"
       /\ Fetched \in Fetching[task[chan[i]].manifest]
  /\ \A i, j \in DOMAIN chan : chan[i] = chan[j] => i = j

ReportsOutcome ==
  task["k8s"].at = "report" =>
    /\ task["k8s"].kind = "apply"
    /\ task["k8s"].result \in Outcomes(task["k8s"].manifest)

ReloadInv ==
  ReloadTypes /\ EventsAreOfPod /\ WorkIsOfPod /\ SentOnceFetched /\ ReportsOutcome

LEMMA ReloadStart ==
  ASSUME NothingHappened, file \in Content
  PROVE  ReloadInv
  BY ReloadAssumption
  DEF NothingHappened, ReloadInv, ReloadTypes, EventsAreOfPod, WorkIsOfPod,
      SentOnceFetched, ReportsOutcome, FirstVersion, Status, Source, Work, Event

LEMMA NewVersions ==
  ASSUME Version \ Known # {}
  PROVE  NewVersion \in Version \ Known
  BY DEF NewVersion

(***************************************************************************)
(* An event that is told about the pod as it is now, with a version that   *)
(* is new, leaves every older event and the work behind.                   *)
(***************************************************************************)
LEMMA Telling ==
  ASSUME ReloadInv, Version \ Known # {}, NEW kind \in {"apply", "delete"},
         pod' \in [exists : BOOLEAN, version : Version, spec : Manifest,
                   status : Status],
         pod'.version = NewVersion, Tell(kind, pod'),
         UNCHANGED <<task, chan>>, file' \in Content
  PROVE  ReloadInv'
<1> USE DEF ReloadInv, ReloadTypes
<1>1. NewVersion \in Version \ Known
  BY NewVersions
<1>2. events' \in Seq(Event)
  <2> DEFINE e == [kind |-> kind, version |-> pod'.version, spec |-> pod'.spec]
  <2>1. e \in Event
    BY DEF Event
  <2>2. events' = events \/ events' = Append(events, e)
    BY DEF Tell
  <2> HIDE DEF e
  <2> QED  BY <2>1, <2>2, SMTT(30)
<1>3. \A i \in DOMAIN events' :
        events'[i].version = pod'.version => events'[i].spec = pod'.spec
  <2>1. \A i \in DOMAIN events : events[i].version # pod'.version
    BY <1>1 DEF Known
  <2>2. CASE events' = events
    BY <2>1, <2>2
  <2>3. CASE events' = Append(events, [kind |-> kind, version |-> pod'.version,
                                       spec |-> pod'.spec])
    BY <2>1, <2>3
  <2> QED  BY <2>2, <2>3 DEF Tell
<1>4. task["k8s"].version # pod'.version
  BY <1>1 DEF Known
<1>5. ReloadTypes' /\ EventsAreOfPod'
  BY <1>2, <1>3 DEF EventsAreOfPod
<1>6. WorkIsOfPod'
  BY <1>4 DEF WorkIsOfPod
<1>7. SentOnceFetched' /\ ReportsOutcome'
  BY DEF SentOnceFetched, ReportsOutcome
<1> QED  BY <1>5, <1>6, <1>7

StatusKept ==
  pod.exists /\ pod'.exists /\ pod'.status # pod.status
    => /\ task["k8s"].manifest = pod'.spec
       /\ pod'.status \in Outcomes(pod'.spec)

LEMMA UsersStep ==
  ASSUME ReloadInv, Users
  PROVE  ReloadInv' /\ StatusKept
<1> USE DEF ReloadInv, ReloadTypes
<1>1. ASSUME NEW f \in Content, EditFile(f)
      PROVE  ReloadInv' /\ StatusKept
  BY <1>1
  DEF EditFile, EventsAreOfPod, WorkIsOfPod, SentOnceFetched, ReportsOutcome,
      StatusKept
<1>2. CASE Hangup
  BY <1>2
  DEF Hangup, EventsAreOfPod, WorkIsOfPod, SentOnceFetched, ReportsOutcome,
      StatusKept
<1>3. ASSUME NEW m \in Manifest, PutPod(m)
      PROVE  ReloadInv' /\ StatusKept
  <2>1. /\ Version \ Known # {} /\ Tell("apply", pod')
        /\ pod' = [exists |-> TRUE, version |-> NewVersion, spec |-> m,
                   status |-> IF pod.exists THEN pod.status ELSE NoStatus]
        /\ UNCHANGED <<task, chan, file>>
    BY <1>3 DEF PutPod
  <2>2. pod' \in [exists : BOOLEAN, version : Version, spec : Manifest,
                  status : Status]
    BY <2>1, NewVersions DEF Status
  <2>3. StatusKept
    BY <2>1 DEF StatusKept
  <2> QED  BY <2>1, <2>2, <2>3, Telling
<1>4. CASE DeletePod
  <2>1. /\ Version \ Known # {} /\ Tell("delete", pod')
        /\ pod' = [pod EXCEPT !.exists = FALSE, !.version = NewVersion]
        /\ UNCHANGED <<task, chan, file>>
    BY <1>4 DEF DeletePod
  <2>2. pod' \in [exists : BOOLEAN, version : Version, spec : Manifest,
                  status : Status]
    BY <2>1, NewVersions
  <2>3. StatusKept
    BY <2>1 DEF StatusKept
  <2> QED  BY <2>1, <2>2, <2>3, Telling
<1>5. CASE Expire
  BY <1>5
  DEF Expire, EventsAreOfPod, WorkIsOfPod, SentOnceFetched, ReportsOutcome,
      StatusKept
<1> QED  BY <1>1, <1>2, <1>3, <1>4, <1>5 DEF Users

(***************************************************************************)
(* A step of a task or of the engine that leaves the pod alone.            *)
(***************************************************************************)
LEMMA ReceiveStep ==
  ASSUME ReloadInv, ReceiveEvent
  PROVE  ReloadInv' /\ StatusKept
<1> DEFINE e == Head(events)
<1>1. /\ e \in Event /\ e = events[1] /\ 1 \in DOMAIN events
      /\ events' = Tail(events) /\ events' \in Seq(Event)
      /\ \A i \in DOMAIN events' :
           i + 1 \in DOMAIN events /\ events'[i] = events[i + 1]
      /\ UNCHANGED <<pod, file>>
      /\ task["k8s"].at = "idle"
  BY DEF ReceiveEvent, ReloadInv, ReloadTypes, sources
<1>2. e.kind \in {"apply", "delete"} /\ e.version \in Version /\ e.spec \in Manifest
  BY <1>1 DEF Event
<1>3. EventsAreOfPod' /\ StatusKept
  BY <1>1 DEF ReloadInv, EventsAreOfPod, StatusKept
<1>4. e.kind = "apply" /\ e.version = pod.version /\ pod.exists => e.spec = pod.spec
  BY <1>1 DEF ReloadInv, EventsAreOfPod
<1> HIDE DEF e
<1>5. \A i \in DOMAIN chan : chan[i] \in Source /\ chan[i] # "k8s"
  BY <1>1 DEF ReloadInv, ReloadTypes, SentOnceFetched
<1> USE DEF ReloadInv, ReloadTypes
<1>6. CASE e.kind = "apply"
  <2>1. /\ task' = [task EXCEPT !["k8s"] =
                     [at |-> "load", manifest |-> e.spec, kind |-> "apply",
                      version |-> e.version, result |-> NoStatus]]
        /\ chan' = chan
    BY <1>6 DEF ReceiveEvent, e
  <2>2. /\ task' \in [Source -> Work]
        /\ task'["k8s"].at = "load" /\ task'["k8s"].manifest = e.spec
        /\ task'["k8s"].version = e.version
        /\ \A t \in Source \ {"k8s"} : task'[t] = task[t]
    BY <1>2, <2>1 DEF Work, Status, Source
  <2>3. ReloadTypes' /\ WorkIsOfPod' /\ ReportsOutcome'
    BY <1>1, <1>4, <1>6, <2>1, <2>2 DEF WorkIsOfPod, ReportsOutcome
  <2>4. SentOnceFetched'
    BY <1>5, <2>1, <2>2 DEF SentOnceFetched
  <2> QED  BY <1>3, <2>3, <2>4
<1>7. CASE e.kind = "delete"
  <2>1. /\ task' = [task EXCEPT !["k8s"] =
                     [at |-> "wait", manifest |-> Default, kind |-> "delete",
                      version |-> e.version, result |-> NoStatus]]
        /\ chan' = Append(chan, "k8s")
    BY <1>7 DEF ReceiveEvent, e
  <2>2. /\ task' \in [Source -> Work]
        /\ task'["k8s"].at = "wait" /\ task'["k8s"].manifest = Default
        /\ task'["k8s"].kind = "delete"
        /\ \A t \in Source \ {"k8s"} : task'[t] = task[t]
    BY <1>2, <2>1, ReloadAssumption DEF Work, Status, Source
  <2>3. ReloadTypes' /\ WorkIsOfPod' /\ ReportsOutcome'
    BY <1>1, <2>1, <2>2 DEF WorkIsOfPod, ReportsOutcome, Source
  <2>4. SentOnceFetched'
    <3>1. \A i \in DOMAIN chan' :
            \/ i \in DOMAIN chan /\ chan'[i] = chan[i]
            \/ i = Len(chan) + 1 /\ chan'[i] = "k8s"
      BY <2>1
    <3>2. \A i \in DOMAIN chan' :
            /\ task'[chan'[i]].at = "wait"
            /\ Fetched \in Fetching[task'[chan'[i]].manifest]
      <4>1. Fetched \in Fetching[task'["k8s"].manifest]
        BY <2>2, ReloadAssumption
      <4>2. ASSUME NEW i \in DOMAIN chan
            PROVE  task'[chan[i]] = task[chan[i]] /\ task[chan[i]].at = "wait"
                   /\ Fetched \in Fetching[task[chan[i]].manifest]
        <5>1. chan[i] \in Source \ {"k8s"}
          BY <1>5
        <5>2. task[chan[i]].at = "wait" /\ Fetched \in Fetching[task[chan[i]].manifest]
          BY DEF SentOnceFetched
        <5> QED  BY <2>2, <5>1, <5>2
      <4> QED  BY ONLY <2>2, <3>1, <4>1, <4>2
    <3>3. \A i, j \in DOMAIN chan' : chan'[i] = chan'[j] => i = j
      BY <1>5, <3>1 DEF SentOnceFetched
    <3> QED  BY <3>2, <3>3 DEF SentOnceFetched
  <2> QED  BY <1>3, <2>3, <2>4
<1> QED  BY <1>2, <1>6, <1>7

LEMMA LoadStep ==
  ASSUME ReloadInv, NEW t \in Source, Load(t)
  PROVE  ReloadInv' /\ StatusKept
<1> USE DEF ReloadInv, ReloadTypes
<1>1. /\ task[t].at = "load" /\ task[t] \in Work
      /\ UNCHANGED <<pod, events, file>>
  BY DEF Load, sources
<1>2. EventsAreOfPod' /\ StatusKept
  BY <1>1 DEF EventsAreOfPod, StatusKept
<1>3. \A i \in DOMAIN chan : chan[i] \in Source /\ chan[i] # t
  BY <1>1 DEF SentOnceFetched
<1>4. ASSUME NEW e \in Fetching[task[t].manifest] \ {Fetched}, Answer(t, e),
             chan' = chan
      PROVE  ReloadInv'
  <2>1. e \in Error /\ e \in Outcomes(task[t].manifest) /\ e \in Status
    BY <1>1, <1>4, ReloadAssumption DEF Outcomes, Work, Status
  <2>2. /\ task' \in [Source -> Work]
        /\ task'[t].at \in {"report", "idle"} /\ task'[t].result = e
        /\ task'[t].at = "report" => t = "k8s" /\ task[t].kind = "apply"
        /\ task'[t].manifest = task[t].manifest
        /\ task'[t].kind = task[t].kind /\ task'[t].version = task[t].version
        /\ \A u \in Source \ {t} : task'[u] = task[u]
    BY <1>1, <1>4, <2>1 DEF Answer, Work
  <2>3. ReloadTypes' /\ WorkIsOfPod'
    BY <1>1, <1>4, <2>2 DEF WorkIsOfPod, Source
  <2>4. ReportsOutcome'
    BY <2>1, <2>2 DEF ReportsOutcome, Outcomes, Source
  <2>5. SentOnceFetched'
    <3>1. \A i \in DOMAIN chan : task'[chan[i]] = task[chan[i]]
      BY <1>3, <2>2
    <3> QED  BY <1>4, <3>1 DEF SentOnceFetched
  <2> QED  BY <1>2, <2>3, <2>4, <2>5
<1>5. CASE /\ Fetched \in Fetching[task[t].manifest]
           /\ task' = [task EXCEPT ![t].at = "wait"]
           /\ chan' = Append(chan, t)
  <2>1. /\ task' \in [Source -> Work]
        /\ task'[t].at = "wait" /\ task'[t].manifest = task[t].manifest
        /\ task'[t].kind = task[t].kind /\ task'[t].version = task[t].version
        /\ \A u \in Source \ {t} : task'[u] = task[u]
    BY <1>1, <1>5 DEF Work
  <2>2. ReloadTypes' /\ WorkIsOfPod' /\ ReportsOutcome'
    BY <1>1, <1>5, <2>1 DEF WorkIsOfPod, ReportsOutcome, Source
  <2>3. SentOnceFetched'
    <3>1. \A i \in DOMAIN chan' :
            \/ i \in DOMAIN chan /\ chan'[i] = chan[i]
            \/ i = Len(chan) + 1 /\ chan'[i] = t
      BY <1>5
    <3>2. \A i \in DOMAIN chan' :
            /\ task'[chan'[i]].at = "wait"
            /\ Fetched \in Fetching[task'[chan'[i]].manifest]
      <4> TAKE i \in DOMAIN chan'
      <4>1. CASE i \in DOMAIN chan /\ chan'[i] = chan[i]
        <5>1. task'[chan'[i]] = task[chan[i]]
          BY <1>3, <2>1, <4>1
        <5> QED  BY <4>1, <5>1 DEF SentOnceFetched
      <4>2. CASE chan'[i] = t
        BY <1>5, <2>1, <4>2
      <4> QED  BY <3>1, <4>1, <4>2
    <3>3. \A i, j \in DOMAIN chan' : chan'[i] = chan'[j] => i = j
      BY <1>3, <3>1 DEF SentOnceFetched
    <3> QED  BY <3>2, <3>3 DEF SentOnceFetched
  <2> QED  BY <1>2, <2>2, <2>3
<1> QED  BY <1>2, <1>4, <1>5 DEF Load

LEMMA EngineStep ==
  ASSUME ReloadInv, EngineApplies
  PROVE  ReloadInv' /\ StatusKept
<1> USE DEF ReloadInv, ReloadTypes
<1> DEFINE t == Head(chan)
           m == task[t].manifest
<1>1. /\ t \in Source /\ t = chan[1] /\ 1 \in DOMAIN chan
      /\ chan' = Tail(chan) /\ chan' \in Seq(Source)
      /\ \A i \in DOMAIN chan' : i + 1 \in DOMAIN chan /\ chan'[i] = chan[i + 1]
      /\ UNCHANGED <<pod, events, file>>
  BY DEF EngineApplies, sources
<1>2. /\ task[t] \in Work /\ task[t].at = "wait" /\ Fetched \in Fetching[m]
      /\ \A i \in DOMAIN chan' : chan'[i] \in Source /\ chan'[i] # t
  <2>1. task[t] \in Work /\ task[t].at = "wait" /\ Fetched \in Fetching[m]
    BY <1>1 DEF SentOnceFetched
  <2>2. \A i \in DOMAIN chan' : i \in Nat \ {0} /\ chan'[i] \in Source
    BY <1>1
  <2> HIDE DEF t
  <2>3. \A i \in DOMAIN chan' : i + 1 # 1 /\ chan[i + 1] # chan[1]
    BY <1>1, <2>2 DEF SentOnceFetched
  <2> QED  BY <1>1, <2>1, <2>2, <2>3
<1>3. PICK r \in Outcomes(m) : r \in Status /\ Answer(t, r)
  <2>1. PICK e \in Applying[m] : Answer(t, e)
    BY DEF EngineApplies
  <2>2. m \in Manifest
    BY <1>2 DEF Work
  <2> QED  BY <1>2, <2>1, <2>2, ReloadAssumption DEF Outcomes, Status
<1> HIDE DEF t
<1>4. /\ task' \in [Source -> Work]
      /\ task'[t].at \in {"report", "idle"} /\ task'[t].result = r
      /\ task'[t].at = "report" => t = "k8s" /\ task[t].kind = "apply"
      /\ task'[t].manifest = task[t].manifest
      /\ task'[t].kind = task[t].kind /\ task'[t].version = task[t].version
      /\ \A u \in Source \ {t} : task'[u] = task[u]
  BY <1>1, <1>2, <1>3 DEF Answer, Work
<1>5. EventsAreOfPod' /\ StatusKept
  BY <1>1 DEF EventsAreOfPod, StatusKept
<1>6. ReloadTypes' /\ WorkIsOfPod'
  BY <1>1, <1>2, <1>4 DEF WorkIsOfPod, Source
<1>7. ReportsOutcome'
  <2>1. CASE t = "k8s"
    BY <1>3, <1>4, <2>1 DEF ReportsOutcome, Outcomes
  <2>2. CASE t # "k8s"
    <3>1. task'["k8s"] = task["k8s"]
      BY <1>4, <2>2 DEF Source
    <3> QED  BY <3>1 DEF ReportsOutcome, Outcomes
  <2> QED  BY <2>1, <2>2
<1>8. SentOnceFetched'
  <2>1. ASSUME NEW i \in DOMAIN chan'
        PROVE  /\ task'[chan'[i]].at = "wait"
               /\ Fetched \in Fetching[task'[chan'[i]].manifest]
    <3>1. task'[chan'[i]] = task[chan[i + 1]] /\ i + 1 \in DOMAIN chan
      BY <1>1, <1>2, <1>4
    <3> QED  BY <3>1 DEF SentOnceFetched
  <2>2. ASSUME NEW i \in DOMAIN chan', NEW j \in DOMAIN chan', chan'[i] = chan'[j]
        PROVE  i = j
    <3>1. i + 1 = j + 1
      BY <1>1, <2>2 DEF SentOnceFetched
    <3> QED  BY <1>1, <3>1
  <2> QED  BY <2>1, <2>2 DEF SentOnceFetched
<1> QED  BY <1>5, <1>6, <1>7, <1>8

LEMMA ReportStep ==
  ASSUME ReloadInv, Report
  PROVE  ReloadInv' /\ StatusKept
<1> USE DEF ReloadInv, ReloadTypes
<1> DEFINE outcome == StatusOf(task["k8s"])
<1>1. /\ task["k8s"] \in Work /\ task["k8s"].at = "report"
      /\ task["k8s"].kind = "apply"
      /\ outcome \in Status /\ outcome \in Outcomes(task["k8s"].manifest)
      /\ task' = [task EXCEPT !["k8s"].at = "idle"]
      /\ UNCHANGED <<chan, file>>
  BY DEF Report, StatusOf, ReportsOutcome, Work, Source
<1>2. /\ task' \in [Source -> Work]
      /\ task'["k8s"].at = "idle"
      /\ task'["k8s"].version = task["k8s"].version
      /\ \A u \in Source \ {"k8s"} : task'[u] = task[u]
  BY <1>1 DEF Work, Source
<1>3. \A i \in DOMAIN chan : chan[i] \in Source /\ chan[i] # "k8s"
  BY <1>1 DEF SentOnceFetched
<1>4. WorkIsOfPod' /\ ReportsOutcome'
  BY <1>2 DEF WorkIsOfPod, ReportsOutcome
<1>5. SentOnceFetched'
  BY <1>1, <1>2, <1>3 DEF SentOnceFetched
<1>6. CASE UNCHANGED <<pod, events>>
  BY <1>1, <1>2, <1>4, <1>5, <1>6 DEF EventsAreOfPod, StatusKept
<1>7. CASE /\ AcceptsStatus(task["k8s"].version) /\ Version \ Known # {}
           /\ pod' = [pod EXCEPT !.status = outcome, !.version = NewVersion]
           /\ Tell("apply", pod')
  <2>1. NewVersion \in Version \ Known
    BY <1>7, NewVersions
  <2>2. /\ pod' \in [exists : BOOLEAN, version : Version, spec : Manifest,
                     status : Status]
        /\ pod'.spec = pod.spec /\ pod'.status = outcome
        /\ pod'.version = NewVersion
    BY <1>1, <1>7, <2>1
  <2>3. StatusKept
    <3>1. pod.exists /\ task["k8s"].version = pod.version
      BY <1>7 DEF AcceptsStatus
    <3>2. task["k8s"].manifest = pod.spec
      BY <1>1, <3>1 DEF WorkIsOfPod
    <3> QED  BY <1>1, <2>2, <3>2 DEF StatusKept, Outcomes
  <2>4. events' \in Seq(Event) /\ EventsAreOfPod'
    <3> DEFINE e == [kind |-> "apply", version |-> pod'.version,
                     spec |-> pod'.spec]
    <3>1. e \in Event /\ e.version = pod'.version /\ e.spec = pod'.spec
      BY <2>2 DEF Event
    <3>2. events' = events \/ events' = Append(events, e)
      BY <1>7 DEF Tell
    <3>3. \A i \in DOMAIN events : events[i].version # pod'.version
      BY <2>1, <2>2 DEF Known
    <3> HIDE DEF e
    <3>4. events' \in Seq(Event)
      <4>1. e \in Event /\ events \in Seq(Event)
        BY <3>1
      <4> QED  BY <3>2, <4>1
    <3>5. \A i \in DOMAIN events' :
            \/ i \in DOMAIN events /\ events'[i] = events[i]
            \/ events'[i] = e
      BY <3>1, <3>2, SMTT(30)
    <3> QED  BY <3>1, <3>3, <3>4, <3>5 DEF EventsAreOfPod
  <2> QED  BY <1>1, <1>2, <1>4, <1>5, <2>2, <2>3, <2>4
<1> QED  BY <1>6, <1>7 DEF Report

LEMMA ReloadStep ==
  ASSUME ReloadInv, [ReloadNext]_reloadVars
  PROVE  ReloadInv' /\ StatusKept
<1>1. CASE UNCHANGED reloadVars
  BY <1>1
  DEF reloadVars, ReloadInv, ReloadTypes, EventsAreOfPod, WorkIsOfPod,
      SentOnceFetched, ReportsOutcome, StatusKept
<1>2. CASE Start \/ ReceiveHangup \/ List \/ ReadFile
  <2> USE DEF ReloadInv, ReloadTypes
  <2>1. CASE Start
    BY <2>1
    DEF Start, sources, EventsAreOfPod, WorkIsOfPod, SentOnceFetched,
        ReportsOutcome, StatusKept
  <2>2. CASE List
    <3> DEFINE e == [kind |-> "apply", version |-> pod.version, spec |-> pod.spec]
    <3>0. e \in Event /\ (events' = <<e>> \/ events' = <<>>)
      BY <2>2 DEF List, Event
    <3>1. events' \in Seq(Event)
      <4> HIDE DEF e
      <4>1. e \in Event
        BY <3>0
      <4>2. <<e>> \in Seq(Event) /\ <<>> \in Seq(Event)
        BY <4>1
      <4> QED  BY <3>0, <4>2, Zenon
    <3>2. EventsAreOfPod' /\ UNCHANGED <<pod, task, chan, file>>
      BY <2>2 DEF List, EventsAreOfPod
    <3> QED
      BY <3>1, <3>2 DEF WorkIsOfPod, SentOnceFetched, ReportsOutcome, StatusKept
  <2>3. CASE ReceiveHangup \/ ReadFile
    <3>1. /\ task["sighup"] \in Work
          /\ task["sighup"].at \in {"idle", "read"}
          /\ UNCHANGED <<pod, events, chan, file>>
      BY <2>3 DEF ReceiveHangup, ReadFile, sources, Source
    <3>2. task' \in [Source -> Work]
      <4> DEFINE w == task["sighup"]
      <4>1. Read(file) \in Manifest
        BY ReloadAssumption DEF Read, Content
      <4>2. /\ [w EXCEPT !.at = "read"] \in Work
            /\ [w EXCEPT !.at = "load", !.manifest = Read(file)] \in Work
        BY <3>1, <4>1 DEF Work
      <4>3. \/ task' = [task EXCEPT !["sighup"] = [w EXCEPT !.at = "read"]]
            \/ task' = [task EXCEPT !["sighup"] =
                          [w EXCEPT !.at = "load", !.manifest = Read(file)]]
        BY <2>3 DEF ReceiveHangup, ReadFile
      <4> HIDE DEF w
      <4> QED  BY <4>2, <4>3
    <3>3. task'["k8s"] = task["k8s"]
      BY <2>3 DEF ReceiveHangup, ReadFile, Source
    <3>4. \A i \in DOMAIN chan : chan[i] \in Source /\ chan[i] # "sighup"
      BY <3>1 DEF SentOnceFetched
    <3>5. \A i \in DOMAIN chan : chan[i] = "k8s"
      BY <3>4 DEF Source
    <3>6. SentOnceFetched'
      BY <3>1, <3>3, <3>5 DEF SentOnceFetched
    <3> QED
      BY <3>1, <3>2, <3>3, <3>6
      DEF EventsAreOfPod, WorkIsOfPod, ReportsOutcome, StatusKept
  <2> QED  BY <1>2, <2>1, <2>2, <2>3
<1> QED
  BY <1>1, <1>2, UsersStep, ReceiveStep, LoadStep, EngineStep, ReportStep
  DEF ReloadNext, SighupTask, K8sTask, Source

(***************************************************************************)
(* StatusIsOfSpec: whatever users do to the pod while its manifest is      *)
(* fetched and applied, a status that main writes into it is an outcome of *)
(* the spec that it has then, for any manifests, errors, versions and any  *)
(* number of changes.                                                      *)
(***************************************************************************)
THEOREM StatusesAreOfSpecs == ReloadSpec => StatusIsOfSpec
<1>1. ReloadInit => ReloadInv
  BY ReloadStart DEF ReloadInit
<1>2. ReloadInv /\ [ReloadNext]_reloadVars => ReloadInv'
  BY ReloadStep
<1>3. ReloadInv /\ [ReloadNext]_reloadVars =>
        [pod.exists /\ pod'.exists /\ pod'.status # pod.status
           => /\ task["k8s"].manifest = pod'.spec
              /\ pod'.status \in Outcomes(pod'.spec)]_reloadVars
  BY ReloadStep DEF StatusKept
<1> QED  BY <1>1, <1>2, <1>3, PTL DEF ReloadSpec, StatusIsOfSpec

-----------------------------------------------------------------------------
(***************************************************************************)
(* HttpFields.  A child has the collection of the request; the collection  *)
(* of a parent is nobody else's, neither the request's, nor the response's *)
(* nor another handle's; and what the host holds is as it came.            *)
(***************************************************************************)
ChildrenShare ==
  \A h \in Handle : handle[h].kind = "child" => handle[h].coll = RequestColl

ParentsOwn ==
  \A h \in Handle :
    handle[h].kind = "parent" =>
      /\ handle[h].coll # RequestColl
      /\ response.at = "held" => handle[h].coll # response.coll
      /\ \A k \in Handle : k # h /\ Live(k) => handle[k].coll # handle[h].coll

HostKeeps ==
  /\ map[RequestColl] = RequestMap
  /\ response.at = "held" => map[response.coll] = created
  /\ \A c \in Referred, n \in Forbidden : map[c][n] \in {<<>>, RequestMap[n]}

FieldsInv == FieldsTypeOK /\ ChildrenShare /\ ParentsOwn /\ HostKeeps

-----------------------------------------------------------------------------
(***************************************************************************)
(* A set of numbers that is not empty has a least one.                     *)
(***************************************************************************)
LEMMA PartOfInterval ==
  ASSUME NEW n \in Nat, NEW S \in SUBSET (1 .. n)
  PROVE  IsFiniteSet(S) /\ Cardinality(S) \in 0 .. n
<1>1. IsFiniteSet(1 .. n) /\ Cardinality(1 .. n) = n
  BY FS_Interval
<1>2. IsFiniteSet(S) /\ Cardinality(S) <= n
  BY <1>1, FS_Subset
<1>3. Cardinality(S) \in Nat
  BY <1>2, FS_CardinalityType
<1> QED  BY <1>2, <1>3

LEMMA LeastOf ==
  ASSUME NEW S, IsFiniteSet(S), S # {}, \A i \in S : i \in Nat
  PROVE  Min(S) \in S
<1> DEFINE upTo(i) == {j \in S : j <= i}
           starts == {upTo(i) : i \in S}
<1>2. starts \in SUBSET SUBSET S /\ starts # {}
  OBVIOUS
<1>3. PICK m \in starts : \A s \in starts : s \subseteq m => s = m
  <2> HIDE DEF starts
  <2> QED  BY <1>2, MinimalSubset
<1>4. PICK i \in S : m = upTo(i)
  OBVIOUS
<1>5. ASSUME NEW j \in S
      PROVE  i <= j
  <2> SUFFICES ASSUME j < i
               PROVE  FALSE
    OBVIOUS
  <2>1. \A k \in S : k <= j => k <= i
    OBVIOUS
  <2>2. upTo(j) \subseteq upTo(i)
    BY <2>1
  <2>4. i \in upTo(i) /\ i \notin upTo(j)
    OBVIOUS
  <2>3. upTo(j) \in starts
    OBVIOUS
  <2> QED  BY <1>3, <1>4, <2>2, <2>3, <2>4
<1> QED  BY <1>5 DEF Min

(***************************************************************************)
(* The first error is one of them, and there is none if it is not.         *)
(***************************************************************************)
LEMMA FirstErrorIs ==
  ASSUME NEW n \in Nat, NEW errors, DOMAIN errors = 1 .. n,
         \A i \in 1 .. n : errors[i] \in Errors \cup {"ok"}
  PROVE  /\ FirstError(errors) \in Errors \cup {"ok"}
         /\ FirstError(errors) = "ok" => \A i \in 1 .. n : errors[i] = "ok"
<1> DEFINE bad == {i \in 1 .. n : errors[i] # "ok"}
<1>1. bad # {} => Min(bad) \in bad
  <2>1. bad \in SUBSET (1 .. n) /\ \A i \in bad : i \in Nat
    OBVIOUS
  <2> HIDE DEF bad
  <2>2. IsFiniteSet(bad)
    BY <2>1, PartOfInterval
  <2> QED  BY <2>1, <2>2, LeastOf
<1>2. FirstError(errors) = IF bad = {} THEN "ok" ELSE errors[Min(bad)]
  BY DEF FirstError
<1> QED  BY <1>1, <1>2

LEMMA NamesErrors ==
  \A n \in Names : /\ NameError(n) \in Errors \cup {"ok"}
                   /\ NameError(n) = "ok" => n \in Name \ Forbidden
BY FieldsAssumption DEF NameError, Names, Errors

LEMMA ValueIs ==
  \A n \in Name, v \in Raw :
    /\ ValueError(n, v) \in Errors \cup {"ok"}
    /\ ValueError(n, v) = "ok" => Parsed[n, v] \in Value
BY DEF ValueError, Value, Errors

LEMMA ValuesAre ==
  ASSUME NEW n \in Names, NEW vs \in BoundedSeq(Raw, MaxValues)
  PROVE  /\ ValuesError(n, vs) \in Errors \cup {"ok"}
         /\ n \in Name /\ ValuesError(n, vs) = "ok" =>
              ValuesOf(n, vs) \in BoundedSeq(Value, MaxValues)
<1>1. PICK m \in 0 .. MaxValues : vs \in [1 .. m -> Raw]
  BY DEF BoundedSeq, SeqOf
<1>2. m \in Nat
  BY FieldsAssumption
<1>3. CASE n \in Name
  <2> DEFINE errors == [i \in 1 .. m |-> ValueError(n, vs[i])]
  <2>1. \A i \in 1 .. m : errors[i] \in Errors \cup {"ok"}
    BY <1>1, <1>3, ValueIs
  <2>2. ValuesError(n, vs) = FirstError(errors)
    BY <1>1, <1>3 DEF ValuesError
  <2>3. /\ FirstError(errors) \in Errors \cup {"ok"}
        /\ FirstError(errors) = "ok" => \A i \in 1 .. m : errors[i] = "ok"
    BY <1>2, <2>1, FirstErrorIs
  <2>4. ASSUME ValuesError(n, vs) = "ok"
        PROVE  ValuesOf(n, vs) \in [1 .. m -> Value]
    BY <1>1, <1>3, <2>2, <2>3, <2>4, ValueIs DEF ValuesOf
  <2> QED  BY <2>2, <2>3, <2>4 DEF BoundedSeq, SeqOf
<1>4. CASE n \notin Name
  BY <1>4 DEF ValuesError
<1> QED  BY <1>3, <1>4

-----------------------------------------------------------------------------
(***************************************************************************)
(* The k-th member of a set of numbers, from the first to the last: there  *)
(* is one, since ranks are different.                                      *)
(***************************************************************************)
LEMMA NthIs ==
  ASSUME NEW n \in Nat, NEW at \in SUBSET (1 .. n)
  PROVE  /\ Cardinality(at) \in 0 .. n
         /\ \A k \in 1 .. Cardinality(at) : Nth(at, k) \in at
<1> DEFINE upTo(i) == {j \in at : j <= i}
           rank == [i \in at |-> Cardinality(upTo(i))]
           size == Cardinality(at)
<1>1. IsFiniteSet(at) /\ size \in 0 .. n /\ \A i \in at : i \in Nat
  BY PartOfInterval
<1>2. \A i \in at : /\ upTo(i) \subseteq at /\ IsFiniteSet(upTo(i))
                    /\ Cardinality(upTo(i)) \in 1 .. size
  <2> TAKE i \in at
  <2>1. upTo(i) \subseteq at /\ IsFiniteSet(upTo(i)) /\ i \in upTo(i)
    BY <1>1, FS_Subset
  <2>2. Cardinality(upTo(i)) \in Nat /\ Cardinality(upTo(i)) <= size
    BY <1>1, <2>1, FS_Subset, FS_CardinalityType
  <2>3. Cardinality(upTo(i)) # 0
    BY <2>1, FS_EmptySet
  <2> QED  BY <1>1, <2>1, <2>2, <2>3
<1>3. \A i, j \in at : i < j => Cardinality(upTo(i)) # Cardinality(upTo(j))
  <2> TAKE i, j \in at
  <2> HAVE i < j
  <2>1. \A k \in at : k <= i => k <= j
    BY <1>1
  <2>2. upTo(i) \subseteq upTo(j)
    BY <2>1
  <2>3. j \in upTo(j) /\ j \notin upTo(i)
    BY <1>1
  <2> HIDE DEF upTo
  <2> QED  BY <1>2, <2>2, <2>3, FS_Subset
<1>4. rank \in Injection(at, 1 .. size)
  <2>1. \A i \in at : rank[i] = Cardinality(upTo(i))
    OBVIOUS
  <2>2. rank \in [at -> 1 .. size]
    BY <1>2
  <2>3. \A i, j \in at : rank[i] = rank[j] => i = j
    <3> HIDE DEF rank, upTo
    <3> QED  BY <1>3, <2>1
  <2> HIDE DEF rank
  <2> QED  BY <2>2, <2>3 DEF Injection, IsInjective
<1>5. IsFiniteSet(1 .. size) /\ Cardinality(1 .. size) = size
  BY <1>1, FS_Interval
<1>6. rank \in Surjection(at, 1 .. size)
  <2> HIDE DEF rank
  <2> QED  BY <1>4, <1>5, FS_Injection
<1>7. ASSUME NEW k \in 1 .. size
      PROVE  Nth(at, k) \in at
  <2>1. PICK i \in at : rank[i] = k
    <3> HIDE DEF rank
    <3> QED  BY <1>6 DEF Surjection
  <2>2. Cardinality({j \in at : j <= i}) = k
    BY <2>1
  <2> QED  BY <2>2 DEF Nth
<1> QED  BY <1>1, <1>7

(***************************************************************************)
(* A list without errors makes a map, in which no guest may have what is   *)
(* forbidden.                                                              *)
(***************************************************************************)
LEMMA MapIs ==
  ASSUME NEW entries \in BoundedSeq(Entry, MaxValues)
  PROVE  /\ ListError(entries) \in Errors \cup {"ok"}
         /\ ListError(entries) = "ok" =>
              /\ MapOf(entries) \in HeaderMap
              /\ \A n \in Forbidden : MapOf(entries)[n] = <<>>
<1>1. PICK m \in 0 .. MaxValues : entries \in [1 .. m -> Entry]
  BY DEF BoundedSeq, SeqOf
<1>2. m \in Nat
  BY FieldsAssumption
<1> DEFINE errors == [i \in 1 .. m |-> EntryError(entries[i])]
<1>3. \A e \in Entry : /\ EntryError(e) \in Errors \cup {"ok"}
                       /\ EntryError(e) = "ok" =>
                            /\ e.name \in Name \ Forbidden
                            /\ Parsed[e.name, e.value] \in Value
  BY NamesErrors, ValueIs DEF EntryError, Entry
<1>4. \A i \in 1 .. m : errors[i] \in Errors \cup {"ok"}
  BY <1>1, <1>3
<1>5. ListError(entries) = FirstError(errors)
  BY <1>1 DEF ListError
<1>6. /\ FirstError(errors) \in Errors \cup {"ok"}
      /\ FirstError(errors) = "ok" => \A i \in 1 .. m : errors[i] = "ok"
  BY <1>2, <1>4, FirstErrorIs
<1>7. ASSUME ListError(entries) = "ok"
      PROVE  /\ MapOf(entries) \in HeaderMap
             /\ \A n \in Forbidden : MapOf(entries)[n] = <<>>
  <2> DEFINE at(n) == {i \in 1 .. m : entries[i].name = n}
             size(n) == Cardinality(at(n))
  <2>1. \A i \in 1 .. m : /\ entries[i].name \in Name \ Forbidden
                          /\ Parsed[entries[i].name, entries[i].value] \in Value
    BY <1>1, <1>3, <1>5, <1>6, <1>7
  <2>2. \A n \in Name :
          /\ size(n) \in 0 .. m
          /\ \A k \in 1 .. size(n) : Nth(at(n), k) \in at(n)
    <3> TAKE n \in Name
    <3>1. at(n) \in SUBSET (1 .. m)
      OBVIOUS
    <3> HIDE DEF at
    <3> QED  BY <1>2, <3>1, NthIs
  <2>3. MapOf(entries) =
          [n \in Name |->
             [k \in 1 .. size(n) |-> Parsed[n, entries[Nth(at(n), k)].value]]]
    BY <1>1 DEF MapOf, ValuesOf
  <2>4. ASSUME NEW n \in Name
        PROVE  MapOf(entries)[n] \in BoundedSeq(Value, MaxValues)
    <3>1. \A k \in 1 .. size(n) :
            Parsed[n, entries[Nth(at(n), k)].value] \in Value
      BY <2>1, <2>2
    <3>2. size(n) \in 0 .. MaxValues
      BY <1>2, <2>2, FieldsAssumption
    <3>4. MapOf(entries)[n] =
            [k \in 1 .. size(n) |-> Parsed[n, entries[Nth(at(n), k)].value]]
      BY <2>3
    <3> HIDE DEF at, size
    <3>3. MapOf(entries)[n] \in [1 .. size(n) -> Value]
      BY <3>1, <3>4
    <3> QED  BY <3>2, <3>3 DEF BoundedSeq, SeqOf
  <2>5. ASSUME NEW n \in Forbidden
        PROVE  MapOf(entries)[n] = <<>>
    <3>1. at(n) = {} /\ n \in Name
      BY <2>1, FieldsAssumption
    <3>2. size(n) = 0
      BY <3>1, FS_EmptySet
    <3>3. 1 .. size(n) = {}
      BY <3>2
    <3>4. MapOf(entries)[n] =
            [k \in 1 .. size(n) |-> Parsed[n, entries[Nth(at(n), k)].value]]
      BY <2>3, <3>1
    <3> DEFINE x == MapOf(entries)[n]
    <3>5. x \in [1 .. 0 -> Value]
      BY <3>2, <3>3, <3>4
    <3> HIDE DEF x
    <3>6. x \in Seq(Value) /\ Len(x) = 0
      BY <3>5
    <3>7. x = <<>>
      BY <3>6
    <3> QED  BY <3>7 DEF x
  <2>6. DOMAIN MapOf(entries) = Name /\ MapOf(entries) = [n \in Name |-> MapOf(entries)[n]]
    BY DEF MapOf
  <2> QED  BY <2>4, <2>5, <2>6 DEF HeaderMap
<1> QED  BY <1>5, <1>6, <1>7
-----------------------------------------------------------------------------
(***************************************************************************)
(* There is always a collection that is not in use: the free index of the  *)
(* table is one for it, and two more are kept for request and response.    *)
(***************************************************************************)
LEMMA FreshIs ==
  ASSUME FieldsTypeOK, HasRoom
  PROVE  Fresh \in Coll /\ Fresh \notin Referred
<1> DEFINE live == {h \in Handle : Live(h)}
           inUse == {handle[h].coll : h \in live}
           all == inUse \cup {RequestColl} \cup {response.coll}
<1>1. /\ IsFiniteSet(live) /\ Cardinality(live) < Cardinality(Handle)
      /\ Cardinality(Handle) \in Nat /\ Cardinality(live) \in Nat
  <2>1. PICK h \in Handle : h \notin live
    BY DEF HasRoom, Free, Live
  <2>2. live \in SUBSET Handle /\ live # Handle
    BY <2>1
  <2> HIDE DEF live
  <2>3. /\ IsFiniteSet(live) /\ Cardinality(live) <= Cardinality(Handle)
        /\ Cardinality(live) # Cardinality(Handle)
    BY <2>2, FS_Subset, FieldsAssumption
  <2> QED  BY <2>3, FS_CardinalityType, FieldsAssumption
<1>2. IsFiniteSet(inUse) /\ Cardinality(inUse) <= Cardinality(live)
  <2> DEFINE f == [h \in live |-> handle[h].coll]
  <2>1. f \in Surjection(live, inUse)
    BY DEF Surjection
  <2> HIDE DEF f, live, inUse
  <2> QED  BY <1>1, <2>1, FS_Surjection
<1>3. IsFiniteSet(all) /\ Cardinality(all) <= Cardinality(Handle) + 1
  <2> DEFINE some == inUse \cup {RequestColl}
  <2> HIDE DEF inUse
  <2>1. Cardinality(inUse) \in Nat
    BY <1>2, FS_CardinalityType
  <2>2. IsFiniteSet(some) /\ Cardinality(some) \in {Cardinality(inUse), Cardinality(inUse) + 1}
    BY <1>2, FS_AddElement
  <2>3. all = some \cup {response.coll}
    OBVIOUS
  <2> HIDE DEF some
  <2>4. /\ IsFiniteSet(some \cup {response.coll})
        /\ Cardinality(some \cup {response.coll})
             \in {Cardinality(some), Cardinality(some) + 1}
    BY <2>2, FS_AddElement
  <2>5. Cardinality(some) \in Nat /\ Cardinality(some) <= Cardinality(inUse) + 1
    BY <2>1, <2>2
  <2> HIDE DEF all
  <2>6. IsFiniteSet(all) /\ Cardinality(all) <= Cardinality(some) + 1
    BY <2>3, <2>4, <2>5
  <2>7. Cardinality(all) \in Nat
    BY <2>6, FS_CardinalityType
  <2> QED  BY <1>1, <1>2, <2>1, <2>5, <2>6, <2>7
<1>4. ~ (Coll \subseteq all)
  <2> HIDE DEF all
  <2> SUFFICES ASSUME Coll \subseteq all
               PROVE  FALSE
    OBVIOUS
  <2>1. Cardinality(Coll) <= Cardinality(all)
    BY <1>3, FS_Subset
  <2>2. Cardinality(Coll) \in Nat /\ Cardinality(all) \in Nat
    BY <1>3, FS_CardinalityType, FieldsAssumption
  <2> QED  BY <1>1, <1>3, <2>1, <2>2, FieldsAssumption
<1>5. Referred \subseteq all
  BY DEF Referred, ReferredBy, Live
<1>6. \E c \in Coll : c \notin Referred
  <2> HIDE DEF all
  <2> QED  BY <1>4, <1>5
<1> QED  BY <1>6 DEF Fresh

LEMMA EmptyValues == <<>> \in BoundedSeq(Value, MaxValues)
<1>1. 0 \in 0 .. MaxValues /\ <<>> \in [1 .. 0 -> Value]
  BY FieldsAssumption
<1> QED  BY <1>1, Zenon DEF BoundedSeq, SeqOf

LEMMA EmptyIs == Empty \in HeaderMap
BY EmptyValues DEF Empty, HeaderMap

LEMMA IndexIs ==
  ASSUME HasRoom
  PROVE  Index \in Handle /\ Free(Index)
BY DEF HasRoom, Index

-----------------------------------------------------------------------------
(***************************************************************************)
(* A new collection is a parent's, and nobody has referred to it before.   *)
(***************************************************************************)
LEMMA PushKeeps ==
  ASSUME FieldsInv, NEW m \in HeaderMap,
         \A n \in Forbidden : m[n] \in {<<>>, RequestMap[n]}, Push(m)
  PROVE  FieldsInv' /\ OwnWrite
<1> DEFINE i == Index
           f == Fresh
<1>1. i \in Handle /\ handle[i].kind = "none" /\ f \in Coll /\ f \notin Referred
  BY FreshIs, IndexIs DEF Push, FieldsInv, Free
<1>2. /\ handle' = [handle EXCEPT ![i] = [kind |-> "parent", coll |-> f]]
      /\ map' = [map EXCEPT ![f] = m]
      /\ result' = "ok" /\ UNCHANGED <<request, response, created>>
  BY DEF Push
<1> HIDE DEF i, f
<1>3. FieldsTypeOK'
  BY <1>1, <1>2 DEF FieldsInv, FieldsTypeOK, Handles
<1>4. /\ f # RequestColl
      /\ response.at = "held" => f # response.coll
      /\ \A h \in Handle : Live(h) => handle[h].coll # f
  BY <1>1 DEF Referred, ReferredBy, Live
<1>5. ChildrenShare'
  BY <1>1, <1>2 DEF FieldsInv, FieldsTypeOK, ChildrenShare
<1>6. ParentsOwn'
  BY <1>1, <1>2, <1>4 DEF FieldsInv, FieldsTypeOK, ParentsOwn, Live
<1>7. HostKeeps'
  <2>1. Referred' = Referred \cup {f}
    BY <1>1, <1>2 DEF FieldsInv, FieldsTypeOK, Referred, ReferredBy
  <2>2. Referred \subseteq Coll
    BY FieldsAssumption DEF Referred, ReferredBy, FieldsInv, FieldsTypeOK, Handles
  <2> QED  BY <1>1, <1>2, <1>4, <2>1, <2>2 DEF FieldsInv, FieldsTypeOK, HostKeeps
<1>8. handle' # handle /\ result' \notin Errors
  BY <1>1, <1>2 DEF FieldsInv, FieldsTypeOK, Errors
<1> QED  BY <1>3, <1>5, <1>6, <1>7, <1>8 DEF FieldsInv, OwnWrite

(***************************************************************************)
(* Nobody can refer to more than before, and what is referred to has not   *)
(* changed.                                                                *)
(***************************************************************************)
LEMMA LessKeeps ==
  ASSUME FieldsInv, FieldsTypeOK', response' = response \/ response'.at # "held",
         \A h \in Handle : handle'[h] = handle[h] \/ handle'[h].kind = "none",
         \A c \in Coll : c \in Referred' => map'[c] = map[c],
         response'.at = "held" => created' = created
  PROVE  FieldsInv'
<1>1. ChildrenShare'
  BY DEF FieldsInv, ChildrenShare
<1>2. ParentsOwn'
  BY DEF FieldsInv, ParentsOwn, Live
<1>3. HostKeeps'
  <2>1. Referred' \subseteq Referred
    BY DEF Referred, ReferredBy
  <2>2. Referred \subseteq Coll
    BY FieldsAssumption DEF Referred, ReferredBy, FieldsInv, FieldsTypeOK, Handles
  <2>3. RequestColl \in Referred' /\ response'.at = "held" => response'.coll \in Referred'
    BY DEF Referred, ReferredBy
  <2> QED  BY <2>1, <2>2, <2>3 DEF FieldsInv, HostKeeps, Referred, ReferredBy
<1> QED  BY <1>1, <1>2, <1>3 DEF FieldsInv

LEMMA FailsKeep ==
  ASSUME FieldsInv, NEW how \in Errors \cup {"trap"}, Fails(how)
  PROVE  FieldsInv' /\ OwnWrite
<1>1. FieldsTypeOK'
  BY DEF FieldsInv, FieldsTypeOK, Fails
<1>2. FieldsInv'
  BY <1>1, LessKeeps DEF Fails
<1>3. OwnWrite
  BY DEF Fails, OwnWrite, Seen, Live
<1> QED  BY <1>2, <1>3

LEMMA DropFieldsKeeps ==
  ASSUME FieldsInv, NEW h \in Handle, DropFields(h)
  PROVE  FieldsInv' /\ OwnWrite
<1>1. /\ handle' = [handle EXCEPT ![h] = None] /\ map' = Collected(handle', response)
      /\ result' = "ok" /\ UNCHANGED <<request, response, created>>
      /\ handle[h].kind # "none"
  BY DEF DropFields, Live
<1>2. Empty \in HeaderMap
  BY EmptyIs
<1>3. FieldsTypeOK'
  BY <1>1, <1>2, FieldsAssumption
     DEF FieldsInv, FieldsTypeOK, Collected, Handles, None
<1>4. \A c \in Coll : c \in Referred' => map'[c] = map[c]
  BY <1>1 DEF Collected, Referred
<1>5. FieldsInv'
  BY <1>1, <1>3, <1>4, LessKeeps DEF FieldsInv, FieldsTypeOK, None
<1>6. handle' # handle /\ result' \notin Errors
  BY <1>1 DEF FieldsInv, FieldsTypeOK, Errors, None
<1> QED  BY <1>5, <1>6 DEF OwnWrite

LEMMA HeadersKeep ==
  ASSUME FieldsInv, Headers
  PROVE  FieldsInv' /\ OwnWrite
<1> DEFINE i == Index
<1>1. i \in Handle /\ handle[i].kind = "none"
  BY IndexIs DEF Headers, Free
<1>2. /\ handle' = [handle EXCEPT ![i] = [kind |-> "child", coll |-> RequestColl]]
      /\ result' = "ok" /\ UNCHANGED <<map, request, response, created>>
  BY DEF Headers
<1> HIDE DEF i
<1>3. FieldsTypeOK'
  BY <1>1, <1>2, FieldsAssumption DEF FieldsInv, FieldsTypeOK, Handles
<1>4. ChildrenShare' /\ ParentsOwn'
  BY <1>1, <1>2 DEF FieldsInv, FieldsTypeOK, ChildrenShare, ParentsOwn, Live
<1>5. Referred' = Referred
  BY <1>1, <1>2 DEF FieldsInv, FieldsTypeOK, Referred, ReferredBy
<1>6. HostKeeps'
  BY <1>2, <1>5 DEF FieldsInv, HostKeeps
<1>7. handle' # handle /\ result' \notin Errors
  BY <1>1, <1>2 DEF FieldsInv, FieldsTypeOK, Errors
<1> QED  BY <1>3, <1>4, <1>6, <1>7 DEF FieldsInv, OwnWrite

LEMMA DropRequestKeeps ==
  ASSUME FieldsInv, DropRequest
  PROVE  FieldsInv' /\ OwnWrite
<1>1. CASE Fails("trap")
  BY <1>1, FailsKeep
<1>2. CASE /\ request' = "dropped" /\ result' = "ok"
           /\ UNCHANGED <<map, handle, response, created>>
  <2>1. FieldsTypeOK'
    BY <1>2 DEF FieldsInv, FieldsTypeOK
  <2>2. FieldsInv'
    BY <1>2, <2>1, LessKeeps
  <2>3. OwnWrite
    BY <1>2 DEF OwnWrite, Seen, Live
  <2> QED  BY <2>2, <2>3
<1> QED  BY <1>1, <1>2 DEF DropRequest

(***************************************************************************)
(* The response takes the place of the handle.                             *)
(***************************************************************************)
LEMMA NewResponseKeeps ==
  ASSUME FieldsInv, NEW h \in Handle, NewResponse(h)
  PROVE  FieldsInv' /\ OwnWrite
<1> DEFINE c == handle[h].coll
<1>1. /\ handle[h].kind # "none" /\ handle' = [handle EXCEPT ![h] = None]
      /\ response.at = "none" /\ response' = [at |-> "held", coll |-> c]
      /\ created' = map[c] /\ result' = "ok" /\ UNCHANGED <<map, request>>
  BY DEF NewResponse, Live
<1>2. handle[h].kind \in {"child", "parent"} /\ c \in Coll
  BY <1>1 DEF FieldsInv, FieldsTypeOK, Handles
<1>3. FieldsTypeOK'
  <2>1. map[c] \in HeaderMap
    BY <1>2 DEF FieldsInv, FieldsTypeOK
  <2> QED  BY <1>1, <1>2, <2>1, FieldsAssumption
           DEF FieldsInv, FieldsTypeOK, Handles, None
<1>4. ChildrenShare'
  BY <1>1 DEF FieldsInv, FieldsTypeOK, ChildrenShare, None
<1>5. \A k \in Handle : k # h /\ handle[k].kind = "parent" => handle[k].coll # c
  BY <1>1 DEF FieldsInv, ParentsOwn, Live
<1>6. \A k \in Handle : handle'[k] = IF k = h THEN None ELSE handle[k]
  BY <1>1 DEF FieldsInv, FieldsTypeOK
<1>7. ParentsOwn'
  BY <1>1, <1>5, <1>6 DEF FieldsInv, ParentsOwn, Live, None
<1>8. HostKeeps'
  <2>1. Referred' \subseteq Referred
    BY <1>1, <1>6 DEF Referred, ReferredBy, None
  <2> QED  BY <1>1, <2>1 DEF FieldsInv, HostKeeps
<1>9. handle' # handle /\ result' \notin Errors
  BY <1>1, <1>6 DEF FieldsInv, FieldsTypeOK, Errors, None
<1> QED  BY <1>3, <1>4, <1>7, <1>8, <1>9 DEF FieldsInv, OwnWrite

LEMMA EndResponseKeeps ==
  ASSUME FieldsInv, NEW how \in {"sent", "dropped"}, EndResponse(how)
  PROVE  FieldsInv' /\ OwnWrite
<1>1. /\ response' = [at |-> how, coll |-> RequestColl]
      /\ map' = Collected(handle, response') /\ created' = Empty
      /\ result' = "ok" /\ UNCHANGED <<handle, request>>
  BY DEF EndResponse
<1>2. Empty \in HeaderMap
  BY EmptyIs
<1>3. FieldsTypeOK'
  BY <1>1, <1>2, FieldsAssumption DEF FieldsInv, FieldsTypeOK, Collected
<1>4. \A c \in Coll : c \in Referred' => map'[c] = map[c]
  BY <1>1 DEF Collected, Referred
<1>5. FieldsInv'
  BY <1>1, <1>3, <1>4, LessKeeps
<1>6. \A h \in Handle : Seen(h)' = Seen(h)
  <2> TAKE h \in Handle
  <2>1. Live(h) => handle[h].coll \in Coll /\ handle'[h].coll \in Referred'
    BY <1>1 DEF FieldsInv, FieldsTypeOK, Handles, Live, Referred, ReferredBy
  <2> QED  BY <1>1, <1>4, <2>1 DEF Seen, Live
<1>7. OwnWrite
  BY <1>1, <1>6 DEF OwnWrite, Errors
<1> QED  BY <1>5, <1>7

-----------------------------------------------------------------------------
(***************************************************************************)
(* A write goes to the collection of a parent, under a name that is not    *)
(* forbidden, or fails.                                                    *)
(***************************************************************************)
LEMMA WriteKeeps ==
  ASSUME FieldsInv, NEW h \in Handle, NEW n \in Names,
         NEW error \in Errors \cup {"ok"}, NEW values,
         n \in Name /\ error = "ok" => values \in BoundedSeq(Value, MaxValues),
         Write(h, n, error, values)
  PROVE  FieldsInv' /\ OwnWrite
<1> DEFINE last == IF Immutable(h) THEN "immutable" ELSE "ok"
           errors == <<NameError(n), error, last>>
           c == handle[h].coll
<1>1. /\ FirstError(errors) \in Errors \cup {"ok"}
      /\ FirstError(errors) = "ok" =>
           NameError(n) = "ok" /\ error = "ok" /\ last = "ok"
  <2>1. DOMAIN errors = 1 .. 3
    OBVIOUS
  <2>2. /\ errors[1] = NameError(n) /\ errors[2] = error /\ errors[3] = last
    OBVIOUS
  <2>3. last \in Errors \cup {"ok"} /\ NameError(n) \in Errors \cup {"ok"}
    BY NamesErrors DEF Errors
  <2> HIDE DEF errors, last
  <2>4. 1 \in 1 .. 3 /\ 2 \in 1 .. 3 /\ 3 \in 1 .. 3
    OBVIOUS
  <2>5. \A i \in 1 .. 3 : i = 1 \/ i = 2 \/ i = 3
    OBVIOUS
  <2>6. \A i \in 1 .. 3 : errors[i] \in Errors \cup {"ok"}
    BY <2>2, <2>3, <2>5
  <2>7. /\ FirstError(errors) \in Errors \cup {"ok"}
        /\ FirstError(errors) = "ok" => \A i \in 1 .. 3 : errors[i] = "ok"
    BY <2>1, <2>6, FirstErrorIs
  <2> QED  BY <2>2, <2>4, <2>7
<1>2. CASE FirstError(errors) # "ok"
  <2>1. Fails(FirstError(errors))
    BY <1>2 DEF Write
  <2> HIDE DEF errors
  <2> QED  BY <1>1, <1>2, <2>1, FailsKeep
<1>3. CASE FirstError(errors) = "ok"
  <2>1. /\ map' = [map EXCEPT ![c][n] = values] /\ result' = "ok"
        /\ UNCHANGED <<handle, request, response, created>> /\ Live(h)
    BY <1>3 DEF Write, Fails
  <2>2. /\ handle[h].kind = "parent" /\ c \in Coll
    BY <1>1, <1>3, <2>1 DEF Immutable, Live, FieldsInv, FieldsTypeOK, Handles
  <2>3. /\ n \in Name \ Forbidden /\ values \in BoundedSeq(Value, MaxValues)
    BY <1>1, <1>3, NamesErrors
  <2> HIDE DEF errors, last, c
  <2>4. /\ map' \in [Coll -> HeaderMap]
        /\ \A d \in Coll : d # c => map'[d] = map[d]
        /\ \A k \in Forbidden : map'[c][k] = map[c][k]
    BY <2>1, <2>2, <2>3, FieldsAssumption DEF FieldsInv, FieldsTypeOK, HeaderMap
  <2>5. FieldsTypeOK'
    BY <2>1, <2>4 DEF FieldsInv, FieldsTypeOK
  <2>6. ChildrenShare' /\ ParentsOwn'
    BY <2>1 DEF FieldsInv, ChildrenShare, ParentsOwn, Live
  <2>7. /\ c # RequestColl
        /\ response.at = "held" => c # response.coll
        /\ \A k \in Handle : k # h /\ Live(k) => handle[k].coll # c
    BY <2>2 DEF FieldsInv, ParentsOwn, c
  <2>8. HostKeeps'
    <3>1. Referred' = Referred /\ Referred \subseteq Coll
      BY <2>1, FieldsAssumption
         DEF Referred, ReferredBy, FieldsInv, FieldsTypeOK, Handles
    <3>2. RequestColl \in Coll /\ response.coll \in Coll
      BY FieldsAssumption DEF FieldsInv, FieldsTypeOK
    <3> QED  BY <2>1, <2>4, <2>7, <3>1, <3>2 DEF FieldsInv, HostKeeps
  <2>9. \A k \in Handle : k # h => Seen(k)' = Seen(k)
    BY <2>1, <2>4, <2>7 DEF Seen, Live, FieldsInv, FieldsTypeOK, Handles
  <2>10. OwnWrite
    BY <2>1, <2>9 DEF OwnWrite, Errors
  <2> QED  BY <2>5, <2>6, <2>8, <2>10 DEF FieldsInv
<1> QED  BY <1>2, <1>3

LEMMA SetKeeps ==
  ASSUME FieldsInv, NEW h \in Handle, NEW n \in Names,
         NEW vs \in BoundedSeq(Raw, MaxValues), Set(h, n, vs)
  PROVE  FieldsInv' /\ OwnWrite
<1> DEFINE values == IF n \in Name THEN ValuesOf(n, vs) ELSE <<>>
<1>1. Write(h, n, ValuesError(n, vs), values)
  BY DEF Set
<1>2. /\ ValuesError(n, vs) \in Errors \cup {"ok"}
      /\ n \in Name /\ ValuesError(n, vs) = "ok" =>
           values \in BoundedSeq(Value, MaxValues)
  BY ValuesAre
<1> HIDE DEF values
<1> QED  BY <1>1, <1>2, WriteKeeps

LEMMA DeleteKeeps ==
  ASSUME FieldsInv, NEW h \in Handle, NEW n \in Names, Delete(h, n)
  PROVE  FieldsInv' /\ OwnWrite
<1>1. <<>> \in BoundedSeq(Value, MaxValues)
  BY EmptyValues
<1> QED  BY <1>1, WriteKeeps DEF Delete

LEMMA AppendKeeps ==
  ASSUME FieldsInv, NEW h \in Handle, NEW n \in Names, NEW v \in Raw,
         Append1(h, n, v)
  PROVE  FieldsInv' /\ OwnWrite
<1> DEFINE old == map[handle[h].coll][n]
           values == IF n \in Name THEN Append(old, Parsed[n, v]) ELSE <<>>
           error == ValuesError(n, <<v>>)
<1>1. Write(h, n, error, values) /\ (n \in Name => Len(old) < MaxValues)
  BY DEF Append1
<1>2. CASE n \notin Name
  <2>1. error = "ok"
    BY <1>2 DEF ValuesError
  <2> HIDE DEF values, error
  <2> QED  BY <1>1, <1>2, <2>1, WriteKeeps
<1>3. CASE n \in Name
  <2>1. error \in Errors \cup {"ok"} /\ (error = "ok" => Parsed[n, v] \in Value)
    <3> DEFINE errors == [i \in 1 .. 1 |-> ValueError(n, <<v>>[i])]
    <3>1. errors[1] = ValueError(n, v) /\ DOMAIN errors = 1 .. 1
      OBVIOUS
    <3>2. error = FirstError(errors)
      BY <1>3 DEF ValuesError
    <3> HIDE DEF errors, error
    <3>3. \A i \in 1 .. 1 : i = 1
      OBVIOUS
    <3>4. \A i \in 1 .. 1 : errors[i] \in Errors \cup {"ok"}
      BY <1>3, <3>1, <3>3, ValueIs
    <3>5. /\ FirstError(errors) \in Errors \cup {"ok"}
          /\ FirstError(errors) = "ok" => \A i \in 1 .. 1 : errors[i] = "ok"
      BY <3>1, <3>4, FirstErrorIs
    <3>6. 1 \in 1 .. 1
      OBVIOUS
    <3> QED  BY <1>3, <3>1, <3>2, <3>5, <3>6, ValueIs
  <2>2. old \in BoundedSeq(Value, MaxValues)
    <3>1. handle[h].coll \in Coll
      BY DEF FieldsInv, FieldsTypeOK, Handles
    <3> QED  BY <1>3, <3>1 DEF FieldsInv, FieldsTypeOK, HeaderMap
  <2>3. PICK m \in 0 .. MaxValues : old \in [1 .. m -> Value]
    BY <2>2 DEF BoundedSeq, SeqOf
  <2>4. MaxValues \in Nat /\ Len(old) < MaxValues
    BY <1>1, <1>3, FieldsAssumption
  <2> DEFINE x == Parsed[n, v]
             new == Append(old, x)
  <2> HIDE DEF old
  <2>5. old \in Seq(Value) /\ Len(old) = m
    BY <2>3
  <2>6. ASSUME x \in Value
        PROVE  new \in BoundedSeq(Value, MaxValues)
    <3>1. m + 1 \in 0 .. MaxValues
      BY <2>4, <2>5
    <3> HIDE DEF x
    <3>2. new \in Seq(Value) /\ Len(new) = m + 1
      BY <2>5, <2>6
    <3> HIDE DEF new
    <3>3. new \in [1 .. m + 1 -> Value]
      BY <3>2
    <3> QED  BY <3>1, <3>3 DEF BoundedSeq, SeqOf
  <2>7. values = new
    BY <1>3
  <2> HIDE DEF values, error, new
  <2> QED  BY <1>1, <2>1, <2>6, <2>7, WriteKeeps
<1> QED  BY <1>2, <1>3

-----------------------------------------------------------------------------
LEMMA FieldsStart == FieldsInit => FieldsInv
<1> SUFFICES ASSUME FieldsInit
             PROVE  FieldsInv
  OBVIOUS
<1>1. FieldsTypeOK
  BY EmptyIs, FieldsAssumption DEF FieldsInit, FieldsTypeOK, Handles, None
<1>2. ChildrenShare /\ ParentsOwn
  BY DEF FieldsInit, ChildrenShare, ParentsOwn, None
<1>3. Referred = {RequestColl}
  BY DEF FieldsInit, Referred, ReferredBy, None
<1>4. HostKeeps
  BY <1>3, FieldsAssumption DEF FieldsInit, HostKeeps
<1> QED  BY <1>1, <1>2, <1>4 DEF FieldsInv

LEMMA FieldsStep ==
  ASSUME FieldsInv, [FieldsNext]_fieldsVars
  PROVE  FieldsInv' /\ [OwnWrite]_fieldsVars
<1>1. ASSUME New
      PROVE  FieldsInv' /\ OwnWrite
  <2>1. \A n \in Forbidden : Empty[n] = <<>>
    BY FieldsAssumption DEF Empty
  <2> QED  BY <1>1, <2>1, EmptyIs, PushKeeps DEF New
<1>2. ASSUME NEW es \in BoundedSeq(Entry, MaxValues), FromList(es)
      PROVE  FieldsInv' /\ OwnWrite
  <2>1. /\ ListError(es) \in Errors \cup {"ok"}
        /\ ListError(es) = "ok" =>
             /\ MapOf(es) \in HeaderMap
             /\ \A n \in Forbidden : MapOf(es)[n] = <<>>
    BY MapIs
  <2>2. CASE ListError(es) = "ok" /\ Push(MapOf(es))
    BY <2>1, <2>2, PushKeeps
  <2>3. CASE ListError(es) # "ok" /\ Fails(ListError(es))
    BY <2>1, <2>3, FailsKeep
  <2> QED  BY <1>2, <2>2, <2>3 DEF FromList
<1>3. ASSUME NEW h \in Handle, Clone(h)
      PROVE  FieldsInv' /\ OwnWrite
  <2> DEFINE m == map[handle[h].coll]
  <2>1. handle[h].coll \in Coll /\ handle[h].coll \in Referred
    BY <1>3 DEF Clone, Live, FieldsInv, FieldsTypeOK, Handles, Referred, ReferredBy
  <2>2. m \in HeaderMap /\ \A n \in Forbidden : m[n] \in {<<>>, RequestMap[n]}
    BY <2>1 DEF FieldsInv, FieldsTypeOK, HostKeeps
  <2>3. Push(m)
    BY <1>3 DEF Clone
  <2> HIDE DEF m
  <2> QED  BY <2>2, <2>3, PushKeeps
<1>4. ASSUME NEW h \in Handle, DropFields(h) \/ NewResponse(h)
      PROVE  FieldsInv' /\ OwnWrite
  BY <1>4, DropFieldsKeeps, NewResponseKeeps
<1>5. ASSUME NEW h \in Handle, NEW n \in Names,
             \/ Delete(h, n)
             \/ \E v \in Raw : Append1(h, n, v)
             \/ \E vs \in BoundedSeq(Raw, MaxValues) : Set(h, n, vs)
      PROVE  FieldsInv' /\ OwnWrite
  BY <1>5, DeleteKeeps, AppendKeeps, SetKeeps
<1>6. CASE UNCHANGED fieldsVars
  <2>1. FieldsTypeOK'
    BY <1>6 DEF FieldsInv, FieldsTypeOK, fieldsVars
  <2>2. FieldsInv'
    BY <1>6, <2>1, LessKeeps DEF fieldsVars
  <2> QED  BY <1>6, <2>2
<1> QED  BY <1>1, <1>2, <1>3, <1>4, <1>5, <1>6, HeadersKeep, DropRequestKeeps,
            EndResponseKeeps DEF FieldsNext

(***************************************************************************)
(* Although collections are shared, neither the request's headers nor a    *)
(* response's change, no guest has a forbidden name that did not come with *)
(* the request, and a write is seen through one handle: for any table, any *)
(* names and any values.                                                   *)
(***************************************************************************)
THEOREM HeadersAreKept == FieldsSpec => HeadersKept
<1>1. FieldsInit => FieldsInv
  BY FieldsStart
<1>2. FieldsInv /\ [FieldsNext]_fieldsVars => FieldsInv'
  BY FieldsStep
<1>3. FieldsInv /\ [FieldsNext]_fieldsVars => [OwnWrite]_fieldsVars
  BY FieldsStep
<1>4. FieldsInv =>
        /\ map[RequestColl] = RequestMap
        /\ response.at = "held" => map[response.coll] = created
        /\ \A c \in Referred, n \in Forbidden :
             map[c][n] \in {<<>>, RequestMap[n]}
  BY DEF FieldsInv, HostKeeps
<1> QED  BY <1>1, <1>2, <1>3, <1>4, PTL DEF FieldsSpec, HeadersKept

-----------------------------------------------------------------------------
(***************************************************************************)
(* The types, of which the invariants above have a part: here is the rest. *)
(***************************************************************************)
OptionsRest ==
  /\ kernel \in Nat \cup {Unset}
  /\ state \in Unconnected \cup Listener \cup
       {"ConnectStarted", "ConnectReady", "Connected", "Closed"}
  /\ reuse \in BOOLEAN
  /\ backlog \in 1 .. MaxBacklog
  /\ queueSize \in 0 .. MaxBacklog

LEMMA OptionsLimits ==
  /\ MaxBacklog \in Nat \ {0} /\ MaxBacklog < U32 /\ U32 \in Nat
  /\ MaxSeconds * Second \in Nat /\ Second \in Nat /\ MaxCount \in Nat
  /\ DefaultBacklog \in 1 .. MaxBacklog
<1>1. U32 \in Nat /\ U32 >= 4 /\ DefaultBacklog \in 1 .. MaxBacklog
  BY OptionsAssumption
<1>2. MaxBacklog \in Nat \ {0} /\ MaxBacklog < U32
  BY <1>1 DEF MaxBacklog
<1>3. MaxSeconds \in Nat /\ Second \in Nat /\ MaxCount \in Nat
  BY OptionsAssumption
<1>4. MaxSeconds * Second \in Nat
  BY <1>3, SMTT(30)
<1> QED  BY <1>1, <1>2, <1>3, <1>4

LEMMA NormalSetIsNat ==
  ASSUME NEW o \in Option, NEW v \in Nat
  PROVE  NormalSet(o, v) \in Nat
<1>1. \A low, high \in Nat : Clamp(v, low, high) \in Nat
  BY DEF Clamp
<1>2. MaxBacklog = U32 \div 2 - 1
  BY DEF MaxBacklog
<1>3. /\ Clamp(v, Second, MaxSeconds * Second) \in Nat
      /\ Clamp(v, 1, MaxCount) \in Nat
      /\ Clamp(v, 1, U32 \div 2 - 1) \in Nat
  <2>1. Clamp(v, Second, MaxSeconds * Second) \in Nat
    BY <1>1, OptionsLimits, Zenon
  <2>2. Clamp(v, 1, MaxCount) \in Nat
    BY <1>1, OptionsLimits
  <2>3. Clamp(v, 1, MaxBacklog) \in Nat
    BY <1>1, OptionsLimits
  <2> QED  BY <1>2, <2>1, <2>2, <2>3
<1>4. \/ NormalSet(o, v) = Clamp(v, Second, MaxSeconds * Second)
      \/ NormalSet(o, v) = Clamp(v, 1, MaxCount)
      \/ NormalSet(o, v) = v
      \/ NormalSet(o, v) = Clamp(v, 1, U32 \div 2 - 1)
  BY Zenon DEF NormalSet, Option, Time, Buffer
<1> QED  BY <1>3, <1>4, Zenon

LEMMA SetSockOptIsNat ==
  ASSUME NEW o \in Option, NEW n \in Nat
  PROVE  SetSockOpt(o, n) \in Nat
<1>1. Second \in Nat \ {0} /\ MinBuffer \in Nat /\ MaxBuffer \in Nat
  BY OptionsAssumption
<1>2. (n + Second - 1) \div Second \in Nat
  BY <1>1, RoundedUp
<1>3. 2 * Clamp(n, MinBuffer, MaxBuffer) \in Nat
  BY <1>1 DEF Clamp
<1>4. \/ SetSockOpt(o, n) = (n + Second - 1) \div Second
      \/ SetSockOpt(o, n) = 2 * Clamp(n, MinBuffer, MaxBuffer)
      \/ SetSockOpt(o, n) = n
  BY Zenon DEF SetSockOpt, Option, Time, Buffer, Plain
<1> QED  BY <1>2, <1>3, <1>4, Zenon

LEMMA OptionsTypesStep ==
  ASSUME OptionsInv, OptionsRest, [OptionsNext]_optionVars
  PROVE  OptionsRest'
<1>1. /\ kernel \in Nat \cup {Unset} /\ reuse \in BOOLEAN
      /\ backlog \in 1 .. MaxBacklog /\ queueSize \in 0 .. MaxBacklog
      /\ state \in Unconnected \cup Listener \cup
           {"ConnectStarted", "ConnectReady", "Connected", "Closed"}
  BY DEF OptionsRest
<1>2. option \in Option
  BY DEF OptionsInv, OptionTypes
<1>3. ASSUME NEW v \in Argument, SetOption(v)
      PROVE  OptionsRest'
  <2>1. /\ kernel' = SetSockOpt(option, NormalSet(option, v))
        /\ UNCHANGED <<state, reuse, backlog, queueSize>>
    BY <1>3 DEF SetOption
  <2>2. v \in Nat
    BY OptionsAssumption
  <2>3. NormalSet(option, v) \in Nat
    BY <1>2, <2>2, NormalSetIsNat
  <2>4. kernel' \in Nat
    BY <1>2, <2>1, <2>3, SetSockOptIsNat
  <2> QED  BY <1>1, <2>1, <2>4 DEF OptionsRest
<1>4. ASSUME NEW v \in Argument, SetListenBacklogSize(v)
      PROVE  OptionsRest'
  <2>1. BacklogOf(v) \in 1 .. MaxBacklog
    <3>1. v \in Nat
      BY OptionsAssumption
    <3> QED  BY <3>1, OptionsLimits DEF BacklogOf, Clamp
  <2>2. /\ backlog' = BacklogOf(v) /\ queueSize' \in {queueSize, BacklogOf(v)}
        /\ UNCHANGED <<kernel, state, reuse>>
    BY <1>4 DEF SetListenBacklogSize
  <2>3. queueSize' \in 0 .. MaxBacklog
    BY <1>1, <2>1, <2>2, OptionsLimits
  <2> QED  BY <1>1, <2>1, <2>2, <2>3 DEF OptionsRest
<1>5. ASSUME NEW port \in {0, 1}, StartBind(port)
      PROVE  OptionsRest'
  <2>1. /\ state' \in {"BindStarted", "Default"} /\ reuse' \in BOOLEAN
        /\ UNCHANGED <<kernel, backlog, queueSize>>
    BY <1>5 DEF StartBind, Enter, ReuseFor
  <2> QED  BY <1>1, <2>1 DEF OptionsRest, Unconnected
<1>6. CASE FinishBind
  <2>1. state' = "Bound" /\ UNCHANGED <<kernel, reuse, backlog, queueSize>>
    BY <1>6 DEF FinishBind, Enter
  <2> QED  BY <1>1, <2>1 DEF OptionsRest, Unconnected
<1>7. CASE StartListen
  <2>1. /\ state' \in {"ListenStarted", "Closed"} /\ queueSize' \in {queueSize, backlog}
        /\ UNCHANGED <<kernel, reuse, backlog>>
    BY <1>7 DEF StartListen, Enter, ListenSize
  <2>2. queueSize' \in 0 .. MaxBacklog
    BY <1>1, <2>1, OptionsLimits
  <2> QED  BY <1>1, <2>1, <2>2 DEF OptionsRest, Listener
<1>8. CASE FinishListen
  <2>1. state' = "Listening" /\ UNCHANGED <<kernel, reuse, backlog, queueSize>>
    BY <1>8 DEF FinishListen, Enter
  <2> QED  BY <1>1, <2>1 DEF OptionsRest, Listener
<1>9. CASE Connect
  <2>1. /\ state' \in {"ConnectStarted", "ConnectReady", "Connected", "Closed"}
        /\ UNCHANGED <<kernel, reuse, backlog, queueSize>>
    BY <1>9 DEF Connect, Enter
  <2> QED  BY <1>1, <2>1 DEF OptionsRest
<1>10. CASE UNCHANGED optionVars
  BY <1>1, <1>10 DEF optionVars, OptionsRest
<1> QED  BY <1>3, <1>4, <1>5, <1>6, <1>7, <1>8, <1>9, <1>10 DEF OptionsNext

LEMMA OptionsTypesStart ==
  ASSUME OptionsInit
  PROVE  OptionsRest
<1>1. /\ kernel = Unset /\ state = "Default" /\ reuse = FALSE
      /\ backlog = DefaultBacklog /\ queueSize = 0
  BY DEF OptionsInit
<1>2. 0 \in 0 .. MaxBacklog
  BY OptionsLimits
<1> QED  BY <1>1, <1>2, OptionsLimits DEF OptionsRest, Unconnected

TransferRest ==
  maker \in [Rep -> Store \cup {Caller}] /\ caller \in {"running", "trapped"}

LEMMA TransferTypesStep ==
  ASSUME TransferInv, TransferRest, [TransferNext]_transferVars
  PROVE  TransferRest'
<1>1. call.store \in Store \cup {Caller}
  BY DEF TransferInv, TransferTypes
<1>2. ASSUME NEW r \in Rep, GuestMakes(r)
      PROVE  TransferRest'
  BY <1>1, <1>2 DEF GuestMakes, TransferRest
<1>3. UNCHANGED maker /\ caller' \in {caller, "trapped"} => TransferRest'
  BY DEF TransferRest
<1>4. CASE UNCHANGED transferVars
  BY <1>3, <1>4 DEF transferVars
<1>5. ASSUME NEW s \in Store, Offer(s) \/ TakenElsewhere(s) \/ BackFromElsewhere(s)
      PROVE  TransferRest'
  BY <1>3, <1>5 DEF Offer, TakenElsewhere, BackFromElsewhere
<1>6. ASSUME NEW args \in BoundedSeq(Arg, MaxArgs), Lower(args)
      PROVE  TransferRest'
  <2>1. UNCHANGED maker /\ caller' \in {caller, "trapped"}
    BY <1>6 DEF Lower
  <2> QED  BY <1>3, <2>1
<1>7. ASSUME NEW args \in BoundedSeq(Arg, MaxArgs), GuestReturns(args)
      PROVE  TransferRest'
  BY <1>3, <1>7 DEF GuestReturns
<1>8. ASSUME NEW r \in Rep, CallerDrops(r)
      PROVE  TransferRest'
  BY <1>3, <1>8 DEF CallerDrops
<1>9. ASSUME NEW r \in Res, GuestDrops(r)
      PROVE  TransferRest'
  BY <1>3, <1>9 DEF GuestDrops
<1>10. CASE GuestFails \/ GuestPanics \/ Lift
  BY <1>3, <1>10 DEF GuestFails, GuestPanics, Lift
<1> QED  BY <1>2, <1>4, <1>5, <1>6, <1>7, <1>8, <1>9, <1>10 DEF TransferNext

ReloadRest ==
  /\ main \in {"starting", "ready", "failed"}
  /\ {signal, watching, edited, missed} \subseteq BOOLEAN
  /\ inForce \in Content /\ lastRead \in Content /\ lastSeen \in Manifest
  /\ changes \in 0 .. MaxChanges

LEMMA ReloadTypesStep ==
  ASSUME ReloadInv, ReloadRest, [ReloadNext]_reloadVars
  PROVE  ReloadRest'
<1>1. /\ file \in Content /\ task \in [Source -> Work] /\ events \in Seq(Event)
      /\ chan \in Seq(Source)
  BY DEF ReloadInv, ReloadTypes
<1>2. Change => changes' \in 0 .. MaxChanges
  BY ReloadAssumption DEF ReloadRest, Change
<1>3. CASE UNCHANGED reloadVars
  BY <1>3 DEF reloadVars, ReloadRest
<1>4. CASE Users
  BY <1>2, <1>4 DEF Users, EditFile, Hangup, PutPod, DeletePod, Expire, ReloadRest
<1>5. CASE Start
  BY <1>1, <1>5 DEF Start, ReloadRest, sources
<1>6. CASE ReceiveHangup \/ ReadFile
  BY <1>1, <1>6 DEF ReceiveHangup, ReadFile, ReloadRest, sources, history
<1>7. ASSUME NEW t \in Source, Load(t)
      PROVE  ReloadRest'
  BY <1>7 DEF Load, ReloadRest, sources, history
<1>8. CASE List
  BY <1>8 DEF List, ReloadRest, history
<1>9. CASE ReceiveEvent
  <2>1. Head(events) \in Event
    BY <1>1, <1>9 DEF ReceiveEvent
  <2>2. lastSeen' \in Manifest
    BY <1>9, <2>1, ReloadAssumption DEF ReceiveEvent, Event
  <2> QED  BY <1>9, <2>2 DEF ReceiveEvent, ReloadRest, sources
<1>10. CASE Report
  BY <1>2, <1>10 DEF Report, ReloadRest, history
<1>11. CASE EngineApplies
  <2>1. Head(chan) \in Source
    BY <1>1, <1>11 DEF EngineApplies
  <2>2. task[Head(chan)].manifest \in Content
    BY <1>1, <2>1 DEF Work, Content
  <2>3. inForce' \in Content
    BY <1>11, <2>2 DEF EngineApplies, ReloadRest
  <2> QED  BY <1>11, <2>3 DEF EngineApplies, ReloadRest, sources, history
<1>12. "sighup" \in Source /\ "k8s" \in Source
  BY DEF Source
<1> QED  BY <1>3, <1>4, <1>5, <1>6, <1>7, <1>8, <1>9, <1>10, <1>11, <1>12
         DEF ReloadNext, SighupTask, K8sTask
TypesInv ==
  /\ part \in {"fields", "options", "transfer", "reload"}
  /\ FieldsInv /\ OptionsInv /\ OptionsRest /\ TransferInv /\ TransferRest
  /\ ReloadInv /\ ReloadRest

LEMMA TypesStart == PartsInit => TypesInv
<1> SUFFICES ASSUME PartsInit  PROVE TypesInv
  OBVIOUS
<1>1. FieldsInv
  BY FieldsStart DEF PartsInit
<1>2. OptionsInv /\ OptionsRest
  BY OptionsStart, OptionsTypesStart DEF PartsInit
<1>3. TransferInv /\ TransferRest
  BY TransferStart DEF PartsInit, TransferInit, TransferRest
<1>4. NothingHappened /\ file \in Content /\ main \in {"starting", "failed"}
  BY DEF PartsInit, ReloadInit, Content
<1>5. ReloadInv
  BY <1>4, ReloadStart
<1>6. ReloadRest
  <2>1. /\ signal = FALSE /\ watching = FALSE /\ edited = FALSE /\ missed = FALSE
        /\ inForce = NoFile /\ lastRead = NoFile /\ lastSeen = Default /\ changes = 0
    BY <1>4 DEF NothingHappened
  <2>2. NoFile \in Content /\ Default \in Manifest /\ 0 \in 0 .. MaxChanges
    BY ReloadAssumption DEF Content
  <2>3. {signal, watching, edited, missed} \subseteq BOOLEAN
    BY <2>1, Zenon
  <2> QED  BY <1>4, <2>1, <2>2, <2>3 DEF ReloadRest
<1> QED  BY <1>1, <1>2, <1>3, <1>5, <1>6 DEF PartsInit, TypesInv

LEMMA TypesStep == TypesInv /\ [PartsNext]_partsVars => TypesInv'
<1> SUFFICES ASSUME TypesInv, [PartsNext]_partsVars  PROVE TypesInv'
  OBVIOUS
<1>1. /\ FieldsInv /\ OptionsInv /\ OptionsRest /\ TransferInv /\ TransferRest
      /\ ReloadInv /\ ReloadRest
  BY DEF TypesInv
<1>2. part' \in {"fields", "options", "transfer", "reload"}
  BY DEF TypesInv, PartsNext, partsVars
<1>3. /\ [FieldsNext]_fieldsVars /\ [OptionsNext]_optionVars
      /\ [TransferNext]_transferVars /\ [ReloadNext]_reloadVars
  BY DEF PartsNext, partsVars, fieldsVars, optionVars, transferVars, reloadVars
<1>4. FieldsInv'
  BY <1>1, <1>3, FieldsStep
<1>5. OptionsInv' /\ OptionsRest'
  BY <1>1, <1>3, OptionsStep, OptionsTypesStep
<1>6. TransferInv' /\ TransferRest'
  BY <1>1, <1>3, TransferStep, TransferTypesStep
<1>7. ReloadInv' /\ ReloadRest'
  BY <1>1, <1>3, ReloadStep, ReloadTypesStep
<1> QED  BY <1>2, <1>4, <1>5, <1>6, <1>7 DEF TypesInv

LEMMA TypesAre == TypesInv => PartsTypeOK
<1> SUFFICES ASSUME TypesInv  PROVE PartsTypeOK
  OBVIOUS
<1>1. FieldsTypeOK
  BY DEF TypesInv, FieldsInv
<1>2. OptionsTypeOK
  BY DEF TypesInv, OptionsInv, OptionTypes, OptionsRest, OptionsTypeOK
<1>3. TransferTypeOK
  BY DEF TypesInv, TransferInv, TransferTypes, TransferRest, TransferTypeOK
<1>4. ReloadTypeOK
  BY DEF TypesInv, ReloadInv, ReloadTypes, ReloadRest, ReloadTypeOK
<1> QED  BY <1>1, <1>2, <1>3, <1>4 DEF TypesInv, PartsTypeOK

(***************************************************************************)
(* Every variable of Parts keeps its type: among others, no setter takes a *)
(* backlog or a value out of what the kernel accepts, and the table of     *)
(* resources only has resources.                                           *)
(***************************************************************************)
THEOREM TypeCorrect == PartsSpec => []PartsTypeOK
<1> QED  BY TypesStart, TypesStep, TypesAre, PTL DEF PartsSpec

-----------------------------------------------------------------------------
(***************************************************************************)
(* What was proved of each part holds in Parts, which the run checks: its  *)
(* steps are steps of one part and leave the others alone.                 *)
(***************************************************************************)
THEOREM PartsKeep ==
  PartsSpec => MovedOnce /\ StatusIsOfSpec /\ []SettingsKept /\ HeadersKept
<1>1. PartsInit => TransferInit /\ ReloadInv /\ OptionsInit /\ FieldsInit
  <2>1. ASSUME PartsInit  PROVE NothingHappened /\ file \in Content
    BY <2>1 DEF PartsInit, ReloadInit, Content
  <2> QED  BY <2>1, ReloadStart DEF PartsInit
<1>2. [PartsNext]_partsVars => [TransferNext]_transferVars
  BY DEF PartsNext, partsVars, transferVars
<1>3. [PartsNext]_partsVars => [ReloadNext]_reloadVars
  BY DEF PartsNext, partsVars, reloadVars
<1>4. TransferInit => TransferInv
  BY TransferStart
<1>5. TransferInv /\ [TransferNext]_transferVars => TransferInv'
  BY TransferStep
<1>6. TransferInv =>
        \A s, t \in Store \cup {Caller} : s # t => table[s] \cap table[t] = {}
  BY DEF TransferInv, OneTable
<1>7. TransferInv /\ [TransferNext]_transferVars =>
        [call' # call /\ caller' = "running" /\ Dropped' = Dropped
           => InTables' = InTables]_transferVars
  BY TransferStep DEF NothingLost
<1>8. ReloadInv /\ [ReloadNext]_reloadVars => ReloadInv'
  BY ReloadStep
<1>9. ReloadInv /\ [ReloadNext]_reloadVars =>
        [pod.exists /\ pod'.exists /\ pod'.status # pod.status
           => /\ task["k8s"].manifest = pod'.spec
              /\ pod'.status \in Outcomes(pod'.spec)]_reloadVars
  BY ReloadStep DEF StatusKept
<1>10. [PartsNext]_partsVars => [OptionsNext]_optionVars
  BY DEF PartsNext, partsVars, optionVars
<1>11. OptionsInit => OptionsInv
  BY OptionsStart
<1>12. OptionsInv /\ [OptionsNext]_optionVars => OptionsInv'
  BY OptionsStep
<1>13. OptionsInv => SettingsKept
  BY OptionsInvKeeps
<1>14. [PartsNext]_partsVars => [FieldsNext]_fieldsVars
  BY DEF PartsNext, partsVars, fieldsVars
<1>15. FieldsInit => FieldsInv
  BY FieldsStart
<1>16. FieldsInv /\ [FieldsNext]_fieldsVars => FieldsInv'
  BY FieldsStep
<1>17. FieldsInv /\ [FieldsNext]_fieldsVars => [OwnWrite]_fieldsVars
  BY FieldsStep
<1>18. FieldsInv =>
         /\ map[RequestColl] = RequestMap
         /\ response.at = "held" => map[response.coll] = created
         /\ \A c \in Referred, n \in Forbidden :
              map[c][n] \in {<<>>, RequestMap[n]}
  BY DEF FieldsInv, HostKeeps
<1> QED
  BY <1>1, <1>2, <1>3, <1>4, <1>5, <1>6, <1>7, <1>8, <1>9, <1>10, <1>11, <1>12,
     <1>13, <1>14, <1>15, <1>16, <1>17, <1>18, PTL
  DEF PartsSpec, MovedOnce, StatusIsOfSpec, HeadersKept
=============================================================================
