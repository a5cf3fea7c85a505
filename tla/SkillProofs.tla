----------------------------- MODULE SkillProofs -----------------------------
(***************************************************************************)
(* What holds of the skill interpreter and of what it shares with others,  *)
(* for any skills, callers and surroundings, and beside any chat.          *)
(***************************************************************************)
EXTENDS TemporalProgram, SequenceTheorems, FiniteSetTheorems, TLAPS

-----------------------------------------------------------------------------
(* The provider.                                                           *)

\* Who counts: a call inside, one that is about to leave, one that threw.
Counted == {c \in Caller : call[c] \in {"inside", "back", "failed", "threw"}}

CallPlaces == {"none", "listing", "listed", "check", "asleep", "inside", "back", "failed", "result",
               "error", "threw"}
OneLists == \A c, d \in Caller : call[c] = "listing" /\ call[d] = "listing" => c = d

ProviderInv ==
  /\ call \in [Caller -> CallPlaces]
  /\ \/ concurrent = 0 /\ Counted = {}
     \/ concurrent = 1 /\ \E c \in Caller : Counted = {c}
  /\ OneLists

ProviderStep ==
  \/ \E c : Models(c) \/ Generate(c)
  \/ \E c \in Caller : \/ \E stopped \in BOOLEAN : Check(c, stopped)
                       \/ ModelsReturn(c) \/ InnerReturns(c) \/ InnerThrows(c) \/ Leave(c)

\* Being notified counts nobody in or out.
LEMMA NotifyCounts ==
  ASSUME NEW calls, calls \in [Caller -> CallPlaces]
  PROVE  /\ Notify(calls) \in [Caller -> CallPlaces]
         /\ \A c \in Caller : Notify(calls)[c] \in {"inside", "back", "failed", "threw"}
              <=> calls[c] \in {"inside", "back", "failed", "threw"}
         /\ \A c \in Caller : Notify(calls)[c] = "listing" <=> calls[c] = "listing"
         /\ \A c \in Caller : Notify(calls)[c] = "none" <=> calls[c] = "none"
BY DEF Notify, CallPlaces

LEMMA ProviderKeeps ==
  ASSUME ProviderInv, ProviderStep \/ UNCHANGED providerVars
  PROVE  ProviderInv'
<1> DEFINE In == {"inside", "back", "failed", "threw"}
<1>1. CASE UNCHANGED providerVars
  BY <1>1 DEF ProviderInv, Counted, OneLists, providerVars
<1>2. ASSUME NEW c, Generate(c)
      PROVE  ProviderInv'
  <2>1. call' = [call EXCEPT ![c] = "check"] /\ concurrent' = concurrent
        /\ call[c] \in {"none", "listed"}
    BY <1>2 DEF Generate
  <2>2. call' \in [Caller -> CallPlaces] /\ Counted' = Counted /\ OneLists'
    BY <2>1 DEF ProviderInv, Counted, OneLists, CallPlaces
  <2> QED
    BY <2>1, <2>2 DEF ProviderInv
<1>3. ASSUME NEW c \in Caller, InnerReturns(c) \/ InnerThrows(c)
      PROVE  ProviderInv'
  <2>1. PICK to \in {"back", "failed", "threw"} : call' = [call EXCEPT ![c] = to]
    BY <1>3 DEF InnerReturns, InnerThrows
  <2>2. call[c] = "inside" /\ concurrent' = concurrent
    BY <1>3 DEF InnerReturns, InnerThrows
  <2>3. call' \in [Caller -> CallPlaces] /\ Counted' = Counted /\ OneLists'
    BY <2>1, <2>2 DEF ProviderInv, Counted, OneLists, CallPlaces
  <2> QED
    BY <2>2, <2>3 DEF ProviderInv
<1>4. ASSUME NEW c \in Caller, NEW stopped \in BOOLEAN, Check(c, stopped)
      PROVE  ProviderInv'
  <2>1. CASE stopped
    <3>1. PICK calls : calls = [call EXCEPT ![c] = "error"]
      OBVIOUS
    <3>2. call' = Notify(calls) /\ call[c] = "check" /\ concurrent' = concurrent
      BY <1>4, <2>1, <3>1 DEF Check
    <3>3. /\ calls \in [Caller -> CallPlaces] /\ \A d \in Caller : calls[d] \in In <=> call[d] \in In
          /\ \A d \in Caller : calls[d] = "listing" => call[d] = "listing"
      BY <3>1, <3>2 DEF ProviderInv, CallPlaces
    <3>4. /\ call' \in [Caller -> CallPlaces] /\ \A d \in Caller : call'[d] \in In <=> call[d] \in In
          /\ \A d \in Caller : call'[d] = "listing" => call[d] = "listing"
      BY <3>2, <3>3, NotifyCounts
    <3>5. Counted' = Counted /\ OneLists'
      BY <3>4 DEF Counted, ProviderInv, OneLists
    <3> QED
      BY <3>2, <3>4, <3>5 DEF ProviderInv
  <2>2. CASE ~stopped /\ Vacant
    <3>1. call' = [call EXCEPT ![c] = "inside"] /\ concurrent' = concurrent + 1 /\ concurrent = 0
      BY <1>4, <2>2 DEF Check, Vacant
    <3>2. Counted = {}
      BY <3>1 DEF ProviderInv
    <3>3. call' \in [Caller -> CallPlaces] /\ Counted' = {c} /\ OneLists'
      BY <3>1, <3>2 DEF ProviderInv, Counted, OneLists, CallPlaces
    <3> QED
      BY <3>1, <3>3 DEF ProviderInv
  <2>3. CASE ~stopped /\ ~Vacant
    <3>1. call' = [call EXCEPT ![c] = "asleep"] /\ concurrent' = concurrent /\ call[c] = "check"
      BY <1>4, <2>3 DEF Check
    <3>2. call' \in [Caller -> CallPlaces] /\ Counted' = Counted /\ OneLists'
      BY <3>1 DEF ProviderInv, Counted, OneLists, CallPlaces
    <3> QED
      BY <3>1, <3>2 DEF ProviderInv
  <2> QED
    BY <2>1, <2>2, <2>3
<1>5. ASSUME NEW c \in Caller, Leave(c)
      PROVE  ProviderInv'
  <2>1. PICK calls : calls = [call EXCEPT ![c] = IF call[c] = "back" THEN "result" ELSE "error"]
    OBVIOUS
  <2>2. call' = Notify(calls) /\ call[c] \in In /\ concurrent' = concurrent - 1
    BY <1>5, <2>1 DEF Leave
  <2>3. /\ calls \in [Caller -> CallPlaces]
        /\ \A d \in Caller : calls[d] \in In <=> call[d] \in In /\ d # c
        /\ \A d \in Caller : calls[d] = "listing" => call[d] = "listing"
    BY <2>1, <2>2 DEF ProviderInv, CallPlaces
  <2>4. /\ call' \in [Caller -> CallPlaces]
        /\ \A d \in Caller : call'[d] \in In <=> call[d] \in In /\ d # c
        /\ \A d \in Caller : call'[d] = "listing" => call[d] = "listing"
    BY <2>2, <2>3, NotifyCounts
  <2>5. c \in Counted
    BY <2>2 DEF Counted
  <2>6. concurrent = 1 /\ Counted = {c}
    BY <2>5 DEF ProviderInv
  <2>7. Counted' = {} /\ OneLists'
    BY <2>4, <2>6 DEF Counted, ProviderInv, OneLists
  <2> QED
    BY <2>2, <2>4, <2>6, <2>7 DEF ProviderInv
<1>6. ASSUME NEW c, Models(c)
      PROVE  ProviderInv'
  <2>1. /\ call' = [call EXCEPT ![c] = "listing"] /\ concurrent' = concurrent
        /\ call[c] = "none" /\ \A d \in Caller : call[d] # "listing"
    BY <1>6 DEF Models, Unlocked
  <2>2. call' \in [Caller -> CallPlaces] /\ Counted' = Counted /\ OneLists'
    BY <2>1 DEF ProviderInv, Counted, OneLists, CallPlaces
  <2> QED
    BY <2>1, <2>2 DEF ProviderInv
<1>7. ASSUME NEW c \in Caller, ModelsReturn(c)
      PROVE  ProviderInv'
  <2>1. PICK to \in {"listed", "error"} : call' = [call EXCEPT ![c] = to]
    BY <1>7 DEF ModelsReturn
  <2>2. call[c] = "listing" /\ concurrent' = concurrent
    BY <1>7 DEF ModelsReturn
  <2>3. call' \in [Caller -> CallPlaces] /\ Counted' = Counted /\ OneLists'
    BY <2>1, <2>2 DEF ProviderInv, Counted, OneLists, CallPlaces
  <2> QED
    BY <2>2, <2>3 DEF ProviderInv
<1> QED
  BY <1>1, <1>2, <1>3, <1>4, <1>5, <1>6, <1>7 DEF ProviderStep

LEMMA ProviderAlone ==
  ASSUME ProviderInv
  PROVE  OneInside
<1> DEFINE C == {c \in Caller : call[c] \in {"inside", "back", "failed", "threw"}}
<1>1. C = Counted
  BY DEF Counted
<1>2. At("inside") \subseteq Counted
  BY DEF At, Counted
<1>3. Cardinality(At("listing")) <= 1
  <2>1. CASE At("listing") = {}
    BY <2>1, FS_EmptySet
  <2>2. ASSUME NEW c \in At("listing")
        PROVE  Cardinality(At("listing")) <= 1
    <3>1. At("listing") = {c}
      BY <2>2 DEF ProviderInv, OneLists, At
    <3> QED
      BY <3>1, FS_Singleton
  <2> QED
    BY <2>1, <2>2
<1>4. CASE concurrent = 0 /\ Counted = {}
  <2>1. At("inside") = {} /\ C = {}
    BY <1>1, <1>2, <1>4
  <2>2. Cardinality(At("inside")) = 0 /\ Cardinality(C) = 0
    BY <2>1, FS_EmptySet
  <2> QED
    BY <1>3, <1>4, <2>2 DEF OneInside
<1>5. CASE concurrent = 1 /\ \E c \in Caller : Counted = {c}
  <2>1. PICK c \in Caller : Counted = {c}
    BY <1>5
  <2>2. Cardinality(C) = 1
    BY <1>1, <2>1, FS_Singleton
  <2>3. Cardinality(At("inside")) \in {0, 1}
    <3>1. At("inside") = {} \/ At("inside") = {c}
      BY <1>2, <2>1
    <3> QED
      BY <3>1, FS_EmptySet, FS_Singleton
  <2> QED
    BY <1>3, <1>5, <2>2, <2>3 DEF OneInside
<1> QED
  BY <1>4, <1>5 DEF ProviderInv

LEMMA NextProvider ==
  ASSUME [SkillNext]_vars
  PROVE  ProviderStep \/ UNCHANGED providerVars
<1>1. CASE UNCHANGED vars
  BY <1>1 DEF vars, providerVars
<1>2. CASE Spawn \/ SpawnFails \/ PollFails \/ Destroy
  BY <1>2 DEF Spawn, SpawnFails, PollFails, Destroy, Still, providerVars
<1>3. CASE HostSteps
  <2>1. CASE LoopTop \/ Poll \/ LookReaps \/ LookLeaves \/ LookReads \/ WriteSkipped \/ WriteFails
             \/ Write \/ Finish \/ Reap \/ Leaves \/ Destroyed
    BY <2>1 DEF LoopTop, Poll, LookReaps, LookLeaves, LookReads, WriteSkipped, WriteFails, Write,
                Finish, Reap, Leaves, Destroyed, Still
  <2>2. CASE Serve
    BY <2>2 DEF Serve, ServeTool, ServeEvent, ServeBudget, ServeReturn, ServeLlm, LlmAnswers,
                LlmTimesOut, ProviderStep
  <2> QED
    BY <1>3, <2>1, <2>2 DEF HostSteps
<1>4. CASE ChildRuns \/ ChildEnds \/ OutsideKill
  BY <1>4 DEF ChildRuns, ChildEnds, OutsideKill, Others
<1>5. CASE SkillFires \/ TimeOfTimers \/ ChannelSteps \/ Expire \/ Cancel
  BY <1>5 DEF SkillFires, TimeOfTimers, ChannelSteps, Expire, Cancel, AllButTimers
<1>6. CASE CallSteps
  <2>1. \A c : (c \in cancelled) \in BOOLEAN
    OBVIOUS
  <2> QED
    BY <1>6, <2>1 DEF CallSteps, ProviderStep
<1> QED
  BY <1>1, <1>2, <1>3, <1>4, <1>5, <1>6 DEF SkillNext

LEMMA ProviderHolds == Spec => []ProviderInv
<1>1. ProgramInit => ProviderInv
  BY DEF ProgramInit, Init, ProviderInit, ProviderInv, Counted, OneLists, CallPlaces
<1>2. ProviderInv /\ [Next]_programVars => ProviderInv'
  <2> SUFFICES ASSUME ProviderInv, [Next]_programVars PROVE ProviderInv'
    OBVIOUS
  <2>1. CASE [SkillNext]_vars
    BY <2>1, NextProvider, ProviderKeeps
  <2>2. CASE UNCHANGED skillVars
    BY <2>2, ProviderKeeps DEF skillVars
  <2> QED
    BY <2>1, <2>2 DEF Next, programVars
<1> QED
  BY <1>1, <1>2, PTL DEF Spec

(* The provider that is not thread-safe generates for one caller at a time  *)
(* and lists its models for one at a time, whoever calls it through the     *)
(* decorator, is cancelled, gives up or throws; nothing is said of a query  *)
(* of the models beside a generation, which the code lets happen.           *)
THEOREM OneCall == Spec => []OneInside
<1>1. ProviderInv => OneInside
  BY ProviderAlone
<1> QED
  BY <1>1, ProviderHolds, PTL

-----------------------------------------------------------------------------
(* The callback channel on the timers.                                     *)

TimersTyped == nextId \in Nat \ {0} /\ timers \subseteq Timer /\ IsFiniteSet(timers)
OneTimer ==
  /\ \A t, u \in timers : t.owner = "channel" /\ u.owner = "channel" => t = u
  /\ \A t \in timers : t.owner = "channel" => stopper = "up" /\ t.id = periodicId
OneCopy ==
  /\ toFire \in Seq(Callback)
  /\ \A i, j \in 1..Len(toFire) : toFire[i].owner = "channel" /\ toFire[j].owner = "channel" => i = j
PollCounted ==
  /\ polling = "no" => inFlight = 0
  /\ polling # "no" => inFlight = 1
  /\ stopper = "stopped" => polling # "timely"

\* The channel has one timer while it is up, and one call of it is to come or under way.
ChannelInv == TimersTyped /\ OneTimer /\ OneCopy /\ PollCounted

TimerStep ==
  \/ \E owner \in Owner \ {"channel"}, periodic \in BOOLEAN : Register(owner, periodic)
  \/ \E id : CancelTimer(id)
  \/ \E owner \in Owner : Elapse(owner)
  \/ Collect
  \/ toFire # <<>> /\ Fired

\* A call less is a call less.
LEMMA TailCalls ==
  ASSUME OneCopy, toFire # <<>>, toFire' = Tail(toFire)
  PROVE  OneCopy'
<1>1. toFire \in Seq(Callback) /\ Len(toFire) \in Nat \ {0}
  BY DEF OneCopy
<1>2. toFire' \in Seq(Callback) /\ Len(toFire') = Len(toFire) - 1
  BY <1>1, HeadTailProperties
<1>3. \A i \in 1..Len(toFire') : toFire'[i] = toFire[i+1]
  BY <1>1, <1>2, HeadTailProperties
<1>4. ASSUME NEW i \in 1..Len(toFire'), NEW j \in 1..Len(toFire'),
             toFire'[i].owner = "channel", toFire'[j].owner = "channel"
      PROVE  i = j
  <2>1. i + 1 \in 1..Len(toFire) /\ j + 1 \in 1..Len(toFire)
    BY <1>1, <1>2
  <2>2. toFire[i+1].owner = "channel" /\ toFire[j+1].owner = "channel"
    BY <1>3, <1>4
  <2>3. i + 1 = j + 1
    BY <2>1, <2>2 DEF OneCopy
  <2> QED
    BY <2>3
<1> QED
  BY <1>2, <1>4 DEF OneCopy

\* What is copied to be called is each timer that is due, once.
LEMMA CollectKeeps ==
  ASSUME ChannelInv, Collect, UNCHANGED channelVars
  PROVE  ChannelInv'
<1> DEFINE due == {t \in timers : t.due}
           next == {[t EXCEPT !.due = FALSE] : t \in {u \in due : u.periodic}}
<1>1. PICK inOrder \in [1..Cardinality(due) -> due] :
        /\ \A i, j \in DOMAIN inOrder : i < j => inOrder[i].id < inOrder[j].id
        /\ toFire' = [i \in DOMAIN inOrder |-> [id |-> inOrder[i].id, owner |-> inOrder[i].owner]]
  BY DEF Collect
<1>2. timers' = (timers \ due) \cup next /\ nextId' = nextId
  BY DEF Collect
<1>3. \A t \in due : t \in timers /\ t \in Timer /\ t.id \in Nat
  BY DEF ChannelInv, TimersTyped, OneTimer, OneCopy, PollCounted, Timer
<1>4. \A t \in next : \E u \in due : t \in Timer /\ t.owner = u.owner /\ t.id = u.id
  <2> SUFFICES ASSUME NEW u \in due
               PROVE  LET t == [u EXCEPT !.due = FALSE]
                      IN t \in Timer /\ t.owner = u.owner /\ t.id = u.id
    OBVIOUS
  <2> QED
    BY <1>3 DEF Timer
<1>5. \A t, u \in next : t.owner = "channel" /\ u.owner = "channel" => t = u
  <2> SUFFICES ASSUME NEW t \in next, NEW u \in next, t.owner = "channel", u.owner = "channel"
               PROVE  t = u
    OBVIOUS
  <2>1. PICK v \in due : t = [v EXCEPT !.due = FALSE] /\ v.periodic
    OBVIOUS
  <2>2. PICK w \in due : u = [w EXCEPT !.due = FALSE] /\ w.periodic
    OBVIOUS
  <2>3. v.owner = t.owner /\ w.owner = u.owner
    BY <1>3, <2>1, <2>2 DEF Timer
  <2>4. v = w
    BY <1>3, <2>3 DEF ChannelInv, TimersTyped, OneTimer, OneCopy, PollCounted
  <2> QED
    BY <2>1, <2>2, <2>4
<1>6. timers' \subseteq Timer
  BY <1>2, <1>4 DEF ChannelInv, TimersTyped, OneTimer, OneCopy, PollCounted
<1>7. \A t \in timers' : t.owner = "channel" => stopper = "up" /\ t.id = periodicId
  <2>1. \A t \in timers : t.owner = "channel" => stopper = "up" /\ t.id = periodicId
    BY DEF ChannelInv, OneTimer
  <2>2. \A t \in next : \E u \in timers : t.owner = u.owner /\ t.id = u.id
    BY <1>3, <1>4
  <2> HIDE DEF next
  <2> QED
    BY <1>2, <2>1, <2>2
<1>8. \A t, u \in timers' : t.owner = "channel" /\ u.owner = "channel" => t = u
  <2>1. ASSUME NEW t \in timers \ due, NEW u \in next, t.owner = "channel", u.owner = "channel"
        PROVE  FALSE
    <3>1. PICK v \in due : v.owner = u.owner
      BY <1>4
    <3> QED
      BY <1>3, <2>1, <3>1 DEF ChannelInv, TimersTyped, OneTimer, OneCopy, PollCounted
  <2> QED
    BY <1>2, <1>5, <2>1 DEF ChannelInv, TimersTyped, OneTimer, OneCopy, PollCounted
<1>9. \A i \in DOMAIN inOrder : inOrder[i] \in due /\ toFire'[i].owner = inOrder[i].owner
  BY <1>1
<1>10. IsFiniteSet(due) /\ IsFiniteSet(timers')
  <2>1. IsFiniteSet(due) /\ IsFiniteSet(timers \ due) /\ IsFiniteSet({u \in due : u.periodic})
    BY FS_Subset DEF ChannelInv, TimersTyped, OneTimer, OneCopy, PollCounted
  <2>2. IsFiniteSet(next)
    <3> DEFINE S == {u \in due : u.periodic}
               f == [t \in S |-> [t EXCEPT !.due = FALSE]]
    <3>1. f \in Surjection(S, next)
      BY DEF Surjection
    <3> HIDE DEF f
    <3> QED
      BY <2>1, <3>1, FS_Surjection
  <2> QED
    BY <1>2, <2>1, <2>2, FS_Union
<1>11. toFire' \in Seq(Callback) /\ Len(toFire') = Cardinality(due) /\ DOMAIN inOrder = 1..Len(toFire')
  <2>1. \A i \in DOMAIN inOrder : [id |-> inOrder[i].id, owner |-> inOrder[i].owner] \in Callback
    BY <1>3, <1>9, SkillAssumption DEF Timer, Callback
  <2>2. Cardinality(due) \in Nat
    BY <1>10, FS_CardinalityType
  <2> HIDE DEF due
  <2> QED
    BY <1>1, <2>1, <2>2
<1>12. \A i, j \in 1..Len(toFire') :
         toFire'[i].owner = "channel" /\ toFire'[j].owner = "channel" => i = j
  <2> SUFFICES ASSUME NEW i \in 1..Len(toFire'), NEW j \in 1..Len(toFire'),
                      toFire'[i].owner = "channel", toFire'[j].owner = "channel"
               PROVE  i = j
    OBVIOUS
  <2>1. inOrder[i] = inOrder[j]
    BY <1>3, <1>9, <1>11 DEF ChannelInv, TimersTyped, OneTimer, OneCopy, PollCounted
  <2>2. inOrder[i].id \in Nat /\ i \in Int /\ j \in Int
    BY <1>3, <1>9, <1>11
  <2>3. ~(i < j)
    <3>1. i < j => inOrder[i].id < inOrder[j].id
      BY <1>1, <1>11
    <3> QED
      BY <2>1, <2>2, <3>1
  <2>4. ~(j < i)
    <3>1. j < i => inOrder[j].id < inOrder[i].id
      BY <1>1, <1>11
    <3> QED
      BY <2>1, <2>2, <3>1
  <2> QED
    BY <2>2, <2>3, <2>4
<1>13. UNCHANGED <<stopper, periodicId, inFlight, polling>> /\ nextId' = nextId
  BY <1>2 DEF channelVars
<1> QED
  BY <1>6, <1>7, <1>8, <1>10, <1>11, <1>12, <1>13 DEF ChannelInv, TimersTyped, OneTimer, OneCopy, PollCounted

LEMMA TimersKeep ==
  ASSUME ChannelInv, TimerStep, UNCHANGED channelVars
  PROVE  ChannelInv'
<1>1. UNCHANGED <<stopper, periodicId, inFlight, polling>>
  BY DEF channelVars
<1>2. ASSUME NEW owner \in Owner \ {"channel"}, NEW periodic \in BOOLEAN, Register(owner, periodic)
      PROVE  ChannelInv'
  <2>1. PICK n : n = [id |-> nextId, owner |-> owner, periodic |-> periodic, due |-> FALSE]
    OBVIOUS
  <2>2. timers' = timers \cup {n} /\ nextId' = nextId + 1 /\ toFire' = toFire
    BY <1>2, <2>1 DEF Register
  <2>3. n \in Timer /\ n.owner # "channel"
    BY <2>1, SkillAssumption DEF Timer, ChannelInv, TimersTyped, OneTimer, OneCopy, PollCounted
  <2>4. IsFiniteSet(timers')
    BY <2>2, FS_AddElement DEF ChannelInv, TimersTyped, OneTimer, OneCopy, PollCounted
  <2>5. TimersTyped'
    BY <2>2, <2>3, <2>4 DEF ChannelInv, TimersTyped
  <2>6. OneTimer'
    BY <1>1, <2>2, <2>3 DEF ChannelInv, OneTimer
  <2> QED
    BY <1>1, <2>2, <2>5, <2>6 DEF ChannelInv, OneCopy, PollCounted
<1>3. CASE \E id : CancelTimer(id)
  <2>1. timers' \subseteq timers /\ nextId' = nextId /\ toFire' = toFire
    BY <1>3 DEF CancelTimer, Cancelled
  <2>2. IsFiniteSet(timers')
    BY <2>1, FS_Subset DEF ChannelInv, TimersTyped, OneTimer, OneCopy, PollCounted
  <2> QED
    BY <1>1, <2>1, <2>2 DEF ChannelInv, TimersTyped, OneTimer, OneCopy, PollCounted
<1>4. ASSUME NEW owner \in Owner, Elapse(owner)
      PROVE  ChannelInv'
  <2>1. PICK t \in timers : timers' = (timers \ {t}) \cup {[t EXCEPT !.due = TRUE]}
    BY <1>4 DEF Elapse
  <2>2. PICK n : n = [t EXCEPT !.due = TRUE]
    OBVIOUS
  <2>3. timers' = (timers \ {t}) \cup {n} /\ nextId' = nextId /\ toFire' = toFire
    BY <1>4, <2>1, <2>2 DEF Elapse
  <2>4. n \in Timer /\ n.owner = t.owner /\ n.id = t.id
    BY <2>2 DEF ChannelInv, TimersTyped, OneTimer, OneCopy, PollCounted, Timer
  <2>5. IsFiniteSet(timers')
    <3>1. IsFiniteSet(timers \ {t})
      BY FS_RemoveElement DEF ChannelInv, TimersTyped, OneTimer, OneCopy, PollCounted
    <3> QED
      BY <2>3, <3>1, FS_AddElement
  <2>6. \A u, v \in timers' : u.owner = "channel" /\ v.owner = "channel" => u = v
    BY <2>3, <2>4 DEF ChannelInv, TimersTyped, OneTimer, OneCopy, PollCounted
  <2>7. \A u \in timers' : u.owner = "channel" => stopper = "up" /\ u.id = periodicId
    BY <2>3, <2>4 DEF ChannelInv, TimersTyped, OneTimer, OneCopy, PollCounted
  <2> QED
    BY <1>1, <2>3, <2>4, <2>5, <2>6, <2>7 DEF ChannelInv, TimersTyped, OneTimer, OneCopy, PollCounted
<1>5. CASE toFire # <<>> /\ Fired
  <2>1. toFire' = Tail(toFire) /\ timers' = timers /\ nextId' = nextId
    BY <1>5 DEF Fired
  <2>2. OneCopy'
    BY <1>5, <2>1, TailCalls DEF ChannelInv
  <2> QED
    BY <1>1, <2>1, <2>2 DEF ChannelInv, TimersTyped, OneTimer, PollCounted
<1> QED
  BY <1>2, <1>3, <1>4, <1>5, CollectKeeps DEF TimerStep

\* What the channel does itself.
LEMMA ChannelKeeps ==
  ASSUME ChannelInv, Channel \/ Tick
  PROVE  ChannelInv'
<1>1. CASE StartPolling
  <2>1. PICK n : n = [id |-> nextId, owner |-> "channel", periodic |-> TRUE, due |-> FALSE]
    OBVIOUS
  <2>2. timers' = timers \cup {n} /\ nextId' = nextId + 1 /\ toFire' = toFire
    BY <1>1, <2>1 DEF StartPolling, Register
  <2>3. n \in Timer /\ n.id = nextId
    BY <2>1, SkillAssumption DEF Timer, ChannelInv, TimersTyped, OneTimer, OneCopy, PollCounted
  <2>4. IsFiniteSet(timers')
    BY <2>2, FS_AddElement DEF ChannelInv, TimersTyped, OneTimer, OneCopy, PollCounted
  <2>5. \A t \in timers : t.owner # "channel"
    BY <1>1 DEF StartPolling, ChannelInv, TimersTyped, OneTimer, OneCopy, PollCounted
  <2>6. stopper' = "up" /\ periodicId' = nextId /\ UNCHANGED <<inFlight, polling>>
    BY <1>1 DEF StartPolling
  <2>7. TimersTyped'
    BY <2>2, <2>3, <2>4 DEF ChannelInv, TimersTyped
  <2>8. OneTimer'
    BY <2>2, <2>3, <2>5, <2>6 DEF OneTimer
  <2> QED
    BY <2>2, <2>6, <2>7, <2>8 DEF ChannelInv, OneCopy, PollCounted
<1>2. CASE StopPolling
  <2>1. /\ timers' = {t \in timers : t.id # periodicId} /\ nextId' = nextId /\ toFire' = toFire
        /\ stopper' = "barrier" /\ UNCHANGED <<inFlight, polling>>
    BY <1>2 DEF StopPolling, CancelTimer, Cancelled
  <2>2. \A t \in timers' : t \in timers /\ t.owner # "channel"
    BY <2>1 DEF ChannelInv, TimersTyped, OneTimer, OneCopy, PollCounted
  <2>3. IsFiniteSet(timers')
    BY <2>1, FS_Subset DEF ChannelInv, TimersTyped, OneTimer, OneCopy, PollCounted
  <2> QED
    BY <2>1, <2>2, <2>3 DEF ChannelInv, TimersTyped, OneTimer, OneCopy, PollCounted
<1>3. CASE BarrierCheck \/ BarrierBlocks
  <2>1. \A t \in timers : t.owner # "channel"
    BY <1>3 DEF BarrierCheck, BarrierBlocks, ChannelInv, TimersTyped, OneTimer, OneCopy, PollCounted
  <2>2. UNCHANGED <<nextId, timers, toFire, periodicId, inFlight, polling>>
    BY <1>3 DEF BarrierCheck, BarrierBlocks, timerVars
  <2>3. stopper' = "stopped" => inFlight = 0
    BY <1>3 DEF BarrierCheck, BarrierBlocks, BarrierOpen
  <2>4. OneTimer'
    BY <2>1, <2>2 DEF OneTimer
  <2>5. PollCounted'
    <3>1. PollCounted
      BY DEF ChannelInv
    <3> QED
      BY <2>2, <2>3, <3>1 DEF PollCounted
  <2> QED
    BY <2>2, <2>4, <2>5 DEF ChannelInv, TimersTyped, OneCopy
<1>4. CASE TickEnters
  <2>1. UNCHANGED <<nextId, timers, toFire, periodicId, stopper>>
    BY <1>4 DEF TickEnters, timerVars
  <2>2. /\ polling = "no" /\ inFlight' = inFlight + 1
        /\ polling' = IF stopper = "stopped" THEN "late" ELSE "timely"
    BY <1>4 DEF TickEnters
  <2>3. PollCounted'
    <3>1. PollCounted
      BY DEF ChannelInv
    <3>2. inFlight' = 1 /\ polling' # "no"
      BY <2>2, <3>1 DEF PollCounted
    <3> QED
      BY <2>1, <2>2, <3>2 DEF PollCounted
  <2> QED
    BY <2>1, <2>3 DEF ChannelInv, TimersTyped, OneTimer, OneCopy
<1>5. CASE TickLeaves
  <2>1. toFire # <<>> /\ toFire' = Tail(toFire) /\ timers' = timers /\ nextId' = nextId
    BY <1>5 DEF TickLeaves, Firing, Fired
  <2>2. OneCopy'
    BY <2>1, TailCalls DEF ChannelInv
  <2>3. /\ periodicId' = periodicId /\ inFlight' = inFlight - 1 /\ polling' = "no" /\ polling # "no"
        /\ stopper' = IF stopper = "asleep" THEN "barrier" ELSE stopper
    BY <1>5 DEF TickLeaves
  <2>4. TimersTyped' /\ OneTimer'
    BY <2>1, <2>3 DEF ChannelInv, TimersTyped, OneTimer
  <2>5. PollCounted'
    <3>1. PollCounted
      BY DEF ChannelInv
    <3>2. inFlight' = 0
      BY <2>3, <3>1 DEF PollCounted
    <3> QED
      BY <2>3, <3>2 DEF PollCounted
  <2> QED
    BY <2>2, <2>4, <2>5 DEF ChannelInv
<1> QED
  BY <1>1, <1>2, <1>3, <1>4, <1>5 DEF Channel, Tick

LEMMA NextChannel ==
  ASSUME [SkillNext]_vars
  PROVE  \/ Channel \/ Tick
         \/ UNCHANGED channelVars /\ (TimerStep \/ UNCHANGED timerVars)
<1>1. CASE UNCHANGED vars
  BY <1>1 DEF vars, channelVars, timerVars
<1>2. CASE Spawn \/ SpawnFails \/ PollFails \/ Destroy
  <2>1. Register("skill", FALSE) => TimerStep
    BY SkillAssumption DEF TimerStep
  <2> QED
    BY <1>2, <2>1 DEF Spawn, SpawnFails, PollFails, Destroy, Still, Quiet
<1>3. CASE HostSteps
  <2>1. CASE LoopTop \/ Poll \/ LookReaps \/ LookLeaves \/ LookReads \/ WriteSkipped \/ WriteFails
             \/ Write \/ Finish \/ Reap \/ Leaves \/ Destroyed
    BY <2>1 DEF LoopTop, Poll, LookReaps, LookLeaves, LookReads, WriteSkipped, WriteFails, Write,
                Finish, Reap, Leaves, Destroyed, Still, Quiet, TimerStep
  <2>2. CASE Serve
    BY <2>2 DEF Serve, ServeTool, ServeEvent, ServeBudget, ServeReturn, ServeLlm, LlmAnswers,
                LlmTimesOut, Calm, Quiet
  <2> QED
    BY <1>3, <2>1, <2>2 DEF HostSteps
<1>4. CASE ChildRuns \/ ChildEnds \/ OutsideKill
  BY <1>4 DEF ChildRuns, ChildEnds, OutsideKill, Others
<1>5. CASE ChannelSteps \/ Expire \/ Cancel \/ CallSteps
  BY <1>5 DEF ChannelSteps, Expire, Cancel, CallSteps
<1>6. CASE SkillFires
  BY <1>6 DEF SkillFires, Firing, TimerStep
<1>7. CASE TimeOfTimers
  BY <1>7, SkillAssumption DEF TimeOfTimers, TimerStep
<1> QED
  BY <1>1, <1>2, <1>3, <1>4, <1>5, <1>6, <1>7 DEF SkillNext

\* The chat registers and cancels, and its calls return.
ChatTimerStep ==
  \/ UNCHANGED timerVars
  \/ Register("chat", TRUE)
  \/ \E id : CancelTimer(id)
  \/ Elapse("chat")
  \/ toFire # <<>> /\ Fired

LEMMA ChatTimers ==
  ASSUME ChatNext
  PROVE  ChatTimerStep
<1> USE DEF ChatTimerStep
<1>1. CASE \/ BeginLine \/ EndLine \/ CloseStdin \/ AskStop \/ Signal \/ ResolveSource \/ StopSource
            \/ Kill \/ Relaunch
  BY <1>1 DEF BeginLine, EndLine, CloseStdin, Typing, AskStop, Signal, ResolveSource, StopSource, Asking,
     Kill, Relaunch
<1>2. CASE Reader
  <2>1. CASE ReaderRegisters
    BY <2>1 DEF ReaderRegisters
  <2>2. CASE ReaderExits
    BY <2>2 DEF ReaderExits
  <2> QED
    BY <1>2, <2>1, <2>2 DEF Reader, ReaderStarts, ReaderCrashes, ReaderStores, ReaderGuards,
       ReaderAsks, ReaderPolls, ReaderGets, ReaderGetsNone, ReaderPushes, ReaderCounts
<1>3. CASE Main
  <2>1. CASE Turn
    BY <2>1 DEF Turn, TurnBegins, TurnPublishes, AgentAnswersItself, AgentLooks, AgentRuns, Calling,
       ToolThrows, TurnUnregisters, TurnClears, SaveWrites, SaveRenames, Saving, RecordUser,
       RecordAnswer, Looping
  <2> QED
    BY <1>3, <2>1 DEF Main, MainLooks, PopSteering, PopFollowUp, WaitForInput, AfterWait, NothingCame,
       HandleSteering, Looping
<1>4. CASE Destructor
  BY <1>4 DEF Destructor, DestroyCancels, DestroyChecks, DestroyBlocks, DestroyUnsets, DestroyCloses,
     DestroyJoins
<1>5. CASE ChatCallback \/ ChatElapses
  BY <1>5 DEF ChatCallback, CallbackEnters, CallbackLeaves, ChatElapses, Firing
<1> QED
  BY <1>1, <1>2, <1>3, <1>4, <1>5 DEF ChatNext, ChatThreads

LEMMA ChannelLate ==
  ASSUME ChannelInv
  PROVE  OneLatePoll
<1> DEFINE L == {i \in DOMAIN toFire : toFire[i].owner = "channel"}
<1>1. DOMAIN toFire = 1..Len(toFire)
  <2>1. toFire \in Seq(Callback)
    BY DEF ChannelInv, OneCopy
  <2> QED
    BY <2>1
<1>2. \A i, j \in L : i = j
  BY <1>1 DEF ChannelInv, TimersTyped, OneTimer, OneCopy, PollCounted
<1>3. Cardinality(L) \in {0, 1}
  <2>1. CASE L = {}
    BY <2>1, FS_EmptySet
  <2>2. ASSUME NEW i, i \in L
        PROVE  Cardinality(L) \in {0, 1}
    <3>1. L = {i}
      BY <1>2, <2>2
    <3> QED
      BY <3>1, FS_Singleton
  <2> QED
    BY <2>1, <2>2
<1>4. stopper = "stopped" => polling # "timely" /\ \A t \in timers : t.owner # "channel"
  BY DEF ChannelInv, OneTimer, PollCounted
<1> QED
  BY <1>3, <1>4 DEF OneLatePoll

LEMMA ChannelStarts ==
  ASSUME ProgramInit
  PROVE  ChannelInv
<1>1. IsFiniteSet(timers)
  BY FS_EmptySet DEF ProgramInit, Init, TimerInit
<1> QED
  BY <1>1 DEF ProgramInit, Init, TimerInit, ChannelInit, ChannelInv, TimersTyped, OneTimer, OneCopy, PollCounted

LEMMA ChannelKept ==
  ASSUME ChannelInv, [Next]_programVars
  PROVE  ChannelInv'
<1>1. CASE UNCHANGED <<channelVars, timerVars>>
  BY <1>1 DEF channelVars, timerVars, ChannelInv, TimersTyped, OneTimer, OneCopy, PollCounted
<1>2. CASE [SkillNext]_vars
  BY <1>1, <1>2, NextChannel, ChannelKeeps, TimersKeep
<1>3. CASE ChatNext /\ UNCHANGED skillVars
  <2>1. TimerStep \/ UNCHANGED timerVars
    BY <1>3, ChatTimers, ChatAssumption DEF ChatTimerStep, TimerStep
  <2> QED
    BY <1>1, <1>3, <2>1, TimersKeep DEF skillVars
<1> QED
  BY <1>2, <1>3 DEF Next, programVars

(* A channel that has stopped polls at most once more: the call that the    *)
(* thread of the timers had copied, and not begun, when stop looked.        *)
THEOREM PollsEnd == Spec => []OneLatePoll
<1>1. ChannelInv /\ [Next]_programVars => ChannelInv'
  BY ChannelKept
<1> QED
  BY <1>1, ChannelStarts, ChannelLate, PTL DEF Spec

-----------------------------------------------------------------------------
(* The capability of a skill.                                              *)

Requests == Line \cup {Return, NoLine}
HostFields == {"pc", "steps", "req", "answer", "code", "output"}

HostTyped == DOMAIN host = HostFields /\ host.steps \in Nat /\ host.req \in Requests
RunTyped ==
  /\ setup \in Setups /\ run \in 0..Len(setup.skills)
  /\ request \in [Runs -> Requests] /\ served \in [Runs -> Seq(Requests)]
  /\ budgetUsed \in Int

\* What was granted to the current run was counted before.
StepsCounted ==
  /\ \A r \in Runs : r > run => served[r] = <<>>
  /\ InRun => run # 0 /\ Len(served[run]) <= host.steps /\ host.steps <= Cap.maxSteps
  /\ host.pc \in {"serve", "llm"} => Len(served[run]) < host.steps
  /\ host.pc = "llm" => host.req.op = "llm_generate"

\* What WithinCapability says but for the calls of the model, whose history call is.
Granted ==
  /\ \A r \in Runs : /\ Len(served[r]) <= setup.skills[r].maxSteps
                     /\ \A i \in DOMAIN served[r] : MayAsk(setup.skills[r], served[r][i])
  /\ run > 0 => budgetUsed <= Cap.budget
ModelPermitted == \A r \in Runs : call[r] # "none" => setup.skills[r].llm

CapabilityInv == HostTyped /\ RunTyped /\ StepsCounted /\ Granted

LEMMA SkillTyped ==
  ASSUME setup \in Setups
  PROVE  /\ Len(setup.skills) \in Nat
         /\ \A r \in Runs : /\ setup.skills[r] \in Skill
                            /\ setup.skills[r].lines \in Seq(Line)
                            /\ setup.skills[r].maxSteps \in Nat /\ setup.skills[r].budget \in Nat
<1>1. setup.skills \in Seq(Skill)
  BY SkillAssumption
<1>2. Len(setup.skills) \in Nat /\ \A r \in Runs : setup.skills[r] \in Skill
  BY <1>1 DEF Runs
<1> QED
  BY <1>2 DEF Skill

LEMMA StatementTyped ==
  ASSUME setup \in Setups, NEW r \in Runs
  PROVE  Statement(r) \in Requests
<1> DEFINE lines == setup.skills[r].lines
           next == Nth(setup.skills[r], child[r].at)
<1>1. lines \in Seq(Line)
  BY SkillTyped
<1>2. \A i \in DOMAIN lines : lines[i] \in Line
  BY <1>1
<1>3. \A i \in next : i \in DOMAIN lines
  BY DEF Nth
<1>4. next # {} => (CHOOSE i \in next : TRUE) \in next
  OBVIOUS
<1>5. Statement(r) = IF next = {} THEN Return ELSE lines[CHOOSE i \in next : TRUE]
  BY DEF Statement
<1> HIDE DEF next, lines
<1> QED
  BY <1>2, <1>3, <1>4, <1>5 DEF Requests

\* A step that grants nothing and serves nothing.
LEMMA MovesKeep ==
  ASSUME CapabilityInv, UNCHANGED <<setup, run, served, budgetUsed>>,
         request' \in [Runs -> Requests], HostTyped',
         host'.pc \notin {"serve", "llm"} \/ host' = host,
         InRun' => InRun /\ host'.steps = host.steps
  PROVE  CapabilityInv'
<1>1. Runs' = Runs /\ Cap' = Cap
  BY DEF Runs, Cap
<1>2. RunTyped'
  BY <1>1 DEF CapabilityInv, RunTyped
<1>3. StepsCounted'
  BY <1>1 DEF CapabilityInv, StepsCounted
<1>4. Granted'
  BY <1>1 DEF CapabilityInv, Granted
<1> QED
  BY <1>2, <1>3, <1>4 DEF CapabilityInv

\* A request in hand is answered, and written down when it is granted.
LEMMA RespondKeeps ==
  ASSUME CapabilityInv, host.pc \in {"serve", "llm"},
         UNCHANGED <<setup, run, request>>, NEW answer, Respond(answer),
         budgetUsed' \in Int /\ budgetUsed' <= Cap.budget,
         answer = "ok" => MayAsk(Cap, host.req)
  PROVE  CapabilityInv'
<1>1. Runs' = Runs /\ Cap' = Cap
  BY DEF Runs, Cap
<1>2. /\ InRun /\ run # 0 /\ run \in Runs /\ Len(served[run]) < host.steps
      /\ host.steps <= Cap.maxSteps /\ host.steps \in Nat /\ Cap.maxSteps \in Nat
  BY SkillTyped DEF CapabilityInv, HostTyped, RunTyped, StepsCounted, InRun, Runs, Cap
<1>3. HostTyped' /\ host'.pc = "respond" /\ host'.steps = host.steps
  BY DEF Respond, CapabilityInv, HostTyped, HostFields
<1>4. served[run] \in Seq(Requests) /\ host.req \in Requests
  BY <1>2 DEF CapabilityInv, HostTyped, RunTyped
<1>5. PICK granted : granted = IF answer = "ok" THEN Append(served[run], host.req) ELSE served[run]
  OBVIOUS
<1>6. served' = [served EXCEPT ![run] = granted]
  BY <1>5 DEF Respond
<1>7. /\ granted \in Seq(Requests) /\ Len(granted) <= host.steps
      /\ \A i \in DOMAIN granted : MayAsk(Cap, granted[i])
  <2>1. \A i \in DOMAIN served[run] : MayAsk(Cap, served[run][i])
    BY <1>2 DEF CapabilityInv, Granted, Cap
  <2>2. CASE answer = "ok"
    <3>1. granted = Append(served[run], host.req)
      BY <1>5, <2>2
    <3>2. /\ granted \in Seq(Requests) /\ Len(granted) = Len(served[run]) + 1
          /\ \A i \in 1..Len(served[run]) : granted[i] = served[run][i]
          /\ granted[Len(served[run]) + 1] = host.req
      BY <1>4, <3>1, AppendProperties
    <3>3. Len(served[run]) \in Nat /\ DOMAIN served[run] = 1..Len(served[run])
          /\ DOMAIN granted = 1..Len(granted)
      BY <1>4, <3>2
    <3>4. MayAsk(Cap, host.req)
      BY <2>2
    <3>5. ASSUME NEW i \in DOMAIN granted
          PROVE  MayAsk(Cap, granted[i])
      <4>1. CASE i \in 1..Len(served[run])
        BY <2>1, <3>2, <3>3, <3>5, <4>1
      <4>2. CASE i = Len(served[run]) + 1
        BY <3>2, <3>4, <3>5, <4>2
      <4> QED
        BY <3>2, <3>3, <4>1, <4>2
    <3> QED
      BY <1>2, <3>2, <3>3, <3>5
  <2>3. CASE answer # "ok"
    <3>1. granted = served[run]
      BY <1>5, <2>3
    <3>2. Len(granted) \in Nat
      BY <1>4, <3>1
    <3> QED
      BY <1>2, <1>4, <2>1, <3>1, <3>2
  <2> QED
    BY <2>2, <2>3
<1>8. served' \in [Runs -> Seq(Requests)] /\ served'[run] = granted
      /\ \A r \in Runs : r # run => served'[r] = served[r]
  BY <1>2, <1>6, <1>7 DEF CapabilityInv, RunTyped
<1>9. RunTyped'
  BY <1>1, <1>8 DEF CapabilityInv, RunTyped
<1>10. StepsCounted'
  <2>1. \A r \in Runs : r > run => r # run
    BY DEF CapabilityInv, RunTyped, Runs
  <2> QED
    BY <1>1, <1>2, <1>3, <1>7, <1>8, <2>1 DEF CapabilityInv, StepsCounted
<1>11. Granted'
  <2>1. Len(granted) <= Cap.maxSteps
    <3>1. Len(granted) \in Nat
      BY <1>7
    <3> QED
      BY <1>2, <1>7, <3>1
  <2> QED
    BY <1>1, <1>2, <1>7, <1>8, <2>1 DEF CapabilityInv, Granted, Cap
<1> QED
  BY <1>3, <1>9, <1>10, <1>11 DEF CapabilityInv

LEMMA ServeKeeps ==
  ASSUME CapabilityInv, ModelPermitted, Serve
  PROVE  CapabilityInv'
<1>1. UNCHANGED <<setup, run, request>>
  BY DEF Serve, ServeTool, ServeEvent, ServeBudget, ServeReturn, ServeLlm, LlmAnswers, LlmTimesOut,
         Calm, Quiet
<1>2. host.pc \in {"serve", "llm"}
  BY DEF Serve, ServeTool, ServeEvent, ServeBudget, ServeReturn, ServeLlm, LlmAnswers, LlmTimesOut,
         Serving
<1>3. /\ run \in Runs /\ run # 0 /\ budgetUsed \in Int /\ budgetUsed <= Cap.budget
      /\ Cap.budget \in Nat /\ host.req.amount \in Int
  <2>1. InRun /\ run # 0 /\ run \in Runs
    BY <1>2, SkillTyped DEF CapabilityInv, RunTyped, StepsCounted, InRun, Runs
  <2>2. host.req.amount \in Int
    <3>1. Return.amount = 0
      BY DEF Return
    <3>2. NoLine.amount = 0
      BY <3>1 DEF NoLine, Return
    <3>3. \A l \in Line : l.amount \in Int
      BY DEF Line
    <3> QED
      BY <3>1, <3>2, <3>3 DEF CapabilityInv, HostTyped, Requests
  <2>3. Cap.budget \in Nat /\ run > 0
    BY <2>1, SkillTyped DEF CapabilityInv, RunTyped, Cap
  <2> QED
    BY <2>1, <2>2, <2>3 DEF CapabilityInv, RunTyped, Granted
<1>4. CASE ServeTool
  <2>1. \E answer : Respond(answer) /\ (answer = "ok" => MayAsk(Cap, host.req))
    BY <1>4 DEF ServeTool, Serving, Allowed, MayAsk
  <2>2. budgetUsed' = budgetUsed
    BY <1>4 DEF ServeTool
  <2> QED
    BY <1>1, <1>2, <1>3, <2>1, <2>2, RespondKeeps
<1>5. CASE ServeEvent \/ ServeReturn
  <2>1. \E answer : Respond(answer) /\ (answer = "ok" => MayAsk(Cap, host.req))
    BY <1>5 DEF ServeEvent, ServeReturn, Serving, MayAsk
  <2>2. budgetUsed' = budgetUsed
    BY <1>5 DEF ServeEvent, ServeReturn
  <2> QED
    BY <1>1, <1>2, <1>3, <2>1, <2>2, RespondKeeps
<1>6. CASE ServeBudget
  <2>1. PICK used : used = budgetUsed + host.req.amount
    OBVIOUS
  <2>2. MayAsk(Cap, host.req) /\ used \in Int
    BY <1>3, <1>6, <2>1 DEF ServeBudget, Serving, MayAsk
  <2>3. CASE used > Cap.budget
    <3>1. Respond("terminate") /\ budgetUsed' = budgetUsed
      BY <1>6, <2>1, <2>3 DEF ServeBudget
    <3> QED
      BY <1>1, <1>2, <1>3, <2>2, <3>1, RespondKeeps
  <2>4. CASE ~(used > Cap.budget)
    <3>1. Respond("ok") /\ budgetUsed' = used
      BY <1>6, <2>1, <2>4 DEF ServeBudget
    <3>2. used <= Cap.budget
      BY <1>3, <2>2, <2>4
    <3> QED
      BY <1>1, <1>2, <2>2, <3>1, <3>2, RespondKeeps
  <2> QED
    BY <2>3, <2>4
<1>7. CASE ServeLlm
  <2>1. budgetUsed' = budgetUsed /\ host.req.op = "llm_generate" /\ host.pc = "serve"
    BY <1>7 DEF ServeLlm, Serving
  <2>2. CASE Cap.llm /\ run \notin cancelled
    <3>1. host' = [host EXCEPT !.pc = "llm"] /\ served' = served
      BY <1>7, <2>2 DEF ServeLlm, GoTo
    <3>2. HostTyped' /\ host'.pc = "llm" /\ host'.steps = host.steps /\ host'.req = host.req
      BY <3>1 DEF CapabilityInv, HostTyped, HostFields
    <3>3. Runs' = Runs /\ Cap' = Cap
      BY <1>1 DEF Runs, Cap
    <3>4. RunTyped' /\ Granted'
      BY <1>1, <2>1, <3>1, <3>3 DEF CapabilityInv, RunTyped, Granted
    <3>5. StepsCounted'
      BY <1>1, <2>1, <3>1, <3>2, <3>3 DEF CapabilityInv, StepsCounted, InRun
    <3> QED
      BY <3>2, <3>4, <3>5 DEF CapabilityInv
  <2>3. CASE ~(Cap.llm /\ run \notin cancelled)
    <3>1. Respond("refused")
      BY <1>7, <2>3 DEF ServeLlm
    <3> QED
      BY <1>1, <1>2, <1>3, <2>1, <3>1, RespondKeeps
  <2> QED
    BY <2>2, <2>3
<1>8. CASE LlmAnswers
  <2>1. budgetUsed' = budgetUsed /\ host.pc = "llm"
    BY <1>8 DEF LlmAnswers
  <2>2. MayAsk(Cap, host.req)
    <3>1. host.req.op = "llm_generate"
      BY <2>1 DEF CapabilityInv, StepsCounted
    <3>2. Cap.llm
      BY <1>3, <1>8 DEF LlmAnswers, Answered, ModelPermitted, Cap
    <3> QED
      BY <3>1, <3>2 DEF MayAsk
  <2>3. CASE call[run] = "threw"
    <3>1. host' = [host EXCEPT !.pc = "cancel", !.code = "threw"] /\ served' = served
      BY <1>8, <2>3 DEF LlmAnswers
    <3>2. HostTyped' /\ host'.pc = "cancel" /\ host'.steps = host.steps
      BY <3>1 DEF CapabilityInv, HostTyped, HostFields
    <3>3. request' \in [Runs -> Requests] /\ InRun
      BY <1>1, <2>1 DEF CapabilityInv, RunTyped, InRun
    <3> QED
      BY <1>1, <2>1, <3>1, <3>2, <3>3, MovesKeep
  <2>4. CASE call[run] # "threw"
    <3>1. \E answer : Respond(answer)
      BY <1>8, <2>4 DEF LlmAnswers
    <3> QED
      BY <1>1, <1>2, <1>3, <2>1, <2>2, <3>1, RespondKeeps
  <2> QED
    BY <2>3, <2>4
<1>9. CASE LlmTimesOut
  BY <1>1, <1>2, <1>3, <1>9, RespondKeeps DEF LlmTimesOut
<1> QED
  BY <1>4, <1>5, <1>6, <1>7, <1>8, <1>9 DEF Serve

\* The steps of the host that serve nothing.
LEMMA HostKeeps ==
  ASSUME CapabilityInv,
         LoopTop \/ Poll \/ PollFails \/ LookReaps \/ LookLeaves \/ WriteSkipped \/ WriteFails
           \/ Write \/ Finish \/ Reap \/ Leaves \/ Destroy \/ Destroyed
  PROVE  CapabilityInv'
<1>1. UNCHANGED <<setup, run, served, budgetUsed>> /\ request' = request
  BY DEF LoopTop, KillFor, Poll, PollFails, LookReaps, LookLeaves, WriteSkipped, WriteFails, Write,
         Finish, Reap, Leaves, Destroy, Destroyed, Still, Quiet, childVars
<1>2. request \in [Runs -> Requests] /\ HostTyped
  BY DEF CapabilityInv, RunTyped
<1>3. CASE LookLeaves
  <2>1. request[run] \in Requests /\ InRun
    <3>1. InRun
      BY <1>3 DEF LookLeaves, InRun
    <3>2. run \in Runs
      BY <3>1, SkillTyped DEF CapabilityInv, RunTyped, StepsCounted, Runs
    <3> QED
      BY <1>2, <3>1, <3>2
  <2>2. host' = [host EXCEPT !.pc = "final", !.req = request[run]]
    BY <1>3 DEF LookLeaves
  <2>3. HostTyped' /\ host'.pc = "final" /\ host'.steps = host.steps
    BY <1>2, <2>1, <2>2 DEF HostTyped, HostFields
  <2> QED
    BY <1>1, <1>2, <2>1, <2>3, MovesKeep
<1>4. CASE Leaves
  <2>1. host' = HostAt("idle")
    BY <1>4 DEF Leaves
  <2>2. HostTyped' /\ host'.pc = "idle"
    BY <2>1 DEF HostAt, HostTyped, HostFields, Requests
  <2>3. ~InRun'
    BY <2>2 DEF InRun
  <2> QED
    BY <1>1, <1>2, <2>2, <2>3, MovesKeep
<1>5. CASE Destroy \/ Destroyed
  <2>1. \E pc \in {"destroy", "gone"} : host' = [host EXCEPT !.pc = pc]
    BY <1>5 DEF Destroy, Destroyed, GoTo
  <2>2. HostTyped' /\ host'.pc \in {"destroy", "gone"}
    BY <1>2, <2>1 DEF HostTyped, HostFields
  <2>3. ~InRun'
    BY <2>2 DEF InRun
  <2> QED
    BY <1>1, <1>2, <2>2, <2>3, MovesKeep
<1>6. CASE LoopTop \/ Poll \/ PollFails \/ LookReaps \/ WriteSkipped \/ WriteFails \/ Write \/ Finish
             \/ Reap
  <2>1. InRun
    BY <1>6 DEF LoopTop, Poll, PollFails, LookReaps, WriteSkipped, WriteFails, Writes, Write, Finish,
                Reap, InRun
  <2>2. \/ \E pc \in {"poll", "top", "look", "final", "dead", "cancel"} : host' = [host EXCEPT !.pc = pc]
        \/ \E code : host' = [host EXCEPT !.pc = "reap", !.code = code]
        \/ \E code : host' = [host EXCEPT !.pc = "cancel", !.code = code]
        \/ host' = [host EXCEPT !.pc = "final", !.output = TRUE]
    <3>1. CASE LoopTop \/ PollFails
      BY <3>1 DEF LoopTop, PollFails, KillFor, GoTo
    <3>2. CASE Poll \/ LookReaps \/ WriteSkipped \/ WriteFails \/ Reap
      BY <3>2 DEF Poll, LookReaps, WriteSkipped, WriteFails, Reap, GoTo
    <3>3. CASE Write
      BY <3>3 DEF Write
    <3>4. CASE Finish
      BY <3>4 DEF Finish
    <3> QED
      BY <1>6, <3>1, <3>2, <3>3, <3>4
  <2>3. HostTyped' /\ host'.steps = host.steps /\ host'.pc \notin {"serve", "llm"}
    BY <1>2, <2>2 DEF HostTyped, HostFields
  <2> QED
    BY <1>1, <1>2, <2>1, <2>3, MovesKeep
<1> QED
  BY <1>3, <1>4, <1>5, <1>6

LEMMA ReadKeeps ==
  ASSUME CapabilityInv, LookReads
  PROVE  CapabilityInv'
<1>1. UNCHANGED <<setup, run, served, budgetUsed>> /\ host.pc = "look"
  BY DEF LookReads, Still, Quiet
<1>2. InRun /\ run # 0 /\ run \in Runs
  BY <1>1, SkillTyped DEF CapabilityInv, RunTyped, StepsCounted, InRun, Runs
<1>3. request' \in [Runs -> Requests] /\ request[run] \in Requests
  BY <1>2 DEF LookReads, CapabilityInv, RunTyped, Requests
<1>4. CASE Exceeds(host.steps + 1)
  <2>1. host' = [host EXCEPT !.pc = "reap", !.code = "steps"]
    BY <1>4 DEF LookReads, KillFor
  <2>2. HostTyped' /\ host'.pc = "reap" /\ host'.steps = host.steps
    BY <2>1 DEF CapabilityInv, HostTyped, HostFields
  <2> QED
    BY <1>1, <1>2, <1>3, <2>2, MovesKeep
<1>5. CASE ~Exceeds(host.steps + 1)
  <2>1. host' = [host EXCEPT !.pc = "serve", !.steps = host.steps + 1, !.req = request[run]]
    BY <1>5 DEF LookReads
  <2>2. HostTyped' /\ host'.pc = "serve" /\ host'.steps = host.steps + 1
    BY <1>3, <2>1 DEF CapabilityInv, HostTyped, HostFields
  <2>3. Runs' = Runs /\ Cap' = Cap
    BY <1>1 DEF Runs, Cap
  <2>4. RunTyped' /\ Granted'
    BY <1>1, <1>3, <2>3 DEF CapabilityInv, RunTyped, Granted
  <2>5. Len(served[run]) \in Nat /\ host.steps \in Nat /\ Cap.maxSteps \in Nat
    BY <1>2, SkillTyped DEF CapabilityInv, HostTyped, RunTyped, Cap
  <2>6. host.steps + 1 <= Cap.maxSteps /\ Len(served[run]) < host.steps + 1
    BY <1>2, <1>5, <2>5 DEF Exceeds, CapabilityInv, StepsCounted
  <2>7. Len(served[run]) <= host.steps + 1
    BY <2>5, <2>6
  <2>8. StepsCounted'
    BY <1>1, <1>2, <2>2, <2>3, <2>6, <2>7 DEF CapabilityInv, StepsCounted
  <2> QED
    BY <2>2, <2>4, <2>8 DEF CapabilityInv
<1> QED
  BY <1>4, <1>5

LEMMA SpawnKeeps ==
  ASSUME CapabilityInv, Spawn \/ SpawnFails
  PROVE  CapabilityInv'
<1>1. /\ UNCHANGED <<setup, served, request>> /\ run' = run + 1 /\ budgetUsed' = 0
      /\ host.pc = "idle" /\ run < Len(setup.skills)
  BY DEF Spawn, SpawnFails, Quiet, childVars
<1>2. Runs' = Runs /\ run \in Nat /\ Len(setup.skills) \in Nat /\ run' \in Runs
  BY <1>1, SkillTyped DEF CapabilityInv, RunTyped, Runs
<1>3. HostTyped' /\ host'.steps \in Nat /\ (host' = HostAt("top") \/ host' = host)
  <2>1. host' = HostAt("top") \/ host' = host
    BY DEF Spawn, SpawnFails
  <2>2. HostAt("top").steps = 0 /\ HostAt("top").req = NoLine /\ DOMAIN HostAt("top") = HostFields
    BY DEF HostAt, HostFields
  <2> QED
    BY <2>1, <2>2 DEF CapabilityInv, HostTyped, Requests
<1>4. /\ host'.pc \notin {"serve", "llm"}
      /\ InRun' => host'.steps = 0
  <2>1. HostAt("top").pc = "top" /\ HostAt("top").steps = 0
    BY DEF HostAt
  <2> QED
    BY <1>1, <1>3, <2>1 DEF InRun
<1>5. Cap'.maxSteps \in Nat /\ Cap'.budget \in Nat
  BY <1>1, <1>2, SkillTyped DEF CapabilityInv, RunTyped, Cap
<1>6. Len(served'[run']) = 0 /\ \A r \in Runs : r > run' => served'[r] = <<>>
  <2>1. run' > run
    BY <1>1, <1>2
  <2>2. \A r \in Runs : r > run' => r > run
    BY <1>1, <1>2 DEF Runs
  <2>3. served[run'] = <<>> /\ \A r \in Runs : r > run' => served[r] = <<>>
    BY <1>2, <2>1, <2>2 DEF CapabilityInv, StepsCounted
  <2> QED
    BY <1>1, <2>3
<1>7. RunTyped'
  BY <1>1, <1>2 DEF CapabilityInv, RunTyped
<1>8. StepsCounted'
  BY <1>1, <1>2, <1>4, <1>5, <1>6 DEF StepsCounted
<1>9. Granted'
  BY <1>1, <1>2, <1>5 DEF CapabilityInv, Granted
<1> QED
  BY <1>3, <1>7, <1>8, <1>9 DEF CapabilityInv

\* The child, the system, the timers and the provider grant nothing.
LEMMA AroundKeeps ==
  ASSUME CapabilityInv,
         ChildRuns \/ ChildEnds \/ OutsideKill \/ SkillFires \/ TimeOfTimers \/ ChannelSteps
           \/ Expire \/ Cancel \/ CallSteps \/ UNCHANGED vars
  PROVE  CapabilityInv'
<1>1. UNCHANGED <<setup, run, served, budgetUsed>> /\ host' = host
  BY DEF ChildRuns, ChildEnds, Others, OutsideKill, SkillFires, TimeOfTimers, ChannelSteps,
         AllButTimers, Expire, Cancel, CallSteps, vars, hostVars
<1>2. request' \in [Runs -> Requests]
  <2>1. request \in [Runs -> Requests] /\ setup \in Setups
    BY DEF CapabilityInv, RunTyped
  <2>2. CASE request' = request
    BY <2>1, <2>2
  <2>3. ASSUME NEW r \in Runs, request' = [request EXCEPT ![r] = Statement(r)]
        PROVE  request' \in [Runs -> Requests]
    BY <2>1, <2>3, StatementTyped
  <2>4. request' = request \/ \E r \in Runs : request' = [request EXCEPT ![r] = Statement(r)]
    BY DEF ChildRuns, ChildStarts, ChildComputes, ChildAsks, ChildGoesOn, ChildEnds, ChildDies,
           OutsideKill, SkillFires, TimeOfTimers, ChannelSteps, AllButTimers, Expire, Cancel,
           CallSteps, vars, childVars
  <2> QED
    BY <2>2, <2>3, <2>4
<1>3. HostTyped' /\ (InRun' => InRun)
  BY <1>1 DEF CapabilityInv, HostTyped, InRun
<1> QED
  BY <1>1, <1>2, <1>3, MovesKeep

LEMMA CapabilityStarts ==
  ASSUME ProgramInit
  PROVE  CapabilityInv
<1>1. /\ setup \in Setups /\ run = 0 /\ host = HostAt("idle") /\ budgetUsed = 0
      /\ request = [r \in Runs |-> NoLine] /\ served = [r \in Runs |-> <<>>]
  BY DEF ProgramInit, Init
<1>2. Len(setup.skills) \in Nat /\ \A r \in Runs : setup.skills[r].maxSteps \in Nat
  BY <1>1, SkillTyped
<1>3. HostTyped /\ host.pc = "idle"
  BY <1>1 DEF HostAt, HostTyped, HostFields, Requests
<1>4. RunTyped
  BY <1>1, <1>2 DEF RunTyped, Requests
<1>5. StepsCounted
  BY <1>1, <1>3 DEF StepsCounted, InRun
<1>6. Granted
  BY <1>1, <1>2 DEF Granted
<1> QED
  BY <1>3, <1>4, <1>5, <1>6 DEF CapabilityInv

\* The host begins a call of the model for a skill that may use one; the others only go on with it.
LEMMA PermissionKept ==
  ASSUME ProviderInv, CapabilityInv, ModelPermitted, [Next]_programVars
  PROVE  ModelPermitted'
<1>1. setup' = setup
  BY DEF Next, programVars, vars, skillVars, SkillNext, Spawn, SpawnFails, PollFails, Destroy, HostSteps,
         LoopTop, Poll, LookReaps, LookLeaves, LookReads, WriteSkipped, WriteFails, Write, Finish,
         Reap, Leaves, Destroyed, Serve, ServeTool, ServeEvent, ServeBudget, ServeReturn, ServeLlm,
         LlmAnswers, LlmTimesOut, Calm, Still, Quiet, ChildRuns, ChildEnds, Others, OutsideKill,
         SkillFires, TimeOfTimers, ChannelSteps, AllButTimers, Expire, Cancel, CallSteps
<1>2. Runs' = Runs /\ 0 \notin Runs /\ \A r \in Runs : r \in Caller
  BY <1>1, SkillAssumption DEF Runs, CapabilityInv, RunTyped
<1>3. CASE call' = call
  BY <1>1, <1>2, <1>3 DEF ModelPermitted
<1>4. CASE Serve /\ call' # call
  <2>1. ServeLlm /\ Cap.llm /\ Generate(run)
    BY <1>4 DEF Serve, ServeTool, ServeEvent, ServeBudget, ServeReturn, ServeLlm, LlmAnswers,
                LlmTimesOut, providerVars
  <2>2. \A r \in Runs : r # run => call'[r] = call[r]
    BY <2>1 DEF Generate, ProviderInv
  <2> QED
    BY <1>1, <1>2, <2>1, <2>2 DEF ModelPermitted, Cap
<1>5. CASE CallSteps
  <2>1. CASE Models(0) \/ Generate(0)
    <3>1. \A r \in Runs : call'[r] = call[r]
      BY <1>2, <2>1 DEF Models, Generate, ProviderInv
    <3> QED
      BY <1>1, <1>2, <3>1 DEF ModelPermitted
  <2>2. ASSUME NEW c \in Caller, ModelsReturn(c) \/ InnerReturns(c) \/ InnerThrows(c)
        PROVE  ModelPermitted'
    <3>1. call[c] # "none" /\ \A d \in Caller : d # c => call'[d] = call[d]
      BY <2>2 DEF ModelsReturn, InnerReturns, InnerThrows, ProviderInv
    <3> QED
      BY <1>1, <1>2, <3>1 DEF ModelPermitted
  <2>3. ASSUME NEW c \in Caller, Check(c, c \in cancelled) \/ Leave(c)
        PROVE  ModelPermitted'
    <3>1. \A d \in Caller : call'[d] # "none" => call[d] # "none"
      BY <2>3 DEF Check, Leave, Notify, ProviderInv, CallPlaces
    <3> QED
      BY <1>1, <1>2, <3>1 DEF ModelPermitted
  <2> QED
    BY <1>5, <2>1, <2>2, <2>3 DEF CallSteps
<1>6. call' = call \/ Serve \/ CallSteps
  BY DEF Next, programVars, vars, skillVars, SkillNext, Spawn, SpawnFails, PollFails, Destroy, HostSteps,
         LoopTop, Poll, LookReaps, LookLeaves, LookReads, WriteSkipped, WriteFails, Write, Finish,
         Reap, Leaves, Destroyed, Still, ChildRuns, ChildEnds, Others, OutsideKill,
         SkillFires, TimeOfTimers, ChannelSteps, AllButTimers, Expire, Cancel, providerVars
<1> QED
  BY <1>3, <1>4, <1>5, <1>6

LEMMA CapabilityKept ==
  ASSUME CapabilityInv, ModelPermitted, [Next]_programVars
  PROVE  CapabilityInv'
<1>1. CASE SkillNext
  BY <1>1, HostKeeps, ReadKeeps, ServeKeeps, SpawnKeeps, AroundKeeps DEF SkillNext, HostSteps
<1>2. CASE UNCHANGED <<setup, hostVars, childVars>>
  BY <1>2, MovesKeep DEF hostVars, childVars, CapabilityInv, HostTyped, RunTyped, InRun, Runs
<1> QED
  BY <1>1, <1>2 DEF Next, programVars, vars, skillVars

LEMMA CapabilityHolds == Spec => [](CapabilityInv /\ ModelPermitted)
<1>1. ProgramInit => CapabilityInv /\ ModelPermitted
  <2>1. ProgramInit => ModelPermitted
    BY SkillAssumption DEF ProgramInit, Init, ProviderInit, ModelPermitted, Runs
  <2> QED
    BY <2>1, CapabilityStarts
<1>2. /\ CapabilityInv /\ ModelPermitted /\ ProviderInv /\ [Next]_programVars
         => CapabilityInv' /\ ModelPermitted'
  BY CapabilityKept, PermissionKept
<1> QED
  BY <1>1, <1>2, ProviderHolds, PTL DEF Spec

(* Whatever a skill asks, whenever its calls are cut off and however its    *)
(* child ends, it is granted at most its number of steps, only the tools    *)
(* of its list, events and a model only where it may use them, and no more  *)
(* than its budget; and no call of the model is even begun for a skill that *)
(* may not use one.                                                         *)
THEOREM GrantsBounded == Spec => []WithinCapability
<1>1. Spec => [](CapabilityInv /\ ModelPermitted)
  BY CapabilityHolds
<1>2. CapabilityInv /\ ModelPermitted => WithinCapability
  BY DEF CapabilityInv, Granted, ModelPermitted, WithinCapability
<1> QED
  BY <1>1, <1>2, PTL

-----------------------------------------------------------------------------
(* The end of a run: what the host knows of the child it talks to.         *)

Answers == {"ok", "refused", "terminate"}
ChildPlaces == {None, "start", "run", "asked", "zombie", "reaped"}
ChildState == [pc : ChildPlaces, at : Nat, killed : BOOLEAN, status : Status \cup {None}]
ChildTyped ==
  /\ child \in [Runs -> ChildState]
  /\ response \in [Runs -> Answers \cup {None}]
  /\ DOMAIN result = Runs /\ \A r \in Runs : DOMAIN result[r] = {"code", "output"}
  /\ kills \in Nat /\ childPid \in 0..run /\ stopInput \in 0..run

\* Of the runs to come nothing has happened.
Unstarted ==
  \A r \in Runs : r > run => /\ child[r].pc = None /\ request[r] = NoLine /\ response[r] = None
                             /\ ~child[r].killed /\ child[r].status = None
                             /\ result[r].code = None /\ r \notin lost

\* A child that has ended has a status, and a SIGKILL has a sender.
HasStatus ==
  \A r \in Runs : /\ child[r].pc \in {"zombie", "reaped"} => child[r].status \in Status
                  /\ child[r].pc \notin {"zombie", "reaped"} => child[r].status = None
                  /\ child[r].status = "SIGKILL" => child[r].killed \/ kills > 0

\* Who has the word.  A request is in the pipe, in the host's hands or answered, and while its child
\* lives it is the statement the child is at; an answer is written once, and the answer to a return
\* is written when the host has the value.
Dialogue ==
  InRun =>
    /\ run # 0 /\ childPid = run /\ child[run].pc # None
    /\ child[run].pc \in {"start", "run"} => request[run] = NoLine /\ response[run] = None
    /\ request[run] # NoLine => response[run] = None /\ (Lives(run) => request[run] = Statement(run))
    /\ host.pc = "look" => request[run] # NoLine
    /\ host.pc \in {"serve", "llm", "respond"} =>
         request[run] = NoLine /\ (Lives(run) => host.req = Statement(run))
    /\ host.pc \in {"look", "serve", "llm", "respond", "final"} /\ Lives(run) => child[run].pc = "asked"
    /\ host.pc \in {"look", "serve", "llm", "respond"} /\ Lives(run) => response[run] = None
    /\ host.pc = "final" /\ Lives(run) /\ response[run] # None => Statement(run).op = "return"
    /\ response[run] # None /\ Statement(run).op = "return" => host.output
    /\ host.pc = "llm" => host.req.op = "llm_generate"
    /\ host.pc = "respond" =>
         host.answer \in Answers /\ (host.req.op = "consume_budget" => host.answer # "refused")
    /\ Lives(run) /\ response[run] # None /\ Statement(run).op = "consume_budget" =>
         response[run] = "ok" \/ child[run].killed

\* How a run ends: who killed the child and what the host goes on to do then; what a flag set by this
\* run, a lost status and a code that was decided on tell of it.
Closing ==
  InRun =>
    /\ host.pc \in {"top", "poll", "look", "serve", "llm"} => ~child[run].killed
    /\ host.pc \in {"look", "serve", "llm", "respond"} \/ request[run] # NoLine =>
         Lives(run) \/ child[run].killed \/ kills > 0
    /\ host.pc \in {"serve", "llm"} => stopInput = 0
    /\ stopInput = run => host.pc \in {"respond", "final", "cancel"} /\ run \in expired
    /\ host.pc = "respond" =>
         /\ stopInput # 0 => stopInput = run /\ (Lives(run) => child[run].killed)
         /\ child[run].killed => host.answer = "terminate" \/ stopInput # 0
         /\ host.answer = "terminate" /\ Lives(run) => child[run].killed
    /\ host.pc = "final" /\ child[run].killed => stopInput \in {0, run}
    /\ run \in lost => host.pc \in {"final", "cancel"} /\ (kills > 0 \/ stopInput = 0)
    /\ child[run].status = "exit0" => host.output
    /\ host.pc \in {"reap", "cancel"} =>
         /\ host.code = "success" => host.output \/ run \in lost
         /\ host.code = "timeout" => run \in expired \cup late
         /\ host.code = "abort" => run \in cancelled \cup expired \/ kills > 0
    /\ host.pc = "cancel" => child[run].pc = "reaped" \/ host.code = "threw"

\* The flag of the deadline, and so a timeout, has a reason.
InTime == deadlineExceeded /\ InRun => run \in expired \cup late

\* A child that is not of the current run was reaped, but for one whose run threw; childPid is the last.
LeftOver ==
  /\ \A r \in Runs : ~(r = run /\ (InRun \/ host.pc = "dead")) /\ child[r].pc \notin {None, "reaped"} =>
                       result[r].code = "threw"
  /\ host.pc \in {"idle", "destroy"} => run = 0 \/ child[run].pc \in {None, "reaped"} \/ childPid = run
  /\ host.pc = "gone" => run = 0 \/ child[run].pc \in {None, "reaped"}
  /\ childPid # 0 => child[childPid].pc # None

RunInv == /\ CapabilityInv /\ ChildTyped /\ Unstarted /\ HasStatus /\ Dialogue /\ Closing
          /\ LeftOver /\ InTime /\ HostSurvives /\ CodesTellWhy /\ StrandedOnlyBy

LEMMA SameStatement ==
  ASSUME setup' = setup, NEW r, child'[r].at = child[r].at
  PROVE  Statement(r)' = Statement(r)
BY DEF Statement, Nth, IsStatement

LEMMA RunsHere ==
  ASSUME RunInv
  PROVE  /\ DOMAIN host = {"pc", "steps", "req", "answer", "code", "output"}
         /\ run \in Nat /\ (InRun => run \in Runs)
         /\ \A r \in Runs : r \in Nat \ {0}
         /\ request \in [Runs -> Requests]
BY SkillTyped DEF RunInv, CapabilityInv, HostTyped, HostFields, RunTyped, StepsCounted, Runs

\* What a step of the host may do to the child.
Touches ==
  \/ child' = child
  \/ child' = [child EXCEPT ![run].killed = TRUE] /\ Lives(run)
  \/ child' = [child EXCEPT ![run].pc = "reaped"] /\ ~Lives(run)

\* What such a step leaves of the run.
Framed ==
  /\ ChildTyped' /\ Unstarted' /\ HasStatus' /\ LeftOver' /\ CodesTellWhy'
  /\ Statement(run)' = Statement(run)
  /\ child'[run].status = child[run].status
  /\ \/ child'[run].pc = child[run].pc /\ child'[run].killed = child[run].killed
     \/ child'[run].pc = child[run].pc /\ Lives(run) /\ child'[run].killed
     \/ child'[run].pc = "reaped" /\ ~Lives(run) /\ child'[run].killed = child[run].killed

LEMMA HostFrame ==
  ASSUME RunInv, InRun, InRun' \/ host'.pc = "dead", Touches,
         UNCHANGED <<setup, run, childPid, result, expired, cancelled, kills, late>>,
         stopInput' \in {stopInput, run}, lost' \in {lost, lost \cup {run}},
         NEW q, request' = [request EXCEPT ![run] = q],
         NEW a \in Answers \cup {None}, response' = [response EXCEPT ![run] = a]
  PROVE  /\ Framed
         /\ request'[run] = q /\ response'[run] = a
<1>1. Runs' = Runs /\ run \in Runs /\ run \in Nat /\ \A r \in Runs : r \in Nat
  BY RunsHere DEF Runs
<1>2. PICK c : c = child[run]
  OBVIOUS
<1>3. c \in ChildState /\ (Lives(run) <=> c.pc \notin {None, "zombie", "reaped"})
  BY <1>1, <1>2 DEF Lives, RunInv, ChildTyped
<1>4. PICK d \in ChildState : /\ child' = [child EXCEPT ![run] = d]
                              /\ d.at = c.at /\ d.status = c.status
                              /\ \/ d = c
                                 \/ Lives(run) /\ d.pc = c.pc /\ d.killed
                                 \/ ~Lives(run) /\ d.pc = "reaped" /\ d.killed = c.killed
  <2>1. CASE child' = child
    BY <1>1, <1>2, <1>3, <2>1 DEF RunInv, ChildTyped
  <2>2. CASE Lives(run) /\ child' = [child EXCEPT ![run].killed = TRUE]
    <3>1. PICK d : d = [c EXCEPT !.killed = TRUE]
      OBVIOUS
    <3>2. d \in ChildState /\ d.at = c.at /\ d.status = c.status /\ d.pc = c.pc /\ d.killed
      BY <1>3, <3>1 DEF ChildState
    <3>3. child' = [child EXCEPT ![run] = d]
      BY <1>2, <2>2, <3>1
    <3> QED
      BY <2>2, <3>2, <3>3
  <2>3. CASE ~Lives(run) /\ child' = [child EXCEPT ![run].pc = "reaped"]
    <3>1. PICK d : d = [c EXCEPT !.pc = "reaped"]
      OBVIOUS
    <3>2. d \in ChildState /\ d.at = c.at /\ d.status = c.status /\ d.pc = "reaped" /\ d.killed = c.killed
      BY <1>3, <3>1 DEF ChildState, ChildPlaces
    <3>3. child' = [child EXCEPT ![run] = d]
      BY <1>2, <2>3, <3>1
    <3> QED
      BY <2>3, <3>2, <3>3
  <2> QED
    BY <2>1, <2>2, <2>3 DEF Touches
<1>5. /\ child'[run] = d /\ child' \in [Runs -> ChildState]
      /\ \A r \in Runs : r # run => child'[r] = child[r]
  BY <1>1, <1>4 DEF RunInv, ChildTyped
<1>7. /\ request'[run] = q /\ response'[run] = a /\ response' \in [Runs -> Answers \cup {None}]
      /\ \A r \in Runs : r # run => request'[r] = request[r] /\ response'[r] = response[r]
  BY <1>1, RunsHere DEF RunInv, ChildTyped
<1>6. ChildTyped'
  <2>1. stopInput' \in 0..run
    BY <1>1 DEF RunInv, ChildTyped
  <2> QED
    BY <1>1, <1>5, <1>7, <2>1 DEF RunInv, ChildTyped
<1>8. Unstarted'
  <2>1. \A r \in Runs : r > run => r # run
    BY <1>1
  <2> QED
    BY <1>1, <1>5, <1>7, <2>1 DEF RunInv, Unstarted
<1>9. HasStatus'
  <2>1. /\ d.pc \in {"zombie", "reaped"} => d.status \in Status
        /\ d.pc \notin {"zombie", "reaped"} => d.status = None
        /\ d.status = "SIGKILL" => d.killed \/ kills > 0
    <3>1. c.pc # None
      BY <1>2 DEF RunInv, Dialogue
    <3> QED
      BY <1>1, <1>2, <1>3, <1>4, <3>1 DEF RunInv, HasStatus, ChildState, ChildPlaces
  <2> QED
    BY <1>1, <1>5, <2>1 DEF RunInv, HasStatus
<1>10. LeftOver'
  <2>1. childPid = run /\ d.pc # None
    BY <1>2, <1>4 DEF RunInv, Dialogue, None
  <2> QED
    BY <1>1, <1>5, <2>1 DEF RunInv, LeftOver, InRun
<1>11. CodesTellWhy'
  BY <1>1 DEF RunInv, CodesTellWhy
<1>12. Statement(run)' = Statement(run)
  BY <1>1, <1>2, <1>4, <1>5, SameStatement
<1> QED
  BY <1>2, <1>4, <1>5, <1>6, <1>7, <1>8, <1>9, <1>10, <1>11, <1>12 DEF Framed

\* The steps that read and write nothing.
LEMMA StillFrame ==
  ASSUME RunInv, InRun, InRun' \/ host'.pc = "dead", Touches,
         UNCHANGED <<setup, run, childPid, result, expired, cancelled, kills, late, request, response>>,
         stopInput' \in {stopInput, run}, lost' \in {lost, lost \cup {run}}
  PROVE  Framed
<1>1. run \in Runs /\ request = [request EXCEPT ![run] = request[run]]
      /\ response = [response EXCEPT ![run] = response[run]] /\ response[run] \in Answers \cup {None}
  BY RunsHere DEF RunInv, ChildTyped
<1> QED
  BY <1>1, HostFrame

LEMMA TopKeeps ==
  ASSUME RunInv, LoopTop \/ PollFails, CapabilityInv'
  PROVE  RunInv'
<1>1. UNCHANGED <<setup, run, childPid, result, kills, expired, cancelled, late, request, response,
                  stopInput, lost, deadlineExceeded>>
  BY DEF LoopTop, PollFails, Still, Quiet, envVars
<1>2. DOMAIN host = {"pc", "steps", "req", "answer", "code", "output"}
  BY RunsHere
<1>3. host.pc \in {"top", "poll"} /\ InRun
  BY DEF LoopTop, PollFails, InRun
<1>4. /\ \/ host'.pc = "reap" /\ host'.code = "abort" /\ run \in cancelled
         \/ host'.pc = "reap" /\ host'.code = "timeout" /\ Late
         \/ host'.pc = "reap" /\ host'.code = "exhausted"
         \/ host'.pc = "poll" /\ host'.code = host.code /\ child' = child
      /\ host'.output = host.output
  BY <1>2 DEF LoopTop, PollFails, KillFor, GoTo
<1>5. Touches
  BY DEF LoopTop, PollFails, KillFor, Killed, Touches
<1>6. InRun'
  BY <1>4 DEF InRun
<1>7. Framed
  BY <1>1, <1>3, <1>5, <1>6, StillFrame
<1>8. Dialogue'
  BY <1>1, <1>3, <1>4, <1>7 DEF Framed, RunInv, Dialogue, Lives, None
<1>9. Closing'
  BY <1>1, <1>3, <1>4, <1>7 DEF Framed, RunInv, Closing, InTime, Late, Lives, InRun, None
<1>10. HostSurvives' /\ StrandedOnlyBy' /\ InTime'
  BY <1>1, <1>3, <1>4 DEF HostSurvives, StrandedOnlyBy, Stranded, RunInv, InTime
<1> QED
  BY <1>7, <1>8, <1>9, <1>10 DEF Framed, RunInv

LEMMA PollKeeps ==
  ASSUME RunInv, Poll, CapabilityInv'
  PROVE  RunInv'
<1>1. UNCHANGED <<setup, run, childPid, result, kills, expired, cancelled, late, request, response,
                  stopInput, deadlineExceeded>>
      /\ lost' \in {lost, lost \cup {run}}
  BY DEF Poll, childVars, Still, Quiet, envVars
<1>3. host.pc \in {"poll"} /\ InRun
  BY DEF Poll, Writes, InRun
<1>2. /\ DOMAIN host = {"pc", "steps", "req", "answer", "code", "output"}
      /\ run \in Runs /\ child \in [Runs -> ChildState] /\ child[run] \in ChildState
      /\ child[run].pc \in ChildPlaces
  BY <1>3, RunsHere DEF RunInv, ChildTyped, ChildState
<1>4. /\ child' = child /\ lost' = lost
      /\ \A f \in {"req", "answer", "code", "output"} : host'[f] = host[f]
      /\ \/ request[run] = NoLine /\ Lives(run) /\ host'.pc = "top"
         \/ request[run] # NoLine /\ host'.pc = "look"
         \/ request[run] = NoLine /\ ~Lives(run) /\ host'.pc = "final"
  BY <1>2 DEF Poll, GoTo, childVars
<1>5. Touches
  BY DEF Poll, childVars, Touches
<1>6. InRun' \/ host'.pc = "dead"
  BY <1>4 DEF InRun
<1>7. Framed
  BY <1>1, <1>3, <1>5, <1>6, StillFrame
<1>8. Dialogue'
  BY <1>1, <1>2, <1>3, <1>4, <1>7 DEF Framed, RunInv, Dialogue, ChildPlaces, Lives, None, InRun
<1>9. Closing'
  BY <1>1, <1>3, <1>4, <1>7 DEF Framed, RunInv, Closing, Dialogue, Lives, InRun, None
<1>10. InTime'
  BY <1>1, <1>3 DEF RunInv, InTime
<1>11. StrandedOnlyBy'
  BY <1>1, <1>3, <1>4, <1>7 DEF Framed, StrandedOnlyBy, Stranded, RunInv, Dialogue, Closing, Lives, None
<1>12. HostSurvives'
  BY <1>1, <1>3, <1>4, <1>7 DEF Framed, HostSurvives, RunInv, Closing
<1> QED
  BY <1>7, <1>8, <1>9, <1>10, <1>11, <1>12 DEF Framed, RunInv

LEMMA LookKeeps ==
  ASSUME RunInv, LookReaps \/ LookLeaves, CapabilityInv'
  PROVE  RunInv'
<1>1. UNCHANGED <<setup, run, childPid, result, kills, expired, cancelled, late, request, response,
                  stopInput, deadlineExceeded>>
      /\ lost' \in {lost, lost \cup {run}}
  BY DEF LookReaps, LookLeaves, childVars, Still, Quiet, envVars
<1>3. host.pc \in {"look"} /\ InRun
  BY DEF LookReaps, LookLeaves, Writes, InRun
<1>2. /\ DOMAIN host = {"pc", "steps", "req", "answer", "code", "output"}
      /\ run \in Runs /\ child \in [Runs -> ChildState] /\ child[run] \in ChildState
      /\ child[run].pc \in ChildPlaces
  BY <1>3, RunsHere DEF RunInv, ChildTyped, ChildState
<1>4. /\ host'.answer = host.answer /\ host'.code = host.code /\ host'.output = host.output
      /\ host'.pc = "final"
      /\ \/ ~Lives(run) /\ child'[run].pc = "reaped"
         \/ /\ Lives(run) /\ child' = child /\ lost' = lost
            /\ host'.req = request[run] /\ (stopInput # 0 \/ request[run].long)
  <2>1. CASE LookReaps
    BY <1>2, <2>1 DEF ChildState, LookReaps, GoTo
  <2>2. CASE LookLeaves
    BY <1>2, <2>2 DEF LookLeaves, childVars
  <2> QED
    BY <2>1, <2>2
<1>5. Touches
  BY DEF LookReaps, LookLeaves, childVars, Touches
<1>6. InRun' \/ host'.pc = "dead"
  BY <1>4 DEF InRun
<1>7. Framed
  BY <1>1, <1>3, <1>5, <1>6, StillFrame
<1>8. Dialogue'
  BY <1>1, <1>2, <1>3, <1>4, <1>7 DEF Framed, RunInv, Dialogue, ChildPlaces, Lives, None, InRun
<1>9. Closing'
  BY <1>1, <1>3, <1>4, <1>7 DEF Framed, RunInv, Closing, Dialogue, Lives, InRun, None
<1>10. InTime'
  BY <1>1, <1>3 DEF RunInv, InTime
<1>11. StrandedOnlyBy'
  BY <1>1, <1>3, <1>4, <1>7 DEF Framed, StrandedOnlyBy, Stranded, RunInv, Dialogue, Closing, Lives, None
<1>12. HostSurvives'
  BY <1>1, <1>3, <1>4, <1>7 DEF Framed, HostSurvives, RunInv, Closing
<1> QED
  BY <1>7, <1>8, <1>9, <1>10, <1>11, <1>12 DEF Framed, RunInv

LEMMA SkipKeeps ==
  ASSUME RunInv, WriteSkipped \/ WriteFails, CapabilityInv'
  PROVE  RunInv'
<1>1. UNCHANGED <<setup, run, childPid, result, kills, expired, cancelled, late, request, response,
                  stopInput, deadlineExceeded>>
      /\ lost' \in {lost, lost \cup {run}}
  BY DEF WriteSkipped, WriteFails, childVars, Still, Quiet, envVars
<1>3. host.pc \in {"respond"} /\ InRun
  BY DEF WriteSkipped, WriteFails, Writes, InRun
<1>2. /\ DOMAIN host = {"pc", "steps", "req", "answer", "code", "output"}
      /\ run \in Runs /\ child \in [Runs -> ChildState] /\ child[run] \in ChildState
      /\ child[run].pc \in ChildPlaces
  BY <1>3, RunsHere DEF RunInv, ChildTyped, ChildState
<1>4. /\ \A f \in {"req", "answer", "code", "output"} : host'[f] = host[f]
      /\ \/ stopInput # 0 /\ host'.pc = "final" /\ child' = child /\ lost' = lost
         \/ ~Lives(run) /\ host'.pc = "final" /\ stopInput = 0
         \/ ~Lives(run) /\ host'.pc = "dead" /\ stopInput = 0 /\ ~setup.ignoresPipe /\ child' = child /\ lost' = lost
  BY <1>2 DEF WriteSkipped, WriteFails, GoTo, childVars, Writes
<1>5. Touches
  BY DEF WriteSkipped, WriteFails, childVars, Touches
<1>6. InRun' \/ host'.pc = "dead"
  BY <1>4 DEF InRun
<1>7. Framed
  BY <1>1, <1>3, <1>5, <1>6, StillFrame
<1>8. Dialogue'
  BY <1>1, <1>2, <1>3, <1>4, <1>7 DEF Framed, RunInv, Dialogue, ChildPlaces, Lives, None, InRun
<1>9. Closing'
  BY <1>1, <1>3, <1>4, <1>7 DEF Framed, RunInv, Closing, Dialogue, Lives, InRun, None
<1>10. InTime'
  BY <1>1, <1>3 DEF RunInv, InTime
<1>11. StrandedOnlyBy'
  BY <1>1, <1>3, <1>4, <1>7 DEF Framed, StrandedOnlyBy, Stranded, RunInv, Dialogue, Closing, Lives, None
<1>12. HostSurvives'
  BY <1>1, <1>3, <1>4, <1>7 DEF Framed, HostSurvives, RunInv, Closing
<1> QED
  BY <1>7, <1>8, <1>9, <1>10, <1>11, <1>12 DEF Framed, RunInv

LEMMA ReapKeeps ==
  ASSUME RunInv, Reap, CapabilityInv'
  PROVE  RunInv'
<1>1. UNCHANGED <<setup, run, childPid, result, kills, expired, cancelled, late, request, response,
                  stopInput, deadlineExceeded>>
      /\ lost' \in {lost, lost \cup {run}}
  BY DEF Reap, childVars, Still, Quiet, envVars
<1>3. host.pc \in {"reap"} /\ InRun
  BY DEF Reap, Writes, InRun
<1>2. /\ DOMAIN host = {"pc", "steps", "req", "answer", "code", "output"}
      /\ run \in Runs /\ child \in [Runs -> ChildState] /\ child[run] \in ChildState
      /\ child[run].pc \in ChildPlaces
  BY <1>3, RunsHere DEF RunInv, ChildTyped, ChildState
<1>4. /\ \A f \in {"req", "answer", "code", "output"} : host'[f] = host[f]
      /\ host'.pc = "cancel" /\ lost' = lost /\ ~Lives(run) /\ child'[run].pc = "reaped"
  BY <1>2 DEF ChildState, Reap, GoTo, childVars
<1>5. Touches
  BY DEF Reap, childVars, Touches
<1>6. InRun' \/ host'.pc = "dead"
  BY <1>4 DEF InRun
<1>7. Framed
  BY <1>1, <1>3, <1>5, <1>6, StillFrame
<1>8. Dialogue'
  BY <1>1, <1>2, <1>3, <1>4, <1>7 DEF Framed, RunInv, Dialogue, ChildPlaces, Lives, None, InRun
<1>9. Closing'
  BY <1>1, <1>3, <1>4, <1>7 DEF Framed, RunInv, Closing, Dialogue, Lives, InRun, None
<1>10. InTime'
  BY <1>1, <1>3 DEF RunInv, InTime
<1>11. StrandedOnlyBy'
  BY <1>1, <1>3, <1>4, <1>7 DEF Framed, StrandedOnlyBy, Stranded, RunInv, Dialogue, Closing, Lives, None
<1>12. HostSurvives'
  BY <1>1, <1>3, <1>4, <1>7 DEF Framed, HostSurvives, RunInv, Closing
<1> QED
  BY <1>7, <1>8, <1>9, <1>10, <1>11, <1>12 DEF Framed, RunInv

LEMMA Verdicts ==
  ASSUME NEW status \in Status
  PROVE  /\ Verdict(status) = "success" => status = "exit0"
         /\ Verdict(status) = "abort" => status = "SIGKILL" /\ stopInput # 0
         /\ Verdict(status) # "timeout"
BY DEF Verdict, Status

LEMMA FinishKeeps ==
  ASSUME RunInv, Finish, CapabilityInv'
  PROVE  RunInv'
<1>1. UNCHANGED <<setup, run, childPid, result, kills, expired, cancelled, late, request, response,
                  stopInput, deadlineExceeded, lost>>
  BY DEF Finish, childVars, Still, Quiet, envVars
<1>3. host.pc = "final" /\ InRun /\ ~Lives(run)
  BY DEF Finish, InRun
<1>2. /\ DOMAIN host = {"pc", "steps", "req", "answer", "code", "output"}
      /\ run \in Runs /\ child \in [Runs -> ChildState] /\ child[run] \in ChildState
      /\ child[run].pc \in ChildPlaces
  BY <1>3, RunsHere DEF RunInv, ChildTyped, ChildState
<1>4. /\ host'.pc = "cancel" /\ host'.output = host.output
      /\ \/ run \in lost /\ \/ \E t \in Status : host'.code = Verdict(t)
                            \/ host'.code = "unknown"
         \/ run \notin lost /\ host'.code = Verdict(child[run].status)
      /\ child'[run].pc = "reaped"
  <2>1. PICK code \in IF run \in lost THEN {Verdict(t) : t \in Status} \cup {"unknown"}
                 ELSE {Verdict(child[run].status)} :
          host' = [host EXCEPT !.pc = "cancel", !.code = code]
    BY ZenonT(60) DEF Finish
  <2>2. host'.pc = "cancel" /\ host'.output = host.output /\ host'.code = code
    BY <1>2, <2>1
  <2>3. child'[run].pc = "reaped"
    BY <1>2 DEF Finish, ChildState
  <2> QED
    BY <2>1, <2>2, <2>3
<1>5. Touches
  BY DEF Finish, Touches
<1>6. InRun'
  BY <1>4 DEF InRun
<1>7. Framed
  BY <1>1, <1>3, <1>5, <1>6, StillFrame
<1>8. Dialogue'
  BY <1>1, <1>2, <1>3, <1>4, <1>7 DEF Framed, RunInv, Dialogue, ChildPlaces, Lives, None, InRun
<1>13. child[run].status \in Status
  BY <1>2, <1>3 DEF RunInv, HasStatus, Dialogue, ChildPlaces, Lives
<1>14. /\ host'.code = "success" => host'.output \/ run \in lost
       /\ host'.code = "abort" => run \in expired \/ kills > 0
       /\ host'.code # "timeout"
  <2>1. CASE run \in lost
    BY <1>3, <1>4, <2>1, Verdicts DEF RunInv, Closing
  <2>2. CASE run \notin lost
    <3>1. child[run].status = "exit0" => host.output
      BY <1>3 DEF RunInv, Closing
    <3>2. child[run].status = "SIGKILL" /\ stopInput # 0 => run \in expired \/ kills > 0
      BY <1>2, <1>3 DEF RunInv, Closing, HasStatus
    <3> QED
      BY <1>4, <1>13, <2>2, <3>1, <3>2, Verdicts
  <2> QED
    BY <2>1, <2>2
<1>9. Closing'
  BY <1>1, <1>3, <1>4, <1>7, <1>14 DEF Framed, RunInv, Closing
<1>10. InTime'
  BY <1>1, <1>3 DEF RunInv, InTime
<1>11. StrandedOnlyBy' /\ HostSurvives'
  BY <1>4 DEF StrandedOnlyBy, Stranded, HostSurvives
<1> QED
  BY <1>7, <1>8, <1>9, <1>10, <1>11 DEF Framed, RunInv

LEMMA WriteKeeps ==
  ASSUME RunInv, Write, CapabilityInv'
  PROVE  RunInv'
<1>1. UNCHANGED <<setup, run, childPid, result, kills, expired, cancelled, late, child, request,
                  stopInput, deadlineExceeded, lost>>
  BY DEF Write, Still, Quiet, envVars
<1>3. host.pc = "respond" /\ InRun /\ Lives(run) /\ stopInput = 0
  BY DEF Write, Writes, InRun
<1>2. /\ DOMAIN host = {"pc", "steps", "req", "answer", "code", "output"}
      /\ run \in Runs /\ request = [request EXCEPT ![run] = request[run]]
      /\ host.answer \in Answers
  BY <1>3, RunsHere DEF RunInv, Dialogue
<1>4. /\ host'.answer = host.answer
      /\ \/ host.req.op = "return" /\ host'.pc = "final" /\ host'.output
         \/ /\ host.req.op # "return" /\ host.answer = "terminate" /\ host'.pc = "reap"
            /\ host'.code = "budget" /\ host'.output = host.output
         \/ /\ host.req.op # "return" /\ host.answer # "terminate" /\ host'.pc = "top"
            /\ host'.output = host.output
  BY <1>2 DEF Write
<1>5. Touches
  BY <1>1 DEF Touches
<1>6. InRun'
  BY <1>4 DEF InRun
<1>7. /\ ChildTyped' /\ Unstarted' /\ HasStatus' /\ LeftOver' /\ CodesTellWhy'
      /\ Statement(run)' = Statement(run)
      /\ response'[run] = host.answer
  <2>1. response' = [response EXCEPT ![run] = host.answer]
    BY DEF Write
  <2> QED
    BY <1>1, <1>2, <1>3, <1>5, <1>6, <2>1, HostFrame DEF Framed
<1>8. Dialogue'
  BY <1>1, <1>2, <1>3, <1>4, <1>7 DEF RunInv, Dialogue, Closing, Answers, Lives, None, InRun
<1>9. Closing'
  BY <1>1, <1>3, <1>4, <1>7 DEF RunInv, Closing, Dialogue, Lives
<1>10. InTime'
  BY <1>1, <1>3 DEF RunInv, InTime
<1>11. StrandedOnlyBy' /\ HostSurvives'
  BY <1>1, <1>2, <1>4, <1>7 DEF StrandedOnlyBy, Stranded, HostSurvives, Answers, None
<1> QED
  BY <1>7, <1>8, <1>9, <1>10, <1>11 DEF RunInv

LEMMA LookReadsKeeps ==
  ASSUME RunInv, LookReads, CapabilityInv'
  PROVE  RunInv'
<1>1. UNCHANGED <<setup, run, childPid, result, kills, expired, cancelled, late, response, stopInput,
                  deadlineExceeded, lost>>
  BY DEF LookReads, Still, Quiet, envVars
<1>3. host.pc = "look" /\ InRun /\ Lives(run) /\ stopInput = 0
  BY DEF LookReads, InRun
<1>2. /\ DOMAIN host = {"pc", "steps", "req", "answer", "code", "output"}
      /\ run \in Runs /\ response = [response EXCEPT ![run] = response[run]]
      /\ response[run] \in Answers \cup {None}
  BY <1>3, RunsHere DEF RunInv, ChildTyped
<1>4. /\ host'.answer = host.answer /\ host'.output = host.output
      /\ \/ host'.pc = "reap" /\ host'.code = "steps"
         \/ host'.pc = "serve" /\ host'.req = request[run] /\ child' = child
  BY <1>2 DEF LookReads, KillFor
<1>5. Touches
  BY DEF LookReads, KillFor, Killed, Touches
<1>6. InRun'
  BY <1>4 DEF InRun
<1>7. Framed
      /\ response'[run] = response[run] /\ request'[run] = NoLine
  <2>1. request' = [request EXCEPT ![run] = NoLine]
    BY DEF LookReads
  <2> QED
    BY <1>1, <1>2, <1>3, <1>5, <1>6, <2>1, HostFrame DEF Framed
<1>8. Dialogue'
  BY <1>1, <1>2, <1>3, <1>4, <1>7 DEF Framed, RunInv, Dialogue, Closing, Lives, None, InRun
<1>9. Closing'
  BY <1>1, <1>3, <1>4, <1>7 DEF Framed, RunInv, Closing, Dialogue, Lives
<1>10. InTime'
  BY <1>1, <1>3 DEF RunInv, InTime
<1>11. StrandedOnlyBy' /\ HostSurvives'
  BY <1>1, <1>2, <1>4, <1>7 DEF Framed, StrandedOnlyBy, Stranded, HostSurvives, None
<1> QED
  BY <1>7, <1>8, <1>9, <1>10, <1>11 DEF Framed, RunInv

Shot == child' = Killed(run)

LEMMA AnswerKeeps ==
  ASSUME RunInv, CapabilityInv', host.pc \in {"serve", "llm"}, Calm, NEW a \in Answers, Respond(a),
         host.req.op = "consume_budget" => a # "refused",
         \/ a # "terminate" /\ UNCHANGED <<stopInput, child>>
         \/ a = "terminate" /\ Shot /\ UNCHANGED stopInput
         \/ a = "refused" /\ Shot /\ stopInput' = run /\ run \in expired
  PROVE  RunInv'
<1>1. UNCHANGED <<setup, run, childPid, result, kills, expired, cancelled, late, request, response,
                  deadlineExceeded, lost>>
  BY DEF Calm, Quiet, envVars
<1>3. InRun
  BY DEF InRun
<1>2. /\ DOMAIN host = {"pc", "steps", "req", "answer", "code", "output"}
      /\ run \in Runs /\ child \in [Runs -> ChildState]
  BY <1>3, RunsHere DEF RunInv, ChildTyped
<1>4. host'.answer = a /\ host'.output = host.output /\ host'.pc = "respond" /\ host'.req = host.req
  BY <1>2 DEF Respond
<1>5. /\ Touches /\ (Shot /\ Lives(run) => child'[run].killed)
      /\ Shot /\ ~Lives(run) => child' = child
  <2>1. CASE child' = child
    BY <1>2, <2>1 DEF Touches, Shot, Killed, ChildState
  <2>2. CASE Shot
    BY <1>2, <2>2 DEF Touches, Shot, Killed, ChildState
  <2> QED
    BY <2>1, <2>2
<1>6. InRun'
  BY <1>4 DEF InRun
<1>7. Framed
  <2>1. request = [request EXCEPT ![run] = request[run]]
        /\ response = [response EXCEPT ![run] = response[run]] /\ response[run] \in Answers \cup {None}
    BY <1>2, RunsHere DEF RunInv, ChildTyped
  <2> QED
    BY <1>1, <1>2, <1>3, <1>5, <1>6, <2>1, HostFrame DEF Framed
<1>8. Dialogue'
  BY <1>1, <1>2, <1>3, <1>4, <1>7 DEF Framed, RunInv, Dialogue, Closing, Lives, None, InRun
<1>9. Closing'
  <2>1. run # 0 /\ ~child[run].killed /\ stopInput = 0
    BY <1>3 DEF RunInv, Dialogue, Closing
  <2>2. Lives(run)' <=> Lives(run)
    BY <1>1, <1>7 DEF Framed, Lives, None
  <2>3. Lives(run) \/ child[run].killed' \/ kills' > 0
    <3>1. Lives(run) \/ kills > 0
      BY <1>3, <2>1 DEF RunInv, Closing
    <3> QED
      BY <1>1, <3>1
  <2>4. /\ stopInput' # 0 => stopInput' = run /\ run \in expired /\ (Lives(run) => child'[run].killed)
        /\ child'[run].killed => a = "terminate" \/ stopInput' # 0
        /\ a = "terminate" /\ Lives(run) => child'[run].killed
    BY <1>5, <2>1
  <2> QED
    BY <1>1, <1>3, <1>4, <1>7, <2>1, <2>2, <2>3, <2>4 DEF Framed, RunInv, Closing, Lives
<1>10. InTime'
  BY <1>1, <1>3 DEF RunInv, InTime
<1>11. StrandedOnlyBy' /\ HostSurvives'
  BY <1>4 DEF StrandedOnlyBy, Stranded, HostSurvives
<1> QED
  BY <1>7, <1>8, <1>9, <1>10, <1>11 DEF Framed, RunInv

\* The call of the model begins, or its exception leaves run.
AsksModel == (ServeLlm /\ GoTo("llm")) \/ (LlmAnswers /\ call[run] = "threw")

LEMMA CallKeeps ==
  ASSUME RunInv, CapabilityInv', AsksModel
  PROVE  RunInv'
<1>1. /\ UNCHANGED <<setup, run, childPid, result, kills, expired, cancelled, late, request,
                     response, deadlineExceeded, lost>>
      /\ UNCHANGED <<stopInput, child>>
  BY DEF AsksModel, ServeLlm, LlmAnswers, Calm, Quiet, envVars
<1>3. host.pc \in {"serve", "llm"} /\ InRun
  BY DEF AsksModel, ServeLlm, LlmAnswers, Serving, InRun
<1>2. DOMAIN host = {"pc", "steps", "req", "answer", "code", "output"}
  BY RunsHere
<1>4. /\ host'.req = host.req /\ host'.output = host.output
      /\ \/ host'.pc = "llm" /\ host.req.op = "llm_generate"
         \/ host'.pc = "cancel" /\ host'.code = "threw"
  BY <1>2 DEF AsksModel, ServeLlm, LlmAnswers, Serving, GoTo
<1>5. Touches
  BY <1>1 DEF Touches
<1>6. InRun'
  BY <1>4 DEF InRun
<1>7. /\ ChildTyped' /\ Unstarted' /\ HasStatus' /\ LeftOver' /\ CodesTellWhy'
      /\ Statement(run)' = Statement(run)
  BY <1>1, <1>3, <1>5, <1>6, StillFrame DEF Framed
<1>8. Dialogue'
  BY <1>1, <1>2, <1>3, <1>4, <1>7 DEF RunInv, Dialogue, Closing, Lives, None, InRun
<1>9. Closing'
  BY <1>1, <1>3, <1>4, <1>7 DEF RunInv, Closing, Dialogue, Lives
<1>10. InTime'
  BY <1>1, <1>3 DEF RunInv, InTime
<1>11. StrandedOnlyBy' /\ HostSurvives'
  BY <1>4 DEF StrandedOnlyBy, Stranded, HostSurvives
<1> QED
  BY <1>7, <1>8, <1>9, <1>10, <1>11 DEF RunInv

LEMMA ServesRun ==
  ASSUME RunInv, Serve, CapabilityInv'
  PROVE  RunInv'
<1>1. host.pc \in {"serve", "llm"} /\ Calm /\ InRun
  BY DEF Serve, ServeTool, ServeEvent, ServeBudget, ServeReturn, ServeLlm, LlmAnswers, LlmTimesOut,
         Serving, InRun
<1>2. host.pc = "llm" => host.req.op = "llm_generate"
  BY <1>1 DEF RunInv, Dialogue
<1>3. "ok" \in Answers /\ "refused" \in Answers /\ "terminate" \in Answers
  BY DEF Answers
<1>4. CASE ServeTool \/ ServeEvent \/ ServeReturn
  <2>1. /\ \E a \in {"ok", "refused"} : Respond(a)
        /\ UNCHANGED <<stopInput, child>> /\ host.req.op # "consume_budget"
    BY <1>4 DEF ServeTool, ServeEvent, ServeReturn, Serving
  <2> QED
    BY <1>1, <1>3, <2>1, AnswerKeeps
<1>5. CASE ServeBudget
  <2>1. /\ UNCHANGED stopInput
        /\ \/ Respond("terminate") /\ Shot
           \/ Respond("ok") /\ child' = child
    BY <1>5 DEF ServeBudget, Shot
  <2>2. CASE Respond("terminate") /\ Shot
    BY <1>1, <1>3, <2>1, <2>2, AnswerKeeps
  <2>3. CASE Respond("ok") /\ child' = child
    BY <1>1, <1>3, <2>1, <2>3, AnswerKeeps
  <2>4. (Respond("terminate") /\ Shot) \/ (Respond("ok") /\ child' = child)
    BY <2>1
  <2> QED
    BY <2>2, <2>3, <2>4
<1>6. CASE LlmTimesOut
  <2>1. /\ stopInput' = run /\ Respond("refused") /\ Shot /\ run \in expired
        /\ host.req.op # "consume_budget"
    BY <1>2, <1>6 DEF LlmTimesOut, GivenUp, Shot
  <2> QED
    BY <1>1, <1>3, <2>1, AnswerKeeps
<1>7. CASE AsksModel
  BY <1>7, CallKeeps
<1>8. CASE (ServeLlm \/ LlmAnswers) /\ ~AsksModel
  <2>1. /\ \E a \in {"ok", "refused"} : Respond(a)
        /\ UNCHANGED <<stopInput, child>> /\ host.req.op # "consume_budget"
    BY <1>2, <1>8 DEF ServeLlm, LlmAnswers, Serving, AsksModel
  <2> QED
    BY <1>1, <1>3, <2>1, AnswerKeeps
<1> QED
  BY <1>4, <1>5, <1>6, <1>7, <1>8 DEF Serve

-----------------------------------------------------------------------------
\* What a step of a child leaves of it.
ChildStep(r) ==
  /\ UNCHANGED <<setup, run, host, childPid, result, expired, cancelled, late, lost, stopInput,
                 deadlineExceeded>>
  /\ \/ ChildStarts(r) /\ ~child[r].killed /\ kills' = kills
     \/ ChildComputes(r) /\ ~child[r].killed /\ kills' = kills
     \/ ChildAsks(r) /\ ~child[r].killed /\ kills' = kills
     \/ ChildGoesOn(r) /\ ~child[r].killed /\ kills' = kills
     \/ ChildDies(r) /\ kills' = kills
     \/ /\ Lives(r) /\ Ends(r, "SIGKILL") /\ kills' = kills + 1
        /\ UNCHANGED <<request, response>>

LEMMA StartCodes ==
  ASSUME NEW skill \in Skill
  PROVE  StartUp(skill) \in {"exit0", "exit64", "exit71", "exit72", "exit73"}
<1>1. skill.starts \in {"well", "threads", "prctl", "seccomp"}
  BY DEF Skill
<1>2. Parses(skill) \in BOOLEAN
  BY DEF Parses
<1>3. CASE skill.starts = "threads"
  BY <1>3 DEF StartUp
<1>4. CASE skill.starts # "threads" /\ ~Parses(skill)
  BY <1>4 DEF StartUp
<1>5. CASE skill.starts \in {"prctl", "seccomp", "well"} /\ Parses(skill)
  BY <1>5 DEF StartUp
<1> QED
  BY <1>1, <1>2, <1>3, <1>4, <1>5

\* The ways a child goes on.
Moved(c, d, q, a, r) ==
  \/ /\ c.pc = "start" /\ d.at = c.at /\ q = request[r] /\ a = response[r] /\ ~c.killed
     /\ \/ d.pc = "run" /\ d.status = c.status
        \/ d.pc = "zombie" /\ d.status \in Status \ {"exit0", "SIGKILL"}
  \/ /\ c.pc = "run" /\ q = request[r] /\ a = response[r] /\ ~c.killed
     /\ \/ d.pc = "run" /\ d.status = c.status
        \/ d.pc = "zombie" /\ d.status = "SIGSYS"
  \/ /\ c.pc = "run" /\ d.pc = "asked" /\ q = Statement(r) /\ a = response[r] /\ ~c.killed
     /\ d.status = c.status /\ d.at = c.at
  \/ /\ c.pc = "asked" /\ response[r] # None /\ a = None /\ q = request[r] /\ ~c.killed
     /\ \/ /\ d.pc = "zombie" /\ d.status = "exit0" /\ d.at = c.at
           /\ Statement(r).op = "return" \/ (Statement(r).op = "consume_budget" /\ response[r] # "ok")
        \/ d.pc = "run" /\ d.status = c.status /\ Statement(r).op # "return"
  \/ /\ c.pc \in {"start", "run", "asked"} /\ d.pc = "zombie" /\ d.status = "SIGKILL" /\ d.at = c.at
     /\ q = request[r] /\ a = response[r] /\ (c.killed \/ kills' > 0)

LEMMA ChildMoved ==
  ASSUME RunInv, NEW r \in Runs, ChildStep(r)
  PROVE  \E d \in ChildState, a \in Answers \cup {None}, q \in Requests :
           /\ child' = [child EXCEPT ![r] = d] /\ request' = [request EXCEPT ![r] = q]
           /\ response' = [response EXCEPT ![r] = a] /\ d.killed = child[r].killed
           /\ Moved(child[r], d, q, a, r)
<1> USE DEF ChildState, ChildPlaces
<1>1. PICK c : c = child[r]
  OBVIOUS
<1>2. /\ c \in ChildState /\ request[r] \in Requests /\ response[r] \in Answers \cup {None}
      /\ request = [request EXCEPT ![r] = request[r]] /\ response = [response EXCEPT ![r] = response[r]]
      /\ Statement(r) \in Requests /\ None \in Answers \cup {None}
      /\ setup.skills[r] \in Skill /\ kills \in Nat
  BY <1>1, RunsHere, StatementTyped, SkillTyped DEF RunInv, ChildTyped, CapabilityInv, RunTyped
<1>3. ASSUME ChildStarts(r), ~c.killed
      PROVE  \E d \in ChildState : /\ child' = [child EXCEPT ![r] = d] /\ d.killed = c.killed /\ d.at = c.at
                                   /\ c.pc = "start" /\ UNCHANGED <<request, response>>
                                   /\ \/ d.pc = "run" /\ d.status = c.status
                                      \/ d.pc = "zombie" /\ d.status \in Status \ {"exit0", "SIGKILL"}
  <2>1. PICK e : e = StartUp(setup.skills[r])
    OBVIOUS
  <2>2. e \in {"exit0", "exit64", "exit71", "exit72", "exit73"}
    BY <1>2, <2>1, StartCodes
  <2>3. CASE e = "exit0"
    <3>1. PICK d : d = [c EXCEPT !.pc = "run"]
      OBVIOUS
    <3>2. d \in ChildState /\ d.killed = c.killed /\ d.at = c.at /\ d.pc = "run" /\ d.status = c.status
      BY <1>2, <3>1
    <3>3. child' = [child EXCEPT ![r] = d] /\ c.pc = "start" /\ UNCHANGED <<request, response>>
      BY <1>1, <1>3, <2>1, <2>3, <3>1 DEF ChildStarts
    <3> QED
      BY <3>2, <3>3
  <2>4. CASE e # "exit0"
    <3>1. PICK d : d = [c EXCEPT !.pc = "zombie", !.status = e]
      OBVIOUS
    <3>4. e \in Status
      BY <2>2, <2>4 DEF Status
    <3>2. d \in ChildState /\ d.killed = c.killed /\ d.at = c.at /\ d.pc = "zombie" /\ d.status = e
      BY <1>2, <3>1, <3>4
    <3>3. child' = [child EXCEPT ![r] = d] /\ c.pc = "start" /\ UNCHANGED <<request, response>>
      BY <1>1, <1>3, <2>1, <2>4, <3>1 DEF ChildStarts, Ends
    <3> QED
      BY <2>2, <2>4, <3>2, <3>3, <3>4
  <2> QED
    BY <2>3, <2>4
<1>4. ASSUME NEW e \in Status, Ends(r, e)
      PROVE  \E d \in ChildState : /\ child' = [child EXCEPT ![r] = d] /\ d.killed = c.killed
                                   /\ d.at = c.at /\ d.pc = "zombie" /\ d.status = e
  <2>1. PICK d : d = [c EXCEPT !.pc = "zombie", !.status = e]
    OBVIOUS
  <2>2. d \in ChildState /\ d.killed = c.killed /\ d.at = c.at /\ d.pc = "zombie" /\ d.status = e
    BY <1>2, <2>1
  <2>3. child' = [child EXCEPT ![r] = d]
    BY <1>1, <1>4, <2>1 DEF Ends
  <2> QED
    BY <2>2, <2>3
<1>5. ASSUME NEW p \in {"run", "asked"}, NEW n \in Nat, child' = [child EXCEPT ![r].pc = p, ![r].at = n]
      PROVE  \E d \in ChildState : /\ child' = [child EXCEPT ![r] = d] /\ d.killed = c.killed
                                   /\ d.at = n /\ d.pc = p /\ d.status = c.status
  <2>1. PICK d : d = [c EXCEPT !.pc = p, !.at = n]
    OBVIOUS
  <2>2. d \in ChildState /\ d.killed = c.killed /\ d.at = n /\ d.pc = p /\ d.status = c.status
    BY <1>2, <2>1
  <2>3. child' = [child EXCEPT ![r] = d]
    BY <1>1, <1>2, <1>5, <2>1 DEF RunInv, ChildTyped
  <2> QED
    BY <2>2, <2>3
<1>6. ASSUME NEW d \in ChildState, NEW a \in Answers \cup {None}, NEW q \in Requests,
             child' = [child EXCEPT ![r] = d], request' = [request EXCEPT ![r] = q],
             response' = [response EXCEPT ![r] = a], d.killed = c.killed, Moved(c, d, q, a, r)
      PROVE  \E e \in ChildState, b \in Answers \cup {None}, p \in Requests :
               /\ child' = [child EXCEPT ![r] = e] /\ request' = [request EXCEPT ![r] = p]
               /\ response' = [response EXCEPT ![r] = b] /\ e.killed = child[r].killed
               /\ Moved(child[r], e, p, b, r)
  BY <1>1, <1>6
<1>7. CASE ChildStarts(r) /\ ~child[r].killed
  <2>1. PICK d \in ChildState : /\ child' = [child EXCEPT ![r] = d] /\ d.killed = c.killed /\ d.at = c.at
                                /\ c.pc = "start" /\ UNCHANGED <<request, response>>
                                /\ \/ d.pc = "run" /\ d.status = c.status
                                   \/ d.pc = "zombie" /\ d.status \in Status \ {"exit0", "SIGKILL"}
    BY <1>1, <1>3, <1>7
  <2>2. Moved(c, d, request[r], response[r], r)
    BY <1>1, <1>7, <2>1 DEF Moved
  <2> QED
    BY <1>2, <1>6, <2>1, <2>2
<1>8. CASE ChildComputes(r) /\ ~child[r].killed
  <2>1. UNCHANGED <<request, response>> /\ c.pc = "run"
    BY <1>1, <1>8 DEF ChildComputes
  <2>2. PICK d \in ChildState : /\ child' = [child EXCEPT ![r] = d] /\ d.killed = c.killed
                                /\ \/ d.pc = "run" /\ d.status = c.status
                                   \/ d.pc = "zombie" /\ d.status = "SIGSYS"
    <3>1. CASE Ends(r, "SIGSYS")
      <4>1. "SIGSYS" \in Status
        BY DEF Status
      <4> QED
        BY <1>4, <3>1, <4>1
    <3>2. CASE child' = [child EXCEPT ![r].at = child[r].at + 1]
      <4>1. PICK d : d = [c EXCEPT !.at = c.at + 1]
        OBVIOUS
      <4>2. d \in ChildState /\ d.killed = c.killed /\ d.pc = "run" /\ d.status = c.status
        BY <1>2, <2>1, <4>1
      <4>3. child' = [child EXCEPT ![r] = d]
        BY <1>1, <3>2, <4>1
      <4> QED
        BY <4>2, <4>3
    <3> QED
      BY <1>8, <3>1, <3>2 DEF ChildComputes
  <2>3. Moved(c, d, request[r], response[r], r)
    BY <1>1, <1>8, <2>1, <2>2 DEF Moved
  <2> QED
    BY <1>2, <1>6, <2>1, <2>2, <2>3
<1>9. CASE ChildAsks(r) /\ ~child[r].killed
  <2>1. /\ UNCHANGED response /\ c.pc = "run" /\ request' = [request EXCEPT ![r] = Statement(r)]
        /\ child' = [child EXCEPT ![r].pc = "asked"]
    BY <1>1, <1>9 DEF ChildAsks
  <2>3. PICK d \in ChildState : /\ child' = [child EXCEPT ![r] = d] /\ d.killed = c.killed
                                /\ d.pc = "asked" /\ d.status = c.status /\ d.at = c.at
    <3>1. PICK d : d = [c EXCEPT !.pc = "asked"]
      OBVIOUS
    <3>2. d \in ChildState /\ d.killed = c.killed /\ d.pc = "asked" /\ d.status = c.status /\ d.at = c.at
      BY <1>2, <3>1
    <3>3. child' = [child EXCEPT ![r] = d]
      BY <1>1, <2>1, <3>1
    <3> QED
      BY <3>2, <3>3
  <2>4. Moved(c, d, Statement(r), response[r], r)
    BY <1>1, <1>9, <2>1, <2>3 DEF Moved
  <2> QED
    BY <1>2, <1>6, <2>1, <2>3, <2>4
<1>10. CASE ChildGoesOn(r) /\ ~child[r].killed
  <2>1. /\ UNCHANGED request /\ c.pc = "asked" /\ response' = [response EXCEPT ![r] = None]
        /\ response[r] # None
    BY <1>1, <1>10 DEF ChildGoesOn
  <2>2. PICK d \in ChildState :
          /\ child' = [child EXCEPT ![r] = d] /\ d.killed = c.killed
          /\ \/ /\ d.pc = "zombie" /\ d.status = "exit0" /\ d.at = c.at
                /\ Statement(r).op = "return" \/ (Statement(r).op = "consume_budget" /\ response[r] # "ok")
             \/ d.pc = "run" /\ d.status = c.status /\ Statement(r).op # "return"
    <3>1. CASE \/ Statement(r).op = "return"
               \/ Statement(r).op = "consume_budget" /\ response[r] # "ok"
      <4>1. "exit0" \in Status /\ Ends(r, "exit0")
        BY <1>10, <3>1 DEF ChildGoesOn, Status
      <4> QED
        BY <1>4, <3>1, <4>1
    <3>2. CASE ~(\/ Statement(r).op = "return"
                 \/ Statement(r).op = "consume_budget" /\ response[r] # "ok")
      <4>1. child' = [child EXCEPT ![r].pc = "run", ![r].at = c.at + 1]
        BY <1>1, <1>10, <3>2 DEF ChildGoesOn
      <4>2. c.at + 1 \in Nat
        BY <1>2
      <4> QED
        BY <1>5, <3>2, <4>1, <4>2
    <3> QED
      BY <3>1, <3>2
  <2>3. Moved(c, d, request[r], None, r)
    BY <1>1, <1>10, <2>1, <2>2 DEF Moved
  <2> QED
    BY <1>2, <1>6, <2>1, <2>2, <2>3
<1>11. CASE Lives(r) /\ Ends(r, "SIGKILL") /\ (c.killed \/ kills' > 0) /\ UNCHANGED <<request,
                                                                                      response>>
  <2>1. PICK d \in ChildState : /\ child' = [child EXCEPT ![r] = d] /\ d.killed = c.killed
                                /\ d.pc = "zombie" /\ d.status = "SIGKILL" /\ d.at = c.at
    <3>1. "SIGKILL" \in Status
      BY DEF Status
    <3> QED
      BY <1>4, <1>11, <3>1
  <2>2. c.pc \in {"start", "run", "asked"}
    BY <1>1, <1>2, <1>11 DEF Lives
  <2>3. Moved(c, d, request[r], response[r], r)
    BY <1>11, <2>1, <2>2 DEF Moved
  <2> QED
    BY <1>2, <1>6, <1>11, <2>1, <2>3
<1> QED
  <2>1. ChildDies(r) => Lives(r) /\ Ends(r, "SIGKILL") /\ c.killed /\ UNCHANGED <<request, response>>
    BY <1>1 DEF ChildDies
  <2>2. kills' = kills + 1 => kills' > 0
    BY <1>2
  <2> QED
    BY <1>7, <1>8, <1>9, <1>10, <1>11, <2>1, <2>2 DEF ChildStep

LEMMA ChildKeeps ==
  ASSUME RunInv, CapabilityInv', NEW r \in Runs, ChildStep(r)
  PROVE  RunInv'
<1>1. /\ UNCHANGED <<setup, run, host, childPid, result, expired, cancelled, late, lost, stopInput,
                     deadlineExceeded>>
      /\ kills' \in Nat /\ (kills > 0 => kills' > 0) /\ Runs' = Runs
  BY DEF ChildStep, RunInv, ChildTyped, Runs
<1>2. PICK d \in ChildState, a \in Answers \cup {None}, q \in Requests :
           /\ child' = [child EXCEPT ![r] = d] /\ request' = [request EXCEPT ![r] = q]
           /\ response' = [response EXCEPT ![r] = a] /\ d.killed = child[r].killed
           /\ Moved(child[r], d, q, a, r)
  BY ChildMoved
<1>3. PICK c : c = child[r]
  OBVIOUS
<1>4. /\ c \in ChildState /\ c.pc \in {"start", "run", "asked"} /\ d.pc \in {"run", "asked", "zombie"}
      /\ d.killed = c.killed
  BY <1>2, <1>3 DEF RunInv, ChildTyped, Moved
<1>5. /\ child'[r] = d /\ child' \in [Runs -> ChildState] /\ request'[r] = q /\ response'[r] = a
      /\ response' \in [Runs -> Answers \cup {None}]
      /\ \A s \in Runs : s # r => child'[s] = child[s] /\ request'[s] = request[s] /\ response'[s] = response[s]
  BY <1>2, RunsHere DEF RunInv, ChildTyped
<1>6. ChildTyped'
  BY <1>1, <1>5 DEF RunInv, ChildTyped
<1>7. r <= run /\ run \in Nat /\ r \in Nat /\ c.status = None
  BY <1>3, <1>4, RunsHere DEF RunInv, Unstarted, HasStatus, None
<1>8. Unstarted'
  <2>1. \A s \in Runs : s > run => s # r
    BY <1>7
  <2> QED
    BY <1>1, <1>5, <2>1 DEF RunInv, Unstarted
<1>9. HasStatus'
  <2>1. /\ d.pc = "zombie" => d.status \in Status
        /\ d.pc # "zombie" => d.status = None
        /\ d.status = "SIGKILL" => d.killed \/ kills' > 0
    BY <1>2, <1>3, <1>4, <1>7 DEF Moved, Status, None
  <2> QED
    BY <1>1, <1>4, <1>5, <2>1 DEF RunInv, HasStatus
<1>10. LeftOver' /\ CodesTellWhy' /\ InTime'
  <2>3. \A s \in Runs : child'[s].pc \notin {None, "reaped"} => child[s].pc \notin {None, "reaped"}
    <3> SUFFICES ASSUME NEW s \in Runs
                 PROVE  child'[s].pc \notin {None, "reaped"} => child[s].pc \notin {None, "reaped"}
      OBVIOUS
    <3> QED
      BY <1>3, <1>4, <1>5 DEF None
  <2>1. LeftOver'
    <3>1. run # 0 => run \in Runs
      BY <1>7, RunsHere DEF RunInv, CapabilityInv, RunTyped, Runs
    <3>2. UNCHANGED <<run, host, childPid, result>> /\ (InRun' <=> InRun)
      BY <1>1 DEF InRun
    <3>3. childPid # 0 => childPid \in Runs /\ child'[childPid].pc # None
      <4>1. childPid # 0 => childPid \in Runs /\ child[childPid].pc # None
        BY <1>7, RunsHere DEF RunInv, LeftOver, ChildTyped, CapabilityInv, RunTyped, Runs
      <4> QED
        BY <1>4, <1>5, <4>1 DEF None
    <3> QED
      BY <1>1, <2>3, <3>1, <3>2, <3>3 DEF RunInv, LeftOver
  <2>2. CodesTellWhy' /\ InTime'
    BY <1>1 DEF RunInv, CodesTellWhy, InTime, InRun
  <2> QED
    BY <2>1, <2>2
<1>11. HostSurvives'
  BY <1>1 DEF RunInv, HostSurvives
<1>12. CASE ~InRun
  BY <1>1, <1>6, <1>8, <1>9, <1>10, <1>11, <1>12 DEF RunInv, Dialogue, Closing, StrandedOnlyBy, Stranded, InRun
<1>13. CASE InRun /\ r # run
  <2>1. run \in Runs /\ child'[run] = child[run] /\ request'[run] = request[run] /\ response'[run] = response[run]
    BY <1>5, <1>13, RunsHere
  <2>2. Statement(run)' = Statement(run)
    BY <1>1, <2>1, SameStatement
  <2>3. Dialogue' /\ Closing' /\ StrandedOnlyBy'
    BY <1>1, <1>13, <2>1, <2>2 DEF RunInv, Dialogue, Closing, StrandedOnlyBy, Stranded, InRun, Lives
  <2> QED
    BY <1>6, <1>8, <1>9, <1>10, <1>11, <2>3 DEF RunInv
<1>14. CASE InRun /\ r = run
  <2>1. /\ child'[run] = d /\ request'[run] = q /\ response'[run] = a /\ c = child[run]
    BY <1>3, <1>5, <1>14
  <2>2. d.at = c.at => Statement(run)' = Statement(run)
    BY <1>1, <2>1, SameStatement
  <2>3. Dialogue'
    BY <1>1, <1>2, <1>4, <1>14, <2>1, <2>2 DEF RunInv, Dialogue, Moved, Lives, None, InRun
  <2>4. Closing'
    BY <1>1, <1>2, <1>4, <1>14, <2>1, <2>2 DEF RunInv, Closing, Dialogue, Moved, Lives, None, InRun
  <2>5. StrandedOnlyBy'
    BY <1>1, <1>2, <1>4, <1>14, <2>1, <2>2 DEF RunInv, Dialogue, StrandedOnlyBy, Stranded, Moved, Lives, None
  <2> QED
    BY <1>6, <1>8, <1>9, <1>10, <1>11, <2>3, <2>4, <2>5 DEF RunInv
<1> QED
  BY <1>12, <1>13, <1>14

-----------------------------------------------------------------------------
LEMMA SpawnRuns ==
  ASSUME RunInv, CapabilityInv', Spawn
  PROVE  RunInv'
<1>1. /\ UNCHANGED <<setup, result, request, response, stopInput, lost, expired, cancelled, kills,
                     late>>
      /\ run' = run + 1 /\ childPid' = run + 1 /\ ~deadlineExceeded' /\ host.pc = "idle"
      /\ run < Len(setup.skills) /\ host' = HostAt("top")
  BY DEF Spawn, Quiet, envVars, FreshDeadline
<1>2. /\ run \in Nat /\ run' \in Runs /\ Runs' = Runs /\ \A s \in Runs : s \in Nat \ {0}
  BY <1>1, RunsHere, SkillTyped DEF RunInv, CapabilityInv, RunTyped, Runs
<1>3. PICK d : d = [child[run'] EXCEPT !.pc = "start"]
  OBVIOUS
<1>4. /\ d \in ChildState /\ d.pc = "start" /\ ~d.killed /\ d.status = None
      /\ child' = [child EXCEPT ![run'] = d] /\ request[run'] = NoLine /\ response[run'] = None
      /\ result[run'].code = None /\ run' \notin lost
  <2>1. /\ child[run'].pc = None /\ ~child[run'].killed /\ child[run'].status = None
        /\ request[run'] = NoLine /\ response[run'] = None /\ result[run'].code = None /\ run' \notin lost
    BY <1>1, <1>2 DEF RunInv, Unstarted
  <2>2. child[run'] \in ChildState
    BY <1>2 DEF RunInv, ChildTyped
  <2>3. d \in ChildState /\ d.pc = "start" /\ d.killed = child[run'].killed /\ d.status = child[run'].status
    BY <1>3, <2>2 DEF ChildState, ChildPlaces
  <2>4. child' = [child EXCEPT ![run'] = d]
    BY <1>1, <1>3 DEF Spawn
  <2> QED
    BY <2>1, <2>3, <2>4
<1>5. /\ child'[run'] = d /\ child' \in [Runs -> ChildState]
      /\ \A s \in Runs : s # run' => child'[s] = child[s]
  BY <1>2, <1>4 DEF RunInv, ChildTyped
<1>6. host'.pc = "top" /\ host'.output = FALSE /\ host'.code = None /\ host'.answer = None
  BY <1>1 DEF HostAt
<1>7. ChildTyped'
  <2>1. stopInput \in 0..(run + 1)
    BY <1>2 DEF RunInv, ChildTyped
  <2> QED
    BY <1>1, <1>2, <1>5, <2>1 DEF RunInv, ChildTyped
<1>8. Unstarted' /\ HasStatus'
  <2>1. \A s \in Runs : s > run' => s > run /\ s # run'
    BY <1>1, <1>2
  <2>2. Unstarted'
    BY <1>1, <1>2, <1>5, <2>1 DEF RunInv, Unstarted
  <2>3. d.pc \notin {"zombie", "reaped"} /\ d.status # "SIGKILL"
    BY <1>4 DEF None
  <2>4. HasStatus'
    BY <1>1, <1>2, <1>4, <1>5, <2>3 DEF RunInv, HasStatus
  <2> QED
    BY <2>2, <2>4
<1>9. Dialogue'
  BY <1>1, <1>2, <1>4, <1>5, <1>6 DEF Dialogue, None
<1>10. Closing'
  <2>1. stopInput' # run'
    BY <1>1, <1>2 DEF RunInv, ChildTyped
  <2> QED
    BY <1>1, <1>4, <1>5, <1>6, <2>1 DEF Closing, None
<1>11. LeftOver'
  <2>1. \A s \in Runs : s # run' /\ child[s].pc \notin {None, "reaped"} => result[s].code = "threw"
    BY <1>1 DEF RunInv, LeftOver, InRun
  <2>2. InRun'
    BY <1>6 DEF InRun
  <2> QED
    BY <1>1, <1>2, <1>4, <1>5, <1>6, <2>1, <2>2 DEF LeftOver, None
<1>12. CodesTellWhy' /\ HostSurvives' /\ StrandedOnlyBy' /\ InTime'
  BY <1>1, <1>2, <1>6 DEF RunInv, CodesTellWhy, HostSurvives, StrandedOnlyBy, Stranded, InTime
<1> QED
  BY <1>7, <1>8, <1>9, <1>10, <1>11, <1>12 DEF RunInv

LEMMA SpawnFailsRuns ==
  ASSUME RunInv, CapabilityInv', SpawnFails
  PROVE  RunInv'
<1>1. /\ UNCHANGED <<setup, host, child, request, response, stopInput, lost, expired, cancelled,
                     kills, late, childPid, deadlineExceeded>>
      /\ run' = run + 1 /\ host.pc = "idle" /\ run < Len(setup.skills)
      /\ result' = [result EXCEPT ![run + 1].code = "exhausted"]
  BY DEF SpawnFails, Quiet, envVars, childVars
<1>2. /\ run \in Nat /\ run' \in Runs /\ Runs' = Runs /\ \A s \in Runs : s \in Nat \ {0}
  BY <1>1, RunsHere, SkillTyped DEF RunInv, CapabilityInv, RunTyped, Runs
<1>3. /\ DOMAIN result' = Runs /\ \A s \in Runs : s # run' => result'[s] = result[s]
      /\ DOMAIN result'[run'] = {"code", "output"} /\ result'[run'].code = "exhausted"
      /\ child[run'].pc = None
  BY <1>1, <1>2 DEF RunInv, ChildTyped, Unstarted
<1>4. ~InRun /\ ~InRun'
  BY <1>1 DEF InRun
<1>7. ChildTyped'
  <2>1. stopInput \in 0..(run + 1) /\ childPid \in 0..(run + 1)
    BY <1>2 DEF RunInv, ChildTyped
  <2> QED
    BY <1>1, <1>2, <1>3, <2>1 DEF RunInv, ChildTyped
<1>8. Unstarted' /\ HasStatus'
  <2>1. \A s \in Runs : s > run' => s > run /\ s # run'
    BY <1>1, <1>2
  <2> QED
    BY <1>1, <1>2, <1>3, <2>1 DEF RunInv, Unstarted, HasStatus
<1>9. Dialogue' /\ Closing' /\ InTime'
  BY <1>4 DEF Dialogue, Closing, InTime
<1>11. LeftOver'
  BY <1>1, <1>2, <1>3, <1>4 DEF RunInv, LeftOver
<1>12. CodesTellWhy'
  BY <1>1, <1>2, <1>3 DEF RunInv, CodesTellWhy
<1>13. HostSurvives' /\ StrandedOnlyBy'
  BY <1>1 DEF HostSurvives, StrandedOnlyBy, Stranded
<1> QED
  BY <1>7, <1>8, <1>9, <1>11, <1>12, <1>13 DEF RunInv

LEMMA LeavesRuns ==
  ASSUME RunInv, CapabilityInv', Leaves
  PROVE  RunInv'
<1>1. /\ UNCHANGED <<setup, run, child, request, response, stopInput, lost, expired, cancelled,
                     kills, late, deadlineExceeded>>
      /\ host.pc = "cancel" /\ host' = HostAt("idle")
      /\ childPid' = IF host.code = "threw" THEN childPid ELSE 0
      /\ result' = [result EXCEPT ![run] = [code |-> host.code, output |-> host.output]]
  BY DEF Leaves, Quiet, envVars, childVars
<1>2. InRun /\ host'.pc = "idle" /\ ~InRun'
  BY <1>1 DEF HostAt, InRun
<1>3. run \in Nat /\ run \in Runs /\ Runs' = Runs /\ \A s \in Runs : s \in Nat \ {0}
  BY <1>1, <1>2, RunsHere DEF Runs
<1>4. /\ DOMAIN result' = Runs /\ \A s \in Runs : s # run => result'[s] = result[s]
      /\ result'[run] = [code |-> host.code, output |-> host.output]
  BY <1>1, <1>3 DEF RunInv, ChildTyped
<1>5. DOMAIN result'[run] = {"code", "output"} /\ result'[run].code = host.code /\ result'[run].output = host.output
  BY <1>4
<1>7. ChildTyped'
  BY <1>1, <1>3, <1>4, <1>5 DEF RunInv, ChildTyped
<1>8. Unstarted' /\ HasStatus'
  <2>1. \A s \in Runs : s > run => s # run
    BY <1>3
  <2> QED
    BY <1>1, <1>3, <1>4, <2>1 DEF RunInv, Unstarted, HasStatus
<1>9. Dialogue' /\ Closing' /\ InTime'
  BY <1>2 DEF Dialogue, Closing, InTime
<1>10. childPid = run /\ (child[run].pc = "reaped" \/ host.code = "threw")
  BY <1>1, <1>2 DEF RunInv, Dialogue, Closing
<1>11. LeftOver'
  BY <1>1, <1>2, <1>3, <1>4, <1>5, <1>10 DEF RunInv, LeftOver
<1>12. CodesTellWhy'
  <2>1. /\ host.code = "success" => host.output \/ run \in lost
        /\ host.code = "timeout" => run \in expired \cup late
        /\ host.code = "abort" => run \in cancelled \cup expired \/ kills > 0
    BY <1>1, <1>2 DEF RunInv, Closing
  <2> QED
    BY <1>1, <1>3, <1>4, <1>5, <2>1 DEF RunInv, CodesTellWhy
<1>13. HostSurvives' /\ StrandedOnlyBy'
  BY <1>2 DEF HostSurvives, StrandedOnlyBy, Stranded
<1> QED
  BY <1>7, <1>8, <1>9, <1>11, <1>12, <1>13 DEF RunInv

LEMMA DestroyRuns ==
  ASSUME RunInv, CapabilityInv', Destroy \/ Destroyed
  PROVE  RunInv'
<1>1. /\ UNCHANGED <<setup, run, childPid, request, response, stopInput, lost, expired, cancelled,
                     kills, late, deadlineExceeded, result>>
      /\ host.pc \in {"idle", "destroy"}
  BY DEF Destroy, Destroyed, Still, Quiet, envVars
<1>2. DOMAIN host = {"pc", "steps", "req", "answer", "code", "output"}
  BY RunsHere
<1>3. /\ ~InRun /\ ~InRun' /\ host'.pc \in {"destroy", "gone"}
      /\ Destroyed => host'.pc = "gone"
      /\ Destroy => host'.pc = "destroy"
  BY <1>1, <1>2 DEF Destroy, Destroyed, GoTo, InRun
<1>4. run \in Nat /\ Runs' = Runs /\ \A s \in Runs : s \in Nat \ {0}
  BY <1>1, RunsHere DEF Runs
<1>5. /\ child' \in [Runs -> ChildState]
      /\ \A s \in Runs : /\ child'[s].status = child[s].status
                         /\ child[s].killed => child'[s].killed
                         /\ child'[s].pc = child[s].pc \/ (child'[s].pc = "reaped" /\ ~Lives(s) /\ s = childPid)
                         /\ child[s].pc = None /\ s # childPid => child'[s] = child[s]
                         /\ Destroyed /\ s = childPid => child'[s].pc = "reaped"
  <2>1. CASE child' = child /\ (Destroyed => childPid = 0)
    BY <1>4, <2>1 DEF RunInv, ChildTyped
  <2>2. CASE childPid # 0 /\ Lives(childPid) /\ child' = [child EXCEPT ![childPid].killed = TRUE] /\ Destroy
    <3>1. childPid \in Runs
      BY <2>2 DEF RunInv, ChildTyped, CapabilityInv, RunTyped, Runs
    <3>2. PICK d : d = [child[childPid] EXCEPT !.killed = TRUE]
      OBVIOUS
    <3>3. /\ d \in ChildState /\ d.status = child[childPid].status /\ d.pc = child[childPid].pc /\ d.killed
          /\ child' = [child EXCEPT ![childPid] = d]
      BY <2>2, <3>1, <3>2 DEF RunInv, ChildTyped, ChildState
    <3>4. child' \in [Runs -> ChildState] /\ child'[childPid] = d /\ \A s \in Runs : s # childPid => child'[s] = child[s]
      BY <3>1, <3>3 DEF RunInv, ChildTyped
    <3>5. ~Destroyed
      BY <1>3, <2>2
    <3> QED
      BY <3>3, <3>4, <3>5
  <2>3. CASE childPid # 0 /\ ~Lives(childPid) /\ child' = [child EXCEPT ![childPid].pc = "reaped"] /\ Destroyed
    <3>1. childPid \in Runs
      BY <2>3 DEF RunInv, ChildTyped, CapabilityInv, RunTyped, Runs
    <3>2. PICK d : d = [child[childPid] EXCEPT !.pc = "reaped"]
      OBVIOUS
    <3>3. /\ d \in ChildState /\ d.status = child[childPid].status /\ d.killed = child[childPid].killed
          /\ d.pc = "reaped" /\ child' = [child EXCEPT ![childPid] = d]
      BY <2>3, <3>1, <3>2 DEF RunInv, ChildTyped, ChildState, ChildPlaces
    <3>4. child' \in [Runs -> ChildState] /\ child'[childPid] = d /\ \A s \in Runs : s # childPid => child'[s] = child[s]
      BY <3>1, <3>3 DEF RunInv, ChildTyped
    <3> QED
      BY <2>3, <3>3, <3>4
  <2>4. childPid \in Nat /\ (childPid # 0 => childPid \in Runs)
    BY <1>4 DEF RunInv, ChildTyped, CapabilityInv, RunTyped, Runs
  <2> QED
    BY <1>3, <2>1, <2>2, <2>3, <2>4 DEF Destroy, Destroyed, Killed
<1>6. childPid \in 0..run /\ (childPid # 0 => childPid \in Runs /\ child[childPid].pc # None)
  BY <1>4 DEF RunInv, ChildTyped, LeftOver, CapabilityInv, RunTyped, Runs
<1>7. ChildTyped'
  BY <1>1, <1>4, <1>5 DEF RunInv, ChildTyped
<1>8. Unstarted'
  <2>1. \A s \in Runs : s > run => s # childPid /\ s # run
    BY <1>4, <1>6
  <2> QED
    BY <1>1, <1>4, <1>5, <2>1 DEF RunInv, Unstarted
<1>9. HasStatus'
  <2> SUFFICES ASSUME NEW s \in Runs
               PROVE  /\ child'[s].pc \in {"zombie", "reaped"} => child'[s].status \in Status
                      /\ child'[s].pc \notin {"zombie", "reaped"} => child'[s].status = None
                      /\ child'[s].status = "SIGKILL" => child'[s].killed \/ kills > 0
    BY <1>1, <1>4 DEF HasStatus
  <2>1. s # 0
    BY <1>4
  <2>2. child[s].pc = child'[s].pc \/ (child'[s].pc = "reaped" /\ child[s].pc \in {"zombie", "reaped"})
    BY <1>5, <1>6, <2>1 DEF Lives
  <2> QED
    BY <1>5, <2>2 DEF RunInv, HasStatus
<1>10. Dialogue' /\ Closing' /\ InTime' /\ CodesTellWhy'
  BY <1>1, <1>3, <1>4 DEF RunInv, Dialogue, Closing, InTime, CodesTellWhy
<1>11. LeftOver'
  <2>1. \A s \in Runs : child'[s].pc \notin {None, "reaped"} => child[s].pc \notin {None, "reaped"}
    BY <1>5
  <2>2. \A s \in Runs : child[s].pc \notin {None, "reaped"} => result[s].code = "threw"
    BY <1>1, <1>3 DEF RunInv, LeftOver
  <2>3. run # 0 => run \in Runs
    BY <1>4 DEF RunInv, CapabilityInv, RunTyped, Runs
  <2>4. run = 0 \/ child[run].pc \in {None, "reaped"} \/ childPid = run
    BY <1>1 DEF RunInv, LeftOver
  <2>5. host'.pc = "gone" => run = 0 \/ child'[run].pc \in {None, "reaped"}
    BY <1>3, <1>5, <2>1, <2>3, <2>4
  <2>6. host'.pc \in {"idle", "destroy"} => run = 0 \/ child'[run].pc \in {None, "reaped"} \/ childPid = run
    BY <2>1, <2>3, <2>4
  <2>7. childPid # 0 => child'[childPid].pc # None
    BY <1>5, <1>6 DEF None
  <2> QED
    BY <1>1, <1>4, <2>1, <2>2, <2>5, <2>6, <2>7 DEF LeftOver
<1>12. HostSurvives' /\ StrandedOnlyBy'
  BY <1>3 DEF HostSurvives, StrandedOnlyBy, Stranded
<1> QED
  BY <1>7, <1>8, <1>9, <1>10, <1>11, <1>12 DEF RunInv

-----------------------------------------------------------------------------
\* Whatever time and others do to the current run.
LEMMA AroundRuns ==
  ASSUME RunInv, CapabilityInv',
         UNCHANGED <<setup, run, host, childPid, child, request, response, result, kills, lost,
                     stopInput>>,
         expired \subseteq expired', cancelled \subseteq cancelled', late \subseteq late',
         InTime'
  PROVE  RunInv'
<1>1. Runs' = Runs /\ (InRun' <=> InRun)
  BY DEF Runs, InRun
<1>2. /\ ChildTyped' /\ Unstarted' /\ HasStatus' /\ LeftOver'
  BY <1>1 DEF RunInv, ChildTyped, Unstarted, HasStatus, LeftOver
<1>3. Statement(run)' = Statement(run)
  BY SameStatement
<1>4. Dialogue'
  BY <1>1, <1>3 DEF RunInv, Dialogue, Lives
<1>5. Closing'
  BY <1>1 DEF RunInv, Closing, Lives
<1>6. CodesTellWhy' /\ HostSurvives' /\ StrandedOnlyBy'
  BY <1>1 DEF RunInv, CodesTellWhy, HostSurvives, StrandedOnlyBy, Stranded, Lives
<1> QED
  BY <1>2, <1>4, <1>5, <1>6 DEF RunInv

-----------------------------------------------------------------------------
\* The timers of the skill and the copies of their calls: one timer at most, which goes with its run,
\* and a copy that is not of this run's timer is of an earlier one, or of an expired run.
Deadlines ==
  /\ \A t \in timers : t.id < nextId /\ (t.owner = "skill" => t.id = timerId /\ (t.due => run \in expired))
  /\ \A i \in 1..Len(toFire) :
       toFire[i].id < nextId /\ (toFire[i].owner = "skill" /\ toFire[i].id = timerId => run \in expired)
  /\ timerId # 0 => InRun \/ host.pc = "dead"

LEMMA TimersBasics ==
  ASSUME ChannelInv
  PROVE  /\ nextId \in Nat \ {0} /\ toFire \in Seq(Callback) /\ Len(toFire) \in Nat
         /\ \A t \in timers : t.id \in Nat \ {0} /\ t.due \in BOOLEAN /\ t \in Timer
         /\ \A i \in 1..Len(toFire) : toFire[i].id \in Nat \ {0}
<1>1. nextId \in Nat \ {0} /\ timers \subseteq Timer /\ toFire \in Seq(Callback)
  BY DEF ChannelInv, TimersTyped, OneCopy
<1>2. \A t \in timers : t.id \in Nat \ {0} /\ t.due \in BOOLEAN /\ t \in Timer
  BY <1>1 DEF Timer
<1>3. Len(toFire) \in Nat /\ \A i \in 1..Len(toFire) : toFire[i] \in Callback
  BY <1>1
<1> QED
  BY <1>1, <1>2, <1>3 DEF Callback

\* What the timers' service does when nobody of the skill registers or cancels.
OtherTimers ==
  \/ UNCHANGED timerVars
  \/ \E owner \in Owner \ {"skill"}, periodic \in BOOLEAN : Register(owner, periodic)
  \/ \E id : CancelTimer(id)
  \/ \E owner \in Owner : Elapse(owner) /\ (owner = "skill" => run \in expired)
  \/ Collect
  \/ toFire # <<>> /\ Fired

LEMMA TimersPass ==
  ASSUME ChannelInv, Deadlines, OtherTimers, UNCHANGED <<run, host, timerId>>,
                                                         expired \subseteq expired'
  PROVE  Deadlines'
<1> USE TimersBasics
<1>1. InRun' <=> InRun
  BY DEF InRun
<1>2. CASE UNCHANGED timerVars
  BY <1>1, <1>2 DEF Deadlines, timerVars
<1>3. ASSUME NEW owner \in Owner \ {"skill"}, NEW periodic \in BOOLEAN, Register(owner, periodic)
      PROVE  Deadlines'
  <2>1. PICK t : t = [id |-> nextId, owner |-> owner, periodic |-> periodic, due |-> FALSE]
    OBVIOUS
  <2>2. timers' = timers \cup {t} /\ nextId' = nextId + 1 /\ toFire' = toFire
    BY <1>3, <2>1 DEF Register
  <2>3. t.id = nextId /\ t.owner # "skill"
    BY <2>1
  <2> QED
    BY <1>1, <2>2, <2>3 DEF Deadlines
<1>4. CASE \E id : CancelTimer(id)
  <2>1. timers' \subseteq timers /\ UNCHANGED <<nextId, toFire>>
    BY <1>4 DEF CancelTimer, Cancelled
  <2> QED
    BY <1>1, <2>1 DEF Deadlines
<1>5. ASSUME NEW owner \in Owner, Elapse(owner), owner = "skill" => run \in expired
      PROVE  Deadlines'
  <2>1. PICK t \in timers : t.owner = owner /\ timers' = (timers \ {t}) \cup {[t EXCEPT !.due = TRUE]}
    BY <1>5 DEF Elapse
  <2>2. PICK u : u = [t EXCEPT !.due = TRUE]
    OBVIOUS
  <2>3. u.id = t.id /\ u.owner = t.owner
    BY <2>2 DEF Timer
  <2>4. timers' = (timers \ {t}) \cup {u} /\ UNCHANGED <<nextId, toFire>>
    BY <1>5, <2>1, <2>2 DEF Elapse
  <2> QED
    BY <1>1, <1>5, <2>1, <2>3, <2>4 DEF Deadlines
<1>6. CASE Collect
  <2> DEFINE due == {t \in timers : t.due}
             next == {[t EXCEPT !.due = FALSE] : t \in {u \in due : u.periodic}}
  <2>1. PICK inOrder \in [1..Cardinality(due) -> due] :
          toFire' = [i \in DOMAIN inOrder |-> [id |-> inOrder[i].id, owner |-> inOrder[i].owner]]
    BY <1>6 DEF Collect
  <2>2. timers' = (timers \ due) \cup next /\ nextId' = nextId
    BY <1>6 DEF Collect
  <2>3. IsFiniteSet(due) /\ Cardinality(due) \in Nat
    BY FS_Subset, FS_CardinalityType DEF ChannelInv, TimersTyped
  <2>4. \A t \in next : \E u \in due : t.id = u.id /\ t.owner = u.owner /\ t.due = FALSE
    <3> SUFFICES ASSUME NEW u \in due
                 PROVE  LET t == [u EXCEPT !.due = FALSE]
                        IN  t.id = u.id /\ t.owner = u.owner /\ t.due = FALSE
      OBVIOUS
    <3> QED
      BY DEF Timer
  <2>5. \A i \in 1..Len(toFire') : \E t \in timers : t.due /\ toFire'[i].id = t.id /\ toFire'[i].owner = t.owner
    <3>1. Len(toFire') = Cardinality(due) /\ DOMAIN inOrder = 1..Cardinality(due)
      <4> HIDE DEF due
      <4> QED
        BY <2>1, <2>3
    <3>2. \A i \in 1..Cardinality(due) : inOrder[i] \in due /\ toFire'[i].id = inOrder[i].id /\ toFire'[i].owner = inOrder[i].owner
      BY <2>1, <3>1
    <3> QED
      BY <3>1, <3>2
  <2>6. \A t \in timers' : t \in timers \/ \E u \in timers : t.id = u.id /\ t.owner = u.owner /\ t.due = FALSE
    <3>1. due \subseteq timers
      OBVIOUS
    <3> HIDE DEF due, next
    <3> QED
      BY <2>2, <2>4, <3>1
  <2> HIDE DEF due, next
  <2> QED
    BY <1>1, <2>2, <2>5, <2>6 DEF Deadlines
<1>7. CASE toFire # <<>> /\ Fired
  <2>1. toFire' = Tail(toFire) /\ UNCHANGED <<nextId, timers>>
    BY <1>7 DEF Fired
  <2>2. \A i \in 1..Len(toFire') : i + 1 \in 1..Len(toFire) /\ toFire'[i] = toFire[i+1]
    BY <1>7, <2>1, HeadTailProperties
  <2> QED
    BY <1>1, <2>1, <2>2 DEF Deadlines
<1> QED
  BY <1>2, <1>3, <1>4, <1>5, <1>6, <1>7 DEF OtherTimers

LEMMA SkillTimers ==
  ASSUME ChannelInv, Deadlines, expired' = expired, Spawn \/ SpawnFails \/ Leaves
  PROVE  Deadlines'
<1> USE TimersBasics
<1>1. CASE (Spawn /\ ~setup.timer) \/ SpawnFails
  <2>1. UNCHANGED <<nextId, timers, toFire, timerId>> /\ host.pc = "idle"
    BY <1>1 DEF Spawn, SpawnFails, timerVars
  <2>2. timerId = 0
    BY <2>1 DEF Deadlines, InRun
  <2> QED
    BY <2>1, <2>2 DEF Deadlines
<1>2. CASE Spawn /\ setup.timer
  <2>1. PICK t : t = [id |-> nextId, owner |-> "skill", periodic |-> FALSE, due |-> FALSE]
    OBVIOUS
  <2>2. timers' = timers \cup {t} /\ nextId' = nextId + 1 /\ toFire' = toFire /\ timerId' = nextId
        /\ host.pc = "idle" /\ host' = HostAt("top")
    BY <1>2, <2>1 DEF Spawn, Register
  <2>3. t.id = nextId /\ t.owner = "skill" /\ ~t.due
    BY <2>1
  <2>4. InRun' /\ timerId = 0
    BY <2>2 DEF Deadlines, InRun, HostAt
  <2> QED
    BY <2>2, <2>3, <2>4 DEF Deadlines
<1>3. CASE Leaves
  <2>1. /\ timers' = {t \in timers : t.id # timerId} \/ (timerId = 0 /\ timers' = timers)
        /\ UNCHANGED <<nextId, toFire>> /\ timerId' = 0
    BY <1>3 DEF Leaves, CancelTimer, Cancelled, timerVars
  <2>2. \A t \in timers' : t \in timers /\ t.owner # "skill"
    BY <2>1 DEF Deadlines
  <2> QED
    BY <2>1, <2>2 DEF Deadlines
<1> QED
  BY <1>1, <1>2, <1>3

-----------------------------------------------------------------------------
SkillInv == RunInv /\ ChannelInv /\ Deadlines

LEMMA FinishQuiet ==
  ASSUME RunInv, Finish
  PROVE  UNCHANGED <<timerVars, run, timerId, expired>> /\ host.pc = "final" /\ host'.pc = "cancel"
<1>1. UNCHANGED <<timerVars, run, timerId, expired>> /\ host.pc = "final"
  BY DEF Finish, Still, Quiet, envVars
<1>2. PICK code \in IF run \in lost THEN {Verdict(t) : t \in Status} \cup {"unknown"}
               ELSE {Verdict(child[run].status)} :
        host' = [host EXCEPT !.pc = "cancel", !.code = code]
  BY ZenonT(60) DEF Finish
<1>3. host'.pc = "cancel"
  BY <1>2, RunsHere
<1> QED
  BY <1>1, <1>3

\* What a step of the host leaves to the timers' thread, and where the host is after it.
LEMMA HostQuiet ==
  ASSUME RunInv, PollFails \/ Destroy \/ LoopTop \/ Poll \/ LookReaps \/ LookLeaves \/ LookReads \/ Serve
                 \/ WriteSkipped \/ WriteFails \/ Write \/ Finish \/ Reap \/ Destroyed
  PROVE  /\ UNCHANGED <<timerVars, run, timerId, expired>>
         /\ InRun => InRun' \/ host'.pc = "dead"
         /\ ~InRun => host.pc \in {"idle", "destroy"}
<1>1. DOMAIN host = {"pc", "steps", "req", "answer", "code", "output"}
  BY RunsHere
<1>2. CASE PollFails \/ LoopTop
  <2>1. UNCHANGED <<timerVars, run, timerId, expired>> /\ host.pc \in {"top", "poll"}
    BY <1>2 DEF PollFails, LoopTop, Still, Quiet, envVars
  <2>2. host'.pc \in {"poll", "reap"}
    BY <1>1, <1>2 DEF PollFails, LoopTop, KillFor, GoTo
  <2> QED
    BY <2>1, <2>2 DEF InRun
<1>3. CASE Poll \/ Reap
  <2>1. UNCHANGED <<timerVars, run, timerId, expired>> /\ host.pc \in {"poll", "reap"}
    BY <1>3 DEF Poll, Reap, Still, Quiet, envVars
  <2>2. host'.pc \in {"top", "look", "final", "cancel"}
    BY <1>1, <1>3 DEF Poll, Reap, GoTo
  <2> QED
    BY <2>1, <2>2 DEF InRun
<1>10. CASE Finish
  BY <1>10, FinishQuiet DEF InRun
<1>4. CASE LookReaps \/ LookLeaves
  <2>1. UNCHANGED <<timerVars, run, timerId, expired>> /\ host.pc = "look"
    BY <1>4 DEF LookReaps, LookLeaves, Still, Quiet, envVars
  <2>2. host'.pc = "final"
    BY <1>1, <1>4 DEF LookReaps, LookLeaves, GoTo
  <2> QED
    BY <2>1, <2>2 DEF InRun
<1>5. CASE LookReads
  BY <1>1, <1>5 DEF LookReads, KillFor, Still, Quiet, envVars, GoTo, InRun
<1>6. CASE WriteSkipped \/ WriteFails
  BY <1>1, <1>6 DEF WriteSkipped, WriteFails, Writes, Still, Quiet, envVars, GoTo, InRun
<1>7. CASE Write
  BY <1>1, <1>7 DEF Write, Writes, Still, Quiet, envVars, GoTo, InRun
<1>8. CASE Destroy \/ Destroyed
  BY <1>1, <1>8 DEF Destroy, Destroyed, Still, Quiet, envVars, GoTo, InRun
<1>9. CASE Serve
  <2>1. CASE ServeTool \/ ServeEvent \/ ServeReturn
    BY <1>1, <2>1 DEF ServeTool, ServeEvent, ServeReturn, Serving, Respond, Calm, Quiet, envVars, InRun
  <2>2. CASE ServeBudget
    BY <1>1, <2>2 DEF ServeBudget, Serving, Respond, Calm, Quiet, envVars, InRun
  <2>3. CASE ServeLlm \/ LlmAnswers
    BY <1>1, <2>3 DEF ServeLlm, LlmAnswers, Serving, Respond, GoTo, Calm, Quiet, envVars, InRun
  <2>4. CASE LlmTimesOut
    BY <1>1, <2>4 DEF LlmTimesOut, Respond, Calm, Quiet, envVars, InRun
  <2> QED
    BY <1>9, <2>1, <2>2, <2>3, <2>4 DEF Serve
<1> QED
  BY <1>2, <1>3, <1>4, <1>5, <1>6, <1>7, <1>8, <1>9, <1>10

LEMMA SkillStepRuns ==
  ASSUME SkillInv, CapabilityInv', SkillNext
  PROVE  RunInv' /\ Deadlines'
<1>1. RunInv /\ ChannelInv /\ Deadlines
  BY DEF SkillInv
<1>2. CASE Spawn \/ SpawnFails \/ Leaves
  <2>1. expired' = expired
    BY <1>2 DEF Spawn, SpawnFails, Leaves, Quiet, envVars
  <2> QED
    BY <1>1, <1>2, <2>1, SpawnRuns, SpawnFailsRuns, LeavesRuns, SkillTimers
<1>3. CASE PollFails \/ Destroy \/ LoopTop \/ Poll \/ LookReaps \/ LookLeaves \/ LookReads \/ Serve
             \/ WriteSkipped \/ WriteFails \/ Write \/ Finish \/ Reap \/ Destroyed
  <2>1. RunInv'
    BY <1>1, <1>3, TopKeeps, PollKeeps, LookKeeps, SkipKeeps, ReapKeeps, FinishKeeps, WriteKeeps,
       LookReadsKeeps, ServesRun, DestroyRuns
  <2>2. /\ UNCHANGED <<timerVars, run, timerId, expired>>
        /\ InRun => InRun' \/ host'.pc = "dead"
        /\ ~InRun => host.pc \in {"idle", "destroy"}
    BY <1>1, <1>3, HostQuiet
  <2>3. timerId' # 0 => InRun' \/ host'.pc = "dead"
    BY <1>1, <2>2 DEF Deadlines
  <2> QED
    BY <1>1, <2>1, <2>2, <2>3 DEF Deadlines, timerVars
<1>4. CASE ChildRuns \/ ChildEnds \/ OutsideKill
  <2>1. \E r \in Runs : ChildStep(r)
    BY <1>4 DEF ChildRuns, ChildEnds, OutsideKill, ChildStep, Others, hostVars, envVars
  <2>2. UNCHANGED <<timerVars, run, timerId, expired, host>>
    BY <1>4 DEF ChildRuns, ChildEnds, OutsideKill, Others, hostVars, envVars
  <2> QED
    BY <1>1, <2>1, <2>2, ChildKeeps, TimersPass DEF OtherTimers
<1>5. CASE SkillFires
  <2>1. /\ Firing("skill") /\ Fired /\ deadlineExceeded' = TRUE
        /\ late' = IF InRun /\ Head(toFire).id # timerId THEN late \cup {run} ELSE late
        /\ UNCHANGED <<setup, run, host, childPid, child, request, response, result, kills, lost,
                       stopInput,
                       timerId, expired, cancelled>>
    BY <1>5 DEF SkillFires, AllButTimers, childVars, envVars
  <2>2. toFire # <<>> /\ Head(toFire) = toFire[1] /\ toFire[1].owner = "skill" /\ 1 \in 1..Len(toFire)
    BY <1>1, <2>1, TimersBasics DEF Firing
  <2>3. InTime'
    BY <1>1, <2>1, <2>2 DEF Deadlines, InTime, InRun
  <2>4. Deadlines'
    BY <1>1, <2>1, <2>2, TimersPass DEF OtherTimers
  <2> QED
    BY <1>1, <2>1, <2>3, <2>4, AroundRuns
<1>6. CASE TimeOfTimers \/ ChannelSteps
  <2>1. /\ UNCHANGED <<setup, run, host, childPid, child, request, response, result, kills, lost,
                       stopInput,
                       timerId, expired, cancelled, late, deadlineExceeded>>
    BY <1>6 DEF TimeOfTimers, ChannelSteps, AllButTimers, childVars, envVars
  <2>2. ASSUME TimeOfTimers
        PROVE  OtherTimers
    BY <2>2, SkillAssumption DEF OtherTimers, TimeOfTimers
  <2>3. ASSUME ChannelSteps
        PROVE  OtherTimers
    BY <2>3, SkillAssumption DEF ChannelSteps, Channel, Tick, StartPolling, StopPolling, BarrierCheck,
       BarrierBlocks, TickEnters, TickLeaves, Firing, OtherTimers
  <2>4. Deadlines'
    BY <1>1, <1>6, <2>1, <2>2, <2>3, TimersPass
  <2>5. InTime'
    BY <1>1, <2>1 DEF RunInv, InTime, InRun
  <2>6. RunInv'
    BY <1>1, <2>1, <2>5, AroundRuns
  <2> QED
    BY <2>4, <2>6
<1>7. CASE Expire \/ Cancel \/ CallSteps
  <2>1. /\ UNCHANGED <<timerVars, setup, run, host, childPid, child, request, response, result,
                       kills, lost,
                       stopInput, timerId, late, deadlineExceeded>>
        /\ expired \subseteq expired' /\ cancelled \subseteq cancelled'
    BY <1>7 DEF Expire, Cancel, CallSteps, hostVars, childVars, envVars
  <2>2. InTime'
    BY <1>1, <2>1 DEF RunInv, InTime, InRun
  <2>3. RunInv'
    BY <1>1, <2>1, <2>2, AroundRuns
  <2>4. Deadlines'
    BY <1>1, <2>1, TimersPass DEF OtherTimers
  <2> QED
    BY <2>3, <2>4
<1> QED
  BY <1>2, <1>3, <1>4, <1>5, <1>6, <1>7 DEF SkillNext, HostSteps

-----------------------------------------------------------------------------
LEMMA SkillStarts ==
  ASSUME ProgramInit, CapabilityInv, ChannelInv
  PROVE  SkillInv
<1>1. /\ setup \in Setups /\ run = 0 /\ host = HostAt("idle") /\ childPid = 0 /\ stopInput = 0
      /\ request = [r \in Runs |-> NoLine] /\ response = [r \in Runs |-> None]
      /\ child = [r \in Runs |-> [pc |-> None, at |-> 1, killed |-> FALSE, status |-> None]]
      /\ result = [r \in Runs |-> [code |-> None, output |-> FALSE]]
      /\ kills = 0 /\ lost = {} /\ timerId = 0 /\ timers = {} /\ toFire = <<>>
      /\ deadlineExceeded = FALSE
  BY DEF ProgramInit, Init, TimerInit
<1>2. host.pc = "idle"
  BY <1>1 DEF HostAt
<1>3. ChildTyped
  BY <1>1 DEF ChildTyped, ChildState, ChildPlaces
<1>4. Unstarted /\ HasStatus /\ LeftOver /\ CodesTellWhy
  BY <1>1, <1>2 DEF Unstarted, HasStatus, LeftOver, CodesTellWhy, None, Status
<1>5. Dialogue /\ Closing /\ InTime /\ HostSurvives /\ StrandedOnlyBy
  BY <1>1, <1>2 DEF Dialogue, Closing, InTime, HostSurvives, StrandedOnlyBy, Stranded, InRun
<1>6. Deadlines
  BY <1>1 DEF Deadlines
<1> QED
  BY <1>3, <1>4, <1>5, <1>6 DEF SkillInv, RunInv

LEMMA SkillKeeps ==
  ASSUME SkillInv, ModelPermitted, [Next]_programVars
  PROVE  SkillInv'
<1>1. RunInv /\ ChannelInv /\ Deadlines /\ CapabilityInv
  BY DEF SkillInv, RunInv
<1>2. CapabilityInv' /\ ChannelInv'
  BY <1>1, CapabilityKept, ChannelKept
<1>3. CASE SkillNext
  BY <1>2, <1>3, SkillStepRuns DEF SkillInv
<1>4. CASE (ChatNext /\ UNCHANGED skillVars) \/ UNCHANGED programVars
  <2>1. /\ UNCHANGED <<setup, run, host, childPid, child, request, response, result, kills, lost,
                       stopInput,
                       timerId, expired, cancelled, late, deadlineExceeded>>
    BY <1>4 DEF programVars, vars, skillVars, hostVars, childVars, envVars
  <2>2. ChatTimerStep
    BY <1>4, ChatTimers DEF ChatTimerStep, programVars, vars
  <2>3. OtherTimers
    BY <2>2, ChatAssumption DEF ChatTimerStep, OtherTimers
  <2>4. InTime'
    BY <1>1, <2>1 DEF RunInv, InTime, InRun
  <2>5. RunInv'
    BY <1>1, <1>2, <2>1, <2>4, AroundRuns
  <2>6. Deadlines'
    BY <1>1, <2>1, <2>3, TimersPass
  <2> QED
    BY <1>2, <2>5, <2>6 DEF SkillInv
<1> QED
  BY <1>3, <1>4 DEF Next

LEMMA NothingIsLeft ==
  ASSUME SkillInv
  PROVE  NothingLeft
<1>1. RunInv /\ ChannelInv /\ Deadlines
  BY DEF SkillInv
<1> SUFFICES ASSUME host.pc \in {"idle", "gone"}
             PROVE  /\ \A t \in timers : t.owner # "skill"
                    /\ \A r \in Runs : child[r].pc \notin {None, "reaped"} =>
                         result[r].code = "threw" /\ (host.pc = "gone" => r < run)
  BY DEF NothingLeft
<1>2. ~InRun /\ host.pc # "dead" /\ run \in Nat
  BY <1>1, RunsHere DEF InRun
<1>3. \A t \in timers : t.owner # "skill"
  <2>1. timerId = 0
    BY <1>1, <1>2 DEF Deadlines
  <2> QED
    BY <1>1, <2>1, TimersBasics DEF Deadlines
<1>4. ASSUME NEW r \in Runs, child[r].pc \notin {None, "reaped"}
      PROVE  result[r].code = "threw" /\ (host.pc = "gone" => r < run)
  <2>1. result[r].code = "threw"
    BY <1>1, <1>2, <1>4 DEF RunInv, LeftOver
  <2>2. r \in Nat \ {0} /\ r <= run
    BY <1>1, <1>2, <1>4, RunsHere DEF RunInv, Unstarted
  <2>3. host.pc = "gone" => r # run
    BY <1>1, <1>4, <2>2 DEF RunInv, LeftOver
  <2> QED
    BY <1>2, <2>1, <2>2, <2>3
<1> QED
  BY <1>3, <1>4

(* The inductive invariant holds of every program.                         *)
THEOREM RunsKeep == Spec => []SkillInv
<1>1. ProgramInit => SkillInv
  BY SkillStarts, CapabilityStarts, ChannelStarts
<1>2. SkillInv /\ ModelPermitted /\ [Next]_programVars => SkillInv'
  BY SkillKeeps
<1> QED
  BY <1>1, <1>2, CapabilityHolds, PTL DEF Spec

(* The host is ended by SIGPIPE only when it answers a child that was       *)
(* killed for its budget or from outside, however the child's death and     *)
(* the answer interleave, and over any number of runs.                      *)
THEOREM HostDiesOnlyThen == Spec => []HostSurvives
<1>1. SkillInv => HostSurvives
  BY DEF SkillInv, RunInv
<1> QED
  BY <1>1, RunsKeep, PTL

(* Whichever way a run ends, its child is reaped and its timer is gone when *)
(* run returns and when the interpreter is destroyed, but for the child of  *)
(* a run that a provider's exception ended.                                 *)
THEOREM RunsLeaveNothing == Spec => []NothingLeft
<1>1. SkillInv => NothingLeft
  BY NothingIsLeft
<1> QED
  BY <1>1, RunsKeep, PTL

(* A success, a timeout and an abort that run returns are what happened,    *)
(* but where the status of the child was lost.                              *)
THEOREM CodesAreTrue == Spec => []CodesTellWhy
<1>1. SkillInv => CodesTellWhy
  BY DEF SkillInv, RunInv
<1> QED
  BY <1>1, RunsKeep, PTL

(* The two sides wait for each other only by the flag of an earlier run or  *)
(* a request that one read does not take.                                   *)
THEOREM StrandedOnlyThen == Spec => []StrandedOnlyBy
<1>1. SkillInv => StrandedOnlyBy
  BY DEF SkillInv, RunInv
<1> QED
  BY <1>1, RunsKeep, PTL

-----------------------------------------------------------------------------
(* The backend beside it.                                                   *)

(* The polls, the signals and the streams of a backend change nothing that *)
(* HostProgram describes: with them the program still implements it.       *)
THEOREM WorldIsProgram == WorldSpec => Spec
<1>1. WorldInit => ProgramInit
  BY DEF WorldInit
<1>2. [WorldNext]_worldVars => [Next]_programVars
  <2> SUFFICES ASSUME [WorldNext]_worldVars PROVE [Next]_programVars
    OBVIOUS
  <2>1. CASE ProgramStep
    BY <2>1 DEF ProgramStep
  <2>2. CASE Takes
    BY <2>2 DEF Takes
  <2>3. CASE Hands
    BY <2>3 DEF Hands
  <2>4. CASE BackendStep
    BY <2>4 DEF BackendStep
  <2>5. CASE UNCHANGED worldVars
    BY <2>5 DEF worldVars
  <2> QED
    BY <2>1, <2>2, <2>3, <2>4, <2>5 DEF WorldNext
<1> QED
  BY <1>1, <1>2, PTL DEF WorldSpec, Spec

(* So what was shown of the program without a backend holds with any: its  *)
(* provider generates for one at a time, at most one poll is late, the      *)
(* skills stay within what they were granted, and their runs end cleanly   *)
(* and tell why.                                                           *)
THEOREM WorldKeeps ==
  WorldSpec => []( /\ OneInside /\ OneLatePoll /\ WithinCapability
                   /\ HostSurvives /\ NothingLeft /\ CodesTellWhy /\ StrandedOnlyBy )
BY WorldIsProgram, OneCall, PollsEnd, GrantsBounded, HostDiesOnlyThen, RunsLeaveNothing, CodesAreTrue,
   StrandedOnlyThen, PTL

-----------------------------------------------------------------------------
(* The backend of the channel, and its polls.                               *)

\* What a workflow may be called, and what is kept and told of it.
FlowName == {Made(n) : n \in Nat}
            \cup {c.id : c \in UNION {ToSet(s.calls[t]) : s \in Services, t \in Thread}}
Waited == [name : STRING, number : Nat]
Flow == [run : Nat, status : FlowStatus, events : Nat, pending : Seq(Waited),
         streamed : FlowStatus \cup {"unknown"}]
Answer == [id : FlowName, run : Nat, status : FlowStatus, events : Nat]
StatusChange == [id : FlowName, status : FlowStatus]

BackendTyped ==
  /\ service \in Services /\ runCounter \in Nat
  /\ DOMAIN workflows \subseteq FlowName /\ workflows \in [DOMAIN workflows -> Flow]
  /\ place \in [Thread -> Nat]
  /\ phase \in [Thread -> {"ready", "waits", "looks", "tells"}]
  /\ DOMAIN held = Thread
  /\ returned \in [Thread -> Seq(Answer)]
  /\ emitted \in Seq([name : STRING, expected : BOOLEAN])
  /\ changes \in Seq(StatusChange) /\ told \in Seq(Nat) /\ ended \subseteq StatusChange
  /\ past \in Seq([number : Nat, handled : BOOLEAN]) /\ signals \in Seq(Waited)
  /\ \A t \in Thread : phase[t] = "waits" => Known(held[t])
  /\ \A t \in Thread : phase[t] \in {"looks", "tells"} => place[t] \in DOMAIN service.calls[t]

\* No two workflows have one run.
OneRun ==
  /\ \A w \in DOMAIN workflows : workflows[w].run <= runCounter
  /\ \A v, w \in DOMAIN workflows : workflows[v].run = workflows[w].run => v = w

\* What was answered is of a workflow, is not newer than it, and of the same age is the same.
NotNewer(r) ==
  /\ Known(r.id) /\ r.run = workflows[r.id].run /\ r.events <= workflows[r.id].events
  /\ r.events = workflows[r.id].events => r.status = workflows[r.id].status
Aging(s) == \A i, j \in DOMAIN s : i < j /\ s[i].id = s[j].id => s[i].events <= s[j].events
AnswersFit ==
  /\ \A r \in Results : NotNewer(r)
  /\ \A r, s \in Results : r.id = s.id /\ r.events = s.events => r.status = s.status
  /\ \A t \in Thread : Aging(returned[t])

\* A signal is behind the one before it: looked at, taken, or pending.
PollPlace ==
  /\ poll \in {"no", "take", "hand"}
  /\ ~service.on => poll = "no"
  /\ service.on => (polling = "no" <=> poll = "no")
  /\ poll # "hand" => signals = <<>>
Hopes(sequence) == \A i \in DOMAIN sequence : emitted[sequence[i].number].expected => sequence[i].name \in handlers
InStep(sequence, n) == \A i \in DOMAIN sequence : sequence[i].number = n + i
InLine ==
  /\ Len(past) + Len(signals) + Len(Pending) = Len(emitted)
  /\ InStep(past, 0) /\ InStep(signals, Len(past)) /\ InStep(Pending, Len(past) + Len(signals))
  /\ Hopes(signals) /\ Hopes(Pending)
  /\ \A i \in DOMAIN past : emitted[i].expected => past[i].handled

\* A change is the last of its workflow, with the status that was streamed last, or another followed.
Followed(i) == \E k \in DOMAIN changes : i < k /\ changes[k].id = changes[i].id /\ changes[k] # changes[i]
Seen ==
  /\ \A i \in DOMAIN changes :
       /\ Known(changes[i].id)
       /\ changes[i].status = workflows[changes[i].id].streamed \/ Followed(i)
  /\ \A w \in DOMAIN workflows :
       workflows[w].streamed # "unknown" => [id |-> w, status |-> workflows[w].streamed] \in ToSet(changes)
  /\ \A i, j \in DOMAIN changes :
       i < j /\ changes[i] = changes[j] =>
         \E k \in i..j : changes[k].id = changes[i].id /\ changes[k] # changes[i]

\* A change that was seen is told, or one thread is about to tell it.
ToldOnceEach ==
  /\ IsInjective(told)
  /\ \A t \in Thread : phase[t] = "tells" => held[t] \in DOMAIN changes /\ held[t] \notin ToSet(told)
  /\ \A t, u \in Thread : phase[t] = "tells" /\ phase[u] = "tells" /\ held[t] = held[u] => t = u
  /\ \A i \in DOMAIN changes : i \in ToSet(told) \/ OnTheWay(i)
  /\ ToSet(told) \subseteq DOMAIN changes
  /\ ended \subseteq ToSet(changes)

BackendInv == BackendTyped /\ OneRun /\ AnswersFit /\ PollPlace /\ InLine /\ Seen /\ ToldOnceEach

\* Two different kinds of step: what nobody is told of, and an answer of a workflow as it is then.
Grows ==
  /\ DOMAIN workflows \subseteq DOMAIN workflows'
  /\ \A w \in DOMAIN workflows :
       /\ workflows'[w].run = workflows[w].run /\ workflows[w].events <= workflows'[w].events
       /\ workflows'[w].events = workflows[w].events => workflows'[w].status = workflows[w].status
AnswersOne ==
  \/ UNCHANGED returned
  \/ \E t \in Thread, w \in DOMAIN workflows' :
       returned' = [returned EXCEPT ![t] = Append(@, ResultOf(w, workflows'[w]))]
NoSignal == UNCHANGED <<emitted, past, signals>> /\ handlers \subseteq handlers' /\ Pending' = Pending
NoLook ==
  /\ UNCHANGED changes
  /\ \A w \in DOMAIN workflows' :
       workflows'[w].streamed = IF w \in DOMAIN workflows THEN workflows[w].streamed ELSE "unknown"
NoTelling ==
  /\ UNCHANGED <<changes, told, ended>>
  /\ \A t \in Thread : (phase'[t] = "tells" <=> phase[t] = "tells")
                       /\ (phase[t] = "tells" => held'[t] = held[t])

LEMMA ElementAppended ==
  ASSUME NEW S, NEW s \in Seq(S), NEW e \in S
  PROVE  /\ Append(s, e) \in Seq(S) /\ ToSet(Append(s, e)) = ToSet(s) \cup {e}
         /\ IsInjective(s) /\ e \notin ToSet(s) => IsInjective(Append(s, e))
<1>1. PICK r, n : r = Append(s, e) /\ n = Len(s)
  OBVIOUS
<1>2. /\ r \in Seq(S) /\ n \in Nat /\ DOMAIN r = 1..n + 1 /\ DOMAIN s = 1..n
      /\ r[n + 1] = e /\ \A i \in 1..n : r[i] = s[i]
  BY <1>1, AppendProperties
<1>3. ToSet(r) = ToSet(s) \cup {e}
  <2>1. \A i \in 1..n + 1 : i \in 1..n \/ i = n + 1
    BY <1>2
  <2> QED
    BY <1>2, <2>1 DEF ToSet
<1>4. ASSUME IsInjective(s), e \notin ToSet(s) PROVE IsInjective(r)
  <2> SUFFICES ASSUME NEW i \in DOMAIN r, NEW j \in DOMAIN r, r[i] = r[j] PROVE i = j
    BY DEF IsInjective
  <2>1. (i \in 1..n \/ i = n + 1) /\ (j \in 1..n \/ j = n + 1)
    BY <1>2
  <2>2. \A k \in 1..n : s[k] # e
    BY <1>2, <1>4 DEF ToSet
  <2>3. \A k, l \in 1..n : s[k] = s[l] => k = l
    BY <1>2, <1>4 DEF IsInjective
  <2> QED
    BY <1>2, <2>1, <2>2, <2>3
<1> QED
  BY <1>1, <1>2, <1>3, <1>4

-----------------------------------------------------------------------------
(* Steps of these kinds.                                                    *)

LEMMA GrownRuns ==
  ASSUME BackendTyped, OneRun, Grows, UNCHANGED runCounter, DOMAIN workflows' = DOMAIN workflows
  PROVE  OneRun'
BY DEF OneRun, Grows

LEMMA GrownAnswers ==
  ASSUME BackendTyped, BackendTyped', AnswersFit, Grows, AnswersOne
  PROVE  AnswersFit'
<1>1. ASSUME NEW r \in Results PROVE NotNewer(r)'
  <2>1. NotNewer(r) /\ r.id \in DOMAIN workflows
    BY <1>1 DEF AnswersFit, NotNewer, Known
  <2>2. r.events \in Int
    <3>1. PICK t \in Thread : r \in ToSet(returned[t])
      BY <1>1 DEF Results
    <3>2. returned[t] \in Seq(Answer)
      BY DEF BackendTyped
    <3>3. r \in Answer
      BY <3>1, <3>2 DEF ToSet
    <3> QED
      BY <3>3 DEF Answer
  <2>3. workflows[r.id].events \in Int /\ workflows'[r.id].events \in Int
    <3>1. workflows[r.id] \in Flow
      BY <2>1 DEF BackendTyped
    <3>2. r.id \in DOMAIN workflows'
      BY <2>1 DEF Grows
    <3>3. workflows'[r.id] \in Flow
      BY <3>2 DEF BackendTyped
    <3> QED
      BY ONLY <3>1, <3>3 DEF Flow
  <2> QED
    BY <2>1, <2>2, <2>3 DEF Grows, NotNewer, Known
<1>2. CASE UNCHANGED returned
  <2>1. Results' = Results
    BY <1>2 DEF Results
  <2> QED
    BY <1>1, <1>2, <2>1 DEF AnswersFit
<1>3. ASSUME NEW t \in Thread, NEW w \in DOMAIN workflows',
             returned' = [returned EXCEPT ![t] = Append(@, ResultOf(w, workflows'[w]))]
      PROVE  AnswersFit'
  <2>1. PICK e : e = ResultOf(w, workflows'[w])
    OBVIOUS
  <2>2. /\ e \in Answer /\ e.id = w /\ e.run = workflows'[w].run /\ e.status = workflows'[w].status
        /\ e.events = workflows'[w].events /\ workflows'[w].events \in Int
    <3>1. workflows'[w] \in Flow /\ w \in FlowName
      BY DEF BackendTyped
    <3> QED
      BY <2>1, <3>1 DEF ResultOf, Answer, Flow
  <2>3. NotNewer(e)'
    BY <2>2 DEF NotNewer, Known
  <2>4. returned'[t] = Append(returned[t], e) /\ \A u \in Thread : u # t => returned'[u] = returned[u]
    BY <1>3, <2>1 DEF BackendTyped
  <2>5. Results' = Results \cup {e}
    <3>1. returned[t] \in Seq(Answer)
      BY DEF BackendTyped
    <3>2. ToSet(returned'[t]) = ToSet(returned[t]) \cup {e}
      BY <2>2, <2>4, <3>1, ElementAppended
    <3> QED
      BY <2>4, <3>2 DEF Results
  <2>6. \A r \in Results' : NotNewer(r)'
    BY <1>1, <2>3, <2>5
  <2>7. ASSUME NEW r \in Results, r.id = e.id, r.events = e.events PROVE r.status = e.status
    BY <1>1, <2>2, <2>7 DEF NotNewer
  <2>8. Aging(returned[t])'
    <3>1. returned[t] \in Seq(Answer) /\ Aging(returned[t])
      BY DEF BackendTyped, AnswersFit
    <3>2. PICK s, n : s = returned[t] /\ n = Len(returned[t])
      OBVIOUS
    <3>3. /\ n \in Nat /\ DOMAIN s = 1..n /\ DOMAIN Append(s, e) = 1..n + 1
          /\ Append(s, e)[n + 1] = e /\ \A i \in 1..n : Append(s, e)[i] = s[i]
      BY <2>2, <3>1, <3>2, AppendProperties
    <3>4. \A i \in 1..n : s[i] \in Results
      BY <3>2, <3>3 DEF Results, ToSet
    <3>5. ASSUME NEW i \in 1..n + 1, NEW j \in 1..n + 1, i < j, Append(s, e)[i].id = Append(s, e)[j].id
          PROVE  Append(s, e)[i].events <= Append(s, e)[j].events
      <4>1. CASE j = n + 1
        <5>1. i \in 1..n
          BY <3>3, <3>5, <4>1
        <5> QED
          BY <1>1, <2>2, <3>3, <3>4, <3>5, <4>1, <5>1 DEF NotNewer
      <4>2. CASE j # n + 1
        <5>1. i \in 1..n /\ j \in 1..n
          BY <3>3, <3>5, <4>2
        <5> QED
          BY <3>1, <3>2, <3>3, <3>5, <5>1 DEF Aging
      <4> QED
        BY <4>1, <4>2
    <3> QED
      BY <2>4, <3>2, <3>3, <3>5 DEF Aging
  <2>9. \A u \in Thread : Aging(returned[u])'
    BY <2>4, <2>8 DEF AnswersFit, Aging
  <2> QED
    BY <2>5, <2>6, <2>7, <2>9 DEF AnswersFit
<1> QED
  BY <1>2, <1>3 DEF AnswersOne

LEMMA QuietLine ==
  ASSUME BackendTyped, InLine, NoSignal
  PROVE  InLine'
BY DEF InLine, NoSignal, InStep, Hopes

LEMMA QuietSeen ==
  ASSUME BackendTyped, Seen, Grows, NoLook
  PROVE  Seen'
BY DEF Seen, Grows, NoLook, Followed, Known

LEMMA QuietTold ==
  ASSUME ToldOnceEach, NoTelling
  PROVE  ToldOnceEach'
<1>1. changes' = changes /\ told' = told /\ ended' = ended
  BY DEF NoTelling
<1>2. \A i : OnTheWay(i)' <=> OnTheWay(i)
  BY DEF NoTelling, OnTheWay
<1> QED
  BY <1>1, <1>2 DEF ToldOnceEach, NoTelling

-----------------------------------------------------------------------------
(* The calls of the threads.                                                *)

LEMMA AskedTyped ==
  ASSUME BackendTyped, NEW t \in Thread, place[t] \in DOMAIN service.calls[t]
  PROVE  /\ Asked(t).id \in FlowName
         /\ Asked(t).op = "change" => Asked(t).status \in FlowStatus
         /\ Asked(t).op \in {"emit", "handle"} => Asked(t).name \in STRING
<1>1. service \in Services
  BY DEF BackendTyped
<1>2. Asked(t) \in ToSet(service.calls[t])
  BY DEF Asked, ToSet
<1>3. Asked(t).id \in FlowName
  BY <1>1, <1>2 DEF FlowName
<1> QED
  BY <1>1, <1>3, ServicesAssumption DEF Asked

\* What only brings a thread on, and what answers it, of workflows that stay.
LEMMA GoesOnTyped ==
  ASSUME BackendTyped, NEW t \in Thread, GoesOn(t)
  PROVE  /\ place' \in [Thread -> Nat]
         /\ phase' \in [Thread -> {"ready", "waits", "looks", "tells"}]
         /\ phase'[t] = "ready" /\ \A u \in Thread : u # t => phase'[u] = phase[u] /\ place'[u] = place[u]
BY DEF BackendTyped, GoesOn

LEMMA GivesTyped ==
  ASSUME BackendTyped, NEW t \in Thread, NEW w \in FlowName, NEW flow \in Flow, Gives(t, w, flow)
  PROVE  returned' \in [Thread -> Seq(Answer)]
<1>1. ResultOf(w, flow) \in Answer
  BY DEF ResultOf, Answer, Flow
<1>2. \A u \in Thread : returned[u] \in Seq(Answer)
  BY DEF BackendTyped
<1>3. Append(returned[t], ResultOf(w, flow)) \in Seq(Answer)
  BY <1>1, <1>2, AppendProperties
<1> QED
  BY <1>2, <1>3 DEF Gives, BackendTyped

PollFrame == UNCHANGED <<service, poll, signals, past, polling>>

TellersStay ==
  \A t \in Thread : (phase'[t] = "tells" <=> phase[t] = "tells")
                    /\ (phase[t] = "tells" => held'[t] = held[t])

\* Workflows stay as they are.
LEMMA SameFlows ==
  ASSUME BackendInv, PollFrame, UNCHANGED flowVars, Rest, AnswersOne, BackendTyped', TellersStay
  PROVE  BackendInv'
<1>1. Grows
  BY DEF flowVars, Grows, BackendInv, BackendTyped, Flow
<1>2. OneRun' /\ PollPlace'
  BY DEF flowVars, BackendInv, OneRun, PollPlace, PollFrame
<1>3. NoSignal
  BY DEF NoSignal, Rest, PollFrame, Pending, Known, flowVars
<1>4. NoLook /\ NoTelling
  BY DEF NoLook, NoTelling, TellersStay, Rest, flowVars
<1> QED
  BY <1>1, <1>2, <1>3, <1>4, GrownAnswers, QuietLine, QuietSeen, QuietTold DEF BackendInv

\* An answer of a workflow as it is, and nothing else.
LEMMA AnswersStay ==
  ASSUME BackendInv, PollFrame, NEW t \in Thread, NEW w, Known(w),
         phase[t] \in {"ready", "waits"},
         Gives(t, w, workflows[w]), UNCHANGED flowVars, Rest
  PROVE  BackendInv'
<1>1. GoesOn(t) /\ UNCHANGED held /\ workflows[w] \in Flow /\ w \in FlowName
  BY DEF Gives, BackendInv, BackendTyped, Known
<1>2. BackendTyped'
  BY <1>1, GoesOnTyped, GivesTyped DEF BackendInv, BackendTyped, Rest, PollFrame, Known, flowVars
<1>3. AnswersOne
  <2>1. workflows' = workflows /\ w \in DOMAIN workflows'
    BY DEF flowVars, Known
  <2>2. returned' = [returned EXCEPT ![t] = Append(@, ResultOf(w, workflows'[w]))]
    BY <2>1 DEF Gives
  <2> QED
    BY <2>1, <2>2 DEF AnswersOne
<1>4. TellersStay
  BY <1>1, GoesOnTyped DEF BackendInv, TellersStay
<1> QED
  BY <1>2, <1>3, <1>4, SameFlows

LEMMA StartsKeeps ==
  ASSUME BackendInv, PollFrame, NEW t \in Thread, Starts(t)
  PROVE  BackendInv'
<1> DEFINE made == IF Asked(t).id = Unnamed THEN 1 ELSE 0
           w == IF made = 1 THEN Made(runCounter + 1) ELSE Asked(t).id
           flow == Fresh(runCounter + made + 1)
<1> USE DEF BackendInv
<1>1. made \in {0, 1} /\ runCounter \in Nat /\ w \in FlowName /\ phase[t] = "ready"
  <2>1. Asked(t).id \in FlowName
    BY AskedTyped DEF Starts, Calls
  <2>2. runCounter \in Nat /\ phase[t] = "ready"
    BY DEF BackendTyped, Starts, Calls
  <2>3. Made(runCounter + 1) \in FlowName
    BY <2>2 DEF FlowName
  <2> QED
    BY <2>1, <2>2, <2>3
<1>2. CASE Existing(w)
  <2>0. Known(w)
    BY <1>2 DEF Existing
  <2>1. Gives(t, w, workflows[w]) /\ UNCHANGED flowVars /\ Rest
    BY <1>2 DEF Starts
  <2> HIDE DEF made, w, BackendInv
  <2> QED
    BY <1>1, <2>0, <2>1, AnswersStay
<1>3. CASE ~Existing(w)
  <2>1. /\ runCounter' = runCounter + made + 1 /\ Rest
        /\ workflows' = [v \in DOMAIN workflows \cup {w} |-> IF v = w THEN flow ELSE workflows[v]]
        /\ Waits(t, w) \/ Gives(t, w, flow)
    BY <1>3 DEF Starts
  <2> HIDE DEF made, w
  <2>2. PICK n : n = runCounter + made + 1
    OBVIOUS
  <2>3. n \in Nat /\ n > runCounter /\ runCounter' = n
    BY <1>1, <2>1, <2>2
  <2>4. /\ flow \in Flow /\ flow.run = n /\ flow.events = 1 /\ flow.streamed = "unknown" /\ flow.pending = <<>>
    <3>1. PICK f : f = [run |-> n, status |-> "running", events |-> 1, pending |-> <<>>, streamed |-> "unknown"]
      OBVIOUS
    <3>3. flow = f
      BY <2>2, <3>1 DEF Fresh
    <3> HIDE DEF flow
    <3>2. <<>> \in Seq(Waited) /\ "running" \in FlowStatus
      BY DEF FlowStatus
    <3> QED
      BY <2>3, <3>1, <3>2, <3>3 DEF Flow
  <2> HIDE DEF flow
  <2>5. /\ w \notin DOMAIN workflows /\ DOMAIN workflows' = DOMAIN workflows \cup {w}
        /\ workflows'[w] = flow /\ \A v \in DOMAIN workflows : workflows'[v] = workflows[v]
        /\ workflows' \in [DOMAIN workflows' -> Flow] /\ DOMAIN workflows' \subseteq FlowName
    <3>1. w \notin DOMAIN workflows
      BY <1>3 DEF Existing, Known
    <3>2. \A v \in DOMAIN workflows : workflows[v] \in Flow /\ v \in FlowName
      BY DEF BackendTyped
    <3> QED
      BY <1>1, <2>1, <2>4, <3>1, <3>2
  <2>6. Grows
    <3>1. \A v \in DOMAIN workflows : workflows[v].events \in Int
      BY DEF BackendTyped, Flow
    <3> QED
      BY <2>5, <3>1 DEF Grows
  <2>7. OneRun'
    <3>1. \A v \in DOMAIN workflows : workflows[v].run \in Int /\ workflows[v].run <= runCounter
      BY DEF BackendTyped, Flow, OneRun
    <3> QED
      BY <1>1, <2>3, <2>4, <2>5, <3>1 DEF OneRun
  <2>8. NoSignal
    <3>1. Pending' = Pending
      BY <2>4, <2>5 DEF Pending, Known, PollFrame
    <3> QED
      BY <2>1, <3>1 DEF NoSignal, Rest, PollFrame
  <2>9. NoLook
    BY <2>1, <2>4, <2>5 DEF NoLook, Rest
  <2>10. CASE Waits(t, w)
    <3>1. BackendTyped'
      BY <1>1, <2>1, <2>3, <2>5, <2>10 DEF BackendTyped, Waits, Rest, PollFrame, Known
    <3>2. NoTelling /\ AnswersOne
      BY <1>1, <2>1, <2>10 DEF NoTelling, AnswersOne, Waits, Rest, BackendTyped
    <3> QED
      BY <2>6, <2>7, <2>8, <2>9, <3>1, <3>2, GrownAnswers, QuietLine, QuietSeen, QuietTold
         DEF PollPlace, PollFrame
  <2>11. CASE Gives(t, w, flow)
    <3>1. BackendTyped'
      <4>1. GoesOn(t) /\ UNCHANGED held
        BY <2>11 DEF Gives
      <4> QED
        BY <1>1, <2>1, <2>3, <2>4, <2>5, <2>11, <4>1, GoesOnTyped, GivesTyped
           DEF BackendTyped, Rest, PollFrame, Known
    <3>2. NoTelling /\ AnswersOne
      BY <1>1, <2>1, <2>5, <2>11 DEF NoTelling, AnswersOne, Gives, GoesOn, Rest, BackendTyped
    <3> QED
      BY <2>6, <2>7, <2>8, <2>9, <3>1, <3>2, GrownAnswers, QuietLine, QuietSeen, QuietTold
         DEF PollPlace, PollFrame
  <2> QED
    BY <2>1, <2>10, <2>11
<1> QED
  BY <1>2, <1>3

\* Nothing but where a thread is.
LEMMA PlaceKeeps ==
  ASSUME BackendInv, PollFrame, UNCHANGED <<flowVars, returned>>, Rest, BackendTyped', TellersStay
  PROVE  BackendInv'
BY SameFlows DEF AnswersOne

LEMMA NotFoundKeeps ==
  ASSUME BackendInv, PollFrame, NEW t \in Thread, phase[t] # "tells", NotFound(t)
  PROVE  BackendInv'
<1>1. GoesOn(t) /\ UNCHANGED <<flowVars, returned, held>> /\ Rest
  BY DEF NotFound, Rest, historyVars
<1>2. UNCHANGED <<workflows, runCounter>>
  BY <1>1 DEF flowVars
<1>3. BackendTyped'
  BY <1>1, <1>2, GoesOnTyped DEF BackendInv, BackendTyped, Rest, PollFrame, Known
<1>4. TellersStay
  BY <1>1, GoesOnTyped DEF TellersStay, BackendInv
<1> QED
  BY <1>1, <1>3, <1>4, PlaceKeeps

LEMMA PollsKeeps ==
  ASSUME BackendInv, PollFrame, NEW t \in Thread, Polls(t)
  PROVE  BackendInv'
<1>1. phase[t] = "ready"
  BY DEF Polls, Calls
<1>2. CASE Known(Asked(t).id)
  <2>1. PICK w : w = Asked(t).id
    OBVIOUS
  <2>2. Waits(t, w) /\ UNCHANGED flowVars /\ Rest /\ Known(w)
    BY <1>2, <2>1 DEF Polls
  <2>3. BackendTyped'
    BY <1>1, <2>2 DEF Waits, BackendInv, BackendTyped, Rest, PollFrame, Known, flowVars
  <2>4. TellersStay /\ UNCHANGED returned
    BY <1>1, <2>2 DEF TellersStay, Waits, BackendInv, BackendTyped
  <2> QED
    BY <2>2, <2>3, <2>4, PlaceKeeps
<1>3. CASE ~Known(Asked(t).id)
  BY <1>1, <1>3, NotFoundKeeps DEF Polls
<1> QED
  BY <1>2, <1>3

LEMMA StopsWaitingKeeps ==
  ASSUME BackendInv, PollFrame, NEW t \in Thread, StopsWaiting(t)
  PROVE  BackendInv'
<1>1. Known(held[t]) /\ phase[t] = "waits"
  BY DEF StopsWaiting, BackendInv, BackendTyped
<1> QED
  BY <1>1, AnswersStay DEF StopsWaiting

LEMMA QueriesKeeps ==
  ASSUME BackendInv, PollFrame, NEW t \in Thread, Queries(t)
  PROVE  BackendInv'
<1>1. phase[t] = "ready"
  BY DEF Queries, Calls
<1>2. CASE Known(Asked(t).id)
  BY <1>1, <1>2, AnswersStay DEF Queries
<1>3. CASE ~Known(Asked(t).id)
  BY <1>1, <1>3, NotFoundKeeps DEF Queries
<1> QED
  BY <1>2, <1>3

\* An event of a workflow: of its own, or that changes its status.
LEMMA EventKeeps ==
  ASSUME BackendInv, PollFrame, NEW t \in Thread, phase[t] = "ready", NEW w, Known(w),
         NEW status \in FlowStatus,
         workflows' = [workflows EXCEPT ![w].status = status, ![w].events = @ + 1],
         GoesOn(t), UNCHANGED <<runCounter, held, returned>>, Rest
  PROVE  BackendInv'
<1>1. PICK flow : flow = workflows[w]
  OBVIOUS
<1>2. PICK after : after = [flow EXCEPT !.status = status, !.events = @ + 1]
  OBVIOUS
<1>3. flow \in Flow /\ w \in DOMAIN workflows
  BY <1>1 DEF BackendInv, BackendTyped, Known
<1>4. /\ after \in Flow /\ after.run = flow.run /\ after.events = flow.events + 1 /\ flow.events \in Nat
      /\ after.streamed = flow.streamed /\ after.pending = flow.pending
  <2>1. flow.run \in Nat /\ flow.events \in Nat /\ flow.pending \in Seq(Waited)
        /\ flow.streamed \in FlowStatus \cup {"unknown"}
    BY <1>3 DEF Flow
  <2>2. after = [run |-> flow.run, status |-> status, events |-> flow.events + 1,
                 pending |-> flow.pending, streamed |-> flow.streamed]
    BY <1>2, <1>3 DEF Flow
  <2>3. flow.events + 1 \in Nat
    BY <2>1
  <2>4. after \in Flow
    BY <2>1, <2>2, <2>3 DEF Flow
  <2> QED
    BY <2>1, <2>2, <2>4
<1>5. workflows' = [workflows EXCEPT ![w] = after]
  BY <1>1, <1>2, <1>3 DEF BackendInv, BackendTyped
<1>6. /\ DOMAIN workflows' = DOMAIN workflows /\ workflows'[w] = after
      /\ \A v \in DOMAIN workflows : v # w => workflows'[v] = workflows[v]
      /\ workflows' \in [DOMAIN workflows' -> Flow]
  BY <1>3, <1>4, <1>5 DEF BackendInv, BackendTyped
<1>7. Grows
  <2>1. workflows'[w].run = workflows[w].run /\ workflows[w].events < workflows'[w].events
    BY ONLY <1>1, <1>4, <1>6
  <2>2. workflows[w].events \in Nat
    BY ONLY <1>1, <1>4
  <2>3. ASSUME NEW v \in DOMAIN workflows
        PROVE  /\ workflows'[v].run = workflows[v].run /\ workflows[v].events <= workflows'[v].events
               /\ workflows'[v].events = workflows[v].events => workflows'[v].status = workflows[v].status
    <3>1. CASE v = w
      <4>1. workflows'[w].events \in Nat
        BY ONLY <1>4, <1>6
      <4> QED
        BY ONLY <2>1, <2>2, <3>1, <4>1
    <3>2. CASE v # w
      <4>1. workflows'[v] = workflows[v]
        BY ONLY <1>6, <2>3, <3>2
      <4>2. workflows[v].events \in Nat
        BY ONLY <2>3, BackendInv DEF BackendInv, BackendTyped, Flow
      <4> QED
        BY ONLY <4>1, <4>2
    <3> QED
      BY ONLY <3>1, <3>2
  <2> QED
    BY ONLY <1>6, <2>3 DEF Grows
<1>8. BackendTyped'
  <2>1. /\ place' \in [Thread -> Nat] /\ phase' \in [Thread -> {"ready", "waits", "looks", "tells"}]
        /\ phase'[t] = "ready" /\ \A u \in Thread : u # t => phase'[u] = phase[u] /\ place'[u] = place[u]
    BY GoesOnTyped DEF BackendInv
  <2>2. BackendTyped /\ UNCHANGED <<runCounter, held, returned, emitted, changes, told, ended>>
        /\ UNCHANGED <<service, past, signals>>
    BY DEF BackendInv, Rest, PollFrame
  <2>3. ASSUME NEW u \in Thread
        PROVE  /\ phase'[u] = "waits" => Known(held[u])'
               /\ phase'[u] \in {"looks", "tells"} => place'[u] \in DOMAIN service'.calls[u]
    <3>1. CASE u = t
      BY ONLY <2>1, <3>1
    <3>2. CASE u # t
      <4>1. phase'[u] = phase[u] /\ place'[u] = place[u]
        BY ONLY <2>1, <2>3, <3>2
      <4>2. /\ phase[u] = "waits" => Known(held[u])
            /\ phase[u] \in {"looks", "tells"} => place[u] \in DOMAIN service.calls[u]
        BY ONLY <2>2, <2>3 DEF BackendTyped
      <4> QED
        BY ONLY <1>6, <2>2, <4>1, <4>2 DEF Known
    <3> QED
      BY ONLY <3>1, <3>2
  <2> QED
    BY ONLY <1>6, <2>1, <2>2, <2>3 DEF BackendTyped
<1>9. NoSignal
  <2>1. Pending' = Pending
    BY <1>1, <1>4, <1>6 DEF Pending, Known, PollFrame
  <2> QED
    BY <2>1 DEF NoSignal, Rest, PollFrame
<1>10. NoLook
  BY <1>1, <1>4, <1>6 DEF NoLook, Rest
<1>11. NoTelling
  BY GoesOnTyped DEF NoTelling, Rest, BackendInv
<1>12. AnswersOne
  BY DEF AnswersOne
<1> QED
  BY <1>6, <1>7, <1>8, <1>9, <1>10, <1>11, <1>12, GrownRuns, GrownAnswers, QuietLine, QuietSeen,
     QuietTold DEF BackendInv, PollPlace, PollFrame

LEMMA ChangesKeeps ==
  ASSUME BackendInv, PollFrame, NEW t \in Thread, Changes(t)
  PROVE  BackendInv'
<1>1. phase[t] = "ready"
  BY DEF Changes, Calls
<1>2. CASE Known(Asked(t).id)
  <2>1. PICK w, status : w = Asked(t).id /\ status = Asked(t).status
    OBVIOUS
  <2>2. status \in FlowStatus
    BY <2>1, AskedTyped DEF Changes, Calls, BackendInv
  <2> QED
    BY <1>1, <1>2, <2>1, <2>2, EventKeeps DEF Changes
<1>3. CASE ~Known(Asked(t).id)
  BY <1>1, <1>3, NotFoundKeeps DEF Changes
<1> QED
  BY <1>2, <1>3

LEMMA SignalsKeeps ==
  ASSUME BackendInv, PollFrame, NEW t \in Thread, Signals(t)
  PROVE  BackendInv'
<1>1. phase[t] = "ready"
  BY DEF Signals, Calls
<1>2. CASE Known(Asked(t).id)
  <2>1. PICK w, status : w = Asked(t).id /\ status = workflows[w].status
    OBVIOUS
  <2>2. status \in FlowStatus /\ workflows[w] \in Flow /\ w \in DOMAIN workflows
    BY <1>2, <2>1 DEF BackendInv, BackendTyped, Known, Flow
  <2>3. [workflows EXCEPT ![w].events = @ + 1]
          = [workflows EXCEPT ![w].status = status, ![w].events = @ + 1]
    <3>1. [workflows[w] EXCEPT !.events = @ + 1] = [workflows[w] EXCEPT !.status = status, !.events = @ + 1]
      BY <2>1, <2>2 DEF Flow
    <3>2. [workflows EXCEPT ![w].events = @ + 1] = [workflows EXCEPT ![w] = [workflows[w] EXCEPT !.events = @ + 1]]
      BY <2>2
    <3>3. [workflows EXCEPT ![w].status = status, ![w].events = @ + 1]
            = [workflows EXCEPT ![w] = [workflows[w] EXCEPT !.status = status, !.events = @ + 1]]
      BY <2>2 DEF BackendInv, BackendTyped
    <3> QED
      BY <3>1, <3>2, <3>3
  <2> QED
    BY <1>1, <1>2, <2>1, <2>2, <2>3, EventKeeps DEF Signals
<1>3. CASE ~Known(Asked(t).id)
  BY <1>1, <1>3, NotFoundKeeps DEF Signals
<1> QED
  BY <1>2, <1>3

LEMMA OnSignalKeeps ==
  ASSUME BackendInv, PollFrame, NEW t \in Thread, OnSignal(t)
  PROVE  BackendInv'
<1>1. phase[t] = "ready" /\ GoesOn(t) /\ UNCHANGED <<workflows, runCounter, held>> /\ UNCHANGED historyVars
  BY DEF OnSignal, Calls, flowVars
<1>2. UNCHANGED <<returned, emitted, changes, told, ended>> /\ handlers \subseteq handlers'
  BY <1>1 DEF OnSignal, historyVars
<1>3. BackendTyped'
  BY <1>1, <1>2, GoesOnTyped DEF BackendInv, BackendTyped, PollFrame, Known
<1>4. NoSignal /\ NoLook
  BY <1>1, <1>2 DEF NoSignal, NoLook, PollFrame, Pending, Known
<1>5. NoTelling
  BY <1>1, <1>2, GoesOnTyped DEF NoTelling, BackendInv
<1>6. Grows /\ AnswersOne
  BY <1>1, <1>2 DEF Grows, AnswersOne, BackendInv, BackendTyped, Flow
<1> QED
  BY <1>1, <1>3, <1>4, <1>5, <1>6, GrownRuns, GrownAnswers, QuietLine, QuietSeen, QuietTold
     DEF BackendInv, PollPlace, PollFrame

LEMMA StreamBeginsKeeps ==
  ASSUME BackendInv, PollFrame, NEW t \in Thread, StreamBegins(t)
  PROVE  BackendInv'
<1>1. /\ phase[t] = "ready" /\ phase' = [phase EXCEPT ![t] = "looks"]
      /\ place[t] \in DOMAIN service.calls[t]
      /\ UNCHANGED <<workflows, runCounter, place, held, handlers, returned, emitted, changes, told, ended>>
  BY DEF StreamBegins, Calls, StreamFrame
<1>2. BackendTyped'
  BY <1>1 DEF BackendInv, BackendTyped, PollFrame, Known
<1>3. TellersStay
  BY <1>1 DEF TellersStay, BackendInv, BackendTyped
<1> QED
  BY <1>1, <1>2, <1>3, PlaceKeeps DEF flowVars, Rest

LEMMA StreamStopsKeeps ==
  ASSUME BackendInv, PollFrame, NEW t \in Thread, StreamStops(t)
  PROVE  BackendInv'
<1>1. /\ phase[t] = "looks" /\ GoesOn(t)
      /\ UNCHANGED <<workflows, runCounter, held, handlers, returned, emitted, changes, told, ended>>
  BY DEF StreamStops, StreamFrame
<1>2. NotFound(t)
  BY <1>1 DEF NotFound, flowVars, historyVars
<1> QED
  BY <1>1, <1>2, NotFoundKeeps

LEMMA EmitsSignalKeeps ==
  ASSUME BackendInv, PollFrame, NEW t \in Thread, EmitsSignal(t)
  PROVE  BackendInv'
<1>1. phase[t] = "ready"
  BY DEF EmitsSignal, Calls
<1>2. CASE ~Known(Asked(t).id)
  BY <1>1, <1>2, NotFoundKeeps DEF EmitsSignal
<1>3. CASE Known(Asked(t).id)
  <2>1. PICK w, name, n : w = Asked(t).id /\ name = Asked(t).name /\ n = Len(emitted)
    OBVIOUS
  <2>2. PICK signal : signal = [name |-> name, number |-> n + 1]
    OBVIOUS
  <2>3. name \in STRING /\ w \in DOMAIN workflows /\ n \in Nat /\ emitted \in Seq([name : STRING, expected : BOOLEAN])
    BY <1>3, <2>1, AskedTyped DEF EmitsSignal, Calls, BackendInv, BackendTyped, Known
  <2>4. /\ workflows' = [workflows EXCEPT ![w].pending = Append(@, signal)]
        /\ emitted' = IF w = service.watched
                        THEN Append(emitted, [name |-> name, expected |-> name \in handlers])
                        ELSE emitted
        /\ GoesOn(t) /\ UNCHANGED <<runCounter, held, returned, handlers, changes, told, ended>>
    BY <1>3, <2>1, <2>2 DEF EmitsSignal
  <2>5. PICK flow, after : flow = workflows[w] /\ after = [flow EXCEPT !.pending = Append(@, signal)]
    OBVIOUS
  <2>6. /\ flow \in Flow /\ signal \in Waited /\ after \in Flow /\ after.run = flow.run
        /\ after.events = flow.events /\ after.status = flow.status /\ after.streamed = flow.streamed
        /\ flow.pending \in Seq(Waited) /\ after.pending = Append(flow.pending, signal)
    <3>1. flow \in Flow /\ signal \in Waited
      BY <2>2, <2>3, <2>5 DEF BackendInv, BackendTyped, Waited
    <3>2. flow.pending \in Seq(Waited)
      BY <3>1 DEF Flow
    <3>3. Append(flow.pending, signal) \in Seq(Waited)
      BY <3>1, <3>2, AppendProperties
    <3> QED
      BY <2>5, <3>1, <3>2, <3>3 DEF Flow
  <2>7. workflows' = [workflows EXCEPT ![w] = after]
    BY <2>3, <2>4, <2>5 DEF BackendInv, BackendTyped
  <2>8. /\ DOMAIN workflows' = DOMAIN workflows /\ workflows'[w] = after
        /\ \A v \in DOMAIN workflows : v # w => workflows'[v] = workflows[v]
        /\ workflows' \in [DOMAIN workflows' -> Flow]
    BY <2>3, <2>6, <2>7 DEF BackendInv, BackendTyped
  <2>9. Grows
    <3>1. \A v \in DOMAIN workflows : workflows[v].events \in Int
      BY DEF BackendInv, BackendTyped, Flow
    <3>2. \A v \in DOMAIN workflows : v # w => workflows'[v] = workflows[v]
      BY <2>8
    <3>3. /\ workflows'[w].run = workflows[w].run /\ workflows'[w].events = workflows[w].events
          /\ workflows'[w].status = workflows[w].status
      BY <2>5, <2>6, <2>8
    <3> QED
      BY <2>3, <2>8, <3>1, <3>2, <3>3 DEF Grows
  <2>10. PICK last : last = [name |-> name, expected |-> name \in handlers]
    OBVIOUS
  <2>11. last \in [name : STRING, expected : BOOLEAN] /\ (last.expected => name \in handlers)
    <3>1. (name \in handlers) \in BOOLEAN
      OBVIOUS
    <3>2. last \in [name : STRING, expected : BOOLEAN]
      BY <2>3, <2>10, <3>1
    <3>3. last.expected = (name \in handlers)
      BY <2>10
    <3> QED
      BY <3>2, <3>3
  <2>12. /\ emitted' = IF w = service.watched THEN Append(emitted, last) ELSE emitted
         /\ emitted' \in Seq([name : STRING, expected : BOOLEAN])
    <3>1. emitted' = IF w = service.watched THEN Append(emitted, last) ELSE emitted
      BY <2>4, <2>10
    <3> QED
      BY <2>3, <2>11, <3>1, AppendProperties
  <2>13. BackendTyped'
    BY <2>4, <2>8, <2>12, GoesOnTyped DEF BackendInv, BackendTyped, PollFrame, Known
  <2>14. NoLook /\ NoTelling /\ AnswersOne
    BY <2>4, <2>5, <2>6, <2>8, GoesOnTyped, <1>1 DEF NoLook, NoTelling, AnswersOne, BackendInv
  <2>15. InLine'
    <3>1. CASE w # service.watched
      <4>1. Pending' = Pending
        BY <2>8, <3>1 DEF Pending, Known, PollFrame
      <4>2. NoSignal
        BY <2>4, <3>1, <4>1 DEF NoSignal, PollFrame
      <4> QED
        BY <4>2, QuietLine DEF BackendInv
    <3>2. CASE w = service.watched
      <4>1. PICK p, a : p = Pending /\ a = Len(past) + Len(signals)
        OBVIOUS
      <4>2. p = flow.pending /\ Pending' = Append(p, signal)
        BY <2>3, <2>5, <2>6, <2>8, <3>2, <4>1 DEF Pending, Known, PollFrame
      <4>3. /\ p \in Seq(Waited) /\ past \in Seq([number : Nat, handled : BOOLEAN]) /\ signals \in Seq(Waited)
            /\ Len(past) + Len(signals) + Len(p) = n /\ InStep(past, 0) /\ InStep(signals, Len(past))
            /\ InStep(p, a)
        BY <2>1, <2>6, <4>1, <4>2 DEF BackendInv, BackendTyped, InLine
      <4>4. /\ Len(past) \in Nat /\ Len(signals) \in Nat /\ Len(p) \in Nat /\ a \in Nat /\ a + Len(p) = n
            /\ Len(Append(p, signal)) = Len(p) + 1 /\ Append(p, signal)[Len(p) + 1] = signal
            /\ DOMAIN Append(p, signal) = 1..Len(p) + 1 /\ DOMAIN p = 1..Len(p)
            /\ \A i \in 1..Len(p) : Append(p, signal)[i] = p[i]
        BY <2>6, <4>1, <4>3, AppendProperties
      <4>5. /\ Len(emitted') = n + 1 /\ emitted'[n + 1] = last
            /\ \A i \in 1..n : emitted'[i] = emitted[i]
        BY <2>1, <2>3, <2>11, <2>12, <3>2, AppendProperties
      <4>6. Len(past) + Len(signals) + Len(Pending') = Len(emitted')
        <5>1. Len(Pending') = Len(p) + 1 /\ Len(past) + Len(signals) = a
          BY <4>1, <4>2, <4>4
        <5> QED
          BY <4>4, <4>5, <5>1
      <4>7. InStep(Append(p, signal), a)
        <5> SUFFICES ASSUME NEW i \in 1..Len(p) + 1 PROVE Append(p, signal)[i].number = a + i
          BY <4>4 DEF InStep
        <5>1. CASE i \in 1..Len(p)
          BY <4>3, <4>4, <5>1 DEF InStep
        <5>2. CASE i = Len(p) + 1
          <6>1. a + i = n + 1
            BY <4>4, <5>2
          <6> QED
            BY <2>2, <4>4, <5>2, <6>1
        <5> QED
          BY <4>4, <5>1, <5>2
      <4>8. Hopes(signals)'
        <5>1. \A i \in DOMAIN signals : signals[i].number \in 1..n
          BY <4>3, <4>4 DEF InStep
        <5> QED
          BY <2>4, <4>5, <5>1 DEF Hopes, PollFrame, BackendInv, InLine
      <4>9. Hopes(Append(p, signal))'
        <5> SUFFICES ASSUME NEW i \in 1..Len(p) + 1, emitted'[Append(p, signal)[i].number].expected
                     PROVE  Append(p, signal)[i].name \in handlers
          BY <2>4, <4>4 DEF Hopes
        <5>1. CASE i \in 1..Len(p)
          <6>1. p[i].number \in 1..n /\ Append(p, signal)[i] = p[i]
            BY <4>3, <4>4, <5>1 DEF InStep
          <6>2. Hopes(p)
            BY <4>1 DEF BackendInv, InLine
          <6>3. emitted[p[i].number].expected
            BY <4>5, <6>1
          <6> QED
            BY ONLY <4>4, <5>1, <6>1, <6>2, <6>3 DEF Hopes
        <5>2. CASE i = Len(p) + 1
          <6>1. Append(p, signal)[i] = signal /\ signal.number = n + 1 /\ signal.name = name
            BY <2>2, <4>4, <5>2
          <6>2. last.expected
            BY <4>5, <6>1
          <6> QED
            BY <2>11, <6>1, <6>2
        <5> QED
          BY <4>4, <5>1, <5>2
      <4>10. \A i \in DOMAIN past : emitted'[i].expected => past[i].handled
        <5>1. \A i \in DOMAIN past : i \in 1..n
          BY <4>3, <4>4
        <5> QED
          BY <4>5, <5>1 DEF BackendInv, InLine
      <4> QED
        BY <4>1, <4>2, <4>3, <4>6, <4>7, <4>8, <4>9, <4>10 DEF InLine, PollFrame, InStep
    <3> QED
      BY <3>1, <3>2
  <2> QED
    BY <2>4, <2>8, <2>9, <2>13, <2>14, <2>15, GrownRuns, GrownAnswers, QuietSeen, QuietTold
       DEF BackendInv, PollPlace, PollFrame
<1> QED
  BY <1>2, <1>3

\* The workflow that a look remembers the status of.
LEMMA LookFlows ==
  ASSUME BackendTyped, NEW w, Known(w), NEW status, status = workflows[w].status,
         workflows' = [workflows EXCEPT ![w].streamed = status]
  PROVE  /\ DOMAIN workflows' = DOMAIN workflows /\ workflows' \in [DOMAIN workflows' -> Flow]
         /\ \A v \in DOMAIN workflows :
              /\ workflows'[v].run = workflows[v].run /\ workflows'[v].events = workflows[v].events
              /\ workflows'[v].status = workflows[v].status /\ workflows'[v].pending = workflows[v].pending
         /\ \A v \in DOMAIN workflows : v # w => workflows'[v] = workflows[v]
         /\ workflows'[w].streamed = status /\ w \in FlowName /\ w \in DOMAIN workflows
         /\ status \in FlowStatus
<1>1. PICK flow, after : flow = workflows[w] /\ after = [flow EXCEPT !.streamed = status]
  OBVIOUS
<1>2. flow \in Flow /\ w \in DOMAIN workflows /\ w \in FlowName
  BY <1>1 DEF BackendTyped, Known
<1>3. /\ after \in Flow /\ after.run = flow.run /\ after.events = flow.events /\ after.status = flow.status
      /\ after.pending = flow.pending /\ after.streamed = status /\ status \in FlowStatus
  BY <1>1, <1>2 DEF Flow
<1>4. workflows' = [workflows EXCEPT ![w] = after]
  BY <1>1, <1>2 DEF BackendTyped
<1>5. /\ DOMAIN workflows' = DOMAIN workflows /\ workflows'[w] = after
      /\ \A v \in DOMAIN workflows : v # w => workflows'[v] = workflows[v]
      /\ workflows' \in [DOMAIN workflows' -> Flow]
  BY <1>2, <1>3, <1>4 DEF BackendTyped
<1> QED
  BY <1>1, <1>2, <1>3, <1>5

LEMMA StreamLooksKeeps ==
  ASSUME BackendInv, PollFrame, NEW t \in Thread, StreamLooks(t)
  PROVE  BackendInv'
<1> USE DEF BackendInv
<1>1. PICK w, status, n : w = Asked(t).id /\ status = workflows[w].status /\ n = Len(changes)
  OBVIOUS
<1>2. /\ phase[t] = "looks" /\ Known(w) /\ workflows' = [workflows EXCEPT ![w].streamed = status]
      /\ UNCHANGED <<runCounter, handlers, returned, emitted, told>>
  BY <1>1 DEF StreamLooks, StreamFrame
<1>3. /\ DOMAIN workflows' = DOMAIN workflows /\ workflows' \in [DOMAIN workflows' -> Flow]
      /\ \A v \in DOMAIN workflows :
           /\ workflows'[v].run = workflows[v].run /\ workflows'[v].events = workflows[v].events
           /\ workflows'[v].status = workflows[v].status /\ workflows'[v].pending = workflows[v].pending
      /\ \A v \in DOMAIN workflows : v # w => workflows'[v] = workflows[v]
      /\ workflows'[w].streamed = status /\ w \in FlowName /\ w \in DOMAIN workflows
      /\ status \in FlowStatus
  <2>1. BackendTyped /\ status = workflows[w].status
    BY <1>1
  <2> QED
    BY ONLY <1>2, <2>1, LookFlows
<1>4. Grows
  <2>1. \A v \in DOMAIN workflows : workflows[v].events \in Int
    BY DEF BackendTyped, Flow
  <2> QED
    BY <1>3, <2>1 DEF Grows
<1>5. NoSignal /\ AnswersOne
  <2>1. Pending' = Pending
    BY <1>3 DEF Pending, Known, PollFrame
  <2> QED
    BY <1>2, <2>1 DEF NoSignal, AnswersOne, PollFrame
<1>6. PICK c : c = [id |-> w, status |-> status]
  OBVIOUS
<1>7. c \in StatusChange /\ c.id = w /\ c.status = status
  BY <1>3, <1>6 DEF StatusChange
<1>8. CASE status # workflows[w].streamed
  <2>1. /\ changes' = Append(changes, c) /\ held' = [held EXCEPT ![t] = n + 1]
        /\ phase' = [phase EXCEPT ![t] = "tells"] /\ UNCHANGED <<place, ended>>
    BY <1>1, <1>6, <1>8 DEF StreamLooks
  <2>2. /\ changes \in Seq(StatusChange) /\ n \in Nat /\ DOMAIN changes = 1..n
    BY <1>1 DEF BackendTyped
  <2>3. /\ changes' \in Seq(StatusChange) /\ DOMAIN changes' = 1..n + 1 /\ changes'[n + 1] = c
        /\ \A i \in 1..n : changes'[i] = changes[i]
    BY <1>1, <1>7, <2>1, <2>2, AppendProperties
  <2>4. ToSet(changes') = ToSet(changes) \cup {c}
    BY <1>7, <2>1, <2>2, ElementAppended
  <2>5. BackendTyped'
    BY <1>2, <1>3, <2>1, <2>3 DEF BackendTyped, PollFrame, Known
  <2>6. Seen'
    <3>1. ASSUME NEW i \in 1..n, ~(changes[i].status = workflows'[changes[i].id].streamed)
          PROVE  Followed(i)'
      <4>1. Known(changes[i].id) /\ (changes[i].status = workflows[changes[i].id].streamed \/ Followed(i))
        BY <2>2 DEF Seen
      <4>2. CASE Followed(i)
        BY <2>2, <2>3, <4>2 DEF Followed
      <4>3. CASE changes[i].status = workflows[changes[i].id].streamed /\ changes[i].id = w
        <5>1. changes[i] # c
          BY <1>7, <1>8, <4>3
        <5>2. n + 1 \in DOMAIN changes' /\ i < n + 1
          BY <2>2, <2>3
        <5> QED
          BY <1>7, <2>3, <4>3, <5>1, <5>2 DEF Followed
      <4> QED
        BY <1>3, <3>1, <4>1, <4>2, <4>3 DEF Known
    <3>2. \A i \in 1..n + 1 : changes'[i].id \in DOMAIN workflows'
      <4>1. \A i \in 1..n + 1 : i \in 1..n \/ i = n + 1
        BY <2>2
      <4>2. \A i \in 1..n : changes[i].id \in DOMAIN workflows
        BY <2>2 DEF Seen, Known
      <4> QED
        BY <1>3, <1>7, <2>3, <4>1, <4>2
    <3>3. c.status = workflows'[c.id].streamed
      BY <1>3, <1>7
    <3>4. ASSUME NEW v \in DOMAIN workflows', workflows'[v].streamed # "unknown"
          PROVE  [id |-> v, status |-> workflows'[v].streamed] \in ToSet(changes')
      <4>1. CASE v = w
        BY <1>3, <1>6, <2>4, <4>1
      <4>2. CASE v # w
        BY <1>3, <2>4, <3>4, <4>2 DEF Seen
      <4> QED
        BY <4>1, <4>2
    <3>5. ASSUME NEW i \in 1..n + 1, NEW j \in 1..n + 1, i < j, changes'[i] = changes'[j]
          PROVE  \E k \in i..j : changes'[k].id = changes'[i].id /\ changes'[k] # changes'[i]
      <4>1. i \in 1..n
        BY <2>2, <3>5
      <4>2. CASE j \in 1..n
        <5>1. PICK k \in i..j : changes[k].id = changes[i].id /\ changes[k] # changes[i]
          BY <2>2, <2>3, <3>5, <4>1, <4>2 DEF Seen
        <5>2. k \in 1..n
          BY <2>2, <4>1, <4>2
        <5> QED
          BY <2>3, <4>1, <5>1, <5>2
      <4>3. CASE j = n + 1
        <5>1. changes[i] = c /\ changes[i].status # workflows[changes[i].id].streamed
          BY <1>7, <1>8, <2>3, <3>5, <4>1, <4>3
        <5>2. PICK k \in DOMAIN changes : i < k /\ changes[k].id = changes[i].id /\ changes[k] # changes[i]
          BY <2>2, <4>1, <5>1 DEF Seen, Followed
        <5>3. k \in i..j /\ k \in 1..n
          BY <2>2, <4>1, <4>3, <5>2
        <5> QED
          BY <2>3, <4>1, <5>2, <5>3
      <4> QED
        BY <2>2, <4>2, <4>3
    <3>6. \A i \in 1..n + 1 : changes'[i].status = workflows'[changes'[i].id].streamed \/ Followed(i)'
      <4>1. \A i \in 1..n + 1 : i \in 1..n \/ i = n + 1
        BY <2>2
      <4> QED
        BY <2>3, <3>1, <3>3, <4>1
    <3> QED
      BY <2>3, <3>2, <3>4, <3>5, <3>6 DEF Seen, Known
  <2>7. ToldOnceEach'
    <3>1. phase'[t] = "tells" /\ held'[t] = n + 1
          /\ \A u \in Thread : u # t => phase'[u] = phase[u] /\ held'[u] = held[u]
      BY <2>1 DEF BackendTyped
    <3>2. ToSet(told) \subseteq 1..n /\ n + 1 \notin 1..n /\ 1..n + 1 = 1..n \cup {n + 1}
      BY <2>2 DEF ToldOnceEach
    <3>3. \A u \in Thread : phase[u] = "tells" => held[u] \in 1..n
      BY <2>2 DEF ToldOnceEach
    <3>4. \A i \in 1..n : OnTheWay(i) => OnTheWay(i)'
      BY <1>2, <3>1 DEF OnTheWay
    <3>5. OnTheWay(n + 1)'
      BY <3>1 DEF OnTheWay
    <3>6. \A u \in Thread : phase'[u] = "tells" => held'[u] \in 1..n + 1 /\ held'[u] \notin ToSet(told)
      BY <1>2, <3>1, <3>2, <3>3 DEF ToldOnceEach
    <3>7. \A u, v \in Thread : phase'[u] = "tells" /\ phase'[v] = "tells" /\ held'[u] = held'[v] => u = v
      BY <1>2, <3>1, <3>2, <3>3 DEF ToldOnceEach
    <3>8. \A i \in 1..n + 1 : i \in ToSet(told) \/ OnTheWay(i)'
      BY <2>2, <3>2, <3>4, <3>5 DEF ToldOnceEach
    <3>9. IsInjective(told) /\ ended \subseteq ToSet(changes') /\ ToSet(told) \subseteq 1..n + 1
      BY <2>4, <3>2 DEF ToldOnceEach
    <3> QED
      BY <1>2, <2>1, <2>3, <3>6, <3>7, <3>8, <3>9 DEF ToldOnceEach
  <2> QED
    BY <1>2, <1>3, <1>4, <1>5, <2>5, <2>6, <2>7, GrownRuns, GrownAnswers, QuietLine
       DEF PollPlace, PollFrame
<1>9. CASE status = workflows[w].streamed
  <2>1. /\ status \in LastStatus /\ ended' = ended \cup {c} /\ GoesOn(t) /\ UNCHANGED <<held, changes>>
    BY <1>1, <1>6, <1>9 DEF StreamLooks
  <2>2. BackendTyped'
    <3>1. /\ place' \in [Thread -> Nat] /\ phase' \in [Thread -> {"ready", "waits", "looks", "tells"}]
          /\ phase'[t] = "ready" /\ \A u \in Thread : u # t => phase'[u] = phase[u] /\ place'[u] = place[u]
      BY <2>1, GoesOnTyped
    <3>2. ended' \subseteq StatusChange
      BY <1>7, <2>1 DEF BackendTyped
    <3> QED
      BY <1>2, <1>3, <2>1, <3>1, <3>2 DEF BackendTyped, PollFrame, Known
  <2>3. NoLook
    BY <1>3, <1>9, <2>1 DEF NoLook
  <2>4. c \in ToSet(changes)
    <3>1. status # "unknown"
      BY <2>1 DEF LastStatus
    <3> QED
      BY <1>3, <1>6, <1>9, <3>1 DEF Seen
  <2>5. ToldOnceEach'
    <3>1. TellersStay
      BY <1>2, <2>1, GoesOnTyped DEF TellersStay
    <3>2. \A i : OnTheWay(i)' <=> OnTheWay(i)
      BY <3>1 DEF TellersStay, OnTheWay
    <3> QED
      BY <1>2, <2>1, <2>4, <3>1, <3>2 DEF ToldOnceEach, TellersStay
  <2> QED
    BY <1>2, <1>3, <1>4, <1>5, <2>2, <2>3, <2>5, GrownRuns, GrownAnswers, QuietLine, QuietSeen
       DEF PollPlace, PollFrame
<1> QED
  BY <1>8, <1>9

LEMMA StreamTellsKeeps ==
  ASSUME BackendInv, PollFrame, NEW t \in Thread, StreamTells(t)
  PROVE  BackendInv'
<1> USE DEF BackendInv
<1>1. PICK h, change : h = held[t] /\ change = changes[h]
  OBVIOUS
<1>2. /\ phase[t] = "tells" /\ told' = Append(told, h)
      /\ UNCHANGED <<workflows, held, changes, runCounter, handlers, returned, emitted>>
      /\ \/ ended' = ended \cup {change} /\ GoesOn(t)
         \/ phase' = [phase EXCEPT ![t] = "looks"] /\ UNCHANGED <<place, ended>>
  BY <1>1 DEF StreamTells, StreamFrame
<1>3. h \in DOMAIN changes /\ h \notin ToSet(told) /\ changes \in Seq(StatusChange) /\ told \in Seq(Nat)
  BY <1>1, <1>2 DEF ToldOnceEach, BackendTyped
<1>4. h \in Nat /\ change \in StatusChange /\ change \in ToSet(changes)
  BY <1>1, <1>3 DEF ToSet
<1>5. told' \in Seq(Nat) /\ ToSet(told') = ToSet(told) \cup {h} /\ IsInjective(told')
  BY <1>2, <1>3, <1>4, ElementAppended DEF ToldOnceEach
<1>6. /\ phase' \in [Thread -> {"ready", "waits", "looks", "tells"}] /\ place' \in [Thread -> Nat]
      /\ phase'[t] \in {"ready", "looks"} /\ \A u \in Thread : u # t => phase'[u] = phase[u] /\ place'[u] = place[u]
      /\ phase'[t] = "looks" => place' = place
  BY <1>2, GoesOnTyped DEF BackendTyped
<1>7. ended' \subseteq StatusChange /\ ended' \subseteq ToSet(changes)
  BY <1>2, <1>4 DEF BackendTyped, ToldOnceEach
<1>9. place[t] \in DOMAIN service.calls[t]
  BY <1>2 DEF BackendTyped
<1>10. BackendTyped'
  BY <1>2, <1>5, <1>6, <1>7, <1>9 DEF BackendTyped, PollFrame, Known
<1>11. Grows /\ NoSignal /\ NoLook /\ AnswersOne
  BY <1>2 DEF Grows, NoSignal, NoLook, AnswersOne, PollFrame, Pending, Known, BackendTyped, Flow
<1>12. ToldOnceEach'
  <2>1. \A u \in Thread : phase'[u] = "tells" => u # t /\ phase[u] = "tells"
    BY <1>6
  <2>2. \A u \in Thread : u # t /\ phase[u] = "tells" => held[u] # h
    BY <1>1, <1>2 DEF ToldOnceEach
  <2>3. \A i : OnTheWay(i) => i = h \/ OnTheWay(i)'
    <3> SUFFICES ASSUME NEW i, NEW u \in Thread, phase[u] = "tells", held[u] = i, i # h
                 PROVE  OnTheWay(i)'
      BY DEF OnTheWay
    <3>1. u # t
      BY <1>1
    <3> QED
      BY <1>2, <1>6, <3>1 DEF OnTheWay
  <2> QED
    BY <1>2, <1>3, <1>5, <1>7, <2>1, <2>2, <2>3 DEF ToldOnceEach
<1> QED
  BY <1>2, <1>10, <1>11, <1>12, GrownRuns, GrownAnswers, QuietLine, QuietSeen DEF PollPlace, PollFrame

LEMMA ThreadsKeep ==
  ASSUME BackendInv, PollFrame, TemporalNext
  PROVE  BackendInv'
BY StartsKeeps, PollsKeeps, StopsWaitingKeeps, SignalsKeeps, QueriesKeeps, ChangesKeeps, EmitsSignalKeeps,
   OnSignalKeeps, StreamBeginsKeeps, StreamStopsKeeps, StreamLooksKeeps, StreamTellsKeeps DEF TemporalNext

-----------------------------------------------------------------------------
(* The polls of the channel.                                                *)

LEMMA TakesKeeps ==
  ASSUME BackendInv, Takes, UNCHANGED polling
  PROVE  BackendInv'
<1> USE DEF BackendInv
<1>1. PICK w : w = service.watched
  OBVIOUS
<1>2. /\ poll = "take" /\ signals = <<>> /\ signals' = Pending /\ poll' = "hand"
      /\ workflows' = IF Known(w) THEN [workflows EXCEPT ![w] = [@ EXCEPT !.pending = <<>>]] ELSE workflows
      /\ UNCHANGED <<service, runCounter, place, phase, held, handlers, past, returned, emitted,
                     changes, told, ended>>
  BY <1>1 DEF Takes, Consumed, Consumes, Emptied, Pending, historyVars, PollPlace
<1>3. Pending \in Seq(Waited)
  <2>1. Known(service.watched) => workflows[service.watched] \in Flow
    BY DEF BackendTyped, Known
  <2>2. <<>> \in Seq(Waited)
    OBVIOUS
  <2> QED
    BY <2>1, <2>2 DEF Pending, Flow
<1>4. /\ DOMAIN workflows' = DOMAIN workflows /\ workflows' \in [DOMAIN workflows' -> Flow]
      /\ \A v \in DOMAIN workflows :
           /\ workflows'[v].run = workflows[v].run /\ workflows'[v].events = workflows[v].events
           /\ workflows'[v].status = workflows[v].status /\ workflows'[v].streamed = workflows[v].streamed
      /\ Known(w) => workflows'[w].pending = <<>>
  <2>1. CASE ~Known(w)
    BY <1>2, <2>1 DEF BackendTyped
  <2>2. CASE Known(w)
    <3>1. PICK flow, after : flow = workflows[w] /\ after = [flow EXCEPT !.pending = <<>>]
      OBVIOUS
    <3>2. flow \in Flow /\ w \in DOMAIN workflows /\ <<>> \in Seq(Waited)
      BY <2>2, <3>1 DEF BackendTyped, Known
    <3>3. /\ after \in Flow /\ after.run = flow.run /\ after.events = flow.events
          /\ after.status = flow.status /\ after.streamed = flow.streamed /\ after.pending = <<>>
      BY <3>1, <3>2 DEF Flow
    <3>4. workflows' = [workflows EXCEPT ![w] = after]
      BY <1>2, <2>2, <3>1, <3>2
    <3>5. /\ DOMAIN workflows' = DOMAIN workflows /\ workflows'[w] = after
          /\ \A v \in DOMAIN workflows : v # w => workflows'[v] = workflows[v]
          /\ workflows' \in [DOMAIN workflows' -> Flow]
      BY <3>2, <3>3, <3>4 DEF BackendTyped
    <3> QED
      BY <3>1, <3>2, <3>3, <3>5
  <2> QED
    BY <2>1, <2>2
<1>5. BackendTyped'
  BY <1>2, <1>3, <1>4 DEF BackendTyped, Known
<1>6. Grows /\ AnswersOne
  <2>1. \A v \in DOMAIN workflows : workflows[v].events \in Int
    BY DEF BackendTyped, Flow
  <2> QED
    BY <1>2, <1>4, <2>1 DEF Grows, AnswersOne
<1>7. NoLook /\ NoTelling
  BY <1>2, <1>4 DEF NoLook, NoTelling
<1>8. PollPlace'
  BY <1>2 DEF PollPlace
<1>9. InLine'
  <2>1. Pending' = <<>>
    BY <1>1, <1>2, <1>4 DEF Pending, Known
  <2>2. PICK p, a : p = Pending /\ a = Len(past)
    OBVIOUS
  <2>3. /\ p \in Seq(Waited) /\ a \in Nat /\ Len(p) \in Nat /\ Len(signals) = 0
        /\ a + Len(p) = Len(emitted) /\ InStep(p, a) /\ InStep(past, 0) /\ Hopes(p)
    <3>1. a \in Nat /\ Len(p) \in Nat /\ Len(signals) = 0
      BY <1>2, <1>3, <2>2 DEF BackendTyped
    <3>2. a + 0 + Len(p) = Len(emitted) /\ InStep(p, a + 0) /\ InStep(past, 0) /\ Hopes(p)
      BY <2>2, <3>1 DEF InLine
    <3> QED
      BY <1>3, <2>2, <3>1, <3>2
  <2>4. Hopes(p)' /\ InStep(p, a)'
    BY <1>2, <2>3 DEF Hopes, InStep
  <2>5. Len(past') + Len(signals') + Len(Pending') = Len(emitted')
    BY <1>2, <2>1, <2>2, <2>3
  <2>6. InStep(Pending, Len(past) + Len(signals))' /\ Hopes(Pending)'
    BY <2>1 DEF InStep, Hopes
  <2>7. InStep(signals, Len(past))' /\ Hopes(signals)'
    BY <1>2, <2>2, <2>3 DEF Hopes, InStep
  <2> QED
    BY <1>2, <2>3, <2>5, <2>6, <2>7 DEF InLine, InStep
<1> QED
  BY <1>2, <1>4, <1>5, <1>6, <1>7, <1>8, <1>9, GrownRuns, GrownAnswers, QuietSeen, QuietTold

LEMMA HandsKeeps ==
  ASSUME BackendInv, Hands, UNCHANGED polling
  PROVE  BackendInv'
<1> USE DEF BackendInv
<1>1. PICK s, e, a : /\ s = Head(signals) /\ a = Len(past)
                     /\ e = [number |-> s.number, handled |-> s.name \in handlers]
  OBVIOUS
<1>2. /\ poll = "hand" /\ signals # <<>> /\ past' = Append(past, e) /\ signals' = Tail(signals)
      /\ UNCHANGED <<poll, service, workflows, runCounter, place, phase, held, handlers, returned, emitted,
                     changes, told, ended>>
  BY <1>1 DEF Hands, temporalVars, flowVars, historyVars
<1>3. /\ signals \in Seq(Waited) /\ s = signals[1] /\ s \in Waited /\ signals' \in Seq(Waited)
      /\ Len(signals) \in Nat /\ Len(signals) > 0 /\ Len(signals') = Len(signals) - 1
      /\ \A i \in 1..Len(signals') : signals'[i] = signals[i + 1]
  BY <1>1, <1>2, HeadTailProperties, EmptySeq DEF BackendTyped
<1>4. /\ s.number = a + 1 /\ a \in Nat /\ (emitted[s.number].expected => s.name \in handlers)
  <2>1. 1 \in DOMAIN signals /\ Len(past) \in Nat /\ InStep(signals, a) /\ Hopes(signals)
    BY <1>1, <1>3 DEF InLine, BackendTyped
  <2>2. signals[1].number = a + 1
    BY <2>1 DEF InStep
  <2>3. emitted[signals[1].number].expected => signals[1].name \in handlers
    BY <2>1 DEF Hopes
  <2> QED
    BY <1>1, <1>3, <2>1, <2>2, <2>3
<1>5. e \in [number : Nat, handled : BOOLEAN] /\ e.number = s.number /\ (e.handled = (s.name \in handlers))
  <2>1. (s.name \in handlers) \in BOOLEAN /\ s.number \in Nat
    BY <1>3 DEF Waited
  <2> QED
    BY <1>1, <2>1
<1>6. /\ past' \in Seq([number : Nat, handled : BOOLEAN]) /\ Len(past') = a + 1 /\ past'[a + 1] = e
      /\ \A i \in 1..a : past'[i] = past[i]
  BY <1>1, <1>2, <1>5, AppendProperties DEF BackendTyped
<1>7. BackendTyped' /\ PollPlace'
  BY <1>2, <1>3, <1>6 DEF BackendTyped, PollPlace, Known
<1>8. OneRun' /\ AnswersFit' /\ Seen' /\ ToldOnceEach'
  <2>1. Grows /\ AnswersOne /\ NoLook /\ NoTelling
    BY <1>2 DEF Grows, AnswersOne, NoLook, NoTelling, BackendTyped, Flow
  <2> QED
    BY <1>2, <1>7, <2>1, GrownRuns, GrownAnswers, QuietSeen, QuietTold
<1>9. InLine'
  <2>1. Pending' = Pending
    BY <1>2 DEF Pending, Known
  <2>2. PICK p, n, m : p = Pending /\ n = Len(signals) /\ m = Len(p)
    OBVIOUS
  <2>3. /\ n \in Nat /\ n > 0 /\ m \in Nat /\ Len(signals') = n - 1 /\ a + n + m = Len(emitted)
        /\ InStep(past, 0) /\ InStep(signals, a) /\ InStep(p, a + n)
    <3>1. Known(service.watched) => workflows[service.watched] \in Flow
      BY DEF BackendTyped, Known
    <3>2. p \in Seq(Waited)
      BY <2>2, <3>1 DEF Pending, Flow
    <3> QED
      BY <1>1, <1>3, <2>2, <3>2 DEF InLine
  <2>4. a + 1 + (n - 1) = a + n
    BY <1>4, <2>3
  <2>5. Len(past') + Len(signals') + Len(Pending') = Len(emitted')
    BY <1>2, <1>4, <1>6, <2>1, <2>2, <2>3
  <2>6. InStep(past', 0)
    <3> SUFFICES ASSUME NEW i \in 1..a + 1 PROVE past'[i].number = 0 + i
      BY <1>6 DEF InStep
    <3>1. CASE i \in 1..a
      <4>1. i \in DOMAIN past /\ past'[i] = past[i]
        BY <1>1, <1>6, <3>1 DEF BackendTyped
      <4> QED
        BY <2>3, <4>1 DEF InStep
    <3>2. CASE i = a + 1
      BY <1>4, <1>5, <1>6, <3>2
    <3> QED
      BY <1>4, <3>1, <3>2
  <2>7. InStep(signals', a + 1) /\ Hopes(signals')
    <3> SUFFICES ASSUME NEW i \in 1..n - 1
                 PROVE  /\ signals'[i].number = a + 1 + i
                        /\ emitted[signals'[i].number].expected => signals'[i].name \in handlers
      BY <1>3, <2>3 DEF InStep, Hopes
    <3>1. i + 1 \in DOMAIN signals /\ signals'[i] = signals[i + 1]
      BY <1>3, <2>2, <2>3
    <3>2. signals[i + 1].number = a + (i + 1)
      BY <2>3, <3>1 DEF InStep
    <3>3. emitted[signals[i + 1].number].expected => signals[i + 1].name \in handlers
      BY <3>1 DEF InLine, Hopes
    <3> QED
      BY <1>4, <3>1, <3>2, <3>3
  <2>8. \A i \in DOMAIN past' : emitted[i].expected => past'[i].handled
    <3> SUFFICES ASSUME NEW i \in 1..a + 1, emitted[i].expected PROVE past'[i].handled
      BY <1>6
    <3>1. CASE i \in 1..a
      <4>1. i \in DOMAIN past /\ past'[i] = past[i]
        BY <1>1, <1>6, <3>1 DEF BackendTyped
      <4> QED
        BY <4>1 DEF InLine
    <3>2. CASE i = a + 1
      BY <1>4, <1>5, <1>6, <3>2
    <3> QED
      BY <1>4, <3>1, <3>2
  <2>9. Hopes(p) /\ Len(past') = a + 1 /\ Len(past') + Len(signals') = a + n
    BY <1>6, <2>2, <2>3, <2>4 DEF InLine
  <2>10. InStep(past, 0)' /\ InStep(signals, Len(past))' /\ InStep(Pending, Len(past) + Len(signals))'
    BY <2>1, <2>2, <2>3, <2>6, <2>7, <2>9 DEF InStep
  <2>11. Hopes(signals)' /\ Hopes(Pending)'
    BY <1>2, <2>1, <2>2, <2>7, <2>9 DEF Hopes
  <2> QED
    BY <1>2, <2>5, <2>8, <2>10, <2>11 DEF InLine
<1> QED
  BY <1>7, <1>8, <1>9

LEMMA ProgramKeepsBackend ==
  ASSUME BackendInv, ProgramStep \/ UNCHANGED worldVars
  PROVE  BackendInv'
<1>1. /\ UNCHANGED <<service, workflows, runCounter, place, phase, held, handlers, returned,
                     emitted, changes, told, ended, signals, past>>
  BY DEF ProgramStep, worldVars, temporalVars, flowVars, historyVars, pollVars
<1>2. BackendTyped' /\ OneRun' /\ Seen' /\ AnswersFit' /\ ToldOnceEach'
  <2>1. BackendTyped'
    BY <1>1 DEF BackendInv, BackendTyped, Known
  <2>2. Grows /\ AnswersOne /\ NoLook /\ NoTelling
    BY <1>1 DEF BackendInv, Grows, AnswersOne, NoLook, NoTelling, BackendTyped, Flow
  <2> QED
    BY <1>1, <2>1, <2>2, GrownRuns, GrownAnswers, QuietSeen, QuietTold DEF BackendInv
<1>3. InLine'
  BY <1>1 DEF BackendInv, InLine, Pending, Known, InStep, Hopes
<1>4. PollPlace'
  <2>1. CASE ProgramStep
    BY <1>1, <2>1 DEF BackendInv, PollPlace, ProgramStep, Entering, Leaving
  <2>2. CASE UNCHANGED worldVars
    BY <1>1, <2>2 DEF BackendInv, PollPlace, worldVars, pollVars, programVars, vars, channelVars
  <2> QED
    BY <2>1, <2>2
<1> QED
  BY <1>2, <1>3, <1>4 DEF BackendInv

LEMMA BackendBegins == WorldInit => BackendInv
<1> SUFFICES ASSUME WorldInit PROVE BackendInv
  OBVIOUS
<1>1. /\ service \in Services /\ workflows = [w \in {} |-> Unnamed] /\ runCounter = 0
      /\ place = [t \in Thread |-> 1] /\ phase = [t \in Thread |-> "ready"]
      /\ held = [t \in Thread |-> Unnamed] /\ handlers = service.handlers
      /\ returned = [t \in Thread |-> <<>>] /\ emitted = <<>> /\ changes = <<>> /\ told = <<>> /\ ended = {}
      /\ poll = "no" /\ signals = <<>> /\ past = <<>> /\ polling = "no"
  BY DEF WorldInit, TemporalInit, ProgramInit, Init, ChannelInit
<1>2. DOMAIN workflows = {} /\ ToSet(told) = {} /\ Pending = <<>>
  BY <1>1 DEF ToSet, Pending, Known
<1>3. BackendTyped
  <2>1. <<>> \in Seq(Answer) /\ <<>> \in Seq(Waited) /\ <<>> \in Seq(StatusChange) /\ <<>> \in Seq(Nat)
        /\ <<>> \in Seq([name : STRING, expected : BOOLEAN]) /\ <<>> \in Seq([number : Nat, handled : BOOLEAN])
    OBVIOUS
  <2> QED
    BY <1>1, <1>2, <2>1 DEF BackendTyped
<1>4. OneRun /\ PollPlace /\ Seen
  BY <1>1, <1>2 DEF OneRun, PollPlace, Seen
<1>5. AnswersFit
  <2>1. Results = {}
    BY <1>1 DEF Results, ToSet
  <2> QED
    BY <1>1, <2>1 DEF AnswersFit, Aging
<1>6. InLine /\ ToldOnceEach
  BY <1>1, <1>2 DEF InLine, InStep, Hopes, ToldOnceEach, IsInjective
<1> QED
  BY <1>3, <1>4, <1>5, <1>6 DEF BackendInv

-----------------------------------------------------------------------------

\* The numbers of a sequence of signals, which are the next after n.
LEMMA NumbersOf ==
  ASSUME NEW S, NEW s \in Seq(S), NEW n \in Nat, InStep(s, n)
  PROVE  /\ [i \in DOMAIN s |-> s[i].number] \in Seq(Nat)
         /\ Len([i \in DOMAIN s |-> s[i].number]) = Len(s) /\ Len(s) \in Nat
         /\ \A i \in 1..Len(s) : [j \in DOMAIN s |-> s[j].number][i] = n + i
<1>1. PICK m, r : m = Len(s) /\ r = [i \in 1..m |-> s[i].number]
  OBVIOUS
<1>2. m \in Nat /\ DOMAIN s = 1..m /\ [i \in DOMAIN s |-> s[i].number] = r
  BY <1>1
<1>3. \A i \in 1..m : r[i] = n + i /\ n + i \in Nat
  BY <1>1, <1>2 DEF InStep
<1>4. r \in [1..m -> Nat]
  BY <1>1, <1>3
<1>5. r \in Seq(Nat) /\ Len(r) = m
  BY <1>2, <1>4
<1> QED
  BY <1>1, <1>2, <1>3, <1>5

LEMMA BackendTells == BackendInv => ToldOnce
<1> SUFFICES ASSUME BackendInv PROVE ToldOnce
  OBVIOUS
<1> USE DEF BackendInv
<1>1. \A r, s \in Results : r.id = s.id <=> r.run = s.run
  <2> SUFFICES ASSUME NEW r \in Results, NEW s \in Results PROVE r.id = s.id <=> r.run = s.run
    OBVIOUS
  <2>1. /\ r.id \in DOMAIN workflows /\ r.run = workflows[r.id].run
        /\ s.id \in DOMAIN workflows /\ s.run = workflows[s.id].run
    BY DEF AnswersFit, NotNewer, Known
  <2> QED
    BY <2>1 DEF OneRun
<1>2. \A r, s \in Results : r.id = s.id /\ r.events = s.events => r.status = s.status
  BY DEF AnswersFit
<1>3. \A t \in Thread : \A i, j \in DOMAIN returned[t] :
        i < j /\ returned[t][i].id = returned[t][j].id => returned[t][i].events <= returned[t][j].events
  BY DEF AnswersFit, Aging
<1>4. [i \in DOMAIN past |-> past[i].number] \o [i \in DOMAIN signals |-> signals[i].number]
        \o [i \in DOMAIN Pending |-> Pending[i].number] = [i \in DOMAIN emitted |-> i]
  <2>1. PICK a, b, c : a = Len(past) /\ b = Len(signals) /\ c = Len(Pending)
    OBVIOUS
  <2>2. PICK x, y, z : /\ x = [i \in DOMAIN past |-> past[i].number]
                       /\ y = [i \in DOMAIN signals |-> signals[i].number]
                       /\ z = [i \in DOMAIN Pending |-> Pending[i].number]
    OBVIOUS
  <2>3. Pending \in Seq(Waited)
    <3>1. Known(service.watched) => workflows[service.watched] \in Flow
      BY DEF BackendTyped, Known
    <3>2. <<>> \in Seq(Waited)
      OBVIOUS
    <3> QED
      BY <3>1, <3>2 DEF Pending, Flow
  <2>4. a \in Nat /\ b \in Nat /\ c \in Nat /\ a + b \in Nat /\ a + b + c = Len(emitted)
    BY <2>1, <2>3 DEF BackendTyped, InLine
  <2>5. x \in Seq(Nat) /\ Len(x) = a /\ \A i \in 1..a : x[i] = 0 + i
    <3>1. past \in Seq([number : Nat, handled : BOOLEAN]) /\ InStep(past, 0)
      BY DEF BackendTyped, InLine
    <3>2. /\ [i \in DOMAIN past |-> past[i].number] \in Seq(Nat)
          /\ Len([i \in DOMAIN past |-> past[i].number]) = Len(past) /\ Len(past) \in Nat
          /\ \A i \in 1..Len(past) : [j \in DOMAIN past |-> past[j].number][i] = 0 + i
      BY ONLY <3>1, NumbersOf
    <3> QED
      BY ONLY <2>1, <2>2, <3>2
  <2>6. y \in Seq(Nat) /\ Len(y) = b /\ \A i \in 1..b : y[i] = a + i
    <3>1. signals \in Seq(Waited) /\ InStep(signals, a)
      BY <2>1 DEF BackendTyped, InLine
    <3>2. /\ [i \in DOMAIN signals |-> signals[i].number] \in Seq(Nat)
          /\ Len([i \in DOMAIN signals |-> signals[i].number]) = Len(signals) /\ Len(signals) \in Nat
          /\ \A i \in 1..Len(signals) : [j \in DOMAIN signals |-> signals[j].number][i] = a + i
      BY ONLY <2>4, <3>1, NumbersOf
    <3> QED
      BY ONLY <2>1, <2>2, <3>2
  <2>7. z \in Seq(Nat) /\ Len(z) = c /\ \A i \in 1..c : z[i] = a + b + i
    <3>1. InStep(Pending, a + b)
      BY <2>1 DEF InLine
    <3>2. /\ [i \in DOMAIN Pending |-> Pending[i].number] \in Seq(Nat)
          /\ Len([i \in DOMAIN Pending |-> Pending[i].number]) = Len(Pending) /\ Len(Pending) \in Nat
          /\ \A i \in 1..Len(Pending) : [j \in DOMAIN Pending |-> Pending[j].number][i] = (a + b) + i
      BY ONLY <2>3, <2>4, <3>1, NumbersOf
    <3> QED
      BY ONLY <2>1, <2>2, <3>2
  <2>8. PICK u, v : u = x \o y /\ v = u \o z
    OBVIOUS
  <2>9. u \in Seq(Nat) /\ Len(u) = a + b /\ \A i \in 1..a + b : u[i] = i
    <3>1. /\ u \in Seq(Nat) /\ Len(u) = a + b
          /\ \A i \in 1..a + b : u[i] = IF i <= a THEN x[i] ELSE y[i - a]
      <4>1. x \in Seq(Nat) /\ y \in Seq(Nat) /\ Len(x) = a /\ Len(y) = b /\ u = x \o y
        BY ONLY <2>5, <2>6, <2>8
      <4> QED
        BY ONLY <4>1, ConcatProperties
    <3>2. ASSUME NEW i \in 1..a + b PROVE u[i] = i
      <4>1. CASE i <= a
        BY <2>4, <2>5, <3>1, <4>1
      <4>2. CASE ~(i <= a)
        <5>1. i - a \in 1..b /\ a + (i - a) = i
          BY <2>4, <4>2
        <5> QED
          BY <2>6, <3>1, <4>2, <5>1
      <4> QED
        BY <4>1, <4>2
    <3> QED
      BY <3>1, <3>2
  <2>10. v \in Seq(Nat) /\ Len(v) = a + b + c /\ \A i \in 1..a + b + c : v[i] = i
    <3>1. /\ v \in Seq(Nat) /\ Len(v) = a + b + c
          /\ \A i \in 1..a + b + c : v[i] = IF i <= a + b THEN u[i] ELSE z[i - (a + b)]
      <4>1. PICK ab : ab = a + b
        OBVIOUS
      <4>2. Len(u) = ab /\ u \in Seq(Nat) /\ z \in Seq(Nat) /\ Len(z) = c
        BY <2>7, <2>9, <4>1
      <4>3. /\ u \o z \in Seq(Nat) /\ Len(u \o z) = ab + c
            /\ \A i \in 1..ab + c : (u \o z)[i] = IF i <= ab THEN u[i] ELSE z[i - ab]
        BY <4>2, ConcatProperties
      <4> QED
        BY <2>4, <2>8, <4>1, <4>3
    <3>2. ASSUME NEW i \in 1..a + b + c PROVE v[i] = i
      <4>1. CASE i <= a + b
        BY <2>4, <2>9, <3>1, <4>1
      <4>2. CASE ~(i <= a + b)
        <5>1. i - (a + b) \in 1..c /\ a + b + (i - (a + b)) = i
          BY <2>4, <4>2
        <5> QED
          BY <2>7, <3>1, <4>2, <5>1
      <4> QED
        BY <4>1, <4>2
    <3> QED
      BY <3>1, <3>2
  <2>11. PICK n : n = a + b + c
    OBVIOUS
  <2>12. DOMAIN emitted = 1..n /\ n \in Nat /\ DOMAIN v = 1..n
    BY <2>4, <2>10, <2>11 DEF BackendTyped
  <2>13. v = [i \in 1..n |-> i]
    BY <2>10, <2>11, <2>12
  <2> QED
    BY <2>2, <2>8, <2>12, <2>13
<1>5. \A i \in DOMAIN past : emitted[i].expected => past[i].handled
  BY DEF InLine
<1>6. \A i, j \in DOMAIN changes :
        i < j /\ changes[i] = changes[j] =>
          \E k \in i..j : changes[k].id = changes[i].id /\ changes[k] # changes[i]
  BY DEF Seen
<1>7. IsInjective(told) /\ \A i \in DOMAIN changes : i \in ToSet(told) \/ OnTheWay(i)
  BY DEF ToldOnceEach
<1>8. \A e \in ended : e \in ToSet(changes)
  BY DEF ToldOnceEach
<1> QED
  BY <1>1, <1>2, <1>3, <1>4, <1>5, <1>6, <1>7, <1>8 DEF ToldOnce

(* However many threads start a workflow it has one run, and what a thread  *)
(* is told of it gets no older; the signals of the watched workflow are     *)
(* looked at once and in order, with their handlers; and of each change     *)
(* that a stream saw one callback is told: for any threads and calls.       *)
THEOREM BackendIsTold == WorldSpec => []ToldOnce
<1>1. WorldInit => BackendInv
  BY BackendBegins
<1>2. BackendInv /\ [WorldNext]_worldVars => BackendInv'
  <2> SUFFICES ASSUME BackendInv, [WorldNext]_worldVars PROVE BackendInv'
    OBVIOUS
  <2>1. CASE ProgramStep \/ UNCHANGED worldVars
    BY <2>1, ProgramKeepsBackend
  <2>2. CASE Takes
    BY <2>2, TakesKeeps DEF Takes, programVars, vars, channelVars
  <2>3. CASE Hands
    BY <2>3, HandsKeeps DEF Hands, programVars, vars, channelVars
  <2>4. CASE BackendStep
    <3>1. PollFrame /\ TemporalNext
      BY <2>4 DEF BackendStep, TemporalNext, PollFrame, pollVars, programVars, vars, channelVars
    <3> QED
      BY <3>1, ThreadsKeep
  <2> QED
    BY <2>1, <2>2, <2>3, <2>4 DEF WorldNext
<1>3. BackendInv => ToldOnce
  BY BackendTells
<1> QED
  BY <1>1, <1>2, <1>3, PTL DEF WorldSpec

=============================================================================
