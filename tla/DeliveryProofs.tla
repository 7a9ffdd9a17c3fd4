---------------------------- MODULE DeliveryProofs ----------------------------
(***************************************************************************)
(* What the dedup cache guarantees for every number of commands, every     *)
(* TTL, every handler and every timing of redeliveries: a command is not   *)
(* executed again within TTL of the beginning of its last execution.       *)
(*                                                                         *)
(* The invariant is that a command that was executed and is not in the     *)
(* loop's hands either has the entry of that execution, or an entry would  *)
(* have expired by now.                                                    *)
(*                                                                         *)
(* With what the cache holds (ResultInv) that makes Delivery an            *)
(* implementation of OnceOnly, whatever TTL and the handlers' limits are.  *)
(*                                                                         *)
(* That no command is executed twice as long as handlers are quick needs   *)
(* how long a command may wait (WaitInv): on one stream a command is sent  *)
(* once, so what is handled before it are other commands, each of them     *)
(* once.                                                                   *)
(***************************************************************************)
EXTENDS Delivery, FiniteSetTheorems, TLAPS

\* What the proof needs of the types; the types of answers play no part in it.
ClockInv ==
    /\ now \in Nat /\ taken \in Nat
    /\ expiresAt \in [Cmds -> {Never} \cup Nat]
    /\ runs \in [Cmds -> Nat] /\ begunAt \in [Cmds -> Nat]
    /\ inbox \in Seq(Cmds)
    /\ stage \in {"idle", "handling", "sending"}

\* The command in its handler was taken when its execution began.
TakenInv ==
    /\ taken <= now
    /\ stage = "handling" => current \in Cmds /\ begunAt[current] = taken

CacheInv ==
    \A c \in Cmds :
      runs[c] > 0 /\ ~(stage = "handling" /\ current = c)
        => expiresAt[c] = begunAt[c] + TTL \/ now > begunAt[c] + TTL

CacheIInv == ClockInv /\ TakenInv /\ CacheInv

LEMMA InitCache == Init => CacheIInv
BY DEF Init, CacheIInv, ClockInv, TakenInv, CacheInv, Never

\* An entry that remember() evicts had expired.
LEMMA RememberEvictsExpired ==
    ASSUME ClockInv, TakenInv, NEW c \in Cmds, NEW o, Remember(c, o),
           NEW d \in Cmds \ {c}, expiresAt'[d] # expiresAt[d]
    PROVE  now > expiresAt[d]
BY DEF Remember, ClockInv, TakenInv, Never

LEMMA CacheStep == CacheIInv /\ [Next]_vars => CacheIInv'
<1> SUFFICES ASSUME CacheIInv, [Next]_vars PROVE CacheIInv'
  OBVIOUS
<1> USE DeliveryAssumption DEF CacheIInv, ClockInv, TakenInv, CacheInv, Never
<1>1. ASSUME NEW c \in Cmds, Send(c) PROVE CacheIInv'
  BY <1>1 DEF Send, loopVars, cacheVars, history
<1>2. CASE StreamBreaks \/ StreamOpens
  <2>1. UNCHANGED <<now, stage, current, taken, expiresAt, runs, begunAt>>
    BY <1>2 DEF StreamBreaks, StreamOpens, loopVars, cacheVars, history
  <2>2. inbox' \in Seq(Cmds)
    <3>1. CASE StreamBreaks
      <4>1. inbox' = <<>>
        BY <3>1 DEF StreamBreaks
      <4>2. QED
        BY <4>1
    <3>2. CASE StreamOpens
      BY <3>2 DEF StreamOpens
    <3>3. QED
      BY <1>2, <3>1, <3>2
  <2>3. QED
    BY <2>1, <2>2
<1>3. CASE Tick
  BY <1>3 DEF Tick, loopVars, cacheVars, history
<1>4. CASE Execute
  <2>1. Head(inbox) \in Cmds /\ Tail(inbox) \in Seq(Cmds)
    BY <1>4 DEF Execute
  <2>2. ClockInv' /\ TakenInv'
    BY <1>4, <2>1 DEF Execute, cacheVars
  <2>3. CacheInv'
    BY <1>4, <2>1 DEF Execute, cacheVars
  <2>4. QED
    BY <2>2, <2>3
<1>5. CASE Redelivered
  <2>1. Head(inbox) \in Cmds /\ Tail(inbox) \in Seq(Cmds)
    BY <1>5 DEF Redelivered
  <2>2. QED
    BY <1>5, <2>1 DEF Redelivered, cacheVars, history
<1>6. CASE HandlerReturns
  <2>1. PICK o \in Outcomes : Remember(current, o)
    BY <1>6 DEF HandlerReturns
  <2>2. stage = "handling" /\ current \in Cmds /\ stage' = "sending" /\ current' = current
        /\ UNCHANGED <<now, inbox, taken, runs, begunAt>>
    BY <1>6 DEF HandlerReturns
  <2>3. ClockInv' /\ TakenInv'
    BY <2>1, <2>2 DEF Remember
  <2>4. ASSUME NEW c \in Cmds, runs'[c] > 0
        PROVE  expiresAt'[c] = begunAt'[c] + TTL \/ now' > begunAt'[c] + TTL
    <3>1. CASE c = current
      BY <2>1, <2>2, <3>1 DEF Remember
    <3>2. CASE c # current
      BY <2>1, <2>2, <2>4, <3>2, RememberEvictsExpired
    <3>3. QED
      BY <3>1, <3>2
  <2>5. QED
    BY <2>3, <2>4
<1>7. CASE SendResponse
  BY <1>7 DEF SendResponse, cacheVars
<1>8. CASE Restart
  BY <1>8 DEF Restart
<1>9. CASE UNCHANGED vars
  BY <1>9 DEF vars, loopVars, cacheVars, history
<1>10. CASE Refused
  <2>1. Tail(inbox) \in Seq(Cmds)
    BY <1>10 DEF Refused
  <2>2. QED
    BY <1>10, <2>1 DEF Refused, loopVars, cacheVars, history
<1>11. QED
  BY <1>1, <1>2, <1>3, <1>4, <1>5, <1>6, <1>7, <1>8, <1>9, <1>10 DEF Next

\* Only Execute begins an execution, and only for a command whose entry does
\* not answer it.
LEMMA ExecutesOnlyMisses ==
    ASSUME CacheIInv, [Next]_vars, NEW c \in Cmds, runs[c] > 0, runs'[c] > runs[c]
    PROVE  now > begunAt[c] + TTL
<1> USE DeliveryAssumption DEF CacheIInv, ClockInv
<1>1. CASE Execute
  <2>1. Head(inbox) = c /\ ~Hit(c) /\ stage = "idle"
    BY <1>1 DEF Execute
  <2>2. expiresAt[c] = begunAt[c] + TTL \/ now > begunAt[c] + TTL
    BY <2>1 DEF CacheInv
  <2>3. QED
    BY <2>1, <2>2 DEF Hit, Never
<1>2. CASE Restart
  BY <1>2 DEF Restart
<1>3. CASE HandlerReturns \/ SendResponse
  BY <1>3 DEF HandlerReturns, SendResponse
<1>4. CASE StreamBreaks \/ StreamOpens \/ Tick \/ Redelivered \/ Refused
  BY <1>4 DEF StreamBreaks, StreamOpens, Tick, Redelivered, Refused, history
<1>5. ASSUME NEW d \in Cmds, Send(d) PROVE runs' = runs
  BY <1>5 DEF Send, history
<1>6. CASE UNCHANGED vars
  BY <1>6 DEF vars, history
<1>7. QED
  BY <1>1, <1>2, <1>3, <1>4, <1>5, <1>6 DEF Next

\* A command is never executed twice within TTL of the first execution's
\* beginning, whatever else the cache holds and cleans up (dedup.go:74-100).
THEOREM OnceWithinTTL == Spec => ReexecutedOnlyAfterTTL
<1>1. CacheIInv /\ [Next]_vars
        => [\A c \in Cmds : runs[c] > 0 /\ runs'[c] > runs[c] => now > begunAt[c] + TTL]_vars
  BY ExecutesOnlyMisses
<1>2. QED
  BY InitCache, CacheStep, <1>1, PTL DEF Spec, ReexecutedOnlyAfterTTL
-----------------------------------------------------------------------------
(* The refinement of OnceOnly. *)

\* An entry holds the result of the last execution, and so does what is sent.
ResultInv ==
    /\ result \in [Cmds -> Outcomes \cup {NoOutcome}]
    /\ cached \in [Cmds -> Outcomes \cup {NoOutcome}]
    /\ \A c \in Cmds : ~(stage = "handling" /\ current = c) =>
         /\ runs[c] > 0 => result[c] # NoOutcome
         /\ expiresAt[c] # Never => result[c] # NoOutcome /\ cached[c] = result[c]
    /\ stage = "handling" => runs[current] > 0 /\ result[current] = NoOutcome
    /\ stage = "sending" =>
         current \in Cmds /\ answer = result[current] /\ result[current] # NoOutcome

OnceIInv == CacheIInv /\ ResultInv

LEMMA InitOnce == Init => OnceIInv
<1> SUFFICES ASSUME Init PROVE OnceIInv
  OBVIOUS
<1>1. ResultInv
  BY DEF Init, ResultInv, Never
<1>2. QED
  BY <1>1, InitCache DEF OnceIInv

\* What the loop takes next, and what is left then.
LEMMA TakesHead ==
    ASSUME inbox \in Seq(Cmds), inbox # <<>>
    PROVE  /\ Head(inbox) \in Cmds /\ Head(inbox) = inbox[1] /\ 1 \in 1..Len(inbox)
           /\ Tail(inbox) \in Seq(Cmds)
           /\ \A i \in 1..Len(Tail(inbox)) :
                i \in Nat /\ i + 1 \in 1..Len(inbox) /\ Tail(inbox)[i] = inbox[i + 1]
OBVIOUS

LEMMA ResultStep == OnceIInv /\ [Next]_vars => ResultInv'
<1> SUFFICES ASSUME OnceIInv, [Next]_vars PROVE ResultInv'
  OBVIOUS
<1> USE DeliveryAssumption DEF ResultInv, OnceIInv, Never
<1>0. /\ runs \in [Cmds -> Nat] /\ expiresAt \in [Cmds -> {Never} \cup Nat]
      /\ taken \in Nat /\ inbox \in Seq(Cmds)
      /\ stage = "handling" => current \in Cmds
  BY DEF CacheIInv, ClockInv, TakenInv
<1>1. ASSUME NEW c \in Cmds, Send(c) PROVE ResultInv'
  BY <1>1 DEF Send, loopVars, cacheVars, history
<1>2. CASE StreamBreaks \/ StreamOpens \/ Tick \/ Refused
  BY <1>2 DEF StreamBreaks, StreamOpens, Tick, Refused, loopVars, cacheVars, history
<1>3. CASE Execute
  <2>1. Head(inbox) \in Cmds
    BY <1>0, <1>3, TakesHead DEF Execute
  <2>2. QED
    BY <1>0, <1>3, <2>1 DEF Execute, cacheVars
<1>4. CASE Redelivered
  <2>1. Head(inbox) \in Cmds /\ Hit(Head(inbox))
    BY <1>0, <1>4, TakesHead DEF Redelivered
  <2>2. /\ result[Head(inbox)] # NoOutcome /\ cached[Head(inbox)] = result[Head(inbox)]
    BY <1>4, <2>1 DEF Hit, Redelivered
  <2>3. QED
    BY <1>0, <1>4, <2>1, <2>2 DEF Redelivered, cacheVars, history
<1>5. CASE HandlerReturns
  <2>1. PICK o \in Outcomes : /\ Remember(current, o) /\ answer' = o
                              /\ result' = [result EXCEPT ![current] = o]
    BY <1>5 DEF HandlerReturns
  <2>2. /\ stage = "handling" /\ stage' = "sending" /\ current \in Cmds
        /\ UNCHANGED <<current, runs>>
    BY <1>0, <1>5 DEF HandlerReturns
  <2>3. /\ result' \in [Cmds -> Outcomes \cup {NoOutcome}]
        /\ cached' \in [Cmds -> Outcomes \cup {NoOutcome}]
    BY <2>1, <2>2 DEF Remember
  <2>4. ASSUME NEW c \in Cmds, expiresAt'[c] # Never
        PROVE  result'[c] # NoOutcome /\ cached'[c] = result'[c]
    <3>1. CASE c = current
      BY <2>1, <2>2, <3>1 DEF Remember
    <3>2. CASE c # current
      <4>1. expiresAt[c] # Never
        BY <2>1, <2>2, <2>4, <3>2 DEF Remember
      <4>2. QED
        BY <2>1, <2>2, <3>2, <4>1 DEF Remember
    <3>3. QED
      BY <3>1, <3>2
  <2>5. \A c \in Cmds : runs'[c] > 0 => result'[c] # NoOutcome
    BY <2>1, <2>2
  <2>6. QED
    BY <2>1, <2>2, <2>3, <2>4, <2>5
<1>6. CASE SendResponse
  BY <1>6 DEF SendResponse, cacheVars
<1>7. CASE Restart
  BY <1>7 DEF Restart
<1>8. CASE UNCHANGED vars
  BY <1>8 DEF vars, loopVars, cacheVars, history
<1>9. QED
  BY <1>1, <1>2, <1>3, <1>4, <1>5, <1>6, <1>7, <1>8 DEF Next

LEMMA OnceStep == OnceIInv /\ [Next]_vars => OnceIInv'
BY CacheStep, ResultStep DEF OnceIInv

Stale == {c \in Cmds : now > begunAt[c] + TTL}

\* Steps that only let time pass, or not even that, age what is stale.
LEMMA OnlyAges ==
    ASSUME ClockInv, UNCHANGED <<runs, result, replied, begunAt>>, now' \in {now, now + 1}
    PROVE  [Once!Next]_(Once!vars)
<1>1. Stale \subseteq Stale'
  BY DeliveryAssumption DEF ClockInv, Stale
<1>2. Once!Ages
  BY <1>1 DEF Once!Ages, Stale
<1>3. QED
  BY <1>2 DEF Once!Next

\* Every step is one of OnceOnly, or changes nothing it speaks of.
LEMMA StepSimulation == OnceIInv /\ [Next]_vars => [Once!Next]_(Once!vars)
<1> SUFFICES ASSUME OnceIInv, [Next]_vars PROVE [Once!Next]_(Once!vars)
  OBVIOUS
<1>0. ClockInv /\ TakenInv
  BY DEF OnceIInv, CacheIInv
<1>1. CASE Execute
  <2>0. PICK c \in Cmds : c = Head(inbox)
    BY <1>0, <1>1, TakesHead DEF Execute, ClockInv
  <2>1. c \in Cmds /\ stage = "idle" /\ ~Hit(c)
    BY <1>1, <2>0 DEF Execute
  <2>2. /\ runs' = [runs EXCEPT ![c] = @ + 1] /\ replied' = replied
        /\ result' = [result EXCEPT ![c] = NoOutcome]
        /\ begunAt' = [begunAt EXCEPT ![c] = now] /\ now' = now
    BY <1>1, <2>0 DEF Execute
  <2>3. (c \in Stale /\ result[c] # NoOutcome) \/ runs[c] = 0
    <3>1. CASE runs[c] > 0
      <4>1. expiresAt[c] = begunAt[c] + TTL \/ now > begunAt[c] + TTL
        BY <2>1, <3>1 DEF OnceIInv, CacheIInv, CacheInv
      <4>2. now > begunAt[c] + TTL
        BY <1>0, <2>1, <4>1, DeliveryAssumption DEF Hit, ClockInv, Never
      <4>3. result[c] # NoOutcome
        BY <2>1, <3>1 DEF OnceIInv, ResultInv
      <4>4. QED
        BY <2>1, <4>2, <4>3 DEF Stale
    <3>2. QED
      BY <1>0, <2>1, <3>1 DEF ClockInv
  <2>4. Stale' = Stale \ {c}
    BY <1>0, <2>1, <2>2, DeliveryAssumption DEF Stale, ClockInv
  <2>5. Once!Begin(c)
    BY <2>2, <2>3, <2>4 DEF Once!Begin, Stale
  <2>6. QED
    BY <2>5 DEF Once!Next
<1>2. CASE HandlerReturns
  <2>1. current \in Cmds /\ runs[current] > 0 /\ result[current] = NoOutcome
    BY <1>2 DEF HandlerReturns, OnceIInv, ResultInv, CacheIInv, TakenInv
  <2>2. PICK o \in Outcomes : result' = [result EXCEPT ![current] = o]
    BY <1>2 DEF HandlerReturns
  <2>3. Once!End(current, o)
    BY <1>2, <2>1, <2>2 DEF HandlerReturns, Once!End
  <2>4. QED
    BY <2>1, <2>3 DEF Once!Next
<1>3. CASE SendResponse
  <2>1. current \in Cmds /\ answer = result[current] /\ result[current] # NoOutcome
    BY <1>3 DEF SendResponse, OnceIInv, ResultInv
  <2>2. CASE up
    <3>1. Once!Reply(current)
      BY <1>3, <2>1, <2>2 DEF SendResponse, Once!Reply
    <3>2. QED
      BY <2>1, <3>1 DEF Once!Next
  <2>3. CASE ~up
    BY <1>0, <1>3, <2>3, OnlyAges DEF SendResponse
  <2>4. QED
    BY <2>2, <2>3
<1>4. CASE Restart
  BY <1>4 DEF Restart, Once!Next, Once!Restart, Once!Forgotten
<1>5. CASE StreamBreaks \/ StreamOpens \/ Tick \/ Redelivered \/ Refused
  BY <1>0, <1>5, OnlyAges DEF StreamBreaks, StreamOpens, Tick, Redelivered, Refused, history
<1>6. ASSUME NEW c \in Cmds, Send(c) PROVE [Once!Next]_(Once!vars)
  BY <1>0, <1>6, OnlyAges DEF Send, history
<1>7. CASE UNCHANGED vars
  BY <1>0, <1>7, OnlyAges DEF vars, history
<1>8. QED
  BY <1>1, <1>2, <1>3, <1>4, <1>5, <1>6, <1>7 DEF Next

\* A command is executed again only when its last execution ended and began more
\* than TTL ago, and whatever is received for it is the result of its last
\* execution (dedup.go:33-36, 84-100; start.go:708-747).
THEOREM DeliveryImplementsOnce == Spec => ImplementsOnce
<1>1. Init => Once!Init
  <2> SUFFICES ASSUME Init PROVE Once!Init
    OBVIOUS
  <2>1. Stale = {}
    BY DeliveryAssumption DEF Init, Stale
  <2>2. QED
    BY <2>1 DEF Init, Once!Init, Once!Forgotten, Stale
<1>2. QED
  BY InitOnce, OnceStep, StepSimulation, <1>1, PTL DEF Spec, ImplementsOnce, Once!Spec
-----------------------------------------------------------------------------
(* Quick handlers. *)

N == Cardinality(Cmds)

\* A stream carries a command once, and the loop holds one it has carried.
StreamInv ==
    /\ inbox # <<>> => up
    /\ \A i \in 1..Len(inbox) : inbox[i] \in onStream
    /\ \A i, j \in 1..Len(inbox) : inbox[i] = inbox[j] => i = j
    /\ stage = "handling" /\ up =>
         current \in onStream /\ \A i \in 1..Len(inbox) : inbox[i] # current

SentInv ==
    /\ onStream \subseteq Cmds
    /\ sentAt \in [Cmds -> {Never} \cup Nat]
    /\ \A c \in Cmds : sentAt[c] <= now
    /\ \A c \in onStream : sentAt[c] # Never
    /\ \A c \in Cmds : runs[c] > 0 => sentAt[c] \in Nat /\ sentAt[c] <= begunAt[c]

\* The command at place i has N - i handlers behind it at most, or one less
\* when another command is in its handler; all of them were quick.
WaitInv ==
  ~slow =>
    /\ stage = "handling" => now <= taken + Quick
    /\ \A i \in 1..Len(inbox) :
         IF stage = "handling"
           THEN taken <= sentAt[inbox[i]] + Window + (N - 1 - i) * Quick
           ELSE now <= sentAt[inbox[i]] + Window + (N - i) * Quick

QuickIInv == CacheIInv /\ StreamInv /\ SentInv /\ WaitInv /\ OnceWhileQuick

LEMMA QuickTypes ==
    N \in Nat /\ Quick \in Nat /\ Window + (N - 1) * Quick <= TTL
BY QuickAssumption, FS_CardinalityType DEF N

LEMMA CommandsFinite == IsFiniteSet(Cmds) /\ N = Cardinality(Cmds) /\ N \in Nat
BY QuickAssumption, FS_CardinalityType DEF N

\* A multiple of Quick and the next.
LEMMA OneMoreRun ==
    ASSUME NEW k \in Int PROVE (k + 1) * Quick = k * Quick + Quick
BY QuickTypes, SMT

LEMMA Multiples ==
    ASSUME NEW k \in Nat PROVE k * Quick \in Nat
BY QuickTypes, SMT

LEMMA IntMultiples ==
    ASSUME NEW k \in Int PROVE k * Quick \in Int
BY QuickTypes, SMT

\* Before anything was sent.
LEMMA InitQuick == Init => QuickIInv
<1> SUFFICES ASSUME Init PROVE QuickIInv
  OBVIOUS
<1>1. StreamInv /\ WaitInv
  <2>1. inbox = <<>> /\ Len(inbox) = 0 /\ stage = "idle"
    BY DEF Init
  <2>2. QED
    BY <2>1 DEF StreamInv, WaitInv
<1>2. SentInv /\ OnceWhileQuick
  BY DEF Init, SentInv, OnceWhileQuick, Never
<1>3. QED
  BY <1>1, <1>2, InitCache DEF QuickIInv

\* As many commands as are sent, handled and queued exist.
LEMMA RoomInQueue ==
    ASSUME CacheIInv, StreamInv, SentInv, NEW c \in Cmds, c \notin onStream, up
    PROVE  /\ N \in Nat
           /\ Len(inbox) + 1 <= N
           /\ stage = "handling" => Len(inbox) + 2 <= N
<1> DEFINE L == Len(inbox)
<1>1. N \in Nat /\ L \in Nat /\ inbox \in [1..L -> Cmds]
  BY QuickTypes DEF CacheIInv, ClockInv
<1>2. L + 1 <= N
  <2> DEFINE f == [i \in 1..(L + 1) |-> IF i = L + 1 THEN c ELSE inbox[i]]
  <2>1. f \in [1..(L + 1) -> Cmds]
    BY <1>1
  <2>2. \A i, j \in 1..(L + 1) : i # j => f[i] # f[j]
    BY <1>1 DEF StreamInv
  <2>3. IsFiniteSet(1..(L + 1)) /\ Cardinality(1..(L + 1)) = L + 1
    BY <1>1, FS_Interval
  <2> HIDE DEF f
  <2>4. QED
    BY <1>1, <2>1, <2>2, <2>3, CommandsFinite, FS_PigeonHole
<1>3. ASSUME stage = "handling" PROVE L + 2 <= N
  <2> DEFINE f == [i \in 1..(L + 2) |->
                     IF i = L + 2 THEN c ELSE IF i = L + 1 THEN current ELSE inbox[i]]
  <2>1. f \in [1..(L + 2) -> Cmds]
    BY <1>1, <1>3 DEF CacheIInv, TakenInv
  <2>2. \A i, j \in 1..(L + 2) : i # j => f[i] # f[j]
    BY <1>1, <1>3 DEF StreamInv
  <2>3. IsFiniteSet(1..(L + 2)) /\ Cardinality(1..(L + 2)) = L + 2
    BY <1>1, FS_Interval
  <2> HIDE DEF f
  <2>4. QED
    BY <1>1, <2>1, <2>2, <2>3, CommandsFinite, FS_PigeonHole
<1>4. QED
  BY <1>1, <1>2, <1>3

\* A command that was executed and is received again still has its entry.
LEMMA ReceivedInTime ==
    ASSUME QuickIInv, ~slow, stage = "idle", inbox # <<>>, runs[Head(inbox)] > 0
    PROVE  Hit(Head(inbox))
<1> DEFINE c == Head(inbox)
<1> USE DeliveryAssumption DEF QuickIInv, CacheIInv, ClockInv
<1>1. c \in Cmds /\ c = inbox[1] /\ 1 \in 1..Len(inbox)
  BY TakesHead
<1>2. N \in Nat /\ Quick \in Nat
  BY QuickTypes
<1>3. now <= sentAt[c] + Window + (N - 1) * Quick
  BY <1>1 DEF WaitInv
<1>4. sentAt[c] \in Nat /\ sentAt[c] <= begunAt[c]
  BY <1>1 DEF SentInv
<1>5. Window + (N - 1) * Quick <= TTL /\ (N - 1) * Quick \in Int
  BY <1>2, QuickTypes, Multiples, SMT
<1>6. now <= begunAt[c] + TTL
  BY <1>1, <1>3, <1>4, <1>5
<1>7. expiresAt[c] = begunAt[c] + TTL
  BY <1>1, <1>6 DEF CacheInv
<1>8. QED
  BY <1>1, <1>6, <1>7 DEF Hit, Never

\* So what is executed was not executed before.
LEMMA ExecutesNew ==
    ASSUME QuickIInv, ~slow, Execute
    PROVE  Head(inbox) \in Cmds /\ runs[Head(inbox)] = 0
<1>1. Head(inbox) \in Cmds
  BY TakesHead DEF Execute, QuickIInv, CacheIInv, ClockInv
<1>2. ~ runs[Head(inbox)] > 0
  BY ReceivedInTime DEF Execute
<1>3. QED
  BY <1>1, <1>2 DEF QuickIInv, CacheIInv, ClockInv

LEMMA StreamStep == QuickIInv /\ [Next]_vars => StreamInv'
<1> SUFFICES ASSUME QuickIInv, [Next]_vars PROVE StreamInv'
  OBVIOUS
<1> USE DEF StreamInv, QuickIInv
<1>0. inbox \in Seq(Cmds)
  BY DEF CacheIInv, ClockInv
<1>1. ASSUME NEW c \in Cmds, Send(c) PROVE StreamInv'
  <2>1. /\ up /\ c \notin onStream /\ up' = up /\ stage' = stage /\ current' = current
        /\ onStream' = onStream \cup {c} /\ inbox' = Append(inbox, c)
    BY <1>1 DEF Send, loopVars
  <2>2. /\ Len(inbox') = Len(inbox) + 1 /\ inbox'[Len(inbox')] = c
        /\ \A i \in 1..Len(inbox) : inbox'[i] = inbox[i]
    BY <1>0, <2>1
  <2>3. \A i \in 1..Len(inbox') : i = Len(inbox') \/ i \in 1..Len(inbox)
    BY <1>0, <2>2
  <2>4. QED
    BY <1>0, <2>1, <2>2, <2>3
<1>2. CASE StreamBreaks \/ Restart
  <2>1. inbox' = <<>> /\ Len(inbox') = 0 /\ ~up'
    BY <1>2 DEF StreamBreaks, Restart
  <2>2. QED
    BY <2>1
<1>3. CASE StreamOpens
  BY <1>3 DEF StreamOpens, cpVars, loopVars
<1>4. CASE Execute
  <2>1. /\ inbox # <<>> /\ inbox' = Tail(inbox) /\ current' = Head(inbox)
        /\ UNCHANGED <<up, onStream>>
    BY <1>4 DEF Execute, cpVars
  <2>2. QED
    BY <1>0, <2>1, TakesHead
<1>5. CASE Redelivered
  <2>1. /\ inbox # <<>> /\ inbox' = Tail(inbox) /\ stage' = "sending"
        /\ UNCHANGED <<up, onStream>>
    BY <1>5 DEF Redelivered, cpVars
  <2>2. QED
    BY <1>0, <2>1, TakesHead
<1>6. CASE HandlerReturns \/ SendResponse
  <2>1. stage' # "handling" /\ UNCHANGED <<up, onStream, inbox>>
    BY <1>6 DEF HandlerReturns, SendResponse, cpVars
  <2>2. QED
    BY <2>1
<1>7. CASE Tick \/ UNCHANGED vars
  BY <1>7 DEF Tick, vars, cpVars, loopVars
<1>8. CASE Refused
  <2>1. /\ inbox # <<>> /\ inbox' = Tail(inbox) /\ stage' = "idle"
        /\ UNCHANGED <<up, onStream>>
    BY <1>8 DEF Refused, loopVars
  <2>2. QED
    BY <1>0, <2>1, TakesHead
<1>9. QED
  BY <1>1, <1>2, <1>3, <1>4, <1>5, <1>6, <1>7, <1>8 DEF Next

LEMMA SentStep == QuickIInv /\ [Next]_vars => SentInv'
<1> SUFFICES ASSUME QuickIInv, [Next]_vars PROVE SentInv'
  OBVIOUS
<1> USE DEF SentInv, QuickIInv, Never
<1>0. /\ now \in Nat /\ runs \in [Cmds -> Nat] /\ begunAt \in [Cmds -> Nat]
      /\ inbox \in Seq(Cmds)
  BY DEF CacheIInv, ClockInv
<1>1. ASSUME NEW c \in Cmds, Send(c) PROVE SentInv'
  <2>1. /\ UNCHANGED <<now, runs, begunAt>> /\ onStream' = onStream \cup {c}
        /\ sentAt' = [sentAt EXCEPT ![c] = IF @ = Never THEN now ELSE @]
    BY <1>1 DEF Send, history
  <2>2. sentAt' \in [Cmds -> {Never} \cup Nat] /\ sentAt'[c] \in Nat
    BY <1>0, <2>1
  <2>3. sentAt'[c] <= now
    <3>1. CASE sentAt[c] = Never
      BY <1>0, <2>1, <3>1
    <3>2. CASE sentAt[c] # Never
      BY <1>0, <2>1, <3>2
    <3>3. QED
      BY <3>1, <3>2
  <2>4. \A d \in Cmds : runs[d] > 0 => sentAt'[d] \in Nat /\ sentAt'[d] <= begunAt[d]
    BY <1>0, <2>1
  <2>5. QED
    BY <1>0, <2>1, <2>2, <2>3, <2>4
<1>2. CASE StreamBreaks \/ Restart
  BY <1>0, <1>2 DEF StreamBreaks, Restart, history
<1>3. CASE StreamOpens \/ Redelivered \/ Refused
  BY <1>0, <1>3 DEF StreamOpens, Redelivered, Refused, cpVars, history
<1>4. CASE Execute
  <2>1. Head(inbox) \in Cmds /\ Head(inbox) \in onStream
    BY <1>0, <1>4, TakesHead DEF Execute, StreamInv
  <2>2. QED
    BY <1>0, <1>4, <2>1 DEF Execute, cpVars
<1>5. CASE HandlerReturns \/ SendResponse
  BY <1>0, <1>5 DEF HandlerReturns, SendResponse, cpVars
<1>6. CASE Tick
  <2>1. UNCHANGED <<sentAt, onStream, runs, begunAt>> /\ now' = now + 1
    BY <1>6 DEF Tick, cpVars, history
  <2>2. \A c \in Cmds : sentAt[c] \in Int /\ sentAt[c] <= now + 1
    BY <1>0
  <2>3. QED
    BY <2>1, <2>2
<1>7. CASE UNCHANGED vars
  BY <1>7 DEF vars, cpVars, history
<1>8. QED
  BY <1>1, <1>2, <1>3, <1>4, <1>5, <1>6, <1>7 DEF Next

LEMMA WaitStep == QuickIInv /\ [Next]_vars => WaitInv'
<1> SUFFICES ASSUME QuickIInv, [Next]_vars, ~slow' PROVE WaitInv'
  BY DEF WaitInv
<1>l. CASE Restart
  <2>1. Len(inbox') = 0 /\ stage' = "idle"
    BY <1>l DEF Restart
  <2>2. QED
    BY <2>1 DEF WaitInv
<1>r. SUFFICES ASSUME ~Restart PROVE WaitInv'
  BY <1>l
<1>q. ~slow
  BY <1>r DEF Next, Send, StreamBreaks, StreamOpens, Tick, Refused, Execute, Redelivered,
              HandlerReturns, SendResponse, lifeVars, vars
<1> USE <1>q, DeliveryAssumption DEF WaitInv, QuickIInv
<1>0. /\ now \in Nat /\ taken \in Nat /\ taken <= now /\ inbox \in Seq(Cmds)
      /\ stage \in {"idle", "handling", "sending"}
  BY DEF CacheIInv, ClockInv, TakenInv
<1>n. N \in Nat /\ Quick \in Nat
  BY QuickTypes
<1>s. \A i \in 1..Len(inbox) : sentAt[inbox[i]] \in Nat /\ sentAt[inbox[i]] <= now
  BY DEF SentInv, StreamInv
<1>m. \A i \in Int : /\ (N - i) * Quick \in Int /\ (N - 1 - i) * Quick \in Int
                     /\ (N - i) * Quick = (N - 1 - i) * Quick + Quick
                     /\ (N - i) * Quick = (N - 1 - (i - 1)) * Quick
                     /\ (N - i + 1) * Quick = (N - i) * Quick + Quick
  <2> TAKE i \in Int
  <2>1. N - 1 - i \in Int /\ N - i \in Int /\ (N - 1 - i) + 1 = N - i /\ N - 1 - (i - 1) = N - i
    BY <1>n
  <2>2. (N - i) * Quick = (N - 1 - i) * Quick + Quick
    BY <2>1, OneMoreRun
  <2>3. (N - i + 1) * Quick = (N - i) * Quick + Quick
    BY <2>1, OneMoreRun
  <2>4. (N - i) * Quick \in Int /\ (N - 1 - i) * Quick \in Int
    BY <2>1, IntMultiples
  <2>5. QED
    BY <2>1, <2>2, <2>3, <2>4
<1>1. ASSUME NEW c \in Cmds, Send(c) PROVE WaitInv'
  <2>1. /\ up /\ c \notin onStream /\ UNCHANGED <<now, taken, stage>>
        /\ inbox' = Append(inbox, c) /\ sentAt' \in [Cmds -> {Never} \cup Nat]
        /\ sentAt'[c] \in Nat /\ now <= sentAt'[c] + Window
        /\ \A d \in Cmds : d # c => sentAt'[d] = sentAt[d]
    BY <1>0, <1>1 DEF Send, SentInv, loopVars, Never
  <2> DEFINE L == Len(inbox)
  <2>2. /\ L \in Nat /\ Len(inbox') = L + 1 /\ inbox'[L + 1] = c
        /\ \A i \in 1..L : inbox'[i] = inbox[i] /\ inbox[i] \in Cmds /\ inbox[i] # c
    BY <1>0, <2>1 DEF StreamInv
  <2>3. L + 1 <= N /\ (stage = "handling" => L + 2 <= N)
    BY <2>1, RoomInQueue
  <2>4. (N - (L + 1)) * Quick \in Nat
    <3>1. N - (L + 1) \in Nat
      BY <1>n, <2>2, <2>3
    <3>2. QED
      BY <3>1, Multiples
  <2>5. stage = "handling" => (N - 1 - (L + 1)) * Quick \in Nat
    <3> SUFFICES ASSUME stage = "handling" PROVE (N - 1 - (L + 1)) * Quick \in Nat
      OBVIOUS
    <3>1. N - 1 - (L + 1) \in Nat
      BY <1>n, <2>2, <2>3
    <3>2. QED
      BY <3>1, Multiples
  <2>6. ASSUME NEW i \in 1..Len(inbox')
        PROVE  IF stage' = "handling"
                 THEN taken' <= sentAt'[inbox'[i]] + Window + (N - 1 - i) * Quick
                 ELSE now' <= sentAt'[inbox'[i]] + Window + (N - i) * Quick
    <3>1. CASE i = L + 1
      BY <1>0, <2>1, <2>2, <2>4, <2>5, <3>1
    <3>2. CASE i # L + 1
      <4>1. i \in 1..L
        BY <2>2, <3>2
      <4>2. inbox'[i] = inbox[i] /\ sentAt'[inbox'[i]] = sentAt[inbox[i]]
        BY <2>1, <2>2, <4>1
      <4>3. QED
        BY <2>1, <4>1, <4>2
    <3>3. QED
      BY <3>1, <3>2
  <2>7. QED
    BY <2>1, <2>6
<1>2. CASE StreamBreaks
  <2>1. Len(inbox') = 0
    BY <1>2 DEF StreamBreaks
  <2>2. QED
    BY <1>2, <2>1 DEF StreamBreaks, loopVars
<1>3. CASE StreamOpens
  BY <1>3 DEF StreamOpens, cpVars, loopVars
<1>4. CASE Tick
  <2>1. CASE stage = "handling"
    <3>1. /\ now' = now + 1 /\ ~(now' > taken + Quick)
          /\ UNCHANGED <<taken, stage, inbox, sentAt>>
      BY <1>4, <2>1 DEF Tick, cpVars, loopVars
    <3>2. now' <= taken' + Quick
      BY <1>0, <1>n, <3>1
    <3>3. QED
      BY <2>1, <3>1, <3>2
  <2>2. CASE stage = "idle"
    <3>1. Len(inbox) = 0
      BY <1>4, <2>2 DEF Tick
    <3>2. QED
      BY <1>4, <2>2, <3>1 DEF Tick, cpVars, loopVars
  <2>3. QED
    BY <1>0, <1>4, <2>1, <2>2 DEF Tick
<1>5. CASE Execute \/ Redelivered
  <2>1. /\ inbox # <<>> /\ inbox' = Tail(inbox) /\ stage = "idle" /\ taken' = now
        /\ stage' \in {"handling", "sending"} /\ UNCHANGED <<now, sentAt>>
    BY <1>5 DEF Execute, Redelivered, cpVars
  <2>2. ASSUME NEW i \in 1..Len(inbox')
        PROVE  /\ i \in Int /\ inbox'[i] \in Cmds /\ sentAt[inbox'[i]] \in Nat
               /\ now <= sentAt[inbox'[i]] + Window + (N - 1 - i) * Quick
    <3>1. i \in Nat /\ i + 1 \in 1..Len(inbox) /\ inbox'[i] = inbox[i + 1] /\ inbox'[i] \in Cmds
      BY <1>0, <2>1, TakesHead
    <3>2. now <= sentAt[inbox'[i]] + Window + (N - (i + 1)) * Quick
      BY <2>1, <3>1
    <3>3. N - (i + 1) = N - 1 - i
      BY <1>n, <3>1
    <3>4. QED
      BY <1>s, <3>1, <3>2, <3>3
  <2>3. ASSUME NEW i \in 1..Len(inbox')
        PROVE  now <= sentAt[inbox'[i]] + Window + (N - i) * Quick
    <3>1. /\ (N - i) * Quick = (N - 1 - i) * Quick + Quick
          /\ (N - 1 - i) * Quick \in Int
      BY <2>2, <1>m
    <3>2. now \in Int /\ now <= now + Quick
      BY <1>0, <1>n
    <3>3. /\ sentAt[inbox'[i]] \in Nat
          /\ now <= sentAt[inbox'[i]] + Window + (N - 1 - i) * Quick
      BY <2>2
    <3>4. Window \in Nat
      OBVIOUS
    <3> HIDE <1>q, DeliveryAssumption DEF WaitInv, QuickIInv
    <3>5. sentAt[inbox'[i]] + Window \in Int
      BY <3>3, <3>4
    <3> DEFINE b == sentAt[inbox'[i]] + Window
               p == (N - 1 - i) * Quick
               q == (N - i) * Quick
    <3>6. /\ now \in Int /\ Quick \in Nat /\ now <= now + Quick
          /\ b \in Int /\ p \in Int /\ now <= b + p /\ q = p + Quick
      BY <1>n, <3>1, <3>2, <3>3, <3>5
    <3>7. now <= b + q
      <4> HIDE DEF b, p, q
      <4>1. QED
        BY <3>6
    <3>8. QED
      BY <3>7
  <2>4. stage' = "handling" => now' <= taken' + Quick
    BY <1>0, <1>n, <2>1
  <2>5. QED
    BY <1>0, <2>1, <2>2, <2>3, <2>4
<1>6. CASE HandlerReturns
  <2>1. stage = "handling" /\ stage' = "sending" /\ UNCHANGED <<now, sentAt, inbox, taken>>
    BY <1>6 DEF HandlerReturns, cpVars
  <2>2. ASSUME NEW i \in 1..Len(inbox)
        PROVE  now <= sentAt[inbox[i]] + Window + (N - i) * Quick
    <3>1. i \in Int /\ taken <= sentAt[inbox[i]] + Window + (N - 1 - i) * Quick
      BY <2>1
    <3>2. /\ (N - i) * Quick = (N - 1 - i) * Quick + Quick
          /\ (N - 1 - i) * Quick \in Int
      BY <3>1, <1>m
    <3>3. /\ now \in Int /\ taken \in Int /\ now <= taken + Quick
          /\ sentAt[inbox[i]] + Window \in Int
      BY <1>0, <1>n, <1>s, <2>1
    <3> HIDE <1>q, DeliveryAssumption DEF WaitInv, QuickIInv
    <3> DEFINE b == sentAt[inbox[i]] + Window
               p == (N - 1 - i) * Quick
               q == (N - i) * Quick
    <3>4. /\ now \in Int /\ taken \in Int /\ Quick \in Nat /\ now <= taken + Quick
          /\ b \in Int /\ p \in Int /\ taken <= b + p /\ q = p + Quick
      BY <1>n, <3>1, <3>2, <3>3
    <3>5. now <= b + q
      <4> HIDE DEF b, p, q
      <4>1. QED
        BY <3>4
    <3>6. QED
      BY <3>5
  <2>3. QED
    BY <2>1, <2>2
<1>7. CASE SendResponse
  BY <1>7 DEF SendResponse
<1>8. CASE UNCHANGED vars
  BY <1>8 DEF vars, cpVars, loopVars
<1>9. CASE Refused
  <2>1. /\ inbox # <<>> /\ inbox' = Tail(inbox) /\ stage = "idle" /\ stage' = "idle"
        /\ UNCHANGED <<now, sentAt>>
    BY <1>9 DEF Refused, loopVars
  <2>2. ASSUME NEW i \in 1..Len(inbox')
        PROVE  now <= sentAt[inbox'[i]] + Window + (N - i) * Quick
    <3>1. i \in Nat /\ i + 1 \in 1..Len(inbox) /\ inbox'[i] = inbox[i + 1]
      BY <1>0, <2>1, TakesHead
    <3>2. now <= sentAt[inbox'[i]] + Window + (N - (i + 1)) * Quick
      BY <2>1, <3>1
    <3>3. /\ (N - i) * Quick = (N - (i + 1)) * Quick + Quick
          /\ (N - (i + 1)) * Quick \in Int
      <4>1. N - (i + 1) = N - 1 - i
        BY <1>n, <3>1
      <4>2. QED
        BY <4>1, <3>1, <1>m
    <3>4. sentAt[inbox'[i]] \in Nat
      BY <1>s, <3>1
    <3>5. /\ now \in Int /\ now <= now + Quick /\ sentAt[inbox'[i]] + Window \in Int
      BY <1>0, <1>n, <3>4
    <3> HIDE <1>q, DeliveryAssumption DEF WaitInv, QuickIInv
    <3> DEFINE b == sentAt[inbox'[i]] + Window
               p == (N - (i + 1)) * Quick
               q == (N - i) * Quick
    <3>6. /\ now \in Int /\ Quick \in Nat /\ now <= now + Quick
          /\ b \in Int /\ p \in Int /\ now <= b + p /\ q = p + Quick
      BY <1>n, <3>2, <3>3, <3>5
    <3>7. now <= b + q
      <4> HIDE DEF b, p, q
      <4>1. QED
        BY <3>6
    <3>8. QED
      BY <3>7
  <2>3. QED
    BY <2>1, <2>2
<1>10. QED
  BY <1>r, <1>1, <1>2, <1>3, <1>4, <1>5, <1>6, <1>7, <1>8, <1>9 DEF Next

LEMMA OnceQuickStep == QuickIInv /\ [Next]_vars => OnceWhileQuick'
<1> SUFFICES ASSUME QuickIInv, [Next]_vars, ~slow', NEW c \in Cmds PROVE runs'[c] <= 1
  BY DEF OnceWhileQuick
<1> USE DEF QuickIInv, OnceWhileQuick, CacheIInv, ClockInv
<1>1. CASE Execute
  <2>1. ~slow /\ runs' = [runs EXCEPT ![Head(inbox)] = @ + 1]
    BY <1>1 DEF Execute, lifeVars
  <2>2. Head(inbox) \in Cmds /\ runs[Head(inbox)] = 0
    BY <1>1, <2>1, ExecutesNew
  <2>3. QED
    BY <2>1, <2>2
<1>2. CASE Restart
  BY <1>2 DEF Restart
<1>3. CASE ~Execute /\ ~Restart
  <2>1. CASE HandlerReturns \/ SendResponse
    BY <2>1 DEF HandlerReturns, SendResponse, lifeVars
  <2>2. CASE ~(HandlerReturns \/ SendResponse)
    BY <1>3, <2>2 DEF Next, Send, StreamBreaks, StreamOpens, Tick, Refused, Redelivered,
                lifeVars, history, vars
  <2>3. QED
    BY <2>1, <2>2
<1>4. QED
  BY <1>1, <1>2, <1>3

LEMMA QuickStep == QuickIInv /\ [Next]_vars => QuickIInv'
BY CacheStep, StreamStep, SentStep, WaitStep, OnceQuickStep DEF QuickIInv

\* While no handler takes longer than Quick, no command is executed twice however
\* it is redelivered, for as many commands as fit in TTL: what waits behind a
\* handler of each other one still finds its entry (dedup.go:12-17, 68-100).
THEOREM QuickOnce == Spec => []OnceWhileQuick
<1>1. QuickIInv => OnceWhileQuick
  BY DEF QuickIInv
<1>2. QED
  BY <1>1, InitQuick, QuickStep, PTL DEF Spec

-----------------------------------------------------------------------------
(* The types.  That only answers are sent needs that an entry in force has *)
(* one, and that the loop has a command in its hands except when idle.     *)

HasAnswer ==
    /\ \A c \in Cmds : expiresAt[c] # Never => cached[c] \in Outcomes
    /\ stage # "idle" => current \in Cmds
    /\ stage = "sending" => answer \in Outcomes

TypeIInv == TypeOK /\ HasAnswer

LEMMA InitType == Init => TypeIInv
<1> SUFFICES ASSUME Init PROVE TypeIInv
  OBVIOUS
<1>1. up \in BOOLEAN /\ slow \in BOOLEAN
  BY Zenon DEF Init
<1>2. inbox \in Seq(Cmds) /\ onStream \subseteq Cmds /\ answered \subseteq Cmds
      /\ replied \subseteq Cmds \X Outcomes
  BY DEF Init
<1>3. TypeOK
  BY <1>1, <1>2, DeliveryAssumption DEF Init, TypeOK
<1>4. HasAnswer
  BY DEF Init, HasAnswer
<1>5. QED
  BY <1>3, <1>4 DEF TypeIInv

LEMMA TypeStep == TypeIInv /\ [Next]_vars => TypeIInv'
<1> SUFFICES ASSUME TypeIInv, [Next]_vars PROVE TypeIInv'
  OBVIOUS
<1> USE DeliveryAssumption DEF TypeIInv, TypeOK, HasAnswer, lifeVars
<1>1. ASSUME NEW c \in Cmds, Send(c) PROVE TypeIInv'
  BY <1>1 DEF Send, loopVars, cacheVars, history
<1>2. CASE StreamBreaks \/ StreamOpens
  <2>1. up' \in BOOLEAN
    BY <1>2, Zenon DEF StreamBreaks, StreamOpens
  <2>2. inbox' \in Seq(Cmds) /\ onStream' \subseteq Cmds
    <3>1. CASE StreamBreaks
      BY <3>1 DEF StreamBreaks
    <3>2. CASE StreamOpens
      BY <3>2 DEF StreamOpens, cpVars
    <3>3. QED
      BY <1>2, <3>1, <3>2
  <2>3. UNCHANGED <<now, sentAt, answered, loopVars, cacheVars, lifeVars, history>>
    BY <1>2 DEF StreamBreaks, StreamOpens, cpVars
  <2>4. QED
    BY <2>1, <2>2, <2>3 DEF loopVars, cacheVars, history
<1>3. CASE Tick
  <2>1. slow' \in BOOLEAN
    BY <1>3, Zenon DEF Tick
  <2>2. QED
    BY <1>3, <2>1 DEF Tick, cpVars, loopVars, cacheVars, history
<1>4. CASE Execute
  <2>1. Head(inbox) \in Cmds /\ Tail(inbox) \in Seq(Cmds)
    BY <1>4 DEF Execute
  <2>2. QED
    BY <1>4, <2>1 DEF Execute, cpVars, cacheVars
<1>5. CASE Redelivered
  <2>1. Head(inbox) \in Cmds /\ Tail(inbox) \in Seq(Cmds)
    BY <1>5 DEF Redelivered
  <2>2. cached[Head(inbox)] \in Outcomes
    BY <1>5, <2>1 DEF Redelivered, Hit
  <2>3. QED
    BY <1>5, <2>1, <2>2 DEF Redelivered, cpVars, cacheVars, history
<1>6. CASE HandlerReturns
  <2>1. PICK o \in Outcomes :
          Remember(current, o) /\ answer' = o /\ result' = [result EXCEPT ![current] = o]
    BY <1>6 DEF HandlerReturns
  <2>2. current \in Cmds /\ taken + TTL \in Nat
    BY <1>6 DEF HandlerReturns
  <2>3. expiresAt' \in [Cmds -> {Never} \cup Nat]
    BY <2>1, <2>2 DEF Remember
  <2>4. /\ cached' \in [Cmds -> Outcomes \cup {NoOutcome}]
        /\ \A c \in Cmds : expiresAt'[c] # Never => cached'[c] \in Outcomes
    BY <2>1, <2>2 DEF Remember
  <2>5. QED
    BY <1>6, <2>1, <2>2, <2>3, <2>4 DEF HandlerReturns, cpVars
<1>7. CASE SendResponse
  BY <1>7 DEF SendResponse, cacheVars
<1>8. CASE Restart
  <2>1. up' \in BOOLEAN /\ slow' \in BOOLEAN
    BY <1>8, Zenon DEF Restart
  <2>2. inbox' \in Seq(Cmds) /\ onStream' \subseteq Cmds /\ replied' \subseteq Cmds \X Outcomes
    BY <1>8 DEF Restart
  <2>3. TypeOK'
    BY <1>8, <2>1, <2>2 DEF Restart
  <2>4. HasAnswer'
    BY <1>8 DEF Restart
  <2>5. QED
    BY <2>3, <2>4
<1>9. CASE UNCHANGED vars
  BY <1>9 DEF vars, cpVars, loopVars, cacheVars, history
<1>10. CASE Refused
  <2>1. Head(inbox) \in Cmds /\ Tail(inbox) \in Seq(Cmds)
    BY <1>10 DEF Refused
  <2>2. QED
    BY <1>10, <2>1 DEF Refused, loopVars, cacheVars, history
<1>11. QED
  BY <1>1, <1>2, <1>3, <1>4, <1>5, <1>6, <1>7, <1>8, <1>9, <1>10 DEF Next

\* Every variable keeps to its values; what is received for a command is an answer of a
\* handler, never the absence of one (start.go:708-755).
THEOREM TypeCorrect == Spec => []TypeOK
<1>1. TypeIInv => TypeOK
  BY DEF TypeIInv
<1>2. QED
  BY <1>1, InitType, TypeStep, PTL DEF Spec
=============================================================================
