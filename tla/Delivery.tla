------------------------------- MODULE Delivery -------------------------------
(***************************************************************************)
(* Commands on their way from the control plane to a handler and back:     *)
(* the command loop (handleCommands in cmd/start.go) and the dedup cache   *)
(* it consults (cmd/dedup.go), with the time that passes meanwhile.        *)
(*                                                                         *)
(* The control plane is external: it sends a command once, and again on a  *)
(* later stream while it has no answer, for Window after the first time.   *)
(* Streams follow one another (Session!OneStreamAtATime), so there is one  *)
(* loop; what a broken stream still carried is lost.                       *)
(***************************************************************************)
EXTENDS Integers, Sequences, FiniteSets

CONSTANTS
    Cmds,        \* command ids
    Outcomes,    \* what a handler may return
    NoOutcome, NoCmd,
    TTL,         \* commandDedupTTL
    MaxRun,      \* the longest a handler runs (commandTimeoutFor)
    Window,      \* how long after the first time the server sends again
    Quick,       \* how long a handler may run and be called quick (of no code)
    MaxTime,     \* the clock (bound)
    MaxRestarts  \* crashes of the process (bound)

ASSUME DeliveryAssumption ==
    /\ NoOutcome \notin Outcomes /\ NoCmd \notin Cmds
    /\ TTL \in Nat /\ MaxRun \in Nat /\ Window \in Nat /\ MaxTime \in Nat /\ MaxRestarts \in Nat

\* What is called quick: the cache outlives the redeliveries of a command that
\* waits behind a quick handler of each other one.  That takes a TTL no shorter
\* than the redelivery window (the comment on commandDedupTTL); how long
\* handlers do run, MaxRun, is not restricted by it.
ASSUME QuickAssumption ==
    /\ IsFiniteSet(Cmds) /\ Quick \in Nat
    /\ Window + (Cardinality(Cmds) - 1) * Quick <= TTL

Never == -1

VARIABLES
    now,        \* the clock
    \* the control plane
    sentAt,     \* sentAt[c]: when c was first sent, or Never
    onStream,   \* the commands it sent on the current stream
    answered,   \* the commands it has an answer to
    \* the stream
    up,         \* there is one
    inbox,      \* the commands sent and not yet received
    \* the client
    expiresAt,  \* entries[c].expiresAt, Never when there is no entry
    cached,     \* entries[c].resp
    current,    \* the command in the loop's hands, or NoCmd
    stage,      \* "idle", "handling", "sending"
    taken,      \* the loop's variable now: the time it took that command
    answer,     \* the response being sent
    restarts,
    slow,       \* a handler of this life of the process was not quick
    \* history, of this life of the process
    replied,    \* the <<command, outcome>> answers that were received
    runs,       \* runs[c]: executions begun
    begunAt,    \* begunAt[c]: when the last one began
    result      \* result[c]: what the last one returned

cpVars    == <<sentAt, onStream, answered>>
loopVars  == <<current, stage, taken, answer>>
cacheVars == <<expiresAt, cached>>
lifeVars  == <<restarts, slow>>
history   == <<replied, runs, begunAt, result>>
vars == <<now, cpVars, up, inbox, loopVars, cacheVars, lifeVars, history>>

TypeOK ==
    /\ now \in 0..MaxTime /\ up \in BOOLEAN /\ slow \in BOOLEAN /\ restarts \in 0..MaxRestarts
    /\ sentAt \in [Cmds -> {Never} \cup 0..MaxTime] /\ onStream \subseteq Cmds
    /\ answered \subseteq Cmds /\ replied \subseteq Cmds \X Outcomes
    /\ inbox \in Seq(Cmds)
    /\ expiresAt \in [Cmds -> {Never} \cup Nat]
    /\ cached \in [Cmds -> Outcomes \cup {NoOutcome}]
    /\ current \in Cmds \cup {NoCmd} /\ stage \in {"idle", "handling", "sending"}
    /\ taken \in 0..MaxTime /\ answer \in Outcomes \cup {NoOutcome}
    /\ runs \in [Cmds -> Nat] /\ begunAt \in [Cmds -> 0..MaxTime]
    /\ result \in [Cmds -> Outcomes \cup {NoOutcome}]

Init ==
    /\ now = 0 /\ restarts = 0 /\ slow = FALSE
    /\ sentAt = [c \in Cmds |-> Never] /\ onStream = {} /\ answered = {}
    /\ up = FALSE /\ inbox = <<>>
    /\ current = NoCmd /\ stage = "idle" /\ taken = 0 /\ answer = NoOutcome
    /\ expiresAt = [c \in Cmds |-> Never] /\ cached = [c \in Cmds |-> NoOutcome]
    /\ replied = {} /\ runs = [c \in Cmds |-> 0] /\ begunAt = [c \in Cmds |-> 0]
    /\ result = [c \in Cmds |-> NoOutcome]
-----------------------------------------------------------------------------
(* The control plane and the stream. *)

Send(c) ==
    /\ up /\ c \notin onStream \cup answered
    /\ sentAt[c] = Never \/ now <= sentAt[c] + Window
    /\ sentAt' = [sentAt EXCEPT ![c] = IF @ = Never THEN now ELSE @]
    /\ onStream' = onStream \cup {c}
    /\ inbox' = Append(inbox, c)
    /\ UNCHANGED <<now, answered, up, loopVars, cacheVars, lifeVars, history>>

StreamBreaks ==
    /\ up
    /\ up' = FALSE /\ inbox' = <<>> /\ onStream' = {}
    /\ UNCHANGED <<now, sentAt, answered, loopVars, cacheVars, lifeVars, history>>

\* The next stream opens only when the loop of the last one is over.
StreamOpens ==
    /\ ~up /\ stage = "idle"
    /\ up' = TRUE
    /\ UNCHANGED <<now, cpVars, inbox, loopVars, cacheVars, lifeVars, history>>

\* Time passes, though not past a handler's timeout, and not while the loop
\* has something to receive or to send: that takes no time on this scale.
Tick ==
    /\ now < MaxTime
    /\ stage = "handling" => now < taken + MaxRun
    /\ stage = "idle" => inbox = <<>>
    /\ stage # "sending"
    /\ now' = now + 1
    /\ slow' = (slow \/ (stage = "handling" /\ now' > taken + Quick))
    /\ UNCHANGED <<cpVars, up, inbox, loopVars, cacheVars, restarts, history>>
-----------------------------------------------------------------------------
(* The command loop. *)

\* Mutant of Hit: the expiry itself no longer counts.
HitBeforeExpiry(c) == expiresAt[c] # Never /\ now < expiresAt[c]

\* deduper.get: an entry is good up to and including its expiry.
Hit(c) == expiresAt[c] # Never /\ now <= expiresAt[c]

\* validateCommand refuses a command whose token is not the stream's copy: it is
\* answered with an error and never looked up.
Refused ==
    /\ stage = "idle" /\ inbox # <<>>
    /\ answered' = answered \cup {Head(inbox)}
    /\ inbox' = Tail(inbox)
    /\ UNCHANGED <<now, sentAt, onStream, up, loopVars, cacheVars, lifeVars, history>>

\* A command that is not in the cache is handed to its handler ...
Execute ==
    /\ stage = "idle" /\ inbox # <<>> /\ ~Hit(Head(inbox))
    /\ LET c == Head(inbox) IN
         /\ current' = c
         /\ runs' = [runs EXCEPT ![c] = @ + 1]
         /\ begunAt' = [begunAt EXCEPT ![c] = now]
         /\ result' = [result EXCEPT ![c] = NoOutcome]
    /\ inbox' = Tail(inbox)
    /\ stage' = "handling" /\ taken' = now
    /\ UNCHANGED <<now, cpVars, up, answer, cacheVars, lifeVars, replied>>

\* Mutant of Redelivered: a duplicate is dropped instead of answered.
DuplicateDropped ==
    /\ stage = "idle" /\ inbox # <<>> /\ Hit(Head(inbox))
    /\ inbox' = Tail(inbox)
    /\ UNCHANGED <<now, cpVars, up, loopVars, cacheVars, lifeVars, history>>

\* ... and one that is gets the cached response.
Redelivered ==
    /\ stage = "idle" /\ inbox # <<>> /\ Hit(Head(inbox))
    /\ current' = Head(inbox)
    /\ answer' = cached[Head(inbox)]
    /\ inbox' = Tail(inbox)
    /\ stage' = "sending" /\ taken' = now
    /\ UNCHANGED <<now, cpVars, up, cacheVars, lifeVars, history>>

\* Mutants of Remember: a response that cannot be sent is not kept; one entry is.
RememberSent(c, o) ==
    /\ expiresAt' = [d \in Cmds |-> IF d = c /\ up THEN taken + TTL
                                    ELSE IF taken > expiresAt[d] THEN Never ELSE expiresAt[d]]
    /\ cached' = [cached EXCEPT ![c] = o]
RememberOnlyLast(c, o) ==
    /\ expiresAt' = [d \in Cmds |-> IF d = c THEN taken + TTL ELSE Never]
    /\ cached' = [cached EXCEPT ![c] = o]

\* deduper.remember, with the time the command was taken, not the time it is.
\* Every other entry that had expired by then goes.
Remember(c, o) ==
    /\ expiresAt' = [d \in Cmds |-> IF d = c THEN taken + TTL
                                    ELSE IF taken > expiresAt[d] THEN Never ELSE expiresAt[d]]
    /\ cached' = [cached EXCEPT ![c] = o]

\* The handler returns, by its timeout at the latest, a response (none returns
\* nil, so what the loop does then is left out).  That the stream broke
\* meanwhile is only noticed when the response is sent.
HandlerReturns ==
    /\ stage = "handling"
    /\ \E o \in Outcomes :
         /\ Remember(current, o)
         /\ answer' = o
         /\ result' = [result EXCEPT ![current] = o]
    /\ stage' = "sending"
    /\ UNCHANGED <<now, cpVars, up, inbox, current, taken, lifeVars, replied, runs, begunAt>>

SendResponse ==
    /\ stage = "sending"
    /\ IF up
         THEN answered' = answered \cup {current} /\ replied' = replied \cup {<<current, answer>>}
         ELSE UNCHANGED <<answered, replied>>
    /\ stage' = "idle" /\ current' = NoCmd /\ answer' = NoOutcome
    /\ UNCHANGED <<now, sentAt, onStream, up, inbox, taken, cacheVars, lifeVars, runs, begunAt,
                   result>>

\* The process crashes and starts again; the cache was in memory only.
Restart ==
    /\ restarts < MaxRestarts
    /\ restarts' = restarts + 1 /\ slow' = FALSE
    /\ up' = FALSE /\ inbox' = <<>> /\ onStream' = {}
    /\ current' = NoCmd /\ stage' = "idle" /\ answer' = NoOutcome
    /\ expiresAt' = [c \in Cmds |-> Never] /\ cached' = [c \in Cmds |-> NoOutcome]
    /\ replied' = {} /\ runs' = [c \in Cmds |-> 0] /\ result' = [c \in Cmds |-> NoOutcome]
    /\ UNCHANGED <<now, sentAt, answered, taken, begunAt>>
-----------------------------------------------------------------------------
Next == \/ \E c \in Cmds : Send(c)
        \/ StreamBreaks \/ StreamOpens \/ Tick
        \/ Refused \/ Execute \/ Redelivered \/ HandlerReturns \/ SendResponse
        \/ Restart

\* The loop is scheduled and handlers end; the server and the link need not act.
LoopStep == Execute \/ Redelivered \/ HandlerReturns \/ SendResponse

Spec == Init /\ [][Next]_vars
FairSpec == Spec /\ WF_vars(LoopStep)
-----------------------------------------------------------------------------
(* Properties. *)

\* Refinement: the history variables are the abstract state, the cache and the
\* stream implement it.  Any execution that began more than TTL ago may be
\* forgotten.
Once == INSTANCE OnceOnly WITH stale <- {c \in Cmds : now > begunAt[c] + TTL}

\* A command is executed again only when its last execution ended and began more
\* than TTL ago, and what is received for it is always the outcome of its last
\* execution, which had ended -- however long handlers run (dedup.go:33-36, 84-100).
ImplementsOnce == Once!Spec

\* "a redelivered command (same id) is answered from cache instead of being
\* executed a second time" (dedup.go:33-35) as long as handlers are quick: a
\* command that has to wait behind one handler of each other command still finds
\* its entry (dedup.go:12-17).  It is not when a handler runs longer than TTL, as
\* 10 or 30 minutes against 5 allow (manager.go:21, 28).
OnceWhileQuick == ~slow => \A c \in Cmds : runs[c] <= 1

\* Whatever the timing, a command is executed again only when more than TTL has
\* passed since its last execution began: neither the cleaning that other
\* commands' entries cause nor a slow handler shortens that (dedup.go:74-100).
ReexecutedOnlyAfterTTL ==
    [][\A c \in Cmds : runs[c] > 0 /\ runs'[c] > runs[c] => now > begunAt[c] + TTL]_vars

\* A command sent on a stream is answered on it, first or repeated delivery
\* alike, unless the stream breaks (start.go:714-747).
SentIsAnswered == \A c \in Cmds : (c \in onStream) ~> (c \in answered \/ ~up)
=============================================================================
