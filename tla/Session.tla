------------------------------- MODULE Session -------------------------------
(***************************************************************************)
(* The client's session (cmd/start.go): the main loop that registers,      *)
(* streams and re-registers; the two goroutines of a command stream        *)
(* (handleCommandStream, here the manager, and StreamCommands, here the    *)
(* command loop); the stream's health monitor; the callbacks the heartbeat *)
(* spawns to re-register; the signal handler and the final Shutdown.       *)
(*                                                                         *)
(* A select is modelled as Go runs it: a goroutine that reaches a select   *)
(* takes any case that is ready, else it parks, and a parked one is woken  *)
(* by the first event, which is handed to it.  So "arriving" states choose *)
(* and "parked" states are changed by whoever makes a case ready.          *)
(*                                                                         *)
(* Registration r, the token the server issued for it, the stream opened   *)
(* after it and that stream's channels all carry the number r.             *)
(***************************************************************************)
EXTENDS Heartbeat

CONSTANTS
    MaxRetries,   \* mainLoop's maxRetries for a failing Connect
    MaxForgets    \* times the control plane loses the registration (bound)

ASSUME RetryAssumption == MaxRetries \in Nat \ {0} /\ MaxForgets \in Nat

VARIABLES
    main,         \* where mainLoop (and then cleanup) is
    retryCount,   \* its retryCount
    signalled,    \* m.ctx is cancelled
    lock,         \* the session mutex: "free" or the goroutine that holds it
    isConnected,  \* s.isConnected
    token,        \* s.sessionToken, 0 for the empty string
    reg,          \* registrations made so far: the number of the latest
    linkUp,       \* the connection the current stub is bound to works
    cmd,          \* cmd[r]: the command loop of stream r
    mgr,          \* mgr[r]: the manager goroutine of stream r
    health,       \* health[r]: the health monitor of stream r
    errBuf,       \* errBuf[r]: errChan's one slot is taken
    streamErr,    \* streamErr[r]: streamErrChan's slot is taken
    cancelled,    \* cancelled[r]: streamCancel was called
    tok,          \* tok[r]: the session token stream r copied, 0 before
    known,        \* the registration the control plane has, 0 for none
    forgets,      \* how often it lost one
    liveAtSignal, \* the registration the signal found connected, or 0
    parkedAtSignal, \* the signal found mainLoop waiting in its select
    unregistered, \* the registrations Shutdown sent Unregister for
    torn,         \* what a callback tore down of what the signal found
    dropped       \* what mainLoop marked down of it after a stream error

streamVars == <<cmd, mgr, health, errBuf, streamErr, cancelled, tok>>
sessVars   == <<lock, isConnected, token, reg, linkUp>>
mainVars   == <<main, retryCount>>
markVars   == <<liveAtSignal, parkedAtSignal, unregistered, torn, dropped>>
envVars    == <<signalled, known, forgets, markVars>>
vars       == <<hbVars, streamVars, sessVars, mainVars, envVars>>

MainPC == {"top", "connecting", "hbStopping", "hbStarting", "retryWait", "arriving",
           "parked", "awaitCtx", "awaitErr", "flapWait", "cleanup", "unregistering", "exited"}
CmdPC    == {"none", "snapshot", "create", "initial", "top", "recv", "handle", "send",
             "report", "done"}
MgrPC    == {"none", "arriving", "parked", "waiting", "done"}
HealthPC == {"off", "on", "woken"}

MainTypeOK ==
    /\ main \in MainPC /\ retryCount \in 0..MaxRetries
    /\ lock \in {"free", "main", "trigger"}
FlagsOK == HbFlagsOK /\ isConnected \in BOOLEAN /\ linkUp \in BOOLEAN /\ signalled \in BOOLEAN
           /\ parkedAtSignal \in BOOLEAN
PcTypeOK ==
    /\ cmd \in [Regs -> CmdPC] /\ mgr \in [Regs -> MgrPC] /\ health \in [Regs -> HealthPC]
ChanTypeOK ==
    /\ errBuf \in [Regs -> BOOLEAN] /\ streamErr \in [Regs -> BOOLEAN]
    /\ cancelled \in [Regs -> BOOLEAN] /\ tok \in [Regs -> 0..MaxReg]
NumTypeOK ==
    /\ token \in 0..MaxReg /\ reg \in 0..MaxReg
    /\ known \in 0..MaxReg /\ forgets \in 0..MaxForgets
    /\ liveAtSignal \in 0..MaxReg
    /\ unregistered \subseteq Regs /\ torn \subseteq Regs /\ dropped \subseteq Regs

TypeOK ==
    HbTypeOK /\ FlagsOK /\ MainTypeOK /\ PcTypeOK /\ ChanTypeOK /\ NumTypeOK

Init ==
    /\ HbInit
    /\ main = "top" /\ retryCount = 0 /\ signalled = FALSE
    /\ lock = "free" /\ isConnected = FALSE /\ token = 0 /\ reg = 0 /\ linkUp = FALSE
    /\ cmd = [r \in Regs |-> "none"] /\ mgr = [r \in Regs |-> "none"]
    /\ health = [r \in Regs |-> "off"]
    /\ errBuf = [r \in Regs |-> FALSE] /\ streamErr = [r \in Regs |-> FALSE]
    /\ cancelled = [r \in Regs |-> FALSE] /\ tok = [r \in Regs |-> 0]
    /\ known = 0 /\ forgets = 0 /\ liveAtSignal = 0 /\ parkedAtSignal = FALSE
    /\ unregistered = {} /\ torn = {} /\ dropped = {}

CtxDone(r) == signalled \/ cancelled[r]

\* The registration in force, if it is the one that was when the signal came.
FoundLive == ({token} \cap {liveAtSignal}) \ {0}
-----------------------------------------------------------------------------
(* mainLoop. *)

\* The loop's first select, then Connect takes the session lock.  A live
\* session would make Connect a no-op: NeverConnectedAtTop says there is none.
MainTop ==
    /\ main = "top"
    /\ \/ /\ signalled
          /\ main' = "cleanup"
          /\ UNCHANGED lock
       \/ /\ ~signalled
          /\ lock = "free"
          /\ lock' = IF isConnected THEN "free" ELSE "main"
          /\ main' = IF isConnected THEN "arriving" ELSE "connecting"
    /\ UNCHANGED <<hbVars, streamVars, isConnected, token, reg, linkUp, retryCount, envVars>>

\* grpcConn.Connect or Register fails: back off and retry, MaxRetries times.
ConnectFails ==
    /\ main = "connecting"
    /\ lock' = "free"
    /\ linkUp' = FALSE
    /\ IF signalled
         THEN main' = "cleanup" /\ UNCHANGED retryCount
         ELSE /\ retryCount' = retryCount + 1
              /\ main' = IF retryCount' >= MaxRetries THEN "cleanup" ELSE "retryWait"
    /\ UNCHANGED <<hbVars, streamVars, isConnected, token, reg, envVars>>

\* The server answers but refuses, or sends no token: fatal.
ConnectRejected ==
    /\ main = "connecting"
    /\ lock' = "free"
    /\ linkUp' = FALSE
    /\ main' = "cleanup"
    /\ UNCHANGED <<hbVars, streamVars, isConnected, token, reg, retryCount, envVars>>

\* Registered: the new token is in force, and the heartbeat is stopped before
\* it is started again, all under the session lock.
ConnectRegisters ==
    /\ main = "connecting"
    /\ reg < MaxReg
    /\ reg' = reg + 1
    /\ token' = reg'
    /\ known' = reg'
    /\ isConnected' = TRUE
    /\ linkUp' = TRUE
    /\ main' = "hbStopping"
    /\ StopCancel
    /\ UNCHANGED <<streamVars, lock, retryCount, signalled, forgets, markVars>>

ConnectStopsHeartbeat ==
    /\ main = "hbStopping"
    /\ main' = "hbStarting"
    /\ StopFinish
    /\ UNCHANGED <<streamVars, sessVars, retryCount, envVars>>

\* Connect returns, and mainLoop starts the stream's goroutines.
ConnectReturns ==
    /\ main = "hbStarting"
    /\ InitializeAndStart(reg) \/ InitializeFails \/ StartFails
    /\ lock' = "free"
    /\ retryCount' = 0
    /\ main' = "arriving"
    /\ cmd' = [cmd EXCEPT ![reg] = "snapshot"]
    /\ mgr' = [mgr EXCEPT ![reg] = "arriving"]
    /\ UNCHANGED <<health, errBuf, streamErr, cancelled, tok, isConnected, token, reg, linkUp,
                   envVars>>

\* A backoff sleep (between Connects, or after a flapping stream) is a select
\* on m.ctx and a timer; either may be the one that ends it.
BackoffEnds ==
    /\ main \in {"retryWait", "flapWait"}
    /\ main' \in IF signalled THEN {"top", "cleanup"} ELSE {"top"}
    /\ UNCHANGED <<hbVars, streamVars, sessVars, retryCount, envVars>>

\* streamCancel(): the health monitor parked on this context ends.
CancelStream(r) ==
    /\ cancelled' = [cancelled EXCEPT ![r] = TRUE]
    /\ health' = [health EXCEPT ![r] = IF @ = "on" THEN "off" ELSE @]

\* mainLoop reaches its select: m.ctx or streamErrChan, else it parks.
MainSelect ==
    /\ main = "arriving"
    /\ \/ /\ signalled
          /\ main' = "awaitCtx"
          /\ CancelStream(reg)
          /\ UNCHANGED streamErr
       \/ /\ streamErr[reg]
          /\ streamErr' = [streamErr EXCEPT ![reg] = FALSE]
          /\ main' = "awaitErr"
          /\ CancelStream(reg)
       \/ /\ ~signalled /\ ~streamErr[reg]
          /\ main' = "parked"
          /\ UNCHANGED <<streamErr, cancelled, health>>
    /\ UNCHANGED <<hbVars, cmd, mgr, errBuf, tok, sessVars, retryCount, envVars>>

\* Mutant of MainAwaitedCtx: the session is marked down here as after an error.
MainClearsOnShutdown ==
    /\ main = "awaitCtx"
    /\ mgr[reg] = "done"
    /\ lock = "free"
    /\ isConnected' = FALSE /\ token' = 0
    /\ main' = "cleanup"
    /\ UNCHANGED <<hbVars, streamVars, lock, reg, linkUp, retryCount, envVars>>

\* <-streamDone on shutdown.
MainAwaitedCtx ==
    /\ main = "awaitCtx"
    /\ mgr[reg] = "done"
    /\ main' = "cleanup"
    /\ UNCHANGED <<hbVars, streamVars, sessVars, retryCount, envVars>>

\* Mutant of MainAwaitedErr: the token is cleared and the flag is not.
MainKeepsFlag ==
    /\ main = "awaitErr"
    /\ mgr[reg] = "done"
    /\ lock = "free"
    /\ token' = 0
    /\ main' = "flapWait"
    /\ UNCHANGED <<hbVars, streamVars, lock, isConnected, reg, linkUp, retryCount, envVars>>

\* <-streamDone after a stream error, then the session is marked down.
MainAwaitedErr ==
    /\ main = "awaitErr"
    /\ mgr[reg] = "done"
    /\ lock = "free"
    /\ isConnected' = FALSE /\ token' = 0
    /\ dropped' = dropped \cup FoundLive
    /\ main' = "flapWait"
    /\ UNCHANGED <<hbVars, streamVars, lock, reg, linkUp, retryCount, signalled, known, forgets,
                   liveAtSignal, parkedAtSignal, unregistered, torn>>
-----------------------------------------------------------------------------
(* The manager: handleCommandStream and the goroutine around it. *)

\* Its select: the stream context, errChan, or the command loop's end.
MgrSelect(r) ==
    /\ mgr[r] = "arriving"
    /\ \/ /\ CtxDone(r) \/ cmd[r] = "done"
          /\ mgr' = [mgr EXCEPT ![r] = "waiting"]
          /\ UNCHANGED errBuf
       \/ /\ errBuf[r]
          /\ errBuf' = [errBuf EXCEPT ![r] = FALSE]
          /\ mgr' = [mgr EXCEPT ![r] = "waiting"]
       \/ /\ ~CtxDone(r) /\ cmd[r] # "done" /\ ~errBuf[r]
          /\ mgr' = [mgr EXCEPT ![r] = "parked"]
          /\ UNCHANGED errBuf
    /\ UNCHANGED <<hbVars, cmd, health, streamErr, cancelled, tok, sessVars, mainVars, envVars>>

\* Mutant of MgrReturns: errors are reported without <-streamDone.
MgrReturnsAtOnce(r) ==
    /\ mgr[r] = "waiting"
    /\ mgr' = [mgr EXCEPT ![r] = "done"]
    /\ IF main = "parked"
         THEN main' = "awaitErr" /\ CancelStream(r) /\ UNCHANGED streamErr
         ELSE /\ streamErr' = [streamErr EXCEPT ![r] = TRUE]
              /\ UNCHANGED <<main, cancelled, health>>
    /\ UNCHANGED <<hbVars, cmd, errBuf, tok, sessVars, retryCount, envVars>>

\* <-streamDone, then the error goes to mainLoop: handed over if it is parked
\* (which cancels the stream), else left in streamErrChan; streamDone closes.
MgrReturns(r) ==
    /\ mgr[r] = "waiting"
    /\ cmd[r] = "done"
    /\ mgr' = [mgr EXCEPT ![r] = "done"]
    /\ IF main = "parked"
         THEN main' = "awaitErr" /\ CancelStream(r) /\ UNCHANGED streamErr
         ELSE /\ streamErr' = [streamErr EXCEPT ![r] = TRUE]
              /\ UNCHANGED <<main, cancelled, health>>
    /\ UNCHANGED <<hbVars, cmd, errBuf, tok, sessVars, retryCount, envVars>>
-----------------------------------------------------------------------------
(* The command loop: StreamCommands and handleCommands. *)

CmdStep(r, from, to) ==
    /\ cmd[r] = from
    /\ cmd' = [cmd EXCEPT ![r] = to]
    /\ UNCHANGED <<hbVars, mgr, errBuf, streamErr, cancelled, sessVars, mainVars, envVars>>

\* The token is copied once, under the lock; without one the stream ends.
Snapshot(r) ==
    /\ lock = "free"
    /\ LET t == IF isConnected THEN token ELSE 0 IN
         /\ tok' = [tok EXCEPT ![r] = t]
         /\ CmdStep(r, "snapshot", IF t = 0 THEN "report" ELSE "create")
    /\ UNCHANGED health

\* Up to three attempts each to open the stream and to send the identity, with
\* sleeps that end early when the stream's context does.
CreateStream(r) ==
    /\ \/ ~CtxDone(r) /\ linkUp /\ CmdStep(r, "create", "initial")
       \/ (CtxDone(r) \/ ~linkUp) /\ CmdStep(r, "create", "report")
    /\ UNCHANGED <<health, tok>>

SendInitial(r) ==
    /\ \/ /\ linkUp /\ CmdStep(r, "initial", "top")
          /\ health' = [health EXCEPT ![r] = "on"]
       \/ /\ CtxDone(r) \/ ~linkUp
          /\ CmdStep(r, "initial", "report")
          /\ UNCHANGED health
    /\ UNCHANGED tok

LoopTop(r) ==
    /\ CmdStep(r, "top", IF CtxDone(r) THEN "report" ELSE "recv")
    /\ UNCHANGED <<health, tok>>

\* Recv returns a command; validateCommand compares its token with the copy.
\* The server addresses the registration it has; a refused command is answered
\* with an error whose sending may fail unnoticed.
RecvCommand(r) ==
    /\ linkUp
    /\ \E t \in {known, tok[r]} \ {0} :
         CmdStep(r, "recv", IF t = tok[r] THEN "handle" ELSE "top")
    /\ UNCHANGED <<health, tok>>

\* Mutant of RecvFails: the stream is not opened on the cancellable context.
RecvIgnoresContext(r) ==
    /\ ~linkUp
    /\ CmdStep(r, "recv", "report")
    /\ UNCHANGED <<health, tok>>

\* Recv fails: the stream or its context is gone.
RecvFails(r) ==
    /\ CtxDone(r) \/ ~linkUp
    /\ CmdStep(r, "recv", "report")
    /\ UNCHANGED <<health, tok>>

\* HandleCommand returns, in bounded time; a nil response is answered with an
\* error and not looked at again.
HandlerReturns(r) ==
    /\ \E to \in {"send", "top"} : CmdStep(r, "handle", to)
    /\ UNCHANGED <<health, tok>>

SendResponse(r) ==
    /\ \/ linkUp /\ CmdStep(r, "send", "top")
       \/ (CtxDone(r) \/ ~linkUp) /\ CmdStep(r, "send", "report")
    /\ UNCHANGED <<health, tok>>

\* errChan <- err: to a parked manager, or into the free slot; blocked when
\* there is neither.  Then StreamCommands ends, which stops the health monitor.
Report(r) ==
    /\ cmd[r] = "report"
    /\ \/ /\ mgr[r] = "parked"
          /\ mgr' = [mgr EXCEPT ![r] = "waiting"]
          /\ UNCHANGED errBuf
       \/ /\ mgr[r] # "parked" /\ ~errBuf[r]
          /\ errBuf' = [errBuf EXCEPT ![r] = TRUE]
          /\ UNCHANGED mgr
    /\ cmd' = [cmd EXCEPT ![r] = "done"]
    /\ health' = [health EXCEPT ![r] = IF @ = "on" THEN "off" ELSE @]
    /\ UNCHANGED <<hbVars, streamErr, cancelled, tok, sessVars, mainVars, envVars>>
-----------------------------------------------------------------------------
(* The health monitor of a stream. *)

\* Its 30 s ticker wakes it; it then needs the session lock to look.
HealthTick(r) ==
    /\ health[r] = "on"
    /\ health' = [health EXCEPT ![r] = "woken"]
    /\ UNCHANGED <<hbVars, cmd, mgr, errBuf, streamErr, cancelled, tok, sessVars, mainVars, envVars>>

\* A session that is down is reported, without blocking, and the monitor ends;
\* else it goes back to its select.
HealthLooks(r) ==
    /\ health[r] = "woken"
    /\ lock = "free"
    /\ health' = [health EXCEPT ![r] =
                    IF ~isConnected \/ CtxDone(r) \/ cmd[r] = "done" THEN "off" ELSE "on"]
    /\ IF isConnected \/ errBuf[r]
         THEN UNCHANGED <<mgr, errBuf>>
         ELSE IF mgr[r] = "parked"
                THEN mgr' = [mgr EXCEPT ![r] = "waiting"] /\ UNCHANGED errBuf
                ELSE errBuf' = [errBuf EXCEPT ![r] = TRUE] /\ UNCHANGED mgr
    /\ UNCHANGED <<hbVars, cmd, streamErr, cancelled, tok, sessVars, mainVars, envVars>>
-----------------------------------------------------------------------------
(* TriggerReconnect, run by a callback goroutine of the heartbeat. *)

TriggerIgnored ==
    /\ pending > 0 /\ lock = "free" /\ ~isConnected
    /\ pending' = pending - 1
    /\ UNCHANGED <<hbRunning, hbCtxLive, hbConn, loop, timeouts,
                   streamVars, sessVars, mainVars, envVars>>

\* The session is marked down and the heartbeat told to stop ...
TriggerBegins ==
    /\ pending > 0 /\ lock = "free" /\ isConnected
    /\ lock' = "trigger"
    /\ isConnected' = FALSE /\ token' = 0
    /\ torn' = torn \cup FoundLive
    /\ StopCancel
    /\ UNCHANGED <<streamVars, reg, linkUp, mainVars, signalled, known, forgets, liveAtSignal,
                   parkedAtSignal, unregistered, dropped>>

\* Mutant of TriggerEnds: the connection is left open.
TriggerKeepsConnection ==
    /\ lock = "trigger"
    /\ lock' = "free"
    /\ pending > 0
    /\ timeouts' = IF AliveLoops = {} THEN timeouts ELSE timeouts + 1
    /\ hbConn' = FALSE
    /\ pending' = pending - 1
    /\ UNCHANGED <<hbRunning, hbCtxLive, loop, linkUp,
                   streamVars, isConnected, token, reg, mainVars, envVars>>

\* ... and when that returned the connection is closed.
TriggerEnds ==
    /\ lock = "trigger"
    /\ lock' = "free"
    /\ linkUp' = FALSE
    /\ pending > 0
    /\ timeouts' = IF AliveLoops = {} THEN timeouts ELSE timeouts + 1
    /\ hbConn' = FALSE
    /\ pending' = pending - 1
    /\ UNCHANGED <<hbRunning, hbCtxLive, loop,
                   streamVars, isConnected, token, reg, mainVars, envVars>>
-----------------------------------------------------------------------------
(* cleanup: Shutdown, then the process ends. *)

ShutdownBegins ==
    /\ main = "cleanup"
    /\ lock = "free"
    /\ IF isConnected
         THEN main' = "unregistering" /\ lock' = "main" /\ StopCancel
         ELSE main' = "exited" /\ UNCHANGED <<lock, hbVars>>
    /\ UNCHANGED <<streamVars, isConnected, token, reg, linkUp, retryCount, envVars>>

\* Unregister is sent when there is a token, and may be lost.
ShutdownEnds ==
    /\ main = "unregistering"
    /\ unregistered' = unregistered \cup ({token} \ {0})
    /\ known' \in IF token = 0 THEN {known} ELSE {known, 0}
    /\ isConnected' = FALSE /\ token' = 0 /\ linkUp' = FALSE
    /\ lock' = "free"
    /\ main' = "exited"
    /\ StopFinish
    /\ UNCHANGED <<streamVars, reg, retryCount, signalled, forgets, liveAtSignal,
                   parkedAtSignal, torn, dropped>>
-----------------------------------------------------------------------------
(* The environment. *)

\* SIGINT or SIGTERM: m.cancel() wakes whoever is parked on a context.
Signal ==
    /\ ~signalled /\ main # "exited"
    /\ signalled' = TRUE
    /\ liveAtSignal' = IF isConnected THEN token ELSE 0
    /\ parkedAtSignal' = (main = "parked")
    /\ main' = IF main = "parked" THEN "awaitCtx" ELSE main
    /\ mgr' = [r \in Regs |-> IF mgr[r] = "parked" THEN "waiting" ELSE mgr[r]]
    /\ health' = [r \in Regs |-> IF health[r] = "on" THEN "off" ELSE health[r]]
    /\ UNCHANGED <<hbVars, cmd, errBuf, streamErr, cancelled, tok, sessVars, retryCount,
                   known, forgets, unregistered, torn, dropped>>

\* The link or the server's end of the stream breaks.
LinkBreaks ==
    /\ linkUp /\ \E r \in Regs : cmd[r] \notin {"none", "done"}
    /\ linkUp' = FALSE
    /\ UNCHANGED <<hbVars, streamVars, lock, isConnected, token, reg, mainVars, envVars>>

\* The control plane loses its registrations (a restart, another replica).
ServerForgets ==
    /\ known # 0 /\ forgets < MaxForgets
    /\ known' = 0
    /\ forgets' = forgets + 1
    /\ UNCHANGED <<hbVars, streamVars, sessVars, mainVars, signalled, markVars>>

\* The heartbeat's goroutines, and what the controller answers them.
HbNotRegistered ==
    /\ known = 0 /\ main # "exited"
    /\ PingNotRegistered
    /\ UNCHANGED <<streamVars, sessVars, mainVars, envVars>>
HbLingererEnds(r) ==
    /\ LingeringPingEnds(r)
    /\ UNCHANGED <<streamVars, sessVars, mainVars, envVars>>
-----------------------------------------------------------------------------
MainStep == \/ MainTop \/ ConnectFails \/ ConnectRejected \/ ConnectRegisters
            \/ ConnectStopsHeartbeat \/ ConnectReturns \/ BackoffEnds \/ MainSelect
            \/ MainAwaitedCtx \/ MainAwaitedErr \/ ShutdownBegins \/ ShutdownEnds

StreamStep(r) == \/ MgrSelect(r) \/ MgrReturns(r)
                 \/ Snapshot(r) \/ CreateStream(r) \/ SendInitial(r) \/ LoopTop(r)
                 \/ RecvFails(r) \/ HandlerReturns(r) \/ SendResponse(r) \/ Report(r)

TriggerStep == TriggerIgnored \/ TriggerBegins \/ TriggerEnds

Next == \/ MainStep
        \/ \E r \in Regs : StreamStep(r) \/ RecvCommand(r) \/ HealthTick(r) \/ HealthLooks(r)
        \/ \E r \in Regs : HbLingererEnds(r)
        \/ HbNotRegistered
        \/ TriggerStep
        \/ Signal \/ LinkBreaks \/ ServerForgets

\* The goroutines of the process are scheduled, its handlers and its network
\* calls end; signals, commands, pings, ticks and losses need not come.
Fairness ==
    /\ WF_vars(MainStep)
    /\ \A r \in Regs : WF_vars(StreamStep(r))
    /\ WF_vars(TriggerStep)

Spec == Init /\ [][Next]_vars
FairSpec == Spec /\ Fairness
-----------------------------------------------------------------------------
(* Properties. *)

StreamAlive(r) == mgr[r] \notin {"none", "done"} \/ cmd[r] \notin {"none", "done"}

\* Streams do not overlap: a reconnect waits until the command loop of the
\* last stream, and the handler it may be running, have ended, so commands are
\* handled one at a time in the whole process (start.go:247, 257, 414, 418).
OneStreamAtATime == \A r, s \in Regs : StreamAlive(r) /\ StreamAlive(s) => r = s

\* No command is accepted or answered under a token that a later registration
\* superseded, though streams keep their own copy of it (start.go:533-543).
CommandsUnderLatestToken ==
    \A r \in Regs : cmd[r] \in {"create", "initial", "top", "recv", "handle", "send"}
                      => tok[r] = reg

\* mainLoop never calls Connect on a session still marked connected: Connect
\* would return at once and a stream be opened on the old token (start.go:455).
NeverConnectedAtTop == main \in {"top", "retryWait", "flapWait", "connecting"} => ~isConnected

\* A registration that is in force when the signal comes is unregistered before
\* the process ends, unless a callback tore it down in between or, when mainLoop
\* was not waiting in its select, it took the error of the stream before the
\* context: then it marks the session down, and Shutdown finds nothing to
\* unregister (start.go:244-265, 794-827).
GracefulShutdown ==
    main = "exited" /\ liveAtSignal # 0
      => \/ liveAtSignal \in unregistered \cup torn
         \/ ~parkedAtSignal /\ liveAtSignal \in dropped

\* Ping loops do not multiply by themselves: each one beyond the first is a
\* Stop that gave up waiting after 5 s (heartbeat.go:150-197, 209-238).  Nor is
\* the service marked running without a loop that pings, even after a
\* registration whose heartbeat could not be initialised (start.go:496).
LoopsAccounted ==
    /\ Cardinality(AliveLoops) <= 1 + timeouts
    /\ hbRunning => \E r \in Regs : loop[r] = "running"

\* What blocks a shutdown forever: the manager already left its select for the
\* context, the health monitor's late report took the only slot of errChan,
\* and the command loop blocks sending its own.
Jammed == \E r \in Regs : cmd[r] = "report" /\ mgr[r] = "waiting" /\ errBuf[r]

\* After a signal the process ends, or is in exactly that jam.
ShutdownEndsOrJams == signalled ~> (main = "exited" \/ Jammed)

\* A torn-down session does not sit there: mainLoop notices that its stream is
\* over and comes to connect again, or the process ends.
TornDownReconnects ==
    (main = "parked" /\ ~isConnected) ~> (main \in {"top", "connecting", "exited"} \/ Jammed)
=============================================================================
