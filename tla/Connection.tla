------------------------------ MODULE Connection ------------------------------
(***************************************************************************)
(* The gRPC client wrapper (internal/grpc/client.go): one current          *)
(* connection, replaced by whoever dials, and a monitor goroutine that     *)
(* re-dials when it finds that connection failed.                          *)
(*                                                                         *)
(* Two kinds of actor run its code.  The caller, number 0, is whoever      *)
(* holds the session lock around Connect and Close, so there is one at a   *)
(* time.  The monitors are numbered in the order they are started; there   *)
(* should be one, but stopMonitor gives up after 5 s on a monitor that     *)
(* sleeps its backoff of up to a minute, and Connect dials before it stops *)
(* the previous monitor.  c.mu protects single accesses to c.conn, not     *)
(* the decisions taken between them.                                       *)
(***************************************************************************)
EXTENDS Integers, FiniteSets

CONSTANTS
    MaxDials,     \* successful dials (bound)
    MaxMonitors,  \* monitors started (bound)
    MaxRetries    \* a monitor's maxRetries

ASSUME ConnectionAssumption ==
    MaxDials \in Nat /\ MaxMonitors \in Nat /\ MaxRetries \in Nat \ {0}

Conns    == 1..MaxDials
Monitors == 1..MaxMonitors
Caller   == 0
Actors   == {Caller} \cup Monitors
None     == 0

VARIABLES
    conn,        \* c.conn, None for nil
    state,       \* state[i]: connection i
    hand,        \* hand[a]: the connection only a's local variable holds
    pc,          \* pc[a]: where actor a is
    closing,     \* the caller is in Close, not in startMonitor
    seen,        \* seen[m]: the connection monitor m is looking at, None if at none
    retries,     \* retries[m]: its retryCount
    live,        \* live[m]: its context is not cancelled
    current,     \* the monitor c.monitorCancel belongs to, None for nil
    running,     \* c.monitorRunning
    parentDone,  \* the context Connect is given is cancelled
    timeouts,    \* calls of stopMonitor that gave up waiting
    dials, started, \* how many connections and monitors there have been
    panicked     \* a nil connection was dereferenced

connVars == <<conn, state, hand, dials>>
monVars  == <<seen, retries, live>>
ctlVars  == <<closing, current, running, parentDone, timeouts, started>>
vars     == <<connVars, pc, monVars, ctlVars, panicked>>

\* "down" stands for Idle, Connecting and TransientFailure, between which gRPC
\* moves on its own: whoever asks a connection that is down may be told any.
Open == {"ready", "down"}
PC   == {"none", "idle", "looked", "decided", "backoff", "dial", "install", "supersede", "check",
         "checkState", "stop", "wait", "clear", "start", "close", "gone"}

TypeOK ==
    /\ conn \in Conns \cup {None} /\ state \in [Conns -> {"none", "closed"} \cup Open]
    /\ hand \in [Actors -> Conns \cup {None}] /\ pc \in [Actors -> PC]
    /\ seen \in [Monitors -> Conns \cup {None}] /\ retries \in [Monitors -> 0..MaxRetries]
    /\ live \in [Monitors -> BOOLEAN] /\ current \in Monitors \cup {None}
    /\ closing \in BOOLEAN /\ running \in BOOLEAN /\ parentDone \in BOOLEAN
    /\ timeouts \in Nat /\ dials \in 0..MaxDials /\ started \in 0..MaxMonitors
    /\ panicked \in BOOLEAN

Init ==
    /\ conn = None /\ state = [i \in Conns |-> "none"] /\ hand = [a \in Actors |-> None]
    /\ pc = [a \in Actors |-> IF a = Caller THEN "idle" ELSE "none"]
    /\ seen = [m \in Monitors |-> None] /\ retries = [m \in Monitors |-> 0]
    /\ live = [m \in Monitors |-> FALSE] /\ current = None
    /\ closing = FALSE /\ running = FALSE /\ parentDone = FALSE
    /\ timeouts = 0 /\ dials = 0 /\ started = 0 /\ panicked = FALSE

Alive == {m \in Monitors : pc[m] \notin {"none", "gone"}}

\* Where an actor is, in a process that has not died of a panic.
At(a, label)   == ~panicked /\ pc[a] = label
Goto(a, label) == pc' = [pc EXCEPT ![a] = label]
Ready(i) == i # None /\ state[i] = "ready"
Down(i)  == i # None /\ state[i] = "down"
Closed(i) == IF i = None THEN state ELSE [state EXCEPT ![i] = "closed"]
-----------------------------------------------------------------------------
(* connectInternal, run by the caller and by the monitors. *)

\* The caller is returned an error; a monitor counts it, and may give up.
Failed(a) ==
    IF a = Caller
      THEN Goto(a, "idle") /\ UNCHANGED <<retries, running>>
      ELSE /\ retries' = [retries EXCEPT ![a] = @ + 1]
           /\ Goto(a, IF retries'[a] >= MaxRetries THEN "gone" ELSE "idle")
           /\ running' = IF retries'[a] >= MaxRetries THEN FALSE ELSE running

\* createConnection dials, and either has a ready connection in its hand or
\* has closed what it had.
Dial(a) ==
    /\ At(a, "dial")
    /\ dials < MaxDials
    /\ dials' = dials + 1
    /\ state' = [state EXCEPT ![dials'] = "ready"]
    /\ hand' = [hand EXCEPT ![a] = dials']
    /\ Goto(a, "install")
    /\ UNCHANGED <<conn, monVars, ctlVars, panicked>>

DialFails(a) ==
    /\ At(a, "dial")
    /\ Failed(a)
    /\ UNCHANGED <<connVars, seen, live, closing, current, parentDone, timeouts, started, panicked>>

\* replaceConn swaps, under c.mu, ...
Install(a) ==
    /\ At(a, "install")
    /\ conn' = hand[a]
    /\ hand' = [hand EXCEPT ![a] = conn]
    /\ Goto(a, "supersede")
    /\ UNCHANGED <<state, dials, monVars, ctlVars, panicked>>

\* Mutant of CloseSuperseded: the replaced connection is forgotten.
ForgetSuperseded(a) ==
    /\ At(a, "supersede")
    /\ hand' = [hand EXCEPT ![a] = None]
    /\ Goto(a, "check")
    /\ UNCHANGED <<conn, state, dials, monVars, ctlVars, panicked>>

\* ... and the caller of replaceConn closes what it superseded.
CloseSuperseded(a) ==
    /\ At(a, "supersede")
    /\ state' = Closed(hand[a])
    /\ hand' = [hand EXCEPT ![a] = None]
    /\ Goto(a, "check")
    /\ UNCHANGED <<conn, dials, monVars, ctlVars, panicked>>

\* checkConnectionState compares c.conn with nil, without the lock, ...
Check(a) ==
    /\ At(a, "check")
    /\ IF conn = None
         THEN Failed(a)
         ELSE Goto(a, "checkState") /\ UNCHANGED <<retries, running>>
    /\ UNCHANGED <<connVars, seen, live, closing, current, parentDone, timeouts, started, panicked>>

\* The context that the wait for a connecting connection runs on.
Cancelled(a) == IF a = Caller THEN parentDone ELSE ~live[a]

\* ... and reads it again for its state.  The caller goes on to startMonitor;
\* a monitor leaves the connection it found failed in place.  One that connects
\* is waited for, and the check made again once its state changed.
CheckState(a) ==
    /\ At(a, "checkState")
    /\ \/ /\ conn = None
          /\ panicked' = TRUE
          /\ UNCHANGED <<pc, retries, running>>
       \/ /\ Ready(conn)
          /\ Goto(a, IF a = Caller THEN "stop" ELSE "idle")
          /\ UNCHANGED <<retries, running, panicked>>
       \/ /\ Down(conn) /\ ~Cancelled(a)
          /\ Goto(a, "check")
          /\ UNCHANGED <<retries, running, panicked>>
       \/ /\ conn # None /\ ~Ready(conn)
          /\ Failed(a)
          /\ UNCHANGED panicked
    /\ UNCHANGED <<connVars, seen, live, closing, current, parentDone, timeouts, started>>
-----------------------------------------------------------------------------
(* The caller: Connect, Close, and stopMonitor and startMonitor in them. *)

Connect ==
    /\ At(Caller, "idle")
    /\ closing' = FALSE
    /\ Goto(Caller, "dial")
    /\ UNCHANGED <<connVars, monVars, current, running, parentDone, timeouts, started, panicked>>

\* Mutant of Close: the connection is closed and the monitor left alone.
CloseOnly ==
    /\ At(Caller, "idle")
    /\ closing' = TRUE
    /\ Goto(Caller, "close")
    /\ UNCHANGED <<connVars, monVars, current, running, parentDone, timeouts, started, panicked>>

Close ==
    /\ At(Caller, "idle")
    /\ closing' = TRUE
    /\ Goto(Caller, "stop")
    /\ UNCHANGED <<connVars, monVars, current, running, parentDone, timeouts, started, panicked>>

\* Mutants of CancelMonitor: it does not wait; it does not cancel.
CancelOnly ==
    /\ At(Caller, "stop")
    /\ live' = [m \in Monitors |-> live[m] /\ m # current]
    /\ Goto(Caller, "clear")
    /\ UNCHANGED <<connVars, seen, retries, ctlVars, panicked>>
WaitOnly ==
    /\ At(Caller, "stop")
    /\ Goto(Caller, IF running THEN "wait" ELSE "clear")
    /\ UNCHANGED <<connVars, monVars, ctlVars, panicked>>

\* stopMonitor cancels, and waits only if a monitor is marked running.
CancelMonitor ==
    /\ At(Caller, "stop")
    /\ live' = [m \in Monitors |-> live[m] /\ m # current]
    /\ Goto(Caller, IF running THEN "wait" ELSE "clear")
    /\ UNCHANGED <<connVars, seen, retries, ctlVars, panicked>>

\* The monitors are through, or 5 s are over.
Waited ==
    /\ At(Caller, "wait")
    /\ timeouts' = IF Alive = {} THEN timeouts ELSE timeouts + 1
    /\ Goto(Caller, "clear")
    /\ UNCHANGED <<connVars, monVars, closing, current, running, parentDone, started, panicked>>

ClearMonitor ==
    /\ At(Caller, "clear")
    /\ running' = FALSE /\ current' = None
    /\ Goto(Caller, IF closing THEN "close" ELSE "start")
    /\ UNCHANGED <<connVars, monVars, closing, parentDone, timeouts, started, panicked>>

StartMonitor ==
    /\ At(Caller, "start")
    /\ started < MaxMonitors
    /\ started' = started + 1
    /\ current' = started'
    /\ running' = TRUE
    /\ live' = [live EXCEPT ![started'] = ~parentDone]
    /\ pc' = [pc EXCEPT ![Caller] = "idle", ![started'] = "idle"]
    /\ UNCHANGED <<connVars, seen, retries, closing, parentDone, timeouts, panicked>>

\* conn.Close fails on a connection that was closed before, and only then: the
\* field keeps it, and Close returns the error.
CloseConn ==
    /\ At(Caller, "close")
    /\ IF conn # None /\ state[conn] = "closed"
         THEN UNCHANGED <<state, conn>>
         ELSE state' = Closed(conn) /\ conn' = None
    /\ Goto(Caller, "idle")
    /\ UNCHANGED <<hand, dials, monVars, ctlVars, panicked>>
-----------------------------------------------------------------------------
(* A monitor: monitorConnection and reconnect. *)

\* Its ticker fires; with a cancelled context as well, select picks either.
Look(m) ==
    /\ At(m, "idle")
    /\ seen' = [seen EXCEPT ![m] = conn]
    /\ Goto(m, "looked")
    /\ UNCHANGED <<connVars, retries, live, ctlVars, panicked>>

\* It judges the connection it read, which need not be the current one; one
\* that is idle or connecting it leaves alone.
Judge(m) ==
    /\ At(m, "looked")
    /\ \/ /\ ~Ready(seen[m])
          /\ Goto(m, "decided")
          /\ UNCHANGED retries
       \/ /\ Down(seen[m])
          /\ Goto(m, "idle")
          /\ UNCHANGED retries
       \/ /\ Ready(seen[m])
          /\ retries' = [retries EXCEPT ![m] = 0]
          /\ Goto(m, "idle")
    /\ seen' = [seen EXCEPT ![m] = None]
    /\ UNCHANGED <<connVars, live, ctlVars, panicked>>

\* reconnect closes the connection that is current now ...
Drop(m) ==
    /\ At(m, "decided")
    /\ state' = Closed(conn) /\ conn' = None
    /\ Goto(m, "backoff")
    /\ UNCHANGED <<hand, dials, monVars, ctlVars, panicked>>

\* ... sleeps, whatever becomes of its context, and dials.
BackoffEnds(m) ==
    /\ At(m, "backoff")
    /\ Goto(m, "dial")
    /\ UNCHANGED <<connVars, monVars, ctlVars, panicked>>

\* Mutant of MonitorExits: it looks at c.monitorCtx, not at its own copy.
ExitsOnFieldContext(m) ==
    /\ At(m, "idle") /\ current # None /\ ~live[current]
    /\ Goto(m, "gone")
    /\ running' = FALSE
    /\ UNCHANGED <<connVars, monVars, closing, current, parentDone, timeouts, started, panicked>>

MonitorExits(m) ==
    /\ At(m, "idle") /\ ~live[m]
    /\ Goto(m, "gone")
    /\ running' = FALSE
    /\ UNCHANGED <<connVars, monVars, closing, current, parentDone, timeouts, started, panicked>>
-----------------------------------------------------------------------------
(* The environment. *)

LinkFails(i) ==
    /\ ~panicked /\ state[i] = "ready"
    /\ state' = [state EXCEPT ![i] = "down"]
    /\ UNCHANGED <<conn, hand, dials, pc, monVars, ctlVars, panicked>>

\* gRPC itself re-establishes a connection nobody closed.
LinkRecovers(i) ==
    /\ ~panicked /\ state[i] = "down"
    /\ state' = [state EXCEPT ![i] = "ready"]
    /\ UNCHANGED <<conn, hand, dials, pc, monVars, ctlVars, panicked>>

\* The signal handler cancels the context every Connect is given.
ParentCancelled ==
    /\ ~panicked /\ ~parentDone
    /\ parentDone' = TRUE
    /\ live' = [m \in Monitors |-> FALSE]
    /\ UNCHANGED <<connVars, pc, seen, retries, closing, current, running, timeouts, started,
                   panicked>>
-----------------------------------------------------------------------------
ConnectStep(a) == \/ Dial(a) \/ DialFails(a) \/ Install(a) \/ CloseSuperseded(a)
                  \/ Check(a) \/ CheckState(a)
CallerStep == CancelMonitor \/ Waited \/ ClearMonitor \/ StartMonitor \/ CloseConn
MonitorStep(m) == Look(m) \/ Judge(m) \/ Drop(m) \/ BackoffEnds(m) \/ MonitorExits(m)

Next == \/ Connect \/ Close \/ CallerStep
        \/ \E a \in Actors : ConnectStep(a)
        \/ \E m \in Monitors : MonitorStep(m)
        \/ \E i \in Conns : LinkFails(i) \/ LinkRecovers(i)
        \/ ParentCancelled

\* Goroutines are scheduled and dials end; a select whose context is cancelled
\* picks that case in the end, since Go chooses at random among ready cases.
Fairness ==
    /\ WF_vars(CallerStep \/ ConnectStep(Caller))
    /\ \A m \in Monitors : /\ WF_vars(MonitorStep(m) \/ ConnectStep(m))
                          /\ SF_vars(MonitorExits(m))

Spec == Init /\ [][Next]_vars
FairSpec == Spec /\ Fairness
-----------------------------------------------------------------------------
(* Properties. *)

\* No connection leaks: one that is open is the current one, or in the hands of
\* a goroutine that is about to install or to close it (client.go:281-284,
\* 303-317).
NoLeak == \A i \in Conns : state[i] \in Open => i = conn \/ \E a \in Actors : hand[a] = i

\* Every monitor but the one the client remembers has been told to stop, so a
\* later Close or Connect can forget none that goes on for good
\* (client.go:337-390).
OneUncancelled == \A m \in Alive : live[m] => m = current

\* Monitors beyond the first are due to stopMonitor's 5 s limit, even though
\* an old one clears monitorRunning for its successor (client.go:381-386).
MonitorsAccounted == Cardinality(Alive) <= 1 + timeouts

\* After Close, and until the next Connect, nothing is left open and no monitor
\* runs that could dial again -- if stopMonitor never gave up waiting.
ClosedMeansClosed ==
    pc[Caller] = "idle" /\ closing /\ timeouts = 0
      => Alive = {} /\ \A i \in Conns : state[i] \notin Open

\* A monitor that was told to stop does so, from whatever attempt it is in.
CancelledMonitorsEnd ==
    \A m \in Monitors : (m \in Alive /\ ~live[m]) ~> (m \notin Alive \/ panicked)
=============================================================================
