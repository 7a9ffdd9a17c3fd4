------------------------------ MODULE Heartbeat ------------------------------
(***************************************************************************)
(* The heartbeat service of the client (internal/services/heartbeat.go):   *)
(* a ping loop per registration, started and stopped by the session, which *)
(* holds its own lock around every call.  Its connection monitor is left   *)
(* out: all it changes is when a ping can be answered, which is any time.  *)
(*                                                                         *)
(* What matters here is what Stop leaves behind.  It cancels the context,  *)
(* waits for the goroutines, and gives up after 5 s, while a ping may take *)
(* 10 s; and the ping loop reads the field h.ctx anew each time it enters  *)
(* its select, so a loop that outlived a Stop finds the context of the     *)
(* next Start there.                                                       *)
(*                                                                         *)
(* The module has no Next of its own: Session composes its actions with    *)
(* the callers of Stop, Initialize and Start.                              *)
(***************************************************************************)
EXTENDS Integers, FiniteSets

CONSTANTS
    MaxReg,      \* registrations a behaviour may contain (bound)
    MaxPending   \* re-registration callbacks waiting at once (bound)

ASSUME BoundsAssumption == /\ MaxReg \in Nat \ {0}
                           /\ MaxPending \in Nat

Regs == 1..MaxReg

VARIABLES
    hbRunning,   \* h.running
    hbCtxLive,   \* the context in h.ctx is not cancelled
    hbConn,      \* h.grpcConn is open
    loop,        \* loop[r]: the run() goroutine started for registration r
    pending,     \* callback goroutines spawned and not yet through
    timeouts     \* Stop calls that gave up waiting

hbVars == <<hbRunning, hbCtxLive, hbConn, loop, pending, timeouts>>

\* "running" stands for a loop in its select on the live context, or in a ping
\* it entered from there; "lingering" for one still in a ping when the context
\* was cancelled.
LoopPC == {"off", "running", "lingering"}

HbFlagsOK == hbRunning \in BOOLEAN /\ hbCtxLive \in BOOLEAN /\ hbConn \in BOOLEAN
HbTypeOK ==
    /\ loop \in [Regs -> LoopPC]
    /\ pending \in 0..MaxPending
    /\ timeouts \in Nat

HbInit ==
    /\ hbRunning = FALSE /\ hbCtxLive = FALSE /\ hbConn = FALSE
    /\ loop = [r \in Regs |-> "off"]
    /\ pending = 0 /\ timeouts = 0

AliveLoops == {r \in Regs : loop[r] \in {"running", "lingering"}}
-----------------------------------------------------------------------------
(* Called by the session, under the session lock. *)

\* Stop up to its wait: cancel the run context.  A loop in its select ends;
\* one that is in a ping goes on until the ping ends.
StopCancel ==
    /\ hbRunning' = FALSE
    /\ hbCtxLive' = FALSE
    /\ \E pinging \in SUBSET {r \in Regs : loop[r] = "running"} :
         loop' = [r \in Regs |-> IF loop[r] # "running" THEN loop[r]
                                 ELSE IF r \in pinging THEN "lingering" ELSE "off"]
    /\ UNCHANGED <<hbConn, pending, timeouts>>

\* Mutant of StopFinish: it returns without waiting for the loops.
StopDoesNotWait ==
    /\ hbConn' = FALSE
    /\ UNCHANGED <<hbRunning, hbCtxLive, loop, pending, timeouts>>

\* The rest of Stop: the wait group drained, or 5 s passed first; then the
\* dedicated connection is closed.
StopFinish ==
    /\ timeouts' = IF AliveLoops = {} THEN timeouts ELSE timeouts + 1
    /\ hbConn' = FALSE
    /\ UNCHANGED <<hbRunning, hbCtxLive, loop, pending>>

\* Initialize then Start for registration r: a new connection, and a loop that
\* pings at once.  Start is a no-op when a loop is marked running.
InitializeAndStart(r) ==
    /\ hbConn' = TRUE
    /\ IF hbRunning
         THEN UNCHANGED <<hbRunning, hbCtxLive, loop>>
         ELSE /\ hbRunning' = TRUE
              /\ hbCtxLive' = TRUE
              /\ loop' = [loop EXCEPT ![r] = "running"]
    /\ UNCHANGED <<pending, timeouts>>

\* Initialize fails (no connection): the session only logs it.
InitializeFails ==
    /\ hbConn' = FALSE
    /\ UNCHANGED <<hbRunning, hbCtxLive, loop, pending, timeouts>>

\* Start refuses: the connection's own monitor dropped it before Initialize
\* handed it to the ping client, which is not ready without one.
StartFails ==
    /\ ~hbRunning
    /\ hbConn' = TRUE
    /\ UNCHANGED <<hbRunning, hbCtxLive, loop, pending, timeouts>>
-----------------------------------------------------------------------------
(* The ping loops. *)

\* The controller answers a ping "client not registered": the callback is
\* spawned as a goroutine, and waits for the session lock there.
PingNotRegistered ==
    /\ hbConn
    /\ AliveLoops # {}
    /\ pending < MaxPending
    /\ pending' = pending + 1
    /\ UNCHANGED <<hbRunning, hbCtxLive, hbConn, loop, timeouts>>

\* A ping that outlived a Stop ends, and the loop enters its select on the
\* context h.ctx holds now: cancelled, or that of a later Start.
LingeringPingEnds(r) ==
    /\ loop[r] = "lingering"
    /\ loop' = [loop EXCEPT ![r] = IF hbCtxLive THEN "running" ELSE "off"]
    /\ UNCHANGED <<hbRunning, hbCtxLive, hbConn, pending, timeouts>>
=============================================================================
