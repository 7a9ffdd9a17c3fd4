----------------------------- MODULE HeartbeatLink -----------------------------
(***************************************************************************)
(* The heartbeat's own connection (internal/services/heartbeat.go), with   *)
(* the two monitors that look after it at the same time: the one inside    *)
(* its gRPC client (Connection), every 10 s, and the heartbeat's own,      *)
(* every 30 s.  The ping client keeps the connection it was last given by  *)
(* UpdateConnection, which only the heartbeat's monitor calls.             *)
(*                                                                         *)
(* The module starts from an initialized heartbeat of a session that stays *)
(* registered; nobody calls Stop or Initialize.                            *)
(***************************************************************************)
EXTENDS Naturals

CONSTANTS MaxRetries   \* of the client's monitor

VARIABLES
    netUp,      \* the controller can be reached
    grpcConn,   \* h.grpcConn: "nil" or "client"
    conn,       \* the client's connection: "nil", "ready" or "failed"
    pingBound,  \* the ping client's connection is that one
    inner,      \* the client's monitor: "idle", "backoff", "gone"
    retryCount, \* its retryCount
    outer       \* the heartbeat's monitor: "idle", "dialing"

vars == <<netUp, grpcConn, conn, pingBound, inner, retryCount, outer>>

Init ==
    /\ netUp = TRUE /\ grpcConn = "client" /\ conn = "ready" /\ pingBound = TRUE
    /\ inner = "idle" /\ retryCount = 0 /\ outer = "idle"
-----------------------------------------------------------------------------
NetFails ==
    /\ netUp' = FALSE
    /\ conn' = IF conn = "ready" THEN "failed" ELSE conn
    /\ UNCHANGED <<grpcConn, pingBound, inner, retryCount, outer>>

NetReturns ==
    /\ ~netUp /\ netUp' = TRUE
    /\ UNCHANGED <<grpcConn, conn, pingBound, inner, retryCount, outer>>

\* gRPC re-establishes a connection that nobody closed.
ConnRecovers ==
    /\ netUp /\ conn = "failed"
    /\ conn' = "ready"
    /\ UNCHANGED <<netUp, grpcConn, pingBound, inner, retryCount, outer>>
-----------------------------------------------------------------------------
(* The client's monitor: it closes the connection and dials another, which *)
(* nobody tells the ping client.                                           *)

InnerDrops ==
    /\ inner = "idle" /\ grpcConn = "client" /\ conn \in {"failed", "nil"}
    /\ conn' = "nil" /\ pingBound' = FALSE
    /\ inner' = "backoff"
    /\ UNCHANGED <<netUp, grpcConn, retryCount, outer>>

InnerSeesReady ==
    /\ inner = "idle" /\ conn = "ready" /\ retryCount # 0
    /\ retryCount' = 0
    /\ UNCHANGED <<netUp, grpcConn, conn, pingBound, inner, outer>>

InnerDials ==
    /\ inner = "backoff"
    /\ \/ /\ netUp
          /\ conn' = "ready" /\ inner' = "idle"
          /\ UNCHANGED retryCount
       \/ /\ ~netUp
          /\ retryCount' = retryCount + 1
          /\ inner' = IF retryCount' >= MaxRetries THEN "gone" ELSE "idle"
          /\ UNCHANGED conn
    /\ UNCHANGED <<netUp, grpcConn, pingBound, outer>>
-----------------------------------------------------------------------------
(* The heartbeat's monitor.  It passes over a nil client and a nil         *)
(* connection, and replaces the client of a failed connection.             *)

OuterReplaces ==
    /\ outer = "idle" /\ grpcConn = "client" /\ conn = "failed"
    /\ grpcConn' = "nil" /\ conn' = "nil" /\ pingBound' = FALSE
    /\ inner' = "gone"
    /\ outer' = "dialing"
    /\ UNCHANGED <<netUp, retryCount>>

\* reconnectHeartbeat connects under a context it cancels when it returns, and
\* that ends the new client's monitor too.
OuterDials ==
    /\ outer = "dialing"
    /\ IF netUp
         THEN grpcConn' = "client" /\ conn' = "ready" /\ pingBound' = TRUE
         ELSE UNCHANGED <<grpcConn, conn, pingBound>>
    /\ outer' = "idle"
    /\ UNCHANGED <<netUp, inner, retryCount>>
-----------------------------------------------------------------------------
InnerStep == InnerDrops \/ InnerSeesReady \/ InnerDials
OuterStep == OuterReplaces \/ OuterDials

Next == \/ NetFails \/ NetReturns \/ ConnRecovers
        \/ InnerStep \/ OuterStep

\* Both monitors are scheduled; the net need not fail or return.
FairSpec == /\ Init /\ [][Next]_vars
            /\ WF_vars(InnerStep) /\ WF_vars(OuterStep) /\ WF_vars(ConnRecovers)
-----------------------------------------------------------------------------
PingWorks == pingBound /\ conn = "ready"

\* "monitorConnection monitors the heartbeat connection and reconnects if
\* needed" (heartbeat.go:261): once the controller stays reachable, pings get
\* through again.  They need not: after the client's monitor replaced the
\* connection the pings go to the closed one, while the heartbeat's monitor
\* finds the new one ready; and a failed re-dial leaves h.grpcConn nil, which
\* that monitor passes over from then on (heartbeat.go:280-288, 320-338).
HeartbeatRecovers == <>[]netUp => <>[]PingWorks
=============================================================================
