--------------------------- MODULE ConnectionProofs ---------------------------
(***************************************************************************)
(* Proofs about Connection for every number of dials, monitors and retries *)
(* of the backoff: connections do not leak, no monitor goes on that was    *)
(* not told to stop, and none is left after Close.                         *)
(*                                                                         *)
(* HandInv says when an actor can have a connection of its own in hand;    *)
(* StoppedInv that from the cancelling in stopMonitor until the next       *)
(* monitor is started every monitor that runs has been cancelled.          *)
(***************************************************************************)
EXTENDS Connection, FiniteSetTheorems, TLAPS

\* The types the arguments need; counters and flags play no part in them.
ShapeInv ==
    /\ conn \in Conns \cup {None}
    /\ state \in [Conns -> {"none", "closed"} \cup Open]
    /\ hand \in [Actors -> Conns \cup {None}]
    /\ pc \in [Actors -> PC]
    /\ dials \in 0..MaxDials /\ started \in 0..MaxMonitors

HandInv ==
    /\ \A a \in Actors : pc[a] \notin {"install", "supersede"} => hand[a] = None
    /\ \A m \in Monitors : m > started => pc[m] = "none"

LeakIInv == ShapeInv /\ HandInv /\ NoLeak

LEMMA CallerNoMonitor == Caller \notin Monitors /\ None \notin Conns
BY ConnectionAssumption DEF Caller, Monitors, None, Conns

LEMMA InitLeak == Init => LeakIInv
BY ConnectionAssumption
DEF Init, LeakIInv, ShapeInv, HandInv, NoLeak, Open, PC, Actors, Conns, Monitors, Caller, None

\* Moving an actor to a place where it holds nothing, with nothing in hand and
\* no connection touched, keeps everything.
LEMMA PlainMove ==
    ASSUME LeakIInv, NEW a \in Actors, NEW label \in PC \ {"install", "supersede"},
           Goto(a, label), pc[a] \notin {"none", "install", "supersede"},
           UNCHANGED <<conn, state, hand, dials, started>>
    PROVE  LeakIInv'
BY DEF LeakIInv, ShapeInv, HandInv, NoLeak, Goto

\* What may happen to a connection that stays where it is.
LEMMA StateChange ==
    ASSUME LeakIInv, NEW i \in Conns, NEW s \in {"closed"} \cup Open, state[i] \in Open,
           state' = [state EXCEPT ![i] = s],
           UNCHANGED <<conn, hand, dials, started, pc>>
    PROVE  LeakIInv'
BY DEF LeakIInv, ShapeInv, HandInv, NoLeak, Open

LEMMA LeakStep == LeakIInv /\ [Next]_vars => LeakIInv'
<1> SUFFICES ASSUME LeakIInv, [Next]_vars PROVE LeakIInv'
  OBVIOUS
<1> USE ConnectionAssumption, CallerNoMonitor
<1>1. ASSUME NEW a \in Actors, Dial(a) PROVE LeakIInv'
  BY <1>1 DEF Dial, LeakIInv, ShapeInv, HandInv, NoLeak, At, Goto, Conns, None, Open, PC, ctlVars
<1>2. ASSUME NEW a \in Actors, Failed(a), pc[a] \in {"dial", "check", "checkState"},
             UNCHANGED <<conn, state, hand, dials, started>>
      PROVE  LeakIInv'
  <2>1. PICK label \in {"idle", "gone"} : Goto(a, label)
    BY <1>2 DEF Failed
  <2>2. QED
    BY <1>2, <2>1, PlainMove DEF PC
<1>3. ASSUME NEW a \in Actors, DialFails(a) PROVE LeakIInv'
  BY <1>2, <1>3 DEF DialFails, At, connVars
<1>4. ASSUME NEW a \in Actors, Install(a) PROVE LeakIInv'
  BY <1>4 DEF Install, LeakIInv, ShapeInv, HandInv, NoLeak, At, Goto, None, Open, PC, ctlVars
<1>5. ASSUME NEW a \in Actors, CloseSuperseded(a) PROVE LeakIInv'
  BY <1>5 DEF CloseSuperseded, Closed, LeakIInv, ShapeInv, HandInv, NoLeak, At, Goto, None, Open,
              PC, ctlVars
<1>6. ASSUME NEW a \in Actors, Check(a) PROVE LeakIInv'
  <2>1. pc[a] = "check" /\ UNCHANGED <<conn, state, hand, dials, started>>
    BY <1>6 DEF Check, At, connVars
  <2>2. Failed(a) \/ Goto(a, "checkState")
    BY <1>6 DEF Check
  <2>3. QED
    BY <1>2, <2>1, <2>2, PlainMove DEF PC
<1>7. ASSUME NEW a \in Actors, CheckState(a) PROVE LeakIInv'
  <2>1. pc[a] = "checkState" /\ UNCHANGED <<conn, state, hand, dials, started>>
    BY <1>7 DEF CheckState, At, connVars
  <2>2. Failed(a) \/ Goto(a, "stop") \/ Goto(a, "idle") \/ Goto(a, "check") \/ UNCHANGED pc
    BY <1>7 DEF CheckState
  <2>3. UNCHANGED pc => LeakIInv'
    BY <2>1 DEF LeakIInv, ShapeInv, HandInv, NoLeak
  <2>4. QED
    BY <1>2, <2>1, <2>2, <2>3, PlainMove DEF PC
<1>8. CASE Connect \/ Close \/ CancelMonitor \/ Waited \/ ClearMonitor
  <2>1. Caller \in Actors
    BY DEF Actors
  <2>2. /\ pc[Caller] \notin {"none", "install", "supersede"}
        /\ \E label \in PC \ {"install", "supersede"} : Goto(Caller, label)
        /\ UNCHANGED <<conn, state, hand, dials, started>>
    BY <1>8 DEF Connect, Close, CancelMonitor, Waited, ClearMonitor, At, PC, connVars, ctlVars
  <2>3. QED
    BY <2>1, <2>2, PlainMove
<1>9. CASE StartMonitor
  <2>1. /\ started' = started + 1 /\ started' \in 0..MaxMonitors
        /\ pc' = [pc EXCEPT ![Caller] = "idle", ![started'] = "idle"]
        /\ pc[Caller] = "start" /\ UNCHANGED connVars
    BY <1>9 DEF StartMonitor, At, LeakIInv, ShapeInv
  <2>2. started' \in Monitors /\ pc[started'] = "none" /\ Caller \in Actors /\ started' \in Actors
    BY <2>1 DEF LeakIInv, ShapeInv, HandInv, Monitors, Actors
  <2>3. ShapeInv'
    BY <2>1, <2>2 DEF LeakIInv, ShapeInv, PC, connVars
  <2>4. HandInv'
    BY <2>1, <2>2 DEF LeakIInv, ShapeInv, HandInv, Actors, Monitors, connVars
  <2>5. NoLeak'
    BY <2>1 DEF LeakIInv, NoLeak, connVars
  <2>6. QED
    BY <2>3, <2>4, <2>5 DEF LeakIInv
<1>10. CASE CloseConn
  BY <1>10 DEF CloseConn, Closed, LeakIInv, ShapeInv, HandInv, NoLeak, At, Goto, None, Open, PC,
               Actors, ctlVars
<1>11. ASSUME NEW m \in Monitors, Look(m) \/ Judge(m) \/ BackoffEnds(m) \/ MonitorExits(m)
       PROVE  LeakIInv'
  <2>1. m \in Actors
    BY DEF Actors
  <2>2. /\ pc[m] \notin {"none", "install", "supersede"}
        /\ \E label \in PC \ {"install", "supersede"} : Goto(m, label)
        /\ UNCHANGED <<conn, state, hand, dials, started>>
    BY <1>11 DEF Look, Judge, BackoffEnds, MonitorExits, At, PC, connVars, ctlVars
  <2>3. QED
    BY <2>1, <2>2, PlainMove
<1>12. ASSUME NEW m \in Monitors, Drop(m) PROVE LeakIInv'
  BY <1>12 DEF Drop, Closed, LeakIInv, ShapeInv, HandInv, NoLeak, At, Goto, None, Open, PC,
               Actors, ctlVars
<1>13. ASSUME NEW i \in Conns, LinkFails(i) \/ LinkRecovers(i) PROVE LeakIInv'
  BY <1>13, StateChange DEF LinkFails, LinkRecovers, Open, ctlVars
<1>14. CASE ParentCancelled \/ UNCHANGED vars
  BY <1>14 DEF ParentCancelled, vars, connVars, ctlVars, LeakIInv, ShapeInv, HandInv, NoLeak
<1>15. QED
  BY <1>1, <1>3, <1>4, <1>5, <1>6, <1>7, <1>8, <1>9, <1>10, <1>11, <1>12, <1>13, <1>14
  DEF Next, ConnectStep, CallerStep, MonitorStep

\* No connection is left open without anybody holding it, however many
\* monitors and callers replace it at the same time (client.go:281-284).
THEOREM NoConnectionLeaks == Spec => []NoLeak
<1>1. LeakIInv => NoLeak
  BY DEF LeakIInv
<1>2. QED
  BY InitLeak, LeakStep, <1>1, PTL DEF Spec
-----------------------------------------------------------------------------
(* Monitors are told to stop. *)

\* The caller is in stopMonitor or about to start the next monitor.
Stopping == pc[Caller] \in {"wait", "clear", "start", "close"}

StoppedInv ==
    /\ live \in [Monitors -> BOOLEAN]
    /\ OneUncancelled
    /\ Stopping => \A m \in Alive : ~live[m]

StopIInv == LeakIInv /\ StoppedInv

LEMMA InitStop == Init => StopIInv
<1> SUFFICES ASSUME Init PROVE StoppedInv
  BY InitLeak DEF StopIInv
<1>1. Alive = {}
  BY CallerNoMonitor DEF Init, Alive, Actors
<1>2. ~Stopping
  BY DEF Init, Stopping, Actors
<1>3. QED
  BY <1>1, <1>2 DEF Init, StoppedInv, OneUncancelled

\* An actor that moves without touching contexts: no monitor comes to life.
LEMMA QuietMove ==
    ASSUME StopIInv, NEW a \in Actors, NEW label \in PC, Goto(a, label), pc[a] # "none",
           pc[a] # "gone",
           a = Caller /\ label \in {"wait", "clear", "start", "close"} => Stopping,
           UNCHANGED <<live, current>>
    PROVE  StoppedInv'
BY CallerNoMonitor
DEF StopIInv, StoppedInv, LeakIInv, ShapeInv, OneUncancelled, Alive, Stopping, Goto, Actors

LEMMA StopStep == StopIInv /\ [Next]_vars => StopIInv'
<1> SUFFICES ASSUME StopIInv, [Next]_vars PROVE StoppedInv'
  BY LeakStep DEF StopIInv
<1> USE ConnectionAssumption, CallerNoMonitor
<1>0. ASSUME UNCHANGED <<pc, live, current>> PROVE StoppedInv'
  BY <1>0 DEF StopIInv, StoppedInv, OneUncancelled, Alive, Stopping
<1>1. ASSUME NEW a \in Actors, ConnectStep(a) PROVE StoppedInv'
  <2>1. UNCHANGED <<live, current>>
    BY <1>1 DEF ConnectStep, Dial, DialFails, Install, CloseSuperseded, Check, CheckState, monVars,
                ctlVars
  <2>2. pc[a] # "none" /\ pc[a] # "gone"
    BY <1>1 DEF ConnectStep, Dial, DialFails, Install, CloseSuperseded, Check, CheckState, At
  <2>3. UNCHANGED pc \/ \E label \in {"install", "supersede", "check", "checkState", "stop", "idle",
                                     "gone"} : Goto(a, label)
    BY <1>1 DEF ConnectStep, Dial, DialFails, Install, CloseSuperseded, Check, CheckState, Failed
  <2>4. QED
    BY <1>0, <2>1, <2>2, <2>3, QuietMove DEF PC
<1>2. CASE Connect \/ Close
  BY <1>2, QuietMove DEF Connect, Close, At, PC, monVars, Actors
<1>3. CASE CancelMonitor
  <2>1. live' = [m \in Monitors |-> live[m] /\ m # current]
    BY <1>3 DEF CancelMonitor
  <2>2. Alive' = Alive
    BY <1>3 DEF CancelMonitor, Alive, Goto, At, StopIInv, LeakIInv, ShapeInv, Actors
  <2>3. \A m \in Alive : ~live'[m]
    BY <2>1 DEF StopIInv, StoppedInv, OneUncancelled, Alive
  <2>4. live' \in [Monitors -> BOOLEAN]
    BY <2>1
  <2>5. QED
    BY <2>2, <2>3, <2>4 DEF StoppedInv, OneUncancelled
<1>4. CASE Waited
  BY <1>4, QuietMove DEF Waited, At, PC, monVars, Actors, Stopping
<1>5. CASE ClearMonitor
  <2>1. /\ \A m \in Alive : ~live[m]
        /\ UNCHANGED live
    BY <1>5 DEF ClearMonitor, At, StopIInv, StoppedInv, Stopping, monVars
  <2>2. Alive' = Alive
    BY <1>5 DEF ClearMonitor, Alive, Goto, At, StopIInv, LeakIInv, ShapeInv, Actors
  <2>3. QED
    BY <2>1, <2>2 DEF StoppedInv, OneUncancelled, StopIInv
<1>6. CASE StartMonitor
  <2>1. /\ started' = started + 1 /\ current' = started'
        /\ live' = [live EXCEPT ![started'] = ~parentDone]
        /\ pc' = [pc EXCEPT ![Caller] = "idle", ![started'] = "idle"]
        /\ pc[Caller] = "start"
    BY <1>6 DEF StartMonitor, At
  <2>2. \A m \in Alive : ~live[m]
    BY <2>1 DEF StopIInv, StoppedInv, Stopping
  <2>3. \A m \in Alive' : m # started' => m \in Alive
    BY <2>1 DEF Alive, StopIInv, LeakIInv, ShapeInv, Actors
  <2>4. ~Stopping'
    BY <2>1 DEF Stopping, StopIInv, LeakIInv, ShapeInv, Actors, Caller
  <2>5. OneUncancelled'
    BY <2>1, <2>2, <2>3 DEF OneUncancelled, StopIInv, StoppedInv
  <2>6. live' \in [Monitors -> BOOLEAN]
    BY <2>1 DEF StopIInv, StoppedInv
  <2>7. QED
    BY <2>4, <2>5, <2>6 DEF StoppedInv
<1>7. CASE CloseConn
  BY <1>7, QuietMove DEF CloseConn, At, PC, monVars, ctlVars, Actors
<1>8. ASSUME NEW m \in Monitors, MonitorStep(m) PROVE StoppedInv'
  <2>1. UNCHANGED <<live, current>> /\ m \in Actors /\ m # Caller
    BY <1>8 DEF MonitorStep, Look, Judge, Drop, BackoffEnds, MonitorExits, monVars, ctlVars, Actors
  <2>2. pc[m] # "none" /\ pc[m] # "gone"
    BY <1>8 DEF MonitorStep, Look, Judge, Drop, BackoffEnds, MonitorExits, At
  <2>3. \E label \in PC : Goto(m, label)
    BY <1>8 DEF MonitorStep, Look, Judge, Drop, BackoffEnds, MonitorExits, PC
  <2>4. QED
    BY <2>1, <2>2, <2>3, QuietMove
<1>9. ASSUME NEW i \in Conns, LinkFails(i) \/ LinkRecovers(i) PROVE StoppedInv'
  BY <1>0, <1>9 DEF LinkFails, LinkRecovers, monVars, ctlVars
<1>10. CASE ParentCancelled
  <2>1. live' = [m \in Monitors |-> FALSE] /\ UNCHANGED <<pc, current>>
    BY <1>10 DEF ParentCancelled
  <2>2. \A m \in Alive' : ~live'[m]
    BY <2>1 DEF Alive
  <2>3. QED
    BY <2>1, <2>2 DEF StoppedInv, OneUncancelled
<1>11. CASE UNCHANGED vars
  BY <1>0, <1>11 DEF vars, monVars, ctlVars
<1>12. QED
  BY <1>1, <1>2, <1>3, <1>4, <1>5, <1>6, <1>7, <1>8, <1>9, <1>10, <1>11 DEF Next, CallerStep

\* Of all monitors ever started and still running, only the one c.monitorCancel
\* belongs to has a context that is not cancelled (client.go:337-390).
THEOREM OnlyCurrentGoesOn == Spec => []OneUncancelled
<1>1. StopIInv => OneUncancelled
  BY DEF StopIInv, StoppedInv
<1>2. QED
  BY InitStop, StopStep, <1>1, PTL DEF Spec
-----------------------------------------------------------------------------
(* Monitors are accounted for, and a closed client stays closed.             *)
(*                                                                         *)
(* AccInv adds the moments at which there is no monitor beyond the ones     *)
(* stopMonitor gave up on: when none is marked running, from its wait to    *)
(* the next start, and after Close.                                         *)

Settled == \/ ~running
           \/ pc[Caller] \in {"clear", "start", "close"}
           \/ closing /\ pc[Caller] = "idle"

\* Nothing that c.conn refers to is open.
Shut == conn = None \/ state[conn] \notin Open

AccInv ==
    /\ timeouts \in Nat
    /\ MonitorsAccounted
    /\ Settled => Cardinality(Alive) <= timeouts
    /\ closing => pc[Caller] \in {"stop", "wait", "clear", "close", "idle"}
    /\ closing /\ pc[Caller] = "idle" /\ timeouts = 0 => Shut

AccIInv == LeakIInv /\ AccInv

LEMMA AliveFinite == IsFiniteSet(Alive) /\ Cardinality(Alive) \in Nat
<1>1. IsFiniteSet(Monitors)
  BY ConnectionAssumption, FS_Interval DEF Monitors
<1>2. QED
  BY <1>1, FS_Subset, FS_CardinalityType DEF Alive

LEMMA AliveAndOne ==
    ASSUME NEW x
    PROVE  /\ IsFiniteSet(Alive \cup {x})
           /\ Cardinality(Alive \cup {x}) <= Cardinality(Alive) + 1
           /\ Cardinality(Alive \cup {x}) \in Nat
BY AliveFinite, FS_AddElement, FS_CardinalityType

\* A step that starts no monitor, and settles nothing unless one ends.
LEMMA NoMonitorStarts ==
    ASSUME AccInv, Alive' \subseteq Alive, UNCHANGED timeouts,
           Settled' => Settled \/ Alive' # Alive,
           closing' => pc'[Caller] \in {"stop", "wait", "clear", "close", "idle"},
           closing' /\ pc'[Caller] = "idle" /\ timeouts' = 0 => Shut'
    PROVE  AccInv'
<1>1. /\ Cardinality(Alive') <= Cardinality(Alive)
      /\ Cardinality(Alive') \in Nat
      /\ Alive' # Alive => Cardinality(Alive') + 1 <= Cardinality(Alive)
  BY AliveFinite, FS_Subset, FS_CardinalityType
<1>2. Cardinality(Alive)' = Cardinality(Alive')
  OBVIOUS
<1>3. QED
  BY <1>1, <1>2, AliveFinite DEF AccInv, MonitorsAccounted

\* The caller, outside Close, moves to a place where nothing is settled.
LEMMA CallerMove ==
    ASSUME AccIInv, NEW label \in PC \ {"none", "gone", "clear", "start", "close"},
           Goto(Caller, label), pc[Caller] \notin {"none", "gone"}, ~closing',
           UNCHANGED <<timeouts, running>>
    PROVE  AccInv'
<1>1. pc' = [pc EXCEPT ![Caller] = label] /\ Caller \in Actors /\ pc \in [Actors -> PC]
  BY DEF Goto, Actors, AccIInv, LeakIInv, ShapeInv
<1>2. Alive' = Alive
  BY <1>1, CallerNoMonitor DEF Alive
<1>3. Settled' => Settled
  BY <1>1 DEF Settled
<1>4. QED
  BY <1>2, <1>3, NoMonitorStarts DEF AccIInv

\* A monitor that goes on where it may not have reached c.conn = nil after Close.
LEMMA MonitorMove ==
    ASSUME AccIInv, NEW m \in Monitors, NEW label \in PC \ {"none", "gone"}, Goto(m, label),
           m \in Alive, UNCHANGED <<timeouts, running, closing>>
    PROVE  AccInv'
<1>1. /\ pc' = [pc EXCEPT ![m] = label] /\ m \in Actors /\ Caller # m
      /\ Caller \in Actors /\ pc \in [Actors -> PC]
  BY CallerNoMonitor DEF Goto, Actors, AccIInv, LeakIInv, ShapeInv
<1>2. Alive' = Alive /\ pc'[Caller] = pc[Caller]
  BY <1>1 DEF Alive, Actors
<1>3. Settled' => Settled
  BY <1>2 DEF Settled
<1>4. Settled => timeouts # 0
  BY AliveFinite, FS_EmptySet DEF AccIInv, AccInv
<1>5. closing /\ pc[Caller] = "idle" => timeouts # 0
  BY <1>4 DEF Settled
<1>6. QED
  BY <1>2, <1>3, <1>5, NoMonitorStarts DEF AccIInv, AccInv

\* A monitor that ends, and unmarks the running of whichever monitor it is.
LEMMA MonitorEnds ==
    ASSUME AccIInv, NEW m \in Monitors, Goto(m, "gone"), m \in Alive,
           UNCHANGED <<timeouts, closing>>, Shut => Shut'
    PROVE  AccInv'
<1>1. /\ pc' = [pc EXCEPT ![m] = "gone"] /\ m \in Actors /\ Caller # m
      /\ Caller \in Actors /\ pc \in [Actors -> PC]
  BY CallerNoMonitor DEF Goto, Actors, AccIInv, LeakIInv, ShapeInv
<1>2. Alive' \subseteq Alive /\ Alive' # Alive /\ pc'[Caller] = pc[Caller]
  BY <1>1 DEF Alive, Actors
<1>3. QED
  BY <1>2, NoMonitorStarts DEF AccIInv, AccInv

\* The caller is returned an error, or a monitor counts one.
LEMMA FailedStep ==
    ASSUME AccIInv, NEW a \in Actors, Failed(a), pc[a] \in {"dial", "check", "checkState"},
           UNCHANGED <<timeouts, closing>>, Shut => Shut'
    PROVE  AccInv'
<1>1. CASE a = Caller
  <2>1. Goto(Caller, "idle") /\ UNCHANGED running /\ ~closing /\ ~closing'
    BY <1>1 DEF Failed, AccIInv, AccInv
  <2>2. QED
    BY <1>1, <2>1, CallerMove DEF PC
<1>2. CASE a # Caller
  <2>1. a \in Monitors /\ a \in Alive
    BY <1>2 DEF Actors, Alive
  <2>2. \/ Goto(a, "gone")
        \/ Goto(a, "idle") /\ UNCHANGED running
    BY <1>2 DEF Failed
  <2>3. QED
    BY <2>1, <2>2, MonitorMove, MonitorEnds DEF PC
<1>3. QED
  BY <1>1, <1>2

LEMMA AccStep == AccIInv /\ [Next]_vars => AccIInv'
<1> SUFFICES ASSUME AccIInv, [Next]_vars PROVE AccInv'
  BY LeakStep DEF AccIInv
<1> USE ConnectionAssumption, CallerNoMonitor
<1>0. pc \in [Actors -> PC] /\ Caller \in Actors
  BY DEF AccIInv, LeakIInv, ShapeInv, Actors
<1>1. ASSUME UNCHANGED <<pc, running, closing, timeouts>>, Shut => Shut' PROVE AccInv'
  BY <1>1, NoMonitorStarts DEF Alive, Settled, AccIInv, AccInv
<1>2. ASSUME NEW a \in Actors, NEW label \in PC \ {"none", "gone", "clear", "start", "close"},
             Goto(a, label), pc[a] \in {"dial", "install", "supersede", "check", "checkState"},
             UNCHANGED <<running, closing, timeouts>>
      PROVE  AccInv'
  <2>1. CASE a = Caller
    <3>1. ~closing
      BY <1>2, <2>1 DEF AccIInv, AccInv
    <3>2. QED
      BY <1>2, <2>1, <3>1, CallerMove
  <2>2. CASE a # Caller
    <3>1. a \in Monitors /\ a \in Alive
      BY <1>2, <2>2 DEF Actors, Alive
    <3>2. QED
      BY <1>2, <3>1, MonitorMove
  <2>3. QED
    BY <2>1, <2>2
<1>3. ASSUME NEW a \in Actors, Dial(a) \/ Install(a) \/ CloseSuperseded(a) PROVE AccInv'
  BY <1>2, <1>3 DEF Dial, Install, CloseSuperseded, At, PC, ctlVars
<1>4. ASSUME NEW a \in Actors, DialFails(a) \/ Check(a) PROVE AccInv'
  BY <1>2, <1>4, FailedStep DEF DialFails, Check, At, PC, connVars, Shut
<1>5. ASSUME NEW a \in Actors, CheckState(a) PROVE AccInv'
  <2>1. pc[a] = "checkState" /\ UNCHANGED <<conn, state, closing, timeouts>>
    BY <1>5 DEF CheckState, At, connVars
  <2>2. \/ Failed(a)
        \/ \E label \in {"stop", "idle", "check"} : Goto(a, label) /\ UNCHANGED running
        \/ UNCHANGED <<pc, running>>
    BY <1>5 DEF CheckState
  <2>3. QED
    BY <1>1, <1>2, <2>1, <2>2, FailedStep DEF PC, Shut
<1>6. CASE Connect
  BY <1>6, CallerMove DEF Connect, At, PC
<1>7. CASE Close
  <2>1. pc' = [pc EXCEPT ![Caller] = "stop"] /\ UNCHANGED <<timeouts, running>>
    BY <1>7 DEF Close, Goto
  <2>2. Alive' = Alive /\ pc'[Caller] = "stop"
    BY <1>0, <2>1 DEF Alive
  <2>3. Settled' => Settled
    BY <2>1, <2>2 DEF Settled
  <2>4. QED
    BY <2>1, <2>2, <2>3, NoMonitorStarts DEF AccIInv
<1>8. CASE CancelMonitor
  <2>1. /\ pc' = [pc EXCEPT ![Caller] = IF running THEN "wait" ELSE "clear"]
        /\ UNCHANGED <<timeouts, running, closing>> /\ pc[Caller] = "stop"
    BY <1>8 DEF CancelMonitor, Goto, At, ctlVars
  <2>2. Alive' = Alive /\ pc'[Caller] = IF running THEN "wait" ELSE "clear"
    BY <1>0, <2>1 DEF Alive
  <2>3. Settled' => Settled
    BY <2>1, <2>2 DEF Settled
  <2>4. QED
    BY <2>1, <2>2, <2>3, NoMonitorStarts DEF AccIInv
<1>9. CASE Waited
  <2>1. /\ pc' = [pc EXCEPT ![Caller] = "clear"] /\ UNCHANGED <<running, closing>>
        /\ timeouts' = IF Alive = {} THEN timeouts ELSE timeouts + 1
        /\ pc[Caller] = "wait"
    BY <1>9 DEF Waited, Goto, At
  <2>2. Alive' = Alive /\ pc'[Caller] = "clear"
    BY <1>0, <2>1 DEF Alive
  <2>3. timeouts' \in Nat /\ Cardinality(Alive) <= timeouts'
    BY <2>1, AliveFinite, FS_EmptySet DEF AccIInv, AccInv, MonitorsAccounted
  <2>4. Cardinality(Alive)' = Cardinality(Alive)
    BY <2>2
  <2>5. QED
    BY <2>2, <2>3, <2>4, AliveFinite DEF AccInv, MonitorsAccounted
<1>10. CASE ClearMonitor
  <2>1. /\ pc' = [pc EXCEPT ![Caller] = IF closing THEN "close" ELSE "start"]
        /\ UNCHANGED <<timeouts, closing>> /\ pc[Caller] = "clear"
    BY <1>10 DEF ClearMonitor, Goto, At
  <2>2. Alive' = Alive /\ pc'[Caller] = IF closing THEN "close" ELSE "start"
    BY <1>0, <2>1 DEF Alive
  <2>3. Settled
    BY <2>1 DEF Settled
  <2>4. QED
    BY <2>1, <2>2, <2>3, NoMonitorStarts DEF AccIInv
<1>11. CASE StartMonitor
  <2>1. /\ started' = started + 1 /\ running' = TRUE
        /\ pc' = [pc EXCEPT ![Caller] = "idle", ![started'] = "idle"]
        /\ pc[Caller] = "start" /\ UNCHANGED <<closing, timeouts>>
    BY <1>11 DEF StartMonitor, At
  <2>2. started' \in Monitors
    BY <1>11, <2>1 DEF StartMonitor, AccIInv, LeakIInv, ShapeInv, Monitors
  <2>3. Cardinality(Alive) <= timeouts /\ ~closing
    BY <2>1 DEF AccIInv, AccInv, Settled
  <2>4. Alive' \subseteq Alive \cup {started + 1}
    BY <1>0, <2>1 DEF Alive, Actors
  <2>5. pc'[Caller] = "idle"
    BY <1>0, <2>1, <2>2 DEF Actors
  <2>6. /\ IsFiniteSet(Alive \cup {started + 1})
        /\ Cardinality(Alive \cup {started + 1}) <= Cardinality(Alive) + 1
        /\ Cardinality(Alive \cup {started + 1}) \in Nat
    BY AliveAndOne
  <2>7. /\ Cardinality(Alive') <= Cardinality(Alive \cup {started + 1})
        /\ Cardinality(Alive') \in Nat
    BY <2>4, <2>6, FS_Subset, FS_CardinalityType
  <2>8. Cardinality(Alive') <= 1 + timeouts
    BY <2>3, <2>6, <2>7, AliveFinite DEF AccIInv, AccInv
  <2>9. Cardinality(Alive)' = Cardinality(Alive') /\ ~Settled'
    BY <2>1, <2>3, <2>5 DEF Settled
  <2>10. QED
    BY <2>1, <2>3, <2>8, <2>9 DEF AccIInv, AccInv, MonitorsAccounted
<1>12. CASE CloseConn
  <2>1. /\ pc' = [pc EXCEPT ![Caller] = "idle"] /\ Shut'
        /\ UNCHANGED <<timeouts, running, closing>> /\ pc[Caller] = "close"
    BY <1>12 DEF CloseConn, Goto, At, ctlVars, Shut, Open
  <2>2. Alive' = Alive /\ pc'[Caller] = "idle"
    BY <1>0, <2>1 DEF Alive
  <2>3. Settled
    BY <2>1 DEF Settled
  <2>4. QED
    BY <2>1, <2>2, <2>3, NoMonitorStarts DEF AccIInv
<1>13. ASSUME NEW m \in Monitors, MonitorStep(m) PROVE AccInv'
  <2>1. m \in Alive /\ UNCHANGED <<timeouts, closing>>
    BY <1>13 DEF MonitorStep, Look, Judge, Drop, BackoffEnds, MonitorExits, At, Alive, ctlVars
  <2>2. \/ Goto(m, "gone") /\ UNCHANGED <<conn, state>>
        \/ /\ \E label \in {"looked", "decided", "idle", "backoff", "dial"} : Goto(m, label)
           /\ UNCHANGED running
    BY <1>13 DEF MonitorStep, Look, Judge, Drop, BackoffEnds, MonitorExits, connVars, ctlVars
  <2>3. QED
    BY <2>1, <2>2, MonitorMove, MonitorEnds DEF PC, Shut
<1>14. ASSUME NEW i \in Conns, LinkFails(i) \/ LinkRecovers(i) PROVE AccInv'
  <2>1. /\ state[i] \in Open /\ UNCHANGED <<conn, pc, running, closing, timeouts>>
        /\ \E s \in Open : state' = [state EXCEPT ![i] = s]
    BY <1>14 DEF LinkFails, LinkRecovers, ctlVars, Open
  <2>2. Shut => Shut'
    BY <2>1 DEF Shut
  <2>3. QED
    BY <1>1, <2>1, <2>2
<1>15. CASE ParentCancelled \/ UNCHANGED vars
  BY <1>1, <1>15 DEF ParentCancelled, vars, connVars, ctlVars, Shut
<1>16. QED
  BY <1>3, <1>4, <1>5, <1>6, <1>7, <1>8, <1>9, <1>10, <1>11, <1>12, <1>13, <1>14, <1>15
  DEF Next, ConnectStep, CallerStep

LEMMA InitAcc == Init => AccIInv
<1> SUFFICES ASSUME Init PROVE AccInv
  BY InitLeak DEF AccIInv
<1>1. Alive = {}
  BY CallerNoMonitor DEF Init, Alive, Actors
<1>2. QED
  BY <1>1, FS_EmptySet DEF Init, AccInv, MonitorsAccounted

\* Monitors beyond the first are due to stopMonitor's 5 s limit, although one
\* that outlived it unmarks the running of its successor (client.go:381-386).
THEOREM MonitorsAreAccounted == Spec => []MonitorsAccounted
<1>1. AccIInv => MonitorsAccounted
  BY DEF AccIInv, AccInv
<1>2. QED
  BY InitAcc, AccStep, <1>1, PTL DEF Spec

\* After Close, until the next Connect, no connection is open and no monitor is
\* left that could dial one, if stopMonitor gave up on none (client.go:516-530).
THEOREM CloseIsFinal == Spec => []ClosedMeansClosed
<1>1. ASSUME AccIInv, pc[Caller] = "idle", closing, timeouts = 0
      PROVE  Alive = {} /\ \A i \in Conns : state[i] \notin Open
  <2>1. Alive = {} /\ Shut
    BY <1>1, AliveFinite, FS_EmptySet DEF AccIInv, AccInv, Settled
  <2>2. \A a \in Actors : hand[a] = None
    BY <1>1, <2>1 DEF AccIInv, LeakIInv, HandInv, Alive, Actors
  <2>3. ASSUME NEW i \in Conns, state[i] \in Open PROVE FALSE
    <3>1. i = conn
      BY <2>2, <2>3, CallerNoMonitor, <1>1 DEF AccIInv, LeakIInv, NoLeak
    <3>2. QED
      BY <2>1, <2>3, <3>1, CallerNoMonitor DEF Shut
  <2>4. QED
    BY <2>1, <2>3
<1>2. AccIInv => ClosedMeansClosed
  BY <1>1 DEF ClosedMeansClosed
<1>3. QED
  BY InitAcc, AccStep, <1>2, PTL DEF Spec
-----------------------------------------------------------------------------
(* The types.  A monitor's retry count stays below its limit while it is   *)
(* to try again.                                                           *)

CountInv == \A m \in Monitors : pc[m] # "gone" => retries[m] < MaxRetries

TypeIInv == TypeOK /\ CountInv

LEMMA InitType == Init => TypeIInv
<1> SUFFICES ASSUME Init PROVE TypeIInv
  OBVIOUS
<1>1. closing \in BOOLEAN /\ running \in BOOLEAN /\ parentDone \in BOOLEAN /\ panicked \in BOOLEAN
  BY Zenon DEF Init
<1>2. pc \in [Actors -> PC]
  BY DEF Init, PC
<1>3. TypeOK
  BY <1>1, <1>2, ConnectionAssumption DEF Init, TypeOK
<1>4. CountInv
  BY ConnectionAssumption DEF Init, CountInv
<1>5. QED
  BY <1>3, <1>4 DEF TypeIInv

\* A failed attempt is counted, and the last one ends the monitor.
LEMMA FailedType ==
    ASSUME TypeIInv, NEW a \in Actors, Failed(a), pc[a] # "gone",
           UNCHANGED <<connVars, seen, live, closing, current, parentDone, timeouts, started>>,
           panicked' \in BOOLEAN
    PROVE  TypeIInv'
<1>1. /\ pc \in [Actors -> PC] /\ retries \in [Monitors -> 0..MaxRetries] /\ running \in BOOLEAN
      /\ CountInv
  BY DEF TypeIInv, TypeOK
<1>2. CASE a = Caller
  <2>1. Goto(Caller, "idle") /\ retries' = retries /\ running' = running
    BY <1>2 DEF Failed
  <2>2. pc' \in [Actors -> PC] /\ CountInv'
    BY <1>1, <2>1, CallerNoMonitor DEF Goto, PC, CountInv, Actors
  <2>3. QED
    BY <1>1, <2>1, <2>2 DEF TypeIInv, TypeOK, connVars
<1>3. CASE a # Caller
  <2>1. a \in Monitors
    BY <1>3 DEF Actors
  <2>2. retries' = [retries EXCEPT ![a] = @ + 1]
    BY <1>3 DEF Failed
  <2>3. /\ retries[a] + 1 \in 0..MaxRetries /\ retries'[a] = retries[a] + 1
        /\ retries' \in [Monitors -> 0..MaxRetries]
    BY <1>1, <2>1, <2>2, ConnectionAssumption DEF CountInv
  <2>4. running' \in BOOLEAN
    BY <1>1, <1>3, Zenon DEF Failed
  <2>5. PICK label \in {"idle", "gone"} :
          Goto(a, label) /\ (label = "idle" => ~(retries'[a] >= MaxRetries))
    BY <1>3, Zenon DEF Failed
  <2>6. pc' \in [Actors -> PC]
    BY <1>1, <2>5 DEF Goto, PC
  <2>7. CountInv'
    BY <1>1, <2>1, <2>2, <2>3, <2>5, ConnectionAssumption DEF CountInv, Goto, Actors
  <2>8. QED
    BY <2>3, <2>4, <2>6, <2>7 DEF TypeIInv, TypeOK, connVars
<1>4. QED
  BY <1>2, <1>3

LEMMA TypeStep == LeakIInv /\ TypeIInv /\ [Next]_vars => TypeIInv'
<1> SUFFICES ASSUME LeakIInv, TypeIInv, [Next]_vars PROVE TypeIInv'
  OBVIOUS
<1> USE ConnectionAssumption, CallerNoMonitor
        DEF TypeIInv, TypeOK, CountInv, connVars, monVars, ctlVars, At, Goto, PC, Open, Actors
<1>1. ASSUME NEW a \in Actors, Dial(a) PROVE TypeIInv'
  <2>1. dials' \in Conns /\ dials' \in 0..MaxDials
    BY <1>1 DEF Dial, Conns
  <2>2. QED
    BY <1>1, <2>1 DEF Dial
<1>2. ASSUME NEW a \in Actors, DialFails(a) \/ Check(a) \/ CheckState(a) PROVE TypeIInv'
  <2>1. CASE Failed(a) /\ panicked' = panicked
    BY <1>2, <2>1, FailedType DEF DialFails, Check, CheckState
  <2>2. CASE ~(Failed(a) /\ panicked' = panicked)
    BY <1>2, <2>2 DEF DialFails, Check, CheckState
  <2>3. QED
    BY <2>1, <2>2
<1>3. ASSUME NEW a \in Actors, Install(a) PROVE TypeIInv'
  BY <1>3 DEF Install
<1>4. ASSUME NEW a \in Actors, CloseSuperseded(a) PROVE TypeIInv'
  BY <1>4 DEF CloseSuperseded, Closed
<1>5. CASE Connect \/ Close
  BY <1>5 DEF Connect, Close
<1>6. CASE CancelMonitor \/ ClearMonitor
  BY <1>6 DEF CancelMonitor, ClearMonitor
<1>7. CASE Waited
  BY <1>7 DEF Waited
<1>8. CASE StartMonitor
  <2>1. started' \in Monitors /\ started' \in 0..MaxMonitors
    BY <1>8 DEF StartMonitor, Monitors
  <2>2. live' \in [Monitors -> BOOLEAN] /\ running' \in BOOLEAN
    <3>1. (~parentDone) \in BOOLEAN
      BY Zenon
    <3>2. QED
      BY <1>8, <2>1, <3>1, Zenon DEF StartMonitor
  <2>3. pc' \in [Actors -> PC] /\ \A m \in Monitors : pc'[m] # "gone" => retries[m] < MaxRetries
    <3>1. pc[started'] = "none" /\ started' # Caller
      BY <1>8, <2>1 DEF StartMonitor, LeakIInv, HandInv, ShapeInv
    <3>2. pc' \in [Actors -> PC]
      BY <1>8, <2>1, Zenon DEF StartMonitor
    <3>3. \A m \in Monitors : pc'[m] # "gone" => pc[m] # "gone"
      BY <1>8, <2>1, <3>1 DEF StartMonitor
    <3>4. QED
      BY <3>2, <3>3
  <2>4. QED
    BY <1>8, <2>1, <2>2, <2>3 DEF StartMonitor
<1>9. CASE CloseConn
  BY <1>9 DEF CloseConn, Closed
<1>10. ASSUME NEW m \in Monitors, Look(m) \/ BackoffEnds(m) \/ MonitorExits(m) PROVE TypeIInv'
  <2>1. CASE Look(m)
    BY <2>1 DEF Look
  <2>2. CASE BackoffEnds(m)
    BY <2>2 DEF BackoffEnds
  <2>3. CASE MonitorExits(m)
    <3>1. running' \in BOOLEAN
      BY <2>3, Zenon DEF MonitorExits
    <3>2. QED
      BY <2>3, <3>1 DEF MonitorExits
  <2>4. QED
    BY <1>10, <2>1, <2>2, <2>3
<1>11. ASSUME NEW m \in Monitors, Judge(m) PROVE TypeIInv'
  BY <1>11 DEF Judge
<1>12. ASSUME NEW m \in Monitors, Drop(m) PROVE TypeIInv'
  BY <1>12 DEF Drop, Closed
<1>13. ASSUME NEW i \in Conns, LinkFails(i) \/ LinkRecovers(i) PROVE TypeIInv'
  BY <1>13 DEF LinkFails, LinkRecovers
<1>14. CASE ParentCancelled
  BY <1>14 DEF ParentCancelled
<1>15. CASE UNCHANGED vars
  BY <1>15 DEF vars
<1>16. QED
  BY <1>1, <1>2, <1>3, <1>4, <1>5, <1>6, <1>7, <1>8, <1>9, <1>10, <1>11, <1>12, <1>13, <1>14,
     <1>15 DEF Next, ConnectStep, CallerStep, MonitorStep

\* Every variable keeps to its values; a monitor never goes on past its last retry
\* (client.go:416-440).
THEOREM TypeCorrect == Spec => []TypeOK
<1>1. TypeIInv => TypeOK
  BY DEF TypeIInv
<1>2. QED
  BY <1>1, InitLeak, LeakStep, InitType, TypeStep, PTL DEF Spec
===============================================================================
