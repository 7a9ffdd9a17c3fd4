---------------------------- MODULE SessionProofs ----------------------------
(***************************************************************************)
(* Proofs about Session for every number of registrations, retries, lost   *)
(* registrations and pending callbacks.                                    *)
(*                                                                         *)
(* OneStreamAtATime is not inductive: it says nothing of where mainLoop    *)
(* is.  StreamInv adds that a stream can only be alive while mainLoop is   *)
(* between starting it and having awaited it, that streams are started in  *)
(* the order of registrations, and that a manager that is done has a       *)
(* command loop that is done.                                              *)
(***************************************************************************)
EXTENDS Session, FiniteSetTheorems, TLAPS

Streaming == {"arriving", "parked", "awaitCtx", "awaitErr"}

\* Retries are bounded by giving up in time.
RetryInv == main \notin {"cleanup", "unregistering", "exited"} => retryCount < MaxRetries

\* A registration is in the making or made only with the token it brought.
TokenInv ==
    /\ token \in {0, reg}
    /\ isConnected => token = reg /\ reg # 0
    /\ main \in {"hbStopping", "hbStarting"} \cup Streaming => reg # 0

\* Streams start one after another, and one is over before the next starts.
StreamInv ==
    /\ \A r \in Regs : StreamAlive(r) => r = reg /\ main \in Streaming
    /\ \A r \in Regs : mgr[r] = "done" => cmd[r] = "done"
    /\ \A r \in Regs : streamErr[r] => mgr[r] = "done"
    /\ main = "awaitErr" => mgr[reg] = "done"

\* A stream's goroutines are started once, for a registration that had none.
FreshInv ==
    \A r \in Regs : mgr[r] # "none" => r <= reg /\ (main \in {"hbStopping", "hbStarting"} => r # reg)

\* A stream that has passed its snapshot runs on its own registration's token.
TokInv ==
    \A r \in Regs : cmd[r] \in {"create", "initial", "top", "recv", "handle", "send"} => tok[r] = r

Inv == TypeOK /\ RetryInv /\ TokenInv /\ StreamInv /\ FreshInv /\ TokInv /\ NeverConnectedAtTop
-----------------------------------------------------------------------------
LEMMA InitType == Init => TypeOK
<1> SUFFICES ASSUME Init PROVE TypeOK
  OBVIOUS
<1> USE BoundsAssumption, RetryAssumption DEF Init
<1>1. HbTypeOK
  BY DEF HbInit, HbTypeOK, LoopPC
<1>2. MainTypeOK
  BY DEF MainTypeOK, MainPC
<1>3. FlagsOK
  BY Zenon DEF FlagsOK, HbFlagsOK, HbInit
<1>4. PcTypeOK
  BY DEF PcTypeOK, CmdPC, MgrPC, HealthPC
<1>5. ChanTypeOK
  BY DEF ChanTypeOK
<1>6. NumTypeOK
  BY DEF NumTypeOK
<1>7. QED
  BY <1>1, <1>2, <1>3, <1>4, <1>5, <1>6 DEF TypeOK

LEMMA InitInv == Init => Inv
<1> SUFFICES ASSUME Init PROVE Inv
  OBVIOUS
<1>1. RetryInv /\ TokenInv /\ TokInv /\ NeverConnectedAtTop
  BY RetryAssumption DEF Init, RetryInv, TokenInv, TokInv, NeverConnectedAtTop, Streaming
<1>2. StreamInv
  BY DEF Init, StreamInv, StreamAlive, Streaming
<1>3. FreshInv
  BY DEF Init, FreshInv
<1>4. QED
  BY <1>1, <1>2, <1>3, InitType DEF Inv
-----------------------------------------------------------------------------
(* Types, one group of variables at a time. *)

LEMMA HbTypeStep == HbTypeOK /\ [Next]_vars => HbTypeOK'
<1> SUFFICES ASSUME HbTypeOK, [Next]_vars PROVE HbTypeOK'
  OBVIOUS
<1> USE BoundsAssumption DEF HbTypeOK, LoopPC
<1>0. UNCHANGED hbVars => HbTypeOK'
  BY DEF hbVars
<1>1. StopCancel => HbTypeOK'
  BY DEF StopCancel
<1>2. StopFinish => HbTypeOK'
  BY DEF StopFinish
<1>3. InitializeFails \/ StartFails \/ PingNotRegistered => HbTypeOK'
  BY DEF InitializeFails, StartFails, PingNotRegistered
<1>4. ASSUME NEW r \in Regs, HbLingererEnds(r) PROVE HbTypeOK'
  BY <1>4 DEF HbLingererEnds, LingeringPingEnds
<1>5. TriggerIgnored \/ TriggerEnds => HbTypeOK'
  BY DEF TriggerIgnored, TriggerEnds
<1>6. ConnectReturns => HbTypeOK'
  <2>1. InitializeAndStart(reg) => HbTypeOK'
    BY DEF InitializeAndStart
  <2>2. QED
    BY <1>3, <2>1 DEF ConnectReturns
<1> HIDE DEF HbTypeOK
<1>7. CASE \/ MainTop \/ ConnectFails \/ ConnectRejected \/ BackoffEnds \/ MainSelect
           \/ MainAwaitedCtx \/ MainAwaitedErr \/ Signal \/ LinkBreaks \/ ServerForgets
           \/ UNCHANGED vars
  BY <1>0, <1>7 DEF MainTop, ConnectFails, ConnectRejected, BackoffEnds, MainSelect, MainAwaitedCtx,
         MainAwaitedErr, Signal, LinkBreaks, ServerForgets, vars
<1>8. ASSUME NEW r \in Regs,
             StreamStep(r) \/ RecvCommand(r) \/ HealthTick(r) \/ HealthLooks(r)
      PROVE  HbTypeOK'
  BY <1>0, <1>8 DEF StreamStep, MgrSelect, MgrReturns, Snapshot, CreateStream, SendInitial, LoopTop,
              RecvFails, HandlerReturns, SendResponse, Report, RecvCommand, HealthTick,
              HealthLooks, CmdStep
<1>9. ConnectRegisters \/ TriggerBegins \/ ShutdownBegins => HbTypeOK'
  BY <1>0, <1>1 DEF ConnectRegisters, TriggerBegins, ShutdownBegins
<1>10. ConnectStopsHeartbeat \/ ShutdownEnds => HbTypeOK'
  BY <1>2 DEF ConnectStopsHeartbeat, ShutdownEnds
<1>11. HbNotRegistered => HbTypeOK'
  BY <1>3 DEF HbNotRegistered
<1>12. QED
  BY <1>4, <1>5, <1>6, <1>7, <1>8, <1>9, <1>10, <1>11 DEF Next, MainStep, TriggerStep

\* What the command loop does between its snapshot and its last report.
LEMMA CmdSteps ==
    ASSUME NEW r \in Regs,
           \/ Snapshot(r) \/ CreateStream(r) \/ SendInitial(r) \/ LoopTop(r)
           \/ RecvFails(r) \/ HandlerReturns(r) \/ SendResponse(r) \/ RecvCommand(r)
    PROVE  \E from, to : CmdStep(r, from, to)
BY Zenon DEF Snapshot, CreateStream, SendInitial, LoopTop, RecvFails, HandlerReturns,
             SendResponse, RecvCommand

LEMMA FlagsStep == FlagsOK /\ [Next]_vars => FlagsOK'
<1> SUFFICES ASSUME FlagsOK, [Next]_vars PROVE FlagsOK'
  OBVIOUS
<1> USE DEF FlagsOK, HbFlagsOK
<1>1. MainTop \/ ConnectFails \/ ConnectRejected \/ BackoffEnds \/ MainSelect => FlagsOK'
  BY Zenon DEF MainTop, ConnectFails, ConnectRejected, BackoffEnds, MainSelect, hbVars, sessVars,
               envVars, markVars
<1>2. ConnectRegisters \/ ConnectStopsHeartbeat \/ ShutdownBegins \/ ShutdownEnds => FlagsOK'
  BY Zenon DEF ConnectRegisters, ConnectStopsHeartbeat, ShutdownBegins, ShutdownEnds, StopCancel,
               StopFinish, hbVars, sessVars, envVars, markVars
<1>3. ConnectReturns => FlagsOK'
  BY Zenon DEF ConnectReturns, InitializeAndStart, InitializeFails, StartFails, envVars, markVars
<1>4. MainAwaitedCtx \/ MainAwaitedErr => FlagsOK'
  BY Zenon DEF MainAwaitedCtx, MainAwaitedErr, hbVars, sessVars, envVars, markVars
<1>5. ASSUME NEW r \in Regs, MgrSelect(r) \/ MgrReturns(r) \/ Report(r) PROVE FlagsOK'
  BY <1>5, Zenon DEF MgrSelect, MgrReturns, Report, hbVars, sessVars, envVars, markVars
<1>6. ASSUME NEW r \in Regs, HealthTick(r) \/ HealthLooks(r) PROVE FlagsOK'
  BY <1>6, Zenon DEF HealthTick, HealthLooks, hbVars, sessVars, envVars, markVars
<1>7. ASSUME NEW r \in Regs, NEW from, NEW to, CmdStep(r, from, to) PROVE FlagsOK'
  BY <1>7, Zenon DEF CmdStep, hbVars, sessVars, envVars, markVars
<1>9. ASSUME NEW r \in Regs, HbLingererEnds(r) PROVE FlagsOK'
  BY <1>9, Zenon DEF HbLingererEnds, LingeringPingEnds, sessVars, envVars, markVars
<1>10. HbNotRegistered \/ TriggerStep => FlagsOK'
  BY Zenon DEF HbNotRegistered, PingNotRegistered, TriggerStep, TriggerIgnored, TriggerBegins,
               TriggerEnds, StopCancel, sessVars, envVars, markVars
<1>11. Signal \/ LinkBreaks \/ ServerForgets => FlagsOK'
  BY Zenon DEF Signal, LinkBreaks, ServerForgets, hbVars, sessVars, envVars, markVars
<1>12. UNCHANGED vars => FlagsOK'
  BY Zenon DEF vars, hbVars, sessVars, envVars, markVars
<1>13. QED
  BY <1>1, <1>2, <1>3, <1>4, <1>5, <1>6, <1>7, <1>9, <1>10, <1>11, <1>12, CmdSteps
  DEF Next, MainStep, StreamStep

LEMMA MainTypeStep == MainTypeOK /\ RetryInv /\ [Next]_vars => MainTypeOK'
<1> SUFFICES ASSUME MainTypeOK, RetryInv, [Next]_vars PROVE MainTypeOK'
  OBVIOUS
<1> USE RetryAssumption DEF MainTypeOK, MainPC
<1>1. MainTop \/ ConnectFails \/ ConnectRejected \/ BackoffEnds \/ MainSelect => MainTypeOK'
  BY DEF MainTop, ConnectFails, ConnectRejected, BackoffEnds, MainSelect, RetryInv, sessVars
<1>2. ConnectRegisters \/ ConnectStopsHeartbeat \/ ConnectReturns => MainTypeOK'
  BY DEF ConnectRegisters, ConnectStopsHeartbeat, ConnectReturns, sessVars
<1>3. MainAwaitedCtx \/ MainAwaitedErr \/ ShutdownBegins \/ ShutdownEnds => MainTypeOK'
  BY DEF MainAwaitedCtx, MainAwaitedErr, ShutdownBegins, ShutdownEnds, sessVars
<1>4. ASSUME NEW r \in Regs, MgrSelect(r) \/ MgrReturns(r) \/ Report(r) PROVE MainTypeOK'
  BY <1>4 DEF MgrSelect, MgrReturns, Report, sessVars, mainVars
<1>5. ASSUME NEW r \in Regs, HealthTick(r) \/ HealthLooks(r) \/ HbLingererEnds(r)
      PROVE  MainTypeOK'
  BY <1>5 DEF HealthTick, HealthLooks, HbLingererEnds, sessVars, mainVars
<1>6. ASSUME NEW r \in Regs, NEW from, NEW to, CmdStep(r, from, to) PROVE MainTypeOK'
  BY <1>6 DEF CmdStep, sessVars, mainVars
<1>7. HbNotRegistered \/ TriggerStep => MainTypeOK'
  BY DEF HbNotRegistered, TriggerStep, TriggerIgnored, TriggerBegins, TriggerEnds, sessVars,
         mainVars
<1>8. Signal \/ LinkBreaks \/ ServerForgets \/ UNCHANGED vars => MainTypeOK'
  BY DEF Signal, LinkBreaks, ServerForgets, vars, sessVars, mainVars
<1> HIDE DEF MainTypeOK
<1>9. QED
  BY <1>1, <1>2, <1>3, <1>4, <1>5, <1>6, <1>7, <1>8, CmdSteps DEF Next, MainStep, StreamStep

LEMMA PcTypeStep == PcTypeOK /\ [Next]_vars => PcTypeOK'
<1> SUFFICES ASSUME PcTypeOK, [Next]_vars PROVE PcTypeOK'
  OBVIOUS
<1> USE DEF PcTypeOK, CmdPC, MgrPC, HealthPC
<1>0. UNCHANGED streamVars => PcTypeOK'
  BY DEF streamVars
<1>1. CASE \/ MainTop \/ ConnectFails \/ ConnectRejected \/ ConnectRegisters
           \/ ConnectStopsHeartbeat \/ BackoffEnds \/ MainAwaitedCtx \/ MainAwaitedErr
           \/ ShutdownBegins \/ ShutdownEnds
  BY <1>0, <1>1 DEF MainTop, ConnectFails, ConnectRejected, ConnectRegisters, ConnectStopsHeartbeat,
         BackoffEnds, MainAwaitedCtx, MainAwaitedErr, ShutdownBegins, ShutdownEnds
<1>2. ConnectReturns => PcTypeOK'
  BY DEF ConnectReturns
<1>3. MainSelect => PcTypeOK'
  BY DEF MainSelect, CancelStream
<1>4. ASSUME NEW r \in Regs, MgrSelect(r) \/ MgrReturns(r) PROVE PcTypeOK'
  BY <1>4 DEF MgrSelect, MgrReturns, CancelStream
<1>5. ASSUME NEW r \in Regs, Snapshot(r) \/ CreateStream(r) \/ SendInitial(r) \/ LoopTop(r)
      PROVE  PcTypeOK'
  BY <1>5 DEF Snapshot, CreateStream, SendInitial, LoopTop, CmdStep
<1>6. ASSUME NEW r \in Regs,
             RecvCommand(r) \/ RecvFails(r) \/ HandlerReturns(r) \/ SendResponse(r)
      PROVE  PcTypeOK'
  BY <1>6 DEF RecvCommand, RecvFails, HandlerReturns, SendResponse, CmdStep
<1>7. ASSUME NEW r \in Regs, Report(r) PROVE PcTypeOK'
  BY <1>7 DEF Report
<1>8. ASSUME NEW r \in Regs, HealthTick(r) \/ HealthLooks(r) PROVE PcTypeOK'
  BY <1>8 DEF HealthTick, HealthLooks
<1>9. Signal => PcTypeOK'
  BY DEF Signal
<1>10. LinkBreaks \/ ServerForgets \/ HbNotRegistered \/ TriggerStep \/ UNCHANGED vars
         => PcTypeOK'
  BY <1>0 DEF LinkBreaks, ServerForgets, HbNotRegistered, TriggerStep, TriggerIgnored, TriggerBegins,
         TriggerEnds, vars
<1>11. ASSUME NEW r \in Regs, HbLingererEnds(r) PROVE PcTypeOK'
  BY <1>0, <1>11 DEF HbLingererEnds
<1> HIDE DEF PcTypeOK
<1>12. QED
  BY <1>1, <1>2, <1>3, <1>4, <1>5, <1>6, <1>7, <1>8, <1>9, <1>10, <1>11
  DEF Next, MainStep, StreamStep

LEMMA ChanTypeStep == ChanTypeOK /\ NumTypeOK /\ [Next]_vars => ChanTypeOK'
<1> SUFFICES ASSUME ChanTypeOK, NumTypeOK, [Next]_vars PROVE ChanTypeOK'
  OBVIOUS
<1> USE BoundsAssumption DEF ChanTypeOK
<1>0. UNCHANGED <<errBuf, streamErr, cancelled, tok>> => ChanTypeOK'
  OBVIOUS
<1>1. CASE \/ MainTop \/ ConnectFails \/ ConnectRejected \/ ConnectRegisters
           \/ ConnectStopsHeartbeat \/ ConnectReturns \/ BackoffEnds \/ MainAwaitedCtx
           \/ MainAwaitedErr \/ ShutdownBegins \/ ShutdownEnds
  BY <1>0, <1>1 DEF MainTop, ConnectFails, ConnectRejected, ConnectRegisters,
         ConnectStopsHeartbeat, ConnectReturns, BackoffEnds, MainAwaitedCtx, MainAwaitedErr,
         ShutdownBegins, ShutdownEnds, streamVars
<1>2. MainSelect => ChanTypeOK'
  BY DEF MainSelect, CancelStream
<1>3. ASSUME NEW r \in Regs, MgrSelect(r) \/ MgrReturns(r) PROVE ChanTypeOK'
  BY <1>3 DEF MgrSelect, MgrReturns, CancelStream
<1>4. ASSUME NEW r \in Regs, Snapshot(r) PROVE ChanTypeOK'
  BY <1>4 DEF Snapshot, CmdStep, NumTypeOK
<1>5. ASSUME NEW r \in Regs,
             \/ CreateStream(r) \/ SendInitial(r) \/ LoopTop(r) \/ RecvCommand(r)
             \/ RecvFails(r) \/ HandlerReturns(r) \/ SendResponse(r)
      PROVE  ChanTypeOK'
  BY <1>0, <1>5 DEF CreateStream, SendInitial, LoopTop, RecvCommand, RecvFails, HandlerReturns,
                    SendResponse, CmdStep
<1>6. ASSUME NEW r \in Regs, Report(r) \/ HealthTick(r) \/ HealthLooks(r) PROVE ChanTypeOK'
  BY <1>6 DEF Report, HealthTick, HealthLooks
<1>7. CASE Signal \/ LinkBreaks \/ ServerForgets \/ HbNotRegistered \/ TriggerStep \/ UNCHANGED vars
  BY <1>0, <1>7 DEF Signal, LinkBreaks, ServerForgets, HbNotRegistered, TriggerStep,
                    TriggerIgnored, TriggerBegins, TriggerEnds, streamVars, vars
<1>8. ASSUME NEW r \in Regs, HbLingererEnds(r) PROVE ChanTypeOK'
  BY <1>0, <1>8 DEF HbLingererEnds, streamVars
<1> HIDE DEF ChanTypeOK
<1>9. QED
  BY <1>1, <1>2, <1>3, <1>4, <1>5, <1>6, <1>7, <1>8 DEF Next, MainStep, StreamStep

LEMMA NumTypeStep == NumTypeOK /\ TokenInv /\ [Next]_vars => NumTypeOK'
<1> SUFFICES ASSUME NumTypeOK, TokenInv, [Next]_vars PROVE NumTypeOK'
  OBVIOUS
<1> USE BoundsAssumption, RetryAssumption DEF NumTypeOK
<1>0. UNCHANGED <<token, reg, known, forgets, markVars>> => NumTypeOK'
  BY DEF markVars
<1>00. FoundLive \subseteq Regs
  BY DEF FoundLive, Regs
<1>1. CASE \/ MainTop \/ ConnectFails \/ ConnectRejected \/ ConnectStopsHeartbeat
           \/ ConnectReturns \/ BackoffEnds \/ MainSelect \/ MainAwaitedCtx \/ ShutdownBegins
  BY <1>0, <1>1 DEF MainTop, ConnectFails, ConnectRejected, ConnectStopsHeartbeat,
         ConnectReturns, BackoffEnds, MainSelect, MainAwaitedCtx, ShutdownBegins, sessVars, envVars, markVars
<1>2. ConnectRegisters => NumTypeOK'
  BY DEF ConnectRegisters, markVars
<1>3. MainAwaitedErr => NumTypeOK'
  BY <1>00 DEF MainAwaitedErr, envVars, markVars
<1>4. ShutdownEnds => NumTypeOK'
  BY DEF ShutdownEnds, Regs
<1>5. ASSUME NEW r \in Regs, MgrSelect(r) \/ MgrReturns(r) \/ Report(r) PROVE NumTypeOK'
  BY <1>0, <1>5 DEF MgrSelect, MgrReturns, Report, sessVars, envVars, markVars
<1>6. ASSUME NEW r \in Regs, HealthTick(r) \/ HealthLooks(r) \/ HbLingererEnds(r)
      PROVE  NumTypeOK'
  BY <1>0, <1>6 DEF HealthTick, HealthLooks, HbLingererEnds, sessVars, envVars, markVars
<1>7. ASSUME NEW r \in Regs, NEW from, NEW to, CmdStep(r, from, to) PROVE NumTypeOK'
  BY <1>0, <1>7 DEF CmdStep, sessVars, envVars, markVars
<1>8. TriggerBegins => NumTypeOK'
  BY <1>00 DEF TriggerBegins
<1>9. TriggerIgnored \/ TriggerEnds \/ HbNotRegistered => NumTypeOK'
  BY <1>0 DEF TriggerIgnored, TriggerEnds, HbNotRegistered, sessVars, envVars, markVars
<1>10. Signal => NumTypeOK'
  BY DEF Signal, sessVars
<1>11. LinkBreaks \/ UNCHANGED vars => NumTypeOK'
  BY <1>0 DEF LinkBreaks, vars, sessVars, envVars
<1>12. ServerForgets => NumTypeOK'
  BY DEF ServerForgets, sessVars, markVars
<1> HIDE DEF NumTypeOK
<1>13. QED
  BY <1>1, <1>2, <1>3, <1>4, <1>5, <1>6, <1>7, <1>8, <1>9, <1>10, <1>11, <1>12, CmdSteps
  DEF Next, MainStep, StreamStep, TriggerStep

LEMMA TypeStep == Inv /\ [Next]_vars => TypeOK'
BY HbTypeStep, FlagsStep, MainTypeStep, PcTypeStep, ChanTypeStep, NumTypeStep DEF Inv, TypeOK
-----------------------------------------------------------------------------
(* The other parts of the invariant. *)

LEMMA RetryStep == Inv /\ [Next]_vars => RetryInv'
<1> SUFFICES ASSUME RetryInv, MainTypeOK, [Next]_vars PROVE RetryInv'
  BY DEF Inv, TypeOK
<1> USE RetryAssumption DEF RetryInv, MainTypeOK, MainPC
<1>1. MainTop \/ ConnectFails \/ ConnectRejected \/ BackoffEnds \/ MainSelect => RetryInv'
  BY DEF MainTop, ConnectFails, ConnectRejected, BackoffEnds, MainSelect
<1>2. ConnectRegisters \/ ConnectStopsHeartbeat \/ ConnectReturns => RetryInv'
  BY DEF ConnectRegisters, ConnectStopsHeartbeat, ConnectReturns
<1>3. MainAwaitedCtx \/ MainAwaitedErr \/ ShutdownBegins \/ ShutdownEnds => RetryInv'
  BY DEF MainAwaitedCtx, MainAwaitedErr, ShutdownBegins, ShutdownEnds
<1>4. ASSUME NEW r \in Regs, MgrSelect(r) \/ MgrReturns(r) \/ Report(r) PROVE RetryInv'
  BY <1>4 DEF MgrSelect, MgrReturns, Report, mainVars
<1>5. ASSUME NEW r \in Regs, HealthTick(r) \/ HealthLooks(r) \/ HbLingererEnds(r)
      PROVE  RetryInv'
  BY <1>5 DEF HealthTick, HealthLooks, HbLingererEnds, mainVars
<1>6. ASSUME NEW r \in Regs, NEW from, NEW to, CmdStep(r, from, to) PROVE RetryInv'
  BY <1>6 DEF CmdStep, mainVars
<1>7. HbNotRegistered \/ TriggerStep => RetryInv'
  BY DEF HbNotRegistered, TriggerStep, TriggerIgnored, TriggerBegins, TriggerEnds, mainVars
<1>8. Signal \/ LinkBreaks \/ ServerForgets \/ UNCHANGED vars => RetryInv'
  BY DEF Signal, LinkBreaks, ServerForgets, vars, mainVars
<1> HIDE DEF RetryInv
<1>9. QED
  BY <1>1, <1>2, <1>3, <1>4, <1>5, <1>6, <1>7, <1>8, CmdSteps DEF Next, MainStep, StreamStep

LEMMA TokenStep == Inv /\ [Next]_vars => TokenInv'
<1> SUFFICES ASSUME TokenInv, NumTypeOK, [Next]_vars PROVE TokenInv'
  BY DEF Inv, TypeOK
<1> USE BoundsAssumption DEF TokenInv, NumTypeOK, Streaming
<1>1. MainTop \/ ConnectFails \/ ConnectRejected \/ BackoffEnds \/ MainSelect => TokenInv'
  BY DEF MainTop, ConnectFails, ConnectRejected, BackoffEnds, MainSelect, sessVars
<1>2. ConnectRegisters \/ ConnectStopsHeartbeat \/ ConnectReturns => TokenInv'
  BY DEF ConnectRegisters, ConnectStopsHeartbeat, ConnectReturns, sessVars
<1>3. MainAwaitedCtx \/ MainAwaitedErr \/ ShutdownBegins \/ ShutdownEnds => TokenInv'
  BY DEF MainAwaitedCtx, MainAwaitedErr, ShutdownBegins, ShutdownEnds, sessVars
<1>4. ASSUME NEW r \in Regs, MgrSelect(r) \/ MgrReturns(r) \/ Report(r) PROVE TokenInv'
  BY <1>4 DEF MgrSelect, MgrReturns, Report, mainVars, sessVars
<1>5. ASSUME NEW r \in Regs, HealthTick(r) \/ HealthLooks(r) \/ HbLingererEnds(r)
      PROVE  TokenInv'
  BY <1>5 DEF HealthTick, HealthLooks, HbLingererEnds, mainVars, sessVars
<1>6. ASSUME NEW r \in Regs, NEW from, NEW to, CmdStep(r, from, to) PROVE TokenInv'
  BY <1>6 DEF CmdStep, mainVars, sessVars
<1>7. HbNotRegistered \/ TriggerStep => TokenInv'
  BY DEF HbNotRegistered, TriggerStep, TriggerIgnored, TriggerBegins, TriggerEnds, mainVars,
         sessVars
<1>8. Signal \/ LinkBreaks \/ ServerForgets \/ UNCHANGED vars => TokenInv'
  BY DEF Signal, LinkBreaks, ServerForgets, vars, mainVars, sessVars
<1> HIDE DEF TokenInv
<1>9. QED
  BY <1>1, <1>2, <1>3, <1>4, <1>5, <1>6, <1>7, <1>8, CmdSteps DEF Next, MainStep, StreamStep

LEMMA NeverConnectedStep == Inv /\ [Next]_vars => NeverConnectedAtTop'
<1> SUFFICES ASSUME NeverConnectedAtTop, [Next]_vars PROVE NeverConnectedAtTop'
  BY DEF Inv
<1> USE DEF NeverConnectedAtTop
<1>1. MainTop \/ ConnectFails \/ ConnectRejected \/ BackoffEnds \/ MainSelect
        => NeverConnectedAtTop'
  BY DEF MainTop, ConnectFails, ConnectRejected, BackoffEnds, MainSelect, sessVars
<1>2. ConnectRegisters \/ ConnectStopsHeartbeat \/ ConnectReturns => NeverConnectedAtTop'
  BY DEF ConnectRegisters, ConnectStopsHeartbeat, ConnectReturns, sessVars
<1>3. MainAwaitedCtx \/ MainAwaitedErr \/ ShutdownBegins \/ ShutdownEnds => NeverConnectedAtTop'
  BY DEF MainAwaitedCtx, MainAwaitedErr, ShutdownBegins, ShutdownEnds, sessVars
<1>4. ASSUME NEW r \in Regs, MgrSelect(r) \/ MgrReturns(r) \/ Report(r) PROVE NeverConnectedAtTop'
  BY <1>4 DEF MgrSelect, MgrReturns, Report, mainVars, sessVars
<1>5. ASSUME NEW r \in Regs, HealthTick(r) \/ HealthLooks(r) \/ HbLingererEnds(r)
      PROVE  NeverConnectedAtTop'
  BY <1>5 DEF HealthTick, HealthLooks, HbLingererEnds, mainVars, sessVars
<1>6. ASSUME NEW r \in Regs, NEW from, NEW to, CmdStep(r, from, to) PROVE NeverConnectedAtTop'
  BY <1>6 DEF CmdStep, mainVars, sessVars
<1>7. HbNotRegistered \/ TriggerStep => NeverConnectedAtTop'
  BY DEF HbNotRegistered, TriggerStep, TriggerIgnored, TriggerBegins, TriggerEnds, mainVars,
         sessVars
<1>8. Signal \/ LinkBreaks \/ ServerForgets \/ UNCHANGED vars => NeverConnectedAtTop'
  BY DEF Signal, LinkBreaks, ServerForgets, vars, mainVars, sessVars
<1> HIDE DEF NeverConnectedAtTop
<1>9. QED
  BY <1>1, <1>2, <1>3, <1>4, <1>5, <1>6, <1>7, <1>8, CmdSteps DEF Next, MainStep, StreamStep

LEMMA FreshStep == Inv /\ [Next]_vars => FreshInv'
<1> SUFFICES ASSUME FreshInv, NumTypeOK, PcTypeOK, TokenInv, [Next]_vars PROVE FreshInv'
  BY DEF Inv, TypeOK
<1> USE BoundsAssumption DEF FreshInv, NumTypeOK, PcTypeOK, Regs
<1>1. MainTop \/ ConnectFails \/ ConnectRejected \/ BackoffEnds \/ MainSelect => FreshInv'
  BY DEF MainTop, ConnectFails, ConnectRejected, BackoffEnds, MainSelect, sessVars, streamVars
<1>2. ConnectRegisters \/ ConnectStopsHeartbeat => FreshInv'
  BY DEF ConnectRegisters, ConnectStopsHeartbeat, sessVars, streamVars
<1>3. ConnectReturns => FreshInv'
  BY DEF ConnectReturns
<1>4. MainAwaitedCtx \/ MainAwaitedErr \/ ShutdownBegins \/ ShutdownEnds => FreshInv'
  BY DEF MainAwaitedCtx, MainAwaitedErr, ShutdownBegins, ShutdownEnds, sessVars, streamVars
<1>5. ASSUME NEW r \in Regs, MgrSelect(r) \/ MgrReturns(r) \/ Report(r) PROVE FreshInv'
  BY <1>5 DEF MgrSelect, MgrReturns, Report, mainVars, sessVars
<1>6. ASSUME NEW r \in Regs, HealthTick(r) \/ HealthLooks(r) \/ HbLingererEnds(r)
      PROVE  FreshInv'
  BY <1>6 DEF HealthTick, HealthLooks, HbLingererEnds, mainVars, sessVars, streamVars
<1>7. ASSUME NEW r \in Regs, NEW from, NEW to, CmdStep(r, from, to) PROVE FreshInv'
  BY <1>7 DEF CmdStep, mainVars, sessVars
<1>8. HbNotRegistered \/ TriggerStep => FreshInv'
  BY DEF HbNotRegistered, TriggerStep, TriggerIgnored, TriggerBegins, TriggerEnds, mainVars,
         sessVars, streamVars
<1>9. Signal => FreshInv'
  BY DEF Signal, sessVars
<1>10. LinkBreaks \/ ServerForgets \/ UNCHANGED vars => FreshInv'
  BY DEF LinkBreaks, ServerForgets, vars, mainVars, sessVars, streamVars
<1> HIDE DEF FreshInv
<1>11. QED
  BY <1>1, <1>2, <1>3, <1>4, <1>5, <1>6, <1>7, <1>8, <1>9, <1>10, CmdSteps
  DEF Next, MainStep, StreamStep

\* A step of a command loop that has not ended keeps what is said of streams.
LEMMA CmdStreamStep ==
    ASSUME StreamInv, PcTypeOK, NEW r \in Regs, NEW from, NEW to \in CmdPC,
           from \notin {"none", "done"}, to # "none", CmdStep(r, from, to)
    PROVE  StreamInv'
BY DEF StreamInv, StreamAlive, Streaming, PcTypeOK, CmdStep, mainVars, sessVars

LEMMA StreamStepInv == Inv /\ [Next]_vars => StreamInv'
<1> SUFFICES ASSUME StreamInv, FreshInv, TokenInv, NumTypeOK, PcTypeOK, ChanTypeOK,
                    NeverConnectedAtTop, [Next]_vars
             PROVE  StreamInv'
  BY DEF Inv, TypeOK
<1> USE BoundsAssumption DEF StreamInv, StreamAlive, Streaming, NumTypeOK, PcTypeOK, ChanTypeOK
<1>1. MainTop \/ ConnectFails \/ ConnectRejected \/ BackoffEnds => StreamInv'
  BY DEF MainTop, ConnectFails, ConnectRejected, BackoffEnds, NeverConnectedAtTop, sessVars,
         streamVars
<1>2. ConnectRegisters \/ ConnectStopsHeartbeat => StreamInv'
  BY DEF ConnectRegisters, ConnectStopsHeartbeat, sessVars, streamVars
<1>3. ConnectReturns => StreamInv'
  BY DEF ConnectReturns, FreshInv
<1>4. MainSelect => StreamInv'
  BY DEF MainSelect, TokenInv, Regs, CancelStream, sessVars
<1>5. MainAwaitedCtx \/ MainAwaitedErr \/ ShutdownBegins \/ ShutdownEnds => StreamInv'
  BY DEF MainAwaitedCtx, MainAwaitedErr, ShutdownBegins, ShutdownEnds, sessVars, streamVars
<1>6. ASSUME NEW r \in Regs, MgrSelect(r) PROVE StreamInv'
  BY <1>6 DEF MgrSelect, mainVars, sessVars
<1>7. ASSUME NEW r \in Regs, MgrReturns(r) PROVE StreamInv'
  BY <1>7 DEF MgrReturns, sessVars
<1>8. ASSUME NEW r \in Regs, Report(r) \/ HealthTick(r) \/ HealthLooks(r) PROVE StreamInv'
  BY <1>8 DEF Report, HealthTick, HealthLooks, mainVars, sessVars
<1>9. ASSUME NEW r \in Regs, HbLingererEnds(r) PROVE StreamInv'
  BY <1>9 DEF HbLingererEnds, mainVars, sessVars, streamVars
<1>10. HbNotRegistered \/ TriggerStep => StreamInv'
  BY DEF HbNotRegistered, TriggerStep, TriggerIgnored, TriggerBegins, TriggerEnds, mainVars,
         sessVars, streamVars
<1>11. Signal => StreamInv'
  BY DEF Signal, sessVars
<1>12. LinkBreaks \/ ServerForgets \/ UNCHANGED vars => StreamInv'
  BY DEF LinkBreaks, ServerForgets, vars, mainVars, sessVars, streamVars
<1> HIDE DEF StreamInv
<1>13. ASSUME NEW r \in Regs,
             \/ Snapshot(r) \/ CreateStream(r) \/ SendInitial(r) \/ LoopTop(r)
             \/ RecvFails(r) \/ HandlerReturns(r) \/ SendResponse(r) \/ RecvCommand(r)
       PROVE StreamInv'
  <2>1. \E from \in CmdPC \ {"none", "done"}, to \in CmdPC \ {"none"} : CmdStep(r, from, to)
    BY <1>13 DEF Snapshot, CreateStream, SendInitial, LoopTop, RecvFails, HandlerReturns,
                 SendResponse, RecvCommand, CmdPC
  <2>2. QED
    BY <2>1, CmdStreamStep
<1>14. QED
  BY <1>1, <1>2, <1>3, <1>4, <1>5, <1>6, <1>7, <1>8, <1>9, <1>10, <1>11, <1>12, <1>13
  DEF Next, MainStep, StreamStep

LEMMA TokStep == Inv /\ [Next]_vars => TokInv'
<1> SUFFICES ASSUME TokInv, StreamInv, TokenInv, PcTypeOK, ChanTypeOK, [Next]_vars
             PROVE  TokInv'
  BY DEF Inv, TypeOK
<1> USE DEF TokInv, PcTypeOK, ChanTypeOK
<1>1. CASE \/ MainTop \/ ConnectFails \/ ConnectRejected \/ ConnectRegisters
           \/ ConnectStopsHeartbeat \/ BackoffEnds \/ MainSelect \/ MainAwaitedCtx
           \/ MainAwaitedErr \/ ShutdownBegins \/ ShutdownEnds
  BY <1>1 DEF MainTop, ConnectFails, ConnectRejected, ConnectRegisters, ConnectStopsHeartbeat,
         BackoffEnds, MainSelect, MainAwaitedCtx, MainAwaitedErr, ShutdownBegins, ShutdownEnds,
         streamVars
<1>2. ConnectReturns => TokInv'
  BY DEF ConnectReturns
<1>3. ASSUME NEW r \in Regs, MgrSelect(r) \/ MgrReturns(r) PROVE TokInv'
  BY <1>3 DEF MgrSelect, MgrReturns
<1>4. ASSUME NEW r \in Regs, Snapshot(r) PROVE TokInv'
  <2>1. cmd[r] = "snapshot" /\ r = reg
    BY <1>4 DEF Snapshot, CmdStep, StreamInv, StreamAlive
  <2>2. isConnected => token = r
    BY <2>1 DEF TokenInv
  <2>3. QED
    BY <1>4, <2>1, <2>2 DEF Snapshot, CmdStep
<1>5. ASSUME NEW r \in Regs,
             \/ CreateStream(r) \/ SendInitial(r) \/ LoopTop(r) \/ RecvCommand(r)
             \/ RecvFails(r) \/ HandlerReturns(r) \/ SendResponse(r)
      PROVE  TokInv'
  BY <1>5 DEF CreateStream, SendInitial, LoopTop, RecvCommand, RecvFails, HandlerReturns,
              SendResponse, CmdStep
<1>6. ASSUME NEW r \in Regs, Report(r) \/ HealthTick(r) \/ HealthLooks(r) PROVE TokInv'
  BY <1>6 DEF Report, HealthTick, HealthLooks
<1>7. CASE Signal \/ LinkBreaks \/ ServerForgets \/ HbNotRegistered \/ TriggerStep \/ UNCHANGED vars
  BY <1>7 DEF Signal, LinkBreaks, ServerForgets, HbNotRegistered, TriggerStep,
              TriggerIgnored, TriggerBegins, TriggerEnds, streamVars, vars
<1>8. ASSUME NEW r \in Regs, HbLingererEnds(r) PROVE TokInv'
  BY <1>8 DEF HbLingererEnds, streamVars
<1> HIDE DEF TokInv
<1>9. QED
  BY <1>1, <1>2, <1>3, <1>4, <1>5, <1>6, <1>7, <1>8 DEF Next, MainStep, StreamStep

\* The invariant holds throughout.
THEOREM Invariance == Spec => []Inv
<1>1. Inv /\ [Next]_vars => Inv'
  BY TypeStep, RetryStep, TokenStep, StreamStepInv, FreshStep, TokStep, NeverConnectedStep DEF Inv
<1>2. QED
  BY InitInv, <1>1, PTL DEF Spec
-----------------------------------------------------------------------------
(* What the invariant says. *)

\* The variables of the session, the stream goroutines and the heartbeat stay
\* in their ranges; the retry counter of mainLoop stays within its bound.
THEOREM TypeCorrect == Spec => []TypeOK
BY Invariance, PTL DEF Inv

\* At any time the goroutines of at most one stream are alive, however often
\* the session reconnects (start.go:247, 257, 414, 418).
THEOREM StreamsSerial == Spec => []OneStreamAtATime
<1>1. Inv => OneStreamAtATime
  BY DEF Inv, StreamInv, OneStreamAtATime
<1>2. QED
  BY <1>1, Invariance, PTL

\* A stream that accepts or answers commands does so under the token of the
\* latest registration, although it copied it once (start.go:533-543).
THEOREM LatestToken == Spec => []CommandsUnderLatestToken
<1>1. Inv => CommandsUnderLatestToken
  BY DEF Inv, StreamInv, StreamAlive, TokInv, CommandsUnderLatestToken
<1>2. QED
  BY <1>1, Invariance, PTL

\* mainLoop comes to Connect only with a session marked down, so that Connect
\* never returns early and no stream is opened on an old token (start.go:455).
THEOREM ConnectsFromScratch == Spec => []NeverConnectedAtTop
BY Invariance, PTL DEF Inv
-----------------------------------------------------------------------------
(* The way out: what the signal found in force is sent an Unregister, was   *)
(* torn down by a callback, or is marked down by mainLoop, which a signal   *)
(* that found it in its select keeps it from; no other step clears it.      *)

GraceInv ==
    liveAtSignal # 0 =>
      /\ signalled
      /\ parkedAtSignal => main \in {"awaitCtx", "cleanup", "unregistering", "exited"}
      /\ \/ liveAtSignal \in unregistered \cup torn
         \/ ~parkedAtSignal /\ liveAtSignal \in dropped
         \/ main # "exited" /\ isConnected /\ token = liveAtSignal

LEMMA GraceStep == Inv /\ GraceInv /\ [Next]_vars => GraceInv'
<1> SUFFICES ASSUME TokenInv, NumTypeOK, NeverConnectedAtTop, GraceInv, [Next]_vars
             PROVE  GraceInv'
  BY DEF Inv, TypeOK
<1> USE BoundsAssumption DEF GraceInv, NumTypeOK
<1>0. token = liveAtSignal /\ liveAtSignal # 0 => liveAtSignal \in FoundLive
  BY DEF FoundLive
<1>1. MainTop \/ ConnectFails \/ ConnectRejected \/ BackoffEnds \/ MainSelect => GraceInv'
  BY DEF MainTop, ConnectFails, ConnectRejected, BackoffEnds, MainSelect, sessVars, envVars, markVars
<1>2. ConnectRegisters \/ ConnectStopsHeartbeat \/ ConnectReturns => GraceInv'
  BY DEF ConnectRegisters, ConnectStopsHeartbeat, ConnectReturns, NeverConnectedAtTop,
         sessVars, envVars, markVars
<1>3. MainAwaitedCtx \/ MainAwaitedErr \/ ShutdownBegins => GraceInv'
  BY <1>0 DEF MainAwaitedCtx, MainAwaitedErr, ShutdownBegins, sessVars, envVars, markVars
<1>4. ShutdownEnds => GraceInv'
  BY DEF ShutdownEnds
<1>5. ASSUME NEW r \in Regs, MgrSelect(r) \/ MgrReturns(r) \/ Report(r) PROVE GraceInv'
  BY <1>5 DEF MgrSelect, MgrReturns, Report, mainVars, sessVars, envVars, markVars
<1>6. ASSUME NEW r \in Regs, HealthTick(r) \/ HealthLooks(r) \/ HbLingererEnds(r)
      PROVE  GraceInv'
  BY <1>6 DEF HealthTick, HealthLooks, HbLingererEnds, mainVars, sessVars, envVars, markVars
<1>7. ASSUME NEW r \in Regs, NEW from, NEW to, CmdStep(r, from, to) PROVE GraceInv'
  BY <1>7 DEF CmdStep, mainVars, sessVars, envVars, markVars
<1>8. HbNotRegistered \/ TriggerStep => GraceInv'
  BY <1>0 DEF HbNotRegistered, TriggerStep, TriggerIgnored, TriggerBegins, TriggerEnds, mainVars,
         sessVars, envVars, markVars
<1>9. CASE Signal
  <2>1. parkedAtSignal' => main' = "awaitCtx"
    BY <1>9 DEF Signal
  <2>2. signalled' /\ (liveAtSignal' # 0 => main' # "exited" /\ isConnected' /\ token' = liveAtSignal')
    BY <1>9 DEF Signal, sessVars
  <2>3. QED
    BY <2>1, <2>2
<1>10. LinkBreaks \/ ServerForgets \/ UNCHANGED vars => GraceInv'
  BY DEF LinkBreaks, ServerForgets, vars, mainVars, sessVars, envVars, markVars
<1> HIDE DEF GraceInv
<1>11. QED
  BY <1>1, <1>2, <1>3, <1>4, <1>5, <1>6, <1>7, <1>8, <1>9, <1>10, CmdSteps
  DEF Next, MainStep, StreamStep

\* A registration in force when the signal comes is unregistered before the
\* process ends, unless a callback tore it down or mainLoop, not waiting in its
\* select, took the stream's error before the context (start.go:244-265, 794-827).
THEOREM ShutdownUnregisters == Spec => []GracefulShutdown
<1>1. Init => GraceInv
  BY DEF Init, GraceInv
<1>2. Inv /\ Inv' /\ GraceInv /\ [Next]_vars => GraceInv'
  BY GraceStep
<1>3. GraceInv => GracefulShutdown
  BY DEF GraceInv, GracefulShutdown
<1>4. QED
  BY <1>1, <1>2, <1>3, Invariance, PTL DEF Spec
-----------------------------------------------------------------------------
(* The ping loops.  A Start comes only after a Stop, and that either found   *)
(* every loop ended or was counted among the ones that timed out.            *)

LoopInv ==
    /\ LoopsAccounted
    /\ main = "hbStarting" => Cardinality(AliveLoops) <= timeouts

LEMMA AliveFinite == IsFiniteSet(AliveLoops) /\ Cardinality(AliveLoops) \in Nat
<1>1. IsFiniteSet(Regs)
  BY BoundsAssumption, FS_Interval DEF Regs
<1>2. QED
  BY <1>1, FS_Subset, FS_CardinalityType DEF AliveLoops

\* A loop that ends, or only changes its context, adds none to the living.
LEMMA NoLoopStarts ==
    ASSUME LoopInv, HbTypeOK, AliveLoops' \subseteq AliveLoops,
           timeouts' \in Nat, timeouts' >= timeouts,
           hbRunning' => \E r \in Regs : loop'[r] = "running",
           main' = "hbStarting" => main = "hbStarting"
    PROVE  LoopInv'
<1>1. /\ Cardinality(AliveLoops') <= Cardinality(AliveLoops)
      /\ Cardinality(AliveLoops') \in Nat
  BY AliveFinite, FS_Subset, FS_CardinalityType
<1>2. Cardinality(AliveLoops)' = Cardinality(AliveLoops')
  OBVIOUS
<1>3. QED
  BY <1>1, <1>2, AliveFinite DEF LoopInv, LoopsAccounted, HbTypeOK

\* Steps that leave the loops, the flag and the count alone.
LEMMA LoopsKept ==
    ASSUME LoopInv, HbTypeOK, UNCHANGED <<hbRunning, loop, timeouts>>,
           main' = "hbStarting" => main = "hbStarting"
    PROVE  LoopInv'
BY DEF LoopInv, LoopsAccounted, AliveLoops

LEMMA StopCancelLoops ==
    ASSUME LoopInv, HbTypeOK, StopCancel, main' # "hbStarting"
    PROVE  LoopInv'
<1>1. AliveLoops' \subseteq AliveLoops
  BY DEF StopCancel, AliveLoops
<1>2. QED
  BY <1>1, NoLoopStarts DEF StopCancel, HbTypeOK

LEMMA LoopStep == Inv /\ LoopInv /\ [Next]_vars => LoopInv'
<1> SUFFICES ASSUME TokenInv, NumTypeOK, HbTypeOK, LoopInv, [Next]_vars PROVE LoopInv'
  BY DEF Inv, TypeOK
<1>1. CASE \/ MainTop \/ ConnectFails \/ ConnectRejected \/ BackoffEnds \/ MainSelect
           \/ MainAwaitedCtx \/ MainAwaitedErr \/ Signal \/ LinkBreaks \/ ServerForgets
           \/ UNCHANGED vars
  BY <1>1, LoopsKept DEF MainTop, ConnectFails, ConnectRejected, BackoffEnds, MainSelect,
         MainAwaitedCtx, MainAwaitedErr, Signal, LinkBreaks, ServerForgets, vars, mainVars, hbVars
<1>2. ASSUME NEW r \in Regs, MgrSelect(r) \/ MgrReturns(r) \/ Report(r) PROVE LoopInv'
  BY <1>2, LoopsKept DEF MgrSelect, MgrReturns, Report, mainVars, hbVars
<1>3. ASSUME NEW r \in Regs, HealthTick(r) \/ HealthLooks(r) PROVE LoopInv'
  BY <1>3, LoopsKept DEF HealthTick, HealthLooks, mainVars, hbVars
<1>4. ASSUME NEW r \in Regs, NEW from, NEW to, CmdStep(r, from, to) PROVE LoopInv'
  BY <1>4, LoopsKept DEF CmdStep, mainVars, hbVars
<1>5. HbNotRegistered \/ TriggerIgnored => LoopInv'
  BY LoopsKept DEF HbNotRegistered, PingNotRegistered, TriggerIgnored, mainVars
<1>6. ConnectRegisters => LoopInv'
  BY StopCancelLoops DEF ConnectRegisters
<1>7. CASE TriggerBegins
  <2>1. CASE main = "hbStarting"
    <3>1. /\ AliveLoops' \subseteq AliveLoops
          /\ UNCHANGED <<main, timeouts>> /\ hbRunning' = FALSE
      BY <1>7 DEF TriggerBegins, StopCancel, AliveLoops, mainVars
    <3>2. QED
      BY <3>1, NoLoopStarts DEF HbTypeOK
  <2>2. CASE main # "hbStarting"
    BY <1>7, <2>2, StopCancelLoops DEF TriggerBegins, mainVars
  <2>3. QED
    BY <2>1, <2>2
<1>8. ShutdownBegins => LoopInv'
  BY StopCancelLoops, LoopsKept DEF ShutdownBegins, hbVars
<1>9. CASE TriggerEnds \/ ShutdownEnds
  <2>1. UNCHANGED <<hbRunning, loop>> /\ timeouts' \in {timeouts, timeouts + 1}
    BY <1>9 DEF TriggerEnds, ShutdownEnds, StopFinish
  <2>2. AliveLoops' = AliveLoops
    BY <2>1 DEF AliveLoops
  <2>3. main' = "hbStarting" => main = "hbStarting"
    BY <1>9 DEF TriggerEnds, ShutdownEnds, mainVars
  <2>4. hbRunning' => \E r \in Regs : loop'[r] = "running"
    BY <2>1 DEF LoopInv, LoopsAccounted
  <2>5. QED
    BY <2>1, <2>2, <2>3, <2>4, NoLoopStarts DEF HbTypeOK
<1>10. CASE ConnectStopsHeartbeat
  <2>1. /\ UNCHANGED <<hbRunning, loop>>
        /\ timeouts' = IF AliveLoops = {} THEN timeouts ELSE timeouts + 1
    BY <1>10 DEF ConnectStopsHeartbeat, StopFinish
  <2>2. AliveLoops' = AliveLoops
    BY <2>1 DEF AliveLoops
  <2>3. Cardinality(AliveLoops) <= timeouts'
    BY <2>1, AliveFinite, FS_EmptySet DEF LoopInv, LoopsAccounted, HbTypeOK
  <2>4. hbRunning' => \E r \in Regs : loop'[r] = "running"
    BY <2>1 DEF LoopInv, LoopsAccounted
  <2>5. Cardinality(AliveLoops)' = Cardinality(AliveLoops)
    BY <2>2
  <2>6. timeouts' \in Nat
    BY <2>1 DEF HbTypeOK
  <2>7. QED
    BY <2>3, <2>4, <2>5, <2>6, AliveFinite DEF LoopInv, LoopsAccounted
<1>11. CASE ConnectReturns
  <2>1. CASE InitializeFails \/ StartFails \/ (InitializeAndStart(reg) /\ hbRunning)
    <3>1. UNCHANGED <<hbRunning, loop, timeouts>>
      BY <2>1 DEF InitializeFails, StartFails, InitializeAndStart
    <3>2. QED
      BY <1>11, <3>1, LoopsKept DEF ConnectReturns
  <2>2. CASE InitializeAndStart(reg) /\ ~hbRunning
    <3>1. reg \in Regs
      BY <1>11 DEF ConnectReturns, TokenInv, NumTypeOK, Regs
    <3>2. loop' = [loop EXCEPT ![reg] = "running"] /\ timeouts' = timeouts
      BY <2>2 DEF InitializeAndStart
    <3>3. loop'[reg] = "running"
      BY <3>1, <3>2 DEF HbTypeOK
    <3>4. AliveLoops' \subseteq AliveLoops \cup {reg}
      BY <3>2 DEF AliveLoops, HbTypeOK
    <3>5. /\ IsFiniteSet(AliveLoops \cup {reg})
          /\ Cardinality(AliveLoops \cup {reg}) <= Cardinality(AliveLoops) + 1
          /\ Cardinality(AliveLoops \cup {reg}) \in Nat
      <4>1. /\ IsFiniteSet(AliveLoops \cup {reg})
            /\ Cardinality(AliveLoops \cup {reg}) \in {Cardinality(AliveLoops), Cardinality(AliveLoops) + 1}
        BY AliveFinite, FS_AddElement
      <4>2. QED
        BY <4>1, AliveFinite
    <3>6. /\ Cardinality(AliveLoops') <= Cardinality(AliveLoops \cup {reg})
          /\ Cardinality(AliveLoops') \in Nat
      BY <3>4, <3>5, FS_Subset, FS_CardinalityType
    <3>7. Cardinality(AliveLoops) <= timeouts /\ main' # "hbStarting"
      BY <1>11 DEF ConnectReturns, LoopInv
    <3>8. Cardinality(AliveLoops') <= 1 + timeouts'
      BY <3>2, <3>5, <3>6, <3>7, AliveFinite DEF HbTypeOK
    <3>9. Cardinality(AliveLoops)' = Cardinality(AliveLoops')
      OBVIOUS
    <3>10. QED
      BY <3>1, <3>3, <3>7, <3>8, <3>9 DEF LoopInv, LoopsAccounted
  <2>3. QED
    BY <1>11, <2>1, <2>2 DEF ConnectReturns
<1>12. ASSUME NEW r \in Regs, HbLingererEnds(r) PROVE LoopInv'
  <2>1. /\ loop[r] = "lingering" /\ UNCHANGED <<hbRunning, timeouts, main>>
        /\ loop' = [loop EXCEPT ![r] = IF hbCtxLive THEN "running" ELSE "off"]
    BY <1>12 DEF HbLingererEnds, LingeringPingEnds, mainVars
  <2>2. AliveLoops' \subseteq AliveLoops
    BY <2>1 DEF AliveLoops, HbTypeOK
  <2>3. ASSUME NEW q \in Regs, loop[q] = "running" PROVE loop'[q] = "running"
    BY <2>1, <2>3 DEF HbTypeOK
  <2>4. QED
    BY <2>1, <2>2, <2>3, NoLoopStarts DEF LoopInv, LoopsAccounted, HbTypeOK
<1>13. QED
  BY <1>1, <1>2, <1>3, <1>4, <1>5, <1>6, <1>7, <1>8, <1>9, <1>10, <1>11, <1>12, CmdSteps
  DEF Next, MainStep, StreamStep, TriggerStep

\* Each ping loop beyond the first is a Stop that gave up waiting, and the
\* service marked running has a loop that pings (heartbeat.go:150-197, 209-238).
THEOREM LoopsDoNotMultiply == Spec => []LoopsAccounted
<1>1. Init => LoopInv
  <2>1. ASSUME Init PROVE AliveLoops = {} /\ timeouts = 0 /\ hbRunning = FALSE
    BY <2>1 DEF Init, HbInit, AliveLoops
  <2>2. QED
    BY <2>1, FS_EmptySet DEF LoopInv, LoopsAccounted
<1>2. Inv /\ Inv' /\ LoopInv /\ [Next]_vars => LoopInv'
  BY LoopStep
<1>3. LoopInv => LoopsAccounted
  BY DEF LoopInv
<1>4. QED
  BY <1>1, <1>2, <1>3, Invariance, PTL DEF Spec
===============================================================================
