------------------------- MODULE CaptureHoldProofs -------------------------
(***************************************************************************)
(* A capture implements the holding of storage (module StorageHold).  A    *)
(* step of the client or of its machine leaves the service alone, and the  *)
(* inductive invariant says before and after it that a worker belongs to   *)
(* the attempt that holds the storage: the step begins work, ends it or    *)
(* stutters.  A step of the service leaves the worker alone.               *)
(***************************************************************************)
EXTENDS CaptureTaskProofs

\* What the invariant says of the mapped state.
Mapped ==
    /\ Worker \in {0, holder}
    /\ Busy => Worker # 0
    /\ holder \in Nat /\ attempt \in Nat /\ nonce \in Nat
    /\ status = "queued" => holder = 0

LEMMA MappedState == (IInv => Mapped) /\ (IInv' => Mapped')
<1>1. IInv => Mapped
  BY DEF Mapped, IInv, BusyInv, Held, ServerInv, TypeOK, ServerTypeOK, ValueTypeOK, Nonce,
         Attempt, Worker
<1>2. IInv' => Mapped'
  BY <1>1, PTL
<1> QED BY <1>1, <1>2

LEMMA ClientLeavesService ==
    ASSUME Controller \/ Environment
    PROVE  UNCHANGED srvVars
<1>1. ASSUME CheckinStep PROVE UNCHANGED srvVars
  BY <1>1, Zenon DEF CheckinStep, Checkin, CheckinUncertain, CheckinAccepted, CheckinWithdrawn, Mount
<1>2. ASSUME PermitStep PROVE UNCHANGED srvVars
  BY <1>2, Zenon DEF PermitStep, AskPermit, PermitUncertain, PermitGranted, PermitDenied, Prepare
<1>3. ASSUME ArtifactStep PROVE UNCHANGED srvVars
  BY <1>3, Zenon DEF ArtifactStep, XfsStep, NextPart, XfsMount, XfsUmount, XfsUnset, XfsRmdir,
                     XfsRmdirErr, XfsCheckErr, SpawnWriter, TrackWriter, SpawnProducer,
                     TrackProducer, WaitProducer, WaitWriter
<1>4. ASSUME PublishStep PROVE UNCHANGED srvVars
  BY <1>4, Zenon DEF PublishStep, Complete, Finalize, BeginPublish, PublishGranted,
                     PublishRefused, RemoveTarget, MoveStaging, Finish, FinishAccepted,
                     FinishRejected, FinishUncertain
<1>5. ASSUME QuiesceStep PROVE UNCHANGED srvVars
  BY <1>5, Zenon DEF QuiesceStep, QuiesceKill, QuiesceWait, QuiesceDone, QuiesceFailed
<1>6. ASSUME FailureStep PROVE UNCHANGED srvVars
  BY <1>6, Zenon DEF FailureStep, ReapReporter, ReportError, ReportUncertain, ReportAccepted,
                     ReportRejected, RetryTask, PollTerminal
<1>7. ASSUME Deadline \/ ExitStep PROVE UNCHANGED srvVars
  BY <1>7, Zenon DEF Deadline, ExitStep, TermTrap, ExitTrap, Cleanup, StopAck, StopAckAccepted,
                     StopAckFailed, Cleaned
<1>8. ASSUME Environment PROVE UNCHANGED srvVars
  BY <1>8, Zenon DEF Environment, ReporterCancel, ProducerOpen, ProducerExit, WriterFail,
                     WriterEnd, ProducerKilled, WriterKilled, PowerCycle, PoweredOff, vars
<1> QED
  BY <1>1, <1>2, <1>3, <1>4, <1>5, <1>6, <1>7, <1>8, Zenon DEF Controller

\* A step of the client begins work, ends it, or changes nothing that is mapped.
LEMMA ClientHold ==
    ASSUME IInv, IInv', Controller \/ Environment
    PROVE  [Hold!HoldNext]_(Hold!holdVars)
<1>1. UNCHANGED <<status, attempt, holder, Opened>>
  BY ClientLeavesService DEF srvVars, Opened
<1>2. Worker \in {0, holder} /\ Worker' \in {0, holder} /\ holder \in Nat
  BY <1>1, MappedState DEF Mapped
<1>3. CASE Worker' = Worker
  BY <1>1, <1>3 DEF Hold!holdVars
<1>4. CASE Worker = 0 /\ Worker' = holder /\ holder # 0
  BY <1>1, <1>4 DEF Hold!HoldNext, Hold!Begin
<1>5. CASE Worker = holder /\ Worker' = 0 /\ holder # 0
  BY <1>1, <1>5 DEF Hold!HoldNext, Hold!End
<1> QED
  BY <1>2, <1>3, <1>4, <1>5

\* A step of the service grants, withdraws or takes back.
LEMMA ServiceHold ==
    ASSUME IInv, IInv', Service
    PROVE  [Hold!HoldNext]_(Hold!holdVars)
<1>1. UNCHANGED <<Worker, Busy>>
  BY DEF Service, ctlVars, envVars, workVars, procVars, xfsVars, Worker, Busy
<1>2. /\ holder # 0 \/ Worker = 0
      /\ holder' # 0 \/ Worker = 0
  BY <1>1, MappedState DEF Mapped
<1>3. attempt \in Nat /\ holder \in Nat
  BY MappedState DEF Mapped
<1>4. ASSUME Cancel PROVE [Hold!HoldNext]_(Hold!holdVars)
  <2>1. UNCHANGED <<holder, attempt>> /\ status' = "cancelled"
    BY <1>4 DEF Cancel
  <2>2. CASE status = "queued"
    <3>1. holder = 0
      BY <2>2, MappedState DEF Mapped
    <3> QED
      BY <1>1, <1>3, <2>1, <2>2, <3>1 DEF Hold!HoldNext, Hold!Withdraw, Opened
  <2>3. CASE status # "queued"
    BY <1>1, <2>1, <2>3 DEF Hold!holdVars, Opened
  <2> QED BY <2>2, <2>3
<1>5. ASSUME Retry PROVE [Hold!HoldNext]_(Hold!holdVars)
  <2>1. UNCHANGED holder /\ Opened' = Opened
    BY <1>3, <1>5 DEF Retry, Opened
  <2> QED BY <1>1, <2>1 DEF Hold!holdVars
<1>6. ASSUME NEW m \in net, Serve(m) PROVE [Hold!HoldNext]_(Hold!holdVars)
  <2>1. \/ UNCHANGED <<holder, Opened>>
        \/ status = "queued" /\ status' = "running" /\ holder' = attempt /\ UNCHANGED attempt
        \/ holder' = 0 /\ UNCHANGED Opened
    BY <1>6 DEF Serve, ServeCheckin, ServePermit, ServeFence, ServeFinish, ServeError, Opened,
                srvVars
  <2>2. CASE UNCHANGED <<holder, Opened>>
    BY <1>1, <2>2 DEF Hold!holdVars
  <2>3. CASE status = "queued" /\ status' = "running" /\ holder' = attempt /\ UNCHANGED attempt
    <3>1. holder = 0
      BY <2>3, MappedState DEF Mapped
    <3> QED
      BY <1>1, <1>2, <1>3, <2>3, <3>1 DEF Hold!HoldNext, Hold!Grant, Opened
  <2>4. CASE holder' = 0 /\ holder # 0 /\ UNCHANGED Opened
    BY <1>1, <1>2, <2>4 DEF Hold!HoldNext, Hold!GiveBack
  <2> QED BY <2>1, <2>2, <2>3, <2>4
<1> QED
  BY <1>4, <1>5, <1>6 DEF Service

LEMMA HoldStart == Init => Hold!HoldInit
BY DEF Init, ServerInit, Hold!HoldInit, Opened, Worker, Busy, Tracked

\* For every number of attempts, invocations and partitions a capture implements
\* the abstract holding of storage: no worker is at storage that its attempt does
\* not hold, and storage is given back only by an attempt whose worker stopped.
THEOREM CaptureImplementsHold == Spec => ImplementsHold
<1>1. ASSUME IInv, IInv', [Next]_vars PROVE [Hold!HoldNext]_(Hold!holdVars)
  <2>1. CASE UNCHANGED vars
    BY <2>1 DEF vars, srvVars, ctlVars, envVars, workVars, procVars, xfsVars, Hold!holdVars,
                Opened, Worker, Busy
  <2>2. CASE Controller \/ Environment
    BY <1>1, <2>2, ClientHold
  <2>3. CASE Service
    BY <1>1, <2>3, ServiceHold
  <2> QED BY <1>1, <2>1, <2>2, <2>3 DEF Next
<1> QED
  BY <1>1, HoldStart, Inductive, PTL DEF Spec, ImplementsHold, Hold!HoldSpec
=============================================================================
