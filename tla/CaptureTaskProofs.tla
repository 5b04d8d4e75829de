------------------------ MODULE CaptureTaskProofs --------------------------
(***************************************************************************)
(* Theorems about CaptureTask, for every set of partitions and every       *)
(* bound on attempts, invocations and resends.                             *)
(***************************************************************************)
EXTENDS CaptureTask, TLAPS

-----------------------------------------------------------------------------
\* The inductive invariant.

\* A request that makes the service give the occupancy back.
Releasing(m) == m.op = "finish" \/ (m.op = "error" /\ m.stop)

\* Nobody has acted under the identity of the current attempt yet.
Fresh == nonce # attempt /\ \A m \in net : m.nonce # attempt

\* The client's attempt holds the occupancy and nothing under way releases it.
Held == nonce # 0 /\ holder = nonce /\ \A m \in net : m.nonce = nonce => ~Releasing(m)

\* Nothing under way ends the client's attempt.
Quiet == \A m \in net : m.nonce = nonce => m.op \notin {"error", "finish"}

ServerInv ==
    /\ holder \in {0, attempt}
    /\ status \in {"running", "publishing"} => holder = attempt
    /\ status = "queued" => holder = 0 /\ Fresh

WaitPCs == {"checkin_wait", "permit_wait", "fence_wait", "finish_wait", "err_wait", "ack_wait"}

\* Identities only grow, and the client waits for what it has sent itself.
NetInv ==
    /\ nonce <= attempt
    /\ cid <= inv
    /\ \A m \in net : m.nonce <= attempt /\ m.id <= inv
    /\ rpc # NoRequest => pc \in WaitPCs /\ rpc.id = inv /\ rpc.nonce = nonce
    /\ rpc # NoRequest /\ pc = "checkin_wait" => rpc.op = "checkin"
    /\ rpc # NoRequest /\ pc = "fence_wait" => rpc.op = "fence"
    /\ rpc # NoRequest /\ pc = "finish_wait" => rpc.op = "finish"

CheckinInv ==
    /\ pc \in {"checkin", "checkin_wait"} => nonce = 0
    /\ pc \in {"checkin", "checkin_wait"} /\ cid = inv => Fresh
    /\ pc = "checkin_wait" /\ Answered("ok") =>
            reply.att = attempt /\ holder = attempt /\ Fresh

XfsPCs == {"xfs_mount", "xfs_umount", "xfs_unset", "xfs_rmdir", "xfs_rmdir_err", "xfs_check_err"}
StreamPCs == {"spawn_producer", "track_producer", "wait_producer", "wait_writer"}
FencePCs == {"finalize", "fence", "fence_wait", "remove", "move"}

\* From the accepted checkin to the last step before finish, error reports
\* and traps excepted.
HeldPCs ==
    {"mount", "permit", "permit_wait", "prepare", "part", "spawn_writer", "track_writer"}
        \cup XfsPCs \cup StreamPCs \cup FencePCs

\* Where neither a tracked process nor a mount exists.
IdlePCs ==
    {"mount", "permit", "permit_wait", "prepare", "part", "xfs_mount", "xfs_unset",
     "xfs_rmdir", "spawn_writer", "track_writer", "finish", "finish_wait", "ack"}
        \cup FencePCs

HeldInv == pc \in HeldPCs => Held /\ Quiet /\ ~stopped

BusyInv ==
    /\ Busy => Held
    /\ stopped => ~Busy
    /\ pc \in IdlePCs => ~Busy

ProcInv ==
    /\ prod \in Tracked => prodPid
    /\ writ \in Tracked => writPid
    /\ pc \in XfsPCs \cup {"spawn_producer", "track_producer", "wait_writer", "q_xfs"} => prod \notin Tracked
    /\ pc \in XfsPCs \cup {"q_xfs"} => writ \notin Tracked
    /\ pc = "wait_writer" => prod \notin Live
    /\ xfsMnt \/ pc = "xfs_mount" => xfsVar /\ xfsDir
    /\ pc \in StreamPCs => ~xfsMnt
    /\ pc = "ack" => stopped

PublishInv ==
    /\ pc \in {"remove", "move"} => status = "publishing"
    /\ pc = "fence_wait" /\ Answered("ok") => status = "publishing"

IInv == TypeOK /\ ServerInv /\ NetInv /\ CheckinInv /\ HeldInv /\ BusyInv /\ ProcInv /\ PublishInv

-----------------------------------------------------------------------------
\* Type correctness.  The flags an action assigns get a step of their own.

LEMMA RequestType ==
    ASSUME TypeOK, NEW op \in {"checkin", "permit", "fence", "finish", "error"}, NEW s \in BOOLEAN
    PROVE  [op |-> op, nonce |-> nonce, stop |-> s, id |-> inv] \in Request
BY DEF TypeOK, ValueTypeOK, Request

LEMMA CheckinStepType ==
    ASSUME TypeOK, CheckinStep
    PROVE  TypeOK'
<1> USE BoundAssumption, TaskAssumption
<1> USE DEF TypeOK, FlagTypeOK, ServerTypeOK, ValueTypeOK, PCs, Returns, ProcState, Live, Tracked,
            srvVars, netVars, ctlVars, envVars, loopVars, sigVars, procVars, xfsVars, nasVars, workVars
<1>1. CASE Checkin
  BY <1>1 DEF Checkin, At, Ask, Goto, Send, Request, NoReply, Reply, Nonce
<1>2. CASE CheckinUncertain
  BY <1>2 DEF CheckinUncertain, Goto, GiveUp, At, Hangup, NoReply, Reply, Nonce
<1>3. CASE CheckinAccepted
  <2>1. direct' \in BOOLEAN /\ stopped' \in BOOLEAN /\ released' \in BOOLEAN /\ xfsVar' \in BOOLEAN
    BY <1>3, Zenon DEF CheckinAccepted, At, Goto, Hangup, Answered
  <2> QED
    BY <1>3, <2>1 DEF CheckinAccepted, At, Goto, Hangup, Answered, NoReply, Reply, Nonce
<1>4. CASE CheckinWithdrawn
  <2>1. withdrawn' \in BOOLEAN
    BY <1>4, Zenon DEF CheckinWithdrawn, At, Goto, Hangup, Answered
  <2> QED
    BY <1>4, <2>1 DEF CheckinWithdrawn, At, Goto, Hangup, Answered, NoReply, Reply, Nonce
<1>5. CASE Mount
  <2>1. reporter' \in BOOLEAN
    BY <1>5, Zenon DEF Mount, At, Goto, HandleError
  <2> QED
    BY <1>5, <2>1 DEF Mount, At, Goto, HandleError
<1> QED
  BY <1>1, <1>2, <1>3, <1>4, <1>5, Zenon DEF CheckinStep

LEMMA PermitStepType ==
    ASSUME TypeOK, PermitStep
    PROVE  TypeOK'
<1> USE BoundAssumption, TaskAssumption
<1> USE DEF TypeOK, FlagTypeOK, ServerTypeOK, ValueTypeOK, PCs, Returns, ProcState, Live, Tracked,
            srvVars, netVars, ctlVars, envVars, loopVars, sigVars, procVars, xfsVars, nasVars, workVars
<1>1. CASE AskPermit
  BY <1>1 DEF AskPermit, At, Ask, Goto, Send, Request, NoReply, Reply, Nonce
<1>2. CASE PermitUncertain
  BY <1>2 DEF PermitUncertain, Goto, GiveUp, At, Hangup, NoReply, Reply, Nonce
<1>3. CASE PermitGranted
  BY <1>3 DEF PermitGranted, At, Goto, HandleError, Hangup, Answered, NoReply, Reply,
    Nonce
<1>4. CASE PermitDenied
  BY <1>4 DEF PermitDenied, At, Goto, Hangup, Answered, NoReply, Reply, Nonce
<1>5. CASE Prepare
  BY <1>5 DEF Prepare, At, Goto, HandleError
<1> QED
  BY <1>1, <1>2, <1>3, <1>4, <1>5, Zenon DEF PermitStep

LEMMA ArtifactStepType ==
    ASSUME TypeOK, ArtifactStep
    PROVE  TypeOK'
<1> USE BoundAssumption, TaskAssumption
<1> USE DEF TypeOK, FlagTypeOK, ServerTypeOK, ValueTypeOK, PCs, Returns, ProcState, Live, Tracked,
            srvVars, netVars, ctlVars, envVars, loopVars, sigVars, procVars, xfsVars, nasVars, workVars
<1>1. CASE NextPart
  <2>1. xfsVar' \in BOOLEAN /\ xfsDir' \in BOOLEAN
    BY <1>1, Zenon DEF NextPart, At, Goto, HandleError
  <2> QED
    BY <1>1, <2>1 DEF NextPart, At, Goto, HandleError
<1>2. CASE XfsMount
  <2>1. xfsMnt' \in BOOLEAN
    BY <1>2, Zenon DEF XfsMount, At, Goto
  <2> QED
    BY <1>2, <2>1 DEF XfsMount, At, Goto
<1>3. CASE XfsUmount
  <2>1. xfsVar' \in BOOLEAN /\ xfsMnt' \in BOOLEAN
    BY <1>3, Zenon DEF XfsUmount, At, Goto
  <2> QED
    BY <1>3, <2>1 DEF XfsUmount, At, Goto
<1>4. CASE XfsUnset
  <2>1. xfsVar' \in BOOLEAN
    BY <1>4, Zenon DEF XfsUnset, At, Goto
  <2> QED
    BY <1>4, <2>1 DEF XfsUnset, At, Goto
<1>5. CASE XfsRmdir
  <2>1. xfsDir' \in BOOLEAN
    BY <1>5, Zenon DEF XfsRmdir, At, Goto, HandleError
  <2> QED
    BY <1>5, <2>1 DEF XfsRmdir, At, Goto, HandleError
<1>6. CASE XfsRmdirErr
  <2>1. xfsDir' \in BOOLEAN
    BY <1>6, Zenon DEF XfsRmdirErr, At, Goto
  <2> QED
    BY <1>6, <2>1 DEF XfsRmdirErr, At, Goto
<1>7. CASE XfsCheckErr
  <2>1. xfsVar' \in BOOLEAN
    BY <1>7, Zenon DEF XfsCheckErr, At, HandleError
  <2> QED
    BY <1>7, <2>1 DEF XfsCheckErr, At, HandleError
<1>8. CASE SpawnWriter
  <2>1. fifo' \in BOOLEAN
    BY <1>8, Zenon DEF SpawnWriter, At, Goto, HandleError
  <2> QED
    BY <1>8, <2>1 DEF SpawnWriter, At, Goto, HandleError, Artifact
<1>9. CASE TrackWriter
  <2>1. writPid' \in BOOLEAN
    BY <1>9, Zenon DEF TrackWriter, At, Goto, Track
  <2> QED
    BY <1>9, <2>1 DEF TrackWriter, At, Goto, Track
<1>10. CASE SpawnProducer
  BY <1>10 DEF SpawnProducer, At, Goto
<1>11. CASE TrackProducer
  <2>1. prodPid' \in BOOLEAN
    BY <1>11, Zenon DEF TrackProducer, At, Goto, Track
  <2> QED
    BY <1>11, <2>1 DEF TrackProducer, At, Goto, Track
<1>12. CASE WaitProducer
  <2>1. prodPid' \in BOOLEAN
    BY <1>12, Zenon DEF WaitProducer, At, Goto
  <2> QED
    BY <1>12, <2>1 DEF WaitProducer, At, Goto
<1>13. CASE WaitWriter
  <2>1. writPid' \in BOOLEAN
    BY <1>13, Zenon DEF WaitWriter, At, Goto, HandleError, Finished
  <2> QED
    BY <1>13, <2>1 DEF WaitWriter, At, Goto, HandleError, Finished, Artifact
<1> QED
  BY <1>1, <1>2, <1>3, <1>4, <1>5, <1>6, <1>7, <1>8, <1>9, <1>10, <1>11, <1>12, <1>13, Zenon DEF ArtifactStep, XfsStep

LEMMA PublishStepType ==
    ASSUME TypeOK, PublishStep
    PROVE  TypeOK'
<1> USE BoundAssumption, TaskAssumption
<1> USE DEF TypeOK, FlagTypeOK, ServerTypeOK, ValueTypeOK, PCs, Returns, ProcState, Live, Tracked,
            srvVars, netVars, ctlVars, envVars, loopVars, sigVars, procVars, xfsVars, nasVars, workVars
<1>1. CASE Complete
  <2>1. reporter' \in BOOLEAN
    BY <1>1, Zenon DEF Complete, At, Goto
  <2> QED
    BY <1>1, <2>1 DEF Complete, At, Goto
<1>2. CASE Finalize
  BY <1>2 DEF Finalize, At, Goto, HandleError
<1>3. CASE BeginPublish
  BY <1>3 DEF BeginPublish, At, Ask, Goto, Send, Request, NoReply, Reply, Nonce
<1>4. CASE PublishGranted
  BY <1>4 DEF PublishGranted, At, Goto, HandleError, Hangup, Answered, NoReply, Reply,
    Nonce
<1>5. CASE PublishRefused
  BY <1>5 DEF PublishRefused, HandleError, GiveUp, At, Hangup, NoReply, Reply, Nonce
<1>6. CASE RemoveTarget
  BY <1>6 DEF RemoveTarget, At, Goto, HandleError
<1>7. CASE MoveStaging
  BY <1>7 DEF MoveStaging, At, Goto, HandleError
<1>8. CASE Finish
  <2> DEFINE r == [op |-> "finish", nonce |-> nonce, stop |-> TRUE, id |-> inv]
  <2>1. r \in Request
    BY RequestType, Zenon
  <2>2. net' = net \cup {r} /\ rpc' = r /\ reply' = NoReply
    BY <1>8, Zenon DEF Finish, Ask, Send
  <2> HIDE DEF r
  <2> QED
    BY <1>8, <2>1, <2>2 DEF Finish, At, Goto, Ask, NoReply, Reply, Nonce
<1>9. CASE FinishAccepted
  <2>1. released' \in BOOLEAN
    BY <1>9, Zenon DEF FinishAccepted, At, Goto, Hangup, Answered
  <2> QED
    BY <1>9, <2>1 DEF FinishAccepted, At, Goto, Hangup, Answered, NoReply, Reply, Nonce
<1>10. CASE FinishRejected
  BY <1>10 DEF FinishRejected, At, HandleError, Hangup, Answered, NoReply, Reply, Nonce
<1>11. CASE FinishUncertain
  BY <1>11 DEF FinishUncertain, Goto, HandleError, GiveUp, At, Hangup, NoReply, Reply,
    Nonce
<1> QED
  BY <1>1, <1>2, <1>3, <1>4, <1>5, <1>6, <1>7, <1>8, <1>9, <1>10, <1>11, Zenon DEF PublishStep

LEMMA QuiesceStepType ==
    ASSUME TypeOK, QuiesceStep
    PROVE  TypeOK'
<1> USE BoundAssumption, TaskAssumption
<1> USE DEF TypeOK, FlagTypeOK, ServerTypeOK, ValueTypeOK, PCs, Returns, ProcState, Live, Tracked,
            srvVars, netVars, ctlVars, envVars, loopVars, sigVars, procVars, xfsVars, nasVars, workVars
<1>1. CASE QuiesceKill
  <2>1. stopped' \in BOOLEAN
    BY <1>1, Zenon DEF QuiesceKill, At, Goto, Kill
  <2> QED
    BY <1>1, <2>1 DEF QuiesceKill, At, Goto, Kill
<1>2. CASE QuiesceWait
  <2>1. prodPid' \in BOOLEAN /\ writPid' \in BOOLEAN
    BY <1>2, Zenon DEF QuiesceWait, At, Goto
  <2> QED
    BY <1>2, <2>1 DEF QuiesceWait, At, Goto
<1>3. CASE QuiesceDone
  <2>1. stopped' \in BOOLEAN /\ xfsVar' \in BOOLEAN /\ xfsDir' \in BOOLEAN /\ xfsMnt' \in BOOLEAN
    BY <1>3, Zenon DEF QuiesceDone, At, AfterQuiesce
  <2> QED
    BY <1>3, <2>1 DEF QuiesceDone, At, AfterQuiesce
<1>4. CASE QuiesceFailed
  <2>1. xfsMnt' \in BOOLEAN
    BY <1>4, Zenon DEF QuiesceFailed, At, AfterQuiesce
  <2> QED
    BY <1>4, <2>1 DEF QuiesceFailed, At, AfterQuiesce
<1> QED
  BY <1>1, <1>2, <1>3, <1>4, Zenon DEF QuiesceStep

LEMMA FailureStepType ==
    ASSUME TypeOK, FailureStep
    PROVE  TypeOK'
<1> USE BoundAssumption, TaskAssumption
<1> USE DEF TypeOK, FlagTypeOK, ServerTypeOK, ValueTypeOK, PCs, Returns, ProcState, Live, Tracked,
            srvVars, netVars, ctlVars, envVars, loopVars, sigVars, procVars, xfsVars, nasVars, workVars
<1>1. CASE ReapReporter
  <2>1. reporter' \in BOOLEAN
    BY <1>1, Zenon DEF ReapReporter, At, Goto
  <2> QED
    BY <1>1, <2>1 DEF ReapReporter, At, Goto
<1>2. CASE ReportError
  BY <1>2 DEF ReportError, At, Ask, Goto, Send, Request, NoReply, Reply, Nonce
<1>3. CASE ReportUncertain
  BY <1>3 DEF ReportUncertain, Goto, GiveUp, At, Hangup, NoReply, Reply, Nonce
<1>4. CASE ReportAccepted
  <2>1. released' \in BOOLEAN /\ confirmed' \in BOOLEAN
    BY <1>4, Zenon DEF ReportAccepted, At, Goto, Hangup, Answered
  <2> QED
    BY <1>4, <2>1 DEF ReportAccepted, At, Goto, Hangup, Answered, NoReply, Reply, Nonce
<1>5. CASE ReportRejected
  BY <1>5 DEF ReportRejected, At, Goto, Hangup, Answered, NoReply, Reply, Nonce
<1>6. CASE RetryTask
  <2>1. released' \in BOOLEAN /\ confirmed' \in BOOLEAN /\ prodPid' \in BOOLEAN /\ writPid' \in
    BOOLEAN /\ xfsVar' \in BOOLEAN
    BY <1>6, Zenon DEF RetryTask, At, Goto
  <2> QED
    BY <1>6, <2>1 DEF RetryTask, At, Goto, Invocation, Nonce
<1>7. CASE PollTerminal
  BY <1>7 DEF PollTerminal, At, Goto
<1> QED
  BY <1>1, <1>2, <1>3, <1>4, <1>5, <1>6, <1>7, Zenon DEF FailureStep

LEMMA ExitStepType ==
    ASSUME TypeOK, Deadline \/ ExitStep
    PROVE  TypeOK'
<1> USE BoundAssumption, TaskAssumption
<1> USE DEF TypeOK, FlagTypeOK, ServerTypeOK, ValueTypeOK, PCs, Returns, ProcState, Live, Tracked,
            srvVars, netVars, ctlVars, envVars, loopVars, sigVars, procVars, xfsVars, nasVars, workVars
<1>1. CASE Deadline
  BY <1>1 DEF Deadline, Goto, Hangup, NoReply, Reply, Nonce
<1>2. CASE TermTrap
  <2>1. reporter' \in BOOLEAN /\ term' \in BOOLEAN
    BY <1>2, Zenon DEF TermTrap, Goto, Hangup
  <2> QED
    BY <1>2, <2>1 DEF TermTrap, Goto, Hangup, NoReply, Reply, Nonce
<1>3. CASE ExitTrap
  <2>1. reporter' \in BOOLEAN
    BY <1>3, Zenon DEF ExitTrap, At, Goto
  <2> QED
    BY <1>3, <2>1 DEF ExitTrap, At, Goto
<1>4. CASE Cleanup
  BY <1>4 DEF Cleanup, At, Goto
<1>5. CASE StopAck
  <2> DEFINE r == [op |-> "error", nonce |-> nonce, stop |-> TRUE, id |-> inv]
  <2>1. r \in Request
    BY RequestType, Zenon
  <2>2. net' = net \cup {r} /\ rpc' = r /\ reply' = NoReply
    BY <1>5, Zenon DEF StopAck, Ask, Send
  <2> HIDE DEF r
  <2> QED
    BY <1>5, <2>1, <2>2 DEF StopAck, At, Goto, Ask, NoReply, Reply, Nonce
<1>6. CASE StopAckAccepted
  <2>1. released' \in BOOLEAN
    BY <1>6, Zenon DEF StopAckAccepted, At, Goto, Hangup, Answered
  <2> QED
    BY <1>6, <2>1 DEF StopAckAccepted, At, Goto, Hangup, Answered, NoReply, Reply, Nonce
<1>7. CASE StopAckFailed
  BY <1>7 DEF StopAckFailed, Goto, GiveUp, At, Hangup, NoReply, Reply, Nonce
<1>8. CASE Cleaned
  BY <1>8 DEF Cleaned, At, Goto
<1> QED
  BY <1>1, <1>2, <1>3, <1>4, <1>5, <1>6, <1>7, <1>8, Zenon DEF ExitStep

LEMMA EnvironmentType ==
    ASSUME TypeOK, Environment
    PROVE  TypeOK'
<1> USE BoundAssumption, TaskAssumption
<1> USE DEF TypeOK, FlagTypeOK, ServerTypeOK, ValueTypeOK, PCs, Returns, ProcState, Live, Tracked,
            srvVars, netVars, ctlVars, envVars, loopVars, sigVars, procVars, xfsVars, nasVars, workVars
<1>1. CASE ReporterCancel
  <2>1. reporter' \in BOOLEAN /\ term' \in BOOLEAN
    BY <1>1, Zenon DEF ReporterCancel
  <2> QED
    BY <1>1, <2>1 DEF ReporterCancel
<1>2. CASE ProducerOpen
  <2>1. fifo' \in BOOLEAN
    BY <1>2, Zenon DEF ProducerOpen
  <2> QED
    BY <1>2, <2>1 DEF ProducerOpen
<1>3. CASE ProducerExit
  BY <1>3 DEF ProducerExit
<1>4. CASE WriterFail
  BY <1>4 DEF WriterFail
<1>5. CASE WriterEnd
  BY <1>5 DEF WriterEnd
<1>6. CASE ProducerKilled
  BY <1>6 DEF ProducerKilled
<1>7. CASE WriterKilled
  BY <1>7 DEF WriterKilled
<1>8. CASE PowerCycle
  <2>1. withdrawn' \in BOOLEAN /\ direct' \in BOOLEAN /\ stopped' \in BOOLEAN /\ released' \in
    BOOLEAN /\ confirmed' \in BOOLEAN /\ reporter' \in BOOLEAN /\ term' \in BOOLEAN /\ prodPid'
    \in BOOLEAN /\ writPid' \in BOOLEAN /\ fifo' \in BOOLEAN /\ xfsVar' \in BOOLEAN /\ xfsDir'
    \in BOOLEAN /\ xfsMnt' \in BOOLEAN
    BY <1>8, Zenon DEF PowerCycle, Hangup
  <2> QED
    BY <1>8, <2>1 DEF PowerCycle, Hangup, NoReply, Reply, Nonce, Invocation
<1>9. CASE PoweredOff
  BY <1>9 DEF PoweredOff, vars
<1> QED
  BY <1>1, <1>2, <1>3, <1>4, <1>5, <1>6, <1>7, <1>8, <1>9, Zenon DEF Environment

LEMMA ServiceType ==
    ASSUME TypeOK, Service
    PROVE  TypeOK'
<1> USE BoundAssumption
<1> USE DEF Status, Attempt, Nonce, Invocation
<1>1. FlagTypeOK' /\ ValueTypeOK'
  BY DEF Service, TypeOK, FlagTypeOK, ValueTypeOK, ctlVars, envVars, loopVars, sigVars,
         workVars, procVars, xfsVars, nasVars
<1>2. CASE Cancel
  BY <1>1, <1>2 DEF Cancel, netVars, TypeOK, ServerTypeOK
<1>3. CASE Retry
  BY <1>1, <1>3 DEF Retry, netVars, TypeOK, ServerTypeOK
<1>4. ASSUME NEW m \in net, Serve(m) PROVE TypeOK'
  <2> USE DEF TypeOK, ServerTypeOK, Answer, srvVars
  <2>1. m \in Request
    OBVIOUS
  <2>2. Take(m) => net' \subseteq Request /\ rpc' = rpc
    BY DEF Take
  <2>3. CASE ServeCheckin(m)
    BY <1>1, <2>1, <2>2, <2>3 DEF ServeCheckin, Request, Reply
  <2>4. CASE ServePermit(m)
    BY <1>1, <2>2, <2>4 DEF ServePermit, Reply
  <2>5. CASE ServeFence(m)
    BY <1>1, <2>2, <2>5 DEF ServeFence, Reply
  <2>6. CASE ServeFinish(m)
    BY <1>1, <2>2, <2>6 DEF ServeFinish, Reply
  <2>7. CASE ServeError(m)
    BY <1>1, <2>2, <2>7 DEF ServeError, Reply
  <2> QED
    BY <1>4, <2>3, <2>4, <2>5, <2>6, <2>7 DEF Serve
<1> QED
  BY <1>2, <1>3, <1>4 DEF Service

\* Every step keeps every variable in its type: in particular the resends of
\* finish never exceed their bound and the service never meets an identity out
\* of range.
LEMMA TypeStep ==
    ASSUME TypeOK, [Next]_vars
    PROVE  TypeOK'
<1>1. CASE UNCHANGED vars
  BY <1>1 DEF TypeOK, FlagTypeOK, ServerTypeOK, ValueTypeOK, vars, srvVars, netVars, ctlVars,
              envVars, loopVars, sigVars, procVars, xfsVars, nasVars, workVars
<1> QED
  BY <1>1, CheckinStepType, PermitStepType, ArtifactStepType, PublishStepType, QuiesceStepType,
     FailureStepType, ExitStepType, EnvironmentType, ServiceType DEF Next, Controller

LEMMA TypeInit == Init => TypeOK
<1> SUFFICES ASSUME Init PROVE TypeOK
  OBVIOUS
<1>1. FlagTypeOK
  BY Zenon DEF Init, FlagTypeOK
<1>2. ServerTypeOK
  BY BoundAssumption DEF Init, ServerInit, ServerTypeOK, Status, Attempt, Nonce, Invocation,
     NoReply, Reply, NoRequest
<1>3. ValueTypeOK
  BY BoundAssumption, TaskAssumption DEF Init, ValueTypeOK, PCs, Returns, ProcState, Live,
     Tracked, Nonce, Invocation, Artifact, Leftover
<1> QED
  BY <1>1, <1>2, <1>3 DEF TypeOK

\* Type correctness of the capture task and of the service it talks to.
THEOREM TypeCorrect == Spec => []TypeOK
  BY TypeInit, TypeStep, PTL DEF Spec


-----------------------------------------------------------------------------
\* What the steps of the client have in common.  A silent step sends nothing and
\* keeps the identity of the client; nobody waits for a request after it.

CheckinPCs == {"checkin", "checkin_wait"}

Silent ==
    /\ UNCHANGED <<srvVars, net, nonce, inv>>
    /\ rpc' = NoRequest
    /\ pc' \in CheckinPCs => pc \in CheckinPCs

Kept ==
    /\ ServerInv' /\ NetInv' /\ CheckinInv'
    /\ (Held => Held') /\ (Quiet => Quiet') /\ (status = status')

\* The rest of the invariant: where the client is and what it runs.
PlaceInv == HeldInv /\ BusyInv /\ ProcInv /\ PublishInv

LEMMA SilentKept ==
    ASSUME IInv, Silent
    PROVE  Kept
<1> USE DEF IInv, Silent, srvVars
<1>1. (Fresh => Fresh') /\ (Held => Held') /\ (Quiet => Quiet')
  BY DEF Fresh, Held, Quiet
<1>2. ServerInv'
  BY <1>1 DEF ServerInv
<1>3. NetInv'
  BY DEF NetInv
<1>4. CheckinInv'
  BY <1>1 DEF CheckinInv, CheckinPCs, Answered
<1> QED
  BY <1>1, <1>2, <1>3, <1>4 DEF Kept

\* A client that is not waiting for a request has none.
LEMMA NotWaiting ==
    ASSUME IInv, pc \notin WaitPCs
    PROVE  rpc = NoRequest
BY DEF IInv, NetInv

\* The steps of the processes and of the reporter.
LEMMA AsideKept ==
    ASSUME IInv, UNCHANGED <<srvVars, netVars, nonce, inv, pc>>
    PROVE  Kept /\ (PublishInv => PublishInv')
<1> USE DEF IInv, srvVars, netVars
<1>1. (Fresh => Fresh') /\ (Held => Held') /\ (Quiet => Quiet')
  BY DEF Fresh, Held, Quiet
<1>2. ServerInv' /\ NetInv' /\ CheckinInv' /\ (PublishInv => PublishInv')
  BY <1>1 DEF ServerInv, NetInv, CheckinInv, PublishInv, Answered
<1> QED
  BY <1>1, <1>2 DEF Kept

\* A step that sends a request and waits for the answer.
LEMMA AskKept ==
    ASSUME IInv, NEW op \in {"checkin", "permit", "fence", "finish", "error"},
           NEW wait \in WaitPCs, NEW claim \in BOOLEAN, Ask(op, wait, claim),
           UNCHANGED <<srvVars, nonce, inv>>,
           wait = "checkin_wait" => op = "checkin" /\ pc = "checkin",
           wait = "fence_wait" => op = "fence", wait = "finish_wait" => op = "finish"
    PROVE  /\ ServerInv' /\ NetInv' /\ CheckinInv' /\ ~Answered("ok")'
           /\ ~(op = "finish" \/ (op = "error" /\ claim)) => (Held => Held')
           /\ op \notin {"error", "finish"} => (Quiet => Quiet')
<1> DEFINE r == [op |-> op, nonce |-> nonce, stop |-> claim, id |-> inv]
<1>1. /\ net' = net \cup {r} /\ rpc' = r /\ pc' = wait /\ reply' = NoReply
      /\ UNCHANGED <<status, attempt, holder, cid, nonce, inv>>
  BY DEF Ask, Send, Goto, srvVars
<1>2. r.op = op /\ r.nonce = nonce /\ r.id = inv /\ r.stop = claim
  OBVIOUS
<1>3. nonce \in Nat /\ attempt \in Nat /\ inv \in Nat
  BY BoundAssumption DEF IInv, TypeOK, ServerTypeOK, ValueTypeOK, Nonce, Attempt, Invocation
<1> HIDE DEF r
<1> USE DEF IInv
<1>4. /\ Fresh => Fresh'
      /\ ~(op = "finish" \/ (op = "error" /\ claim)) => (Held => Held')
      /\ op \notin {"error", "finish"} => (Quiet => Quiet')
  BY <1>1, <1>2 DEF Fresh, Held, Quiet, Releasing
<1>5. ServerInv'
  BY <1>1, <1>4 DEF ServerInv
<1>6. NetInv'
  BY <1>1, <1>2, <1>3 DEF NetInv
<1>7. ~Answered("ok")'
  BY <1>1 DEF Answered, NoReply
<1>8. CheckinInv'
  BY <1>1, <1>4, <1>7, SMTT(30) DEF CheckinInv, WaitPCs
<1> QED
  BY <1>4, <1>5, <1>6, <1>7, <1>8

-----------------------------------------------------------------------------
\* The invariant, step by step.

LEMMA InvStutter == ASSUME IInv, TypeOK', UNCHANGED vars PROVE IInv'
  BY DEF IInv, ServerInv, NetInv, CheckinInv, HeldInv, BusyInv, ProcInv, PublishInv, Busy, Held,
     Quiet, Fresh, Releasing, Answered, vars, srvVars, netVars, ctlVars, envVars, sigVars,
     procVars, xfsVars, workVars

LEMMA CheckinStepInv ==
    ASSUME IInv, TypeOK', CheckinStep
    PROVE  IInv'
<1>1. CASE Checkin
  <2>1. Ask("checkin", "checkin_wait", stopped) /\ UNCHANGED <<srvVars, nonce, inv>> /\ UNCHANGED <<workVars, stopped>>
    BY <1>1, Zenon DEF Checkin, envVars, ctlVars
  <2>2. pc = "checkin" /\ pc' = "checkin_wait" /\ stopped \in BOOLEAN
    BY <1>1 DEF Checkin, At, Ask, Goto, IInv, TypeOK, FlagTypeOK
  <2>3. /\ ServerInv' /\ NetInv' /\ CheckinInv' /\ ~Answered("ok")'
        /\ (Held => Held') /\ (Quiet => Quiet')
    BY <2>1, <2>2, AskKept, Zenon DEF WaitPCs
  <2>4. PlaceInv'
    BY <2>1, <2>2, <2>3, Zenon
       DEF IInv, workVars, procVars, xfsVars, PlaceInv, HeldInv, BusyInv, ProcInv,
          PublishInv, Busy, Tracked, Live, XfsPCs, StreamPCs, FencePCs, HeldPCs, IdlePCs
  <2> QED
    BY <2>3, <2>4, Zenon DEF IInv, PlaceInv
<1>2. CASE CheckinUncertain
  <2>1. Silent
    BY <1>2, Zenon DEF CheckinUncertain, Goto, GiveUp, At, Hangup, Silent, CheckinPCs,
       ctlVars, envVars
  <2>2. PlaceInv'
    BY <1>2, <2>1, SilentKept, Zenon
       DEF CheckinUncertain, Goto, At, GiveUp, envVars, workVars, procVars, xfsVars, Kept,
          IInv, PlaceInv, HeldInv, BusyInv, ProcInv, PublishInv, Busy, Tracked, Live,
          XfsPCs, StreamPCs, FencePCs, HeldPCs, IdlePCs
  <2> QED
    BY <2>1, <2>2, SilentKept, Zenon DEF Kept, IInv, PlaceInv
<1>3. CASE CheckinAccepted
  <2>1. nonce' = attempt /\ holder = attempt /\ attempt # 0 /\ Fresh /\ pc' = "mount" /\ ~stopped'
    BY <1>3, BoundAssumption DEF CheckinAccepted, At, Goto, IInv, CheckinInv, TypeOK, ServerTypeOK, Attempt
  <2>2. UNCHANGED <<srvVars, net, inv>> /\ rpc' = NoRequest
    BY <1>3 DEF CheckinAccepted, Hangup, ctlVars
  <2>3. Held' /\ Quiet'
    BY <2>1, <2>2 DEF Held, Quiet, Fresh, srvVars
  <2>4. status # "queued"
    BY <2>1 DEF IInv, ServerInv
  <2>5. attempt \in Nat
    BY BoundAssumption, SMTT(30) DEF IInv, TypeOK, ServerTypeOK, Attempt
  <2>6. ServerInv' /\ NetInv' /\ CheckinInv'
    BY <2>1, <2>2, <2>4, <2>5 DEF IInv, ServerInv, NetInv, CheckinInv, srvVars
  <2>7. ~Busy
    BY <1>3, SMTT(30) DEF IInv, BusyInv, Held, CheckinInv, CheckinAccepted, At
  <2>8. PlaceInv'
    BY <1>3, <2>1, <2>3, <2>7 DEF CheckinAccepted, IInv, procVars,
       PlaceInv, HeldInv, BusyInv, ProcInv, PublishInv, Busy, Tracked, Live, XfsPCs, StreamPCs, FencePCs
  <2> QED
    BY <2>6, <2>8 DEF IInv, PlaceInv
<1>4. CASE CheckinWithdrawn
  <2>1. Silent
    BY <1>4, Zenon DEF CheckinWithdrawn, At, Goto, Hangup, Answered, Silent, CheckinPCs,
       envVars
  <2>2. PlaceInv'
    BY <1>4, <2>1, SilentKept, Zenon
       DEF CheckinWithdrawn, Goto, At, envVars, workVars, procVars, xfsVars, Kept, IInv,
          PlaceInv, HeldInv, BusyInv, ProcInv, PublishInv, Busy, Tracked, Live, XfsPCs,
          StreamPCs, FencePCs, HeldPCs, IdlePCs
  <2> QED
    BY <2>1, <2>2, SilentKept, Zenon DEF Kept, IInv, PlaceInv
<1>5. CASE Mount
  <2>1. Silent
    BY <1>5, NotWaiting, Zenon DEF Mount, At, Goto, HandleError, Silent, CheckinPCs,
       netVars, ctlVars, envVars, WaitPCs
  <2>2. PlaceInv'
    BY <1>5, <2>1, SilentKept, Zenon
       DEF Mount, Goto, HandleError, At, envVars, workVars, procVars, xfsVars, Kept, IInv,
          PlaceInv, HeldInv, BusyInv, ProcInv, PublishInv, Busy, Tracked, Live, XfsPCs,
          StreamPCs, FencePCs, HeldPCs, IdlePCs
  <2> QED
    BY <2>1, <2>2, SilentKept, Zenon DEF Kept, IInv, PlaceInv
<1> QED
  BY <1>1, <1>2, <1>3, <1>4, <1>5 DEF CheckinStep

LEMMA PermitStepInv ==
    ASSUME IInv, TypeOK', PermitStep
    PROVE  IInv'
<1>1. CASE AskPermit
  <2>1. Ask("permit", "permit_wait", stopped) /\ UNCHANGED <<srvVars, nonce, inv>> /\ UNCHANGED <<workVars, stopped>>
    BY <1>1, Zenon DEF AskPermit, envVars, ctlVars
  <2>2. pc = "permit" /\ pc' = "permit_wait" /\ stopped \in BOOLEAN
    BY <1>1 DEF AskPermit, At, Ask, Goto, IInv, TypeOK, FlagTypeOK
  <2>3. /\ ServerInv' /\ NetInv' /\ CheckinInv' /\ ~Answered("ok")'
        /\ (Held => Held') /\ (Quiet => Quiet')
    BY <2>1, <2>2, AskKept, Zenon DEF WaitPCs
  <2>4. PlaceInv'
    BY <2>1, <2>2, <2>3, Zenon
       DEF IInv, workVars, procVars, xfsVars, PlaceInv, HeldInv, BusyInv, ProcInv,
          PublishInv, Busy, Tracked, Live, XfsPCs, StreamPCs, FencePCs, HeldPCs, IdlePCs
  <2> QED
    BY <2>3, <2>4, Zenon DEF IInv, PlaceInv
<1>2. CASE PermitUncertain
  <2>1. Silent
    BY <1>2, Zenon DEF PermitUncertain, Goto, GiveUp, At, Hangup, Silent, CheckinPCs,
       ctlVars, envVars
  <2>2. PlaceInv'
    BY <1>2, <2>1, SilentKept, Zenon
       DEF PermitUncertain, Goto, At, GiveUp, envVars, workVars, procVars, xfsVars, Kept,
          IInv, PlaceInv, HeldInv, BusyInv, ProcInv, PublishInv, Busy, Tracked, Live,
          XfsPCs, StreamPCs, FencePCs, HeldPCs, IdlePCs
  <2> QED
    BY <2>1, <2>2, SilentKept, Zenon DEF Kept, IInv, PlaceInv
<1>3. CASE PermitGranted
  <2>1. Silent
    BY <1>3, Zenon DEF PermitGranted, At, Goto, HandleError, Hangup, Answered, Silent,
       CheckinPCs, ctlVars, envVars
  <2>2. PlaceInv'
    BY <1>3, <2>1, SilentKept, Zenon
       DEF PermitGranted, Goto, HandleError, At, envVars, workVars, procVars, xfsVars, Kept,
          IInv, PlaceInv, HeldInv, BusyInv, ProcInv, PublishInv, Busy, Tracked, Live,
          XfsPCs, StreamPCs, FencePCs, HeldPCs, IdlePCs
  <2> QED
    BY <2>1, <2>2, SilentKept, Zenon DEF Kept, IInv, PlaceInv
<1>4. CASE PermitDenied
  <2>1. Silent
    BY <1>4, Zenon DEF PermitDenied, At, Goto, Hangup, Answered, Silent, CheckinPCs, envVars
  <2>2. PlaceInv'
    BY <1>4, <2>1, SilentKept, Zenon
       DEF PermitDenied, Goto, At, envVars, workVars, procVars, xfsVars, Kept, IInv,
          PlaceInv, HeldInv, BusyInv, ProcInv, PublishInv, Busy, Tracked, Live, XfsPCs,
          StreamPCs, FencePCs, HeldPCs, IdlePCs
  <2> QED
    BY <2>1, <2>2, SilentKept, Zenon DEF Kept, IInv, PlaceInv
<1>5. CASE Prepare
  <2>1. Silent
    BY <1>5, NotWaiting, Zenon DEF Prepare, At, Goto, HandleError, Silent, CheckinPCs,
       netVars, ctlVars, envVars, WaitPCs
  <2>2. PlaceInv'
    BY <1>5, <2>1, SilentKept, Zenon
       DEF Prepare, Goto, HandleError, At, envVars, procVars, xfsVars, Kept, IInv, PlaceInv,
          HeldInv, BusyInv, ProcInv, PublishInv, Busy, Tracked, Live, XfsPCs, StreamPCs,
          FencePCs, HeldPCs, IdlePCs
  <2> QED
    BY <2>1, <2>2, SilentKept, Zenon DEF Kept, IInv, PlaceInv
<1> QED
  BY <1>1, <1>2, <1>3, <1>4, <1>5 DEF PermitStep

LEMMA ArtifactStepInv ==
    ASSUME IInv, TypeOK', ArtifactStep
    PROVE  IInv'
<1>1. CASE NextPart
  <2>1. Silent
    BY <1>1, NotWaiting, Zenon DEF NextPart, At, Goto, HandleError, Silent, CheckinPCs,
       netVars, ctlVars, envVars, WaitPCs
  <2>2. PlaceInv'
    <3>1. ~Busy /\ Held /\ Quiet /\ ~stopped
      BY <1>1, Zenon DEF NextPart, At, IInv, HeldInv, BusyInv, HeldPCs, IdlePCs
    <3>2. Held' /\ Quiet' /\ ~stopped' /\ UNCHANGED <<procVars, xfsMnt>>
      BY <1>1, <2>1, <3>1, SilentKept, Zenon DEF NextPart, Kept, envVars, xfsVars
    <3>3. ~Busy' /\ ~xfsMnt' /\ prod' \notin Tracked /\ writ' \notin Tracked
      BY <3>1, <3>2, Zenon DEF Busy, procVars
    <3>4. pc' \in {"spawn_writer", "xfs_mount", "q_kill"}
      BY <1>1, Zenon DEF NextPart, Goto, HandleError
    <3>5. pc' = "xfs_mount" => xfsVar' /\ xfsDir'
      BY <1>1, Zenon DEF NextPart, Goto, HandleError
    <3>6. HeldInv' /\ BusyInv' /\ PublishInv'
      BY <3>2, <3>3, <3>4, Zenon DEF HeldInv, BusyInv, PublishInv
    <3>7. ProcInv'
      BY <3>3, <3>4, <3>5, Zenon DEF ProcInv, StreamPCs
    <3> QED
      BY <3>6, <3>7, Zenon DEF PlaceInv
  <2> QED
    BY <2>1, <2>2, SilentKept, Zenon DEF Kept, IInv, PlaceInv
<1>2. CASE XfsMount
  <2>1. Silent
    BY <1>2, NotWaiting, Zenon DEF XfsMount, At, Goto, Silent, CheckinPCs, netVars, ctlVars,
       envVars, WaitPCs
  <2>2. PlaceInv'
    BY <1>2, <2>1, SilentKept, Zenon
       DEF XfsMount, Goto, At, envVars, procVars, Kept, IInv, PlaceInv, HeldInv, BusyInv,
          ProcInv, PublishInv, Busy, Tracked, Live, XfsPCs, StreamPCs, FencePCs, HeldPCs,
          IdlePCs
  <2> QED
    BY <2>1, <2>2, SilentKept, Zenon DEF Kept, IInv, PlaceInv
<1>3. CASE XfsUmount
  <2>1. Silent
    BY <1>3, NotWaiting, Zenon DEF XfsUmount, At, Goto, Silent, CheckinPCs, netVars,
       ctlVars, envVars, WaitPCs
  <2>2. PlaceInv'
    <3>1. Held /\ Quiet /\ ~stopped /\ prod \notin Tracked /\ writ \notin Tracked
      BY <1>3, Zenon DEF XfsUmount, At, IInv, HeldInv, ProcInv, HeldPCs, XfsPCs
    <3>2. Held' /\ Quiet' /\ ~stopped' /\ prod' \notin Tracked /\ writ' \notin Tracked
      BY <1>3, <2>1, <3>1, SilentKept, Zenon DEF XfsUmount, Kept, envVars, procVars
    <3>3. pc' \in {"xfs_unset", "xfs_rmdir_err"} /\ (pc' = "xfs_unset" => ~xfsMnt')
      BY <1>3, Zenon DEF XfsUmount, Goto
    <3>4. xfsMnt' => xfsVar' /\ xfsDir'
      <4>1. xfsDir' = xfsDir /\ (xfsMnt' = FALSE \/ (xfsMnt' = xfsMnt /\ xfsVar' = xfsVar))
        BY <1>3, Zenon DEF XfsUmount
      <4> QED
        BY <4>1, Zenon DEF IInv, ProcInv
    <3>5. HeldInv' /\ BusyInv' /\ PublishInv'
      BY <3>2, <3>3, Zenon DEF HeldInv, BusyInv, PublishInv, Busy, IdlePCs, FencePCs
    <3>6. ProcInv'
      BY <3>2, <3>3, <3>4, Zenon DEF ProcInv, StreamPCs
    <3> QED
      BY <3>5, <3>6, Zenon DEF PlaceInv
  <2> QED
    BY <2>1, <2>2, SilentKept, Zenon DEF Kept, IInv, PlaceInv
<1>4. CASE XfsUnset
  <2>1. Silent
    BY <1>4, NotWaiting, Zenon DEF XfsUnset, At, Goto, Silent, CheckinPCs, netVars, ctlVars,
       envVars, WaitPCs
  <2>2. PlaceInv'
    BY <1>4, <2>1, SilentKept, Zenon
       DEF XfsUnset, Goto, At, envVars, procVars, Kept, IInv, PlaceInv, HeldInv, BusyInv,
          ProcInv, PublishInv, Busy, Tracked, Live, XfsPCs, StreamPCs, FencePCs, HeldPCs,
          IdlePCs
  <2> QED
    BY <2>1, <2>2, SilentKept, Zenon DEF Kept, IInv, PlaceInv
<1>5. CASE XfsRmdir
  <2>1. Silent
    BY <1>5, NotWaiting, Zenon DEF XfsRmdir, At, Goto, HandleError, Silent, CheckinPCs,
       netVars, ctlVars, envVars, WaitPCs
  <2>2. PlaceInv'
    BY <1>5, <2>1, SilentKept, Zenon
       DEF XfsRmdir, Goto, HandleError, At, envVars, procVars, Kept, IInv, PlaceInv,
          HeldInv, BusyInv, ProcInv, PublishInv, Busy, Tracked, Live, XfsPCs, StreamPCs,
          FencePCs, HeldPCs, IdlePCs
  <2> QED
    BY <2>1, <2>2, SilentKept, Zenon DEF Kept, IInv, PlaceInv
<1>6. CASE XfsRmdirErr
  <2>1. Silent
    BY <1>6, NotWaiting, Zenon DEF XfsRmdirErr, At, Goto, Silent, CheckinPCs, netVars,
       ctlVars, envVars, WaitPCs
  <2>2. PlaceInv'
    <3>1. Held /\ Quiet /\ ~stopped /\ prod \notin Tracked /\ writ \notin Tracked
      BY <1>6, Zenon DEF XfsRmdirErr, At, IInv, HeldInv, ProcInv, HeldPCs, XfsPCs
    <3>2. /\ Held' /\ Quiet' /\ ~stopped' /\ prod' \notin Tracked /\ writ' \notin Tracked
          /\ pc' = "xfs_check_err"
      BY <1>6, <2>1, <3>1, SilentKept, Zenon DEF XfsRmdirErr, Goto, Kept, envVars, procVars
    <3>3. xfsMnt' => xfsVar' /\ xfsDir'
      BY <1>6 DEF XfsRmdirErr, IInv, ProcInv
    <3>4. HeldInv' /\ BusyInv' /\ PublishInv'
      BY <3>2, Zenon DEF HeldInv, BusyInv, PublishInv, IdlePCs, FencePCs
    <3>5. ProcInv'
      BY <3>2, <3>3, Zenon DEF ProcInv, StreamPCs
    <3> QED
      BY <3>4, <3>5, Zenon DEF PlaceInv
  <2> QED
    BY <2>1, <2>2, SilentKept, Zenon DEF Kept, IInv, PlaceInv
<1>7. CASE XfsCheckErr
  <2>1. Silent
    BY <1>7, NotWaiting, Zenon DEF XfsCheckErr, At, HandleError, Silent, CheckinPCs,
       netVars, ctlVars, envVars, WaitPCs
  <2>2. PlaceInv'
    BY <1>7, <2>1, SilentKept, Zenon
       DEF XfsCheckErr, HandleError, At, envVars, procVars, Kept, IInv, PlaceInv, HeldInv,
          BusyInv, ProcInv, PublishInv, Busy, Tracked, Live, XfsPCs, StreamPCs, FencePCs,
          HeldPCs, IdlePCs, TypeOK, FlagTypeOK
  <2> QED
    BY <2>1, <2>2, SilentKept, Zenon DEF Kept, IInv, PlaceInv
<1>8. CASE SpawnWriter
  <2>1. Silent
    BY <1>8, NotWaiting, Zenon DEF SpawnWriter, At, Goto, HandleError, Silent, CheckinPCs,
       netVars, ctlVars, envVars, WaitPCs
  <2>2. PlaceInv'
    BY <1>8, <2>1, SilentKept, Zenon
       DEF SpawnWriter, Goto, HandleError, At, envVars, xfsVars, Kept, IInv, PlaceInv,
          HeldInv, BusyInv, ProcInv, PublishInv, Busy, Tracked, Live, XfsPCs, StreamPCs,
          FencePCs, HeldPCs, IdlePCs
  <2> QED
    BY <2>1, <2>2, SilentKept, Zenon DEF Kept, IInv, PlaceInv
<1>9. CASE TrackWriter
  <2>1. Silent
    BY <1>9, NotWaiting, Zenon DEF TrackWriter, At, Goto, Silent, CheckinPCs, netVars,
       ctlVars, envVars, WaitPCs
  <2>2. PlaceInv'
    BY <1>9, <2>1, SilentKept, Zenon
       DEF TrackWriter, Goto, Track, At, envVars, xfsVars, Kept, IInv, PlaceInv, HeldInv,
          BusyInv, ProcInv, PublishInv, Busy, Tracked, Live, XfsPCs, StreamPCs, FencePCs,
          HeldPCs, IdlePCs
  <2> QED
    BY <2>1, <2>2, SilentKept, Zenon DEF Kept, IInv, PlaceInv
<1>10. CASE SpawnProducer
  <2>1. Silent
    BY <1>10, NotWaiting, Zenon DEF SpawnProducer, At, Goto, Silent, CheckinPCs, netVars,
       ctlVars, envVars, WaitPCs
  <2>2. PlaceInv'
    BY <1>10, <2>1, SilentKept, Zenon
       DEF SpawnProducer, Goto, At, envVars, xfsVars, Kept, IInv, PlaceInv, HeldInv,
          BusyInv, ProcInv, PublishInv, Busy, Tracked, Live, XfsPCs, StreamPCs, FencePCs,
          HeldPCs, IdlePCs
  <2> QED
    BY <2>1, <2>2, SilentKept, Zenon DEF Kept, IInv, PlaceInv
<1>11. CASE TrackProducer
  <2>1. Silent
    BY <1>11, NotWaiting, Zenon DEF TrackProducer, At, Goto, Silent, CheckinPCs, netVars,
       ctlVars, envVars, WaitPCs
  <2>2. PlaceInv'
    BY <1>11, <2>1, SilentKept, Zenon
       DEF TrackProducer, Goto, Track, At, envVars, xfsVars, Kept, IInv, PlaceInv, HeldInv,
          BusyInv, ProcInv, PublishInv, Busy, Tracked, Live, XfsPCs, StreamPCs, FencePCs,
          HeldPCs, IdlePCs
  <2> QED
    BY <2>1, <2>2, SilentKept, Zenon DEF Kept, IInv, PlaceInv
<1>12. CASE WaitProducer
  <2>1. Silent
    BY <1>12, NotWaiting, Zenon DEF WaitProducer, At, Goto, Silent, CheckinPCs, netVars,
       ctlVars, envVars, WaitPCs
  <2>2. PlaceInv'
    BY <1>12, <2>1, SilentKept, Zenon
       DEF WaitProducer, Goto, At, envVars, xfsVars, Kept, IInv, PlaceInv, HeldInv, BusyInv,
          ProcInv, PublishInv, Busy, Tracked, Live, XfsPCs, StreamPCs, FencePCs, HeldPCs,
          IdlePCs
  <2> QED
    BY <2>1, <2>2, SilentKept, Zenon DEF Kept, IInv, PlaceInv
<1>13. CASE WaitWriter
  <2>1. Silent
    BY <1>13, NotWaiting, Zenon DEF WaitWriter, At, Goto, HandleError, Silent, CheckinPCs,
       netVars, ctlVars, envVars, WaitPCs
  <2>2. PlaceInv'
    BY <1>13, <2>1, SilentKept, Zenon
       DEF WaitWriter, Goto, HandleError, At, envVars, xfsVars, Kept, IInv, PlaceInv,
          HeldInv, BusyInv, ProcInv, PublishInv, Busy, Tracked, Live, XfsPCs, StreamPCs,
          FencePCs, HeldPCs, IdlePCs
  <2> QED
    BY <2>1, <2>2, SilentKept, Zenon DEF Kept, IInv, PlaceInv
<1> QED
  BY <1>1, <1>2, <1>3, <1>4, <1>5, <1>6, <1>7, <1>8, <1>9, <1>10, <1>11, <1>12, <1>13 DEF ArtifactStep, XfsStep

LEMMA PublishStepInv ==
    ASSUME IInv, TypeOK', PublishStep
    PROVE  IInv'
<1>1. CASE Complete
  <2>1. Silent
    BY <1>1, NotWaiting, Zenon DEF Complete, At, Goto, Silent, CheckinPCs, netVars, ctlVars,
       envVars, WaitPCs
  <2>2. PlaceInv'
    BY <1>1, <2>1, SilentKept, Zenon
       DEF Complete, Goto, At, envVars, workVars, procVars, xfsVars, Kept, IInv, PlaceInv,
          HeldInv, BusyInv, ProcInv, PublishInv, Busy, Tracked, Live, XfsPCs, StreamPCs,
          FencePCs, HeldPCs, IdlePCs
  <2> QED
    BY <2>1, <2>2, SilentKept, Zenon DEF Kept, IInv, PlaceInv
<1>2. CASE Finalize
  <2>1. Silent
    BY <1>2, NotWaiting, Zenon DEF Finalize, At, Goto, HandleError, Silent, CheckinPCs,
       netVars, ctlVars, envVars, WaitPCs
  <2>2. PlaceInv'
    BY <1>2, <2>1, SilentKept, Zenon
       DEF Finalize, Goto, HandleError, At, envVars, workVars, procVars, xfsVars, Kept,
          IInv, PlaceInv, HeldInv, BusyInv, ProcInv, PublishInv, Busy, Tracked, Live,
          XfsPCs, StreamPCs, FencePCs, HeldPCs, IdlePCs
  <2> QED
    BY <2>1, <2>2, SilentKept, Zenon DEF Kept, IInv, PlaceInv
<1>3. CASE BeginPublish
  <2>1. Ask("fence", "fence_wait", stopped) /\ UNCHANGED <<srvVars, nonce, inv>> /\ UNCHANGED <<workVars, stopped>>
    BY <1>3, Zenon DEF BeginPublish, envVars, ctlVars
  <2>2. pc = "fence" /\ pc' = "fence_wait" /\ stopped \in BOOLEAN
    BY <1>3 DEF BeginPublish, At, Ask, Goto, IInv, TypeOK, FlagTypeOK
  <2>3. /\ ServerInv' /\ NetInv' /\ CheckinInv' /\ ~Answered("ok")'
        /\ (Held => Held') /\ (Quiet => Quiet')
    BY <2>1, <2>2, AskKept, Zenon DEF WaitPCs
  <2>4. PlaceInv'
    BY <2>1, <2>2, <2>3, Zenon
       DEF IInv, workVars, procVars, xfsVars, PlaceInv, HeldInv, BusyInv, ProcInv,
          PublishInv, Busy, Tracked, Live, XfsPCs, StreamPCs, FencePCs, HeldPCs, IdlePCs
  <2> QED
    BY <2>3, <2>4, Zenon DEF IInv, PlaceInv
<1>4. CASE PublishGranted
  <2>1. Silent
    BY <1>4, Zenon DEF PublishGranted, At, Goto, HandleError, Hangup, Answered, Silent,
       CheckinPCs, ctlVars, envVars
  <2>2. PlaceInv'
    BY <1>4, <2>1, SilentKept, Zenon
       DEF PublishGranted, Goto, HandleError, At, Answered, envVars, workVars, procVars,
          xfsVars, Kept, IInv, PlaceInv, HeldInv, BusyInv, ProcInv, PublishInv, Busy,
          Tracked, Live, XfsPCs, StreamPCs, FencePCs, HeldPCs, IdlePCs
  <2> QED
    BY <2>1, <2>2, SilentKept, Zenon DEF Kept, IInv, PlaceInv
<1>5. CASE PublishRefused
  <2>1. Silent
    BY <1>5, Zenon DEF PublishRefused, HandleError, GiveUp, At, Hangup, Silent, CheckinPCs,
       ctlVars, envVars
  <2>2. PlaceInv'
    BY <1>5, <2>1, SilentKept, Zenon
       DEF PublishRefused, HandleError, At, GiveUp, envVars, workVars, procVars, xfsVars,
          Kept, IInv, PlaceInv, HeldInv, BusyInv, ProcInv, PublishInv, Busy, Tracked, Live,
          XfsPCs, StreamPCs, FencePCs, HeldPCs, IdlePCs
  <2> QED
    BY <2>1, <2>2, SilentKept, Zenon DEF Kept, IInv, PlaceInv
<1>6. CASE RemoveTarget
  <2>1. Silent
    BY <1>6, NotWaiting, Zenon DEF RemoveTarget, At, Goto, HandleError, Silent, CheckinPCs,
       netVars, ctlVars, envVars, WaitPCs
  <2>2. PlaceInv'
    BY <1>6, <2>1, SilentKept, Zenon
       DEF RemoveTarget, Goto, HandleError, At, envVars, procVars, xfsVars, Kept, IInv,
          PlaceInv, HeldInv, BusyInv, ProcInv, PublishInv, Busy, Tracked, Live, XfsPCs,
          StreamPCs, FencePCs, HeldPCs, IdlePCs
  <2> QED
    BY <2>1, <2>2, SilentKept, Zenon DEF Kept, IInv, PlaceInv
<1>7. CASE MoveStaging
  <2>1. Silent
    BY <1>7, NotWaiting, Zenon DEF MoveStaging, At, Goto, HandleError, Silent, CheckinPCs,
       netVars, ctlVars, envVars, WaitPCs
  <2>2. PlaceInv'
    BY <1>7, <2>1, SilentKept, Zenon
       DEF MoveStaging, Goto, HandleError, At, envVars, procVars, xfsVars, Kept, IInv,
          PlaceInv, HeldInv, BusyInv, ProcInv, PublishInv, Busy, Tracked, Live, XfsPCs,
          StreamPCs, FencePCs, HeldPCs, IdlePCs
  <2> QED
    BY <2>1, <2>2, SilentKept, Zenon DEF Kept, IInv, PlaceInv
<1>8. CASE Finish
  <2>1. Ask("finish", "finish_wait", TRUE) /\ UNCHANGED <<srvVars, nonce, inv>> /\ UNCHANGED <<workVars, stopped>>
    BY <1>8, Zenon DEF Finish, envVars, ctlVars
  <2>2. pc = "finish" /\ pc' = "finish_wait" /\ stopped \in BOOLEAN
    BY <1>8 DEF Finish, At, Ask, Goto, IInv, TypeOK, FlagTypeOK
  <2>3. /\ ServerInv' /\ NetInv' /\ CheckinInv' /\ ~Answered("ok")'
    BY <2>1, <2>2, AskKept, Zenon DEF WaitPCs
  <2>4. PlaceInv'
    BY <2>1, <2>2, <2>3, Zenon
       DEF IInv, workVars, procVars, xfsVars, PlaceInv, HeldInv, BusyInv, ProcInv,
          PublishInv, Busy, Tracked, Live, XfsPCs, StreamPCs, FencePCs, HeldPCs, IdlePCs
  <2> QED
    BY <2>3, <2>4, Zenon DEF IInv, PlaceInv
<1>9. CASE FinishAccepted
  <2>1. Silent
    BY <1>9, Zenon DEF FinishAccepted, At, Goto, Hangup, Answered, Silent, CheckinPCs
  <2>2. PlaceInv'
    BY <1>9, <2>1, SilentKept, Zenon
       DEF FinishAccepted, Goto, At, workVars, procVars, xfsVars, Kept, IInv, PlaceInv,
          HeldInv, BusyInv, ProcInv, PublishInv, Busy, Tracked, Live, XfsPCs, StreamPCs,
          FencePCs, HeldPCs, IdlePCs
  <2> QED
    BY <2>1, <2>2, SilentKept, Zenon DEF Kept, IInv, PlaceInv
<1>10. CASE FinishRejected
  <2>1. Silent
    BY <1>10, Zenon DEF FinishRejected, At, HandleError, Hangup, Answered, Silent,
       CheckinPCs, ctlVars, envVars
  <2>2. PlaceInv'
    BY <1>10, <2>1, SilentKept, Zenon
       DEF FinishRejected, HandleError, At, envVars, workVars, procVars, xfsVars, Kept,
          IInv, PlaceInv, HeldInv, BusyInv, ProcInv, PublishInv, Busy, Tracked, Live,
          XfsPCs, StreamPCs, FencePCs, HeldPCs, IdlePCs
  <2> QED
    BY <2>1, <2>2, SilentKept, Zenon DEF Kept, IInv, PlaceInv
<1>11. CASE FinishUncertain
  <2>1. Silent
    BY <1>11, Zenon DEF FinishUncertain, Goto, HandleError, GiveUp, At, Hangup, Silent,
       CheckinPCs, ctlVars, envVars
  <2>2. PlaceInv'
    BY <1>11, <2>1, SilentKept, Zenon
       DEF FinishUncertain, Goto, HandleError, At, GiveUp, envVars, workVars, procVars,
          xfsVars, Kept, IInv, PlaceInv, HeldInv, BusyInv, ProcInv, PublishInv, Busy,
          Tracked, Live, XfsPCs, StreamPCs, FencePCs, HeldPCs, IdlePCs
  <2> QED
    BY <2>1, <2>2, SilentKept, Zenon DEF Kept, IInv, PlaceInv
<1> QED
  BY <1>1, <1>2, <1>3, <1>4, <1>5, <1>6, <1>7, <1>8, <1>9, <1>10, <1>11 DEF PublishStep

LEMMA QuiesceStepInv ==
    ASSUME IInv, TypeOK', QuiesceStep
    PROVE  IInv'
<1>1. CASE QuiesceKill
  <2>1. Silent
    BY <1>1, NotWaiting, Zenon DEF QuiesceKill, At, Goto, Silent, CheckinPCs, netVars,
       ctlVars, WaitPCs
  <2>2. PlaceInv'
    BY <1>1, <2>1, SilentKept, Zenon
       DEF QuiesceKill, Goto, Kill, At, xfsVars, Kept, IInv, PlaceInv, HeldInv, BusyInv,
          ProcInv, PublishInv, Busy, Tracked, Live, XfsPCs, StreamPCs, FencePCs, HeldPCs,
          IdlePCs
  <2> QED
    BY <2>1, <2>2, SilentKept, Zenon DEF Kept, IInv, PlaceInv
<1>2. CASE QuiesceWait
  <2>1. Silent
    BY <1>2, NotWaiting, Zenon DEF QuiesceWait, At, Goto, Silent, CheckinPCs, netVars,
       ctlVars, envVars, WaitPCs
  <2>2. PlaceInv'
    BY <1>2, <2>1, SilentKept, Zenon
       DEF QuiesceWait, Goto, At, envVars, xfsVars, Kept, IInv, PlaceInv, HeldInv, BusyInv,
          ProcInv, PublishInv, Busy, Tracked, Live, XfsPCs, StreamPCs, FencePCs, HeldPCs,
          IdlePCs
  <2> QED
    BY <2>1, <2>2, SilentKept, Zenon DEF Kept, IInv, PlaceInv
<1>3. CASE QuiesceDone
  <2>1. Silent
    BY <1>3, NotWaiting, Zenon DEF QuiesceDone, At, AfterQuiesce, Silent, CheckinPCs,
       netVars, ctlVars, WaitPCs
  <2>2. PlaceInv'
    <3>1. prod' \notin Tracked /\ writ' \notin Tracked
      BY <1>3, Zenon DEF QuiesceDone, At, IInv, ProcInv, procVars
    <3>2. ~xfsMnt'
      BY <1>3, Zenon DEF QuiesceDone, IInv, ProcInv, xfsVars
    <3>3. stopped' /\ pc' \in {"err_reap", "ack", "cleaned"}
      BY <1>3, Zenon DEF QuiesceDone, AfterQuiesce
    <3>4. HeldInv' /\ BusyInv' /\ PublishInv'
      BY <3>1, <3>2, <3>3, Zenon DEF HeldInv, BusyInv, PublishInv, Busy, HeldPCs, XfsPCs, StreamPCs, FencePCs
    <3>5. ProcInv'
      BY <3>1, <3>2, <3>3, Zenon DEF ProcInv, StreamPCs, XfsPCs
    <3> QED
      BY <3>4, <3>5, Zenon DEF PlaceInv
  <2> QED
    BY <2>1, <2>2, SilentKept, Zenon DEF Kept, IInv, PlaceInv
<1>4. CASE QuiesceFailed
  <2>1. Silent
    BY <1>4, NotWaiting, Zenon DEF QuiesceFailed, At, AfterQuiesce, Silent, CheckinPCs,
       netVars, ctlVars, envVars, WaitPCs
  <2>2. PlaceInv'
    BY <1>4, <2>1, SilentKept, Zenon
       DEF QuiesceFailed, AfterQuiesce, At, envVars, procVars, Kept, IInv, PlaceInv,
          HeldInv, BusyInv, ProcInv, PublishInv, Busy, Tracked, Live, XfsPCs, StreamPCs,
          FencePCs, HeldPCs, IdlePCs
  <2> QED
    BY <2>1, <2>2, SilentKept, Zenon DEF Kept, IInv, PlaceInv
<1> QED
  BY <1>1, <1>2, <1>3, <1>4 DEF QuiesceStep

LEMMA FailureStepInv ==
    ASSUME IInv, TypeOK', FailureStep
    PROVE  IInv'
<1>1. CASE ReapReporter
  <2>1. Silent
    BY <1>1, NotWaiting, Zenon DEF ReapReporter, At, Goto, Silent, CheckinPCs, netVars,
       ctlVars, envVars, WaitPCs
  <2>2. PlaceInv'
    BY <1>1, <2>1, SilentKept, Zenon
       DEF ReapReporter, Goto, At, envVars, workVars, procVars, xfsVars, Kept, IInv,
          PlaceInv, HeldInv, BusyInv, ProcInv, PublishInv, Busy, Tracked, Live, XfsPCs,
          StreamPCs, FencePCs, HeldPCs, IdlePCs
  <2> QED
    BY <2>1, <2>2, SilentKept, Zenon DEF Kept, IInv, PlaceInv
<1>2. CASE ReportError
  <2>1. Ask("error", "err_wait", stopped) /\ UNCHANGED <<srvVars, nonce, inv>> /\ UNCHANGED <<workVars, stopped>>
    BY <1>2, Zenon DEF ReportError, envVars, ctlVars
  <2>2. pc = "err" /\ pc' = "err_wait" /\ stopped \in BOOLEAN
    BY <1>2 DEF ReportError, At, Ask, Goto, IInv, TypeOK, FlagTypeOK
  <2>3. /\ ServerInv' /\ NetInv' /\ CheckinInv' /\ ~Answered("ok")'
        /\ ~stopped => (Held => Held')
    BY <2>1, <2>2, AskKept, Zenon DEF WaitPCs
  <2>4. PlaceInv'
    BY <2>1, <2>2, <2>3, Zenon
       DEF IInv, workVars, procVars, xfsVars, PlaceInv, HeldInv, BusyInv, ProcInv,
          PublishInv, Busy, Tracked, Live, XfsPCs, StreamPCs, FencePCs, HeldPCs, IdlePCs
  <2> QED
    BY <2>3, <2>4, Zenon DEF IInv, PlaceInv
<1>3. CASE ReportUncertain
  <2>1. Silent
    BY <1>3, Zenon DEF ReportUncertain, Goto, GiveUp, At, Hangup, Silent, CheckinPCs,
       ctlVars, envVars
  <2>2. PlaceInv'
    BY <1>3, <2>1, SilentKept, Zenon
       DEF ReportUncertain, Goto, At, GiveUp, envVars, workVars, procVars, xfsVars, Kept,
          IInv, PlaceInv, HeldInv, BusyInv, ProcInv, PublishInv, Busy, Tracked, Live,
          XfsPCs, StreamPCs, FencePCs, HeldPCs, IdlePCs
  <2> QED
    BY <2>1, <2>2, SilentKept, Zenon DEF Kept, IInv, PlaceInv
<1>4. CASE ReportAccepted
  <2>1. Silent
    BY <1>4, Zenon DEF ReportAccepted, At, Goto, Hangup, Answered, Silent, CheckinPCs,
       ctlVars
  <2>2. PlaceInv'
    BY <1>4, <2>1, SilentKept, Zenon
       DEF ReportAccepted, Goto, At, workVars, procVars, xfsVars, Kept, IInv, PlaceInv,
          HeldInv, BusyInv, ProcInv, PublishInv, Busy, Tracked, Live, XfsPCs, StreamPCs,
          FencePCs, HeldPCs, IdlePCs, TypeOK, FlagTypeOK
  <2> QED
    BY <2>1, <2>2, SilentKept, Zenon DEF Kept, IInv, PlaceInv
<1>5. CASE ReportRejected
  <2>1. Silent
    BY <1>5, Zenon DEF ReportRejected, At, Goto, Hangup, Answered, Silent, CheckinPCs,
       ctlVars, envVars
  <2>2. PlaceInv'
    BY <1>5, <2>1, SilentKept, Zenon
       DEF ReportRejected, Goto, At, envVars, workVars, procVars, xfsVars, Kept, IInv,
          PlaceInv, HeldInv, BusyInv, ProcInv, PublishInv, Busy, Tracked, Live, XfsPCs,
          StreamPCs, FencePCs, HeldPCs, IdlePCs
  <2> QED
    BY <2>1, <2>2, SilentKept, Zenon DEF Kept, IInv, PlaceInv
<1>6. CASE RetryTask
  <2>1. holder = 0 /\ Fresh /\ nonce' = 0 /\ pc' = "checkin" /\ inv' = inv + 1 /\ rpc = NoRequest
    BY <1>6, NotWaiting DEF RetryTask, At, Goto, IInv, ServerInv, WaitPCs
  <2>2. ~Busy /\ UNCHANGED <<srvVars, netVars>>
    BY <1>6, <2>1 DEF RetryTask, IInv, BusyInv, Held
  <2>3. attempt \in Nat /\ attempt # 0 /\ inv \in Nat /\ cid \in Nat
    BY BoundAssumption DEF IInv, TypeOK, ServerTypeOK, ValueTypeOK, Attempt, Invocation
  <2>4. \A m \in net : m.id \in Nat
    BY BoundAssumption DEF IInv, TypeOK, ServerTypeOK, Request, Invocation
  <2>5. Fresh' /\ cid' < inv'
    BY <2>1, <2>2, <2>3 DEF Fresh, IInv, NetInv, srvVars, netVars
  <2>6. ServerInv' /\ CheckinInv'
    BY <2>1, <2>2, <2>5 DEF IInv, ServerInv, CheckinInv, Answered, srvVars, netVars
  <2>7. NetInv'
    BY <2>1, <2>2, <2>3, <2>4, <2>5, SMTT(30) DEF IInv, NetInv, srvVars, netVars
  <2>8. PlaceInv'
    BY <1>6, <2>1, <2>2 DEF RetryTask, PlaceInv, IInv, HeldInv, BusyInv, ProcInv, PublishInv, Busy,
       Tracked, Live, XfsPCs, StreamPCs, FencePCs, HeldPCs, IdlePCs
  <2> QED
    BY <2>6, <2>7, <2>8, SMTT(30) DEF IInv, PlaceInv
<1>7. CASE PollTerminal
  <2>1. Silent
    BY <1>7, NotWaiting, Zenon DEF PollTerminal, At, Goto, Silent, CheckinPCs, netVars,
       envVars, WaitPCs
  <2>2. PlaceInv'
    BY <1>7, <2>1, SilentKept, Zenon
       DEF PollTerminal, Goto, At, envVars, workVars, procVars, xfsVars, Kept, IInv,
          PlaceInv, HeldInv, BusyInv, ProcInv, PublishInv, Busy, Tracked, Live, XfsPCs,
          StreamPCs, FencePCs, HeldPCs, IdlePCs
  <2> QED
    BY <2>1, <2>2, SilentKept, Zenon DEF Kept, IInv, PlaceInv
<1> QED
  BY <1>1, <1>2, <1>3, <1>4, <1>5, <1>6, <1>7 DEF FailureStep

LEMMA ExitStepInv ==
    ASSUME IInv, TypeOK', Deadline \/ ExitStep
    PROVE  IInv'
<1>1. CASE Deadline
  <2>1. Silent
    BY <1>1, Zenon DEF Deadline, Goto, Hangup, Silent, CheckinPCs, envVars
  <2>2. PlaceInv'
    BY <1>1, <2>1, SilentKept, Zenon
       DEF Deadline, Goto, envVars, workVars, procVars, xfsVars, Kept, IInv, PlaceInv,
          HeldInv, BusyInv, ProcInv, PublishInv, Busy, Tracked, Live, XfsPCs, StreamPCs,
          FencePCs, HeldPCs, IdlePCs
  <2> QED
    BY <2>1, <2>2, SilentKept, Zenon DEF Kept, IInv, PlaceInv
<1>2. CASE TermTrap
  <2>1. Silent
    BY <1>2, Zenon DEF TermTrap, Goto, Hangup, Silent, CheckinPCs, envVars
  <2>2. PlaceInv'
    BY <1>2, <2>1, SilentKept, Zenon
       DEF TermTrap, Goto, envVars, workVars, procVars, xfsVars, Kept, IInv, PlaceInv,
          HeldInv, BusyInv, ProcInv, PublishInv, Busy, Tracked, Live, XfsPCs, StreamPCs,
          FencePCs, HeldPCs, IdlePCs
  <2> QED
    BY <2>1, <2>2, SilentKept, Zenon DEF Kept, IInv, PlaceInv
<1>3. CASE ExitTrap
  <2>1. Silent
    BY <1>3, NotWaiting, Zenon DEF ExitTrap, At, Goto, Silent, CheckinPCs, netVars, ctlVars,
       envVars, WaitPCs
  <2>2. PlaceInv'
    BY <1>3, <2>1, SilentKept, Zenon
       DEF ExitTrap, Goto, At, envVars, workVars, procVars, xfsVars, Kept, IInv, PlaceInv,
          HeldInv, BusyInv, ProcInv, PublishInv, Busy, Tracked, Live, XfsPCs, StreamPCs,
          FencePCs, HeldPCs, IdlePCs
  <2> QED
    BY <2>1, <2>2, SilentKept, Zenon DEF Kept, IInv, PlaceInv
<1>4. CASE Cleanup
  <2>1. Silent
    BY <1>4, NotWaiting, Zenon DEF Cleanup, At, Goto, Silent, CheckinPCs, netVars, ctlVars,
       envVars, WaitPCs
  <2>2. PlaceInv'
    BY <1>4, <2>1, SilentKept, Zenon
       DEF Cleanup, Goto, At, envVars, workVars, procVars, xfsVars, Kept, IInv, PlaceInv,
          HeldInv, BusyInv, ProcInv, PublishInv, Busy, Tracked, Live, XfsPCs, StreamPCs,
          FencePCs, HeldPCs, IdlePCs
  <2> QED
    BY <2>1, <2>2, SilentKept, Zenon DEF Kept, IInv, PlaceInv
<1>5. CASE StopAck
  <2>1. Ask("error", "ack_wait", TRUE) /\ UNCHANGED <<srvVars, nonce, inv>> /\ UNCHANGED <<workVars, stopped>>
    BY <1>5, Zenon DEF StopAck, envVars, ctlVars
  <2>2. pc = "ack" /\ pc' = "ack_wait" /\ stopped \in BOOLEAN
    BY <1>5 DEF StopAck, At, Ask, Goto, IInv, TypeOK, FlagTypeOK
  <2>3. /\ ServerInv' /\ NetInv' /\ CheckinInv' /\ ~Answered("ok")'
    BY <2>1, <2>2, AskKept, Zenon DEF WaitPCs
  <2>4. PlaceInv'
    BY <2>1, <2>2, <2>3, Zenon
       DEF IInv, workVars, procVars, xfsVars, PlaceInv, HeldInv, BusyInv, ProcInv,
          PublishInv, Busy, Tracked, Live, XfsPCs, StreamPCs, FencePCs, HeldPCs, IdlePCs
  <2> QED
    BY <2>3, <2>4, Zenon DEF IInv, PlaceInv
<1>6. CASE StopAckAccepted
  <2>1. Silent
    BY <1>6, Zenon DEF StopAckAccepted, At, Goto, Hangup, Answered, Silent, CheckinPCs,
       ctlVars
  <2>2. PlaceInv'
    BY <1>6, <2>1, SilentKept, Zenon
       DEF StopAckAccepted, Goto, At, workVars, procVars, xfsVars, Kept, IInv, PlaceInv,
          HeldInv, BusyInv, ProcInv, PublishInv, Busy, Tracked, Live, XfsPCs, StreamPCs,
          FencePCs, HeldPCs, IdlePCs
  <2> QED
    BY <2>1, <2>2, SilentKept, Zenon DEF Kept, IInv, PlaceInv
<1>7. CASE StopAckFailed
  <2>1. Silent
    BY <1>7, Zenon DEF StopAckFailed, Goto, GiveUp, At, Hangup, Silent, CheckinPCs, ctlVars,
       envVars
  <2>2. PlaceInv'
    BY <1>7, <2>1, SilentKept, Zenon
       DEF StopAckFailed, Goto, At, GiveUp, envVars, workVars, procVars, xfsVars, Kept,
          IInv, PlaceInv, HeldInv, BusyInv, ProcInv, PublishInv, Busy, Tracked, Live,
          XfsPCs, StreamPCs, FencePCs, HeldPCs, IdlePCs
  <2> QED
    BY <2>1, <2>2, SilentKept, Zenon DEF Kept, IInv, PlaceInv
<1>8. CASE Cleaned
  <2>1. Silent
    BY <1>8, NotWaiting, Zenon DEF Cleaned, At, Goto, Silent, CheckinPCs, netVars, ctlVars,
       envVars, WaitPCs
  <2>2. PlaceInv'
    BY <1>8, <2>1, SilentKept, Zenon
       DEF Cleaned, Goto, At, envVars, workVars, procVars, xfsVars, Kept, IInv, PlaceInv,
          HeldInv, BusyInv, ProcInv, PublishInv, Busy, Tracked, Live, XfsPCs, StreamPCs,
          FencePCs, HeldPCs, IdlePCs
  <2> QED
    BY <2>1, <2>2, SilentKept, Zenon DEF Kept, IInv, PlaceInv
<1> QED
  BY <1>1, <1>2, <1>3, <1>4, <1>5, <1>6, <1>7, <1>8 DEF ExitStep

LEMMA EnvironmentInv ==
    ASSUME IInv, TypeOK', Environment
    PROVE  IInv'
<1>1. CASE ReporterCancel
  <2>1. UNCHANGED <<srvVars, netVars, nonce, inv, pc, stopped>>
    BY <1>1, Zenon DEF ReporterCancel, envVars, ctlVars
  <2>2. PlaceInv'
    BY <1>1, <2>1, AsideKept, Zenon
       DEF ReporterCancel, Kept, IInv, workVars, procVars, xfsVars, PlaceInv, HeldInv,
          BusyInv, ProcInv, PublishInv, Busy, Tracked, Live, XfsPCs
  <2> QED
    BY <2>1, <2>2, AsideKept, Zenon DEF Kept, IInv, PlaceInv
<1>2. CASE ProducerOpen
  <2>1. UNCHANGED <<srvVars, netVars, nonce, inv, pc, stopped>>
    BY <1>2, Zenon DEF ProducerOpen, envVars, ctlVars
  <2>2. PlaceInv'
    BY <1>2, <2>1, AsideKept, Zenon
       DEF ProducerOpen, Kept, IInv, xfsVars, PlaceInv, HeldInv, BusyInv, ProcInv,
          PublishInv, Busy, Tracked, Live, XfsPCs
  <2> QED
    BY <2>1, <2>2, AsideKept, Zenon DEF Kept, IInv, PlaceInv
<1>3. CASE ProducerExit
  <2>1. UNCHANGED <<srvVars, netVars, nonce, inv, pc, stopped>>
    BY <1>3, Zenon DEF ProducerExit, envVars, ctlVars
  <2>2. PlaceInv'
    BY <1>3, <2>1, AsideKept, Zenon
       DEF ProducerExit, Kept, IInv, xfsVars, PlaceInv, HeldInv, BusyInv, ProcInv,
          PublishInv, Busy, Tracked, Live, XfsPCs
  <2> QED
    BY <2>1, <2>2, AsideKept, Zenon DEF Kept, IInv, PlaceInv
<1>4. CASE WriterFail
  <2>1. UNCHANGED <<srvVars, netVars, nonce, inv, pc, stopped>>
    BY <1>4, Zenon DEF WriterFail, envVars, ctlVars
  <2>2. PlaceInv'
    BY <1>4, <2>1, AsideKept, Zenon
       DEF WriterFail, Kept, IInv, xfsVars, PlaceInv, HeldInv, BusyInv, ProcInv, PublishInv,
          Busy, Tracked, Live, XfsPCs
  <2> QED
    BY <2>1, <2>2, AsideKept, Zenon DEF Kept, IInv, PlaceInv
<1>5. CASE WriterEnd
  <2>1. UNCHANGED <<srvVars, netVars, nonce, inv, pc, stopped>>
    BY <1>5, Zenon DEF WriterEnd, envVars, ctlVars
  <2>2. PlaceInv'
    BY <1>5, <2>1, AsideKept, Zenon
       DEF WriterEnd, Kept, IInv, xfsVars, PlaceInv, HeldInv, BusyInv, ProcInv, PublishInv,
          Busy, Tracked, Live, XfsPCs
  <2> QED
    BY <2>1, <2>2, AsideKept, Zenon DEF Kept, IInv, PlaceInv
<1>6. CASE ProducerKilled
  <2>1. UNCHANGED <<srvVars, netVars, nonce, inv, pc, stopped>>
    BY <1>6, Zenon DEF ProducerKilled, envVars, ctlVars
  <2>2. PlaceInv'
    BY <1>6, <2>1, AsideKept, Zenon
       DEF ProducerKilled, Kept, IInv, xfsVars, PlaceInv, HeldInv, BusyInv, ProcInv,
          PublishInv, Busy, Tracked, Live, XfsPCs
  <2> QED
    BY <2>1, <2>2, AsideKept, Zenon DEF Kept, IInv, PlaceInv
<1>7. CASE WriterKilled
  <2>1. UNCHANGED <<srvVars, netVars, nonce, inv, pc, stopped>>
    BY <1>7, Zenon DEF WriterKilled, envVars, ctlVars
  <2>2. PlaceInv'
    BY <1>7, <2>1, AsideKept, Zenon
       DEF WriterKilled, Kept, IInv, xfsVars, PlaceInv, HeldInv, BusyInv, ProcInv,
          PublishInv, Busy, Tracked, Live, XfsPCs
  <2> QED
    BY <2>1, <2>2, AsideKept, Zenon DEF Kept, IInv, PlaceInv
<1>8. CASE PowerCycle
  <2>1. /\ pc' = "checkin" /\ nonce' = 0 /\ rpc' = NoRequest /\ inv' = inv + 1
        /\ UNCHANGED <<srvVars, net>>
    BY <1>8 DEF PowerCycle, Hangup
  <2>2. attempt \in Nat /\ attempt # 0 /\ inv \in Nat /\ cid \in Nat
    BY BoundAssumption DEF IInv, TypeOK, ServerTypeOK, ValueTypeOK, Attempt, Invocation
  <2>3. \A m \in net : m.id \in Nat
    BY BoundAssumption DEF IInv, TypeOK, ServerTypeOK, Request, Invocation
  <2>4. (Fresh => Fresh') /\ cid' < inv'
    BY <2>1, <2>2 DEF Fresh, IInv, NetInv, srvVars
  <2>5. ServerInv' /\ CheckinInv'
    BY <2>1, <2>4 DEF IInv, ServerInv, CheckinInv, Answered, srvVars
  <2>6. NetInv'
    BY <2>1, <2>2, <2>3, <2>4 DEF IInv, NetInv, srvVars
  <2>7. ~Busy' /\ prod' = "none" /\ writ' = "none" /\ ~xfsMnt'
    BY <1>8 DEF PowerCycle, Busy, Tracked
  <2>8. PlaceInv'
    BY <2>1, <2>7 DEF PlaceInv, HeldInv, BusyInv, ProcInv, PublishInv,
       Tracked, Live, XfsPCs, StreamPCs, FencePCs, HeldPCs, IdlePCs
  <2> QED
    BY <2>5, <2>6, <2>8 DEF IInv, PlaceInv
<1>9. CASE PoweredOff
  BY <1>9, InvStutter DEF PoweredOff
<1> QED
  BY <1>1, <1>2, <1>3, <1>4, <1>5, <1>6, <1>7, <1>8, <1>9 DEF Environment

\* What handling a request does: it may change the status, only a checkin binds
\* an id and takes the occupancy, only finish and a stopped error give it back.
LEMMA ServeEffect ==
    ASSUME NEW m \in net, Serve(m)
    PROVE  /\ net' \subseteq net /\ rpc' = rpc /\ attempt' = attempt
           /\ cid' = cid \/ (cid' = m.id /\ status = "queued")
           /\ holder' = holder \/ (holder' = attempt /\ status = "queued")
                               \/ (holder' = 0 /\ Releasing(m) /\ m.nonce = attempt)
           /\ status' = status \/ (status' = "running" /\ holder' = attempt)
                \/ (status' = "publishing" /\ status = "running" /\ UNCHANGED holder)
                \/ (status' \in {"finished", "attention"} /\ m.op \in {"finish", "error"} /\ m.nonce = attempt)
           /\ reply' = reply \/ rpc = m
<1>1. CASE ServeCheckin(m)
  BY <1>1, Zenon DEF ServeCheckin, Take, Answer, srvVars
<1>2. CASE ServePermit(m)
  BY <1>2, Zenon DEF ServePermit, Take, Answer, srvVars
<1>3. CASE ServeFence(m)
  BY <1>3, Zenon DEF ServeFence, Take, Answer
<1>4. CASE ServeFinish(m)
  BY <1>4, Zenon DEF ServeFinish, Take, Answer, srvVars, Releasing
<1>5. CASE ServeError(m)
  BY <1>5, Zenon DEF ServeError, Take, Answer, Releasing
<1> QED
  BY <1>1, <1>2, <1>3, <1>4, <1>5, Zenon DEF Serve

\* What the service may do to a client that holds the occupancy.
LEMMA ServiceInv ==
    ASSUME IInv, TypeOK', Service
    PROVE  IInv'
<1>1. /\ pc' = pc /\ nonce' = nonce /\ inv' = inv /\ stopped' = stopped
      /\ (Busy' <=> Busy) /\ (ProcInv <=> ProcInv')
  BY SMTT(30) DEF Service, Busy, ProcInv, ctlVars, envVars, workVars, procVars, xfsVars
<1>2. /\ attempt \in Nat /\ attempt # 0 /\ nonce \in Nat /\ inv \in Nat /\ cid \in Nat
      /\ \A m \in net : m.nonce \in Nat /\ m.id \in Nat
  BY BoundAssumption DEF IInv, TypeOK, ServerTypeOK, ValueTypeOK, Attempt, Nonce, Invocation, Request
<1>3. CASE Cancel
  <2>1. /\ UNCHANGED <<attempt, holder, cid, net, rpc, reply>> /\ status' = "cancelled"
        /\ status # "publishing"
    BY <1>3, Zenon DEF Cancel, netVars
  <2>2. (Held => Held') /\ (Quiet => Quiet') /\ (Fresh => Fresh')
    BY <1>1, <2>1, ZenonT(30) DEF Held, Quiet, Fresh
  <2>3. ServerInv' /\ NetInv' /\ CheckinInv' /\ PublishInv'
    BY <1>1, <2>1, <2>2 DEF IInv, ServerInv, NetInv, CheckinInv, PublishInv, Answered
  <2> QED
    BY <1>1, <2>2, <2>3, Zenon DEF IInv, HeldInv, BusyInv
<1>4. CASE Retry
  <2>1. /\ UNCHANGED <<holder, cid, net, rpc, reply>> /\ status' = "queued" /\ attempt' = attempt + 1
        /\ holder = 0 /\ status # "publishing"
    BY <1>4, Zenon DEF Retry, netVars
  <2>2. nonce <= attempt /\ \A m \in net : m.nonce <= attempt
    BY DEF IInv, NetInv
  <2>3. Fresh'
    BY <1>1, <1>2, <2>1, <2>2 DEF Fresh
  <2>4. ~Held
    BY <2>1, Zenon DEF Held
  <2>5. ~Busy /\ pc \notin HeldPCs
    BY <2>4, Zenon DEF IInv, BusyInv, HeldInv
  <2>6. ServerInv'
    BY <2>1, <2>3, Zenon DEF ServerInv
  <2>7. NetInv'
    BY <1>1, <1>2, <2>1, <2>2 DEF IInv, NetInv
  <2>8. ~(pc = "checkin_wait" /\ Answered("ok"))
    BY <1>2, <2>1 DEF IInv, CheckinInv
  <2>9. CheckinInv'
    BY <1>1, <2>1, <2>3, <2>8, Zenon DEF IInv, CheckinInv, Answered
  <2>10. PublishInv'
    BY <1>1, <2>5, Zenon DEF PublishInv, HeldPCs, FencePCs
  <2> QED
    BY <1>1, <2>5, <2>6, <2>7, <2>9, <2>10, Zenon DEF IInv, HeldInv, BusyInv
<1>5. ASSUME NEW m \in net, Serve(m) PROVE IInv'
  <2>1. net' \subseteq net /\ rpc' = rpc /\ attempt' = attempt
    BY <1>5, ServeEffect, Zenon
  <2>2. (Quiet => Quiet') /\ (Fresh => Fresh')
    BY <1>1, <2>1, Zenon DEF Quiet, Fresh
  <2>3. ASSUME Held PROVE Held'
    <3>1. ~Releasing(m) \/ m.nonce # attempt
      BY <2>3, <1>5, Zenon DEF Held, IInv, ServerInv
    <3>2. holder = attempt /\ status # "queued"
      BY <2>3, <1>2, Zenon DEF Held, IInv, ServerInv
    <3>3. holder' = holder
      BY <1>5, <3>1, <3>2, ServeEffect, Zenon
    <3> QED
      BY <1>1, <2>1, <2>3, <3>3, Zenon DEF Held
  <2>4. BusyInv' /\ HeldInv'
    BY <1>1, <2>2, <2>3, Zenon DEF IInv, BusyInv, HeldInv
  <2>5. ServerInv'
    <3>1. holder' \in {0, attempt'}
      BY <1>5, <2>1, ServeEffect, Zenon DEF IInv, ServerInv
    <3>2. status' \in {"running", "publishing"} => holder' = attempt'
      <4>1. CASE Releasing(m)
        BY <1>5, <4>1, Zenon DEF Releasing, Serve, ServeCheckin, ServePermit, ServeFence,
           ServeFinish, ServeError, srvVars, IInv, ServerInv
      <4>2. CASE ~Releasing(m)
        BY <1>5, <2>1, <4>2, ServeEffect, Zenon DEF IInv, ServerInv
      <4> QED
        BY <4>1, <4>2
    <3>3. status' = "queued" => status = "queued" /\ holder' = holder
      BY <1>5, Zenon DEF Serve, ServeCheckin, ServePermit, ServeFence, ServeFinish,
         ServeError, srvVars
    <3> QED
      BY <2>2, <3>1, <3>2, <3>3, Zenon DEF IInv, ServerInv
  <2>6. NetInv'
    <3>1. cid' <= inv
      BY <1>5, ServeEffect DEF IInv, NetInv
    <3> QED
      BY <1>1, <2>1, <3>1 DEF IInv, NetInv
  <2>7. CheckinInv'
    <3>1. pc \in {"checkin", "checkin_wait"} /\ cid' = inv => Fresh'
      BY <1>5, <2>2, ServeEffect, Zenon DEF IInv, CheckinInv, ServerInv
    <3>2. ASSUME pc = "checkin_wait", Answered("ok")'
          PROVE  reply'.att = attempt' /\ holder' = attempt' /\ Fresh'
      <4>1. rpc # NoRequest /\ reply'.kind = "ok"
        BY <2>1, <3>2, Zenon DEF Answered
      <4>2. CASE reply' = reply
        <5>1. reply.att = attempt /\ holder = attempt /\ Fresh
          BY <3>2, <4>1, <4>2, Zenon DEF IInv, CheckinInv, Answered
        <5>2. holder' = holder
          BY <1>5, <5>1, ServeEffect, Zenon DEF Fresh
        <5> QED
          BY <2>1, <2>2, <4>2, <5>1, <5>2, Zenon
      <4>3. CASE reply' # reply
        <5>1. rpc = m /\ m.op = "checkin" /\ m.id = inv
          BY <1>5, <3>2, <4>1, <4>3, ServeEffect, ZenonT(30) DEF IInv, NetInv
        <5>2. ServeCheckin(m)
          BY <1>5, <5>1, ZenonT(60) DEF Serve, ServePermit, ServeFence, ServeFinish, ServeError
        <5>3. reply'.att = attempt /\ status \in {"queued", "running"} /\ cid' = inv
              /\ holder' \in {attempt, holder} /\ (status = "running" => holder' = holder)
              /\ (status = "queued" => holder' = attempt)
          BY <4>1, <5>1, <5>2 DEF ServeCheckin, Answer, srvVars
        <5> QED
          BY <2>1, <3>1, <3>2, <5>3, Zenon DEF IInv, ServerInv
      <4> QED
        BY <4>2, <4>3
    <3>3. pc \in {"checkin", "checkin_wait"} => nonce = 0
      BY Zenon DEF IInv, CheckinInv
    <3> QED
      BY <1>1, <3>1, <3>2, <3>3, Zenon DEF CheckinInv
  <2>8. PublishInv'
    <3>1. ASSUME pc \in FencePCs, status = "publishing" PROVE status' = "publishing"
      <4>1. Held /\ Quiet /\ nonce = attempt
        BY <3>1, Zenon DEF IInv, HeldInv, HeldPCs, Held, ServerInv
      <4>2. m.op \in {"finish", "error"} => m.nonce # attempt
        BY <4>1, <1>5, Zenon DEF Quiet
      <4> QED
        BY <1>5, <3>1, <4>2, Zenon DEF Serve, ServeCheckin, ServePermit, ServeFence, ServeFinish,
           ServeError, srvVars
    <3>2. ASSUME pc = "fence_wait", Answered("ok")', ~Answered("ok") PROVE status' = "publishing"
      <4>1. rpc # NoRequest /\ reply'.kind = "ok" /\ reply' # reply
        BY <2>1, <3>2, Zenon DEF Answered
      <4>2. rpc = m /\ m.op = "fence"
        BY <1>5, <3>2, <4>1, ServeEffect, ZenonT(60) DEF IInv, NetInv
      <4>3. ServeFence(m)
        BY <1>5, <4>2, ZenonT(60) DEF Serve, ServeCheckin, ServePermit, ServeFinish, ServeError
      <4> QED
        BY <4>1, <4>2, <4>3 DEF ServeFence, Answer
    <3> QED
      BY <1>1, <3>1, <3>2, Zenon DEF IInv, PublishInv, FencePCs
  <2> QED
    BY <1>1, <2>4, <2>5, <2>6, <2>7, <2>8, Zenon DEF IInv
<1> QED
  BY <1>3, <1>4, <1>5, ZenonT(30) DEF Service

LEMMA InvInit == Init => IInv
<1> SUFFICES ASSUME Init PROVE IInv
  OBVIOUS
<1>1. TypeOK
  BY TypeInit
<1>2. ~Busy /\ Fresh /\ ~stopped
  BY DEF Init, ServerInit, Busy, Fresh, Tracked
<1> QED
  BY <1>1, <1>2 DEF Init, ServerInit, IInv, ServerInv, NetInv, CheckinInv, HeldInv, BusyInv,
     ProcInv, PublishInv, Answered, NoReply, XfsPCs, StreamPCs, FencePCs, HeldPCs, Tracked, Live

LEMMA InvStep == ASSUME IInv, [Next]_vars PROVE IInv'
<1>1. TypeOK'
  BY TypeStep DEF IInv
<1> QED
  BY <1>1, InvStutter, CheckinStepInv, PermitStepInv, ArtifactStepInv, PublishStepInv,
     QuiesceStepInv, FailureStepInv, ExitStepInv, EnvironmentInv, ServiceInv DEF Next, Controller

\* The inductive invariant: who holds the occupancy, which requests may still be
\* under way, and which processes and mounts can exist at each command.
THEOREM Inductive == Spec => []IInv
  BY InvInit, InvStep, PTL DEF Spec

\* The occupancy is never given back while a tracked worker lives or the XFS
\* mount exists, whatever is lost, repeated or delayed on the way.
THEOREM ReleaseIsSafe == Spec => []SafeRelease
<1>1. IInv => SafeRelease
  BY DEF IInv, BusyInv, Held, SafeRelease
<1> QED
  BY <1>1, Inductive, PTL

\* Only the two commands behind the fence touch the published tree, and the
\* service is still publishing this attempt when they do.
THEOREM MutationIsFenced == Spec => FenceBeforeMutation
<1>1. ASSUME IInv, [Next]_vars
      PROVE  [target' # target => status = "publishing" /\ attempt = nonce /\ holder = nonce]_vars
  <2>1. target' # target => pc \in {"remove", "move"}
    <3>1. CASE CheckinStep \/ PermitStep \/ QuiesceStep
      BY <3>1, Zenon DEF CheckinStep, Checkin, CheckinUncertain, CheckinAccepted, CheckinWithdrawn, Mount,
         PermitStep, AskPermit, PermitUncertain, PermitGranted, PermitDenied, Prepare,
         QuiesceStep, QuiesceKill, QuiesceWait, QuiesceDone, QuiesceFailed, workVars, nasVars
    <3>2. CASE ArtifactStep
      BY <3>2, Zenon DEF ArtifactStep, NextPart, XfsStep, XfsMount, XfsUmount, XfsUnset, XfsRmdir,
         XfsRmdirErr, XfsCheckErr, SpawnWriter, TrackWriter, SpawnProducer, TrackProducer,
         WaitProducer, WaitWriter, nasVars
    <3>3. CASE PublishStep
      BY <3>3, Zenon DEF PublishStep, Complete, Finalize, BeginPublish, PublishGranted, PublishRefused,
         RemoveTarget, MoveStaging, Finish, FinishAccepted, FinishRejected, FinishUncertain,
         At, workVars, nasVars
    <3>4. CASE FailureStep \/ Deadline \/ ExitStep
      BY <3>4, Zenon DEF FailureStep, ReapReporter, ReportError, ReportUncertain, ReportAccepted,
         ReportRejected, RetryTask, PollTerminal, Deadline, ExitStep, TermTrap, ExitTrap, Cleanup,
         StopAck, StopAckAccepted, StopAckFailed, Cleaned, workVars, nasVars
    <3>5. CASE Environment
      BY <3>5, Zenon DEF Environment, ReporterCancel, ProducerOpen, ProducerExit, WriterFail, WriterEnd,
         ProducerKilled, WriterKilled, PowerCycle, PoweredOff, vars, workVars, nasVars
    <3>6. CASE Service
      BY <3>6, Zenon DEF Service, workVars, nasVars
    <3>7. CASE UNCHANGED vars
      BY <3>7 DEF vars, workVars, nasVars
    <3> QED
      BY <1>1, <3>1, <3>2, <3>3, <3>4, <3>5, <3>6, <3>7 DEF Next, Controller
  <2>2. pc \in {"remove", "move"} => status = "publishing" /\ holder = nonce /\ nonce # 0
    BY <1>1 DEF IInv, PublishInv, HeldInv, Held, HeldPCs, FencePCs
  <2>3. holder \in {0, attempt}
    BY <1>1 DEF IInv, ServerInv
  <2> QED
    BY <2>1, <2>2, <2>3
<1> QED
  BY <1>1, Inductive, PTL DEF Spec, FenceBeforeMutation
=============================================================================
