----------------------- MODULE CaptureImageProofs --------------------------
(***************************************************************************)
(* What a capture reports and publishes, on top of the invariant of        *)
(* CaptureTaskProofs.                                                      *)
(***************************************************************************)
EXTENDS CaptureTaskProofs

-----------------------------------------------------------------------------
\* The way to the exit code.

QuiescePCs == {"q_kill", "q_wait", "q_xfs"}

\* The controller is on its way out, in the code after the last report.
Ending ==
    \/ pc \in {"exit", "cleanup", "ack", "ack_wait", "cleaned", "halt"}
    \/ pc \in QuiescePCs /\ ret # "report"

EndInv ==
    /\ pc \in PublishPCs => ~term /\ ~reporter
    /\ Ending /\ rc = 0 => status = "finished"
    /\ pc = "finish_wait" /\ Answered("ok") => status = "finished"

-----------------------------------------------------------------------------
\* The artifacts.

BeginPCs == {"checkin", "checkin_wait", "mount", "permit", "permit_wait", "prepare"}
PartPCs == XfsPCs \cup StreamPCs \cup {"spawn_writer", "track_writer"}

ImageInv ==
    /\ pc \in BeginPCs => todo = Parts
    /\ pc \in PartPCs => cur \in todo
    /\ pc \in FencePCs => todo = {}
    /\ pc \in PartPCs \cup FencePCs \cup {"part"} =>
            \A p \in Parts \ todo : HasImage(staging, nonce, p)
    /\ pc \in {"finish", "finish_wait"} => \A p \in Parts : HasImage(target, nonce, p)
    /\ \A m \in net : m.op = "finish" /\ m.nonce = attempt =>
            \A p \in Parts : HasImage(target, attempt, p)
    /\ FinishedImageComplete

LEMMA CheckinStepEnd ==
    ASSUME IInv, EndInv, CheckinStep
    PROVE  EndInv'
<1> USE DEF EndInv, Ending, QuiescePCs, PublishPCs, Answered, srvVars, netVars, ctlVars, sigVars
<1>1. CASE Checkin
  BY <1>1 DEF Checkin, At, Ask, Goto, Send, NoReply
<1>2. CASE CheckinUncertain
  BY <1>2 DEF CheckinUncertain, Goto, GiveUp, At, Hangup, NoReply
<1>3. CASE CheckinAccepted
  BY <1>3 DEF CheckinAccepted, At, Goto, Hangup, Answered, NoReply
<1>4. CASE CheckinWithdrawn
  BY <1>4 DEF CheckinWithdrawn, At, Goto, Hangup, Answered, NoReply
<1>5. CASE Mount
  BY <1>5 DEF Mount, At, Goto, HandleError
<1> QED
  BY <1>1, <1>2, <1>3, <1>4, <1>5 DEF CheckinStep

LEMMA PermitStepEnd ==
    ASSUME IInv, EndInv, PermitStep
    PROVE  EndInv'
<1> USE DEF EndInv, Ending, QuiescePCs, PublishPCs, Answered, srvVars, netVars, ctlVars, sigVars
<1>1. CASE AskPermit
  BY <1>1 DEF AskPermit, At, Ask, Goto, Send, NoReply
<1>2. CASE PermitUncertain
  BY <1>2 DEF PermitUncertain, Goto, GiveUp, At, Hangup, NoReply
<1>3. CASE PermitGranted
  BY <1>3 DEF PermitGranted, At, Goto, HandleError, Hangup, Answered, NoReply
<1>4. CASE PermitDenied
  BY <1>4 DEF PermitDenied, At, Goto, Hangup, Answered, NoReply
<1>5. CASE Prepare
  BY <1>5 DEF Prepare, At, Goto, HandleError
<1> QED
  BY <1>1, <1>2, <1>3, <1>4, <1>5 DEF PermitStep

LEMMA ArtifactStepEnd ==
    ASSUME IInv, EndInv, ArtifactStep
    PROVE  EndInv'
<1> USE DEF EndInv, Ending, QuiescePCs, PublishPCs, Answered, srvVars, netVars, ctlVars, sigVars
<1>1. CASE NextPart
  BY <1>1 DEF NextPart, At, Goto, HandleError
<1>2. CASE XfsMount
  BY <1>2 DEF XfsMount, At, Goto
<1>3. CASE XfsUmount
  BY <1>3 DEF XfsUmount, At, Goto
<1>4. CASE XfsUnset
  BY <1>4 DEF XfsUnset, At, Goto
<1>5. CASE XfsRmdir
  BY <1>5 DEF XfsRmdir, At, Goto, HandleError
<1>6. CASE XfsRmdirErr
  BY <1>6 DEF XfsRmdirErr, At, Goto
<1>7. CASE XfsCheckErr
  BY <1>7 DEF XfsCheckErr, At, HandleError
<1>8. CASE SpawnWriter
  BY <1>8 DEF SpawnWriter, At, Goto, HandleError
<1>9. CASE TrackWriter
  BY <1>9 DEF TrackWriter, At, Goto, Track
<1>10. CASE SpawnProducer
  BY <1>10 DEF SpawnProducer, At, Goto
<1>11. CASE TrackProducer
  BY <1>11 DEF TrackProducer, At, Goto, Track
<1>12. CASE WaitProducer
  BY <1>12 DEF WaitProducer, At, Goto
<1>13. CASE WaitWriter
  BY <1>13 DEF WaitWriter, At, Goto, HandleError, Finished
<1> QED
  BY <1>1, <1>2, <1>3, <1>4, <1>5, <1>6, <1>7, <1>8, <1>9, <1>10, <1>11, <1>12, <1>13 DEF ArtifactStep, XfsStep

LEMMA PublishStepEnd ==
    ASSUME IInv, EndInv, PublishStep
    PROVE  EndInv'
<1> USE DEF EndInv, Ending, QuiescePCs, PublishPCs, Answered, srvVars, netVars, ctlVars, sigVars
<1>1. CASE Complete
  BY <1>1 DEF Complete, At, Goto
<1>2. CASE Finalize
  BY <1>2 DEF Finalize, At, Goto, HandleError
<1>3. CASE BeginPublish
  BY <1>3 DEF BeginPublish, At, Ask, Goto, Send, NoReply
<1>4. CASE PublishGranted
  BY <1>4 DEF PublishGranted, At, Goto, HandleError, Hangup, Answered, NoReply
<1>5. CASE PublishRefused
  BY <1>5 DEF PublishRefused, HandleError, GiveUp, At, Hangup, NoReply
<1>6. CASE RemoveTarget
  BY <1>6 DEF RemoveTarget, At, Goto, HandleError
<1>7. CASE MoveStaging
  BY <1>7 DEF MoveStaging, At, Goto, HandleError
<1>8. CASE Finish
  BY <1>8 DEF Finish, At, Ask, Goto, Send, NoReply
<1>9. CASE FinishAccepted
  BY <1>9 DEF FinishAccepted, At, Goto, Hangup, Answered, NoReply
<1>10. CASE FinishRejected
  BY <1>10 DEF FinishRejected, At, HandleError, Hangup, Answered, NoReply
<1>11. CASE FinishUncertain
  BY <1>11 DEF FinishUncertain, Goto, HandleError, GiveUp, At, Hangup, NoReply
<1> QED
  BY <1>1, <1>2, <1>3, <1>4, <1>5, <1>6, <1>7, <1>8, <1>9, <1>10, <1>11 DEF PublishStep

LEMMA QuiesceStepEnd ==
    ASSUME IInv, EndInv, QuiesceStep
    PROVE  EndInv'
<1> USE DEF EndInv, Ending, QuiescePCs, PublishPCs, Answered, srvVars, netVars, ctlVars, sigVars
<1>1. CASE QuiesceKill
  BY <1>1 DEF QuiesceKill, At, Goto, Kill
<1>2. CASE QuiesceWait
  BY <1>2 DEF QuiesceWait, At, Goto
<1>3. CASE QuiesceDone
  BY <1>3 DEF QuiesceDone, At, AfterQuiesce
<1>4. CASE QuiesceFailed
  BY <1>4 DEF QuiesceFailed, At, AfterQuiesce
<1> QED
  BY <1>1, <1>2, <1>3, <1>4 DEF QuiesceStep

LEMMA FailureStepEnd ==
    ASSUME IInv, EndInv, FailureStep
    PROVE  EndInv'
<1> USE DEF EndInv, Ending, QuiescePCs, PublishPCs, Answered, srvVars, netVars, ctlVars, sigVars
<1>1. CASE ReapReporter
  BY <1>1 DEF ReapReporter, At, Goto
<1>2. CASE ReportError
  BY <1>2 DEF ReportError, At, Ask, Goto, Send, NoReply
<1>3. CASE ReportUncertain
  BY <1>3 DEF ReportUncertain, Goto, GiveUp, At, Hangup, NoReply
<1>4. CASE ReportAccepted
  BY <1>4 DEF ReportAccepted, At, Goto, Hangup, Answered, NoReply
<1>5. CASE ReportRejected
  BY <1>5 DEF ReportRejected, At, Goto, Hangup, Answered, NoReply
<1>6. CASE RetryTask
  BY <1>6 DEF RetryTask, At, Goto
<1>7. CASE PollTerminal
  BY <1>7 DEF PollTerminal, At, Goto
<1> QED
  BY <1>1, <1>2, <1>3, <1>4, <1>5, <1>6, <1>7 DEF FailureStep

LEMMA ExitStepEnd ==
    ASSUME IInv, EndInv, Deadline \/ ExitStep
    PROVE  EndInv'
<1> USE DEF EndInv, Ending, QuiescePCs, PublishPCs, Answered, srvVars, netVars, ctlVars, sigVars
<1>1. CASE Deadline
  BY <1>1 DEF Deadline, Goto, Hangup, NoReply
<1>2. CASE TermTrap
  BY <1>2 DEF TermTrap, Goto, Hangup, NoReply
<1>3. CASE ExitTrap
  BY <1>3 DEF ExitTrap, At, Goto
<1>4. CASE Cleanup
  BY <1>4 DEF Cleanup, At, Goto
<1>5. CASE StopAck
  BY <1>5 DEF StopAck, At, Ask, Goto, Send, NoReply
<1>6. CASE StopAckAccepted
  BY <1>6 DEF StopAckAccepted, At, Goto, Hangup, Answered, NoReply
<1>7. CASE StopAckFailed
  BY <1>7 DEF StopAckFailed, Goto, GiveUp, At, Hangup, NoReply
<1>8. CASE Cleaned
  BY <1>8 DEF Cleaned, At, Goto
<1> QED
  BY <1>1, <1>2, <1>3, <1>4, <1>5, <1>6, <1>7, <1>8 DEF ExitStep

LEMMA EnvironmentEnd ==
    ASSUME IInv, EndInv, Environment
    PROVE  EndInv'
<1> USE DEF EndInv, Ending, QuiescePCs, PublishPCs, Answered, srvVars, netVars, ctlVars, sigVars
<1>1. CASE ReporterCancel
  BY <1>1 DEF ReporterCancel
<1>2. CASE ProducerOpen
  BY <1>2 DEF ProducerOpen
<1>3. CASE ProducerExit
  BY <1>3 DEF ProducerExit
<1>4. CASE WriterFail
  BY <1>4 DEF WriterFail
<1>5. CASE WriterEnd
  BY <1>5 DEF WriterEnd
<1>6. CASE ProducerKilled
  BY <1>6 DEF ProducerKilled
<1>7. CASE WriterKilled
  BY <1>7 DEF WriterKilled
<1>8. CASE PowerCycle
  BY <1>8 DEF PowerCycle, Hangup, NoReply
<1>9. CASE PoweredOff
  BY <1>9 DEF PoweredOff, vars
<1> QED
  BY <1>1, <1>2, <1>3, <1>4, <1>5, <1>6, <1>7, <1>8, <1>9 DEF Environment

\* Behind the fence nothing but the controller's own next request can end the
\* attempt.
LEMMA AtFence ==
    ASSUME IInv, pc \in {"remove", "move"}
    PROVE  status = "publishing" /\ \A m \in net : m.op = "finish" => m.nonce # attempt
BY SMTT(30) DEF IInv, PublishInv, HeldInv, ServerInv, Held, Quiet, HeldPCs, FencePCs

LEMMA CheckinStepImage ==
    ASSUME IInv, ImageInv, CheckinStep
    PROVE  ImageInv'
<1> USE DEF ImageInv, FinishedImageComplete, BeginPCs, PartPCs, XfsPCs, StreamPCs, FencePCs,
            srvVars, netVars, envVars, loopVars, workVars, nasVars
<1>1. CASE Checkin
  BY <1>1 DEF Checkin, At, Ask, Goto, Send
<1>2. CASE CheckinUncertain
  BY <1>2 DEF CheckinUncertain, Goto, GiveUp, At, Hangup
<1>3. CASE CheckinAccepted
  BY <1>3 DEF CheckinAccepted, At, Goto, Hangup, Answered
<1>4. CASE CheckinWithdrawn
  BY <1>4 DEF CheckinWithdrawn, At, Goto, Hangup, Answered
<1>5. CASE Mount
  BY <1>5 DEF Mount, At, Goto, HandleError
<1> QED
  BY <1>1, <1>2, <1>3, <1>4, <1>5 DEF CheckinStep

LEMMA PermitStepImage ==
    ASSUME IInv, ImageInv, PermitStep
    PROVE  ImageInv'
<1> USE DEF ImageInv, FinishedImageComplete, BeginPCs, PartPCs, XfsPCs, StreamPCs, FencePCs,
            srvVars, netVars, envVars, loopVars, workVars, nasVars
<1>1. CASE AskPermit
  BY <1>1 DEF AskPermit, At, Ask, Goto, Send
<1>2. CASE PermitUncertain
  BY <1>2 DEF PermitUncertain, Goto, GiveUp, At, Hangup
<1>3. CASE PermitGranted
  BY <1>3 DEF PermitGranted, At, Goto, HandleError, Hangup, Answered
<1>4. CASE PermitDenied
  BY <1>4 DEF PermitDenied, At, Goto, Hangup, Answered
<1>5. CASE Prepare
  BY <1>5 DEF Prepare, At, Goto, HandleError
<1> QED
  BY <1>1, <1>2, <1>3, <1>4, <1>5 DEF PermitStep

LEMMA ArtifactStepImage ==
    ASSUME IInv, ImageInv, ArtifactStep
    PROVE  ImageInv'
<1> USE DEF ImageInv, FinishedImageComplete, BeginPCs, PartPCs, XfsPCs, StreamPCs, FencePCs,
            srvVars, netVars, envVars, loopVars, workVars, nasVars
<1>1. CASE NextPart
  BY <1>1 DEF NextPart, At, Goto, HandleError
<1>2. CASE XfsMount
  BY <1>2 DEF XfsMount, At, Goto
<1>3. CASE XfsUmount
  BY <1>3 DEF XfsUmount, At, Goto
<1>4. CASE XfsUnset
  BY <1>4 DEF XfsUnset, At, Goto
<1>5. CASE XfsRmdir
  BY <1>5 DEF XfsRmdir, At, Goto, HandleError
<1>6. CASE XfsRmdirErr
  BY <1>6 DEF XfsRmdirErr, At, Goto
<1>7. CASE XfsCheckErr
  BY <1>7 DEF XfsCheckErr, At, HandleError
<1>8. CASE SpawnWriter
  <2>1. pc = "spawn_writer" /\ cur \in todo
    BY <1>8 DEF SpawnWriter, At
  <2>2. ASSUME NEW p \in Parts \ todo PROVE HasImage(staging, nonce, p)'
    <3>1. HasImage(staging, nonce, p) /\ p # cur
      BY <2>1
    <3>2. nonce' = nonce /\ staging' \subseteq staging \cup {<<nonce, cur, "part">>} /\ staging \subseteq staging'
      BY <1>8 DEF SpawnWriter
    <3> QED
      BY <3>1, <3>2 DEF HasImage
  <2> QED
    BY <1>8, <2>1, <2>2 DEF SpawnWriter, At, Goto, HandleError
<1>9. CASE TrackWriter
  BY <1>9 DEF TrackWriter, At, Goto, Track
<1>10. CASE SpawnProducer
  BY <1>10 DEF SpawnProducer, At, Goto
<1>11. CASE TrackProducer
  BY <1>11 DEF TrackProducer, At, Goto, Track
<1>12. CASE WaitProducer
  BY <1>12 DEF WaitProducer, At, Goto
<1>13. CASE WaitWriter
  <2>1. pc = "wait_writer" /\ cur \in todo /\ todo' \subseteq todo
    BY <1>13 DEF WaitWriter, At
  <2>2. CASE pc' = "part"
    <3>1. /\ todo' = todo \ {cur} /\ nonce' = nonce
          /\ staging' = {f \in staging : f[2] # cur} \cup {<<nonce, cur, "image">>}
      BY <1>13, <2>2 DEF WaitWriter, HandleError, Finished
    <3>2. ASSUME NEW p \in Parts \ todo' PROVE HasImage(staging, nonce, p)'
      <4>1. CASE p = cur
        BY <3>1, <4>1 DEF HasImage
      <4>2. CASE p # cur
        <5>1. HasImage(staging, nonce, p)
          BY <2>1, <3>1, <4>2
        <5> QED
          BY <3>1, <4>2, <5>1 DEF HasImage
      <4> QED
        BY <4>1, <4>2
    <3> QED
      BY <1>13, <2>2, <3>2, SMTT(30) DEF WaitWriter
  <2>3. CASE pc' # "part"
    BY <1>13, <2>1, <2>3 DEF WaitWriter, Goto, HandleError
  <2> QED
    BY <2>2, <2>3
<1> QED
  BY <1>1, <1>2, <1>3, <1>4, <1>5, <1>6, <1>7, <1>8, <1>9, <1>10, <1>11, <1>12, <1>13, ZenonT(30) DEF ArtifactStep, XfsStep

LEMMA PublishStepImage ==
    ASSUME IInv, ImageInv, PublishStep
    PROVE  ImageInv'
<1> USE DEF ImageInv, FinishedImageComplete, BeginPCs, PartPCs, XfsPCs, StreamPCs, FencePCs,
            srvVars, netVars, envVars, loopVars, workVars, nasVars
<1>1. CASE Complete
  BY <1>1 DEF Complete, At, Goto
<1>2. CASE Finalize
  BY <1>2, SMTT(30) DEF Finalize, At, Goto, HandleError
<1>3. CASE BeginPublish
  BY <1>3 DEF BeginPublish, At, Ask, Goto, Send
<1>4. CASE PublishGranted
  BY <1>4 DEF PublishGranted, At, Goto, HandleError, Hangup, Answered
<1>5. CASE PublishRefused
  BY <1>5 DEF PublishRefused, HandleError, GiveUp, At, Hangup
<1>6. CASE RemoveTarget
  <2>1. status = "publishing" /\ \A m \in net : m.op = "finish" => m.nonce # attempt
    <3>1. pc = "remove"
      BY <1>6 DEF RemoveTarget, At
    <3> QED
      BY <3>1, AtFence
  <2> QED
    BY <1>6, <2>1 DEF RemoveTarget, At, Goto, HandleError
<1>7. CASE MoveStaging
  <2>1. pc = "move" /\ \A p \in Parts : HasImage(staging, nonce, p)
    BY <1>7 DEF MoveStaging, At
  <2>2. status = "publishing" /\ \A m \in net : m.op = "finish" => m.nonce # attempt
    BY <2>1, AtFence
  <2>3. pc' = "finish" => \A p \in Parts : HasImage(target, nonce, p)'
    BY <1>7, <2>1, SMTT(30) DEF MoveStaging, HandleError
  <2> QED
    BY <1>7, <2>2, <2>3 DEF MoveStaging, At, Goto, HandleError
<1>8. CASE Finish
  BY <1>8 DEF Finish, At, Ask, Goto, Send
<1>9. CASE FinishAccepted
  BY <1>9, SMTT(30) DEF FinishAccepted, At, Goto, Hangup, Answered
<1>10. CASE FinishRejected
  BY <1>10 DEF FinishRejected, At, HandleError, Hangup, Answered
<1>11. CASE FinishUncertain
  BY <1>11 DEF FinishUncertain, Goto, HandleError, GiveUp, At, Hangup
<1> QED
  BY <1>1, <1>2, <1>3, <1>4, <1>5, <1>6, <1>7, <1>8, <1>9, <1>10, <1>11, ZenonT(30) DEF PublishStep

LEMMA QuiesceStepImage ==
    ASSUME IInv, ImageInv, QuiesceStep
    PROVE  ImageInv'
<1> USE DEF ImageInv, FinishedImageComplete, BeginPCs, PartPCs, XfsPCs, StreamPCs, FencePCs,
            srvVars, netVars, envVars, loopVars, workVars, nasVars
<1>1. CASE QuiesceKill
  BY <1>1 DEF QuiesceKill, At, Goto, Kill
<1>2. CASE QuiesceWait
  BY <1>2 DEF QuiesceWait, At, Goto
<1>3. CASE QuiesceDone
  BY <1>3 DEF QuiesceDone, At, AfterQuiesce
<1>4. CASE QuiesceFailed
  BY <1>4 DEF QuiesceFailed, At, AfterQuiesce
<1> QED
  BY <1>1, <1>2, <1>3, <1>4, ZenonT(30) DEF QuiesceStep

LEMMA FailureStepImage ==
    ASSUME IInv, ImageInv, FailureStep
    PROVE  ImageInv'
<1> USE DEF ImageInv, FinishedImageComplete, BeginPCs, PartPCs, XfsPCs, StreamPCs, FencePCs,
            srvVars, netVars, envVars, loopVars, workVars, nasVars
<1>1. CASE ReapReporter
  BY <1>1 DEF ReapReporter, At, Goto
<1>2. CASE ReportError
  BY <1>2 DEF ReportError, At, Ask, Goto, Send
<1>3. CASE ReportUncertain
  BY <1>3 DEF ReportUncertain, Goto, GiveUp, At, Hangup
<1>4. CASE ReportAccepted
  BY <1>4 DEF ReportAccepted, At, Goto, Hangup, Answered
<1>5. CASE ReportRejected
  BY <1>5 DEF ReportRejected, At, Goto, Hangup, Answered
<1>6. CASE RetryTask
  BY <1>6 DEF RetryTask, At, Goto
<1>7. CASE PollTerminal
  BY <1>7 DEF PollTerminal, At, Goto
<1> QED
  BY <1>1, <1>2, <1>3, <1>4, <1>5, <1>6, <1>7, ZenonT(30) DEF FailureStep

LEMMA ExitStepImage ==
    ASSUME IInv, ImageInv, Deadline \/ ExitStep
    PROVE  ImageInv'
<1> USE DEF ImageInv, FinishedImageComplete, BeginPCs, PartPCs, XfsPCs, StreamPCs, FencePCs,
            srvVars, netVars, envVars, loopVars, workVars, nasVars
<1>1. CASE Deadline
  BY <1>1 DEF Deadline, Goto, Hangup
<1>2. CASE TermTrap
  BY <1>2 DEF TermTrap, Goto, Hangup
<1>3. CASE ExitTrap
  BY <1>3 DEF ExitTrap, At, Goto
<1>4. CASE Cleanup
  BY <1>4 DEF Cleanup, At, Goto
<1>5. CASE StopAck
  BY <1>5, SMTT(30) DEF StopAck, At, Ask, Goto, Send
<1>6. CASE StopAckAccepted
  BY <1>6, SMTT(30) DEF StopAckAccepted, At, Goto, Hangup, Answered
<1>7. CASE StopAckFailed
  BY <1>7, SMTT(30) DEF StopAckFailed, Goto, GiveUp, At, Hangup
<1>8. CASE Cleaned
  BY <1>8 DEF Cleaned, At, Goto
<1> QED
  BY <1>1, <1>2, <1>3, <1>4, <1>5, <1>6, <1>7, <1>8, ZenonT(30) DEF ExitStep

LEMMA EnvironmentImage ==
    ASSUME IInv, ImageInv, Environment
    PROVE  ImageInv'
<1> USE DEF ImageInv, FinishedImageComplete, BeginPCs, PartPCs, XfsPCs, StreamPCs, FencePCs,
            srvVars, netVars, envVars, loopVars, workVars, nasVars
<1>1. CASE ReporterCancel
  BY <1>1 DEF ReporterCancel
<1>2. CASE ProducerOpen
  BY <1>2 DEF ProducerOpen
<1>3. CASE ProducerExit
  BY <1>3, SMTT(30) DEF ProducerExit
<1>4. CASE WriterFail
  BY <1>4, SMTT(30) DEF WriterFail
<1>5. CASE WriterEnd
  BY <1>5 DEF WriterEnd
<1>6. CASE ProducerKilled
  BY <1>6, SMTT(30) DEF ProducerKilled
<1>7. CASE WriterKilled
  BY <1>7 DEF WriterKilled
<1>8. CASE PowerCycle
  BY <1>8 DEF PowerCycle, Hangup
<1>9. CASE PoweredOff
  BY <1>9 DEF PoweredOff, vars
<1> QED
  BY <1>1, <1>2, <1>3, <1>4, <1>5, <1>6, <1>7, <1>8, <1>9, ZenonT(30) DEF Environment

\* Where no SIGTERM is pending and no reporter runs, a step away from publishing
\* brings neither.
LEMMA QuietStep ==
    ASSUME [Next]_vars, pc \in PublishPCs, ~term, ~reporter
    PROVE  ~(term' \/ reporter')
<1> USE DEF PublishPCs, sigVars
<1>1. CASE CheckinStep
  BY <1>1 DEF CheckinStep, Checkin, At, CheckinUncertain, CheckinAccepted,
    CheckinWithdrawn, Mount
<1>2. CASE PermitStep
  BY <1>2 DEF PermitStep, AskPermit, At, PermitUncertain, PermitGranted, PermitDenied,
    Prepare
<1>3. CASE ArtifactStep
  BY <1>3, ZenonT(30) DEF ArtifactStep, XfsStep, NextPart, At, XfsMount, XfsUmount, XfsUnset,
    XfsRmdir, XfsRmdirErr, XfsCheckErr, SpawnWriter, TrackWriter, SpawnProducer,
    TrackProducer, WaitProducer, WaitWriter
<1>4. CASE PublishStep
  BY <1>4, ZenonT(30) DEF PublishStep, Complete, At, Finalize, BeginPublish, PublishGranted,
    PublishRefused, RemoveTarget, MoveStaging, Finish, FinishAccepted, FinishRejected,
    FinishUncertain
<1>5. CASE QuiesceStep
  BY <1>5, ZenonT(30) DEF QuiesceStep, QuiesceKill, At, QuiesceWait, QuiesceDone, QuiesceFailed
<1>6. CASE FailureStep
  BY <1>6 DEF FailureStep, ReapReporter, At, ReportError, ReportUncertain, ReportAccepted,
    ReportRejected, RetryTask, PollTerminal
<1>7. CASE Deadline \/ ExitStep
  BY <1>7, Zenon DEF Deadline, ExitStep, TermTrap, ExitTrap, At, Cleanup, StopAck,
    StopAckAccepted, StopAckFailed, Cleaned
<1>8. CASE Environment
  BY <1>8, ZenonT(30) DEF Environment, ReporterCancel, ProducerOpen, ProducerExit, WriterFail,
    WriterEnd, ProducerKilled, WriterKilled, PowerCycle, PoweredOff, vars
<1>9. CASE Service
  BY <1>9 DEF Service
<1>10. CASE UNCHANGED vars
  BY <1>10 DEF vars
<1> QED
  BY <1>1, <1>2, <1>3, <1>4, <1>5, <1>6, <1>7, <1>8, <1>9, <1>10 DEF Next, Controller

LEMMA ServiceEnd == ASSUME IInv, EndInv, Service PROVE EndInv'
<1> USE DEF EndInv
<1>1. UNCHANGED <<pc, ret, rc, term, reporter>>
  BY DEF Service, ctlVars, sigVars
<1>2. status = "finished" => status' = "finished"
  BY Zenon DEF Service, Serve, ServeCheckin, ServePermit, ServeFence, ServeFinish, ServeError,
     Cancel, Retry, srvVars
<1>3. ASSUME pc = "finish_wait", Answered("ok")', ~Answered("ok") PROVE status' = "finished"
  <2>1. CASE Cancel \/ Retry
    BY <1>3, <2>1 DEF Cancel, Retry, netVars, Answered
  <2>2. ASSUME NEW m \in net, Serve(m) PROVE status' = "finished"
    <3>1. rpc' = rpc /\ (reply' = reply \/ rpc = m)
      BY <2>2, ServeEffect, Zenon
    <3>2. rpc # NoRequest /\ reply'.kind = "ok" /\ reply' # reply
      BY <1>3, <3>1, Zenon DEF Answered
    <3>3. rpc = m /\ m.op = "finish"
      BY <1>3, <3>1, <3>2, Zenon DEF IInv, NetInv
    <3>4. ServeFinish(m)
      BY <2>2, <3>3, SMTT(30) DEF Serve, ServeCheckin, ServePermit, ServeFence, ServeError
    <3> QED
      BY <3>2, <3>3, <3>4, SMTT(30) DEF ServeFinish, Answer, srvVars
  <2> QED
    BY <2>1, <2>2, Zenon DEF Service
<1> QED
  BY <1>1, <1>2, <1>3 DEF Ending

LEMMA ServiceImage == ASSUME IInv, ImageInv, Service PROVE ImageInv'
<1> USE DEF ImageInv, FinishedImageComplete
<1>1. UNCHANGED <<pc, nonce, todo, cur, staging, target>>
  BY DEF Service, envVars, loopVars, workVars, nasVars
<1>2. CASE Cancel
  BY <1>1, <1>2 DEF Cancel, netVars
<1>3. CASE Retry
  <2>1. \A m \in net : m.nonce # attempt'
    BY <1>3 DEF Retry, IInv, NetInv, TypeOK, ServerTypeOK, Attempt, Nonce, Request
  <2> QED
    BY <1>1, <1>3, <2>1 DEF Retry, netVars
<1>4. ASSUME NEW m \in net, Serve(m) PROVE ImageInv'
  <2>1. net' \subseteq net /\ attempt' = attempt
    BY <1>4, ZenonT(30) DEF Serve, ServeCheckin, ServePermit, ServeFence, ServeFinish, ServeError, Take, srvVars
  <2>2. status' = "finished" => status = "finished" \/ (m.op = "finish" /\ m.nonce = attempt)
    BY <1>4 DEF Serve, ServeCheckin, ServePermit, ServeFence, ServeFinish, ServeError, srvVars
  <2> QED
    BY <1>1, <1>4, <2>1, <2>2
<1> QED
  BY <1>2, <1>3, <1>4, Zenon DEF Service

-----------------------------------------------------------------------------
LEMMA EndStep == ASSUME IInv, EndInv, [Next]_vars PROVE EndInv'
<1>1. CASE UNCHANGED vars
  BY <1>1, SMTT(30) DEF EndInv, Ending, Answered, vars, srvVars, netVars, ctlVars, sigVars
<1> QED
  BY <1>1, CheckinStepEnd, PermitStepEnd, ArtifactStepEnd, PublishStepEnd, QuiesceStepEnd, SMTT(30),
     FailureStepEnd, ExitStepEnd, EnvironmentEnd, ServiceEnd DEF Next, Controller

LEMMA ImageStep == ASSUME IInv, ImageInv, [Next]_vars PROVE ImageInv'
<1>1. CASE UNCHANGED vars
  BY <1>1 DEF ImageInv, FinishedImageComplete, vars, srvVars, netVars, envVars, loopVars,
     workVars, nasVars
<1> QED
  BY <1>1, CheckinStepImage, PermitStepImage, ArtifactStepImage, PublishStepImage,
     QuiesceStepImage, FailureStepImage, ExitStepImage, EnvironmentImage, ServiceImage
     DEF Next, Controller

\* Whoever halts with exit code 0 has been told that the task is finished, and
\* the service still says so.
THEOREM SuccessConfirmed == Spec => []SuccessIsConfirmed
<1>1. Init => EndInv
  BY DEF Init, EndInv, Ending, QuiescePCs, PublishPCs
<1>2. EndInv => SuccessIsConfirmed
  BY DEF EndInv, Ending, SuccessIsConfirmed
<1> QED
  BY <1>1, <1>2, EndStep, Inductive, PTL DEF Spec

\* No SIGTERM can be pending, or be sent, between the start of completion and
\* its end.
THEOREM PublishingIsUninterrupted == Spec => NoAbortWhilePublishing
<1>1. Init => EndInv
  BY DEF Init, EndInv, Ending, QuiescePCs, PublishPCs
<1>2. ASSUME EndInv, EndInv', [Next]_vars, pc \in PublishPCs PROVE ~(term' \/ reporter')
  <2>1. ~term /\ ~reporter
    BY <1>2 DEF EndInv
  <2> QED
    BY <1>2, <2>1, QuietStep
<1>3. EndInv /\ EndInv' /\ [Next]_vars => [(pc \in PublishPCs) => ~(term' \/ reporter')]_vars
  BY <1>2
<1> QED
  BY <1>1, <1>3, EndStep, Inductive, PTL DEF Spec, NoAbortWhilePublishing

\* A finished task has published one complete artifact of each partition, all of
\* them of the attempt that finished.
THEOREM FinishedIsComplete == Spec => []FinishedImageComplete
<1>1. Init => ImageInv
  BY DEF Init, ServerInit, ImageInv, FinishedImageComplete, PartPCs, XfsPCs, StreamPCs, FencePCs
<1>2. ImageInv => FinishedImageComplete
  BY DEF ImageInv
<1> QED
  BY <1>1, <1>2, ImageStep, Inductive, PTL DEF Spec
=============================================================================
