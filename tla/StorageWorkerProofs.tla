------------------------ MODULE StorageWorkerProofs ------------------------
(***************************************************************************)
(* The storage session of a deployment: the counters between two reads,    *)
(* the steps of a read, and the theorems, from StorageWorkerSteps.         *)
(***************************************************************************)
EXTENDS StorageWorkerSteps, FiniteSetTheorems

\* The fields of a message and of an answer.
LEMMA Fields ==
    /\ \A k, n, f : Msg(k, n, f).kind = k /\ Msg(k, n, f).seq = n /\ Msg(k, n, f).file = f
    /\ \A k, n : [kind |-> k, seq |-> n].kind = k /\ [kind |-> k, seq |-> n].seq = n
  BY DEF Msg

\* The files read are one more when a file that was to be read is done.
LEMMA OneMoreRead ==
    ASSUME NEW left \in SUBSET Files, NEW f \in left
    PROVE  Cardinality(Files \ (left \ {f})) = Cardinality(Files \ left) + 1
<1>1. IsFiniteSet(Files \ left)
    BY WorkerAssumption, FS_Difference, Zenon
<1>2. Files \ (left \ {f}) = (Files \ left) \cup {f} /\ f \notin Files \ left
    BY Zenon
<1> QED
    BY <1>1, <1>2, FS_AddElement, Zenon

\* The counters agree whenever the deployment rests.
LEMMA RestingStep == SessionInv /\ [Next]_vars => RestingInv'
<1> SUFFICES ASSUME SessionInv, [Next]_vars, Resting' PROVE RestingInv'
    BY Zenon DEF RestingInv
<1> USE DEF SessionInv
<1>1. CASE PreflightAccepted
  <2>1. ctl' = "work" /\ ctl = "preflight" /\ mounting /\ boot = 1 /\ resp["main"].seq = ctx
    BY <1>1, Zenon DEF PreflightAccepted, StopThen, StartDone, Goto, Resting
  <2>2. Opening /\ resp["main"].kind = "ok"
    BY <1>1, <2>1, Zenon DEF PreflightAccepted, Answered, Opening, Before
  <2>3. /\ svc.seq = 0 /\ svc.file = None /\ svc.boot = 1 /\ todo = Files /\ ctx = 0 /\ Silent
        /\ reader.pc = "off" /\ ~reader.mine /\ helper.last = 0
    BY <2>1, <2>2, Zenon DEF OpeningInv, Journal
  <2>4. result.kind = "none" /\ request.kind = "none" /\ helper.pc \in {"wait", "exit1"}
    BY <2>1, Zenon DEF PreflightInv, HelperInv
  <2>5. UNCHANGED <<todo, reader, helper, request, result, late, svc, call>>
    BY <1>1, <2>1, Zenon DEF PreflightAccepted, keepVars, ipcVars, Forget
  <2>6. seqFile' = 1 /\ resp'["exec"] = resp["exec"]
    BY <1>1, <2>1, <2>3 DEF PreflightAccepted, Forget, Shape, NetShape, Party
  <2>7. Cardinality(Files \ Files) = 0
    <3>1. Files \ Files = {}
      BY Zenon
    <3> QED
      BY <3>1, FS_EmptySet, Zenon
  <2> QED
    BY <2>3, <2>4, <2>5, <2>6, <2>7 DEF RestingInv, Counted, Silent, Journal
<1>2. CASE ReadEnds
  <2>1. reader.pc = "ok" /\ Reading /\ ctl = "exec" /\ todo' = todo \ {reader.file}
    BY <1>2, Zenon DEF ReadEnds, Goto, Resting, Reading, WhereInv
  <2>2. /\ helper.pc # "none" /\ Done /\ Counted /\ helper.pc \in {"wait", "exit0", "exit1"}
        /\ result.kind = "none" /\ reader.file \in todo
        /\ helper.last = 2 * Cardinality(Files \ todo) + 2
    BY <2>1, Zenon DEF ReadInv, Turns, Done, Agreed
  <2>3. /\ UNCHANGED <<seqFile, helper, request, result, call, resp, late, svc>>
        /\ reader'.pc = "off" /\ ~reader'.mine
    BY <1>2, Zenon DEF ReadEnds, ipcVars, netVars, NoReader
  <2>4. Cardinality(Files \ todo') = Cardinality(Files \ todo) + 1
    BY <2>1, <2>2, OneMoreRead, Zenon DEF WhereInv
  <2>5. Cardinality(Files \ todo) \in Nat
    BY WorkerAssumption, FS_Difference, FS_CardinalityType, Zenon
  <2>6. helper'.last = 2 * Cardinality(Files \ todo')
    BY <2>2, <2>3, <2>4, <2>5
  <2> QED
    BY <2>2, <2>3, <2>6, Zenon DEF RestingInv, Counted, Silent, Journal
<1>3. CASE Resting
  <2>1. /\ Counted /\ result.kind = "none" /\ reader.pc = "off" /\ ~reader.mine
        /\ helper.last = 2 * Cardinality(Files \ todo)
        /\ helper.pc \in {"wait", "exit0", "exit1"} /\ First /\ boot = 1
    BY <1>3, Zenon DEF RestingInv, First, WhereInv
  <2>2. call["main"].op = "none" /\ call["exec"].op = "none" /\ resp["exec"].kind = "none"
    BY <1>3, <2>1, Zenon DEF Counted, Silent, CallInv, Resting, Releases
  <2>3. ~Reboot /\ ~ReadEnds /\ ~Reader /\ ~Start /\ ~Ready /\ ~Stop /\ ~HelperReady
    <3>1. ~Reboot
      <4>1. SUFFICES ASSUME Reboot PROVE FALSE
        BY Zenon
      <4> QED
        BY <4>1, Zenon DEF Reboot, Resting
    <3>2. ~ReadEnds /\ ~Start /\ ~Ready
      BY <1>3, Zenon DEF ReadEnds, Start, Ready, Resting
    <3>3. ~Reader /\ ~HelperReady
      BY <2>1, Zenon DEF Reader, ReaderEvent, ReaderAcked, ReaderTimeout, HelperReady
    <3>4. ~Stop
      <4>1. SUFFICES ASSUME Stop PROVE FALSE
        BY Zenon
      <4> QED
        BY <1>3, <4>1, Zenon DEF Stop, Goto, Resting, BadStatus
    <3> QED
      BY <3>1, <3>2, <3>3, <3>4, Zenon
  <2>4. \A f \in Files : ~StartRead(f)
    BY Zenon DEF StartRead, Goto, Resting
  <2>5. ~HelperCommand /\ ~HelperIntentAcked /\ ~HelperStreamed /\ ~HelperResultAcked
    BY <2>1, Zenon
    DEF HelperCommand, HelperIntentAcked, HelperStreamed, HelperResultAcked, Counted
  <2>6. \A p \in Party : ~Serve(p) /\ ~Timeout(p)
    BY <2>2, Zenon DEF Serve, Timeout, Party
  <2>7. UNCHANGED <<todo, seqFile, reader, request, result>>
    BY <2>3, <2>4, <2>5, <1>3, Frame, Zenon
    DEF Reader, PreflightAccepted, Resting
  <2>8. helper'.last = helper.last /\ helper'.pc \in {"wait", "exit0", "exit1"}
    <3>1. CASE Killed
      BY <2>1, <3>1, KilledEffect, Zenon
    <3>2. CASE Helper \/ HelperFails
      BY <2>1, <2>3, <2>5, <3>2, Zenon
      DEF Helper, HelperFails, HelperKilled, HelperDies, HelperEOF,
         HelperGoes, Shape, ProcessShape, AnyHelper
    <3> QED
      BY <2>1, <2>3, <3>1, <3>2, Frame, Zenon DEF NotReady, PreflightRefused, Fail, Recover
  <2>9. UNCHANGED call
    BY <1>3, <2>3, <2>6, Frame, Zenon DEF SendRelease, SendOwned, Reader, Resting, Releases
  <2>10. resp'["exec"].kind = "none"
    BY <1>3, <2>2, <2>3, <2>6, Frame, Zenon DEF SendRelease, SendOwned, PreflightRefused,
       PreflightAccepted, Restart, ReleaseAnswered, RecoverOnce, Reader, Resting, Releases
  <2>11. \A c \in late' : c.op # "checkpoint"
    BY <2>1, <2>3, <2>6, Frame, Zenon DEF ServeLate, Counted, Silent
  <2>12. svc'.seq = svc.seq /\ svc'.file = svc.file /\ svc'.boot = svc.boot
    <3>1. CASE ServeLate
      <4>1. PICK c \in late : Handle(c)
        BY <3>1, Zenon DEF ServeLate
      <4>2. c.op = "preflight" /\ ~c.stopped /\ c.boot = 1
        BY <2>1, Zenon DEF Counted, Silent, FirstInv, CallInv
      <4> QED
        BY <2>1, <4>1, <4>2, HandleFirst, Zenon DEF Counted, Shape
    <3> QED
      BY <2>6, <3>1, Frame, Zenon
  <2> QED
    BY <2>1, <2>2, <2>7, <2>8, <2>9, <2>10, <2>11, <2>12, Zenon
    DEF RestingInv, Counted, Silent, Journal
<1>4. Resting \/ PreflightAccepted \/ ReadEnds
    BY Zenon
    DEF Next, Controller, Reader, Helper, Service, HelperKilled, HelperFails, HelperDies,
       Start, Ready, NotReady, PreflightRefused, Restart, Stop, StartRead, ClearMarker, Fail,
       Report, SendRelease, ReleaseAnswered, Recover, RecoverLoop, SendOwned, RecoverOnce,
       ReaderEvent, ReaderAcked, ReaderTimeout, HelperReady, HelperCommand, HelperIntentAcked,
       HelperStreamed, HelperResultAcked, HelperEOF, Serve, Timeout, ServeLate, RestoreFails,
       DeployFails, Tick, Reboot, vars, Goto, StopThen, BadStatus, StartFailed, Resting, CallInv
<1> QED
    BY <1>1, <1>2, <1>3, <1>4, Zenon

-----------------------------------------------------------------------------
(* One read. *)

\* Whatever leaves these alone leaves the phase of the read alone.
readVars == <<boot, todo, seqFile, request, result, call, resp, late, svc>>

LEMMA ReadFrame ==
    ASSUME ReadInv, Reading, UNCHANGED readVars, reader'.pc = reader.pc,
           reader'.mine = reader.mine, reader'.left = reader.left, reader'.file = reader.file,
           helper'.pc = helper.pc, helper'.seq = helper.seq, helper'.last = helper.last,
           helper'.file = helper.file, ctl' = "exec" => ctl = "exec"
    PROVE  ReadInv'
<1> USE DEF readVars
<1>1. Turns'
    BY Zenon DEF ReadInv, Turns, Silent, Done, Counted, Journal
<1>2. (helper.pc = "wait" => AtWait)'
    BY Zenon DEF ReadInv, AtWait, Between, Silent, Counted, Journal
<1>3. Journalled'
    BY DEF ReadInv, Journalled, Phase, Between, Silent, Journal
<1>4. Agreed'
    BY Zenon DEF ReadInv, Agreed, Done
<1> QED
    BY <1>1, <1>2, <1>3, <1>4, Zenon DEF ReadInv

\* A read begins, or the deployment ends before it.
LEMMA ReadEnter == ASSUME SessionInv, [Next]_vars, ~Reading, Reading' PROVE ReadInv'
<1> USE DEF SessionInv
<1>1. ASSUME NEW f \in Files, StartRead(f) PROVE ReadInv'
  <2>1. /\ Counted /\ result.kind = "none" /\ helper.last = 2 * Cardinality(Files \ todo)
        /\ helper.pc \in {"wait", "exit0", "exit1"} /\ boot = 1
    BY <1>1, Zenon DEF StartRead, RestingInv, Resting, WhereInv
  <2>2. /\ f \in todo /\ request' = Msg("cmd", seqFile, f) /\ ctl' = "exec"
        /\ UNCHANGED <<boot, todo, helper, seqFile, result, call, resp, late, svc>>
    BY <1>1, Zenon DEF StartRead, keepVars, netVars, Goto
  <2>3. reader'.pc = "event" /\ reader'.mine /\ reader'.file = f
    BY <1>1, Zenon DEF StartRead, NoReader
  <2>4. request'.kind = "cmd" /\ request'.seq = helper.last + 1
    BY <2>1, <2>2, Zenon DEF Msg, Counted
  <2>5. Turns'
    BY <2>1, <2>2, <2>3, Zenon DEF Turns, Done, Counted
  <2>6. AtWait'
    BY <2>1, <2>2, <2>3, <2>4, Zenon DEF AtWait, Between, Counted, Silent, Journal
  <2>7. Journalled'
    BY <2>1, <2>2, Zenon DEF Journalled
  <2>8. Agreed'
    <3>1. Cardinality(Files \ todo) \in Nat
      BY WorkerAssumption, FS_Difference, FS_CardinalityType, Zenon
    <3> QED
      BY <2>1, <2>2, <2>3, <3>1 DEF Agreed, Done
  <2> QED
    BY <2>5, <2>6, <2>7, <2>8, Zenon DEF ReadInv
<1>2. CASE DeployFails
  <2>1. /\ Counted /\ result.kind = "none" /\ reader.pc = "off" /\ ~reader.mine
        /\ helper.pc \in {"wait", "exit0", "exit1"}
    BY <1>2, Zenon DEF DeployFails, RestingInv, Resting
  <2>2. ctl' = "fail" /\ UNCHANGED <<readVars, reader, helper>>
    BY <1>2, Zenon DEF DeployFails, Goto, keepVars, ipcVars, netVars, readVars
  <2>3. Turns' /\ AtWait'
    BY <2>1, <2>2, Zenon
    DEF Turns, AtWait, Done, Counted, Silent, Journal, ReaderRuns, readVars
  <2> QED
    BY <2>1, <2>2, <2>3, Zenon DEF ReadInv, Journalled, Agreed
<1>3. CASE Start \/ Stop
  <2>1. ctl' = "fail" /\ UNCHANGED <<boot, reader, call, late, mounting>>
    BY <1>3, StartEffect, Zenon
    DEF Stop, Goto, Reading, Ending, BadStatus, StartFailed, keepVars, CallInv
  <2>2. mounting /\ helper'.pc = "none" /\ resp'["exec"] = resp["exec"] /\ Before
    <3>1. CASE Start
      BY <2>1, <3>1, StartEffect, Zenon DEF StartFailed, HelperInv, Before
    <3>2. CASE Stop
      BY <2>1, <3>2, Zenon DEF Stop, Goto, BadStatus, StartFailed, NoHelper, WhereInv, Before,
         Shape, NetShape, Party
    <3> QED
      BY <1>3, <3>1, <3>2, Zenon
  <2>3. Opening
    BY <2>1, <2>2, Zenon DEF Opening, Reading
  <2>4. Silent /\ reader.pc = "off" /\ ~reader.mine
    BY <2>3, Zenon DEF OpeningInv
  <2> QED
    BY <2>1, <2>2, <2>4, Zenon DEF ReadInv, Turns, Journalled, Agreed, Silent, ReaderRuns
<1> QED
  <2>1. (\E f \in Files : StartRead(f)) \/ DeployFails \/ Start \/ Stop
    BY Zenon
    DEF Next, Controller, Reader, Helper, Service, HelperKilled, HelperFails, HelperDies,
       Ready, NotReady, PreflightRefused, PreflightAccepted, Restart, ReadEnds, ClearMarker, Fail,
       Report, SendRelease, ReleaseAnswered, Recover, RecoverLoop, SendOwned, RecoverOnce,
       ReaderEvent, ReaderAcked, ReaderTimeout, HelperReady, HelperCommand, HelperIntentAcked,
       HelperStreamed, HelperResultAcked, HelperEOF, Serve, Timeout, ServeLate, RestoreFails,
       Tick, Reboot, vars, keepVars, Goto, StopThen, StartFailed, StartDone, Reading, Ending,
       WhereInv, Shape, NetShape
  <2> QED
    BY <1>1, <1>2, <1>3, <2>1, Zenon

\* A step of the subshell moves the read to its next phase.
LEMMA ReadByReader == ASSUME SessionInv, Reading, Reader PROVE ReadInv'
<1> USE DEF SessionInv
<1>0. Turns /\ (helper.pc = "wait" => AtWait) /\ Journalled /\ Agreed
    BY Zenon DEF ReadInv
<1>1. CASE ReaderEvent
  <2>1. reader.pc = "event" /\ reader.mine /\ Inbox = result /\ result.kind # "none" /\ boot = 1
    BY <1>0, <1>1, Zenon DEF ReaderEvent, Turns, ReaderRuns, Inbox, Reading
  <2>2. /\ UNCHANGED <<boot, ctl, then, todo, seqFile, helper, request, resp, late, svc>>
        /\ result'.kind = "none" /\ Reading'
    BY <1>1, <2>1, EventEffect, MessageShape, Zenon DEF Reading, Ending
  <2>3. CASE result.kind = "done"
    <3>1. Counted /\ helper.pc \in {"wait", "exit0", "exit1"}
      BY <1>0, <2>1, <2>3, Zenon DEF Turns, Done
    <3>2. /\ UNCHANGED call
          /\ ctl = "exec" => reader'.pc = "ok" /\ reader'.mine /\ reader'.file = reader.file
          /\ ctl # "exec" => reader'.pc = "off" /\ ~reader'.mine
      BY <1>1, <2>1, <2>3, EventEffect, EndsEffect, Zenon
    <3>3. Turns' /\ AtWait'
      BY <1>0, <2>2, <3>1, <3>2, Zenon
      DEF Turns, AtWait, Done, Counted, Silent, Journal, ReaderRuns
    <3>4. Agreed'
      BY <1>0, <2>2, <2>3, <3>2, Zenon DEF Agreed, Done
    <3> QED
      BY <2>2, <3>1, <3>3, <3>4, Zenon DEF ReadInv, Journalled
  <2>4. CASE result.kind # "done"
    <3>1. /\ reader'.pc = "checkpoint" /\ reader'.left = result /\ reader'.mine
          /\ reader'.file = reader.file /\ call'["exec"].op = "checkpoint"
          /\ call'["exec"].boot = 1 /\ call'["exec"].event = result
      BY <1>1, <2>1, <2>4, EventEffect, Zenon
    <3>2. helper.pc # "none" /\ helper.pc # "wait" /\ helper.pc # "stream"
      BY <1>0, <2>1, <2>4, Zenon DEF Turns, AtWait, Journalled
    <3>3. Turns'
      BY <1>0, <2>2, <3>1, <3>2, Zenon DEF Turns, Done
    <3>4. Journalled'
      <4>1. CASE helper.pc = "intent"
        <5>1. /\ result = Msg("intent", helper.seq, helper.file) /\ Between
              /\ Journal(helper.last, None) /\ request.kind = "none"
          BY <1>0, <2>1, <4>1, Zenon DEF Journalled, Phase, ReaderRuns
        <5> QED
          BY <1>0, <2>2, <3>1, <4>1, <5>1, Zenon
          DEF Journalled, Phase, Between, Silent, Journal
      <4>2. CASE helper.pc = "result"
        <5>1. /\ result = Msg("result", helper.seq + 1, helper.file) /\ Between
              /\ Journal(helper.seq, helper.file) /\ request.kind = "none"
          BY <1>0, <2>1, <4>2, Zenon DEF Journalled, Phase, ReaderRuns
        <5> QED
          BY <1>0, <2>2, <3>1, <4>2, <5>1, Zenon
          DEF Journalled, Phase, Between, Silent, Journal
      <4>3. CASE helper.pc \notin {"intent", "result"}
        BY <2>2, <3>2, <4>3, Zenon DEF Journalled
      <4> QED
        BY <4>1, <4>2, <4>3, Zenon
    <3>5. Agreed'
      BY <1>0, <2>1, <2>2, <2>4, <3>1, Zenon DEF Agreed, Done
    <3> QED
      BY <2>2, <3>2, <3>3, <3>4, <3>5, Zenon DEF ReadInv
  <2> QED
    BY <2>3, <2>4, Zenon
<1>2. CASE ReaderAcked
  <2>1. /\ reader.pc = "checkpoint" /\ reader.mine /\ resp["exec"].kind # "none"
        /\ ~Silent /\ ~Done /\ helper.pc \notin {"none", "wait", "stream"}
    <3>1. reader.pc = "checkpoint" /\ resp["exec"].kind # "none" /\ ~Silent /\ reader.mine
      BY <1>0, <1>2, AckedEffect, Zenon DEF Silent, Turns, ReaderRuns
    <3> QED
      BY <1>0, <3>1, Zenon DEF Turns, AtWait, Journalled, Between, Done, Counted
  <2>2. /\ UNCHANGED <<boot, ctl, then, todo, result, call, late, svc>> /\ Reading'
        /\ helper'.pc = helper.pc /\ helper'.seq = helper.seq
        /\ helper'.last = helper.last /\ helper'.file = helper.file
        /\ resp'["exec"] = NoAnswer
    BY <1>2, AckedEffect, Zenon DEF Reading, Ending
  <2>3. CASE resp["exec"].kind = "ok"
    <3>1. /\ reader'.pc = "event" /\ reader'.mine /\ reader'.file = reader.file
          /\ seqFile' = resp["exec"].seq + 1
          /\ request' = Msg("ack", reader.left.seq, reader.left.file)
      BY <1>2, <2>1, <2>3, AckedEffect, Zenon
    <3>2. ~Done'
      BY <2>1, <2>2, <3>1, Zenon DEF Done
    <3>3. Turns' /\ Agreed'
      BY <1>0, <2>1, <2>2, <3>1, <3>2, Zenon DEF Turns, Agreed
    <3>4. Journalled'
      <4>1. NoAnswer.kind = "none"
        BY Zenon DEF NoAnswer
      <4>2. CASE helper.pc = "intent"
        <5>1. /\ result.kind = "none" /\ reader.left = Msg("intent", helper.seq, helper.file)
              /\ Journal(helper.seq, helper.file)
              /\ resp["exec"] = [kind |-> "ok", seq |-> helper.seq]
              /\ call["exec"].op = "none" /\ \A c \in late : c.op # "checkpoint"
          BY <1>0, <2>1, <2>3, <4>2, Zenon DEF Journalled, Phase, Between
        <5>2. /\ reader.left.seq = helper.seq /\ reader.left.file = helper.file
              /\ resp["exec"].seq = helper.seq
          BY <5>1, Fields
        <5>3. request' = Msg("ack", helper.seq, helper.file)
          BY <3>1, <5>2, Zenon
        <5> QED
          BY <1>0, <2>2, <3>1, <4>1, <4>2, <5>1, <5>2, <5>3, Zenon
          DEF Journalled, Phase, Between, Silent, Journal
      <4>3. CASE helper.pc = "result"
        <5>1. /\ result.kind = "none" /\ reader.left = Msg("result", helper.seq + 1, helper.file)
              /\ Journal(helper.seq + 1, None)
              /\ resp["exec"] = [kind |-> "ok", seq |-> helper.seq + 1]
              /\ call["exec"].op = "none" /\ \A c \in late : c.op # "checkpoint"
          BY <1>0, <2>1, <2>3, <4>3, Zenon DEF Journalled, Phase, Between
        <5>2. /\ reader.left.seq = helper.seq + 1 /\ reader.left.file = helper.file
              /\ resp["exec"].seq = helper.seq + 1
          BY <5>1, Fields
        <5>3. request' = Msg("ack", helper.seq + 1, helper.file)
          BY <3>1, <5>2, Zenon
        <5> QED
          BY <1>0, <2>2, <3>1, <4>1, <4>3, <5>1, <5>2, <5>3, Zenon
          DEF Journalled, Phase, Between, Silent, Journal
      <4>4. CASE helper.pc \notin {"intent", "result"}
        BY <2>1, <2>2, <4>4, Zenon DEF Journalled
      <4> QED
        BY <4>2, <4>3, <4>4, Zenon
    <3> QED
      BY <2>1, <2>2, <3>3, <3>4, Zenon DEF ReadInv
  <2>4. CASE resp["exec"].kind # "ok"
    <3>1. /\ UNCHANGED <<seqFile, request>>
          /\ ctl = "exec" => reader'.pc = "fail" /\ reader'.mine /\ reader'.file = reader.file
          /\ ctl # "exec" => reader'.pc = "off" /\ ~reader'.mine
      BY <1>2, <2>1, <2>4, AckedEffect, EndsEffect, Zenon
    <3>2. ~Done'
      BY <2>1, <2>2, <3>1, Zenon DEF Done
    <3>3. Turns' /\ Agreed'
      BY <1>0, <2>1, <2>2, <3>1, <3>2, Zenon DEF Turns, Agreed, ReaderRuns
    <3>4. ASSUME NEW k, NEW STATE n, NEW STATE b, NEW STATE a, Phase(k, n, b, a)
          PROVE  result.kind = "none" /\ request.kind = "none" /\ call["exec"].op = "none"
      BY <2>1, <2>4, <3>4, Zenon DEF Phase, Between
    <3>5. Journalled'
      <4>1. NoAnswer.kind = "none"
        BY Zenon DEF NoAnswer
      <4>2. CASE helper.pc \in {"intent", "result"}
        <5>1. result.kind = "none" /\ request.kind = "none" /\ call["exec"].op = "none"
          BY <1>0, <3>4, <4>2, Zenon DEF Journalled
        <5> QED
          BY <1>0, <2>2, <3>1, <4>1, <4>2, <5>1, Zenon DEF Journalled, Phase
      <4>3. CASE helper.pc \notin {"intent", "result"}
        BY <2>1, <2>2, <4>3, Zenon DEF Journalled
      <4> QED
        BY <4>2, <4>3, Zenon
    <3> QED
      BY <2>1, <2>2, <3>3, <3>5, Zenon DEF ReadInv
  <2> QED
    BY <2>3, <2>4, Zenon
<1>3. CASE ReaderTimeout
  <2>1. reader.pc = "event" /\ reader.mine /\ result.kind = "none" /\ helper.pc # "none"
    BY <1>0, <1>3, TimeoutEffect, Zenon DEF Turns, ReaderRuns, Inbox
  <2>2. /\ UNCHANGED <<boot, ctl, then, todo, seqFile, request, result, call, resp, late, svc>>
        /\ helper'.pc = helper.pc /\ helper'.seq = helper.seq
        /\ helper'.last = helper.last /\ helper'.file = helper.file /\ Reading'
    BY <1>3, TimeoutEffect, Zenon DEF Reading, Ending
  <2>3. /\ ctl = "exec" => reader'.pc = "fail" /\ reader'.mine /\ reader'.file = reader.file
        /\ ctl # "exec" => reader'.pc = "off" /\ ~reader'.mine
    BY <1>3, <2>1, TimeoutEffect, EndsEffect, Zenon
  <2>4. ~Done /\ ~Done'
    BY <2>1, <2>2, <2>3, Zenon DEF Done
  <2>5. Turns' /\ Agreed'
    BY <1>0, <2>1, <2>2, <2>3, <2>4, Zenon DEF Turns, Agreed, ReaderRuns
  <2>6. (helper.pc = "wait" => AtWait)'
    BY <1>0, <2>1, <2>2, <2>3, Zenon DEF AtWait, Between, Silent, Counted, Journal
  <2>7. Journalled'
    BY <1>0, <2>1, <2>2, <2>3, Zenon DEF Journalled, Phase, Between, Silent, Journal, Msg
  <2> QED
    BY <2>2, <2>5, <2>6, <2>7, Zenon DEF ReadInv
<1> QED
    BY <1>1, <1>2, <1>3, Zenon DEF Reader

\* The helper moves on and keeps its numbers.
LEMMA GoesEffect == ASSUME Shape, NEW pc, HelperGoes(pc) PROVE
    /\ helper'.pc = pc /\ helper'.seq = helper.seq
    /\ helper'.last = helper.last /\ helper'.file = helper.file
    BY Zenon DEF Shape, ProcessShape, AnyHelper, HelperGoes

\* So does a step of the helper ...
LEMMA ReadByHelper == ASSUME SessionInv, Reading, Helper \/ HelperFails PROVE ReadInv'
<1> USE DEF SessionInv
<1>0. Turns /\ (helper.pc = "wait" => AtWait) /\ Journalled /\ Agreed /\ helper.last \in Nat
    BY Zenon DEF ReadInv, Shape, ProcessShape, AnyHelper
<1>1. CASE HelperDies \/ HelperEOF
  <2>1. /\ helper.pc # "none" /\ helper'.pc \in {"exit0", "exit1"}
        /\ helper'.seq = helper.seq /\ helper'.last = helper.last /\ helper'.file = helper.file
        /\ UNCHANGED <<ctl, readVars, reader>>
    BY <1>1, GoesEffect, Zenon
    DEF HelperDies, HelperEOF, HelperAlive, readVars, keepVars, ipcVars, netVars
  <2>2. Turns' /\ Agreed'
    BY <1>0, <2>1, Zenon DEF Turns, Agreed, Done, Counted, Silent, Journal, readVars
  <2> QED
    BY <2>1, <2>2, Zenon DEF ReadInv, Journalled
<1>2. ~HelperReady
    BY <1>0, Zenon DEF HelperReady, Turns
<1>3. CASE HelperCommand
  <2>1. /\ helper.pc = "wait" /\ request.kind = "cmd" /\ request.seq = helper.last + 1
        /\ result.kind = "none" /\ Between /\ Journal(helper.last, None)
    BY <1>0, <1>3, Zenon DEF HelperCommand, AtWait
  <2>2. /\ helper' = [helper EXCEPT !.pc = "intent", !.seq = request.seq, !.file = request.file]
        /\ result' = Msg("intent", request.seq, request.file) /\ request' = NoMsg
        /\ UNCHANGED <<boot, ctl, todo, seqFile, reader, call, resp, late, svc>>
    BY <1>3, <2>1, Zenon DEF HelperCommand, keepVars, netVars
  <2>3. /\ helper'.pc = "intent" /\ helper'.seq = request.seq /\ helper'.last = helper.last
        /\ helper'.file = request.file
    BY <2>2, Zenon DEF Shape, ProcessShape, AnyHelper
  <2>4. request'.kind = "none" /\ result'.kind = "intent"
    BY <2>2, MessageShape, Zenon DEF Msg
  <2>5. ~Done /\ ~Done'
    BY <2>1, <2>2, <2>4, Zenon DEF Done, Between
  <2>6. Turns' /\ Agreed'
    BY <1>0, <2>1, <2>2, <2>3, <2>5, Zenon DEF Turns, Agreed, Between
  <2>7. Journalled'
    BY <2>1, <2>2, <2>3, <2>4, Zenon DEF Journalled, Phase, Between, Silent, Journal
  <2> QED
    BY <2>3, <2>6, <2>7, Zenon DEF ReadInv
<1>4. CASE HelperIntentAcked
  <2>1. helper.pc = "intent" /\ request.kind # "none"
    BY <1>4, Zenon DEF HelperIntentAcked
  <2>2. /\ result.kind = "none" /\ Between /\ Journal(helper.seq, helper.file)
        /\ helper.seq = helper.last + 1 /\ ~Done
    BY <1>0, <2>1, Zenon DEF Journalled, Phase, Between, Done
  <2>3. /\ helper'.pc \in {"stream", "exit1"} /\ helper'.seq = helper.seq
        /\ helper'.last = helper.last /\ helper'.file = helper.file /\ request' = NoMsg
        /\ UNCHANGED <<boot, ctl, todo, seqFile, reader, result, call, resp, late, svc>>
    BY <1>4, GoesEffect, Zenon DEF HelperIntentAcked, keepVars, netVars
  <2>4. request'.kind = "none" /\ ~Done'
    BY <2>2, <2>3, MessageShape, Zenon DEF Done
  <2>5. Turns' /\ Agreed'
    BY <1>0, <2>1, <2>2, <2>3, <2>4, Zenon DEF Turns, Agreed
  <2>6. Journalled'
    BY <2>2, <2>3, <2>4, Zenon DEF Journalled, Between, Silent, Journal
  <2> QED
    BY <2>3, <2>5, <2>6, Zenon DEF ReadInv
<1>5. CASE HelperStreamed
  <2>1. /\ helper.pc = "stream" /\ request.kind = "none" /\ result.kind = "none" /\ Between
        /\ Journal(helper.seq, helper.file) /\ helper.seq = helper.last + 1 /\ ~Done
    BY <1>0, <1>5, Zenon DEF HelperStreamed, Journalled, Done, Between
  <2>2. /\ helper'.pc = "result" /\ helper'.seq = helper.seq
        /\ helper'.last = helper.last /\ helper'.file = helper.file
        /\ result' = Msg("result", helper.seq + 1, helper.file)
        /\ UNCHANGED <<boot, ctl, todo, seqFile, reader, request, call, resp, late, svc>>
    BY <1>5, GoesEffect, Zenon DEF HelperStreamed, keepVars, netVars
  <2>3. result'.kind = "result" /\ ~Done'
    BY <2>1, <2>2, Zenon DEF Msg, Done
  <2>4. Turns' /\ Agreed'
    BY <1>0, <2>1, <2>2, <2>3, Zenon DEF Turns, Agreed, Between
  <2>5. Journalled'
    BY <2>1, <2>2, Zenon DEF Journalled, Phase, Between, Silent, Journal
  <2> QED
    BY <2>2, <2>4, <2>5, Zenon DEF ReadInv
<1>6. CASE HelperResultAcked
  <2>1. helper.pc = "result" /\ request.kind # "none"
    BY <1>6, Zenon DEF HelperResultAcked
  <2>2. /\ result.kind = "none" /\ Between /\ Journal(helper.seq + 1, None)
        /\ request = Msg("ack", helper.seq + 1, helper.file) /\ seqFile = helper.seq + 1 + 1
        /\ helper.seq = helper.last + 1 /\ ~Done /\ svc.boot = 1
    BY <1>0, <2>1, Zenon DEF Journalled, Phase, Between, Done, Turns
  <2>3. /\ helper' = [helper EXCEPT !.pc = "wait", !.last = helper.seq + 1]
        /\ result' = Msg("done", helper.seq + 1, helper.file) /\ request' = NoMsg
        /\ UNCHANGED <<boot, ctl, todo, seqFile, reader, call, resp, late, svc>>
    BY <1>6, <2>2, Zenon DEF HelperResultAcked, keepVars, netVars
  <2>4. helper'.pc = "wait" /\ helper'.last = helper.seq + 1
    BY <2>3, Zenon DEF Shape, ProcessShape, AnyHelper
  <2>5. request'.kind = "none" /\ result'.kind = "done" /\ Done'
    BY <2>3, MessageShape, Zenon DEF Msg, Done
  <2>6. Counted'
    BY <2>2, <2>3, <2>4, <2>5, Zenon DEF Counted, Between, Silent, Journal
  <2>7. Turns' /\ AtWait'
    BY <1>0, <2>1, <2>2, <2>3, <2>4, <2>5, <2>6, Zenon DEF Turns, AtWait, Between
  <2>8. Agreed'
    <3>1. Cardinality(Files \ todo) \in Nat
      BY WorkerAssumption, FS_Difference, FS_CardinalityType, Zenon
    <3> QED
      BY <1>0, <2>2, <2>3, <2>4, <2>5, <3>1 DEF Agreed
  <2> QED
    BY <2>4, <2>7, <2>8, Zenon DEF ReadInv, Journalled
<1> QED
    BY <1>1, <1>2, <1>3, <1>4, <1>5, <1>6, Zenon DEF Helper, HelperFails, HelperKilled

\* ... and one of the service, on time or late.
LEMMA ReadByService == ASSUME SessionInv, Reading, Service PROVE ReadInv'
<1> USE DEF SessionInv
<1>0. /\ Turns /\ (helper.pc = "wait" => AtWait) /\ Journalled /\ Agreed
      /\ First /\ NetShape /\ call["main"].op = "none"
    BY Zenon DEF ReadInv, First, Shape, CallInv, Reading, Ending, Releases
<1>1. ASSUME NEW p \in Party, Serve(p) \/ Timeout(p)
      PROVE  /\ p = "exec" /\ ~Silent /\ ~Done /\ helper.pc \notin {"none", "wait", "stream"}
             /\ call["exec"].op = "checkpoint" /\ call["exec"] \in AnyCall
             /\ call'["exec"].op = "none"
             /\ UNCHANGED <<boot, ctl, todo, seqFile, reader, helper, request, result>>
  <2>1. p = "exec" /\ call["exec"].op = "checkpoint"
    BY <1>0, <1>1, Zenon DEF Serve, Timeout, CallInv, Party
  <2>2. ~Silent
    BY <2>1, Zenon DEF Silent
  <2>3. call'["exec"].op = "none" /\ call["exec"] \in AnyCall
    BY <1>0, <1>1, <2>1, CallShape, Zenon DEF Serve, Timeout, NetShape
  <2>4. helper.pc \notin {"none", "wait", "stream"} /\ ~Done
    BY <1>0, <2>2, Zenon DEF Turns, AtWait, Journalled, Between, Counted
  <2> QED
    BY <1>1, <2>1, <2>2, <2>3, <2>4, Zenon DEF Serve, Timeout, keepVars, ipcVars
<1>2. ASSUME NEW k, NEW STATE n, NEW STATE b, NEW STATE a, Phase(k, n, b, a),
             call["exec"].op = "checkpoint"
      PROVE  /\ result.kind = "none" /\ request.kind = "none"
             /\ reader.pc = "checkpoint" /\ reader.left = Msg(k, n, helper.file)
             /\ call["exec"].boot = 1 /\ call["exec"].event = reader.left
             /\ resp["exec"].kind = "none" /\ b
             /\ \A c \in late : c.op # "checkpoint"
    BY <1>2, Zenon DEF Phase, Between, Silent
<1>3. ASSUME NEW p \in Party, Timeout(p) PROVE ReadInv'
  <2>1. resp'["exec"].kind = "no" /\ UNCHANGED svc
    BY <1>0, <1>1, <1>3, Zenon DEF Timeout, NetShape
  <2>2. ~Done'
    BY <1>1, <1>3, Zenon DEF Done
  <2>3. Turns' /\ Agreed'
    BY <1>0, <1>1, <1>3, <2>1, <2>2 DEF Turns, Agreed, Done
  <2>4. Journalled'
    <3>1. CASE helper.pc \in {"intent", "result"}
      <4>1. result.kind = "none" /\ request.kind = "none" /\ reader.pc = "checkpoint"
        BY <1>0, <1>1, <1>2, <1>3, <3>1, Zenon DEF Journalled
      <4> QED
        BY <1>0, <1>1, <1>3, <2>1, <3>1, <4>1, Zenon DEF Journalled, Phase
    <3> QED
      BY <1>1, <1>3, <3>1, Zenon DEF Journalled
  <2> QED
    BY <1>1, <1>3, <2>3, <2>4, Zenon DEF ReadInv
<1>4. ASSUME NEW p \in Party, Serve(p) PROVE ReadInv'
  <2>1. /\ Handle(call["exec"]) /\ UNCHANGED late
        /\ resp'["exec"] = [kind |-> IF Accepts(call["exec"]) THEN "ok" ELSE "no",
                            seq |-> svc'.seq]
    BY <1>0, <1>1, <1>4, Zenon DEF Serve, NetShape
  <2>2. /\ svc'.boot = svc.boot
        /\ Accepts(call["exec"]) /\ call["exec"].event.kind = "intent" =>
               svc'.seq = call["exec"].event.seq /\ svc'.file = call["exec"].event.file
        /\ Accepts(call["exec"]) /\ call["exec"].event.kind # "intent" =>
               svc'.seq = call["exec"].event.seq /\ svc'.file = None
    BY <1>0, <1>1, <1>4, <2>1, HandleEvent, Zenon
  <2>3. ~Done'
    BY <1>1, <1>4, Zenon DEF Done
  <2>4. Turns' /\ Agreed'
    <3>1. Turns'
      BY <1>0, <1>1, <1>4, <2>2, <2>3, Zenon DEF Turns
    <3>2. UNCHANGED <<ctl, todo, reader, helper, result>>
      BY <1>1, <1>4, Zenon
    <3>3. Agreed'
      BY <1>0, <3>2, Zenon DEF Agreed, Done
    <3> QED
      BY <3>1, <3>3, Zenon
  <2>5. CASE ~Accepts(call["exec"])
    <3>1. resp'["exec"].kind = "no"
      <4>1. resp'["exec"] = [kind |-> "no", seq |-> svc'.seq]
        BY <2>1, <2>5, Zenon
      <4> QED
        BY <4>1, Fields
    <3>2. CASE helper.pc \in {"intent", "result"}
      <4>1. result.kind = "none" /\ request.kind = "none" /\ reader.pc = "checkpoint"
        BY <1>0, <1>1, <1>2, <1>4, <3>2, Zenon DEF Journalled
      <4>2. Journalled'
        BY <1>0, <1>1, <1>4, <3>1, <3>2, <4>1, Zenon DEF Journalled, Phase
      <4> QED
        BY <1>1, <1>4, <2>4, <4>2, Zenon DEF ReadInv
    <3>3. CASE helper.pc \notin {"intent", "result"}
      BY <1>1, <1>4, <2>4, <3>3, Zenon DEF ReadInv, Journalled
    <3> QED
      BY <3>2, <3>3, Zenon
  <2>6. CASE Accepts(call["exec"])
    <3>1. resp'["exec"] = [kind |-> "ok", seq |-> svc'.seq]
      BY <2>1, <2>6, Zenon
    <3>2. CASE helper.pc = "intent"
      <4>1. /\ result.kind = "none" /\ request.kind = "none" /\ reader.pc = "checkpoint"
            /\ reader.left = Msg("intent", helper.seq, helper.file)
            /\ call["exec"].event = reader.left /\ \A c \in late : c.op # "checkpoint"
        BY <1>0, <1>1, <1>2, <1>4, <3>2, Zenon DEF Journalled
      <4>2. svc'.seq = helper.seq /\ svc'.file = helper.file
        <5>1. /\ call["exec"].event.kind = "intent" /\ call["exec"].event.seq = helper.seq
              /\ call["exec"].event.file = helper.file
          BY <4>1, Fields
        <5> QED
          BY <2>2, <2>6, <5>1, Zenon
      <4>3. resp'["exec"] = [kind |-> "ok", seq |-> helper.seq]
        BY <3>1, <4>2, Zenon
      <4>4. Journalled'
        BY <1>0, <1>1, <1>4, <2>1, <3>2, <4>1, <4>2, <4>3, Zenon DEF Journalled, Phase, Journal
      <4> QED
        BY <1>1, <1>4, <2>4, <4>4, Zenon DEF ReadInv
    <3>3. CASE helper.pc = "result"
      <4>1. /\ result.kind = "none" /\ request.kind = "none" /\ reader.pc = "checkpoint"
            /\ reader.left = Msg("result", helper.seq + 1, helper.file)
            /\ call["exec"].event = reader.left /\ \A c \in late : c.op # "checkpoint"
        BY <1>0, <1>1, <1>2, <1>4, <3>3, Zenon DEF Journalled
      <4>2. svc'.seq = helper.seq + 1 /\ svc'.file = None
        <5>1. /\ call["exec"].event.kind = "result" /\ call["exec"].event.seq = helper.seq + 1
              /\ call["exec"].event.file = helper.file
          BY <4>1, Fields
        <5> QED
          BY <2>2, <2>6, <5>1, Zenon
      <4>3. resp'["exec"] = [kind |-> "ok", seq |-> helper.seq + 1]
        BY <3>1, <4>2, Zenon
      <4>4. Journalled'
        BY <1>0, <1>1, <1>4, <2>1, <3>3, <4>1, <4>2, <4>3, Zenon DEF Journalled, Phase, Journal
      <4> QED
        BY <1>1, <1>4, <2>4, <4>4, Zenon DEF ReadInv
    <3>4. CASE helper.pc \notin {"intent", "result"}
      BY <1>1, <1>4, <2>4, <3>4, Zenon DEF ReadInv, Journalled
    <3> QED
      BY <3>2, <3>3, <3>4, Zenon
  <2> QED
    BY <2>5, <2>6, Zenon
<1>5. CASE ServeLate
  <2>1. PICK c \in late : Handle(c) /\ late' = late \ {c}
    BY <1>5, Zenon DEF ServeLate
  <2>2. UNCHANGED <<boot, ctl, todo, seqFile, reader, helper, request, result, call, resp>>
    BY <1>5, Zenon DEF ServeLate, keepVars, ipcVars
  <2>3. c.op \in {"preflight", "checkpoint"} /\ (c.op = "preflight" => ~c.stopped /\ c.boot = 1)
    BY <1>0, Zenon DEF FirstInv, CallInv
  <2>4. CASE c.op = "preflight"
    <3>1. /\ svc'.seq = svc.seq /\ svc'.file = svc.file
          /\ svc.boot = 1 => svc'.boot = 1
      BY <1>0, <2>1, <2>3, <2>4, HandleFirst, Zenon DEF FirstInv
    <3>2. Turns'
      BY <1>0, <2>1, <2>2, <3>1, Zenon DEF Turns, Done, Counted, Silent, Journal
    <3>3. (helper.pc = "wait" => AtWait)'
      BY <1>0, <2>1, <2>2, <3>1, <3>2, Zenon
      DEF AtWait, Between, Turns, Counted, Silent, Journal
    <3>4. Journalled'
      BY <1>0, <2>1, <2>2, <3>1, Zenon DEF Journalled, Phase, Between, Silent, Journal
    <3>5. Agreed'
      BY <1>0, <2>2, Zenon DEF Agreed, Done
    <3> QED
      BY <3>2, <3>3, <3>4, <3>5, Zenon DEF ReadInv
  <2>5. CASE c.op = "checkpoint"
    <3>1. ~Silent /\ svc'.boot = svc.boot
      BY <1>0, <2>1, <2>5, HandleEvent, Zenon DEF Silent
    <3>2. helper.pc \notin {"none", "wait", "stream"} /\ ~Done
      BY <1>0, <3>1, Zenon DEF Turns, AtWait, Journalled, Between, Counted
    <3>3. Turns' /\ Agreed'
      BY <1>0, <2>2, <3>1, <3>2, Zenon DEF Turns, Agreed, Done
    <3>4. ASSUME NEW k, NEW STATE n, NEW STATE b, NEW STATE a, Phase(k, n, b, a)
          PROVE  /\ result.kind = "none" /\ request.kind = "none" /\ call["exec"].op = "none"
                 /\ \/ reader.pc = "checkpoint" /\ resp["exec"].kind = "no"
                    \/ reader.pc \in {"off", "fail"} /\ resp["exec"].kind = "none"
      BY <2>1, <2>5, <3>4, Zenon DEF Phase, Between, Silent
    <3>5. Journalled'
      <4>1. CASE helper.pc \in {"intent", "result"}
        <5>1. /\ result.kind = "none" /\ request.kind = "none" /\ call["exec"].op = "none"
              /\ \/ reader.pc = "checkpoint" /\ resp["exec"].kind = "no"
                 \/ reader.pc \in {"off", "fail"} /\ resp["exec"].kind = "none"
          BY <1>0, <3>4, <4>1, Zenon DEF Journalled
        <5> QED
          BY <1>0, <2>2, <4>1, <5>1, Zenon DEF Journalled, Phase
      <4> QED
        BY <2>2, <3>2, <4>1, Zenon DEF Journalled
    <3> QED
      BY <2>2, <3>2, <3>3, <3>5, Zenon DEF ReadInv
  <2> QED
    BY <2>3, <2>4, <2>5, Zenon
<1> QED
    BY <1>3, <1>4, <1>5, Zenon DEF Service

\* Every step of a read, and its end.
LEMMA ReadStep == SessionInv /\ [Next]_vars => ReadInv'
<1> SUFFICES ASSUME SessionInv, [Next]_vars, Reading' PROVE ReadInv'
    BY Zenon DEF ReadInv
<1>1. CASE ~Reading
    BY <1>1, ReadEnter, Zenon
<1>2. CASE Reading
  <2>1. CASE Reader
    BY <1>2, <2>1, ReadByReader, Zenon
  <2>2. CASE Helper \/ HelperFails
    BY <1>2, <2>2, ReadByHelper, Zenon
  <2>3. CASE Service
    BY <1>2, <2>3, ReadByService, Zenon
  <2>4. CASE ReadEnds
    <3>1. /\ reader.pc \in {"ok", "fail"} /\ ctl' = "fail"
          /\ UNCHANGED <<boot, seqFile, helper, request, result, call, resp, late, svc>>
          /\ reader'.pc = "off" /\ ~reader'.mine /\ reader.pc = "fail"
      BY <2>4, Zenon DEF ReadEnds, Goto, Reading, Ending, NoReader, ipcVars, netVars
    <3>2. Turns /\ (helper.pc = "wait" => AtWait) /\ Journalled
      BY <1>2, Zenon DEF SessionInv, ReadInv
    <3>3. Turns'
      BY <3>1, <3>2, Zenon DEF Turns, Done, Counted, Silent, Journal, ReaderRuns
    <3>4. (helper.pc = "wait" => AtWait)'
      BY <3>1, <3>2, Zenon DEF AtWait, Between, Counted, Silent, Journal
    <3>5. Journalled'
      BY <3>1, <3>2, Zenon DEF Journalled, Phase, Between, Silent, Journal
    <3> QED
      BY <3>1, <3>3, <3>4, <3>5, Zenon DEF ReadInv, Agreed
  <2>5. CASE Fail
    <3>1. /\ UNCHANGED <<readVars, reader>> /\ ctl' = "stop"
          /\ helper'.pc = helper.pc /\ helper'.seq = helper.seq
          /\ helper'.last = helper.last /\ helper'.file = helper.file
      BY <2>5, KilledEffect, Zenon
      DEF Fail, StopThen, SessionInv, readVars, keepVars, ipcVars, netVars
    <3> QED
      BY <1>2, <3>1, ReadFrame, Zenon DEF SessionInv
  <2>6. CASE RestoreFails \/ Tick \/ UNCHANGED vars
    <3>1. UNCHANGED <<readVars, reader, helper>> /\ (ctl' = "exec" => ctl = "exec")
      BY <2>6, Zenon DEF RestoreFails, Tick, Goto, vars, readVars, keepVars, ipcVars, netVars
    <3> QED
      BY <1>2, <3>1, ReadFrame, Zenon DEF SessionInv
  <2>7. ~Stop /\ ~Reboot
    BY <1>2, Zenon
    DEF Stop, Reboot, Goto, BadStatus, Reading, Ending, SessionInv, Shape, NetShape
  <2> QED
    BY <1>2, <2>1, <2>2, <2>3, <2>4, <2>5, <2>6, <2>7, ZenonT(30)
    DEF Next, Controller, Start, Ready, NotReady, PreflightRefused, PreflightAccepted, Restart,
       StartRead, ClearMarker, Report, SendRelease, ReleaseAnswered, Recover, RecoverLoop,
       SendOwned, RecoverOnce, DeployFails, Goto, StopThen, Reading, Ending, Releases
<1> QED
    BY <1>1, <1>2, Zenon

-----------------------------------------------------------------------------
(* The theorems. *)

LEMMA SessionStart == Init => SessionInv
<1> SUFFICES ASSUME Init PROVE SessionInv
    BY Zenon
<1>1. Shape
    BY ShapeInit, Zenon
<1>2. /\ boot = 1 /\ ctl = "start" /\ then = "loop" /\ mounting /\ todo = Files /\ ctx = 0
      /\ ~reconcile /\ late = {} /\ svc.seq = 0 /\ svc.file = None /\ svc.boot = 0
      /\ ~svc.released /\ reader.pc = "off" /\ ~reader.mine /\ helper.pc = "none"
      /\ request.kind = "none" /\ result.kind = "none"
    BY MessageShape, Zenon DEF Init, NoReader, NoHelper
<1>3. \A p \in Party : call[p].op = "none" /\ resp[p].kind = "none" /\ resp[p].seq = 0
    BY CallShape, Zenon DEF Init, NoAnswer
<1>4. CallInv /\ HelperInv /\ ReleaseInv
    BY <1>2, <1>3, Zenon
    DEF CallInv, HelperInv, ReleaseInv, Party, Ctl, Releases, Terminal, Joined
<1>5. WhereInv /\ FirstInv /\ OpeningInv
    BY <1>2, <1>3 DEF WhereInv, FirstInv, OpeningInv, Resting, Ending, Silent, Journal, Party
<1>6. IdleInv /\ PreflightInv /\ RestingInv /\ ReadInv
    BY <1>2, Zenon DEF IdleInv, PreflightInv, RestingInv, ReadInv, Resting, Reading, Ending
<1> QED
    BY <1>1, <1>4, <1>5, <1>6, Zenon DEF SessionInv

\* The invariant holds of every session.
THEOREM SessionInductive == Spec => []SessionInv
<1>1. SessionInv /\ [Next]_vars => SessionInv'
    BY ProcessStep, NetStep, CallsStep, HelpersStep, ReleaseStep, WhereStep, FirstStep,
       OpeningStep, IdleStep, RestingStep, ReadStep, Zenon DEF SessionInv, Shape
<1> QED
    BY <1>1, SessionStart, PTL DEF Spec

LEMMA StreamingIsHeld == SessionInv => HoldWhileStreaming
    BY Zenon DEF SessionInv, HoldWhileStreaming, IdleInv, ReadInv, Journalled, Turns, Journal,
       FirstInv, First, Reading

\* While the helper streams a file the journal of the service has exactly this
\* read open, for this boot, and the storage is not released.
THEOREM HeldWhileStreaming == Spec => []HoldWhileStreaming
<1> QED
    BY SessionInductive, StreamingIsHeld, PTL

\* workerStopped=true of a release, and previousWorkerStopped=true of a
\* reconciling preflight, are true when they are said and while they are under way.
THEOREM StoppedWordIsTrue == Spec => []StoppedIsTrue
<1>1. SessionInv => StoppedIsTrue
    BY Zenon DEF SessionInv, StoppedIsTrue, CallInv, HelperInv, Joined
<1> QED
    BY <1>1, SessionInductive, PTL

\* Between two reads the next-sequence file, last_sequence of the helper and the
\* journal agree, whatever the number of files.
THEOREM CountersAgree == Spec => []SequenceAgreement
<1>1. SessionInv => SequenceAgreement
    BY Zenon DEF SessionInv, SequenceAgreement, RestingInv, Resting, Counted, Journal
<1> QED
    BY <1>1, SessionInductive, PTL

\* A session that ends well has released the storage.
THEOREM DoneIsReleased == Spec => []DoneMeansReleased
<1>1. SessionInv => DoneMeansReleased
    BY Zenon DEF SessionInv, DoneMeansReleased, ReleaseInv
<1> QED
    BY <1>1, SessionInductive, PTL

\* A deployment implements the holding of storage: it streams only while the
\* service holds the storage for it, and the storage is given back only when
\* nothing streams.
THEOREM SessionImplementsHold == Spec => ImplementsHold
<1>1. Init => Hold!HoldInit
    BY DEF Init, Hold!HoldInit, NoHelper, Streaming
<1>2. ASSUME SessionInv, HoldWhileStreaming', [Next]_vars
      PROVE  [Hold!HoldNext]_(Hold!holdVars)
  <2>1. svc.released => svc'.released
    <3>1. ASSUME NEW p \in Party, Serve(p) PROVE svc.released => svc'.released
      BY <1>2, <3>1, HandleShape, Zenon DEF Serve, SessionInv, Shape, CallInv, NetShape, Party
    <3>2. CASE ServeLate
      BY <1>2, <3>2, HandleShape, Zenon DEF ServeLate, SessionInv, Shape, CallInv, NetShape
    <3> QED
      BY <1>2, <3>1, <3>2, Frame, Zenon
  <2>2. svc.released \in BOOLEAN /\ svc'.released \in BOOLEAN
    BY <1>2, NetStep, Zenon DEF SessionInv, Shape, NetShape, AnyJournal
  <2>3. CASE svc'.released = svc.released
    <3>1. helper.pc = "stream" => ~svc.released
      BY <1>2, StreamingIsHeld, Zenon DEF HoldWhileStreaming
    <3>2. helper'.pc = "stream" => ~svc'.released
      BY <1>2, Zenon DEF HoldWhileStreaming
    <3> QED
      BY <2>3, <3>1, <3>2, Zenon
      DEF Hold!HoldNext, Hold!Begin, Hold!End, Hold!holdVars, Streaming
  <2>4. CASE ~svc.released /\ svc'.released
    <3>1. UNCHANGED helper
      BY <1>2, <2>4, Frame, Zenon DEF ServeLate, Serve
    <3>2. helper'.pc # "stream"
      BY <1>2, <2>4, Zenon DEF HoldWhileStreaming
    <3>3. Streaming = 0 /\ Streaming' = 0
      BY <3>1, <3>2, Zenon DEF Streaming
    <3> QED
      BY <2>4, <3>3, SMTT(30) DEF Hold!HoldNext, Hold!GiveBack
  <2> QED
    BY <2>1, <2>2, <2>3, <2>4, Zenon
<1> QED
    BY <1>1, <1>2, SessionInductive, HeldWhileStreaming, PTL
    DEF Spec, ImplementsHold, Hold!HoldSpec

-----------------------------------------------------------------------------
(* Types: how far the numbers go.  A session records two events for each file, *)
(* and the next-sequence file goes one further.                                *)

\* The numbers of events, and those of the commands: a result follows each.
Recorded == 0 .. 2 * Cardinality(Files)
Commanded == {0} \cup {n \in Recorded : n + 1 \in Recorded}

Kinds == {"none", "cmd", "ack", "info", "intent", "result", "done"}
ReaderPcs == ReaderRuns \cup {"off", "ok", "fail"}
HelperPcs == HelperAlive \cup {"none", "exit0", "exit1"}
Operations == {"none", "preflight", "release", "checkpoint"}
Boots == 0 .. MaxBoot

Numbered == [kind : Kinds, seq : Recorded, file : File]
Requested == {m \in Numbered : m.kind = "cmd" => m.seq \in Commanded}
NumberedCall == [op : Operations, boot : Boots, stopped : BOOLEAN, event : Numbered]
NumberedAnswer == [kind : {"none", "no", "ok"}, seq : Recorded]
NumberedJournal == [seq : Recorded, file : File, boot : Boots, released : BOOLEAN]
NumberedReader == [pc : ReaderPcs, file : File, mine : BOOLEAN, left : Numbered]
NumberedHelper == [pc : HelperPcs, last : Recorded, seq : Commanded, file : File,
                   term : BOOLEAN]

ProcessLimits ==
    /\ reader \in NumberedReader /\ helper \in NumberedHelper
    /\ request \in Requested /\ result \in Numbered

NetLimits ==
    /\ boot \in 1 .. MaxBoot /\ ctx \in Recorded /\ seqFile \in SeqNo
    /\ ready \in BOOLEAN /\ deadline \in {"off", "running", "passed"}
    /\ call \in [Party -> NumberedCall] /\ resp \in [Party -> NumberedAnswer]
    /\ late \subseteq NumberedCall
    /\ svc \in NumberedJournal

Limits == ProcessLimits /\ NetLimits

\* A number that is recorded, and the one after it.
LEMMA Numbers ==
    /\ 0 \in Recorded /\ 0 \in Commanded /\ 0 \in SeqNo /\ 0 \in Boots
    /\ Recorded \subseteq SeqNo /\ Commanded \subseteq Recorded
    /\ \A n \in Recorded : n + 1 \in SeqNo
    /\ \A n \in Commanded : n # 0 => n + 1 \in Recorded
<1>1. Cardinality(Files) \in Nat
    BY WorkerAssumption, FS_CardinalityType, Zenon
<1>2. 0 \in Recorded /\ 0 \in SeqNo /\ Recorded \subseteq SeqNo
    BY <1>1 DEF Recorded, SeqNo, MaxSeq
<1>3. \A n \in Recorded : n + 1 \in SeqNo
    BY <1>1 DEF Recorded, SeqNo, MaxSeq
<1>4. 0 \in Boots
    BY WorkerAssumption DEF Boots
<1> QED
    BY <1>2, <1>3, <1>4, Zenon DEF Commanded

\* The next command of a deployment that has a file to read is within them.
LEMMA NextCommand ==
    ASSUME SessionInv, ctl = "work", NEW f \in todo PROVE seqFile \in Commanded
<1>1. Resting /\ todo \in SUBSET Files
    BY Zenon DEF Resting, SessionInv, WhereInv
<1>2. seqFile = 2 * Cardinality(Files \ todo) + 1
    BY <1>1, Zenon DEF SessionInv, RestingInv, Counted
<1>3. Cardinality(Files \ (todo \ {f})) = Cardinality(Files \ todo) + 1
    BY <1>1, OneMoreRead, Zenon
<1>4. Cardinality(Files \ (todo \ {f})) <= Cardinality(Files)
  <2>1. Files \ (todo \ {f}) \in SUBSET Files
    BY Zenon
  <2> QED
    BY <2>1, WorkerAssumption, FS_Subset, Zenon
<1>5. Cardinality(Files) \in Nat /\ Cardinality(Files \ todo) \in Nat
    BY WorkerAssumption, FS_CardinalityType, FS_Difference, Zenon
<1>6. seqFile \in Recorded /\ seqFile + 1 \in Recorded
    BY <1>2, <1>3, <1>4, <1>5 DEF Recorded
<1> QED
    BY <1>6, Zenon DEF Commanded

\* Messages within the limits.
LEMMA NumberedMessage ==
    /\ NoMsg \in Numbered /\ NoMsg \in Requested
    /\ [NoMsg EXCEPT !.kind = "info"] \in Numbered
    /\ \A m \in Numbered : m.seq \in Recorded /\ m.file \in File
    /\ \A k \in Kinds, n \in Recorded, f \in File : Msg(k, n, f) \in Numbered
<1>1. "none" \in Kinds /\ "info" \in Kinds /\ None \in File
    BY Zenon DEF Kinds, File
<1>2. \A k \in Kinds, n \in Recorded, f \in File : Msg(k, n, f) \in Numbered
    BY Zenon DEF Numbered, Msg
<1>3. NoMsg \in Numbered
    BY <1>1, <1>2, Numbers, Zenon DEF NoMsg
<1>4. NoMsg \in Requested
    BY <1>3, MessageShape, Zenon DEF Requested
<1>5. [NoMsg EXCEPT !.kind = "info"] \in Numbered
    BY <1>1, <1>3, Zenon DEF Numbered
<1>6. \A m \in Numbered : m.seq \in Recorded /\ m.file \in File
    BY Zenon DEF Numbered
<1> QED
    BY <1>2, <1>3, <1>4, <1>5, <1>6, Zenon

\* Calls and answers within the limits.
LEMMA NumberedCalls ==
    /\ NoCall \in NumberedCall
    /\ boot \in Boots => Preflight \in NumberedCall
    /\ \A b \in BOOLEAN : boot \in Boots => [Preflight EXCEPT !.stopped = b] \in NumberedCall
    /\ boot \in Boots => [NoCall EXCEPT !.op = "release", !.boot = boot] \in NumberedCall
    /\ \A m \in Numbered : boot \in Boots =>
           [NoCall EXCEPT !.op = "checkpoint", !.boot = boot, !.event = m] \in NumberedCall
    /\ NoAnswer \in NumberedAnswer
    /\ \A n \in Recorded, k \in {"ok", "no"} : [kind |-> k, seq |-> n] \in NumberedAnswer
<1>1. /\ "none" \in Operations /\ "preflight" \in Operations /\ "release" \in Operations
      /\ "checkpoint" \in Operations
    BY Zenon DEF Operations
<1>2. NoCall \in NumberedCall
    BY <1>1, Numbers, NumberedMessage, Zenon DEF NumberedCall, NoCall
<1>3. boot \in Boots => Preflight \in NumberedCall
    BY <1>1, <1>2, Zenon DEF NumberedCall, Preflight
<1>4. \A b \in BOOLEAN : boot \in Boots => [Preflight EXCEPT !.stopped = b] \in NumberedCall
    BY <1>3, Zenon DEF NumberedCall
<1>5. boot \in Boots => [NoCall EXCEPT !.op = "release", !.boot = boot] \in NumberedCall
    BY <1>1, <1>2, Zenon DEF NumberedCall
<1>6. \A m \in Numbered : boot \in Boots =>
          [NoCall EXCEPT !.op = "checkpoint", !.boot = boot, !.event = m] \in NumberedCall
    BY <1>1, <1>2, Zenon DEF NumberedCall
<1>7. /\ NoAnswer \in NumberedAnswer
      /\ \A n \in Recorded, k \in {"ok", "no"} : [kind |-> k, seq |-> n] \in NumberedAnswer
    BY Numbers, Zenon DEF NumberedAnswer, NoAnswer
<1> QED
    BY <1>2, <1>3, <1>4, <1>5, <1>6, <1>7, Zenon

\* Every edit of the subshell keeps it within the limits.
LEMMA NumberedReaders == ASSUME NEW r \in NumberedReader PROVE
    /\ NoReader \in NumberedReader
    /\ \A w \in ReaderPcs : [r EXCEPT !.pc = w] \in NumberedReader
    /\ \A w \in ReaderPcs, m \in Numbered : [r EXCEPT !.pc = w, !.left = m] \in NumberedReader
    /\ \A m \in Numbered : [r EXCEPT !.mine = FALSE, !.left = m] \in NumberedReader
    /\ \A f \in File :
           [NoReader EXCEPT !.pc = "event", !.file = f, !.mine = TRUE] \in NumberedReader
<1>1. NoReader \in NumberedReader
    BY NumberedMessage, Zenon DEF NumberedReader, NoReader, File, ReaderPcs
<1>2. ASSUME NEW w \in ReaderPcs PROVE [r EXCEPT !.pc = w] \in NumberedReader
    BY Zenon DEF NumberedReader
<1>3. ASSUME NEW w \in ReaderPcs, NEW m \in Numbered
      PROVE  [r EXCEPT !.pc = w, !.left = m] \in NumberedReader
    BY Zenon DEF NumberedReader
<1>4. ASSUME NEW m \in Numbered PROVE [r EXCEPT !.mine = FALSE, !.left = m] \in NumberedReader
    BY Zenon DEF NumberedReader
<1>5. ASSUME NEW f \in File
      PROVE  [NoReader EXCEPT !.pc = "event", !.file = f, !.mine = TRUE] \in NumberedReader
  <2>1. "event" \in ReaderPcs
    BY Zenon DEF ReaderPcs, ReaderRuns
  <2> QED
    BY <1>1, <2>1, Zenon DEF NumberedReader
<1> QED
    BY <1>1, <1>2, <1>3, <1>4, <1>5, Zenon

\* Every edit of the helper keeps it within the limits.
LEMMA NumberedHelpers == ASSUME NEW h \in NumberedHelper PROVE
    /\ NoHelper \in NumberedHelper
    /\ \A w \in HelperPcs : [h EXCEPT !.pc = w] \in NumberedHelper
    /\ [h EXCEPT !.term = TRUE] \in NumberedHelper
    /\ \A n \in Recorded : [NoHelper EXCEPT !.pc = "boot", !.last = n] \in NumberedHelper
    /\ \A n \in Commanded, f \in File :
           [h EXCEPT !.pc = "intent", !.seq = n, !.file = f] \in NumberedHelper
    /\ \A n \in Recorded : [h EXCEPT !.pc = "wait", !.last = n] \in NumberedHelper
<1>1. \A w \in {"boot", "intent", "wait", "none"} : w \in HelperPcs
    BY Zenon DEF HelperPcs, HelperAlive
<1>2. NoHelper \in NumberedHelper
    BY <1>1, Numbers, Zenon DEF NumberedHelper, NoHelper, File
<1>3. ASSUME NEW w \in HelperPcs PROVE [h EXCEPT !.pc = w] \in NumberedHelper
    BY Zenon DEF NumberedHelper
<1>4. [h EXCEPT !.term = TRUE] \in NumberedHelper
    BY Zenon DEF NumberedHelper
<1>5. ASSUME NEW n \in Recorded
      PROVE  [NoHelper EXCEPT !.pc = "boot", !.last = n] \in NumberedHelper
    BY <1>1, <1>2, Zenon DEF NumberedHelper
<1>6. ASSUME NEW n \in Commanded, NEW f \in File
      PROVE  [h EXCEPT !.pc = "intent", !.seq = n, !.file = f] \in NumberedHelper
    BY <1>1, Zenon DEF NumberedHelper
<1>7. ASSUME NEW n \in Recorded PROVE [h EXCEPT !.pc = "wait", !.last = n] \in NumberedHelper
    BY <1>1, Zenon DEF NumberedHelper
<1> QED
    BY <1>2, <1>3, <1>4, <1>5, <1>6, <1>7, Zenon

\* The command a helper takes, and the result of one that streams, are within
\* the limits: only a read has either.
LEMMA TakenCommand == ASSUME SessionInv, Limits PROVE
    /\ HelperCommand => request.seq \in Commanded
    /\ helper.pc \in {"stream", "result"} => helper.seq + 1 \in Recorded
<1> USE DEF SessionInv
<1>1. ASSUME HelperCommand PROVE request.seq \in Commanded
  <2>1. helper.pc = "wait" /\ request.kind # "none"
    BY <1>1, Zenon DEF HelperCommand
  <2>2. Reading
    BY <2>1, Zenon DEF IdleInv
  <2>3. request.kind = "cmd"
    BY <2>1, <2>2, Zenon DEF ReadInv, AtWait
  <2> QED
    BY <2>3, Zenon DEF Limits, ProcessLimits, Requested
<1>2. ASSUME helper.pc \in {"stream", "result"} PROVE helper.seq + 1 \in Recorded
  <2>1. Reading
    BY <1>2, Zenon DEF IdleInv
  <2>2. helper.seq = helper.last + 1
    BY <1>2, <2>1, Zenon DEF ReadInv, Journalled
  <2>3. helper.last \in Nat /\ helper.seq \in Commanded
    BY Zenon DEF Shape, ProcessShape, AnyHelper, Limits, ProcessLimits, NumberedHelper
  <2>4. helper.seq # 0
    BY <2>2, <2>3
  <2> QED
    BY <2>3, <2>4, Numbers, Zenon
<1> QED
    BY <1>1, <1>2, Zenon

\* The subshell stays within the limits.
LEMMA ReaderLimits == ASSUME Limits, [Next]_vars PROVE reader' \in NumberedReader
<1> USE DEF Limits, ProcessLimits
<1>0. \A w \in {"ok", "fail", "checkpoint", "event"} : w \in ReaderPcs
    BY Zenon DEF ReaderPcs, ReaderRuns
<1>1. CASE UNCHANGED reader
    BY <1>1, Zenon
<1>2. CASE Start \/ ReadEnds \/ Reboot
    BY <1>2, NumberedReaders, Zenon DEF Start, ReadEnds, Reboot
<1>3. ASSUME NEW f \in Files, StartRead(f) PROVE reader' \in NumberedReader
    BY <1>3, NumberedReaders, Zenon DEF StartRead, File
<1>4. Inbox \in Numbered
    BY Zenon DEF Inbox, NumberedReader
<1>5. \A v \in {"ok", "fail"} : ReaderEnds(v) \in NumberedReader
    BY <1>0, NumberedReaders, Zenon DEF ReaderEnds
<1>6. CASE ReaderEvent
  <2>1. reader' = ReaderEnds("ok") \/ reader' = [reader EXCEPT !.pc = "checkpoint", !.left = Inbox]
    BY <1>6, Zenon DEF ReaderEvent
  <2>2. [reader EXCEPT !.pc = "checkpoint", !.left = Inbox] \in NumberedReader
    BY <1>0, <1>4, NumberedReaders, Zenon
  <2> QED
    BY <1>5, <2>1, <2>2, Zenon
<1>7. CASE ReaderAcked
  <2>1. \/ reader' = ReaderEnds("fail")
        \/ reader' = [reader EXCEPT !.pc = "event", !.left = NoMsg]
    BY <1>7, Zenon DEF ReaderAcked, ReaderBreaks
  <2>2. [reader EXCEPT !.pc = "event", !.left = NoMsg] \in NumberedReader
    BY <1>0, NumberedReaders, NumberedMessage, Zenon
  <2> QED
    BY <1>5, <2>1, <2>2, Zenon
<1>8. CASE ReaderTimeout
    BY <1>5, <1>8, Zenon DEF ReaderTimeout, ReaderBreaks
<1> QED
    BY <1>1, <1>2, <1>3, <1>6, <1>7, <1>8, Frame, Zenon DEF Reader

\* So does the helper.
LEMMA HelperLimits == ASSUME SessionInv, Limits, [Next]_vars PROVE helper' \in NumberedHelper
<1> USE DEF Limits, ProcessLimits
<1>1. \A w \in {"wait", "stream", "result", "exit0", "exit1"} : w \in HelperPcs
    BY Zenon DEF HelperPcs, HelperAlive
<1>2. CASE UNCHANGED helper
    BY <1>2, Zenon
<1>3. ASSUME Killed PROVE helper' \in NumberedHelper
    BY <1>3, NumberedHelpers, Zenon DEF Killed
<1>4. CASE Start \/ Stop \/ Reboot
    BY <1>4, NumberedHelpers, Zenon DEF Start, Stop, Reboot, NetLimits
<1>5. CASE NotReady \/ PreflightRefused \/ Fail \/ Recover
    BY <1>3, <1>5, Zenon DEF NotReady, PreflightRefused, Fail, Recover
<1>6. CASE Reader
    BY <1>2, <1>3, <1>6, Zenon
    DEF Reader, ReaderEvent, ReaderAcked, ReaderTimeout, ReaderBreaks
<1>7. CASE HelperCommand
  <2>1. request.seq \in Commanded /\ request.file \in File
    BY <1>7, TakenCommand, NumberedMessage, Zenon DEF Requested
  <2>2. \/ helper' = [helper EXCEPT !.pc = "intent", !.seq = request.seq, !.file = request.file]
        \/ helper' = [helper EXCEPT !.pc = "exit1"]
    BY <1>7, Zenon DEF HelperCommand, HelperGoes
  <2>3. [helper EXCEPT !.pc = "intent", !.seq = request.seq, !.file = request.file]
            \in NumberedHelper
    BY <2>1, NumberedHelpers, Zenon
  <2>4. [helper EXCEPT !.pc = "exit1"] \in NumberedHelper
    BY <1>1, NumberedHelpers, Zenon
  <2> QED
    BY <2>2, <2>3, <2>4, Zenon
<1>8. CASE HelperResultAcked
  <2>1. helper.seq + 1 \in Recorded
    BY <1>8, TakenCommand, Zenon DEF HelperResultAcked
  <2> QED
    BY <1>1, <1>8, <2>1, NumberedHelpers, Zenon DEF HelperResultAcked, HelperGoes
<1>9. CASE HelperReady \/ HelperIntentAcked \/ HelperStreamed \/ HelperEOF \/ HelperDies
  <2>1. \E w \in {"wait", "stream", "result", "exit0", "exit1"} :
            helper' = [helper EXCEPT !.pc = w]
    BY <1>9, Zenon
    DEF HelperReady, HelperIntentAcked, HelperStreamed, HelperEOF, HelperDies, HelperGoes
  <2> QED
    BY <1>1, <2>1, NumberedHelpers, Zenon
<1> QED
    BY <1>2, <1>4, <1>5, <1>6, <1>7, <1>8, <1>9, Frame, Zenon
    DEF Helper, HelperKilled, HelperFails

\* And the messages between them.
LEMMA PipeLimits ==
    ASSUME SessionInv, Limits, [Next]_vars PROVE request' \in Requested /\ result' \in Numbered
<1> USE DEF Limits, ProcessLimits
<1>1. \A k \in {"cmd", "ack", "intent", "result", "done"} : k \in Kinds
    BY Zenon DEF Kinds
<1>2. request' \in Requested
  <2>1. CASE UNCHANGED request
    BY <2>1, Zenon
  <2>2. ASSUME NEW f \in Files, StartRead(f) PROVE request' \in Requested
    <3>1. seqFile \in Commanded
      BY <2>2, NextCommand, Zenon DEF StartRead
    <3>2. request' = Msg("cmd", seqFile, f) /\ Msg("cmd", seqFile, f).seq = seqFile
      BY <2>2, Fields DEF StartRead
    <3>3. Msg("cmd", seqFile, f) \in Numbered
      BY <1>1, <3>1, Numbers, NumberedMessage, Zenon DEF File
    <3> QED
      BY <3>1, <3>2, <3>3, Zenon DEF Requested
  <2>3. CASE ReaderAcked
    <3>1. reader.left.seq \in Recorded /\ reader.left.file \in File
      BY NumberedMessage, Zenon DEF NumberedReader
    <3>2. Msg("ack", reader.left.seq, reader.left.file) \in Numbered
      BY <1>1, <3>1, NumberedMessage, Zenon
    <3>3. Msg("ack", reader.left.seq, reader.left.file).kind # "cmd"
      BY Fields
    <3>4. Msg("ack", reader.left.seq, reader.left.file) \in Requested
      BY <3>2, <3>3, Zenon DEF Requested
    <3> QED
      BY <2>1, <2>3, <3>4, Zenon DEF ReaderAcked
  <2>4. CASE Start \/ HelperCommand \/ HelperIntentAcked \/ HelperResultAcked \/ Reboot
    BY <2>1, <2>4, NumberedMessage, Zenon
    DEF Start, HelperCommand, HelperIntentAcked, HelperResultAcked, Reboot, ipcVars
  <2> QED
    BY <2>1, <2>2, <2>3, <2>4, Frame, Zenon
<1>3. result' \in Numbered
  <2>1. CASE UNCHANGED result
    BY <2>1, Zenon
  <2>2. CASE HelperCommand
    <3>1. request.seq \in Recorded /\ request.file \in File
      BY NumberedMessage, Zenon DEF Requested
    <3>2. Msg("intent", request.seq, request.file) \in Numbered
      BY <1>1, <3>1, NumberedMessage, Zenon
    <3> QED
      BY <2>1, <2>2, <3>2, Zenon DEF HelperCommand
  <2>3. CASE HelperStreamed \/ HelperResultAcked
    <3>1. helper.seq + 1 \in Recorded /\ helper.file \in File
      BY <2>3, TakenCommand, Zenon DEF NumberedHelper, HelperStreamed, HelperResultAcked
    <3>2. /\ Msg("result", helper.seq + 1, helper.file) \in Numbered
          /\ Msg("done", helper.seq + 1, helper.file) \in Numbered
      BY <1>1, <3>1, NumberedMessage, Zenon
    <3> QED
      BY <2>1, <2>3, <3>2, Zenon DEF HelperStreamed, HelperResultAcked
  <2>4. CASE Start \/ Ready \/ ReaderEvent \/ HelperReady \/ Reboot
    BY <2>1, <2>4, NumberedMessage, Zenon
    DEF Start, Ready, ReaderEvent, HelperReady, Reboot, ipcVars
  <2> QED
    BY <2>1, <2>2, <2>3, <2>4, Frame, Zenon
<1> QED
    BY <1>2, <1>3, Zenon

\* The journal stays within the limits.
LEMMA HandleLimits ==
    ASSUME NetLimits, NEW c \in NumberedCall, Handle(c),
           c.op \in {"preflight", "release", "checkpoint"}
    PROVE  svc' \in NumberedJournal
<1>1. c.boot \in Boots /\ c.event.seq \in Recorded /\ c.event.file \in File /\ None \in File
    BY NumberedMessage, Zenon DEF NumberedCall, File
<1>2. CASE ~Accepts(c)
    BY <1>2, Zenon DEF Handle, NetLimits
<1>3. CASE Accepts(c) /\ c.op = "preflight"
    BY <1>1, <1>3, Zenon DEF Handle, NetLimits, NumberedJournal
<1>4. CASE Accepts(c) /\ c.op = "checkpoint"
    BY <1>1, <1>4, Zenon DEF Handle, NetLimits, NumberedJournal
<1>5. CASE Accepts(c) /\ c.op = "release"
    BY <1>5, Zenon DEF Handle, NetLimits, NumberedJournal
<1> QED
    BY <1>2, <1>3, <1>4, <1>5, Zenon

\* The counters of the controller stay within the limits.
LEMMA CounterLimits == ASSUME Limits, [Next]_vars PROVE
    /\ boot' \in 1 .. MaxBoot /\ ctx' \in Recorded /\ seqFile' \in SeqNo
    /\ ready' \in BOOLEAN /\ deadline' \in {"off", "running", "passed"}
<1> USE DEF Limits, NetLimits
<1>1. boot' = boot \/ (boot' = boot + 1 /\ boot < MaxBoot)
    BY Frame, Zenon DEF Reboot
<1>2. boot' \in 1 .. MaxBoot
    BY <1>1, WorkerAssumption
<1>3. resp["main"].seq \in Recorded /\ resp["exec"].seq \in Recorded /\ svc.seq \in Recorded
    BY Zenon DEF NumberedAnswer, NumberedJournal, Party
<1>4. ctx' \in {ctx, resp["main"].seq, svc.seq}
    BY Frame, Zenon DEF Restart, Reboot
<1>5. seqFile' \in {seqFile, resp["main"].seq + 1, resp["exec"].seq + 1, 0}
    BY Frame, ZenonT(30) DEF PreflightAccepted, ReaderAcked, Reboot
<1>6. seqFile' \in SeqNo
  <2>1. resp["main"].seq + 1 \in SeqNo /\ resp["exec"].seq + 1 \in SeqNo /\ 0 \in SeqNo
    BY <1>3, Numbers, Zenon
  <2> QED
    BY <1>5, <2>1, ZenonT(30)
<1>7. ready' \in {ready, TRUE, FALSE} /\ deadline' \in {deadline, "off", "running", "passed"}
    BY Zenon DEF Next, Controller, Service, vars, keepVars, ipcVars, netVars, FailureBegin,
       Reader, Helper, HelperKilled, HelperFails, Start, Ready, NotReady,
       PreflightRefused, PreflightAccepted, Restart, Stop, StartRead, ReadEnds,
       ClearMarker, Fail, Report, SendRelease, ReleaseAnswered, Recover, RecoverLoop,
       SendOwned, RecoverOnce, ReaderEvent, ReaderAcked, ReaderTimeout, HelperReady,
       HelperCommand, HelperIntentAcked, HelperStreamed, HelperResultAcked, HelperEOF,
       HelperDies, Serve, Timeout, ServeLate, RestoreFails, DeployFails, Tick, Reboot
<1> QED
    BY <1>2, <1>3, <1>4, <1>6, <1>7, Zenon

\* The calls and their answers stay within the limits.
LEMMA CallLimits == ASSUME SessionInv, Limits, [Next]_vars
                    PROVE  call' \in [Party -> NumberedCall] /\ resp' \in [Party -> NumberedAnswer]
<1> USE DEF Limits, NetLimits
<1>1. boot \in Boots /\ reconcile \in BOOLEAN
  <2>1. boot \in Boots
    BY WorkerAssumption DEF Boots
  <2> QED
    BY <2>1, Zenon DEF SessionInv, Shape, NetShape
<1>2. "main" \in Party /\ "exec" \in Party
    BY Zenon DEF Party
<1>3. /\ NoCall \in NumberedCall /\ NoAnswer \in NumberedAnswer
      /\ \A k \in {"ok", "no"} : [kind |-> k, seq |-> 0] \in NumberedAnswer
    BY NumberedCalls, Numbers, Zenon
<1>4. CASE UNCHANGED <<call, resp>>
    BY <1>4, Zenon
<1>5. CASE Ready \/ SendRelease \/ SendOwned
  <2>1. PICK c \in NumberedCall : Ask(c)
    BY <1>1, <1>5, NumberedCalls, Zenon DEF Ready, SendRelease, SendOwned
  <2> QED
    BY <1>3, <2>1, Zenon DEF Ask
<1>6. CASE PreflightRefused \/ PreflightAccepted \/ Restart \/ ReleaseAnswered \/ RecoverOnce
  <2>1. Forget \/ UNCHANGED <<call, resp>>
    BY <1>6, Zenon
    DEF PreflightRefused, PreflightAccepted, Restart, ReleaseAnswered, RecoverOnce
  <2> QED
    BY <1>3, <1>4, <2>1, Zenon DEF Forget
<1>7. CASE Stop
  <2>1. call' = call /\ \E a \in {resp["main"], NoAnswer} : resp' = [resp EXCEPT !["main"] = a]
    BY <1>7, Zenon DEF Stop
  <2> QED
    BY <1>2, <1>3, <2>1, Zenon
<1>8. CASE ReaderAcked \/ Reboot
    BY <1>3, <1>8, Zenon DEF ReaderAcked, Reboot
<1>9. CASE ReaderEvent
  <2>1. Inbox \in Numbered
    BY Zenon DEF Inbox, ProcessLimits, NumberedReader
  <2>2. [NoCall EXCEPT !.op = "checkpoint", !.boot = boot, !.event = Inbox] \in NumberedCall
    BY <1>1, <2>1, NumberedCalls, Zenon
  <2> QED
    BY <1>9, <2>2, Zenon DEF ReaderEvent
<1>10. ASSUME NEW p \in Party, Serve(p)
       PROVE  call' \in [Party -> NumberedCall] /\ resp' \in [Party -> NumberedAnswer]
  <2>1. svc' \in NumberedJournal
    BY <1>10, HandleLimits, Zenon DEF Serve, SessionInv, CallInv, Party
  <2>2. svc'.seq \in Recorded
    BY <2>1, Zenon DEF NumberedJournal
  <2>3. \E a \in NumberedAnswer : resp' = [resp EXCEPT ![p] = a]
    BY <1>10, <2>2, NumberedCalls, Zenon DEF Serve
  <2> QED
    BY <1>3, <1>10, <2>3, Zenon DEF Serve
<1>11. ASSUME NEW p \in Party, Timeout(p)
       PROVE  call' \in [Party -> NumberedCall] /\ resp' \in [Party -> NumberedAnswer]
    BY <1>3, <1>11, Zenon DEF Timeout
<1> QED
    BY <1>4, <1>5, <1>6, <1>7, <1>8, <1>9, <1>10, <1>11, Frame, ZenonT(30)

\* One step stays within the limits.
LEMMA LimitsStep == SessionInv /\ Limits /\ [Next]_vars => Limits'
<1> SUFFICES ASSUME SessionInv, Limits, [Next]_vars PROVE Limits'
    BY Zenon
<1>1. ProcessLimits'
    BY ReaderLimits, HelperLimits, PipeLimits, Zenon DEF ProcessLimits
<1>2. late' \subseteq NumberedCall
  <2> USE DEF Limits, NetLimits
  <2>1. CASE UNCHANGED late
    BY <2>1, Zenon
  <2>2. CASE ServeLate
    BY <2>2, Zenon DEF ServeLate
  <2>3. ASSUME NEW p \in Party, Timeout(p) PROVE late' \subseteq NumberedCall
    BY <2>3 DEF Timeout
  <2>4. CASE Reboot
    BY <2>4, Zenon DEF Reboot
  <2> QED
    BY <2>1, <2>2, <2>3, <2>4, Frame, Zenon
<1>3. svc' \in NumberedJournal
  <2> USE DEF Limits, NetLimits
  <2>1. CASE UNCHANGED svc
    BY <2>1, Zenon
  <2>2. CASE ServeLate
    BY <2>2, HandleLimits, Zenon DEF ServeLate, SessionInv, CallInv
  <2>3. ASSUME NEW p \in Party, Serve(p) PROVE svc' \in NumberedJournal
    BY <2>3, HandleLimits, Zenon DEF Serve, SessionInv, CallInv, Party
  <2> QED
    BY <2>1, <2>2, <2>3, Frame, Zenon
<1> QED
    BY <1>1, <1>2, <1>3, CounterLimits, CallLimits, Zenon DEF Limits, NetLimits

\* The limits hold at the start.
LEMMA LimitsStart == Init => Limits
<1> SUFFICES ASSUME Init PROVE Limits
    BY Zenon
<1> USE DEF Init
<1>1. NoReader \in NumberedReader
    BY NumberedMessage, Zenon DEF NumberedReader, NoReader, File, ReaderPcs
<1>2. NoHelper \in NumberedHelper
    BY Numbers, Zenon DEF NumberedHelper, NoHelper, File, HelperPcs
<1>3. ProcessLimits
    BY <1>1, <1>2, NumberedMessage, Zenon DEF ProcessLimits
<1>4. svc \in NumberedJournal
    BY Numbers, Zenon DEF NumberedJournal, File
<1>5. boot \in 1 .. MaxBoot
    BY WorkerAssumption
<1>6. /\ call \in [Party -> NumberedCall] /\ resp \in [Party -> NumberedAnswer]
      /\ late \subseteq NumberedCall
    BY NumberedCalls, Zenon
<1> QED
    BY <1>3, <1>4, <1>5, <1>6, Numbers, Zenon DEF Limits, NetLimits

\* Within the limits every variable has its type.
LEMMA LimitsType == SessionInv /\ Limits => TypeOK
<1> SUFFICES ASSUME SessionInv, Limits PROVE TypeOK
    BY Zenon
<1> USE DEF Limits, ProcessLimits, NetLimits
<1>1. Numbered \subseteq Message
    BY Numbers, Zenon DEF Numbered, Message, Kinds
<1>2. NumberedCall \subseteq Call
    BY <1>1, Zenon DEF NumberedCall, Call, Operations, Boots
<1>3. NumberedAnswer \subseteq [kind : {"none", "no", "ok"}, seq : SeqNo]
    BY Numbers, Zenon DEF NumberedAnswer
<1>4. svc \in [seq : SeqNo, file : File, boot : 0 .. MaxBoot, released : BOOLEAN]
    BY Numbers, Zenon DEF NumberedJournal, Boots
<1>5. reader \in [pc : ReaderRuns \cup {"off", "ok", "fail"}, file : File, mine : BOOLEAN,
                  left : Message]
    BY <1>1, Zenon DEF NumberedReader, ReaderPcs
<1>6. helper \in [pc : HelperAlive \cup {"none", "exit0", "exit1"}, last : SeqNo, seq : SeqNo,
                  file : File, term : BOOLEAN]
    BY Numbers, Zenon DEF NumberedHelper, HelperPcs
<1>7. request \in Message /\ result \in Message /\ ctx \in SeqNo
    BY <1>1, Numbers, Zenon DEF Requested
<1>8. /\ call \in [Party -> Call] /\ late \subseteq Call
      /\ resp \in [Party -> [kind : {"none", "no", "ok"}, seq : SeqNo]]
    BY <1>2, <1>3, Zenon
<1>9. ctl \in Ctl /\ then \in Ctl
    BY Zenon DEF SessionInv, CallInv, Ctl, Releases
<1>10. mounting \in BOOLEAN /\ reconcile \in BOOLEAN /\ todo \subseteq Files
    BY Zenon DEF SessionInv, Shape, NetShape, WhereInv
<1> QED
    BY <1>4, <1>5, <1>6, <1>7, <1>8, <1>9, <1>10, Zenon DEF TypeOK

\* Every variable has its type, whatever the number of files, boots and delayed
\* requests: no counter of the controller, the helper or the service goes
\* beyond the two events of each file, the next-sequence file one further.
THEOREM SessionTypes == Spec => []TypeOK
<1>1. SessionInv /\ Limits /\ [Next]_vars => Limits'
    BY LimitsStep, Zenon
<1> QED
    BY <1>1, SessionInductive, LimitsStart, LimitsType, PTL DEF Spec

=============================================================================
