--------------------------- MODULE StorageWorker ---------------------------
(***************************************************************************)
(* The storage session of a deployment: the controller shell               *)
(* (lib/storage-io.sh, called by bin/pxeos.mount, writeImage and           *)
(* pxeos.imgcomplete), the subshell that runs one read command, the helper *)
(* process rootpxe-storage-io that alone opens the NAS, and the journal    *)
(* the service keeps of every command.                                     *)
(*                                                                         *)
(* A read is journalled twice, before and after it: the helper sends       *)
(* `intent' and `result' events with consecutive sequence numbers through  *)
(* the subshell to the service and goes on only with the matching ack.     *)
(* Recovery after any failure joins the helper, reconciles the journal and *)
(* releases the storage; a reboot resumes the recovery of the same         *)
(* execution.  Captures do not use the helper (module CaptureTask).        *)
(***************************************************************************)
EXTENDS Naturals, FiniteSets

CONSTANTS Files,     \* files of the image, each read once
          Payload,   \* those that writeImage pipes into a partition
          MaxBoot,   \* bound on the boots that work on this execution
          MaxLate    \* bound on the abandoned requests still in the network

ASSUME WorkerAssumption ==
    /\ IsFiniteSet(Files) /\ Payload \subseteq Files
    /\ MaxBoot \in Nat \ {0} /\ MaxLate \in Nat

VARIABLES
    boot,
    ctl,       \* what the controller is about to do, or waits for
    then,      \* what it goes on with once rootpxe_storage_stop returns
    mounting,  \* rootpxe_storage_start was called by pxeos.mount, not by recovery
    todo,      \* files not yet read
    ctx,       \* .sequence of context.json
    seqFile,   \* the next-sequence file
    reconcile, \* rootpxe_storage_reconcile
    ready,     \* ready.json exists
    deadline,  \* failure deadline: "off", "running", "passed"
    reader,    \* the subshell of rootpxe_storage_exec
    helper,    \* rootpxe-storage-io
    request, result,   \* the message in each of the two FIFOs between them
    call, resp,        \* HTTP request each party waits for, and its answer
    late,      \* requests the client gave up and the service may still handle
    svc        \* the service: journal, boot it is bound to, released

ipcVars == <<request, result>>
netVars == <<call, resp, late>>
keepVars == <<boot, todo, mounting>>
vars == <<boot, ctl, then, mounting, todo, ctx, seqFile, reconcile, ready, deadline,
          reader, helper, request, result, call, resp, late, svc>>

None == "none"
File == Files \cup {None}
MaxSeq == 2 * Cardinality(Files) + 1
SeqNo == 0..MaxSeq
Party == {"main", "exec"}

Message == [kind : {"none", "cmd", "ack", "info", "intent", "result", "done"},
            seq : SeqNo, file : File]
Msg(k, s, f) == [kind |-> k, seq |-> s, file |-> f]
NoMsg == Msg("none", 0, None)

\* Calls carry the boot (the worker nonce); stopped is previousWorkerStopped.
Call == [op : {"none", "preflight", "release", "checkpoint"},
         boot : 0..MaxBoot, stopped : BOOLEAN, event : Message]
NoCall == [op |-> "none", boot |-> 0, stopped |-> FALSE, event |-> NoMsg]
NoAnswer == [kind |-> "none", seq |-> 0]

HelperAlive == {"boot", "wait", "intent", "stream", "result"}
NoHelper == [pc |-> "none", last |-> 0, seq |-> 0, file |-> None, term |-> FALSE]

\* mine: the FIFOs the subshell inherited are those of the current helper;
\* left: what is unread in the FIFO of a helper that is gone.
ReaderRuns == {"event", "checkpoint"}
NoReader == [pc |-> "off", file |-> None, mine |-> FALSE, left |-> NoMsg]

Releases == {"releaseMark", "releaseFail", "releaseLoop", "releaseOnce"}
Terminal == {"done", "expired", "unreleased"}
Ctl == {"start", "ready", "preflight", "restart", "work", "exec", "fail", "report",
        "recover", "loop", "owned", "stop"} \cup Releases \cup Terminal

\* Every variable has its type; sequence numbers stay within two per file.
TypeOK ==
    /\ boot \in 1..MaxBoot /\ ctl \in Ctl /\ then \in Ctl /\ mounting \in BOOLEAN
    /\ todo \subseteq Files /\ ctx \in SeqNo /\ seqFile \in SeqNo
    /\ reconcile \in BOOLEAN /\ ready \in BOOLEAN
    /\ deadline \in {"off", "running", "passed"}
    /\ reader \in [pc : ReaderRuns \cup {"off", "ok", "fail"}, file : File,
                   mine : BOOLEAN, left : Message]
    /\ helper \in [pc : HelperAlive \cup {"none", "exit0", "exit1"},
                   last : SeqNo, seq : SeqNo, file : File, term : BOOLEAN]
    /\ request \in Message /\ result \in Message
    /\ call \in [Party -> Call]
    /\ resp \in [Party -> [kind : {"none", "no", "ok"}, seq : SeqNo]]
    /\ late \subseteq Call
    /\ svc \in [seq : SeqNo, file : File, boot : 0..MaxBoot, released : BOOLEAN]

Init ==
    /\ boot = 1 /\ ctl = "start" /\ then = "loop" /\ mounting = TRUE
    /\ todo = Files /\ ctx = 0 /\ seqFile = 0
    /\ reconcile = FALSE /\ ready = FALSE /\ deadline = "off"
    /\ reader = NoReader /\ helper = NoHelper
    /\ request = NoMsg /\ result = NoMsg
    /\ call = [p \in Party |-> NoCall] /\ resp = [p \in Party |-> NoAnswer]
    /\ late = {}
    /\ svc = [seq |-> 0, file |-> None, boot |-> 0, released |-> FALSE]

-----------------------------------------------------------------------------
(* The service, from the answers the controller relies on. *)

\* A new boot, or the word that the old worker was joined, reconciles the entry
\* left open; the same worker is refused while one is open.
Admits(c) ==
    /\ ~svc.released
    /\ c.boot >= svc.boot
    /\ c.boot = svc.boot /\ svc.file # None => c.stopped

Records(c) ==
    /\ ~svc.released
    /\ c.boot = svc.boot
    /\ c.event.seq = svc.seq + 1
    /\ IF c.event.kind = "intent" THEN svc.file = None ELSE svc.file = c.event.file

Frees(c) ==
    \/ svc.released
    \/ svc.file = None /\ svc.boot \in {0, c.boot}

Accepts(c) ==
    CASE c.op = "preflight"  -> Admits(c)
      [] c.op = "checkpoint" -> Records(c)
      [] c.op = "release"    -> Frees(c)

Handle(c) ==
    svc' = IF ~Accepts(c) THEN svc ELSE
           CASE c.op = "preflight"  -> [svc EXCEPT !.boot = c.boot, !.file = None]
             [] c.op = "checkpoint" ->
                    [svc EXCEPT !.seq = c.event.seq,
                                !.file = IF c.event.kind = "intent" THEN c.event.file ELSE None]
             [] c.op = "release"    -> [svc EXCEPT !.released = TRUE]

Serve(p) ==
    /\ call[p].op # "none" /\ resp[p].kind = "none"
    /\ Handle(call[p])
    /\ resp' = [resp EXCEPT ![p] = [kind |-> IF Accepts(call[p]) THEN "ok" ELSE "no",
                                    seq |-> svc'.seq]]
    /\ call' = [call EXCEPT ![p] = NoCall]
    /\ UNCHANGED <<keepVars, ctl, then, ctx, seqFile, reconcile, ready, deadline, reader,
                   helper, ipcVars, late>>

\* The client gives up; the request is lost, or handled whenever it arrives.
Timeout(p) ==
    /\ call[p].op # "none" /\ resp[p].kind = "none"
    /\ resp' = [resp EXCEPT ![p] = [kind |-> "no", seq |-> 0]]
    /\ call' = [call EXCEPT ![p] = NoCall]
    /\ late' \in {late} \cup {l \in {late \cup {call[p]}} : Cardinality(l) <= MaxLate}
    /\ UNCHANGED <<keepVars, ctl, then, ctx, seqFile, reconcile, ready, deadline, reader,
                   helper, ipcVars, svc>>

ServeLate ==
    /\ \E c \in late : Handle(c) /\ late' = late \ {c}
    /\ UNCHANGED <<keepVars, ctl, then, ctx, seqFile, reconcile, ready, deadline, reader,
                   helper, ipcVars, call, resp>>

-----------------------------------------------------------------------------
(* The controller. *)

Goto(c) == ctl' = c

\* rootpxe_storage_call: no request is sent once the failure deadline passed.
Ask(c) ==
    IF deadline = "passed"
    THEN resp' = [resp EXCEPT !["main"] = [kind |-> "no", seq |-> 0]] /\ UNCHANGED call
    ELSE call' = [call EXCEPT !["main"] = c] /\ UNCHANGED resp

Idle == call["main"].op = "none" /\ resp["main"].kind = "none"
Answered(k) == resp["main"].kind = k
Forget == resp' = [resp EXCEPT !["main"] = NoAnswer] /\ UNCHANGED call

\* rootpxe_storage_stop, entered: the request descriptor is closed, then the
\* helper is waited for.  Killed: the caller sent TERM first.
StopThen(c) == ctl' = "stop" /\ then' = c
Killed == helper' = IF helper.pc \in HelperAlive THEN [helper EXCEPT !.term = TRUE] ELSE helper

\* The caller of a rootpxe_storage_start that failed: pxeos.mount calls
\* handleError, recovery tries again.
StartFailed == IF mounting THEN "fail" ELSE "recover"

Start ==
    /\ ctl = "start"
    /\ IF deadline = "passed"
       THEN Goto(StartFailed) /\ UNCHANGED <<helper, ipcVars, reader>>
       ELSE /\ Goto("ready")
            /\ helper' = [NoHelper EXCEPT !.pc = "boot", !.last = ctx]
            /\ request' = NoMsg /\ result' = NoMsg
            /\ reader' = IF reader.mine
                         THEN [reader EXCEPT !.mine = FALSE, !.left = result] ELSE reader
    /\ UNCHANGED <<keepVars, then, ctx, seqFile, reconcile, ready, deadline, netVars, svc>>

Preflight == [NoCall EXCEPT !.op = "preflight", !.boot = boot]

Ready ==
    /\ ctl = "ready" /\ result.kind = "info"
    /\ result' = NoMsg
    /\ ready' = TRUE
    /\ Ask([Preflight EXCEPT !.stopped = reconcile])
    /\ Goto("preflight")
    /\ UNCHANGED <<keepVars, then, ctx, seqFile, reconcile, deadline, reader, helper, request,
                   late, svc>>

\* The read of connection-info times out or meets end of file.
NotReady ==
    /\ ctl = "ready" /\ result.kind # "info"
    /\ Killed
    /\ StopThen(StartFailed)
    /\ UNCHANGED <<keepVars, ctx, seqFile, reconcile, ready, deadline, reader, ipcVars, netVars,
                   svc>>

PreflightRefused ==
    /\ ctl = "preflight" /\ Answered("no")
    /\ Forget /\ Killed /\ StopThen(StartFailed)
    /\ UNCHANGED <<keepVars, ctx, seqFile, reconcile, ready, deadline, reader, ipcVars, late,
                   svc>>

\* The caller of a rootpxe_storage_start that succeeded: a deployment goes on, a
\* boot that found the execution open only recovers it.
StartDone == IF ~mounting THEN "owned" ELSE IF boot = 1 THEN "work" ELSE "recover"

PreflightAccepted ==
    /\ ctl = "preflight" /\ Answered("ok")
    /\ reconcile' = FALSE
    /\ IF resp["main"].seq = ctx
       THEN /\ seqFile' = resp["main"].seq + 1
            /\ Goto(StartDone) /\ Forget /\ UNCHANGED then
       ELSE StopThen("restart") /\ UNCHANGED <<call, resp, seqFile>>
    /\ UNCHANGED <<keepVars, ctx, ready, deadline, reader, helper, ipcVars, late, svc>>

\* The journal has moved on: the helper is started again at its sequence.
Restart ==
    /\ ctl = "restart"
    /\ ctx' = resp["main"].seq
    /\ Forget
    /\ Goto("start")
    /\ UNCHANGED <<keepVars, then, seqFile, reconcile, ready, deadline, reader, helper, ipcVars,
                   late, svc>>

\* Where a nonzero status of the helper is an error for the caller of stop.
BadStatus == CASE then = "restart" -> StartFailed
               [] then \in {"releaseMark", "releaseOnce"} -> "recover"
               [] OTHER -> then

\* Mutant: stop does not wait for the helper.
StopUnjoined ==
    /\ ctl = "stop"
    /\ Goto(then)
    /\ UNCHANGED <<keepVars, then, ctx, seqFile, reconcile, ready, deadline, reader, helper,
                   ipcVars, netVars, svc>>

Stop ==
    /\ ctl = "stop"
    /\ helper.pc \notin HelperAlive
    /\ Goto(IF helper.pc = "exit1" THEN BadStatus ELSE then)
    /\ resp' = [resp EXCEPT !["main"] =
                   IF then = "restart" /\ helper.pc # "exit1" THEN @ ELSE NoAnswer]
    /\ helper' = NoHelper
    /\ UNCHANGED <<keepVars, then, ctx, seqFile, reconcile, ready, deadline, reader, ipcVars,
                   call, late, svc>>

\* One rootpxe_storage_exec read: load_shadow reads the small files, writeImage
\* the payload.
StartRead(f) ==
    /\ ctl = "work" /\ f \in todo
    /\ f \in Payload => todo \subseteq Payload
    /\ request' = Msg("cmd", seqFile, f)
    /\ reader' = [NoReader EXCEPT !.pc = "event", !.file = f, !.mine = TRUE]
    /\ Goto("exec")
    /\ UNCHANGED <<keepVars, then, ctx, seqFile, reconcile, ready, deadline, helper, result,
                   netVars, svc>>

\* Mutant: a file that was read stays to be read.
ReadEndsUncounted ==
    /\ ctl = "exec" /\ reader.pc \in {"ok", "fail"}
    /\ Goto(IF reader.pc = "ok" THEN "work" ELSE "fail")
    /\ reader' = NoReader
    /\ UNCHANGED <<keepVars, then, ctx, seqFile, reconcile, ready, deadline, helper, ipcVars,
                   netVars, svc>>

ReadEnds ==
    /\ ctl = "exec" /\ reader.pc \in {"ok", "fail"}
    /\ todo' = IF reader.pc = "ok" THEN todo \ {reader.file} ELSE todo
    /\ Goto(IF reader.pc = "ok" THEN "work" ELSE "fail")
    /\ reader' = NoReader
    /\ UNCHANGED <<boot, mounting, then, ctx, seqFile, reconcile, ready, deadline, helper,
                   ipcVars, netVars, svc>>

\* The decoder or partclone fails; only the parent of the subshell is killed.
RestoreFails ==
    /\ ctl = "exec" /\ reader.file \in Payload /\ reader.pc \in ReaderRuns
    /\ Goto("fail")
    /\ UNCHANGED <<keepVars, then, ctx, seqFile, reconcile, ready, deadline, reader, helper,
                   ipcVars, netVars, svc>>

\* Any other step of the deployment calls handleError.
DeployFails ==
    /\ ctl = "work"
    /\ Goto("fail")
    /\ UNCHANGED <<keepVars, then, ctx, seqFile, reconcile, ready, deadline, reader, helper,
                   ipcVars, netVars, svc>>

\* pxeos.imgcomplete, finish acknowledged: rootpxe_clear_capture_marker.
ClearMarker ==
    /\ ctl = "work" /\ todo = {}
    /\ StopThen("releaseMark")
    /\ UNCHANGED <<keepVars, ctx, seqFile, reconcile, ready, deadline, reader, helper, ipcVars,
                   netVars, svc>>

FailureBegin == deadline' = IF deadline = "off" THEN "running" ELSE deadline

\* handleError: failure deadline, rootpxe_storage_quiesce.
Fail ==
    /\ ctl = "fail"
    /\ FailureBegin /\ Killed /\ StopThen("report")
    /\ UNCHANGED <<keepVars, ctx, seqFile, reconcile, ready, reader, ipcVars, netVars, svc>>

\* rootpxe_error_report: answered either way, or the deadline passes.
Report ==
    /\ ctl = "report"
    /\ Goto(IF deadline = "passed" THEN "expired" ELSE "releaseFail")
    /\ UNCHANGED <<keepVars, then, ctx, seqFile, reconcile, ready, deadline, reader, helper,
                   ipcVars, netVars, svc>>

SendRelease ==
    /\ ctl \in Releases /\ Idle
    /\ Ask([NoCall EXCEPT !.op = "release", !.boot = boot])
    /\ UNCHANGED <<keepVars, ctl, then, ctx, seqFile, reconcile, ready, deadline, reader, helper,
                   ipcVars, late, svc>>

\* Mutant: any answer to the release counts as the acknowledgement.
ReleaseUnchecked ==
    /\ ctl \in Releases /\ ~Idle /\ ~Answered("none")
    /\ Forget
    /\ Goto("done")
    /\ UNCHANGED <<keepVars, then, ctx, seqFile, reconcile, ready, deadline, reader, helper,
                   ipcVars, late, svc>>

\* Mutant: after a release that was refused the deployment is taken up again.
ReleaseResumesReads ==
    /\ ctl \in Releases /\ ~Idle /\ ~Answered("none")
    /\ Forget
    /\ Goto(CASE Answered("ok") -> "done"
              [] ctl = "releaseLoop" -> "start"
              [] ctl = "releaseFail" /\ ~ready -> "unreleased"
              [] OTHER -> "recover")
    /\ UNCHANGED <<keepVars, then, ctx, seqFile, reconcile, ready, deadline, reader, helper,
                   ipcVars, late, svc>>

ReleaseAnswered ==
    /\ ctl \in Releases /\ ~Idle /\ ~Answered("none")
    /\ Forget
    /\ Goto(CASE Answered("ok") -> "done"
              [] ctl = "releaseLoop" -> "start"
              [] ctl = "releaseFail" /\ ~ready -> "unreleased"
              [] OTHER -> "recover")
    /\ mounting' = FALSE
    /\ UNCHANGED <<boot, todo, then, ctx, seqFile, reconcile, ready, deadline, reader, helper,
                   ipcVars, late, svc>>

\* Mutant: the next preflight does not say that the old worker was joined.
RecoverUnreconciled ==
    /\ ctl = "recover"
    /\ FailureBegin /\ Killed /\ StopThen("loop")
    /\ UNCHANGED <<keepVars, ctx, seqFile, reconcile, ready, reader, ipcVars, netVars, svc>>

\* Entry of rootpxe_storage_recover_until_clean, and the end of a failed round.
Recover ==
    /\ ctl = "recover"
    /\ FailureBegin /\ Killed /\ StopThen("loop")
    /\ reconcile' = TRUE
    /\ UNCHANGED <<keepVars, ctx, seqFile, ready, reader, ipcVars, netVars, svc>>

RecoverLoop ==
    /\ ctl = "loop"
    /\ Goto(IF deadline = "passed" THEN "expired" ELSE "releaseLoop")
    /\ UNCHANGED <<keepVars, then, ctx, seqFile, reconcile, ready, deadline, reader, helper,
                   ipcVars, netVars, svc>>

\* rootpxe_storage_recover_once of a deployment: disposition read or completed.
SendOwned ==
    /\ ctl = "owned" /\ Idle
    /\ Ask(Preflight)
    /\ UNCHANGED <<keepVars, ctl, then, ctx, seqFile, reconcile, ready, deadline, reader, helper,
                   ipcVars, late, svc>>

RecoverOnce ==
    /\ ctl = "owned" /\ ~Idle /\ ~Answered("none")
    /\ Forget
    /\ IF Answered("ok") THEN StopThen("releaseOnce") ELSE Goto("recover") /\ UNCHANGED then
    /\ UNCHANGED <<keepVars, ctx, seqFile, reconcile, ready, deadline, reader, helper, ipcVars,
                   late, svc>>

Tick ==
    /\ deadline = "running"
    /\ deadline' = "passed"
    /\ UNCHANGED <<keepVars, ctl, then, ctx, seqFile, reconcile, ready, reader, helper, ipcVars,
                   netVars, svc>>

\* Power is lost, or the failure action reboots the machine; the requests under
\* way are lost or arrive later.
Reboot ==
    /\ ctl # "done" /\ boot < MaxBoot /\ ~svc.released
    /\ boot' = boot + 1
    /\ ctl' = "start" /\ then' = "loop" /\ mounting' = TRUE
    /\ ctx' = svc.seq /\ seqFile' = 0
    /\ reconcile' = FALSE /\ ready' = FALSE /\ deadline' = "off"
    /\ reader' = NoReader /\ helper' = NoHelper /\ request' = NoMsg /\ result' = NoMsg
    /\ call' = [p \in Party |-> NoCall] /\ resp' = [p \in Party |-> NoAnswer]
    /\ \E lost \in SUBSET Party :
          late' = late \cup {call[p] : p \in {q \in Party \ lost : call[q].op # "none"}}
    /\ Cardinality(late') <= MaxLate
    /\ UNCHANGED <<todo, svc>>

-----------------------------------------------------------------------------
(* The subshell of rootpxe_storage_exec.  When writeImage has killed its      *)
(* parent nobody waits for it, and it goes on with what it was doing.         *)

Inbox == IF reader.mine THEN result ELSE reader.left
ReaderEnds(v) == IF ctl = "exec" THEN [reader EXCEPT !.pc = v] ELSE NoReader

\* An event of the helper: done ends the command, the others are published.
ReaderEvent ==
    /\ reader.pc = "event" /\ Inbox.kind # "none"
    /\ result' = IF reader.mine THEN NoMsg ELSE result
    /\ IF Inbox.kind = "done"
       THEN reader' = ReaderEnds("ok") /\ UNCHANGED call
       ELSE /\ reader' = [reader EXCEPT !.pc = "checkpoint", !.left = Inbox]
            /\ call' = [call EXCEPT !["exec"] =
                           [NoCall EXCEPT !.op = "checkpoint", !.boot = boot, !.event = Inbox]]
    /\ UNCHANGED <<keepVars, ctl, then, ctx, seqFile, reconcile, ready, deadline, helper,
                   request, resp, late, svc>>

\* The loop is left: TERM to the helper the subshell knows.
ReaderBreaks ==
    /\ reader' = ReaderEnds("fail")
    /\ IF reader.mine THEN Killed ELSE UNCHANGED helper

ReaderAcked ==
    /\ reader.pc = "checkpoint" /\ resp["exec"].kind # "none"
    /\ resp' = [resp EXCEPT !["exec"] = NoAnswer]
    /\ IF resp["exec"].kind = "ok"
       THEN /\ seqFile' = resp["exec"].seq + 1
            /\ request' = IF reader.mine THEN Msg("ack", reader.left.seq, reader.left.file)
                          ELSE request
            /\ reader' = [reader EXCEPT !.pc = "event", !.left = NoMsg]
            /\ UNCHANGED helper
       ELSE ReaderBreaks /\ UNCHANGED <<seqFile, request>>
    /\ UNCHANGED <<keepVars, ctl, then, ctx, reconcile, ready, deadline, result, call, late, svc>>

\* Nothing arrives within the timeout, or the helper has closed the FIFO.
ReaderTimeout ==
    /\ reader.pc = "event" /\ Inbox.kind = "none"
    /\ ReaderBreaks
    /\ UNCHANGED <<keepVars, ctl, then, ctx, seqFile, reconcile, ready, deadline, ipcVars,
                   netVars, svc>>

-----------------------------------------------------------------------------
(* The helper. *)

HelperGoes(pc) == helper' = [helper EXCEPT !.pc = pc]

HelperReady ==
    /\ helper.pc = "boot"
    /\ HelperGoes("wait")
    /\ result' = [NoMsg EXCEPT !.kind = "info"]
    /\ UNCHANGED <<keepVars, ctl, then, ctx, seqFile, reconcile, ready, deadline, reader,
                   request, netVars, svc>>

\* rx_command: a command out of sequence ends the helper.
HelperCommand ==
    /\ helper.pc = "wait" /\ request.kind # "none"
    /\ request' = NoMsg
    /\ IF request.seq = helper.last + 1
       THEN /\ helper' = [helper EXCEPT !.pc = "intent", !.seq = request.seq, !.file = request.file]
            /\ result' = Msg("intent", request.seq, request.file)
       ELSE HelperGoes("exit1") /\ UNCHANGED result
    /\ UNCHANGED <<keepVars, ctl, then, ctx, seqFile, reconcile, ready, deadline, reader,
                   netVars, svc>>

\* Mutant: the file is opened without waiting for the service's ack.
HelperUnacked ==
    /\ helper.pc = "intent"
    /\ HelperGoes("stream")
    /\ UNCHANGED <<keepVars, ctl, then, ctx, seqFile, reconcile, ready, deadline, reader,
                   ipcVars, netVars, svc>>

\* ack(): the answer names the event that was sent.
HelperIntentAcked ==
    /\ helper.pc = "intent" /\ request.kind # "none"
    /\ request' = NoMsg
    /\ HelperGoes(IF request = Msg("ack", helper.seq, helper.file) THEN "stream" ELSE "exit1")
    /\ UNCHANGED <<keepVars, ctl, then, ctx, seqFile, reconcile, ready, deadline, reader,
                   result, netVars, svc>>

HelperStreamed ==
    /\ helper.pc = "stream"
    /\ HelperGoes("result")
    /\ result' = Msg("result", helper.seq + 1, helper.file)
    /\ UNCHANGED <<keepVars, ctl, then, ctx, seqFile, reconcile, ready, deadline, reader,
                   request, netVars, svc>>

\* Mutant: the result is not counted in last_sequence.
HelperForgetsResult ==
    /\ helper.pc = "result" /\ request.kind # "none"
    /\ request' = NoMsg
    /\ helper' = [helper EXCEPT !.pc = "wait", !.last = helper.seq]
    /\ result' = Msg("done", helper.seq, helper.file)
    /\ UNCHANGED <<keepVars, ctl, then, ctx, seqFile, reconcile, ready, deadline, reader,
                   netVars, svc>>

HelperResultAcked ==
    /\ helper.pc = "result" /\ request.kind # "none"
    /\ request' = NoMsg
    /\ IF request = Msg("ack", helper.seq + 1, helper.file)
       THEN /\ helper' = [helper EXCEPT !.pc = "wait", !.last = helper.seq + 1]
            /\ result' = Msg("done", helper.seq + 1, helper.file)
       ELSE HelperGoes("exit1") /\ UNCHANGED result
    /\ UNCHANGED <<keepVars, ctl, then, ctx, seqFile, reconcile, ready, deadline, reader,
                   netVars, svc>>

\* End of file on the request FIFO: the controller is in stop, and no subshell
\* holds the write end.
RequestClosed == ctl = "stop" /\ ~(reader.mine /\ reader.pc \in ReaderRuns)

\* Mutant: the helper goes on reading at end of file.
HelperIgnoresEOF == FALSE /\ UNCHANGED vars

HelperEOF ==
    /\ helper.pc \in {"wait", "intent", "result"} /\ request.kind = "none" /\ RequestClosed
    /\ HelperGoes(IF helper.pc = "wait" THEN "exit0" ELSE "exit1")
    /\ UNCHANGED <<keepVars, ctl, then, ctx, seqFile, reconcile, ready, deadline, reader,
                   ipcVars, netVars, svc>>

HelperDies ==
    /\ helper.pc \in HelperAlive
    /\ HelperGoes("exit1")
    /\ UNCHANGED <<keepVars, ctl, then, ctx, seqFile, reconcile, ready, deadline, reader,
                   ipcVars, netVars, svc>>

HelperKilled == helper.term /\ HelperDies
\* The mount, the NAS or a check of the file fails.
HelperFails == ~helper.term /\ HelperDies

-----------------------------------------------------------------------------
Controller ==
    \/ Start \/ Ready \/ NotReady \/ PreflightRefused \/ PreflightAccepted \/ Restart \/ Stop
    \/ \E f \in Files : StartRead(f)
    \/ ReadEnds \/ ClearMarker \/ Fail \/ Report \/ SendRelease \/ ReleaseAnswered
    \/ Recover \/ RecoverLoop \/ SendOwned \/ RecoverOnce

Reader == ReaderEvent \/ ReaderAcked \/ ReaderTimeout

Helper ==
    \/ HelperReady \/ HelperCommand \/ HelperIntentAcked \/ HelperStreamed
    \/ HelperResultAcked \/ HelperEOF \/ HelperKilled

Service == (\E p \in Party : Serve(p) \/ Timeout(p)) \/ ServeLate

Next ==
    \/ Controller \/ Reader \/ Helper \/ Service
    \/ RestoreFails \/ DeployFails \/ HelperFails \/ Tick \/ Reboot

Spec == Init /\ [][Next]_vars

\* Every local process goes on, every request is answered or given up, the clock
\* runs; the network, the NAS and the service promise nothing.
LocalFairness ==
    /\ WF_vars(Controller) /\ WF_vars(Reader) /\ WF_vars(Tick)
    /\ WF_vars(HelperKilled) /\ WF_vars(HelperEOF)
    /\ \A p \in Party : WF_vars(Serve(p) \/ Timeout(p))

\* The network and the NAS recover: each kind of request that is repeated is
\* answered, a helper started again and again becomes ready and then ends well.
ServeOp(o) == call["main"].op = o /\ Serve("main")
ReadyInTime == ctl = "ready" /\ HelperReady

NetworkFairness ==
    /\ WF_vars(Controller) /\ WF_vars(Reader) /\ WF_vars(HelperKilled)
    /\ WF_vars(Serve("exec") \/ Timeout("exec"))
    /\ SF_vars(ReadyInTime) /\ SF_vars(HelperEOF)
    /\ SF_vars(ServeOp("preflight")) /\ SF_vars(ServeOp("release"))

-----------------------------------------------------------------------------
(* Properties. *)

\* While the helper streams a file (stream_file), the journal of the service has
\* exactly this read open, for this boot, and the storage is not released.
HoldWhileStreaming ==
    helper.pc = "stream" =>
        /\ ~svc.released
        /\ svc.boot = boot /\ svc.file = helper.file /\ svc.seq = helper.seq

\* The word a release or a reconciling preflight gives is true when it is given
\* and while the client waits: workerStopped=true, no helper runs;
\* previousWorkerStopped=true, the running helper has taken no command.
StoppedIsTrue ==
    /\ call["main"].op = "release" => helper.pc = "none"
    /\ call["main"].op = "preflight" /\ call["main"].stopped =>
           helper.pc \in {"wait", "exit1"} /\ helper.seq = 0

\* Between two reads of a deployment the three counters agree: the next-sequence
\* file, last_sequence of the helper and the journal, which has two entries for
\* every file read and none open.
SequenceAgreement ==
    ctl = "work" =>
        /\ svc.file = None
        /\ svc.seq = 2 * Cardinality(Files \ todo)
        /\ seqFile = svc.seq + 1
        /\ helper.last = svc.seq

\* The session ends well only when the service has released the storage.
DoneMeansReleased == ctl = "done" => svc.released

\* 1 while the helper reads a file of the image.
Streaming == IF helper.pc = "stream" THEN 1 ELSE 0

Hold == INSTANCE StorageHold WITH
            owner <- IF svc.released THEN 0 ELSE 1, last <- 1, worker <- Streaming

\* A deployment uses the storage as StorageHold promises: it is held for the one
\* execution, read by no helper otherwise, and given back only when no helper
\* streams, through late requests and reboots; a released storage is never read.
ImplementsHold == Hold!HoldSpec

\* Whatever the network, the NAS and the service do, the session ends: released,
\* expired, or waiting for a retry with the storage held.
SessionEnds == LocalFairness => <>[](ctl \in Terminal)

\* Unless the failure deadline passes, recovery releases the storage once the
\* network answers and the NAS serves, also after reboots.
RecoveryReleases ==
    NetworkFairness => <>(svc.released \/ ctl \in {"expired", "unreleased"})

=============================================================================
