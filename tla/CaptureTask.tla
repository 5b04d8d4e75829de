---------------------------- MODULE CaptureTask ----------------------------
(***************************************************************************)
(* A capture task (mac-direct-v1) from checkin to power-off: the           *)
(* controller bin/pxeos.upload with the files it sources, its producer and *)
(* writer processes, the status reporter that watches for cancellation,    *)
(* the temporary XFS mount, the NAS tree, and the control plane of module  *)
(* RootPXE.                                                                *)
(*                                                                         *)
(* The controller is one bash process.  pc names the command it is about   *)
(* to run; a pending SIGTERM is acted on between two commands.             *)
(***************************************************************************)
EXTENDS RootPXE

CONSTANTS Parts,           \* partitions of the source disk, one artifact each
          Stale,           \* name of an artifact this capture never writes
          FinishRetries    \* resends of the finish callback (10 in the code)

ASSUME TaskAssumption == FinishRetries \in Nat /\ Stale \notin Parts

VARIABLES
    \* the controller and the shell variables that matter
    pc, ret, inv, rc, withdrawn,
    nonce,       \* rootpxe_storage_nonce and progress_attempt, 0 when unset
    direct,      \* rootpxe_capture_direct   (exported: survives exec)
    stopped,     \* rootpxe_capture_stopped  (exported: survives exec)
    released,    \* rootpxe_capture_released (not exported)
    confirmed,   \* report_confirmed of rootpxe_error_wait_for_retry
    sends, todo, cur,
    reporter,    \* pxeos.statusreporter runs
    term,        \* SIGTERM pending for the controller
    \* the producer and the writer of the current artifact
    prod, prodPid, writ, writPid,
    fifo,        \* the producer has opened the FIFO they share
    \* XFS log replay: variable, directory, mount
    xfsVar, xfsDir, xfsMnt,
    \* the NAS: /storage/dev/<mac> and the published image
    staging, target

ctlVars  == <<inv, rc, withdrawn>>
envVars  == <<nonce, direct, stopped, released>>
loopVars == <<confirmed, sends, todo, cur>>
sigVars  == <<reporter, term>>
procVars == <<prod, prodPid, writ, writPid, fifo>>
xfsVars  == <<xfsVar, xfsDir, xfsMnt>>
nasVars  == <<staging, target>>
workVars == <<procVars, xfsVars, nasVars>>
vars == <<srvVars, netVars, pc, ret, ctlVars, envVars, loopVars, sigVars, workVars>>

\* A process is forked first; it is tracked once its pid has been stored.
Tracked == {"run", "term"}
Live == Tracked \cup {"forked"}
ProcState == Live \cup {"none", "ok", "fail"}

\* An artifact: the attempt that wrote it (0: an earlier task), its name, and
\* what it is: an unfinished .000 file, a complete image, or a torn one.
Artifact == Nonce \X (Parts \cup {Stale}) \X {"part", "image", "torn"}
Leftover == {<<0, Stale, "image">>}

PCs == {"checkin", "checkin_wait", "mount", "permit", "permit_wait", "prepare",
        "part", "xfs_mount", "xfs_umount", "xfs_unset", "xfs_rmdir",
        "xfs_rmdir_err", "xfs_check_err", "spawn_writer", "track_writer",
        "spawn_producer", "track_producer", "wait_producer", "wait_writer",
        "finalize", "fence", "fence_wait", "remove", "move",
        "finish", "finish_wait",
        "q_kill", "q_wait", "q_xfs", "err_reap", "err", "err_wait", "poll",
        "exit", "cleanup", "ack", "ack_wait", "cleaned", "halt"}

\* What handleError and the traps come back to after a quiesce.
Returns == {"none", "report", "term", "exit"}

FlagTypeOK ==
    /\ withdrawn \in BOOLEAN
    /\ direct \in BOOLEAN /\ stopped \in BOOLEAN /\ released \in BOOLEAN
    /\ confirmed \in BOOLEAN /\ reporter \in BOOLEAN /\ term \in BOOLEAN
    /\ prodPid \in BOOLEAN /\ writPid \in BOOLEAN /\ fifo \in BOOLEAN
    /\ xfsVar \in BOOLEAN /\ xfsDir \in BOOLEAN /\ xfsMnt \in BOOLEAN

ValueTypeOK ==
    /\ pc \in PCs /\ ret \in Returns
    /\ inv \in Invocation /\ rc \in {0, 1, 2, 143}
    /\ nonce \in Nonce
    /\ sends \in 0..FinishRetries
    /\ todo \subseteq Parts /\ cur \in Parts \cup {Stale}
    /\ prod \in ProcState /\ writ \in ProcState
    /\ staging \subseteq Artifact /\ target \subseteq Artifact

\* Every variable has its type; the resends of finish stay within their bound.
TypeOK == ServerTypeOK /\ FlagTypeOK /\ ValueTypeOK

Init ==
    /\ ServerInit
    /\ pc = "checkin" /\ ret = "none" /\ rc = 0 /\ withdrawn = FALSE
    /\ nonce = 0 /\ direct = FALSE /\ stopped = FALSE /\ released = FALSE
    /\ confirmed = FALSE /\ sends = 0 /\ todo = Parts /\ cur = Stale
    /\ reporter = FALSE /\ term = FALSE
    /\ prod = "none" /\ prodPid = FALSE /\ writ = "none" /\ writPid = FALSE /\ fifo = FALSE
    /\ xfsVar = FALSE /\ xfsDir = FALSE /\ xfsMnt = FALSE
    /\ inv = 1
    /\ staging \in {{}, Leftover} /\ target \in {{}, Leftover}

-----------------------------------------------------------------------------
\* A command of the controller: a pending trap is run first.
At(l) == pc = l /\ ~term
Goto(l) == pc' = l

\* handleError quiesces before it does anything else.
HandleError == pc' = "q_kill" /\ ret' = "report"

Ask(op, wait, claim) ==
    /\ Send([op |-> op, nonce |-> nonce, stop |-> claim, id |-> inv])
    /\ Goto(wait)

GiveUp(wait) == At(wait) /\ Hangup

-----------------------------------------------------------------------------
\* pxeos.checkin

Checkin ==
    /\ At("checkin")
    /\ Ask("checkin", "checkin_wait", stopped)
    /\ UNCHANGED <<srvVars, ret, ctlVars, envVars, loopVars, sigVars, workVars>>

\* curl failure, 5xx, empty body or a queue reply: ask again, same id.
CheckinUncertain ==
    /\ GiveUp("checkin_wait")
    /\ Goto("checkin")
    /\ UNCHANGED <<srvVars, ret, ctlVars, envVars, loopVars, sigVars, workVars>>

CheckinAccepted ==
    /\ At("checkin_wait") /\ Answered("ok")
    /\ nonce' = reply.att
    /\ direct' = TRUE /\ stopped' = FALSE /\ released' = FALSE
    /\ xfsVar' = FALSE
    /\ Goto("mount")
    /\ Hangup
    /\ UNCHANGED <<srvVars, ret, ctlVars, loopVars, sigVars, procVars, xfsDir, xfsMnt, nasVars>>

\* 4xx: the task was withdrawn.
CheckinWithdrawn ==
    /\ At("checkin_wait") /\ Answered("refused")
    /\ withdrawn' = TRUE /\ rc' = 2
    /\ Goto("exit")
    /\ Hangup
    /\ UNCHANGED <<srvVars, ret, inv, envVars, loopVars, sigVars, workVars>>

\* The rest of checkin, the mounts and the checks up to the start of the
\* status reporter; any of them may end in handleError.
Mount ==
    /\ At("mount")
    /\ \/ Goto("permit") /\ reporter' = TRUE /\ UNCHANGED ret
       \/ HandleError /\ UNCHANGED reporter
    /\ UNCHANGED <<srvVars, netVars, ctlVars, envVars, loopVars, term, workVars>>

-----------------------------------------------------------------------------
\* pxeos.upload up to the first artifact

AskPermit ==
    /\ At("permit")
    /\ Ask("permit", "permit_wait", stopped)
    /\ UNCHANGED <<srvVars, ret, ctlVars, envVars, loopVars, sigVars, workVars>>

PermitUncertain ==
    /\ GiveUp("permit_wait")
    /\ Goto("permit")
    /\ UNCHANGED <<srvVars, ret, ctlVars, envVars, loopVars, sigVars, workVars>>

\* Recording the binding and the second unused-disk check may still fail.
PermitGranted ==
    /\ At("permit_wait") /\ Answered("ok")
    /\ Hangup
    /\ \/ Goto("prepare") /\ UNCHANGED ret
       \/ HandleError
    /\ UNCHANGED <<srvVars, ctlVars, envVars, loopVars, sigVars, workVars>>

\* A denial asks task-status: a confirmed cancellation ends the task, anything
\* else (no answer included) is reported without passing through handleError.
PermitDenied ==
    /\ At("permit_wait") /\ Answered("refused")
    /\ Hangup
    /\ \/ status = "cancelled" /\ Goto("exit") /\ rc' = 2
       \/ Goto("err_reap") /\ UNCHANGED rc
    /\ UNCHANGED <<srvVars, ret, inv, withdrawn, envVars, loopVars, sigVars, workVars>>

\* rootpxe_capture_direct_prepare empties the staging directory.  Its result
\* is not looked at; only the marker written next is checked.
Prepare ==
    /\ At("prepare")
    /\ staging' \in SUBSET staging
    /\ \/ Goto("part") /\ UNCHANGED ret
       \/ HandleError
    /\ UNCHANGED <<srvVars, netVars, ctlVars, envVars, loopVars, sigVars, procVars, xfsVars, target>>

-----------------------------------------------------------------------------
\* The artifacts, one after the other (savePartition)

\* Binding verification, partition listing and the other checks before an
\* artifact may fail; an XFS partition has its log replayed first.
NextPart ==
    /\ At("part")
    /\ \E p \in todo : cur' = p
    /\ \/ Goto("spawn_writer") /\ UNCHANGED <<ret, xfsVars>>
       \/ Goto("xfs_mount") /\ xfsVar' = TRUE /\ xfsDir' = TRUE /\ UNCHANGED <<ret, xfsMnt>>
       \/ HandleError /\ UNCHANGED xfsVars
    /\ UNCHANGED <<srvVars, netVars, ctlVars, envVars, confirmed, sends, todo, sigVars, procVars, nasVars>>

XfsMount ==
    /\ At("xfs_mount")
    /\ \/ xfsMnt' = TRUE /\ Goto("xfs_umount")
       \/ Goto("xfs_rmdir_err") /\ UNCHANGED xfsMnt
    /\ UNCHANGED <<srvVars, netVars, ret, ctlVars, envVars, loopVars, sigVars, procVars, xfsVar, xfsDir, nasVars>>

\* A failed unmount is tried once more, but the capture is given up.
XfsUmount ==
    /\ At("xfs_umount")
    /\ \/ xfsMnt' = FALSE /\ Goto("xfs_unset") /\ UNCHANGED xfsVar
       \/ xfsMnt' = FALSE /\ xfsVar' = FALSE /\ Goto("xfs_rmdir_err")
       \/ Goto("xfs_rmdir_err") /\ UNCHANGED <<xfsMnt, xfsVar>>
    /\ UNCHANGED <<srvVars, netVars, ret, ctlVars, envVars, loopVars, sigVars, procVars, xfsDir, nasVars>>

\* xfs_repair -n decides between the two ways on.
XfsUnset ==
    /\ At("xfs_unset")
    /\ xfsVar' = FALSE
    /\ Goto("xfs_rmdir") \/ Goto("xfs_rmdir_err")
    /\ UNCHANGED <<srvVars, netVars, ret, ctlVars, envVars, loopVars, sigVars, procVars, xfsDir, xfsMnt, nasVars>>

XfsRmdir ==
    /\ At("xfs_rmdir")
    /\ \/ xfsDir' = FALSE /\ Goto("spawn_writer") /\ UNCHANGED ret
       \/ HandleError /\ UNCHANGED xfsDir
    /\ UNCHANGED <<srvVars, netVars, ctlVars, envVars, loopVars, sigVars, procVars, xfsVar, xfsMnt, nasVars>>

XfsRmdirErr ==
    /\ At("xfs_rmdir_err")
    /\ \/ ~xfsMnt /\ xfsDir' = FALSE
       \/ UNCHANGED xfsDir
    /\ Goto("xfs_check_err")
    /\ UNCHANGED <<srvVars, netVars, ret, ctlVars, envVars, loopVars, sigVars, procVars, xfsVar, xfsMnt, nasVars>>

XfsCheckErr ==
    /\ At("xfs_check_err")
    /\ xfsVar' = (xfsVar /\ xfsDir)
    /\ HandleError
    /\ UNCHANGED <<srvVars, netVars, ctlVars, envVars, loopVars, sigVars, procVars, xfsDir, xfsMnt, nasVars>>

\* uploadFormat forks the compressor; its pid is stored by later commands.
SpawnWriter ==
    /\ At("spawn_writer")
    /\ \/ /\ writ' = "forked" /\ prod' = "none" /\ fifo' = FALSE
          /\ staging' = staging \cup {<<nonce, cur, "part">>}
          /\ Goto("track_writer")
          /\ UNCHANGED ret
       \/ HandleError /\ UNCHANGED <<writ, prod, fifo, staging>>
    /\ UNCHANGED <<srvVars, netVars, ctlVars, envVars, loopVars, sigVars, prodPid, writPid, xfsVars, target>>

\* Storing the pid of a process.
Track(state) == IF state = "forked" THEN "run" ELSE state

TrackWriter ==
    /\ At("track_writer")
    /\ writPid' = TRUE /\ writ' = Track(writ)
    /\ Goto("spawn_producer")
    /\ UNCHANGED <<srvVars, netVars, ret, ctlVars, envVars, loopVars, sigVars, prod, prodPid, fifo, xfsVars, nasVars>>

\* rootpxe_capture_run_producer: fork, then store the pid, then wait.
SpawnProducer ==
    /\ At("spawn_producer")
    /\ prod' = "forked"
    /\ Goto("track_producer")
    /\ UNCHANGED <<srvVars, netVars, ret, ctlVars, envVars, loopVars, sigVars, prodPid, writ, writPid, fifo, xfsVars, nasVars>>

TrackProducer ==
    /\ At("track_producer")
    /\ prodPid' = TRUE /\ prod' = Track(prod)
    /\ Goto("wait_producer")
    /\ UNCHANGED <<srvVars, netVars, ret, ctlVars, envVars, loopVars, sigVars, writ, writPid, fifo, xfsVars, nasVars>>

WaitProducer ==
    /\ At("wait_producer") /\ prod \notin Live
    /\ prodPid' = FALSE
    /\ Goto("wait_writer")
    /\ UNCHANGED <<srvVars, netVars, ret, ctlVars, envVars, loopVars, sigVars, prod, writ, writPid, fifo, xfsVars, nasVars>>

\* mv <artifact>.000 <artifact>
Finished(p) ==
    {f \in staging : f[2] # p}
        \cup {<<nonce, p, IF prod = "ok" /\ writ = "ok" THEN "image" ELSE "torn">>}

\* Mutant: the producer's exit code is not looked at.
WaitWriterUnchecked ==
    /\ At("wait_writer") /\ writ \notin Live
    /\ writPid' = FALSE
    /\ writ = "ok"
    /\ staging' = Finished(cur)
    /\ todo' = todo \ {cur}
    /\ Goto("part")
    /\ UNCHANGED <<srvVars, netVars, ret, ctlVars, envVars, confirmed, sends, cur, sigVars, prod, prodPid, writ, fifo, xfsVars, target>>

\* Both exit codes, the progress decoder and the rename are checked.
WaitWriter ==
    /\ At("wait_writer") /\ writ \notin Live
    /\ writPid' = FALSE
    /\ \/ /\ prod = "ok" /\ writ = "ok"
          /\ staging' = Finished(cur)
          /\ todo' = todo \ {cur}
          /\ Goto("part")
          /\ UNCHANGED ret
       \/ HandleError /\ UNCHANGED <<staging, todo>>
    /\ UNCHANGED <<srvVars, netVars, ctlVars, envVars, confirmed, sends, cur, sigVars, prod, prodPid, writ, fifo, xfsVars, target>>

-----------------------------------------------------------------------------
\* completeTasking, pxeos.imgcomplete and rootpxe_capture_direct_finalize

\* Mutant: the reporter is left running.
CompleteUnreaped ==
    /\ At("part") /\ todo = {}
    /\ Goto("finalize")
    /\ UNCHANGED <<srvVars, netVars, ret, ctlVars, envVars, loopVars, sigVars, workVars>>

\* The reporter is killed and reaped before anything is finalized.
Complete ==
    /\ At("part") /\ todo = {}
    /\ reporter' = FALSE
    /\ Goto("finalize")
    /\ UNCHANGED <<srvVars, netVars, ret, ctlVars, envVars, loopVars, term, workVars>>

\* chmod, inventory, schema, metadata, paths and devices.
Finalize ==
    /\ At("finalize")
    /\ \/ Goto("fence") /\ UNCHANGED ret
       \/ HandleError
    /\ UNCHANGED <<srvVars, netVars, ctlVars, envVars, loopVars, sigVars, workVars>>

BeginPublish ==
    /\ At("fence")
    /\ Ask("fence", "fence_wait", stopped)
    /\ UNCHANGED <<srvVars, ret, ctlVars, envVars, loopVars, sigVars, workVars>>

PublishGranted ==
    /\ At("fence_wait") /\ Answered("ok")
    /\ Hangup
    /\ \/ Goto("remove") /\ UNCHANGED ret
       \/ HandleError                       \* size of the captured tree
    /\ UNCHANGED <<srvVars, ctlVars, envVars, loopVars, sigVars, workVars>>

\* Mutant: the result of rootpxe_capture_begin_publish is dropped.
PublishUnfenced ==
    /\ GiveUp("fence_wait")
    /\ Goto("remove")
    /\ UNCHANGED <<srvVars, ret, ctlVars, envVars, loopVars, sigVars, workVars>>

PublishRefused ==
    /\ GiveUp("fence_wait")
    /\ HandleError
    /\ UNCHANGED <<srvVars, ctlVars, envVars, loopVars, sigVars, workVars>>

\* rm -rf of the old target; a failure may leave any part of it.
RemoveTarget ==
    /\ At("remove")
    /\ \/ target' = {} /\ Goto("move") /\ UNCHANGED ret
       \/ target' \in SUBSET target /\ HandleError
    /\ UNCHANGED <<srvVars, netVars, ctlVars, envVars, loopVars, sigVars, procVars, xfsVars, staging>>

MoveStaging ==
    /\ At("move")
    /\ \/ target' = staging /\ staging' = {} /\ Goto("finish") /\ UNCHANGED ret
       \/ HandleError /\ UNCHANGED nasVars
    /\ UNCHANGED <<srvVars, netVars, ctlVars, envVars, loopVars, sigVars, procVars, xfsVars>>

\* finish always claims workerStopped=true.
Finish ==
    /\ At("finish")
    /\ Ask("finish", "finish_wait", TRUE)
    /\ UNCHANGED <<srvVars, ret, ctlVars, envVars, loopVars, sigVars, workVars>>

\* Mutant: any answer to finish counts as success.
FinishUnread ==
    /\ At("finish_wait") /\ reply.kind # "none"
    /\ released' = TRUE /\ rc' = 0
    /\ Goto("exit")
    /\ Hangup
    /\ UNCHANGED <<srvVars, ret, inv, withdrawn, nonce, direct, stopped, loopVars, sigVars, workVars>>

FinishAccepted ==
    /\ At("finish_wait") /\ Answered("ok")
    /\ released' = TRUE /\ rc' = 0
    /\ Goto("exit")
    /\ Hangup
    /\ UNCHANGED <<srvVars, ret, inv, withdrawn, nonce, direct, stopped, loopVars, sigVars, workVars>>

FinishRejected ==
    /\ At("finish_wait") /\ Answered("attention")
    /\ HandleError
    /\ Hangup
    /\ UNCHANGED <<srvVars, ctlVars, envVars, loopVars, sigVars, workVars>>

\* Mutant: one resend too many.
FinishOnceMore ==
    /\ GiveUp("finish_wait")
    /\ \/ sends <= FinishRetries /\ sends' = sends + 1 /\ Goto("finish") /\ UNCHANGED ret
       \/ sends > FinishRetries /\ HandleError /\ UNCHANGED sends
    /\ UNCHANGED <<srvVars, ctlVars, envVars, confirmed, todo, cur, sigVars, workVars>>

FinishUncertain ==
    /\ GiveUp("finish_wait")
    /\ \/ sends < FinishRetries /\ sends' = sends + 1 /\ Goto("finish") /\ UNCHANGED ret
       \/ sends = FinishRetries /\ HandleError /\ UNCHANGED sends
    /\ UNCHANGED <<srvVars, ctlVars, envVars, confirmed, todo, cur, sigVars, workVars>>

-----------------------------------------------------------------------------
\* rootpxe_capture_direct_quiesce, called by handleError and by the traps

\* SIGTERM to every process whose pid was stored.
Kill(state, pid) == IF pid /\ state = "run" THEN "term" ELSE state

QuiesceKill ==
    /\ At("q_kill")
    /\ stopped' = FALSE
    /\ prod' = Kill(prod, prodPid) /\ writ' = Kill(writ, writPid)
    /\ Goto("q_wait")
    /\ UNCHANGED <<srvVars, netVars, ret, ctlVars, nonce, direct, released, loopVars, sigVars, prodPid, writPid, fifo, xfsVars, nasVars>>

\* Mutant: the processes are signalled and not waited for.
QuiesceWaitMissing ==
    /\ At("q_wait")
    /\ prodPid' = FALSE /\ writPid' = FALSE
    /\ Goto("q_xfs")
    /\ UNCHANGED <<srvVars, netVars, ret, ctlVars, envVars, loopVars, sigVars, prod, writ, fifo, xfsVars, nasVars>>

QuiesceWait ==
    /\ At("q_wait")
    /\ prodPid => prod \notin Live
    /\ writPid => writ \notin Live
    /\ prodPid' = FALSE /\ writPid' = FALSE
    /\ Goto("q_xfs")
    /\ UNCHANGED <<srvVars, netVars, ret, ctlVars, envVars, loopVars, sigVars, prod, writ, fifo, xfsVars, nasVars>>

\* What follows a quiesce: handleError reports whatever its result was, a
\* trap acknowledges only a confirmed stop.
AfterQuiesce(ok) ==
    pc' = IF ret = "report" THEN "err_reap" ELSE IF ok THEN "ack" ELSE "cleaned"

QuiesceDone ==
    /\ At("q_xfs")
    /\ \/ ~xfsVar /\ UNCHANGED xfsVars
       \/ xfsVar /\ xfsDir /\ xfsVar' = FALSE /\ xfsDir' = FALSE /\ xfsMnt' = FALSE
    /\ stopped' = TRUE
    /\ AfterQuiesce(TRUE)
    /\ UNCHANGED <<srvVars, netVars, ret, ctlVars, nonce, direct, released, loopVars, sigVars, procVars, nasVars>>

\* The directory is gone, umount failed, or umount worked and rmdir failed.
QuiesceFailed ==
    /\ At("q_xfs") /\ xfsVar
    /\ xfsMnt' \in IF xfsDir THEN {xfsMnt, FALSE} ELSE {xfsMnt}
    /\ AfterQuiesce(FALSE)
    /\ UNCHANGED <<srvVars, netVars, ret, ctlVars, envVars, loopVars, sigVars, procVars, xfsVar, xfsDir, nasVars>>

-----------------------------------------------------------------------------
\* rootpxe_error_wait_for_retry and rootpxe_error_report

ReapReporter ==
    /\ At("err_reap")
    /\ reporter' = FALSE
    /\ Goto("err")
    /\ UNCHANGED <<srvVars, netVars, ret, ctlVars, envVars, loopVars, term, workVars>>

ReportError ==
    /\ At("err")
    /\ Ask("error", "err_wait", stopped)
    /\ UNCHANGED <<srvVars, ret, ctlVars, envVars, loopVars, sigVars, workVars>>

ReportUncertain ==
    /\ GiveUp("err_wait")
    /\ Goto("err")
    /\ UNCHANGED <<srvVars, ret, ctlVars, envVars, loopVars, sigVars, workVars>>

ReportAccepted ==
    /\ At("err_wait") /\ Answered("ok")
    /\ confirmed' = TRUE
    /\ released' = (released \/ (direct /\ stopped))
    /\ Goto("poll")
    /\ Hangup
    /\ UNCHANGED <<srvVars, ret, ctlVars, nonce, direct, stopped, sends, todo, cur, sigVars, workVars>>

\* A 4xx is final: never sent again, and no retry is accepted.
ReportRejected ==
    /\ At("err_wait") /\ Answered("refused")
    /\ Goto("poll")
    /\ Hangup
    /\ UNCHANGED <<srvVars, ret, ctlVars, envVars, loopVars, sigVars, workVars>>

\* task-status says queued: exec /bin/pxeos.  Exported variables survive, the
\* others do not; rootpxe_storage_reset_retry_state unsets the nonce.
RetryTask ==
    /\ At("poll") /\ confirmed /\ status = "queued" /\ inv < MaxInvocation
    /\ inv' = inv + 1
    /\ nonce' = 0 /\ released' = FALSE
    /\ confirmed' = FALSE /\ sends' = 0 /\ todo' = Parts /\ cur' = Stale
    /\ xfsVar' = FALSE
    /\ prodPid' = FALSE /\ writPid' = FALSE
    /\ Goto("checkin")
    /\ UNCHANGED <<srvVars, netVars, ret, rc, withdrawn, direct, stopped, sigVars, prod, writ, fifo, xfsDir, xfsMnt, nasVars>>

PollTerminal ==
    /\ At("poll") /\ confirmed /\ status = "cancelled"
    /\ rc' = 2
    /\ Goto("exit")
    /\ UNCHANGED <<srvVars, netVars, ret, inv, withdrawn, envVars, loopVars, sigVars, workVars>>

\* Mutant: the deadline bounds the wait but not the report before it.
DeadlineOfWaitOnly ==
    /\ pc = "poll" /\ ~term
    /\ rc' = 2
    /\ Goto("exit")
    /\ Hangup
    /\ UNCHANGED <<srvVars, ret, inv, withdrawn, envVars, loopVars, sigVars, workVars>>

\* The failure deadline bounds the report (requests included) and the wait.
Deadline ==
    /\ pc \in {"err", "err_wait", "poll"} /\ ~term
    /\ rc' = 2
    /\ Goto("exit")
    /\ Hangup
    /\ UNCHANGED <<srvVars, ret, inv, withdrawn, envVars, loopVars, sigVars, workVars>>

-----------------------------------------------------------------------------
\* Traps: rootpxe_upload_cleanup_session, rootpxe_cleanup_session

\* SIGTERM: killStatusReporter, cleanup, exit 143 and then the EXIT trap,
\* unless that one is what has been interrupted.
TermTrap ==
    /\ term /\ pc # "halt"
    /\ term' = FALSE /\ reporter' = FALSE
    /\ rc' = 143
    /\ ret' = IF pc = "exit" THEN "exit" ELSE "term"
    /\ Goto("cleanup")
    /\ Hangup
    /\ UNCHANGED <<srvVars, inv, withdrawn, envVars, loopVars, workVars>>

\* EXIT trap: killStatusReporter first.
ExitTrap ==
    /\ At("exit")
    /\ reporter' = FALSE
    /\ ret' = "exit"
    /\ Goto("cleanup")
    /\ UNCHANGED <<srvVars, netVars, ctlVars, envVars, loopVars, term, workVars>>

\* rootpxe_capture_direct_stop_ack does nothing once released.
Cleanup ==
    /\ At("cleanup")
    /\ Goto(IF direct /\ ~released THEN "q_kill" ELSE "cleaned")
    /\ UNCHANGED <<srvVars, netVars, ret, ctlVars, envVars, loopVars, sigVars, workVars>>

StopAck ==
    /\ At("ack")
    /\ Ask("error", "ack_wait", TRUE)
    /\ UNCHANGED <<srvVars, ret, ctlVars, envVars, loopVars, sigVars, workVars>>

StopAckAccepted ==
    /\ At("ack_wait") /\ Answered("ok")
    /\ released' = TRUE
    /\ Goto("cleaned")
    /\ Hangup
    /\ UNCHANGED <<srvVars, ret, ctlVars, nonce, direct, stopped, loopVars, sigVars, workVars>>

StopAckFailed ==
    /\ GiveUp("ack_wait")
    /\ Goto("cleaned")
    /\ UNCHANGED <<srvVars, ret, ctlVars, envVars, loopVars, sigVars, workVars>>

Cleaned ==
    /\ At("cleaned")
    /\ Goto(IF ret = "term" THEN "exit" ELSE "halt")
    /\ UNCHANGED <<srvVars, netVars, ret, ctlVars, envVars, loopVars, sigVars, workVars>>

-----------------------------------------------------------------------------
\* Everything that is not the controller

\* Mutant: the reporter sees the cancellation and does not signal.
ReporterSilent ==
    /\ reporter /\ status = "cancelled"
    /\ reporter' = FALSE
    /\ UNCHANGED <<srvVars, netVars, pc, ret, ctlVars, envVars, loopVars, term, workVars>>

\* capture_poll_cancel of the reporter: SIGTERM to the controller, then exit.
ReporterCancel ==
    /\ reporter /\ status = "cancelled"
    /\ term' = TRUE /\ reporter' = FALSE
    /\ UNCHANGED <<srvVars, netVars, pc, ret, ctlVars, envVars, loopVars, workVars>>

\* partclone checks its arguments and the source before it opens the FIFO.
ProducerOpen ==
    /\ prod \in {"forked", "run"} /\ ~fifo
    /\ fifo' = TRUE
    /\ UNCHANGED <<srvVars, netVars, pc, ret, ctlVars, envVars, loopVars, sigVars, prod, prodPid, writ, writPid, xfsVars, nasVars>>

ProducerExit ==
    /\ prod \in {"forked", "run"}
    /\ prod' \in IF fifo THEN {"ok", "fail"} ELSE {"fail"}
    /\ UNCHANGED <<srvVars, netVars, pc, ret, ctlVars, envVars, loopVars, sigVars, prodPid, writ, writPid, fifo, xfsVars, nasVars>>

\* The compressor is blocked in the opening of the FIFO until the producer
\* opens it; it may fail from then on, and meets the end of file once the
\* producer has gone.
WriterFail ==
    /\ writ \in {"forked", "run"} /\ fifo
    /\ writ' = "fail"
    /\ UNCHANGED <<srvVars, netVars, pc, ret, ctlVars, envVars, loopVars, sigVars, prod, prodPid, writPid, fifo, xfsVars, nasVars>>

WriterEnd ==
    /\ writ \in {"forked", "run"} /\ fifo /\ prod \notin Live
    /\ writ' = "ok"
    /\ UNCHANGED <<srvVars, netVars, pc, ret, ctlVars, envVars, loopVars, sigVars, prod, prodPid, writPid, fifo, xfsVars, nasVars>>

ProducerKilled ==
    /\ prod = "term" /\ prod' = "fail"
    /\ UNCHANGED <<srvVars, netVars, pc, ret, ctlVars, envVars, loopVars, sigVars, prodPid, writ, writPid, fifo, xfsVars, nasVars>>

WriterKilled ==
    /\ writ = "term" /\ writ' = "fail"
    /\ UNCHANGED <<srvVars, netVars, pc, ret, ctlVars, envVars, loopVars, sigVars, prod, prodPid, writPid, fifo, xfsVars, nasVars>>

\* Reset, power loss or the reboot after the task: only the NAS, the service
\* and the requests under way remain.
PowerCycle ==
    /\ inv < MaxInvocation
    /\ inv' = inv + 1
    /\ pc' = "checkin" /\ ret' = "none" /\ rc' = 0 /\ withdrawn' = FALSE
    /\ nonce' = 0 /\ direct' = FALSE /\ stopped' = FALSE /\ released' = FALSE
    /\ confirmed' = FALSE /\ sends' = 0 /\ todo' = Parts /\ cur' = Stale
    /\ reporter' = FALSE /\ term' = FALSE
    /\ prod' = "none" /\ prodPid' = FALSE /\ writ' = "none" /\ writPid' = FALSE /\ fifo' = FALSE
    /\ xfsVar' = FALSE /\ xfsDir' = FALSE /\ xfsMnt' = FALSE
    /\ Hangup
    /\ UNCHANGED <<srvVars, nasVars>>

\* A machine that was switched off stays off.
PoweredOff == pc = "halt" /\ UNCHANGED vars

Service ==
    /\ \/ \E m \in net : Serve(m)
       \/ Cancel \/ Retry
    /\ UNCHANGED <<pc, ret, ctlVars, envVars, loopVars, sigVars, workVars>>

CheckinStep == Checkin \/ CheckinUncertain \/ CheckinAccepted \/ CheckinWithdrawn \/ Mount

PermitStep == AskPermit \/ PermitUncertain \/ PermitGranted \/ PermitDenied \/ Prepare

XfsStep == XfsMount \/ XfsUmount \/ XfsUnset \/ XfsRmdir \/ XfsRmdirErr \/ XfsCheckErr

ArtifactStep ==
    \/ NextPart \/ XfsStep
    \/ SpawnWriter \/ TrackWriter \/ SpawnProducer \/ TrackProducer
    \/ WaitProducer \/ WaitWriter

PublishStep ==
    \/ Complete \/ Finalize \/ BeginPublish \/ PublishGranted \/ PublishRefused
    \/ RemoveTarget \/ MoveStaging
    \/ Finish \/ FinishAccepted \/ FinishRejected \/ FinishUncertain

QuiesceStep == QuiesceKill \/ QuiesceWait \/ QuiesceDone \/ QuiesceFailed

FailureStep ==
    \/ ReapReporter \/ ReportError \/ ReportUncertain \/ ReportAccepted
    \/ ReportRejected \/ RetryTask \/ PollTerminal

ExitStep ==
    \/ TermTrap \/ ExitTrap \/ Cleanup
    \/ StopAck \/ StopAckAccepted \/ StopAckFailed \/ Cleaned

Controller ==
    \/ CheckinStep \/ PermitStep \/ ArtifactStep \/ PublishStep
    \/ QuiesceStep \/ FailureStep \/ Deadline \/ ExitStep

Environment ==
    \/ ReporterCancel
    \/ ProducerOpen \/ ProducerExit \/ WriterFail \/ WriterEnd
    \/ ProducerKilled \/ WriterKilled
    \/ PowerCycle \/ PoweredOff

Next == Controller \/ Environment \/ Service

Spec == Init /\ [][Next]_vars

\* The controller keeps running commands, the clock reaches the failure
\* deadline, the reporter keeps polling, a process that got SIGTERM dies and a
\* compressor at end of file ends.  Nothing is assumed of the network, of the
\* service, or of a producer that nobody signalled.
Fairness ==
    /\ WF_vars(Controller)
    /\ WF_vars(Deadline)
    /\ WF_vars(ReporterCancel)
    /\ WF_vars(ProducerKilled) /\ WF_vars(WriterKilled) /\ WF_vars(WriterEnd)

FairSpec == Spec /\ Fairness

-----------------------------------------------------------------------------
\* Safety

Busy == prod \in Tracked \/ writ \in Tracked \/ xfsMnt

\* The occupancy of an attempt is given back only after every producer and
\* writer whose pid was stored has been waited for, and after the XFS partition
\* mounted read-write has been unmounted (rootpxe_capture_direct_quiesce before
\* every workerStopped=true).
SafeRelease == Busy => (nonce # 0 /\ holder = nonce)

\* The published tree changes only while the service holds the task in
\* "publishing" for the very attempt that changes it, so never after a
\* cancellation and never by a superseded attempt
\* (rootpxe_capture_begin_publish before the first rm).
FenceBeforeMutation ==
    [][target' # target => status = "publishing" /\ attempt = nonce /\ holder = nonce]_vars

\* All there is of partition p in a tree is the complete artifact of attempt a.
HasImage(tree, a, p) ==
    /\ <<a, p, "image">> \in tree
    /\ \A f \in tree : f[2] = p => f = <<a, p, "image">>

\* A finished task has a complete artifact of every partition, written by the
\* attempt that finished, in the published tree: no torn artifact and no mixture
\* of attempts is reported as success (exit codes checked by savePartition,
\* whole-tree move of rootpxe_capture_direct_finalize).
FinishedImageComplete ==
    status = "finished" => \A p \in Parts : HasImage(target, attempt, p)

PublishPCs == {"finalize", "fence", "fence_wait", "remove", "move", "finish", "finish_wait"}

\* From the start of completion no cancellation trap can interrupt it: the
\* reporter has been reaped and no SIGTERM is pending (completeTasking).
NoAbortWhilePublishing == [][(pc \in PublishPCs) => ~(term' \/ reporter')]_vars

\* The exit code that starts the completion power action is given only for a
\* task that the service has recorded as finished (pxeos.imgcomplete).
SuccessIsConfirmed == (pc = "halt" /\ rc = 0) => status = "finished"

-----------------------------------------------------------------------------
\* Refinement

\* The attempt whose worker is at the staging directory or at the source disk.
Worker == IF Busy THEN nonce ELSE 0
\* A queued attempt has not been opened yet.
Opened == IF status = "queued" THEN attempt - 1 ELSE attempt

Hold == INSTANCE StorageHold WITH owner <- holder, last <- Opened, worker <- Worker

\* The client and the service together implement the holding of storage: it is
\* held for one attempt at a time, no worker is at it otherwise, and it is given
\* back only when the worker has stopped, through every retry, lost or delayed
\* request and power cycle.
ImplementsHold == Hold!HoldSpec

-----------------------------------------------------------------------------
\* Liveness

FailurePCs == {"q_kill", "q_wait", "q_xfs", "err_reap", "err", "err_wait", "poll"}

\* A task that failed always comes to its end: the machine halts, or a new
\* invocation of the task begins (failure deadline of handleError).
FailureEnds == pc \in FailurePCs ~> pc \in {"halt", "checkin"}

\* A cancelled capture stops its producer and its writer, whether or not they
\* would ever end by themselves (reporter poll, TERM trap, quiesce).
CancelStopsWorkers == (status = "cancelled" /\ Busy) ~> ~(prod \in Tracked \/ writ \in Tracked)

-----------------------------------------------------------------------------
\* Statements of the documentation and of comments that the code departs from

\* docs (RootPXE integration): all producers, compressors and writers are
\* stopped and waited for before workerStopped=true is confirmed and the
\* occupancy released.
AllWorkersStoppedBeforeRelease ==
    (prod \in Live \/ writ \in Live) => (nonce # 0 /\ holder = nonce)

\* Comment in pxeos.checkin: no task callback is allowed once the checkin was
\* answered with 4xx.
NoCallbackAfterWithdrawn == withdrawn => pc # "ack_wait"

\* docs (troubleshooting): the web retry is offered only when the error report
\* is confirmed and the occupancy safely stopped and released.
RetryOfferedOnlyAfterRelease == (pc = "poll" /\ confirmed) => released

\* docs (RootPXE integration): a capture clears its MAC staging directory and
\* publishes without merging old files.
PublishedTreeIsFresh == status = "finished" => \A f \in target : f[1] = attempt

\* docs (upstream notes): writer, producer, decompressor and restore pipelines
\* fail loudly, so a producer that failed makes the capture go on to its error.
ProducerFailureIsLoud ==
    (pc = "wait_writer" /\ prod = "fail") ~> pc # "wait_writer"
=============================================================================
