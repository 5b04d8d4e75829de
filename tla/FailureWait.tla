---------------------------- MODULE FailureWait ----------------------------
(***************************************************************************)
(* What happens between the first failure of a task and the end of its     *)
(* process: handleError and rootpxe_error_wait_for_retry of lib/funcs.sh,  *)
(* the storage cleanup and recovery of lib/storage-io.sh they run, and the *)
(* checkins and completions that lead there.                               *)
(*                                                                         *)
(* Time is discrete.  `now' counts seconds since this run of /bin/pxeos    *)
(* began; a curl, a read or a sleep is given its end `until' when it       *)
(* starts.  Commands between them take no time.  Joining a child has no    *)
(* timeout in the code and none here.                                      *)
(***************************************************************************)
EXTENDS Naturals, Integers

CONSTANTS DefaultWait,   \* 600: failureWaitSec when checkin sends none
          MinWait,       \* 60
          MaxWait,       \* 3600
          RequestMax,    \* 30: --max-time of a report or a storage call
          PollMax,       \* 20: --max-time of task-status
          Pause,         \* 5: sleep between two tries
          Offers,        \* waitSec values a service may send, valid or not
          MaxIdle,       \* bound: seconds a step without a timeout may take
          MaxRun         \* bound: runs of /bin/pxeos in one boot

ASSUME WaitAssumption ==
    /\ DefaultWait \in Nat /\ MinWait \in Nat /\ MaxWait \in Nat
    /\ 0 < MinWait /\ MinWait <= DefaultWait /\ DefaultWait <= MaxWait
    /\ RequestMax \in Nat \ {0} /\ PollMax \in Nat \ {0} /\ Pause \in Nat \ {0}
    /\ Offers \subseteq Int
    /\ MaxIdle \in Nat /\ MaxRun \in Nat \ {0}

VARIABLES
    now,         \* seconds since this run began
    pc,          \* the command about to run or under way
    until,       \* when the bounded command under way ends at the latest
    run,         \* number of this run of /bin/pxeos
    kind,        \* what the checkin asked for: "task" or "recovery" (storageOnly)
    started,     \* rootpxe_failure_started_at, NotStarted when unset
    wait,        \* rootpxe_failure_wait_sec (exported)
    action,      \* rootpxe_failure_action (exported)
    deadline,    \* rootpxe_failure_deadline
    fixed,       \* rootpxe_failure_policy_confirmed
    rejected,    \* rootpxe_failure_report_rejected
    answer,      \* rootpxe_error_report_response says accepted
    reporter,    \* who called rootpxe_error_report: "cleanup" or "wait"
    recoverer,   \* who called rootpxe_storage_recover_until_clean
    workspace,   \* rootpxe_storage_workspace is set
    ready,       \* ready.json is in the workspace
    helper,      \* a storage helper process exists
    stopped,     \* rootpxe_storage_stopped
    released,    \* rootpxe_storage_released
    actionFile,  \* /tmp/pxeos.failure_action
    shutdown,    \* /tmp/pxeos.shutdown holds 1
    marker,      \* /tmp/pxeos.storage-recovery-only exists
    rc           \* exit code of the run

window == <<started, wait, action, deadline, fixed, actionFile>>
storage == <<workspace, ready, helper, stopped, released>>
session == <<run, kind, shutdown, marker>>
calls == <<answer, reporter, recoverer>>
vars == <<now, pc, until, window, rejected, calls, storage, session, rc>>

Action == {"reboot", "shutdown"}
NotStarted == -1

\* Commands that end by their own timeout, and sleeps.
Requests == {"report_wait", "release_wait", "rec_release_wait", "rec_ready_wait",
             "rec_preflight_wait", "rec_owned_wait", "rec_final_wait", "poll_wait"}
Sleeps == {"report_pause", "rec_pause", "hold_pause"}
\* Work and joins of children: no timeout.
Unbounded == {"checkin", "run", "finish_wait", "quiesce", "rec_begin", "rec_restart",
              "rec_stop", "rec_join", "exit"}
Instant == {"report", "release", "rec", "rec_start", "rec_preflight", "rec_owned",
            "rec_final", "notify", "hold", "ended"}

FlagsOK ==
    /\ fixed \in BOOLEAN /\ rejected \in BOOLEAN /\ answer \in BOOLEAN
    /\ workspace \in BOOLEAN /\ ready \in BOOLEAN /\ helper \in BOOLEAN
    /\ stopped \in BOOLEAN /\ released \in BOOLEAN
    /\ shutdown \in BOOLEAN /\ marker \in BOOLEAN

DataOK ==
    /\ now \in Nat /\ until \in Nat
    /\ pc \in Requests \cup Sleeps \cup Unbounded \cup Instant
    /\ run \in 1..MaxRun
    /\ kind \in {"none", "task", "recovery"}
    /\ started \in Nat \cup {NotStarted}
    /\ wait \in MinWait..MaxWait
    /\ action \in Action
    /\ deadline \in Nat
    /\ reporter \in {"none", "cleanup", "wait"}
    /\ recoverer \in {"none", "cleanup", "finish", "download"}
    /\ actionFile \in Action \cup {"none"}
    /\ rc \in 0..2

\* The type of every variable.
TypeOK == FlagsOK /\ DataOK

Init ==
    /\ now = 0 /\ until = 0 /\ pc = "checkin" /\ run = 1 /\ kind = "none"
    /\ started = NotStarted /\ wait = DefaultWait /\ action = "reboot"
    /\ deadline = 0 /\ fixed = FALSE /\ rejected = FALSE
    /\ answer = FALSE /\ reporter = "none" /\ recoverer = "none"
    /\ workspace = FALSE /\ ready = FALSE /\ helper = FALSE
    /\ stopped = FALSE /\ released = FALSE
    /\ actionFile = "none" /\ shutdown = FALSE /\ marker = FALSE
    /\ rc = 0

-----------------------------------------------------------------------------
\* rootpxe_failure_begin and rootpxe_failure_remaining

\* Mutant: every caller starts a window of its own.
WindowRestarted ==
    /\ started' = now
    /\ deadline' = now + wait
    /\ actionFile' = action
    /\ UNCHANGED <<wait, action, fixed>>

\* rootpxe_failure_begin without a response: only the first call has an effect.
BeginWindow ==
    IF started = NotStarted
    THEN /\ started' = now
         /\ deadline' = now + wait
         /\ actionFile' = action
         /\ UNCHANGED <<wait, action, fixed>>
    ELSE UNCHANGED window

\* Mutant: the response is taken as it is.
PolicyUnchecked(w, a) ==
    /\ wait' = w
    /\ action' = IF a \in Action THEN a ELSE action
    /\ deadline' = started + w
    /\ fixed' = TRUE
    /\ actionFile' = action'
    /\ UNCHANGED started

\* Mutant: the new action is not written for init.
PolicyNotWritten(w, a) ==
    /\ wait' = IF w \in MinWait..MaxWait THEN w ELSE wait
    /\ action' = IF a \in Action THEN a ELSE action
    /\ deadline' = started + wait'
    /\ fixed' = TRUE
    /\ UNCHANGED <<started, actionFile>>

\* rootpxe_failure_begin with an accepted response that carries waitSec w and
\* failureAction a; values out of range fall back to the policy in force.
AdoptPolicy(w, a) ==
    IF fixed
    THEN UNCHANGED window
    ELSE /\ wait' = IF w \in MinWait..MaxWait THEN w ELSE wait
         /\ action' = IF a \in Action THEN a ELSE action
         /\ deadline' = started + wait'
         /\ fixed' = TRUE
         /\ actionFile' = action'
         /\ UNCHANGED started

Remaining == deadline - now
Capped(cap) == IF Remaining < cap THEN Remaining ELSE cap

\* Mutant: the timeout of a command is not cut to what remains.
UncappedBounded(l, cap) == pc' = l /\ until' = now + cap

\* Start a command that ends after at most cap seconds, or at the deadline.
Bounded(l, cap) == pc' = l /\ until' = now + Capped(cap)

Goto(l) == pc' = l /\ UNCHANGED until
Exit(code) == Goto("exit") /\ rc' = code

\* The sleep after a failed try; without time left the function returns 2.
PauseOr(l, Late) ==
    \/ Remaining > 0 /\ Bounded(l, Pause) /\ UNCHANGED <<rc>>
    \/ Remaining <= 0 /\ Late

-----------------------------------------------------------------------------
\* checkin_rootpxe of bin/pxeos.checkin

\* An accepted checkin: the failure policy (defaults when absent), the finish
\* action, and for a storage-only session the marker for init.
Checkin(k, w, a, off, managed) ==
    /\ pc = "checkin"
    /\ k = "recovery" => managed
    /\ kind' = k
    /\ wait' = w /\ action' = a
    /\ shutdown' = off
    /\ marker' = (marker \/ k = "recovery")
    /\ workspace' = managed
    /\ Goto("run")
    /\ UNCHANGED <<now, run, started, deadline, fixed, actionFile, rejected, calls,
                   ready, helper, stopped, released, rc>>

CheckinAny ==
    \E k \in {"task", "recovery"}, w \in (Offers \cap MinWait..MaxWait) \cup {DefaultWait},
       a \in Action, off \in BOOLEAN, managed \in BOOLEAN :
        Checkin(k, w, a, off, managed)

\* A 4xx answer: the task was withdrawn, init shall reboot.
CheckinRefused ==
    /\ pc = "checkin"
    /\ actionFile' = "reboot"
    /\ Exit(2)
    /\ UNCHANGED <<now, started, wait, action, deadline, fixed, rejected, calls, storage, session>>

\* A response refused before its policy is taken over: handleError without a
\* workspace.  One refused later is Checkin and then Fail.
CheckinInvalid ==
    /\ pc = "checkin"
    /\ BeginWindow
    /\ Goto("notify")
    /\ UNCHANGED <<now, rejected, calls, storage, session, rc>>

-----------------------------------------------------------------------------
\* The task: only the steps that matter for its end

\* bin/pxeos.mount: rootpxe_storage_start.
StartHelper ==
    /\ pc = "run" /\ workspace /\ ~ready
    /\ helper' = TRUE /\ ready' = TRUE /\ stopped' = FALSE
    /\ UNCHANGED <<now, pc, until, window, rejected, calls, workspace, released, session, rc>>

\* handleError: open the window, then clean up the storage of a managed task.
Fail ==
    /\ pc = "run"
    /\ BeginWindow
    /\ Goto(IF workspace /\ ~released THEN "quiesce" ELSE "notify")
    /\ UNCHANGED <<now, rejected, calls, storage, session, rc>>

\* rootpxe_report_disk_permit_denial waits without the storage cleanup.
PermitDenied ==
    /\ pc = "run" /\ kind = "task"
    /\ workspace => ready
    /\ BeginWindow
    /\ Goto("notify")
    /\ UNCHANGED <<now, rejected, calls, storage, session, rc>>

\* The permit was cancelled with the task (code 10): init shall reboot.
PermitCancelled ==
    /\ pc = "run" /\ kind = "task"
    /\ workspace => ready
    /\ actionFile' = "reboot"
    /\ Exit(2)
    /\ UNCHANGED <<now, started, wait, action, deadline, fixed, rejected, calls, storage, session>>

\* A signal: the traps end the run without a failure window.
Killed ==
    /\ pc \in {"checkin", "run"}
    /\ Exit(1)
    /\ UNCHANGED <<now, window, rejected, calls, storage, session>>

\* bin/pxeos.imgcomplete, finish accepted: a managed task stops its helper and
\* asks for the release; a capture was released by the finish itself.
Complete ==
    /\ pc = "run" /\ kind = "task"
    /\ workspace => ready
    /\ IF workspace
       THEN /\ helper' = FALSE /\ stopped' = TRUE
            /\ Goto("finish_wait")
            /\ UNCHANGED rc
       ELSE Exit(0) /\ UNCHANGED <<helper, stopped>>
    /\ UNCHANGED <<now, window, rejected, calls, workspace, ready, released, session>>

FinishReleased ==
    /\ pc = "finish_wait"
    /\ released' = TRUE
    /\ Exit(0)
    /\ UNCHANGED <<now, window, rejected, calls, workspace, ready, helper, stopped, session>>

FinishUnreleased ==
    /\ pc = "finish_wait"
    /\ BeginWindow
    /\ recoverer' = "finish"
    /\ Goto("rec_begin")
    /\ UNCHANGED <<now, rejected, answer, reporter, storage, session, rc>>

\* bin/pxeos.download in a storage-only session.
RecoverOnly ==
    /\ pc = "run" /\ kind = "recovery" /\ ready
    /\ BeginWindow
    /\ recoverer' = "download"
    /\ Goto("rec_begin")
    /\ UNCHANGED <<now, rejected, answer, reporter, storage, session, rc>>

TaskStep ==
    \/ CheckinAny \/ CheckinRefused \/ CheckinInvalid
    \/ StartHelper \/ Fail \/ PermitDenied \/ PermitCancelled \/ Killed
    \/ Complete \/ FinishReleased \/ FinishUnreleased \/ RecoverOnly

-----------------------------------------------------------------------------
\* rootpxe_error_report

\* rootpxe_storage_failure_cleanup: join the helper and writers, then report.
QuiesceDone ==
    /\ pc = "quiesce"
    /\ helper' = FALSE /\ stopped' = TRUE
    /\ reporter' = "cleanup"
    /\ answer' = FALSE
    /\ Goto("report")
    /\ UNCHANGED <<now, window, rejected, recoverer, workspace, ready, released, session, rc>>

\* The report returned 0 (ans) or 1: cleanup goes on with the release, the wait
\* with its loop.
ReportReturn == Goto(IF reporter = "cleanup" THEN "release" ELSE "hold") /\ UNCHANGED rc

\* It returned 2: cleanup and handleError exit, the wait goes on to its loop
\* and times out there.
ReportLate == IF reporter = "cleanup" THEN Exit(2) ELSE Goto("hold") /\ UNCHANGED rc

ReportSend ==
    /\ pc = "report"
    /\ \/ Remaining > 0 /\ Bounded("report_wait", RequestMax) /\ UNCHANGED rc
       \/ Remaining <= 0 /\ ReportLate
    /\ UNCHANGED <<now, window, rejected, calls, storage, session>>

\* A 2xx answer with accepted = true.
ReportAccepted(w, a) ==
    /\ pc = "report_wait"
    /\ AdoptPolicy(w, a)
    /\ answer' = TRUE
    /\ ReportReturn
    /\ UNCHANGED <<now, rejected, reporter, recoverer, storage, session>>

\* 4xx other than 408 and 429.
ReportRejected ==
    /\ pc = "report_wait"
    /\ rejected' = TRUE
    /\ ReportReturn
    /\ UNCHANGED <<now, window, calls, storage, session>>

\* No answer, 5xx, 408, 429, or a 2xx that does not accept.
ReportUnsure ==
    /\ pc = "report_wait"
    /\ PauseOr("report_pause", ReportLate)
    /\ UNCHANGED <<now, window, rejected, calls, storage, session>>

ReportAgain ==
    /\ pc = "report_pause" /\ now = until
    /\ Goto("report")
    /\ UNCHANGED <<now, window, rejected, calls, storage, session, rc>>

ReportStep ==
    \/ QuiesceDone \/ ReportSend \/ ReportRejected \/ ReportUnsure \/ ReportAgain
    \/ \E w \in Offers, a \in Action \cup {"none"} : ReportAccepted(w, a)

-----------------------------------------------------------------------------
\* The release in rootpxe_storage_failure_cleanup

\* rootpxe_storage_call fails at once when no time remains.
Unreleased ==
    IF ready
    THEN Goto("rec_begin") /\ recoverer' = "cleanup"
    ELSE Goto("notify") /\ UNCHANGED recoverer

ReleaseSend ==
    /\ pc = "release"
    /\ \/ Remaining > 0 /\ Bounded("release_wait", RequestMax) /\ UNCHANGED recoverer
       \/ Remaining <= 0 /\ Unreleased
    /\ UNCHANGED <<now, window, rejected, answer, reporter, storage, session, rc>>

ReleaseConfirmed ==
    /\ pc = "release_wait"
    /\ released' = TRUE
    /\ Goto("notify")
    /\ UNCHANGED <<now, window, rejected, calls, workspace, ready, helper, stopped, session, rc>>

ReleaseFailed ==
    /\ pc = "release_wait"
    /\ Unreleased
    /\ UNCHANGED <<now, window, rejected, answer, reporter, storage, session, rc>>

-----------------------------------------------------------------------------
\* rootpxe_storage_recover_until_clean and rootpxe_storage_recover_once

RecoverDone ==
    IF recoverer = "cleanup" THEN Goto("notify") /\ UNCHANGED rc ELSE Exit(0)

\* The old helper and every writer are joined before the first try.
RecoverBegin ==
    /\ pc = "rec_begin"
    /\ helper' = FALSE /\ stopped' = TRUE
    /\ Goto("rec")
    /\ UNCHANGED <<now, window, rejected, calls, workspace, ready, released, session, rc>>

\* A release whose reply was lost is asked for again first.
RecoverTry ==
    /\ pc = "rec"
    /\ \/ Remaining > 0 /\ Bounded("rec_release_wait", RequestMax) /\ UNCHANGED rc
       \/ Remaining <= 0 /\ Exit(2)
    /\ UNCHANGED <<now, window, rejected, calls, storage, session>>

RecoverAcknowledged ==
    /\ pc \in {"rec_release_wait", "rec_final_wait"}
    /\ released' = TRUE
    /\ RecoverDone
    /\ UNCHANGED <<now, window, rejected, calls, workspace, ready, helper, stopped, session>>

RecoverRefused ==
    /\ pc = "rec_release_wait"
    /\ Goto("rec_start")
    /\ UNCHANGED <<now, window, rejected, calls, storage, session, rc>>

\* rootpxe_storage_start: fork the helper and read its first line.
RecoverStart ==
    /\ pc = "rec_start"
    /\ \/ Remaining > 0 /\ helper' = TRUE /\ Bounded("rec_ready_wait", RequestMax)
       \/ Remaining <= 0 /\ Goto("rec_join") /\ UNCHANGED helper
    /\ UNCHANGED <<now, window, rejected, calls, workspace, ready, stopped, released, session, rc>>

RecoverReady ==
    /\ pc = "rec_ready_wait"
    /\ ready' = TRUE
    /\ Goto("rec_preflight")
    /\ UNCHANGED <<now, window, rejected, calls, workspace, helper, stopped, released, session, rc>>

RecoverPreflight ==
    /\ pc = "rec_preflight"
    /\ \/ Remaining > 0 /\ Bounded("rec_preflight_wait", RequestMax)
       \/ Remaining <= 0 /\ Goto("rec_join")
    /\ UNCHANGED <<now, window, rejected, calls, storage, session, rc>>

\* The sequence of the preflight is the helper's, or the helper is joined and
\* started again at the new one.
RecoverAdmitted ==
    /\ pc = "rec_preflight_wait"
    /\ \/ stopped' = FALSE /\ Goto("rec_owned")
       \/ UNCHANGED stopped /\ Goto("rec_restart")
    /\ UNCHANGED <<now, window, rejected, calls, workspace, ready, helper, released, session, rc>>

RecoverRestart ==
    /\ pc = "rec_restart"
    /\ helper' = FALSE /\ stopped' = TRUE
    /\ Goto("rec_start") \/ Goto("rec_join")
    /\ UNCHANGED <<now, window, rejected, calls, workspace, ready, released, session, rc>>

\* rootpxe_storage_owned: the disposition, read or completed for a deploy.
RecoverOwned ==
    /\ pc = "rec_owned"
    /\ \/ Remaining > 0 /\ Bounded("rec_owned_wait", RequestMax)
       \/ Remaining <= 0 /\ Goto("rec_join")
    /\ UNCHANGED <<now, window, rejected, calls, storage, session, rc>>

RecoverDisposed ==
    /\ pc = "rec_owned_wait"
    /\ Goto("rec_stop")
    /\ UNCHANGED <<now, window, rejected, calls, storage, session, rc>>

\* rootpxe_storage_stop returns the helper's status: the release needs a 0.
RecoverStop ==
    /\ pc = "rec_stop"
    /\ helper' = FALSE /\ stopped' = TRUE
    /\ Goto("rec_final") \/ Goto("rec_join")
    /\ UNCHANGED <<now, window, rejected, calls, workspace, ready, released, session, rc>>

RecoverRelease ==
    /\ pc = "rec_final"
    /\ \/ Remaining > 0 /\ Bounded("rec_final_wait", RequestMax)
       \/ Remaining <= 0 /\ Goto("rec_join")
    /\ UNCHANGED <<now, window, rejected, calls, storage, session, rc>>

RecoverFailed ==
    /\ pc \in {"rec_ready_wait", "rec_preflight_wait", "rec_owned_wait", "rec_final_wait"}
    /\ Goto("rec_join")
    /\ UNCHANGED <<now, window, rejected, calls, storage, session, rc>>

RecoverJoin ==
    /\ pc = "rec_join"
    /\ helper' = FALSE /\ stopped' = TRUE
    /\ PauseOr("rec_pause", Exit(2))
    /\ UNCHANGED <<now, window, rejected, calls, workspace, ready, released, session>>

RecoverAgain ==
    /\ pc = "rec_pause" /\ now = until
    /\ Goto("rec")
    /\ UNCHANGED <<now, window, rejected, calls, storage, session, rc>>

StorageStep ==
    \/ ReleaseSend \/ ReleaseConfirmed \/ ReleaseFailed
    \/ RecoverBegin \/ RecoverTry \/ RecoverAcknowledged \/ RecoverRefused
    \/ RecoverStart \/ RecoverReady \/ RecoverPreflight \/ RecoverAdmitted
    \/ RecoverRestart \/ RecoverOwned \/ RecoverDisposed
    \/ RecoverStop \/ RecoverRelease \/ RecoverFailed \/ RecoverJoin \/ RecoverAgain

-----------------------------------------------------------------------------
\* rootpxe_error_wait_for_retry

\* Mutant: whatever was not accepted is reported again.
NotifyAgain ==
    /\ pc = "notify"
    /\ BeginWindow
    /\ IF answer
       THEN Goto("hold") /\ UNCHANGED reporter
       ELSE Goto("report") /\ reporter' = "wait"
    /\ UNCHANGED <<now, rejected, answer, recoverer, storage, session, rc>>

\* Report unless an answer is at hand or the report was rejected for good.
Notify ==
    /\ pc = "notify"
    /\ BeginWindow
    /\ IF answer \/ rejected
       THEN Goto("hold") /\ UNCHANGED reporter
       ELSE Goto("report") /\ reporter' = "wait"
    /\ UNCHANGED <<now, rejected, answer, recoverer, storage, session, rc>>

HoldPoll ==
    /\ pc = "hold" /\ Remaining > 0
    /\ IF answer THEN Bounded("poll_wait", PollMax) ELSE Bounded("hold_pause", Pause)
    /\ UNCHANGED <<now, window, rejected, calls, storage, session, rc>>

\* Mutant: the deadline is looked at only where the service is polled.
HoldTimeoutPolling ==
    /\ pc = "hold" /\ Remaining <= 0 /\ answer
    /\ Exit(2)
    /\ UNCHANGED <<now, window, rejected, calls, storage, session>>

HoldTimeout ==
    /\ pc = "hold" /\ Remaining <= 0
    /\ Exit(2)
    /\ UNCHANGED <<now, window, rejected, calls, storage, session>>

\* Mutant: a retry needs the worker stopped and not the release confirmed.
StoppedOnly == ~workspace \/ (stopped /\ ~helper)

\* No managed storage, or it is released, stopped and has no helper.
StorageClean == ~workspace \/ (released /\ stopped /\ ~helper)

\* task-status says queued: the administrator asked for a retry.  exec keeps the
\* exported policy; the window and the storage identity are reset.
Retry ==
    /\ pc = "poll_wait" /\ StorageClean /\ run < MaxRun
    /\ run' = run + 1
    /\ started' = NotStarted /\ deadline' = 0 /\ fixed' = FALSE /\ rejected' = FALSE
    /\ answer' = FALSE /\ reporter' = "none" /\ recoverer' = "none"
    /\ workspace' = FALSE /\ ready' = FALSE /\ stopped' = FALSE /\ released' = FALSE
    /\ now' = 0 /\ until' = 0 /\ pc' = "checkin"
    /\ UNCHANGED <<wait, action, actionFile, kind, shutdown, marker, helper, rc>>

\* deleted, cancelled or superseded.
TaskGone ==
    /\ pc = "poll_wait"
    /\ Exit(2)
    /\ UNCHANGED <<now, window, rejected, calls, storage, session>>

\* Any other status, none, or a retry that the storage does not allow yet.
PollOther ==
    /\ pc = "poll_wait"
    /\ PauseOr("hold_pause", Exit(2))
    /\ UNCHANGED <<now, window, rejected, calls, storage, session>>

PollAgain ==
    /\ pc = "hold_pause" /\ now = until
    /\ Goto("hold")
    /\ UNCHANGED <<now, window, rejected, calls, storage, session, rc>>

\* The EXIT trap: rootpxe_cleanup_session joins what still runs.
Ended ==
    /\ pc = "exit"
    /\ helper' = FALSE
    /\ stopped' = (stopped \/ workspace)
    /\ Goto("ended")
    /\ UNCHANGED <<now, window, rejected, calls, workspace, ready, released, session, rc>>

WaitStep ==
    \/ Notify \/ HoldPoll \/ HoldTimeout \/ Retry \/ TaskGone \/ PollOther
    \/ PollAgain \/ Ended

Tick ==
    /\ \/ pc \in Requests \cup Sleeps /\ now < until
       \/ pc \in Unbounded /\ now < MaxIdle
    /\ now' = now + 1
    /\ UNCHANGED <<pc, until, window, rejected, calls, storage, session, rc>>

FailureStep == ReportStep \/ StorageStep \/ WaitStep
Next == TaskStep \/ FailureStep \/ Tick

\* Time passes; the shell goes on; a helper that got SIGTERM and lost its pipes
\* ends.  Nothing is assumed of the network, of the service or of the task.
Fairness == SF_vars(Tick) /\ WF_vars(FailureStep)
Spec == Init /\ [][Next]_vars
FairSpec == Spec /\ Fairness

-----------------------------------------------------------------------------
\* Properties

\* Once the failure window is open, its deadline is the first failure plus the
\* wait in force, and no request, read or sleep that was started goes on beyond
\* it: every one of them is cut to rootpxe_failure_remaining.
NothingOutlastsDeadline ==
    started # NotStarted =>
        /\ deadline = started + wait
        /\ pc \in Requests \cup Sleeps => until <= deadline

\* Within a run the window has one start, and its policy changes at most once,
\* with the first accepted report: no retry, recovery or second report gains
\* time.
OneWindow ==
    [][started # NotStarted /\ run' = run =>
          /\ started' = started
          /\ <<wait, action, deadline>>' # <<wait, action, deadline>> => ~fixed /\ fixed']_vars

\* A report that was rejected for good (4xx but 408 and 429) is not sent again
\* in this run, whichever function asks next.
RejectedIsFinal ==
    [][rejected /\ run' = run => ~(pc = "report" /\ pc' = "report_wait")]_vars

\* An administrator's retry starts only after the service accepted a report of
\* this failure, and with no helper of the failed run left and its storage
\* released.
RetryIsClean ==
    [][run' # run => answer /\ ~helper /\ (workspace => released)]_vars

\* A run that timed out, or was ended by the service while it waited, leaves the
\* action of the policy in force for init.
ActionIsRecorded ==
    pc \in {"exit", "ended"} /\ rc = 2 /\ started # NotStarted => actionFile = action

\* A failure window closes: the run ends, or a retry begins.
WindowCloses == started # NotStarted ~> (pc = "ended" \/ started = NotStarted)
=============================================================================
