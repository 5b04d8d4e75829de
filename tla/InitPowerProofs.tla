-------------------------- MODULE InitPowerProofs --------------------------
(***************************************************************************)
(* Proofs about InitPower, for every wait, timeout, pause and number of    *)
(* runs that WaitAssumption allows.  They rest on the invariant of the run *)
(* of /bin/pxeos (FailureWaitProofs), which S99pxeos leaves alone.         *)
(***************************************************************************)
EXTENDS InitPower, FailureWaitProofs

\* Commands of S99pxeos before the end of the run, and of a power command that
\* follows a success.
Running == {"boot", "pxeos"}
Powering == {"quiet", "printk", "power", "restore"}

PowerTypes ==
    /\ init \in Running \cup Powering \cup {"done"}
    /\ power \in Action \cup {"none"}
    /\ took \in BOOLEAN
    /\ quiet \in {"none", "ours", "other"}
    /\ console \in {"normal", "off"}
    /\ warned \in BOOLEAN

\* What S99pxeos has done says how the run ended: no power command while the run
\* may go on, the quiet one only after a success that is no recovered session.
PowerHistory ==
    /\ init = "boot" => pc = "checkin"
    /\ init \in Running => power = "none"
    /\ init \in Powering => power # "none" /\ rc = 0 /\ kind # "recovery"
    /\ FailureActionHonoured
    /\ RecoveryKeepsPower

\* Our marker exists from its creation to the end of the power command, and a
\* lowered console outlasts it only with a warning.
QuietState ==
    /\ init \in Running \cup {"quiet"} => quiet # "ours" /\ console = "normal"
    /\ init = "printk" => quiet = "ours" /\ console = "normal"
    /\ console = "off" /\ init # "done" => quiet = "ours"
    /\ init = "done" /\ ~took => quiet # "ours" /\ (console = "normal" \/ warned)

\* A storage-only session has its marker, also after a retry.
KindMarked == kind = "recovery" => marker

\* The inductive invariant.
PowerInv == IInv /\ KindMarked /\ PowerTypes /\ PowerHistory /\ QuietState

-----------------------------------------------------------------------------
\* Only a checkin changes the kind of a run or makes the marker, and it does both.
LEMMA MarkedStep ==
    ASSUME KindMarked, Next
    PROVE  KindMarked'
<1> USE DEF KindMarked, session
<1>1. CASE TaskStep
  <2>1. CASE CheckinAny
    BY <2>1, Zenon DEF CheckinAny, Checkin
  <2>2. CASE ~CheckinAny
    BY <1>1, <2>2 DEF TaskStep, CheckinRefused, CheckinInvalid, StartHelper,
        Fail, PermitDenied, PermitCancelled, Killed, Complete, FinishReleased,
        FinishUnreleased, RecoverOnly
  <2> QED
    BY <2>1, <2>2
<1>2. CASE ReportStep
    BY <1>2 DEF ReportStep, QuiesceDone, ReportSend, ReportRejected, ReportUnsure,
        ReportAgain, ReportAccepted
<1>3. CASE StorageStep
    BY <1>3 DEF StorageStep, ReleaseSend, ReleaseConfirmed, ReleaseFailed, RecoverBegin,
        RecoverTry, RecoverAcknowledged, RecoverRefused, RecoverStart, RecoverReady,
        RecoverPreflight, RecoverAdmitted, RecoverRestart, RecoverOwned, RecoverDisposed,
        RecoverStop, RecoverRelease, RecoverFailed, RecoverJoin, RecoverAgain
<1>4. CASE WaitStep
    BY <1>4 DEF WaitStep, Notify, HoldPoll, HoldTimeout, Retry, TaskGone, PollOther,
        PollAgain, Ended
<1>5. CASE Tick
    BY <1>5 DEF Tick
<1> QED
    BY <1>1, <1>2, <1>3, <1>4, <1>5, Zenon DEF Next, FailureStep

\* S99pxeos and the run never move together: a step is one of the run, with
\* S99pxeos waiting for it, or leaves the state of the run alone.
LEMMA RunOrInit ==
    ASSUME [PowerNext]_allVars
    PROVE  \/ init = "pxeos" /\ Next /\ UNCHANGED initVars
           \/ InitStep /\ UNCHANGED vars
           \/ UNCHANGED allVars
<1>1. CASE InitStep
  <2>1. UNCHANGED vars
    BY <1>1, Zenon DEF InitStep, BootAside, BootTask, SkipPower, SuccessPower, FailurePower,
        MakeQuiet, LowerConsole, PowerWorks, PowerFails, RestoreQuiet
  <2> QED
    BY <1>1, <2>1
<1> QED
    BY <1>1, Zenon DEF PowerNext, RunTask

\* The run of /bin/pxeos, seen alone, is one of FailureWait: S99pxeos only waits.
THEOREM RunIsFailureWait == PowerSpec => Spec
<1>1. InitBoot => Init
    BY DEF InitBoot
<1>2. [PowerNext]_allVars => [Next]_vars
    BY RunOrInit, Zenon DEF allVars
<1> QED
    BY <1>1, <1>2, PTL DEF PowerSpec, Spec

LEMMA PowerStart == InitBoot => PowerInv
<1> SUFFICES ASSUME InitBoot PROVE PowerInv
    OBVIOUS
<1>1. IInv
    BY InvInit DEF InitBoot
<1>2. pc = "checkin" /\ kind = "none"
    BY DEF InitBoot, Init
<1> QED
    BY <1>1, <1>2, Zenon DEF InitBoot, PowerInv, KindMarked, PowerTypes, PowerHistory,
        QuietState, FailureActionHonoured, RecoveryKeepsPower, Running, Powering

\* While the run goes on, no power command has been chosen.
LEMMA RunKeeps ==
    ASSUME PowerInv, init = "pxeos", Next, UNCHANGED initVars
    PROVE  PowerInv'
<1>1. IInv'
    BY InvStep, Zenon DEF PowerInv
<1>2. KindMarked'
    BY MarkedStep, Zenon DEF PowerInv
<1>3. UNCHANGED <<init, power, took, quiet, console, warned>>
    BY DEF initVars
<1> QED
    BY <1>1, <1>2, <1>3 DEF PowerInv, PowerTypes, PowerHistory, QuietState,
        FailureActionHonoured, RecoveryKeepsPower, Running, Powering

\* Every step of S99pxeos keeps it.  A success has exit code 0 and no marker, so
\* its session is no recovery; a failure finds the recorded action in the file.
LEMMA InitKeeps ==
    ASSUME PowerInv, InitStep, UNCHANGED vars
    PROVE  PowerInv'
<1> USE DEF PowerTypes, PowerHistory, QuietState, FailureActionHonoured, RecoveryKeepsPower,
            Running, Powering, KindMarked
<1>1. IInv' /\ KindMarked' /\ UNCHANGED <<pc, rc, kind, marker, action, started>>
    BY InvStep DEF PowerInv, vars, session, window
<1>2. PowerTypes /\ PowerHistory /\ QuietState /\ KindMarked
    BY DEF PowerInv
<1>3. CASE BootAside \/ BootTask \/ SkipPower
    BY <1>1, <1>2, <1>3 DEF BootAside, BootTask, SkipPower, PowerInv
<1>4. CASE SuccessPower
    BY <1>1, <1>2, <1>4 DEF SuccessPower, PowerInv, Action
<1>5. CASE FailurePower
  <2>1. action \in Action /\ (started # NotStarted => actionFile = action)
    BY DEF PowerInv, IInv, TypeOK, DataOK, WindowInv
  <2> QED
    BY <1>1, <1>2, <1>5, <2>1 DEF FailurePower, PowerInv, Action
<1>6. CASE MakeQuiet \/ LowerConsole
    BY <1>1, <1>2, <1>6 DEF MakeQuiet, LowerConsole, PowerInv
<1>7. CASE PowerWorks
  <2>1. /\ took' = TRUE /\ init = "power" /\ init' = "done"
        /\ UNCHANGED <<power, quiet, console, warned>>
    BY <1>7 DEF PowerWorks
  <2>2. PowerTypes' /\ QuietState'
    BY <1>2, <2>1, Zenon
  <2>3. PowerHistory'
    BY <1>1, <1>2, <2>1
  <2> QED
    BY <1>1, <2>2, <2>3 DEF PowerInv
<1>8. CASE PowerFails
    BY <1>1, <1>2, <1>8 DEF PowerFails, PowerInv
<1>9. CASE RestoreQuiet
  <2>1. /\ init = "restore" /\ init' = "done" /\ UNCHANGED <<power, took>>
        /\ quiet' = IF quiet = "ours" THEN "none" ELSE quiet
        /\ (console' = "normal" /\ warned' = warned)
           \/ (warned' = TRUE /\ console' = console)
    BY <1>9, Zenon DEF RestoreQuiet
  <2>2. PowerTypes'
    BY <1>2, <2>1, Zenon
  <2>3. QuietState'
    BY <2>1, Zenon
  <2>4. PowerHistory'
    BY <1>1, <1>2, <2>1
  <2> QED
    BY <1>1, <2>2, <2>3, <2>4 DEF PowerInv
<1> QED
    BY <1>3, <1>4, <1>5, <1>6, <1>7, <1>8, <1>9 DEF InitStep

LEMMA PowerStep == PowerInv /\ [PowerNext]_allVars => PowerInv'
<1> SUFFICES ASSUME PowerInv, [PowerNext]_allVars PROVE PowerInv'
    OBVIOUS
<1>1. CASE UNCHANGED allVars
  <2>1. IInv' /\ UNCHANGED <<pc, rc, kind, marker, action, started>> /\ UNCHANGED initVars
    BY <1>1, InvStep DEF PowerInv, allVars, vars, session, window
  <2> QED
    BY <2>1 DEF PowerInv, KindMarked, PowerTypes, PowerHistory, QuietState,
        FailureActionHonoured, RecoveryKeepsPower, initVars
<1> QED
    BY <1>1, RunOrInit, RunKeeps, InitKeeps, Zenon

THEOREM PowerInductive == PowerSpec => []PowerInv
<1> QED
    BY PowerStart, PowerStep, PTL DEF PowerSpec

-----------------------------------------------------------------------------
\* The state of S99pxeos and of the run always has its type.
THEOREM PowerTypeCorrect == PowerSpec => []PowerTypeOK
<1>1. PowerInv => PowerTypeOK
    BY Zenon DEF PowerInv, IInv, PowerTypes, PowerTypeOK, Running, Powering
<1> QED
    BY <1>1, PowerInductive, PTL

\* After a failed run the machine gets the action of the policy in force.
THEOREM FailureActionIsHonoured == PowerSpec => []FailureActionHonoured
<1>1. PowerInv => FailureActionHonoured
    BY DEF PowerInv, PowerHistory
<1> QED
    BY <1>1, PowerInductive, PTL

\* A recovered storage-only session gets no power command, a failed one does.
THEOREM RecoveryIsKept == PowerSpec => []RecoveryKeepsPower
<1>1. PowerInv => RecoveryKeepsPower
    BY DEF PowerInv, PowerHistory
<1> QED
    BY <1>1, PowerInductive, PTL

\* A machine that stays up after its power command has no marker of ours and its
\* log level back, or a warning was shown; and a foreign marker stays.
THEOREM QuietIsUndone == PowerSpec => QuietUndone
<1>1. PowerInv => /\ console = "off" /\ init # "done" => quiet = "ours"
                  /\ init = "done" /\ ~took =>
                         quiet # "ours" /\ (console = "normal" \/ warned)
    BY DEF PowerInv, QuietState
<1>2. PowerInv /\ [PowerNext]_allVars => [quiet = "other" => quiet' = "other"]_allVars
  <2> SUFFICES ASSUME PowerInv, PowerNext, quiet = "other" PROVE quiet' = "other"
    BY Zenon
  <2>1. CASE RunTask
    BY <2>1 DEF RunTask, initVars
  <2>2. CASE InitStep
    BY <2>2 DEF InitStep, BootAside, BootTask, SkipPower, SuccessPower, FailurePower,
        MakeQuiet, LowerConsole, PowerWorks, PowerFails, RestoreQuiet, PowerInv, QuietState
  <2> QED
    BY <2>1, <2>2 DEF PowerNext
<1> QED
    BY <1>1, <1>2, PowerInductive, PTL DEF PowerSpec, QuietUndone
=============================================================================
