------------------------- MODULE FailureWaitProofs -------------------------
(***************************************************************************)
(* Proofs about FailureWait, for every wait, timeout, pause and number of  *)
(* runs that WaitAssumption allows.                                        *)
(***************************************************************************)
EXTENDS FailureWait, TLAPS

\* Commands before any failure, of rootpxe_error_report, and after the end.
Before == {"checkin", "run", "finish_wait"}
Reporting == {"report", "report_wait", "report_pause"}
Over == {"exit", "ended"}

\* Commands that only a task with managed storage reaches.
Managed == {"finish_wait", "quiesce", "release", "release_wait", "rec_begin", "rec",
            "rec_release_wait", "rec_start", "rec_ready_wait", "rec_preflight",
            "rec_preflight_wait", "rec_restart", "rec_owned", "rec_owned_wait", "rec_stop",
            "rec_final", "rec_final_wait", "rec_join", "rec_pause"}

\* The window is open from the first failure on; while it is, the deadline and
\* the action file follow the policy in force, and what runs ends in time.  A
\* rejection is known only to commands after the report.
WindowInv ==
    /\ pc \in Before => started = NotStarted /\ ~rejected
    /\ pc \notin Before \cup Over => started # NotStarted
    /\ started # NotStarted => deadline = started + wait /\ actionFile = action
    /\ pc \in Requests \cup Sleeps => until <= deadline
    /\ rejected => pc \notin Reporting \cup {"quiesce"}

\* A helper belongs to a workspace, and a poll to an accepted report.
StoreInv ==
    /\ helper \/ ready => workspace
    /\ pc = "checkin" => ~helper /\ ~ready /\ ~workspace
    /\ pc \in Managed => workspace
    /\ pc \in Reporting /\ reporter = "cleanup" => workspace
    /\ pc = "poll_wait" => answer

\* The inductive invariant.
IInv == TypeOK /\ WindowInv /\ StoreInv

-----------------------------------------------------------------------------

\* Types.  The deadline is a number because the window is open where it moves.

LEMMA DataTaskStep ==
    ASSUME DataOK, WindowInv, TaskStep
    PROVE DataOK'
<1> USE WaitAssumption DEF DataOK, Action, NotStarted, Requests, Sleeps, Unbounded,
                           Instant, window, storage, session, calls
<1>1. CASE CheckinAny
    BY <1>1 DEF CheckinAny, Checkin, Goto
<1>2. CASE CheckinRefused
    BY <1>2 DEF CheckinRefused, Exit, Goto
<1>3. CASE CheckinInvalid
    BY <1>3 DEF CheckinInvalid, BeginWindow, Goto
<1>4. CASE StartHelper
    BY <1>4 DEF StartHelper
<1>5. CASE Fail
    BY <1>5 DEF Fail, BeginWindow, Goto
<1>6. CASE PermitDenied
    BY <1>6 DEF PermitDenied, BeginWindow, Goto
<1>7. CASE PermitCancelled
    BY <1>7 DEF PermitCancelled, Exit, Goto
<1>8. CASE Killed
    BY <1>8 DEF Killed, Exit, Goto
<1>9. CASE Complete
    BY <1>9 DEF Complete, Exit, Goto
<1>10. CASE FinishReleased
    BY <1>10 DEF FinishReleased, Exit, Goto
<1>11. CASE FinishUnreleased
    BY <1>11 DEF FinishUnreleased, BeginWindow, Goto
<1>12. CASE RecoverOnly
    BY <1>12 DEF RecoverOnly, BeginWindow, Goto
<1> QED
    BY <1>1, <1>2, <1>3, <1>4, <1>5, <1>6, <1>7, <1>8, <1>9, <1>10, <1>11, <1>12, Zenon DEF TaskStep

LEMMA DataReportStep ==
    ASSUME DataOK, WindowInv, ReportStep
    PROVE DataOK'
<1> USE WaitAssumption DEF DataOK, Action, NotStarted, Requests, Sleeps, Unbounded,
                           Instant, window, storage, session, calls
<1>1. CASE QuiesceDone
    BY <1>1 DEF QuiesceDone, Goto
<1>2. CASE ReportSend
    BY <1>2 DEF ReportSend, Bounded, Capped, Remaining, ReportLate, Exit, Goto
<1>3. CASE ReportRejected
    BY <1>3 DEF ReportRejected, ReportReturn, Goto
<1>4. CASE ReportUnsure
    BY <1>4 DEF ReportUnsure, PauseOr, Bounded, Capped, Remaining, ReportLate, Exit,
                Goto
<1>5. CASE ReportAgain
    BY <1>5 DEF ReportAgain, Goto
<1>6. ASSUME NEW w \in Offers, NEW a \in Action \cup {"none"}, ReportAccepted(w, a)
      PROVE DataOK'
    BY <1>6 DEF ReportAccepted, AdoptPolicy, ReportReturn, Goto, WindowInv, Before, Over
<1> QED
    BY <1>1, <1>2, <1>3, <1>4, <1>5, <1>6, Zenon DEF ReportStep

LEMMA DataStorageStep ==
    ASSUME DataOK, WindowInv, StorageStep
    PROVE DataOK'
<1> USE WaitAssumption DEF DataOK, Action, NotStarted, Requests, Sleeps, Unbounded,
                           Instant, window, storage, session, calls
<1>1. CASE ReleaseSend
    BY <1>1 DEF ReleaseSend, Bounded, Capped, Remaining, Unreleased, Goto
<1>2. CASE ReleaseConfirmed
    BY <1>2 DEF ReleaseConfirmed, Goto
<1>3. CASE ReleaseFailed
    BY <1>3 DEF ReleaseFailed, Unreleased, Goto
<1>4. CASE RecoverBegin
    BY <1>4 DEF RecoverBegin, Goto
<1>5. CASE RecoverTry
    BY <1>5 DEF RecoverTry, Bounded, Capped, Remaining, Exit, Goto
<1>6. CASE RecoverAcknowledged
    BY <1>6 DEF RecoverAcknowledged, RecoverDone, Exit, Goto
<1>7. CASE RecoverRefused
    BY <1>7 DEF RecoverRefused, Goto
<1>8. CASE RecoverStart
    BY <1>8 DEF RecoverStart, Bounded, Capped, Remaining, Goto
<1>9. CASE RecoverReady
    BY <1>9 DEF RecoverReady, Goto
<1>10. CASE RecoverPreflight
    BY <1>10 DEF RecoverPreflight, Bounded, Capped, Remaining, Goto
<1>11. CASE RecoverAdmitted
    BY <1>11 DEF RecoverAdmitted, Goto
<1>12. CASE RecoverRestart
    BY <1>12 DEF RecoverRestart, Goto
<1>13. CASE RecoverOwned
    BY <1>13 DEF RecoverOwned, Bounded, Capped, Remaining, Goto
<1>14. CASE RecoverDisposed
    BY <1>14 DEF RecoverDisposed, Goto
<1>15. CASE RecoverStop
    BY <1>15 DEF RecoverStop, Goto
<1>16. CASE RecoverRelease
    BY <1>16 DEF RecoverRelease, Bounded, Capped, Remaining, Goto
<1>17. CASE RecoverFailed
    BY <1>17 DEF RecoverFailed, Goto
<1>18. CASE RecoverJoin
    BY <1>18 DEF RecoverJoin, PauseOr, Bounded, Capped, Remaining, Exit, Goto
<1>19. CASE RecoverAgain
    BY <1>19 DEF RecoverAgain, Goto
<1> QED
    BY <1>1, <1>2, <1>3, <1>4, <1>5, <1>6, <1>7, <1>8, <1>9, <1>10, <1>11, <1>12, <1>13,
       <1>14, <1>15, <1>16, <1>17, <1>18, <1>19, Zenon DEF StorageStep

LEMMA DataWaitStep ==
    ASSUME DataOK, WindowInv, WaitStep
    PROVE DataOK'
<1> USE WaitAssumption DEF DataOK, Action, NotStarted, Requests, Sleeps, Unbounded,
                           Instant, window, storage, session, calls
<1>1. CASE Notify
    BY <1>1 DEF Notify, BeginWindow, Goto
<1>2. CASE HoldPoll
    BY <1>2 DEF HoldPoll, Bounded, Capped, Remaining, Goto
<1>3. CASE HoldTimeout
    BY <1>3 DEF HoldTimeout, Exit, Goto
<1>4. CASE Retry
    BY <1>4 DEF Retry, StorageClean
<1>5. CASE TaskGone
    BY <1>5 DEF TaskGone, Exit, Goto
<1>6. CASE PollOther
    BY <1>6 DEF PollOther, PauseOr, Bounded, Capped, Remaining, Exit, Goto
<1>7. CASE PollAgain
    BY <1>7 DEF PollAgain, Goto
<1>8. CASE Ended
    BY <1>8 DEF Ended, Goto
<1> QED
    BY <1>1, <1>2, <1>3, <1>4, <1>5, <1>6, <1>7, <1>8, Zenon DEF WaitStep

LEMMA DataTick ==
    ASSUME DataOK, Tick \/ UNCHANGED vars
    PROVE DataOK'
<1> USE WaitAssumption DEF DataOK, Action, NotStarted, Requests, Sleeps, Unbounded,
                           Instant, window, storage, session, calls
<1>1. CASE Tick
    BY <1>1 DEF Tick
<1>2. CASE UNCHANGED vars
    BY <1>2 DEF vars
<1> QED BY <1>1, <1>2

LEMMA FlagsTaskStep ==
    ASSUME FlagsOK, TaskStep
    PROVE FlagsOK'
<1> USE DEF FlagsOK, window, storage, session, calls
<1>1. CASE CheckinAny
  <2>1. PICK k \in {"task", "recovery"}, w \in (Offers \cap MinWait..MaxWait) \cup {DefaultWait},
             a \in Action, off \in BOOLEAN, managed \in BOOLEAN : Checkin(k, w, a, off, managed)
    BY <1>1, Zenon DEF CheckinAny
  <2>2. marker' \in BOOLEAN
    BY <2>1, Zenon DEF Checkin
  <2>3. shutdown' \in BOOLEAN /\ workspace' \in BOOLEAN
    BY <2>1, Zenon DEF Checkin
  <2> QED
    BY <2>1, <2>2, <2>3, Zenon DEF Checkin
<1>2. CASE CheckinRefused
    BY <1>2, Zenon DEF CheckinRefused, Exit, Goto
<1>3. CASE CheckinInvalid
    BY <1>3, Zenon DEF CheckinInvalid, BeginWindow, Goto
<1>4. CASE StartHelper
    BY <1>4, Zenon DEF StartHelper
<1>5. CASE Fail
    BY <1>5, Zenon DEF Fail, BeginWindow, Goto
<1>6. CASE PermitDenied
    BY <1>6, Zenon DEF PermitDenied, BeginWindow, Goto
<1>7. CASE PermitCancelled
    BY <1>7, Zenon DEF PermitCancelled, Exit, Goto
<1>8. CASE Killed
    BY <1>8, Zenon DEF Killed, Exit, Goto
<1>9. CASE Complete
    BY <1>9, Zenon DEF Complete, Exit, Goto
<1>10. CASE FinishReleased
    BY <1>10, Zenon DEF FinishReleased, Exit, Goto
<1>11. CASE FinishUnreleased
    BY <1>11, Zenon DEF FinishUnreleased, BeginWindow, Goto
<1>12. CASE RecoverOnly
    BY <1>12, Zenon DEF RecoverOnly, BeginWindow, Goto
<1> QED
    BY <1>1, <1>2, <1>3, <1>4, <1>5, <1>6, <1>7, <1>8, <1>9, <1>10, <1>11, <1>12, Zenon DEF TaskStep

LEMMA FlagsReportStep ==
    ASSUME FlagsOK, ReportStep
    PROVE FlagsOK'
<1> USE DEF FlagsOK, window, storage, session, calls
<1>1. CASE QuiesceDone
    BY <1>1, Zenon DEF QuiesceDone, Goto
<1>2. CASE ReportSend
    BY <1>2, Zenon DEF ReportSend, Bounded, Capped, Remaining, ReportLate, Exit, Goto
<1>3. CASE ReportRejected
    BY <1>3, Zenon DEF ReportRejected, ReportReturn, Goto
<1>4. CASE ReportUnsure
    BY <1>4, Zenon DEF ReportUnsure, PauseOr, Bounded, Capped, Remaining, ReportLate,
                       Exit, Goto
<1>5. CASE ReportAgain
    BY <1>5, Zenon DEF ReportAgain, Goto
<1>6. ASSUME NEW w \in Offers, NEW a \in Action \cup {"none"}, ReportAccepted(w, a)
      PROVE FlagsOK'
    BY <1>6, Zenon DEF ReportAccepted, AdoptPolicy, ReportReturn, Goto
<1> QED
    BY <1>1, <1>2, <1>3, <1>4, <1>5, <1>6, Zenon DEF ReportStep

LEMMA FlagsStorageStep ==
    ASSUME FlagsOK, StorageStep
    PROVE FlagsOK'
<1> USE DEF FlagsOK, window, storage, session, calls
<1>1. CASE ReleaseSend
    BY <1>1, Zenon DEF ReleaseSend, Bounded, Capped, Remaining, Unreleased, Goto
<1>2. CASE ReleaseConfirmed
    BY <1>2, Zenon DEF ReleaseConfirmed, Goto
<1>3. CASE ReleaseFailed
    BY <1>3, Zenon DEF ReleaseFailed, Unreleased, Goto
<1>4. CASE RecoverBegin
    BY <1>4, Zenon DEF RecoverBegin, Goto
<1>5. CASE RecoverTry
    BY <1>5, Zenon DEF RecoverTry, Bounded, Capped, Remaining, Exit, Goto
<1>6. CASE RecoverAcknowledged
    BY <1>6, Zenon DEF RecoverAcknowledged, RecoverDone, Exit, Goto
<1>7. CASE RecoverRefused
    BY <1>7, Zenon DEF RecoverRefused, Goto
<1>8. CASE RecoverStart
    BY <1>8, Zenon DEF RecoverStart, Bounded, Capped, Remaining, Goto
<1>9. CASE RecoverReady
    BY <1>9, Zenon DEF RecoverReady, Goto
<1>10. CASE RecoverPreflight
    BY <1>10, Zenon DEF RecoverPreflight, Bounded, Capped, Remaining, Goto
<1>11. CASE RecoverAdmitted
    BY <1>11, Zenon DEF RecoverAdmitted, Goto
<1>12. CASE RecoverRestart
    BY <1>12, Zenon DEF RecoverRestart, Goto
<1>13. CASE RecoverOwned
    BY <1>13, Zenon DEF RecoverOwned, Bounded, Capped, Remaining, Goto
<1>14. CASE RecoverDisposed
    BY <1>14, Zenon DEF RecoverDisposed, Goto
<1>15. CASE RecoverStop
    BY <1>15, Zenon DEF RecoverStop, Goto
<1>16. CASE RecoverRelease
    BY <1>16, Zenon DEF RecoverRelease, Bounded, Capped, Remaining, Goto
<1>17. CASE RecoverFailed
    BY <1>17, Zenon DEF RecoverFailed, Goto
<1>18. CASE RecoverJoin
    BY <1>18, Zenon DEF RecoverJoin, PauseOr, Bounded, Capped, Remaining, Exit, Goto
<1>19. CASE RecoverAgain
    BY <1>19, Zenon DEF RecoverAgain, Goto
<1> QED
    BY <1>1, <1>2, <1>3, <1>4, <1>5, <1>6, <1>7, <1>8, <1>9, <1>10, <1>11, <1>12, <1>13,
       <1>14, <1>15, <1>16, <1>17, <1>18, <1>19, Zenon DEF StorageStep

LEMMA FlagsWaitStep ==
    ASSUME FlagsOK, WaitStep
    PROVE FlagsOK'
<1> USE DEF FlagsOK, window, storage, session, calls
<1>1. CASE Notify
    BY <1>1, Zenon DEF Notify, BeginWindow, Goto
<1>2. CASE HoldPoll
    BY <1>2, Zenon DEF HoldPoll, Bounded, Capped, Remaining, Goto
<1>3. CASE HoldTimeout
    BY <1>3, Zenon DEF HoldTimeout, Exit, Goto
<1>4. CASE Retry
    BY <1>4, Zenon DEF Retry, StorageClean
<1>5. CASE TaskGone
    BY <1>5, Zenon DEF TaskGone, Exit, Goto
<1>6. CASE PollOther
    BY <1>6, Zenon DEF PollOther, PauseOr, Bounded, Capped, Remaining, Exit, Goto
<1>7. CASE PollAgain
    BY <1>7, Zenon DEF PollAgain, Goto
<1>8. CASE Ended
    BY <1>8, Zenon DEF Ended, Goto
<1> QED
    BY <1>1, <1>2, <1>3, <1>4, <1>5, <1>6, <1>7, <1>8, Zenon DEF WaitStep

LEMMA FlagsTick ==
    ASSUME FlagsOK, Tick \/ UNCHANGED vars
    PROVE FlagsOK'
<1> USE WaitAssumption DEF FlagsOK, window, storage, session, calls
<1>1. CASE Tick
    BY <1>1 DEF Tick
<1>2. CASE UNCHANGED vars
    BY <1>2 DEF vars
<1> QED BY <1>1, <1>2

\* The window.

LEMMA WindowTaskStep ==
    ASSUME DataOK, WindowInv, TaskStep
    PROVE WindowInv'
<1> USE WaitAssumption DEF DataOK, WindowInv, Before, Reporting, Over, Action,
                           NotStarted, Requests, Sleeps, Unbounded, Instant, window,
                           storage, session, calls
<1>1. CASE CheckinAny
    BY <1>1 DEF CheckinAny, Checkin, Goto
<1>2. CASE CheckinRefused
    BY <1>2 DEF CheckinRefused, Exit, Goto
<1>3. CASE CheckinInvalid
    BY <1>3 DEF CheckinInvalid, BeginWindow, Goto
<1>4. CASE StartHelper
    BY <1>4 DEF StartHelper
<1>5. CASE Fail
    BY <1>5 DEF Fail, BeginWindow, Goto
<1>6. CASE PermitDenied
    BY <1>6 DEF PermitDenied, BeginWindow, Goto
<1>7. CASE PermitCancelled
    BY <1>7 DEF PermitCancelled, Exit, Goto
<1>8. CASE Killed
    BY <1>8 DEF Killed, Exit, Goto
<1>9. CASE Complete
    BY <1>9 DEF Complete, Exit, Goto
<1>10. CASE FinishReleased
    BY <1>10 DEF FinishReleased, Exit, Goto
<1>11. CASE FinishUnreleased
    BY <1>11 DEF FinishUnreleased, BeginWindow, Goto
<1>12. CASE RecoverOnly
    BY <1>12 DEF RecoverOnly, BeginWindow, Goto
<1> QED
    BY <1>1, <1>2, <1>3, <1>4, <1>5, <1>6, <1>7, <1>8, <1>9, <1>10, <1>11, <1>12, Zenon DEF TaskStep

LEMMA WindowReportStep ==
    ASSUME DataOK, WindowInv, ReportStep
    PROVE WindowInv'
<1> USE WaitAssumption DEF DataOK, WindowInv, Before, Reporting, Over, Action,
                           NotStarted, Requests, Sleeps, Unbounded, Instant, window,
                           storage, session, calls
<1>1. CASE QuiesceDone
    BY <1>1 DEF QuiesceDone, Goto
<1>2. CASE ReportSend
    BY <1>2 DEF ReportSend, Bounded, Capped, Remaining, ReportLate, Exit, Goto
<1>3. CASE ReportRejected
    BY <1>3 DEF ReportRejected, ReportReturn, Goto
<1>4. CASE ReportUnsure
    BY <1>4 DEF ReportUnsure, PauseOr, Bounded, Capped, Remaining, ReportLate, Exit,
                Goto
<1>5. CASE ReportAgain
    BY <1>5 DEF ReportAgain, Goto
<1>6. ASSUME NEW w \in Offers, NEW a \in Action \cup {"none"}, ReportAccepted(w, a)
      PROVE WindowInv'
    BY <1>6 DEF ReportAccepted, AdoptPolicy, ReportReturn, Goto
<1> QED
    BY <1>1, <1>2, <1>3, <1>4, <1>5, <1>6, Zenon DEF ReportStep

LEMMA WindowStorageStep ==
    ASSUME DataOK, WindowInv, StorageStep
    PROVE WindowInv'
<1> USE WaitAssumption DEF DataOK, WindowInv, Before, Reporting, Over, Action,
                           NotStarted, Requests, Sleeps, Unbounded, Instant, window,
                           storage, session, calls
<1>1. CASE ReleaseSend
    BY <1>1 DEF ReleaseSend, Bounded, Capped, Remaining, Unreleased, Goto
<1>2. CASE ReleaseConfirmed
    BY <1>2 DEF ReleaseConfirmed, Goto
<1>3. CASE ReleaseFailed
    BY <1>3 DEF ReleaseFailed, Unreleased, Goto
<1>4. CASE RecoverBegin
    BY <1>4 DEF RecoverBegin, Goto
<1>5. CASE RecoverTry
    BY <1>5 DEF RecoverTry, Bounded, Capped, Remaining, Exit, Goto
<1>6. CASE RecoverAcknowledged
    BY <1>6 DEF RecoverAcknowledged, RecoverDone, Exit, Goto
<1>7. CASE RecoverRefused
    BY <1>7 DEF RecoverRefused, Goto
<1>8. CASE RecoverStart
    BY <1>8 DEF RecoverStart, Bounded, Capped, Remaining, Goto
<1>9. CASE RecoverReady
    BY <1>9 DEF RecoverReady, Goto
<1>10. CASE RecoverPreflight
    BY <1>10 DEF RecoverPreflight, Bounded, Capped, Remaining, Goto
<1>11. CASE RecoverAdmitted
    BY <1>11 DEF RecoverAdmitted, Goto
<1>12. CASE RecoverRestart
    BY <1>12 DEF RecoverRestart, Goto
<1>13. CASE RecoverOwned
    BY <1>13 DEF RecoverOwned, Bounded, Capped, Remaining, Goto
<1>14. CASE RecoverDisposed
    BY <1>14 DEF RecoverDisposed, Goto
<1>15. CASE RecoverStop
    BY <1>15 DEF RecoverStop, Goto
<1>16. CASE RecoverRelease
    BY <1>16 DEF RecoverRelease, Bounded, Capped, Remaining, Goto
<1>17. CASE RecoverFailed
    BY <1>17 DEF RecoverFailed, Goto
<1>18. CASE RecoverJoin
    BY <1>18 DEF RecoverJoin, PauseOr, Bounded, Capped, Remaining, Exit, Goto
<1>19. CASE RecoverAgain
    BY <1>19 DEF RecoverAgain, Goto
<1> QED
    BY <1>1, <1>2, <1>3, <1>4, <1>5, <1>6, <1>7, <1>8, <1>9, <1>10, <1>11, <1>12, <1>13,
       <1>14, <1>15, <1>16, <1>17, <1>18, <1>19, Zenon DEF StorageStep

LEMMA WindowWaitStep ==
    ASSUME DataOK, WindowInv, WaitStep
    PROVE WindowInv'
<1> USE WaitAssumption DEF DataOK, WindowInv, Before, Reporting, Over, Action,
                           NotStarted, Requests, Sleeps, Unbounded, Instant, window,
                           storage, session, calls
<1>1. CASE Notify
    BY <1>1 DEF Notify, BeginWindow, Goto
<1>2. CASE HoldPoll
    BY <1>2 DEF HoldPoll, Bounded, Capped, Remaining, Goto
<1>3. CASE HoldTimeout
    BY <1>3 DEF HoldTimeout, Exit, Goto
<1>4. CASE Retry
    BY <1>4 DEF Retry, StorageClean
<1>5. CASE TaskGone
    BY <1>5 DEF TaskGone, Exit, Goto
<1>6. CASE PollOther
    BY <1>6 DEF PollOther, PauseOr, Bounded, Capped, Remaining, Exit, Goto
<1>7. CASE PollAgain
    BY <1>7 DEF PollAgain, Goto
<1>8. CASE Ended
    BY <1>8 DEF Ended, Goto
<1> QED
    BY <1>1, <1>2, <1>3, <1>4, <1>5, <1>6, <1>7, <1>8, Zenon DEF WaitStep

LEMMA WindowTick ==
    ASSUME DataOK, WindowInv, Tick \/ UNCHANGED vars
    PROVE WindowInv'
<1> USE WaitAssumption DEF DataOK, WindowInv, Before, Reporting, Over, Action,
                           NotStarted, Requests, Sleeps, Unbounded, Instant, window,
                           storage, session, calls
<1>1. CASE Tick
    BY <1>1 DEF Tick
<1>2. CASE UNCHANGED vars
    BY <1>2 DEF vars
<1> QED BY <1>1, <1>2

\* The storage.

LEMMA StoreTaskStep ==
    ASSUME DataOK, StoreInv, TaskStep
    PROVE StoreInv'
<1> USE WaitAssumption DEF DataOK, StoreInv, Before, Reporting, Managed, Requests,
                           Sleeps, Unbounded, Instant, window, storage, session, calls
<1>1. CASE CheckinAny
    BY <1>1 DEF CheckinAny, Checkin, Goto
<1>2. CASE CheckinRefused
    BY <1>2 DEF CheckinRefused, Exit, Goto
<1>3. CASE CheckinInvalid
    BY <1>3 DEF CheckinInvalid, BeginWindow, Goto
<1>4. CASE StartHelper
    BY <1>4 DEF StartHelper
<1>5. CASE Fail
    BY <1>5 DEF Fail, BeginWindow, Goto
<1>6. CASE PermitDenied
    BY <1>6 DEF PermitDenied, BeginWindow, Goto
<1>7. CASE PermitCancelled
    BY <1>7 DEF PermitCancelled, Exit, Goto
<1>8. CASE Killed
    BY <1>8 DEF Killed, Exit, Goto
<1>9. CASE Complete
    BY <1>9 DEF Complete, Exit, Goto
<1>10. CASE FinishReleased
    BY <1>10 DEF FinishReleased, Exit, Goto
<1>11. CASE FinishUnreleased
    BY <1>11 DEF FinishUnreleased, BeginWindow, Goto
<1>12. CASE RecoverOnly
    BY <1>12 DEF RecoverOnly, BeginWindow, Goto
<1> QED
    BY <1>1, <1>2, <1>3, <1>4, <1>5, <1>6, <1>7, <1>8, <1>9, <1>10, <1>11, <1>12, Zenon DEF TaskStep

LEMMA StoreReportStep ==
    ASSUME DataOK, StoreInv, ReportStep
    PROVE StoreInv'
<1> USE WaitAssumption DEF DataOK, StoreInv, Before, Reporting, Managed, Requests,
                           Sleeps, Unbounded, Instant, window, storage, session, calls
<1>1. CASE QuiesceDone
    BY <1>1 DEF QuiesceDone, Goto
<1>2. CASE ReportSend
    BY <1>2 DEF ReportSend, Bounded, Capped, Remaining, ReportLate, Exit, Goto
<1>3. CASE ReportRejected
    BY <1>3 DEF ReportRejected, ReportReturn, Goto
<1>4. CASE ReportUnsure
    BY <1>4 DEF ReportUnsure, PauseOr, Bounded, Capped, Remaining, ReportLate, Exit,
                Goto
<1>5. CASE ReportAgain
    BY <1>5 DEF ReportAgain, Goto
<1>6. ASSUME NEW w \in Offers, NEW a \in Action \cup {"none"}, ReportAccepted(w, a)
      PROVE StoreInv'
    BY <1>6 DEF ReportAccepted, AdoptPolicy, ReportReturn, Goto
<1> QED
    BY <1>1, <1>2, <1>3, <1>4, <1>5, <1>6, Zenon DEF ReportStep

LEMMA StoreStorageStep ==
    ASSUME DataOK, StoreInv, StorageStep
    PROVE StoreInv'
<1> USE WaitAssumption DEF DataOK, StoreInv, Before, Reporting, Managed, Requests,
                           Sleeps, Unbounded, Instant, window, storage, session, calls
<1>1. CASE ReleaseSend
    BY <1>1 DEF ReleaseSend, Bounded, Capped, Remaining, Unreleased, Goto
<1>2. CASE ReleaseConfirmed
    BY <1>2 DEF ReleaseConfirmed, Goto
<1>3. CASE ReleaseFailed
    BY <1>3 DEF ReleaseFailed, Unreleased, Goto
<1>4. CASE RecoverBegin
    BY <1>4 DEF RecoverBegin, Goto
<1>5. CASE RecoverTry
    BY <1>5 DEF RecoverTry, Bounded, Capped, Remaining, Exit, Goto
<1>6. CASE RecoverAcknowledged
    BY <1>6 DEF RecoverAcknowledged, RecoverDone, Exit, Goto
<1>7. CASE RecoverRefused
    BY <1>7 DEF RecoverRefused, Goto
<1>8. CASE RecoverStart
    BY <1>8 DEF RecoverStart, Bounded, Capped, Remaining, Goto
<1>9. CASE RecoverReady
    BY <1>9 DEF RecoverReady, Goto
<1>10. CASE RecoverPreflight
    BY <1>10 DEF RecoverPreflight, Bounded, Capped, Remaining, Goto
<1>11. CASE RecoverAdmitted
    BY <1>11 DEF RecoverAdmitted, Goto
<1>12. CASE RecoverRestart
    BY <1>12 DEF RecoverRestart, Goto
<1>13. CASE RecoverOwned
    BY <1>13 DEF RecoverOwned, Bounded, Capped, Remaining, Goto
<1>14. CASE RecoverDisposed
    BY <1>14 DEF RecoverDisposed, Goto
<1>15. CASE RecoverStop
    BY <1>15 DEF RecoverStop, Goto
<1>16. CASE RecoverRelease
    BY <1>16 DEF RecoverRelease, Bounded, Capped, Remaining, Goto
<1>17. CASE RecoverFailed
    BY <1>17 DEF RecoverFailed, Goto
<1>18. CASE RecoverJoin
    BY <1>18 DEF RecoverJoin, PauseOr, Bounded, Capped, Remaining, Exit, Goto
<1>19. CASE RecoverAgain
    BY <1>19 DEF RecoverAgain, Goto
<1> QED
    BY <1>1, <1>2, <1>3, <1>4, <1>5, <1>6, <1>7, <1>8, <1>9, <1>10, <1>11, <1>12, <1>13,
       <1>14, <1>15, <1>16, <1>17, <1>18, <1>19, Zenon DEF StorageStep

LEMMA StoreWaitStep ==
    ASSUME DataOK, StoreInv, WaitStep
    PROVE StoreInv'
<1> USE WaitAssumption DEF DataOK, StoreInv, Before, Reporting, Managed, Requests,
                           Sleeps, Unbounded, Instant, window, storage, session, calls
<1>1. CASE Notify
    BY <1>1 DEF Notify, BeginWindow, Goto
<1>2. CASE HoldPoll
    BY <1>2 DEF HoldPoll, Bounded, Capped, Remaining, Goto
<1>3. CASE HoldTimeout
    BY <1>3 DEF HoldTimeout, Exit, Goto
<1>4. CASE Retry
    BY <1>4 DEF Retry, StorageClean
<1>5. CASE TaskGone
    BY <1>5 DEF TaskGone, Exit, Goto
<1>6. CASE PollOther
    BY <1>6 DEF PollOther, PauseOr, Bounded, Capped, Remaining, Exit, Goto
<1>7. CASE PollAgain
    BY <1>7 DEF PollAgain, Goto
<1>8. CASE Ended
    BY <1>8 DEF Ended, Goto
<1> QED
    BY <1>1, <1>2, <1>3, <1>4, <1>5, <1>6, <1>7, <1>8, Zenon DEF WaitStep

LEMMA StoreTick ==
    ASSUME DataOK, StoreInv, Tick \/ UNCHANGED vars
    PROVE StoreInv'
<1> USE WaitAssumption DEF DataOK, StoreInv, Before, Reporting, Managed, Requests,
                           Sleeps, Unbounded, Instant, window, storage, session, calls
<1>1. CASE Tick
    BY <1>1 DEF Tick
<1>2. CASE UNCHANGED vars
    BY <1>2 DEF vars
<1> QED BY <1>1, <1>2

-----------------------------------------------------------------------------
\* What a step does to an open window, and to a rejected report.
StepOfWindow ==
    run' = run =>
        /\ started # NotStarted =>
             /\ started' = started
             /\ <<wait, action, deadline>>' # <<wait, action, deadline>> => ~fixed /\ fixed'
        /\ rejected => ~(pc = "report" /\ pc' = "report_wait")

LEMMA UniqueTaskStep ==
    ASSUME DataOK, WindowInv, TaskStep
    PROVE StepOfWindow
<1> USE WaitAssumption DEF DataOK, WindowInv, StepOfWindow, Before, Over, Reporting,
                           Action, NotStarted, Requests, Sleeps, window, storage,
                           session, calls
<1>1. CASE CheckinAny
    BY <1>1 DEF CheckinAny, Checkin, Goto
<1>2. CASE CheckinRefused
    BY <1>2 DEF CheckinRefused, Exit, Goto
<1>3. CASE CheckinInvalid
    BY <1>3 DEF CheckinInvalid, BeginWindow, Goto
<1>4. CASE StartHelper
    BY <1>4 DEF StartHelper
<1>5. CASE Fail
    BY <1>5 DEF Fail, BeginWindow, Goto
<1>6. CASE PermitDenied
    BY <1>6 DEF PermitDenied, BeginWindow, Goto
<1>7. CASE PermitCancelled
    BY <1>7 DEF PermitCancelled, Exit, Goto
<1>8. CASE Killed
    BY <1>8 DEF Killed, Exit, Goto
<1>9. CASE Complete
    BY <1>9 DEF Complete, Exit, Goto
<1>10. CASE FinishReleased
    BY <1>10 DEF FinishReleased, Exit, Goto
<1>11. CASE FinishUnreleased
    BY <1>11 DEF FinishUnreleased, BeginWindow, Goto
<1>12. CASE RecoverOnly
    BY <1>12 DEF RecoverOnly, BeginWindow, Goto
<1> QED
    BY <1>1, <1>2, <1>3, <1>4, <1>5, <1>6, <1>7, <1>8, <1>9, <1>10, <1>11, <1>12, Zenon DEF TaskStep

LEMMA UniqueReportStep ==
    ASSUME DataOK, WindowInv, ReportStep
    PROVE StepOfWindow
<1> USE WaitAssumption DEF DataOK, WindowInv, StepOfWindow, Before, Over, Reporting,
                           Action, NotStarted, Requests, Sleeps, window, storage,
                           session, calls
<1>1. CASE QuiesceDone
    BY <1>1 DEF QuiesceDone, Goto
<1>2. CASE ReportSend
    BY <1>2 DEF ReportSend, Bounded, Capped, Remaining, ReportLate, Exit, Goto
<1>3. CASE ReportRejected
    BY <1>3 DEF ReportRejected, ReportReturn, Goto
<1>4. CASE ReportUnsure
    BY <1>4 DEF ReportUnsure, PauseOr, Bounded, Capped, Remaining, ReportLate, Exit,
                Goto
<1>5. CASE ReportAgain
    BY <1>5 DEF ReportAgain, Goto
<1>6. ASSUME NEW w \in Offers, NEW a \in Action \cup {"none"}, ReportAccepted(w, a)
      PROVE StepOfWindow
    BY <1>6 DEF ReportAccepted, AdoptPolicy, ReportReturn, Goto
<1> QED
    BY <1>1, <1>2, <1>3, <1>4, <1>5, <1>6, Zenon DEF ReportStep

LEMMA UniqueStorageStep ==
    ASSUME DataOK, WindowInv, StorageStep
    PROVE StepOfWindow
<1> USE WaitAssumption DEF DataOK, WindowInv, StepOfWindow, Before, Over, Reporting,
                           Action, NotStarted, Requests, Sleeps, window, storage,
                           session, calls
<1>1. CASE ReleaseSend
    BY <1>1 DEF ReleaseSend, Bounded, Capped, Remaining, Unreleased, Goto
<1>2. CASE ReleaseConfirmed
    BY <1>2 DEF ReleaseConfirmed, Goto
<1>3. CASE ReleaseFailed
    BY <1>3 DEF ReleaseFailed, Unreleased, Goto
<1>4. CASE RecoverBegin
    BY <1>4 DEF RecoverBegin, Goto
<1>5. CASE RecoverTry
    BY <1>5 DEF RecoverTry, Bounded, Capped, Remaining, Exit, Goto
<1>6. CASE RecoverAcknowledged
    BY <1>6 DEF RecoverAcknowledged, RecoverDone, Exit, Goto
<1>7. CASE RecoverRefused
    BY <1>7 DEF RecoverRefused, Goto
<1>8. CASE RecoverStart
    BY <1>8 DEF RecoverStart, Bounded, Capped, Remaining, Goto
<1>9. CASE RecoverReady
    BY <1>9 DEF RecoverReady, Goto
<1>10. CASE RecoverPreflight
    BY <1>10 DEF RecoverPreflight, Bounded, Capped, Remaining, Goto
<1>11. CASE RecoverAdmitted
    BY <1>11 DEF RecoverAdmitted, Goto
<1>12. CASE RecoverRestart
    BY <1>12 DEF RecoverRestart, Goto
<1>13. CASE RecoverOwned
    BY <1>13 DEF RecoverOwned, Bounded, Capped, Remaining, Goto
<1>14. CASE RecoverDisposed
    BY <1>14 DEF RecoverDisposed, Goto
<1>15. CASE RecoverStop
    BY <1>15 DEF RecoverStop, Goto
<1>16. CASE RecoverRelease
    BY <1>16 DEF RecoverRelease, Bounded, Capped, Remaining, Goto
<1>17. CASE RecoverFailed
    BY <1>17 DEF RecoverFailed, Goto
<1>18. CASE RecoverJoin
    BY <1>18 DEF RecoverJoin, PauseOr, Bounded, Capped, Remaining, Exit, Goto
<1>19. CASE RecoverAgain
    BY <1>19 DEF RecoverAgain, Goto
<1> QED
    BY <1>1, <1>2, <1>3, <1>4, <1>5, <1>6, <1>7, <1>8, <1>9, <1>10, <1>11, <1>12, <1>13,
       <1>14, <1>15, <1>16, <1>17, <1>18, <1>19, Zenon DEF StorageStep

LEMMA UniqueWaitStep ==
    ASSUME DataOK, WindowInv, WaitStep
    PROVE StepOfWindow
<1> USE WaitAssumption DEF DataOK, WindowInv, StepOfWindow, Before, Over, Reporting,
                           Action, NotStarted, Requests, Sleeps, window, storage,
                           session, calls
<1>1. CASE Notify
    BY <1>1 DEF Notify, BeginWindow, Goto
<1>2. CASE HoldPoll
    BY <1>2 DEF HoldPoll, Bounded, Capped, Remaining, Goto
<1>3. CASE HoldTimeout
    BY <1>3 DEF HoldTimeout, Exit, Goto
<1>4. CASE Retry
    BY <1>4 DEF Retry, StorageClean
<1>5. CASE TaskGone
    BY <1>5 DEF TaskGone, Exit, Goto
<1>6. CASE PollOther
    BY <1>6 DEF PollOther, PauseOr, Bounded, Capped, Remaining, Exit, Goto
<1>7. CASE PollAgain
    BY <1>7 DEF PollAgain, Goto
<1>8. CASE Ended
    BY <1>8 DEF Ended, Goto
<1> QED
    BY <1>1, <1>2, <1>3, <1>4, <1>5, <1>6, <1>7, <1>8, Zenon DEF WaitStep

-----------------------------------------------------------------------------
LEMMA UniqueStep ==
    ASSUME DataOK, WindowInv, Next
    PROVE StepOfWindow
<1>1. CASE Tick
    BY <1>1 DEF Tick, StepOfWindow, window
<1> QED
    BY <1>1, UniqueTaskStep, UniqueReportStep, UniqueStorageStep, UniqueWaitStep, Zenon
    DEF Next, FailureStep

\* No other step starts a run.
LEMMA OnlyRetry ==
    ASSUME Next, run' # run
    PROVE Retry
<1> USE DEF session
<1>1. ASSUME TaskStep PROVE FALSE
    BY <1>1, Zenon DEF TaskStep, CheckinAny, Checkin, CheckinRefused, CheckinInvalid, StartHelper,
        Fail, PermitDenied, PermitCancelled, Killed, Complete, FinishReleased,
        FinishUnreleased, RecoverOnly
<1>2. ASSUME ReportStep PROVE FALSE
    BY <1>2, Zenon DEF ReportStep, QuiesceDone, ReportSend, ReportRejected, ReportUnsure,
        ReportAgain, ReportAccepted
<1>3. ASSUME StorageStep PROVE FALSE
    BY <1>3 DEF StorageStep, ReleaseSend, ReleaseConfirmed, ReleaseFailed, RecoverBegin,
        RecoverTry, RecoverAcknowledged, RecoverRefused, RecoverStart, RecoverReady,
        RecoverPreflight, RecoverAdmitted, RecoverRestart, RecoverOwned, RecoverDisposed,
        RecoverStop, RecoverRelease, RecoverFailed, RecoverJoin, RecoverAgain
<1>4. ASSUME Tick PROVE FALSE
    BY <1>4 DEF Tick
<1>5. ASSUME WaitStep PROVE Retry
    BY <1>5 DEF WaitStep, Notify, HoldPoll, HoldTimeout, TaskGone, PollOther, PollAgain,
        Ended
<1> QED
    BY <1>1, <1>2, <1>3, <1>4, <1>5, Zenon DEF Next, FailureStep

LEMMA InvInit == Init => IInv
<1> SUFFICES ASSUME Init PROVE IInv
    OBVIOUS
<1>1. FlagsOK
    BY Zenon DEF Init, FlagsOK
<1>2. DataOK
    BY WaitAssumption DEF Init, DataOK, Requests, Sleeps, Unbounded, Instant, Action,
        NotStarted
<1>3. WindowInv
    BY DEF Init, WindowInv, Before, Over, Reporting, Requests, Sleeps, NotStarted
<1>4. StoreInv
    BY DEF Init, StoreInv, Reporting, Managed
<1> QED
    BY <1>1, <1>2, <1>3, <1>4, Zenon DEF IInv, TypeOK

LEMMA InvStep == IInv /\ [Next]_vars => IInv'
<1> SUFFICES ASSUME FlagsOK, DataOK, WindowInv, StoreInv, [Next]_vars
             PROVE FlagsOK' /\ DataOK' /\ WindowInv' /\ StoreInv'
    BY Zenon DEF IInv, TypeOK
<1>1. CASE TaskStep
    BY <1>1, FlagsTaskStep, DataTaskStep, WindowTaskStep, StoreTaskStep, Zenon
<1>2. CASE ReportStep
    BY <1>2, FlagsReportStep, DataReportStep, WindowReportStep, StoreReportStep, Zenon
<1>3. CASE StorageStep
    BY <1>3, FlagsStorageStep, DataStorageStep, WindowStorageStep, StoreStorageStep, Zenon
<1>4. CASE WaitStep
    BY <1>4, FlagsWaitStep, DataWaitStep, WindowWaitStep, StoreWaitStep, Zenon
<1>5. CASE Tick \/ UNCHANGED vars
    BY <1>5, FlagsTick, DataTick, WindowTick, StoreTick, Zenon
<1> QED
    BY <1>1, <1>2, <1>3, <1>4, <1>5, Zenon DEF Next, FailureStep

\* The invariant that carries the results below.
THEOREM Inductive == Spec => []IInv
<1>1. Init => IInv
    BY InvInit
<1>2. IInv /\ [Next]_vars => IInv'
    BY InvStep
<1> QED
    BY <1>1, <1>2, PTL DEF Spec

\* The state of a run always has its type.
THEOREM TypeCorrect == Spec => []TypeOK
<1>1. IInv => TypeOK
    BY DEF IInv
<1> QED
    BY <1>1, Inductive, PTL

\* No request, read or sleep of handleError, of the storage recovery or of the
\* wait outlasts the deadline, whatever the policy and its update.
THEOREM DeadlineIsKept == Spec => []NothingOutlastsDeadline
<1>1. IInv => NothingOutlastsDeadline
    BY DEF IInv, WindowInv, NothingOutlastsDeadline
<1> QED
    BY <1>1, Inductive, PTL

\* init finds the action of the policy in force.
THEOREM ActionRecorded == Spec => []ActionIsRecorded
<1>1. IInv => ActionIsRecorded
    BY DEF IInv, WindowInv, ActionIsRecorded
<1> QED
    BY <1>1, Inductive, PTL

\* One failure has one window: its start never moves, and its policy moves once,
\* with the first accepted report.
THEOREM WindowIsOne == Spec => OneWindow
<1>1. IInv /\ [Next]_vars => [started # NotStarted /\ run' = run =>
          /\ started' = started
          /\ <<wait, action, deadline>>' # <<wait, action, deadline>> => ~fixed /\ fixed']_vars
  <2> SUFFICES ASSUME DataOK, WindowInv, Next PROVE StepOfWindow
    BY Zenon DEF IInv, TypeOK, StepOfWindow
  <2> QED
    BY UniqueStep
<1> QED
    BY <1>1, Inductive, PTL DEF Spec, OneWindow

\* A report that was rejected for good is not sent again in the same run.
THEOREM RejectionIsFinal == Spec => RejectedIsFinal
<1>1. IInv /\ [Next]_vars =>
          [rejected /\ run' = run => ~(pc = "report" /\ pc' = "report_wait")]_vars
  <2> SUFFICES ASSUME DataOK, WindowInv, Next PROVE StepOfWindow
    BY Zenon DEF IInv, TypeOK, StepOfWindow
  <2> QED
    BY UniqueStep
<1> QED
    BY <1>1, Inductive, PTL DEF Spec, RejectedIsFinal

\* Only a poll that follows an accepted report admits a retry, and only over
\* storage that is released and has no helper.
THEOREM RetriesAreClean == Spec => RetryIsClean
<1>1. IInv /\ [Next]_vars =>
          [run' # run => answer /\ ~helper /\ (workspace => released)]_vars
  <2> SUFFICES ASSUME StoreInv, Next, run' # run
               PROVE answer /\ ~helper /\ (workspace => released)
    BY Zenon DEF IInv
  <2>1. Retry
    BY OnlyRetry, Zenon
  <2> QED
    BY <2>1 DEF Retry, StorageClean, StoreInv
<1> QED
    BY <1>1, Inductive, PTL DEF Spec, RetryIsClean
=============================================================================
