------------------------ MODULE StorageWorkerSteps -------------------------
(***************************************************************************)
(* The inductive invariant of StorageWorker, for every image, number of    *)
(* boots and number of requests that arrive late.  It follows a read       *)
(* through its two events: each is in the FIFO, published, recorded, lost  *)
(* or acknowledged, and the helper streams only between the two.           *)
(*                                                                         *)
(* Here are the shapes of the state and the steps around a read; the       *)
(* module StorageWorkerProofs has the read itself and the theorems.        *)
(***************************************************************************)
EXTENDS StorageWorker, TLAPS

\* The shape of the state, with sequence numbers that are only numbers.
Word == {"none", "cmd", "ack", "info", "intent", "result", "done", "preflight",
         "release", "checkpoint", "off", "event", "ok", "fail", "no", "boot",
         "wait", "stream", "exit0", "exit1"}
AnyMessage == [kind : Word, seq : Nat, file : File]
AnyCall == [op : Word, boot : Nat, stopped : BOOLEAN, event : AnyMessage]
Answer == [kind : Word, seq : Nat]

AnyJournal == [seq : Nat, file : File, boot : Nat, released : BOOLEAN]
AnyReader == [pc : Word, file : File, mine : BOOLEAN, left : AnyMessage]
AnyHelper == [pc : Word, last : Nat, seq : Nat, file : File, term : BOOLEAN]

ProcessShape ==
    /\ reader \in AnyReader /\ helper \in AnyHelper
    /\ request \in AnyMessage /\ result \in AnyMessage

NetShape ==
    /\ boot \in Nat /\ ctx \in Nat /\ seqFile \in Nat
    /\ mounting \in BOOLEAN /\ reconcile \in BOOLEAN
    /\ call \in [Party -> AnyCall] /\ resp \in [Party -> Answer]
    /\ late \subseteq AnyCall
    /\ svc \in AnyJournal

Shape == ProcessShape /\ NetShape

-----------------------------------------------------------------------------
(* The inductive invariant.  The controller's side: *)

\* The controller has joined the helper, and starts no other before `start'.
Joined == {"report", "loop", "restart"} \cup Releases \cup Terminal

\* Which call the controller waits for at each place, and that it reads the
\* answer.
CallInv ==
    /\ ctl \in Ctl
    /\ then \in {"fail", "recover", "restart", "report", "loop", "releaseMark", "releaseOnce"}
    /\ call["main"].op # "none" => resp["main"].kind = "none"
    /\ call["main"].op \in {"none", "preflight", "release"}
    /\ call["main"].op = "preflight" => ctl \in {"preflight", "owned"}
    /\ call["main"].op = "preflight" /\ call["main"].stopped => ctl = "preflight"
    /\ call["main"].op = "release" => ctl \in Releases
    /\ call["exec"].op \in {"none", "checkpoint"}
    /\ \A c \in late : c.op \in {"preflight", "release", "checkpoint"}
    /\ resp["main"].kind # "none" =>
           \/ ctl \in {"preflight", "owned", "restart"} \cup Releases
           \/ ctl = "stop" /\ then = "restart"

\* Where the controller knows what the helper does.
HelperInv ==
    /\ ctl \in Joined \cup {"start"} => helper.pc = "none"
    /\ ctl \in {"ready", "preflight"} =>
           /\ helper.seq = 0 /\ helper.pc \in {"boot", "wait", "exit1"}
    /\ ctl = "ready" /\ result.kind = "info" => helper.pc # "boot"
    /\ ctl = "preflight" => helper.pc # "boot"

\* An acknowledged release is one the service has done.
ReleaseInv ==
    /\ ctl \in Releases /\ resp["main"].kind = "ok" => svc.released
    /\ ctl = "done" => svc.released

(* The places of a first boot that deploys: the session is opened, the         *)
(* deployment rests between two reads, reads, or ends a read that failed.      *)

Before == \/ ctl \in {"start", "ready", "preflight", "restart"}
          \/ ctl = "stop" /\ then \in {"restart", "fail"}
Resting == ctl = "work" \/ (ctl = "stop" /\ then = "releaseMark")
Ending == ctl = "fail" \/ (ctl = "stop" /\ then = "report")
Reading == boot = 1 /\ (ctl = "exec" \/ Ending)
Opening == boot = 1 /\ mounting /\ Before
First == Opening \/ Resting \/ Reading

\* No event is under way to the service: none sent, answered or delayed.
Silent == /\ call["exec"].op = "none" /\ resp["exec"].kind = "none"
          /\ \A c \in late : c.op # "checkpoint"

\* The last event the service has recorded, and the read it has open.
Journal(n, f) == svc.seq = n /\ svc.file = f

\* Only a first boot reads, and only while pxeos.mount or its caller runs.
WhereInv ==
    /\ boot >= 1 /\ todo \subseteq Files
    /\ Resting \/ ctl = "exec" => boot = 1
    /\ Resting \/ ctl = "exec" \/ Ending => mounting
    /\ ctl = "stop" /\ then = "fail" => mounting

\* Until its first read has failed or the last has ended, nobody has asked for
\* a release or reconciled, and no such request is delayed.
FirstInv == First =>
    /\ ~reconcile /\ ~svc.released /\ svc.boot \in {0, 1} /\ (svc.boot = 0 => svc.file = None)
    /\ call["main"].op = "preflight" => ~call["main"].stopped /\ call["main"].boot = 1
    /\ \A c \in late : c.op # "release" /\ (c.op = "preflight" => ~c.stopped /\ c.boot = 1)

\* While the session is opened the journal is empty.
OpeningInv == Opening =>
    /\ Journal(0, None) /\ ctx = 0 /\ todo = Files /\ Silent
    /\ reader.pc = "off" /\ ~reader.mine
    /\ ctl \in {"ready", "preflight"} => helper.last = 0
    /\ resp["main"].seq = 0 /\ (resp["main"].kind = "ok" => svc.boot = 1)

\* Outside a read the helper has no command and no ack to take, and no
\* subshell that could write one.
IdleInv ==
    ~Reading => /\ helper.pc \in {"none", "boot", "wait", "exit0", "exit1"}
                /\ helper.pc \in {"boot", "wait"} => request.kind = "none" /\ ~reader.mine

\* Nothing is in the FIFOs of a helper that has just become ready.
PreflightInv ==
    /\ ctl \in {"ready", "preflight"} => request.kind = "none" /\ ~reader.mine
    /\ ctl = "preflight" => result.kind = "none"

\* The counters agree and nothing is under way.
Counted ==
    /\ Silent /\ svc.boot = 1 /\ Journal(helper.last, None) /\ seqFile = helper.last + 1
    /\ request.kind = "none"
\* Between two reads: two events for every file read.
RestingInv == Resting =>
    /\ Counted /\ result.kind = "none" /\ reader.pc = "off" /\ ~reader.mine
    /\ helper.last = 2 * Cardinality(Files \ todo)
    /\ helper.pc \in {"wait", "exit0", "exit1"}

\* The helper has said that the read is done.
Done == reader.pc = "ok" \/ result.kind = "done"

\* The subshell is not publishing an event.
Between == reader.pc # "checkpoint" /\ reader.pc # "ok" /\ Silent
\* An event k with number n of the helper: in the FIFO, published, recorded
\* and answered, refused or given up, or acknowledged; before and after are
\* what the journal says before it is recorded and after.
Phase(k, n, before, after) ==
    \/ /\ result = Msg(k, n, helper.file) /\ request.kind = "none"
       /\ Between /\ before
    \/ /\ result.kind = "none" /\ request.kind = "none"
       /\ reader.pc = "checkpoint" /\ reader.left = Msg(k, n, helper.file)
       /\ \/ /\ call["exec"].op = "checkpoint" /\ call["exec"].boot = 1
             /\ call["exec"].event = reader.left
             /\ resp["exec"].kind = "none" /\ before
             /\ \A c \in late : c.op # "checkpoint"
          \/ /\ call["exec"].op = "none" /\ resp["exec"] = [kind |-> "ok", seq |-> n] /\ after
             /\ \A c \in late : c.op # "checkpoint"
    \/ /\ result.kind = "none" /\ request.kind = "none" /\ call["exec"].op = "none"
       /\ \/ reader.pc = "checkpoint" /\ resp["exec"].kind = "no"
          \/ reader.pc \in {"off", "fail"} /\ resp["exec"].kind = "none"
    \/ /\ result.kind = "none" /\ request = Msg("ack", n, helper.file) /\ Between /\ after
       /\ seqFile = n + 1

\* A helper that waits has a command to take, or has finished one.
AtWait ==
    \/ /\ request.kind = "cmd" /\ request.seq = helper.last + 1 /\ result.kind = "none"
       /\ Between /\ Journal(helper.last, None)
    \/ /\ request.kind = "none" /\ Counted /\ reader.pc # "checkpoint"
       /\ result.kind \in {"none", "done"}

\* A read is streamed between its two events.
Journalled ==
    /\ helper.pc \in {"intent", "stream", "result"} => helper.seq = helper.last + 1
    /\ helper.pc = "intent" =>
          Phase("intent", helper.seq, Journal(helper.last, None),
                                      Journal(helper.seq, helper.file))
    /\ helper.pc = "stream" =>
          /\ request.kind = "none" /\ result.kind = "none" /\ Between
          /\ Journal(helper.seq, helper.file)
    /\ helper.pc = "result" =>
          Phase("result", helper.seq + 1, Journal(helper.seq, helper.file),
                                          Journal(helper.seq + 1, None))

\* Who moves next in a read.
Turns ==
    /\ helper.pc \in {"none", "wait", "intent", "stream", "result", "exit0", "exit1"}
    /\ helper.pc # "none" => svc.boot = 1
    /\ helper.pc = "none" => Silent /\ reader.pc = "off" /\ ~reader.mine
    /\ reader.pc \in ReaderRuns => reader.mine
    /\ reader.pc = "ok" => result.kind = "none"
    /\ helper.pc # "none" /\ Done => Counted /\ helper.pc \in {"wait", "exit0", "exit1"}

\* While a read is waited for, the counter says which it is.
Agreed ==
    ctl = "exec" => /\ reader.file \in todo
                    /\ helper.last = 2 * Cardinality(Files \ todo) + (IF Done THEN 2 ELSE 0)

\* All of a read, from its command to the end of the subshell.
ReadInv == Reading => Turns /\ (helper.pc = "wait" => AtWait) /\ Journalled /\ Agreed

SessionInv ==
    /\ Shape /\ CallInv /\ HelperInv /\ ReleaseInv
    /\ WhereInv /\ FirstInv /\ OpeningInv /\ IdleInv /\ PreflightInv /\ RestingInv /\ ReadInv

-----------------------------------------------------------------------------
(* Shapes. *)

\* The words that name places, kinds and operations.
LEMMA Words ==
    /\ "none" \in Word /\ "cmd" \in Word /\ "ack" \in Word /\ "info" \in Word
    /\ "intent" \in Word /\ "result" \in Word /\ "done" \in Word /\ "preflight" \in Word
    /\ "release" \in Word /\ "checkpoint" \in Word /\ "off" \in Word /\ "event" \in Word
    /\ "ok" \in Word /\ "fail" \in Word /\ "no" \in Word /\ "boot" \in Word
    /\ "wait" \in Word /\ "stream" \in Word /\ "exit0" \in Word /\ "exit1" \in Word
  BY Zenon DEF Word

\* Messages have their shape.
LEMMA MessageShape ==
    /\ NoMsg \in AnyMessage /\ NoMsg.kind = "none"
    /\ [NoMsg EXCEPT !.kind = "info"] \in AnyMessage
    /\ [NoMsg EXCEPT !.kind = "info"].kind = "info"
    /\ \A m \in AnyMessage : m.kind \in Word /\ m.seq \in Nat /\ m.file \in File
    /\ \A k \in Word, s \in Nat, f \in File :
           Msg(k, s, f) \in AnyMessage /\ Msg(k, s, f).kind = k
  BY Words, Zenon DEF AnyMessage, NoMsg, Msg, File

\* The calls that are built have their shape.
LEMMA CallShape ==
    /\ NoCall \in AnyCall /\ NoCall.op = "none"
    /\ boot \in Nat => Preflight \in AnyCall
    /\ Preflight.op = "preflight" /\ ~Preflight.stopped
    /\ \A b \in BOOLEAN : boot \in Nat => [Preflight EXCEPT !.stopped = b] \in AnyCall
    /\ \A b \in BOOLEAN : [Preflight EXCEPT !.stopped = b].op = "preflight"
    /\ boot \in Nat => [NoCall EXCEPT !.op = "release", !.boot = boot] \in AnyCall
    /\ [NoCall EXCEPT !.op = "release", !.boot = boot].op = "release"
    /\ \A m \in AnyMessage : boot \in Nat =>
           [NoCall EXCEPT !.op = "checkpoint", !.boot = boot, !.event = m] \in AnyCall
    /\ \A m :
           [NoCall EXCEPT !.op = "checkpoint", !.boot = boot, !.event = m].op = "checkpoint"
  BY Words, MessageShape, Zenon DEF AnyCall, NoCall, Preflight

\* The shape at the start.
LEMMA ShapeInit == Init => Shape
<1> SUFFICES ASSUME Init PROVE Shape
    BY Zenon
<1> USE DEF Init
<1>1. reader \in AnyReader
    BY Words, MessageShape, Zenon DEF AnyReader, NoReader, File
<1>2. helper \in AnyHelper
    BY Words, Zenon DEF AnyHelper, NoHelper, File
<1>3. call \in [Party -> AnyCall]
    BY CallShape, Zenon
<1>4. resp \in [Party -> Answer]
    BY Words, Zenon DEF Answer, NoAnswer
<1>5. svc \in AnyJournal
    BY Zenon DEF AnyJournal, File
<1> QED
    BY <1>1, <1>2, <1>3, <1>4, <1>5, MessageShape, Zenon DEF Shape, ProcessShape, NetShape

-----------------------------------------------------------------------------
(* Which actions change which variable. *)

\* Every variable changes only in the steps named here.
LEMMA Frame == [Next]_vars =>
    /\ \/ UNCHANGED boot \/ Reboot
    /\ \/ UNCHANGED mounting \/ ReleaseAnswered \/ Reboot
    /\ \/ UNCHANGED todo \/ ReadEnds
    /\ \/ UNCHANGED ctx \/ Restart \/ Reboot
    /\ \/ UNCHANGED seqFile \/ PreflightAccepted \/ ReaderAcked \/ Reboot
    /\ \/ UNCHANGED reconcile \/ PreflightAccepted \/ Recover \/ Reboot
    /\ \/ UNCHANGED then \/ NotReady \/ PreflightRefused \/ PreflightAccepted
       \/ ClearMarker \/ Fail \/ Recover \/ RecoverOnce \/ Reboot
    /\ \/ UNCHANGED reader \/ Start \/ ReadEnds \/ (\E f \in Files : StartRead(f))
       \/ Reader \/ Reboot
    /\ \/ UNCHANGED helper \/ Start \/ NotReady \/ PreflightRefused \/ Stop \/ Fail
       \/ Recover \/ Reader \/ Helper \/ HelperFails \/ Reboot
    /\ \/ UNCHANGED request \/ Start \/ (\E f \in Files : StartRead(f)) \/ ReaderAcked
       \/ HelperCommand \/ HelperIntentAcked \/ HelperResultAcked \/ Reboot
    /\ \/ UNCHANGED result \/ Start \/ Ready \/ ReaderEvent \/ HelperReady
       \/ HelperCommand \/ HelperStreamed \/ HelperResultAcked \/ Reboot
    /\ \/ UNCHANGED call \/ Ready \/ SendRelease \/ SendOwned \/ ReaderEvent
       \/ (\E p \in Party : Serve(p)) \/ (\E p \in Party : Timeout(p)) \/ Reboot
    /\ \/ UNCHANGED resp \/ Ready \/ SendRelease \/ SendOwned \/ PreflightRefused
       \/ PreflightAccepted \/ Restart \/ ReleaseAnswered \/ RecoverOnce \/ Stop
       \/ ReaderAcked \/ (\E p \in Party : Serve(p)) \/ (\E p \in Party : Timeout(p))
       \/ Reboot
    /\ \/ UNCHANGED late \/ ServeLate \/ (\E p \in Party : Timeout(p)) \/ Reboot
    /\ \/ UNCHANGED svc \/ ServeLate \/ (\E p \in Party : Serve(p))
<1> SUFFICES ASSUME [Next]_vars PROVE
       /\ \/ UNCHANGED boot \/ Reboot
       /\ \/ UNCHANGED mounting \/ ReleaseAnswered \/ Reboot
       /\ \/ UNCHANGED todo \/ ReadEnds
       /\ \/ UNCHANGED ctx \/ Restart \/ Reboot
       /\ \/ UNCHANGED seqFile \/ PreflightAccepted \/ ReaderAcked \/ Reboot
       /\ \/ UNCHANGED reconcile \/ PreflightAccepted \/ Recover \/ Reboot
       /\ \/ UNCHANGED then \/ NotReady \/ PreflightRefused \/ PreflightAccepted
          \/ ClearMarker \/ Fail \/ Recover \/ RecoverOnce \/ Reboot
       /\ \/ UNCHANGED reader \/ Start \/ ReadEnds \/ (\E f \in Files : StartRead(f))
          \/ Reader \/ Reboot
       /\ \/ UNCHANGED helper \/ Start \/ NotReady \/ PreflightRefused \/ Stop \/ Fail
          \/ Recover \/ Reader \/ Helper \/ HelperFails \/ Reboot
       /\ \/ UNCHANGED request \/ Start \/ (\E f \in Files : StartRead(f)) \/ ReaderAcked
          \/ HelperCommand \/ HelperIntentAcked \/ HelperResultAcked \/ Reboot
       /\ \/ UNCHANGED result \/ Start \/ Ready \/ ReaderEvent \/ HelperReady
          \/ HelperCommand \/ HelperStreamed \/ HelperResultAcked \/ Reboot
       /\ \/ UNCHANGED call \/ Ready \/ SendRelease \/ SendOwned \/ ReaderEvent
          \/ (\E p \in Party : Serve(p)) \/ (\E p \in Party : Timeout(p)) \/ Reboot
       /\ \/ UNCHANGED resp \/ Ready \/ SendRelease \/ SendOwned \/ PreflightRefused
          \/ PreflightAccepted \/ Restart \/ ReleaseAnswered \/ RecoverOnce \/ Stop
          \/ ReaderAcked \/ (\E p \in Party : Serve(p)) \/ (\E p \in Party : Timeout(p))
          \/ Reboot
       /\ \/ UNCHANGED late \/ ServeLate \/ (\E p \in Party : Timeout(p)) \/ Reboot
       /\ \/ UNCHANGED svc \/ ServeLate \/ (\E p \in Party : Serve(p))
    BY Zenon
<1> USE DEF Next, Controller, Service, vars, keepVars, ipcVars, netVars
<1>1. \/ UNCHANGED boot \/ Reboot
    BY Zenon DEF Reader, Helper, HelperKilled, HelperFails, Start, Ready, NotReady,
       PreflightRefused, PreflightAccepted, Restart, Stop, StartRead, ReadEnds,
       ClearMarker, Fail, Report, SendRelease, ReleaseAnswered, Recover, RecoverLoop,
       SendOwned, RecoverOnce, ReaderEvent, ReaderAcked, ReaderTimeout, HelperReady,
       HelperCommand, HelperIntentAcked, HelperStreamed, HelperResultAcked, HelperEOF,
       HelperDies, Serve, Timeout, ServeLate, RestoreFails, DeployFails, Tick
<1>2. \/ UNCHANGED mounting \/ ReleaseAnswered \/ Reboot
    BY Zenon DEF Reader, Helper, HelperKilled, HelperFails, Start, Ready, NotReady,
       PreflightRefused, PreflightAccepted, Restart, Stop, StartRead, ReadEnds,
       ClearMarker, Fail, Report, SendRelease, Recover, RecoverLoop, SendOwned,
       RecoverOnce, ReaderEvent, ReaderAcked, ReaderTimeout, HelperReady, HelperCommand,
       HelperIntentAcked, HelperStreamed, HelperResultAcked, HelperEOF, HelperDies, Serve,
       Timeout, ServeLate, RestoreFails, DeployFails, Tick
<1>3. \/ UNCHANGED todo \/ ReadEnds
    BY Zenon DEF Reader, Helper, HelperKilled, HelperFails, Start, Ready, NotReady,
       PreflightRefused, PreflightAccepted, Restart, Stop, StartRead, ClearMarker, Fail,
       Report, SendRelease, ReleaseAnswered, Recover, RecoverLoop, SendOwned, RecoverOnce,
       ReaderEvent, ReaderAcked, ReaderTimeout, HelperReady, HelperCommand,
       HelperIntentAcked, HelperStreamed, HelperResultAcked, HelperEOF, HelperDies, Serve,
       Timeout, ServeLate, RestoreFails, DeployFails, Tick, Reboot
<1>4. \/ UNCHANGED ctx \/ Restart \/ Reboot
    BY Zenon DEF Reader, Helper, HelperKilled, HelperFails, Start, Ready, NotReady,
       PreflightRefused, PreflightAccepted, Stop, StartRead, ReadEnds, ClearMarker, Fail,
       Report, SendRelease, ReleaseAnswered, Recover, RecoverLoop, SendOwned, RecoverOnce,
       ReaderEvent, ReaderAcked, ReaderTimeout, HelperReady, HelperCommand,
       HelperIntentAcked, HelperStreamed, HelperResultAcked, HelperEOF, HelperDies, Serve,
       Timeout, ServeLate, RestoreFails, DeployFails, Tick
<1>5. \/ UNCHANGED seqFile \/ PreflightAccepted \/ ReaderAcked \/ Reboot
    BY Zenon DEF Reader, Helper, HelperKilled, HelperFails, Start, Ready, NotReady,
       PreflightRefused, Restart, Stop, StartRead, ReadEnds, ClearMarker, Fail, Report,
       SendRelease, ReleaseAnswered, Recover, RecoverLoop, SendOwned, RecoverOnce,
       ReaderEvent, ReaderTimeout, HelperReady, HelperCommand, HelperIntentAcked,
       HelperStreamed, HelperResultAcked, HelperEOF, HelperDies, Serve, Timeout,
       ServeLate, RestoreFails, DeployFails, Tick
<1>6. \/ UNCHANGED reconcile \/ PreflightAccepted \/ Recover \/ Reboot
    BY Zenon DEF Reader, Helper, HelperKilled, HelperFails, Start, Ready, NotReady,
       PreflightRefused, Restart, Stop, StartRead, ReadEnds, ClearMarker, Fail, Report,
       SendRelease, ReleaseAnswered, RecoverLoop, SendOwned, RecoverOnce, ReaderEvent,
       ReaderAcked, ReaderTimeout, HelperReady, HelperCommand, HelperIntentAcked,
       HelperStreamed, HelperResultAcked, HelperEOF, HelperDies, Serve, Timeout,
       ServeLate, RestoreFails, DeployFails, Tick
<1>7. \/ UNCHANGED then \/ NotReady \/ PreflightRefused \/ PreflightAccepted
      \/ ClearMarker \/ Fail \/ Recover \/ RecoverOnce \/ Reboot
    BY Zenon DEF Reader, Helper, HelperKilled, HelperFails, Start, Ready, Restart, Stop,
       StartRead, ReadEnds, Report, SendRelease, ReleaseAnswered, RecoverLoop, SendOwned,
       ReaderEvent, ReaderAcked, ReaderTimeout, HelperReady, HelperCommand,
       HelperIntentAcked, HelperStreamed, HelperResultAcked, HelperEOF, HelperDies, Serve,
       Timeout, ServeLate, RestoreFails, DeployFails, Tick
<1>8. \/ UNCHANGED reader \/ Start \/ ReadEnds \/ (\E f \in Files : StartRead(f))
      \/ Reader \/ Reboot
    BY Zenon DEF Helper, HelperKilled, HelperFails, Ready, NotReady, PreflightRefused,
       PreflightAccepted, Restart, Stop, ClearMarker, Fail, Report, SendRelease,
       ReleaseAnswered, Recover, RecoverLoop, SendOwned, RecoverOnce, HelperReady,
       HelperCommand, HelperIntentAcked, HelperStreamed, HelperResultAcked, HelperEOF,
       HelperDies, Serve, Timeout, ServeLate, RestoreFails, DeployFails, Tick
<1>9. \/ UNCHANGED helper \/ Start \/ NotReady \/ PreflightRefused \/ Stop \/ Fail
      \/ Recover \/ Reader \/ Helper \/ HelperFails \/ Reboot
    BY Zenon DEF Ready, PreflightAccepted, Restart, StartRead, ReadEnds, ClearMarker, Report,
       SendRelease, ReleaseAnswered, RecoverLoop, SendOwned, RecoverOnce, Serve, Timeout,
       ServeLate, RestoreFails, DeployFails, Tick
<1>10. \/ UNCHANGED request \/ Start \/ (\E f \in Files : StartRead(f)) \/ ReaderAcked
      \/ HelperCommand \/ HelperIntentAcked \/ HelperResultAcked \/ Reboot
    BY Zenon DEF Reader, Helper, HelperKilled, HelperFails, Ready, NotReady, PreflightRefused,
       PreflightAccepted, Restart, Stop, ReadEnds, ClearMarker, Fail, Report, SendRelease,
       ReleaseAnswered, Recover, RecoverLoop, SendOwned, RecoverOnce, ReaderEvent,
       ReaderTimeout, HelperReady, HelperStreamed, HelperEOF, HelperDies, Serve, Timeout,
       ServeLate, RestoreFails, DeployFails, Tick
<1>11. \/ UNCHANGED result \/ Start \/ Ready \/ ReaderEvent \/ HelperReady \/ HelperCommand
      \/ HelperStreamed \/ HelperResultAcked \/ Reboot
    BY Zenon DEF Reader, Helper, HelperKilled, HelperFails, NotReady, PreflightRefused,
       PreflightAccepted, Restart, Stop, StartRead, ReadEnds, ClearMarker, Fail, Report,
       SendRelease, ReleaseAnswered, Recover, RecoverLoop, SendOwned, RecoverOnce,
       ReaderAcked, ReaderTimeout, HelperIntentAcked, HelperEOF, HelperDies, Serve,
       Timeout, ServeLate, RestoreFails, DeployFails, Tick
<1>12. \/ UNCHANGED call \/ Ready \/ SendRelease \/ SendOwned \/ ReaderEvent
      \/ (\E p \in Party : Serve(p)) \/ (\E p \in Party : Timeout(p)) \/ Reboot
    BY Zenon
    DEF Forget, Reader, Helper, HelperKilled, HelperFails, Start, NotReady, PreflightRefused,
       PreflightAccepted, Restart, Stop, StartRead, ReadEnds, ClearMarker, Fail, Report,
       ReleaseAnswered, Recover, RecoverLoop, RecoverOnce, ReaderAcked, ReaderTimeout,
       HelperReady, HelperCommand, HelperIntentAcked, HelperStreamed, HelperResultAcked,
       HelperEOF, HelperDies, ServeLate, RestoreFails, DeployFails, Tick
<1>13. \/ UNCHANGED resp \/ Ready \/ SendRelease \/ SendOwned \/ PreflightRefused
      \/ PreflightAccepted \/ Restart \/ ReleaseAnswered \/ RecoverOnce \/ Stop
      \/ ReaderAcked \/ (\E p \in Party : Serve(p)) \/ (\E p \in Party : Timeout(p))
      \/ Reboot
    BY Zenon DEF Reader, Helper, HelperKilled, HelperFails, Start, NotReady, StartRead,
       ReadEnds, ClearMarker, Fail, Report, Recover, RecoverLoop, ReaderEvent,
       ReaderTimeout, HelperReady, HelperCommand, HelperIntentAcked, HelperStreamed,
       HelperResultAcked, HelperEOF, HelperDies, ServeLate, RestoreFails, DeployFails,
       Tick
<1>14. \/ UNCHANGED late \/ ServeLate \/ (\E p \in Party : Timeout(p)) \/ Reboot
    BY Zenon DEF Reader, Helper, HelperKilled, HelperFails, Start, Ready, NotReady,
       PreflightRefused, PreflightAccepted, Restart, Stop, StartRead, ReadEnds,
       ClearMarker, Fail, Report, SendRelease, ReleaseAnswered, Recover, RecoverLoop,
       SendOwned, RecoverOnce, ReaderEvent, ReaderAcked, ReaderTimeout, HelperReady,
       HelperCommand, HelperIntentAcked, HelperStreamed, HelperResultAcked, HelperEOF,
       HelperDies, Serve, RestoreFails, DeployFails, Tick
<1>15. \/ UNCHANGED svc \/ ServeLate \/ (\E p \in Party : Serve(p))
    BY Zenon DEF Reader, Helper, HelperKilled, HelperFails, Start, Ready, NotReady,
       PreflightRefused, PreflightAccepted, Restart, Stop, StartRead, ReadEnds,
       ClearMarker, Fail, Report, SendRelease, ReleaseAnswered, Recover, RecoverLoop,
       SendOwned, RecoverOnce, ReaderEvent, ReaderAcked, ReaderTimeout, HelperReady,
       HelperCommand, HelperIntentAcked, HelperStreamed, HelperResultAcked, HelperEOF,
       HelperDies, Timeout, RestoreFails, DeployFails, Tick, Reboot
<1> QED
    BY <1>1, <1>2, <1>3, <1>4, <1>5, <1>6, <1>7, <1>8, <1>9, <1>10, <1>11, <1>12, <1>13,
       <1>14, <1>15

-----------------------------------------------------------------------------
(* The shape of the processes: what each edit of a record returns. *)

\* Every edit of the subshell keeps its shape.
LEMMA ReaderEdits == ASSUME NEW r \in AnyReader PROVE
    /\ NoReader \in AnyReader
    /\ \A w \in Word : [r EXCEPT !.pc = w] \in AnyReader
    /\ \A w \in Word, m \in AnyMessage : [r EXCEPT !.pc = w, !.left = m] \in AnyReader
    /\ \A m \in AnyMessage : [r EXCEPT !.mine = FALSE, !.left = m] \in AnyReader
    /\ \A f \in File : [NoReader EXCEPT !.pc = "event", !.file = f, !.mine = TRUE] \in AnyReader
<1>1. NoReader \in AnyReader
    BY Words, MessageShape, Zenon DEF AnyReader, NoReader, File
<1>2. ASSUME NEW w \in Word PROVE [r EXCEPT !.pc = w] \in AnyReader
    BY Zenon DEF AnyReader
<1>3. ASSUME NEW w \in Word, NEW m \in AnyMessage
      PROVE  [r EXCEPT !.pc = w, !.left = m] \in AnyReader
    BY Zenon DEF AnyReader
<1>4. ASSUME NEW m \in AnyMessage PROVE [r EXCEPT !.mine = FALSE, !.left = m] \in AnyReader
    BY Zenon DEF AnyReader
<1>5. ASSUME NEW f \in File
      PROVE  [NoReader EXCEPT !.pc = "event", !.file = f, !.mine = TRUE] \in AnyReader
    BY Words, <1>1, Zenon DEF AnyReader
<1> QED
    BY <1>1, <1>2, <1>3, <1>4, <1>5, Zenon

\* Every edit of the helper keeps its shape.
LEMMA HelperEdits == ASSUME NEW h \in AnyHelper PROVE
    /\ NoHelper \in AnyHelper
    /\ \A w \in Word : [h EXCEPT !.pc = w] \in AnyHelper
    /\ [h EXCEPT !.term = TRUE] \in AnyHelper
    /\ \A n \in Nat : [NoHelper EXCEPT !.pc = "boot", !.last = n] \in AnyHelper
    /\ \A n \in Nat, f \in File :
           [h EXCEPT !.pc = "intent", !.seq = n, !.file = f] \in AnyHelper
    /\ \A n \in Nat : [h EXCEPT !.pc = "wait", !.last = n] \in AnyHelper
<1>1. NoHelper \in AnyHelper
    BY Words, Zenon DEF AnyHelper, NoHelper, File
<1>2. ASSUME NEW w \in Word PROVE [h EXCEPT !.pc = w] \in AnyHelper
    BY Zenon DEF AnyHelper
<1>3. [h EXCEPT !.term = TRUE] \in AnyHelper
    BY Zenon DEF AnyHelper
<1>4. ASSUME NEW n \in Nat PROVE [NoHelper EXCEPT !.pc = "boot", !.last = n] \in AnyHelper
    BY Words, <1>1, Zenon DEF AnyHelper
<1>5. ASSUME NEW n \in Nat, NEW f \in File
      PROVE  [h EXCEPT !.pc = "intent", !.seq = n, !.file = f] \in AnyHelper
    BY Words, Zenon DEF AnyHelper
<1>6. ASSUME NEW n \in Nat PROVE [h EXCEPT !.pc = "wait", !.last = n] \in AnyHelper
    BY Words, Zenon DEF AnyHelper
<1> QED
    BY <1>1, <1>2, <1>3, <1>4, <1>5, <1>6, Zenon

\* A request and its refusal keep the shape of the network.
LEMMA AskShape == ASSUME NetShape, NEW c \in AnyCall, Ask(c)
                  PROVE call' \in [Party -> AnyCall] /\ resp' \in [Party -> Answer]
<1>1. [kind |-> "no", seq |-> 0] \in Answer
    BY Words, Zenon DEF Answer
<1> QED
    BY <1>1, Zenon DEF NetShape, Ask

\* So does reading an answer.
LEMMA ForgetShape == ASSUME NetShape, Forget
                     PROVE call' \in [Party -> AnyCall] /\ resp' \in [Party -> Answer]
<1>1. NoAnswer \in Answer
    BY Words, Zenon DEF Answer, NoAnswer
<1> QED
    BY <1>1, Zenon DEF NetShape, Forget

\* The subshell keeps its shape.
LEMMA ReaderStep ==
    ASSUME Shape, Start \/ ReadEnds \/ (\E f \in Files : StartRead(f)) \/ Reader \/ Reboot
    PROVE  reader' \in AnyReader
<1> USE DEF Shape, ProcessShape
<1>1. CASE Start
    BY <1>1, ReaderEdits, Zenon DEF Start
<1>2. CASE ReadEnds \/ Reboot
    BY <1>2, ReaderEdits, Zenon DEF ReadEnds, Reboot
<1>3. ASSUME NEW f \in Files, StartRead(f) PROVE reader' \in AnyReader
    BY <1>3, ReaderEdits, Zenon DEF StartRead, File
<1>4. Inbox \in AnyMessage
    BY Zenon DEF Inbox, AnyReader
<1>5. \A v \in {"ok", "fail"} : ReaderEnds(v) \in AnyReader
    BY ReaderEdits, Words, Zenon DEF ReaderEnds
<1>6. CASE ReaderEvent
  <2>1. reader' = ReaderEnds("ok") \/ reader' = [reader EXCEPT !.pc = "checkpoint", !.left = Inbox]
    BY <1>6, Zenon DEF ReaderEvent
  <2>2. [reader EXCEPT !.pc = "checkpoint", !.left = Inbox] \in AnyReader
    BY <1>4, ReaderEdits, Words, Zenon
  <2> QED
    BY <1>5, <2>1, <2>2, Zenon
<1>7. CASE ReaderAcked
  <2>1. \/ reader' = ReaderEnds("fail")
        \/ reader' = [reader EXCEPT !.pc = "event", !.left = NoMsg]
    BY <1>7, Zenon DEF ReaderAcked, ReaderBreaks
  <2>2. [reader EXCEPT !.pc = "event", !.left = NoMsg] \in AnyReader
    BY ReaderEdits, Words, MessageShape, Zenon
  <2> QED
    BY <1>5, <2>1, <2>2, Zenon
<1>8. CASE ReaderTimeout
    BY <1>5, <1>8, Zenon DEF ReaderTimeout, ReaderBreaks
<1> QED
    BY <1>1, <1>2, <1>3, <1>6, <1>7, <1>8, Zenon DEF Reader

\* The helper keeps its shape.
LEMMA HelperStep ==
    ASSUME Shape,
           \/ Start \/ NotReady \/ PreflightRefused \/ Stop \/ Fail \/ Recover
           \/ Reader \/ Helper \/ HelperFails \/ Reboot
    PROVE  helper' \in AnyHelper
<1> USE DEF Shape, ProcessShape
<1>1. CASE Start
    BY <1>1, HelperEdits, Zenon DEF Start, NetShape
<1>2. ASSUME Killed PROVE helper' \in AnyHelper
    BY <1>2, HelperEdits, Zenon DEF Killed
<1>3. CASE NotReady \/ PreflightRefused \/ Fail \/ Recover
    BY <1>2, <1>3, Zenon DEF NotReady, PreflightRefused, Fail, Recover
<1>4. CASE Stop \/ Reboot
    BY <1>4, HelperEdits, Zenon DEF Stop, Reboot
<1>5. CASE Reader
    BY <1>2, <1>5, Zenon DEF Reader, ReaderEvent, ReaderAcked, ReaderTimeout, ReaderBreaks
<1>6. helper.seq \in Nat /\ helper.seq + 1 \in Nat
    BY DEF AnyHelper
<1>7. CASE HelperCommand
  <2>1. request.seq \in Nat /\ request.file \in File
    BY MessageShape, Zenon
  <2>2. \/ helper' = [helper EXCEPT !.pc = "intent", !.seq = request.seq, !.file = request.file]
        \/ helper' = [helper EXCEPT !.pc = "exit1"]
    BY <1>7, Zenon DEF HelperCommand, HelperGoes
  <2>3. [helper EXCEPT !.pc = "intent", !.seq = request.seq, !.file = request.file]
            \in AnyHelper
    BY <2>1, HelperEdits, Zenon
  <2>4. [helper EXCEPT !.pc = "exit1"] \in AnyHelper
    BY HelperEdits, Words, Zenon
  <2> QED
    BY <2>2, <2>3, <2>4, Zenon
<1>8. CASE HelperResultAcked
    BY <1>6, <1>8, HelperEdits, Words, Zenon DEF HelperResultAcked, HelperGoes
<1>9. CASE HelperReady \/ HelperIntentAcked \/ HelperStreamed \/ HelperEOF \/ HelperDies
    BY <1>9, HelperEdits, Words, ZenonT(30)
    DEF HelperReady, HelperIntentAcked, HelperStreamed, HelperEOF, HelperDies, HelperGoes
<1> QED
    BY <1>1, <1>3, <1>4, <1>5, <1>7, <1>8, <1>9, Zenon DEF Helper, HelperKilled, HelperFails

\* Subshell, helper and FIFOs keep their shape.
LEMMA ProcessStep == Shape /\ [Next]_vars => ProcessShape'
<1> SUFFICES ASSUME Shape, [Next]_vars PROVE ProcessShape'
    BY Zenon
<1> USE DEF Shape, ProcessShape
<1>1. reader' \in AnyReader
  <2>1. CASE UNCHANGED reader
    BY <2>1, Zenon
  <2> QED
    BY <2>1, ReaderStep, Frame, Zenon
<1>2. helper' \in AnyHelper
  <2>1. CASE UNCHANGED helper
    BY <2>1, Zenon
  <2> QED
    BY <2>1, HelperStep, Frame, Zenon
<1>3. request' \in AnyMessage
  <2>1. CASE UNCHANGED request
    BY <2>1, Zenon
  <2>2. ASSUME NEW f \in Files, StartRead(f) PROVE request' \in AnyMessage
    BY <2>2, MessageShape, Words, Zenon DEF StartRead, File, NetShape
  <2>3. CASE ReaderAcked
    <3>1. reader.left.seq \in Nat /\ reader.left.file \in File
      BY MessageShape, Zenon DEF AnyReader
    <3> QED
      BY <2>3, <3>1, MessageShape, Words DEF ReaderAcked
  <2>4. CASE Start \/ HelperCommand \/ HelperIntentAcked \/ HelperResultAcked \/ Reboot
    BY <2>4, MessageShape, Zenon
    DEF Start, HelperCommand, HelperIntentAcked, HelperResultAcked, Reboot, ipcVars
  <2> QED
    BY <2>1, <2>2, <2>3, <2>4, Frame, Zenon
<1>4. result' \in AnyMessage
  <2>1. CASE UNCHANGED result
    BY <2>1, Zenon
  <2>2. CASE HelperCommand
    BY <2>2, MessageShape, Words DEF HelperCommand
  <2>3. CASE HelperStreamed \/ HelperResultAcked
    <3>1. helper.seq \in Nat /\ helper.seq + 1 \in Nat /\ helper.file \in File
      BY DEF AnyHelper
    <3> QED
      BY <2>3, <3>1, MessageShape, Words DEF HelperStreamed, HelperResultAcked
  <2>4. CASE Start \/ Ready \/ ReaderEvent \/ HelperReady \/ Reboot
    BY <2>4, MessageShape, Zenon DEF Start, Ready, ReaderEvent, HelperReady, Reboot, ipcVars
  <2> QED
    BY <2>1, <2>2, <2>3, <2>4, Frame, Zenon
<1> QED
    BY <1>1, <1>2, <1>3, <1>4, Zenon

-----------------------------------------------------------------------------
(* The shape of the network and of the journal. *)

\* The journal keeps its shape; a release is never taken back.
LEMMA HandleShape ==
    ASSUME NetShape, NEW c \in AnyCall, Handle(c),
           c.op \in {"preflight", "release", "checkpoint"}
    PROVE  /\ svc' \in AnyJournal
           /\ svc.released => svc'.released
           /\ c.op = "release" /\ Accepts(c) => svc'.released
<1>1. c.boot \in Nat /\ c.event \in AnyMessage
    BY Zenon DEF AnyCall
<1>2. c.event.seq \in Nat /\ c.event.file \in File
    BY <1>1, MessageShape, Zenon
<1>3. CASE ~Accepts(c)
    BY <1>3, Zenon DEF Handle, NetShape
<1>4. CASE Accepts(c) /\ c.op = "preflight"
    BY <1>1, <1>4, Zenon DEF Handle, NetShape, AnyJournal, File
<1>5. CASE Accepts(c) /\ c.op = "checkpoint"
    BY <1>2, <1>5, Zenon DEF Handle, NetShape, AnyJournal, File
<1>6. CASE Accepts(c) /\ c.op = "release"
    BY <1>6, Zenon DEF Handle, NetShape, AnyJournal
<1> QED
    BY <1>3, <1>4, <1>5, <1>6, Zenon

\* Counters, network and journal keep their shape.
LEMMA NetStep == Shape /\ CallInv /\ [Next]_vars => NetShape'
<1> SUFFICES ASSUME Shape, CallInv, [Next]_vars PROVE NetShape'
    BY Zenon
<1> USE DEF Shape, NetShape
<1>1. boot' \in Nat /\ mounting' \in BOOLEAN
  <2>1. boot' = boot \/ boot' = boot + 1
    BY Frame, Zenon DEF Reboot
  <2>2. mounting' \in BOOLEAN
    BY Frame, Zenon DEF ReleaseAnswered, Reboot
  <2> QED
    BY <2>1, <2>2
<1>2. resp["main"].seq \in Nat /\ resp["exec"].seq \in Nat /\ svc.seq \in Nat
    BY Zenon DEF Answer, AnyJournal, Party
<1>3. ctx' \in Nat /\ seqFile' \in Nat /\ reconcile' \in BOOLEAN
  <2>1. ctx' \in {ctx, resp["main"].seq, svc.seq}
    BY Frame, Zenon DEF Restart, Reboot
  <2>2. resp["main"].seq + 1 \in Nat /\ resp["exec"].seq + 1 \in Nat
    BY <1>2
  <2>3. seqFile' \in {seqFile, resp["main"].seq + 1, resp["exec"].seq + 1, 0}
    BY Frame, ZenonT(30) DEF PreflightAccepted, ReaderAcked, Reboot
  <2>4. reconcile' \in BOOLEAN
    BY Frame, Zenon DEF PreflightAccepted, Recover, Reboot
  <2> QED
    BY <1>2, <2>1, <2>2, <2>3, <2>4
<1>5. NoAnswer \in Answer /\ \A n \in Nat, k \in {"ok", "no"} : [kind |-> k, seq |-> n] \in Answer
    BY Words, Zenon DEF Answer, NoAnswer
<1>6. call' \in [Party -> AnyCall] /\ resp' \in [Party -> Answer]
  <2>1. CASE UNCHANGED <<call, resp>>
    BY <2>1, Zenon
  <2>2. CASE Ready
    <3>1. [Preflight EXCEPT !.stopped = reconcile] \in AnyCall
      BY CallShape, Zenon
    <3> QED
      BY <2>2, <3>1, AskShape, Zenon DEF Ready
  <2>3. CASE SendRelease \/ SendOwned
    <3>1. Preflight \in AnyCall /\ [NoCall EXCEPT !.op = "release", !.boot = boot] \in AnyCall
      BY CallShape, Zenon
    <3> QED
      BY <2>3, <3>1, AskShape, Zenon DEF SendRelease, SendOwned
  <2>4. CASE PreflightRefused \/ PreflightAccepted \/ Restart \/ ReleaseAnswered \/ RecoverOnce
    BY <2>1, <2>4, ForgetShape, Zenon
    DEF PreflightRefused, PreflightAccepted, Restart, ReleaseAnswered, RecoverOnce
  <2>5. CASE Stop \/ ReaderAcked \/ Reboot
    <3>1. NoCall \in AnyCall /\ "main" \in Party /\ "exec" \in Party
      BY CallShape, Zenon DEF Party
    <3>2. CASE Stop
      <4>1. call' = call /\ \E a \in {resp["main"], NoAnswer} : resp' = [resp EXCEPT !["main"] = a]
        BY <3>2, Zenon DEF Stop
      <4> QED
        BY <4>1, <3>1, <1>5, Zenon
    <3>3. CASE ReaderAcked
      BY <3>3, <3>1, <1>5, Zenon DEF ReaderAcked
    <3>4. CASE Reboot
      BY <3>4, <3>1, <1>5, Zenon DEF Reboot
    <3> QED
      BY <2>5, <3>2, <3>3, <3>4, Zenon
  <2>6. CASE ReaderEvent
    <3>1. Inbox \in AnyMessage
      BY Zenon DEF Inbox, ProcessShape, AnyReader
    <3>2. [NoCall EXCEPT !.op = "checkpoint", !.boot = boot, !.event = Inbox] \in AnyCall
      BY <3>1, CallShape, Zenon
    <3> QED
      BY <2>6, <3>2, Zenon DEF ReaderEvent
  <2>7. ASSUME NEW p \in Party, Serve(p)
        PROVE  call' \in [Party -> AnyCall] /\ resp' \in [Party -> Answer]
    <3>1. svc'.seq \in Nat
      BY <2>7, HandleShape, Zenon DEF Serve, CallInv, Party, AnyJournal
    <3> QED
      BY <2>7, <3>1, <1>5, CallShape, Zenon DEF Serve
  <2>8. ASSUME NEW p \in Party, Timeout(p)
        PROVE  call' \in [Party -> AnyCall] /\ resp' \in [Party -> Answer]
    BY <2>8, <1>5, CallShape, Zenon DEF Timeout
  <2> QED
    BY <2>1, <2>2, <2>3, <2>4, <2>5, <2>6, <2>7, <2>8, Frame, Zenon DEF Reader
<1>7. late' \subseteq AnyCall
  <2>1. CASE UNCHANGED late
    BY <2>1, Zenon
  <2>2. CASE ServeLate
    BY <2>2, Zenon DEF ServeLate
  <2>3. ASSUME NEW p \in Party, Timeout(p) PROVE late' \subseteq AnyCall
    BY <2>3 DEF Timeout
  <2>4. CASE Reboot
    BY <2>4, Zenon DEF Reboot
  <2> QED
    BY <2>1, <2>2, <2>3, <2>4, Frame, Zenon
<1>8. svc' \in AnyJournal
  <2>1. CASE UNCHANGED svc
    BY <2>1, Zenon
  <2>2. CASE ServeLate
    BY <2>2, HandleShape, Zenon DEF ServeLate, CallInv
  <2>3. ASSUME NEW p \in Party, Serve(p) PROVE svc' \in AnyJournal
    BY <2>3, HandleShape, Zenon DEF Serve, CallInv, Party
  <2> QED
    BY <2>1, <2>2, <2>3, Frame, Zenon
<1> QED
    BY <1>1, <1>3, <1>6, <1>7, <1>8, Zenon

-----------------------------------------------------------------------------
(* What the steps on the records do, field by field. *)

\* A request is sent, or refused by the deadline.
LEMMA AskEffect == ASSUME NetShape, NEW c, Ask(c) PROVE
    /\ \/ call' = call /\ resp'["main"].kind = "no"
       \/ call'["main"] = c /\ resp' = resp
    /\ call'["exec"] = call["exec"] /\ resp'["exec"] = resp["exec"]
    BY DEF NetShape, Ask, Party

\* The subshell ends, waited for or not.
LEMMA EndsEffect == ASSUME Shape, NEW v, reader' = ReaderEnds(v) PROVE
    /\ ctl = "exec" =>
           reader'.pc = v /\ reader'.mine = reader.mine /\ reader'.file = reader.file
    /\ ctl # "exec" => reader'.pc = "off" /\ ~reader'.mine
    BY Zenon DEF Shape, ProcessShape, AnyReader, ReaderEnds, NoReader

\* rootpxe_storage_start fails, or starts a helper with empty FIFOs of its
\* own.
LEMMA StartEffect == ASSUME Shape, Start PROVE
    /\ ctl = "start"
    /\ UNCHANGED <<boot, then, mounting, todo, ctx, seqFile, reconcile, call, resp, late, svc>>
    /\ \/ ctl' = StartFailed /\ UNCHANGED <<helper, request, result, reader>>
       \/ /\ ctl' = "ready"
          /\ helper'.pc = "boot" /\ helper'.seq = 0 /\ helper'.last = ctx
          /\ request' = NoMsg /\ result' = NoMsg
          /\ reader'.pc = reader.pc /\ ~reader'.mine
<1>1. /\ ctl = "start"
      /\ UNCHANGED <<boot, then, mounting, todo, ctx, seqFile, reconcile, call, resp, late, svc>>
    BY Zenon DEF Start, keepVars, netVars
<1>2. CASE deadline = "passed"
    BY <1>1, <1>2, Zenon DEF Start, Goto, ipcVars
<1>3. CASE deadline # "passed"
  <2>1. helper'.pc = "boot" /\ helper'.seq = 0 /\ helper'.last = ctx
    BY <1>3, Zenon DEF Start, NoHelper
  <2>2. reader'.pc = reader.pc
    BY <1>3, Zenon DEF Start, Shape, ProcessShape, AnyReader
  <2>3. ~reader'.mine
    <3>1. CASE reader.mine
      BY <1>3, <3>1, Zenon DEF Start, Shape, ProcessShape, AnyReader
    <3>2. CASE ~reader.mine
      BY <1>3, <3>2, Zenon DEF Start
    <3> QED
      BY <3>1, <3>2, Zenon
  <2> QED
    BY <1>1, <1>3, <2>1, <2>2, <2>3, Zenon DEF Start, Goto
<1> QED
    BY <1>2, <1>3, Zenon

\* TERM changes nothing that the protocol reads.
LEMMA KilledEffect == ASSUME Shape, Killed PROVE
    /\ helper'.pc = helper.pc /\ helper'.seq = helper.seq
    /\ helper'.last = helper.last /\ helper'.file = helper.file
    BY Zenon DEF Shape, ProcessShape, AnyHelper, Killed

\* The call that publishes an event.
LEMMA CheckpointCall == ASSUME NEW m, NEW c,
        c = [NoCall EXCEPT !.op = "checkpoint", !.boot = boot, !.event = m]
    PROVE c.op = "checkpoint" /\ c.boot = boot /\ c.event = m
    BY Zenon DEF NoCall

\* The subshell takes done, or publishes the event.
LEMMA EventEffect == ASSUME Shape, ReaderEvent PROVE
    /\ UNCHANGED <<boot, ctl, then, mounting, todo, ctx, seqFile, reconcile, helper, request,
                   resp, late, svc>>
    /\ result' = IF reader.mine THEN NoMsg ELSE result
    /\ \/ Inbox.kind = "done" /\ reader' = ReaderEnds("ok") /\ UNCHANGED call
       \/ /\ Inbox.kind # "done"
          /\ reader'.pc = "checkpoint" /\ reader'.left = Inbox
          /\ reader'.mine = reader.mine /\ reader'.file = reader.file
          /\ call'["main"] = call["main"]
          /\ call'["exec"].op = "checkpoint" /\ call'["exec"].boot = boot
          /\ call'["exec"].event = Inbox
<1>1. /\ UNCHANGED <<boot, ctl, then, mounting, todo, ctx, seqFile, reconcile, helper, request,
                     resp, late, svc>>
      /\ result' = IF reader.mine THEN NoMsg ELSE result
    BY Zenon DEF ReaderEvent, keepVars
<1>2. CASE Inbox.kind = "done"
    BY <1>1, <1>2, Zenon DEF ReaderEvent
<1>3. CASE Inbox.kind # "done"
  <2>1. reader' = [reader EXCEPT !.pc = "checkpoint", !.left = Inbox]
    BY <1>3, Zenon DEF ReaderEvent
  <2>2. /\ reader'.pc = "checkpoint" /\ reader'.left = Inbox
        /\ reader'.mine = reader.mine /\ reader'.file = reader.file
    BY <2>1, Zenon DEF Shape, ProcessShape, AnyReader
  <2>3. PICK c : c = [NoCall EXCEPT !.op = "checkpoint", !.boot = boot, !.event = Inbox]
    BY Zenon
  <2>4. call' = [call EXCEPT !["exec"] = c]
    BY <1>3, <2>3, Zenon DEF ReaderEvent
  <2>5. call'["main"] = call["main"] /\ call'["exec"] = c
    BY <2>4, Zenon DEF Shape, NetShape, Party
  <2>6. c.op = "checkpoint" /\ c.boot = boot /\ c.event = Inbox
    BY <2>3, CheckpointCall, Zenon
  <2> QED
    BY <1>1, <1>3, <2>2, <2>5, <2>6, Zenon
<1> QED
    BY <1>2, <1>3, Zenon

\* The subshell passes the ack on, or leaves its loop.
LEMMA AckedEffect == ASSUME Shape, ReaderAcked PROVE
    /\ UNCHANGED <<boot, ctl, then, mounting, todo, ctx, reconcile, result, call, late, svc>>
    /\ reader.pc = "checkpoint" /\ resp["exec"].kind # "none"
    /\ resp'["main"] = resp["main"] /\ resp'["exec"] = NoAnswer
    /\ helper'.pc = helper.pc /\ helper'.seq = helper.seq
    /\ helper'.last = helper.last /\ helper'.file = helper.file
    /\ \/ /\ resp["exec"].kind = "ok" /\ seqFile' = resp["exec"].seq + 1
          /\ request' = IF reader.mine THEN Msg("ack", reader.left.seq, reader.left.file)
                        ELSE request
          /\ reader'.pc = "event" /\ reader'.mine = reader.mine /\ reader'.file = reader.file
       \/ /\ resp["exec"].kind # "ok" /\ reader' = ReaderEnds("fail")
          /\ UNCHANGED <<seqFile, request>>
<1>1. /\ UNCHANGED <<boot, ctl, then, mounting, todo, ctx, reconcile, result, call, late, svc>>
      /\ reader.pc = "checkpoint" /\ resp["exec"].kind # "none"
    BY Zenon DEF ReaderAcked, keepVars
<1>2. resp'["main"] = resp["main"] /\ resp'["exec"] = NoAnswer
    BY Zenon DEF ReaderAcked, Shape, NetShape, Party
<1>3. /\ helper'.pc = helper.pc /\ helper'.seq = helper.seq
      /\ helper'.last = helper.last /\ helper'.file = helper.file
    BY KilledEffect, Zenon DEF ReaderAcked, ReaderBreaks
<1>4. CASE resp["exec"].kind = "ok"
  <2>1. reader' = [reader EXCEPT !.pc = "event", !.left = NoMsg]
    BY <1>4, Zenon DEF ReaderAcked
  <2>2. reader'.pc = "event" /\ reader'.mine = reader.mine /\ reader'.file = reader.file
    BY <2>1, Zenon DEF Shape, ProcessShape, AnyReader
  <2>3. /\ seqFile' = resp["exec"].seq + 1
        /\ request' = IF reader.mine THEN Msg("ack", reader.left.seq, reader.left.file)
                      ELSE request
    BY <1>4, Zenon DEF ReaderAcked
  <2> QED
    BY <1>1, <1>2, <1>3, <1>4, <2>2, <2>3, Zenon
<1>5. CASE resp["exec"].kind # "ok"
  <2>1. reader' = ReaderEnds("fail") /\ UNCHANGED <<seqFile, request>>
    BY <1>5, Zenon DEF ReaderAcked, ReaderBreaks
  <2> QED
    BY <1>1, <1>2, <1>3, <1>5, <2>1, Zenon
<1> QED
    BY <1>4, <1>5, Zenon

\* The subshell leaves its loop.
LEMMA TimeoutEffect == ASSUME Shape, ReaderTimeout PROVE
    /\ UNCHANGED <<boot, ctl, then, mounting, todo, ctx, seqFile, reconcile, request, result,
                   call, resp, late, svc>>
    /\ reader.pc = "event" /\ Inbox.kind = "none" /\ reader' = ReaderEnds("fail")
    /\ helper'.pc = helper.pc /\ helper'.seq = helper.seq
    /\ helper'.last = helper.last /\ helper'.file = helper.file
    BY KilledEffect, ZenonT(30) DEF ReaderTimeout, ReaderBreaks, keepVars, ipcVars, netVars

-----------------------------------------------------------------------------
(* The controller. *)

\* Every step keeps the calls of the controller in their places.
LEMMA CallsStep == SessionInv /\ [Next]_vars => CallInv'
<1> SUFFICES ASSUME SessionInv, [Next]_vars PROVE CallInv'
    BY Zenon
<1> USE DEF SessionInv, Shape, NetShape, CallInv, NoAnswer, Party, Ctl, Releases,
   Terminal, Goto, vars, keepVars, ipcVars, netVars
<1>1. CASE Start
    BY <1>1, Zenon DEF Start, StartFailed, NoHelper
<1>2. CASE Ready
  <2>1. PICK c : c = [Preflight EXCEPT !.stopped = reconcile]
    BY Zenon
  <2>2. c.op = "preflight"
    BY <2>1, CallShape, Zenon
  <2>3. Ask(c)
    BY <1>2, <2>1, Zenon DEF Ready
  <2>4. call["main"].op = "none" /\ resp["main"].kind = "none"
    BY <1>2, Zenon DEF Ready
  <2> QED
    BY <1>2, <2>2, <2>3, <2>4, AskEffect, Zenon DEF Ready
<1>3. CASE NotReady
    BY <1>3, Zenon DEF NotReady, Killed, StopThen, StartFailed
<1>4. CASE PreflightRefused
    BY <1>4, Zenon DEF PreflightRefused, Forget, Killed, StopThen, StartFailed, Answered
<1>5. CASE PreflightAccepted
  <2>1. CASE resp["main"].seq = ctx
    BY <1>5, <2>1 DEF PreflightAccepted, Forget, StartDone, Answered
  <2>2. CASE resp["main"].seq # ctx
    BY <1>5, <2>2, Zenon DEF PreflightAccepted, StopThen, Answered
  <2> QED
    BY <2>1, <2>2, Zenon
<1>6. CASE Restart
    BY <1>6, Zenon DEF Restart, Forget
<1>7. CASE Stop
    BY <1>7, Zenon DEF Stop, BadStatus, StartFailed, NoHelper, NoAnswer
<1>8. ASSUME NEW f \in Files, StartRead(f) PROVE CallInv'
    BY <1>8, Zenon DEF StartRead, NoReader
<1>9. CASE ReadEnds
    BY <1>9, Zenon DEF ReadEnds, NoReader
<1>10. CASE ClearMarker
    BY <1>10, Zenon DEF ClearMarker, StopThen
<1>11. CASE Fail
    BY <1>11, Zenon DEF Fail, FailureBegin, Killed, StopThen
<1>12. CASE Report
    BY <1>12, Zenon DEF Report
<1>13. CASE SendRelease
  <2>1. PICK c : c = [NoCall EXCEPT !.op = "release", !.boot = boot]
    BY Zenon
  <2>2. c.op = "release"
    BY <2>1, CallShape, Zenon
  <2>3. Ask(c)
    BY <1>13, <2>1, Zenon DEF SendRelease
  <2> QED
    BY <1>13, <2>2, <2>3, AskEffect, Zenon DEF SendRelease, Idle
<1>14. CASE ReleaseAnswered
    BY <1>14, Zenon DEF ReleaseAnswered, Forget, Idle, Answered
<1>15. CASE Recover
    BY <1>15, Zenon DEF Recover, FailureBegin, Killed, StopThen
<1>16. CASE RecoverLoop
    BY <1>16, Zenon DEF RecoverLoop
<1>17. CASE SendOwned
  <2>1. Preflight.op = "preflight" /\ ~Preflight.stopped
    BY CallShape, Zenon
  <2> QED
    BY <1>17, <2>1, AskEffect, Zenon DEF SendOwned, Idle
<1>18. CASE RecoverOnce
    BY <1>18, Zenon DEF RecoverOnce, Forget, Idle, Answered, StopThen
<1>19. CASE ReaderEvent
    BY <1>19, EventEffect, Zenon DEF Shape
<1>20. CASE ReaderAcked
    BY <1>20, Zenon DEF ReaderAcked, ReaderBreaks, ReaderEnds, Killed, NoReader
<1>21. CASE ReaderTimeout
    BY <1>21, Zenon DEF ReaderTimeout, Inbox, ReaderBreaks, ReaderEnds, Killed, NoReader
<1>22. CASE HelperReady
    BY <1>22, Zenon DEF HelperReady, HelperGoes
<1>23. CASE HelperCommand
    BY <1>23, Zenon DEF HelperCommand, HelperGoes
<1>24. CASE HelperIntentAcked
    BY <1>24, Zenon DEF HelperIntentAcked, HelperGoes
<1>25. CASE HelperStreamed
    BY <1>25, Zenon DEF HelperStreamed, HelperGoes
<1>26. CASE HelperResultAcked
    BY <1>26, Zenon DEF HelperResultAcked, HelperGoes
<1>27. CASE HelperEOF
    BY <1>27, Zenon DEF HelperEOF, HelperGoes, RequestClosed
<1>28. CASE HelperDies
    BY <1>28, Zenon DEF HelperDies, HelperGoes
<1>29. ASSUME NEW p \in Party, Serve(p) PROVE CallInv'
  <2>1. NoCall.op = "none"
    BY CallShape, Zenon
  <2> QED
    BY <1>29, <2>1, Zenon DEF Serve
<1>30. ASSUME NEW p \in Party, Timeout(p) PROVE CallInv'
  <2>1. \A c \in late' : c.op \in {"preflight", "release", "checkpoint"}
    BY <1>30, Zenon DEF Timeout
  <2>2. call' = [call EXCEPT ![p] = NoCall] /\ NoCall.op = "none"
    BY <1>30, CallShape, Zenon DEF Timeout
  <2> QED
    BY <1>30, <2>1, <2>2, Zenon DEF Timeout
<1>31. CASE ServeLate
    BY <1>31, Zenon DEF ServeLate
<1>32. CASE RestoreFails
    BY <1>32, Zenon DEF RestoreFails
<1>33. CASE DeployFails
    BY <1>33, Zenon DEF DeployFails
<1>34. CASE Tick
    BY <1>34 DEF Tick
<1>35. CASE Reboot
  <2>1. \A c \in late' : c.op \in {"preflight", "release", "checkpoint"}
    BY <1>35, Zenon DEF Reboot
  <2>2. \A p \in Party : call'[p].op = "none" /\ resp'[p].kind = "none"
    BY <1>35, CallShape, Zenon DEF Reboot
  <2> QED
    BY <1>35, <2>1, <2>2, Zenon DEF Reboot
<1>36. CASE UNCHANGED vars
    BY <1>36, ZenonT(30)
<1> QED
    BY <1>1, <1>2, <1>3, <1>4, <1>5, <1>6, <1>7, <1>8, <1>9, <1>10, <1>11, <1>12, <1>13,
       <1>14, <1>15, <1>16, <1>17, <1>18, <1>19, <1>20, <1>21, <1>22, <1>23, <1>24,
       <1>25, <1>26, <1>27, <1>28, <1>29, <1>30, <1>31, <1>32, <1>33, <1>34, <1>35,
       <1>36, Zenon DEF Next, Controller, Reader, Helper, Service, HelperKilled, HelperFails

\* Every step keeps what the controller knows of the helper.
LEMMA HelpersStep == SessionInv /\ [Next]_vars => HelperInv'
<1> SUFFICES ASSUME SessionInv, [Next]_vars PROVE HelperInv'
    BY Zenon
<1> USE MessageShape DEF SessionInv, Shape, ProcessShape, CallInv, IdleInv, HelperInv,
   AnyHelper, HelperAlive, Joined, Reading, Ending, Releases, Terminal, Goto, vars,
   keepVars, ipcVars, netVars
<1>1. CASE Start
    BY <1>1, ZenonT(30) DEF Start, StartFailed, NoHelper
<1>2. CASE Ready
    BY <1>2, Zenon DEF Ready, Ask
<1>3. CASE NotReady
    BY <1>3, Zenon DEF NotReady, Killed, StopThen, StartFailed
<1>4. CASE PreflightRefused
    BY <1>4, Zenon DEF PreflightRefused, Forget, Killed, StopThen, StartFailed, Answered
<1>5. CASE PreflightAccepted
    BY <1>5, Zenon DEF PreflightAccepted, Forget, StopThen, StartDone, Answered
<1>6. CASE Restart
    BY <1>6, Zenon DEF Restart, Forget
<1>7. CASE Stop
    BY <1>7, Zenon DEF Stop, BadStatus, StartFailed, NoHelper, NoAnswer
<1>8. ASSUME NEW f \in Files, StartRead(f) PROVE HelperInv'
    BY <1>8, Zenon DEF StartRead, NoReader
<1>9. CASE ReadEnds
    BY <1>9, Zenon DEF ReadEnds, NoReader
<1>10. CASE ClearMarker
    BY <1>10, Zenon DEF ClearMarker, StopThen
<1>11. CASE Fail
    BY <1>11, Zenon DEF Fail, FailureBegin, Killed, StopThen
<1>12. CASE Report
    BY <1>12, Zenon DEF Report
<1>13. CASE SendRelease
    BY <1>13, Zenon DEF SendRelease, Ask, Idle
<1>14. CASE ReleaseAnswered
    BY <1>14, Zenon DEF ReleaseAnswered, Forget, Idle, Answered
<1>15. CASE Recover
    BY <1>15, Zenon DEF Recover, FailureBegin, Killed, StopThen
<1>16. CASE RecoverLoop
    BY <1>16, Zenon DEF RecoverLoop
<1>17. CASE SendOwned
    BY <1>17, Zenon DEF SendOwned, Ask, Idle
<1>18. CASE RecoverOnce
    BY <1>18, Zenon DEF RecoverOnce, Forget, Idle, Answered, StopThen
<1>19. CASE ReaderEvent
    BY <1>19, Zenon DEF ReaderEvent, Inbox, ReaderEnds, NoReader
<1>20. CASE ReaderAcked
    BY <1>20, Zenon DEF ReaderAcked, ReaderBreaks, ReaderEnds, Killed, NoReader
<1>21. CASE ReaderTimeout
    BY <1>21, Zenon DEF ReaderTimeout, Inbox, ReaderBreaks, ReaderEnds, Killed, NoReader
<1>22. CASE HelperReady
    BY <1>22, Zenon DEF HelperReady, HelperGoes
<1>23. CASE HelperCommand
    BY <1>23, Zenon DEF HelperCommand, HelperGoes
<1>24. CASE HelperIntentAcked
    BY <1>24, Zenon DEF HelperIntentAcked, HelperGoes
<1>25. CASE HelperStreamed
    BY <1>25, Zenon DEF HelperStreamed, HelperGoes
<1>26. CASE HelperResultAcked
    BY <1>26, Zenon DEF HelperResultAcked, HelperGoes
<1>27. CASE HelperEOF
    BY <1>27, Zenon DEF HelperEOF, HelperGoes, RequestClosed
<1>28. CASE HelperDies
    BY <1>28, Zenon DEF HelperDies, HelperGoes
<1>29. ASSUME NEW p \in Party, Serve(p) PROVE HelperInv'
    BY <1>29, Zenon DEF Serve
<1>30. ASSUME NEW p \in Party, Timeout(p) PROVE HelperInv'
    BY <1>30, Zenon DEF Timeout
<1>31. CASE ServeLate
    BY <1>31, Zenon DEF ServeLate
<1>32. CASE RestoreFails
    BY <1>32, Zenon DEF RestoreFails
<1>33. CASE DeployFails
    BY <1>33, Zenon DEF DeployFails
<1>34. CASE Tick
    BY <1>34, Zenon DEF Tick
<1>35. CASE Reboot
    BY <1>35, Zenon DEF Reboot, NoReader, NoHelper, NoCall, NoAnswer
<1>36. CASE UNCHANGED vars
    BY <1>36, Zenon
<1> QED
    BY <1>1, <1>2, <1>3, <1>4, <1>5, <1>6, <1>7, <1>8, <1>9, <1>10, <1>11, <1>12, <1>13,
       <1>14, <1>15, <1>16, <1>17, <1>18, <1>19, <1>20, <1>21, <1>22, <1>23, <1>24,
       <1>25, <1>26, <1>27, <1>28, <1>29, <1>30, <1>31, <1>32, <1>33, <1>34, <1>35,
       <1>36, Zenon DEF Next, Controller, Reader, Helper, Service, HelperKilled, HelperFails

\* A release is acknowledged only when it is done.
LEMMA ReleaseStep == SessionInv /\ [Next]_vars => ReleaseInv'
<1> SUFFICES ASSUME SessionInv, [Next]_vars PROVE ReleaseInv'
    BY Zenon
<1> USE DEF SessionInv, Shape, NetShape, CallInv, ReleaseInv, Answer, NoAnswer, Party,
   Releases, Goto, vars, keepVars, ipcVars, netVars
<1>1. CASE Start
    BY <1>1, Zenon DEF Start, StartFailed, NoHelper
<1>2. CASE Ready
    BY <1>2, Zenon DEF Ready
<1>3. CASE NotReady
    BY <1>3, Zenon DEF NotReady, Killed, StopThen, StartFailed
<1>4. CASE PreflightRefused
    BY <1>4, Zenon DEF PreflightRefused, Forget, Killed, StopThen, StartFailed, Answered
<1>5. CASE PreflightAccepted
    BY <1>5, Zenon DEF PreflightAccepted, Forget, StopThen, StartDone, Answered
<1>6. CASE Restart
    BY <1>6, Zenon DEF Restart, Forget
<1>7. CASE Stop
    BY <1>7, Zenon DEF Stop, BadStatus, StartFailed, NoHelper, NoAnswer
<1>8. ASSUME NEW f \in Files, StartRead(f) PROVE ReleaseInv'
    BY <1>8, Zenon DEF StartRead, NoReader
<1>9. CASE ReadEnds
    BY <1>9, Zenon DEF ReadEnds, NoReader
<1>10. CASE ClearMarker
    BY <1>10, Zenon DEF ClearMarker, StopThen
<1>11. CASE Fail
    BY <1>11, Zenon DEF Fail, FailureBegin, Killed, StopThen
<1>12. CASE Report
    BY <1>12, Zenon DEF Report
<1>13. CASE SendRelease
  <2>1. PICK c : Ask(c)
    BY <1>13, Zenon DEF SendRelease
  <2> QED
    BY <1>13, <2>1, AskEffect, Zenon DEF SendRelease, Idle
<1>14. CASE ReleaseAnswered
    BY <1>14, Zenon DEF ReleaseAnswered, Forget, Idle, Answered
<1>15. CASE Recover
    BY <1>15, Zenon DEF Recover, FailureBegin, Killed, StopThen
<1>16. CASE RecoverLoop
    BY <1>16, Zenon DEF RecoverLoop
<1>17. CASE SendOwned
    BY <1>17, Zenon DEF SendOwned, Ask, Idle
<1>18. CASE RecoverOnce
    BY <1>18, Zenon DEF RecoverOnce, Forget, Idle, Answered, StopThen
<1>19. CASE ReaderEvent
    BY <1>19, Zenon DEF ReaderEvent, Inbox, ReaderEnds, NoReader
<1>20. CASE ReaderAcked
    BY <1>20, Zenon DEF ReaderAcked, ReaderBreaks, ReaderEnds, Killed, NoReader
<1>21. CASE ReaderTimeout
    BY <1>21, Zenon DEF ReaderTimeout, Inbox, ReaderBreaks, ReaderEnds, Killed, NoReader
<1>22. CASE HelperReady
    BY <1>22, Zenon DEF HelperReady, HelperGoes
<1>23. CASE HelperCommand
    BY <1>23, Zenon DEF HelperCommand, HelperGoes
<1>24. CASE HelperIntentAcked
    BY <1>24, Zenon DEF HelperIntentAcked, HelperGoes
<1>25. CASE HelperStreamed
    BY <1>25, Zenon DEF HelperStreamed, HelperGoes
<1>26. CASE HelperResultAcked
    BY <1>26, Zenon DEF HelperResultAcked, HelperGoes
<1>27. CASE HelperEOF
    BY <1>27, Zenon DEF HelperEOF, HelperGoes, RequestClosed
<1>28. CASE HelperDies
    BY <1>28, Zenon DEF HelperDies, HelperGoes
<1>29. ASSUME NEW p \in Party, Serve(p) PROVE ReleaseInv'
  <2>1. svc.released => svc'.released
    BY <1>29, HandleShape, Zenon DEF Serve
  <2>2. call["main"].op = "release" /\ p = "main" /\ Accepts(call["main"]) => svc'.released
    BY <1>29, HandleShape, Zenon DEF Serve
  <2>3. CASE p = "exec"
    BY <1>29, <2>1, <2>3, Zenon DEF Serve
  <2>4. CASE p = "main"
    BY <1>29, <2>1, <2>2, <2>4, Zenon DEF Serve
  <2> QED
    BY <2>3, <2>4, Zenon
<1>30. ASSUME NEW p \in Party, Timeout(p) PROVE ReleaseInv'
    BY <1>30, Zenon DEF Timeout
<1>31. CASE ServeLate
  <2>1. svc.released => svc'.released
    BY <1>31, HandleShape, Zenon DEF ServeLate
  <2> QED
    BY <1>31, <2>1, Zenon DEF ServeLate
<1>32. CASE RestoreFails
    BY <1>32, Zenon DEF RestoreFails
<1>33. CASE DeployFails
    BY <1>33, Zenon DEF DeployFails
<1>34. CASE Tick
    BY <1>34, Zenon DEF Tick
<1>35. CASE Reboot
    BY <1>35, Zenon DEF Reboot, NoReader, NoHelper, NoCall, NoAnswer
<1>36. CASE UNCHANGED vars
    BY <1>36, Zenon
<1> QED
    BY <1>1, <1>2, <1>3, <1>4, <1>5, <1>6, <1>7, <1>8, <1>9, <1>10, <1>11, <1>12, <1>13,
       <1>14, <1>15, <1>16, <1>17, <1>18, <1>19, <1>20, <1>21, <1>22, <1>23, <1>24,
       <1>25, <1>26, <1>27, <1>28, <1>29, <1>30, <1>31, <1>32, <1>33, <1>34, <1>35,
       <1>36, ZenonT(30) DEF Next, Controller, Reader, Helper, Service, HelperKilled, HelperFails

\* No later boot comes to read.
LEMMA WhereStep == SessionInv /\ [Next]_vars => WhereInv'
<1> SUFFICES ASSUME SessionInv, [Next]_vars PROVE WhereInv'
    BY Zenon
<1> USE DEF SessionInv, Shape, NetShape, CallInv, WhereInv, Before, Resting, Ending,
   Reading, Releases, Goto, vars, keepVars, ipcVars, netVars
<1>1. CASE Start
    BY <1>1, StartEffect, Zenon DEF StartFailed
<1>2. CASE Ready
    BY <1>2, Zenon DEF Ready, Ask
<1>3. CASE NotReady
    BY <1>3, Zenon DEF NotReady, Killed, StopThen, StartFailed
<1>4. CASE PreflightRefused
    BY <1>4, Zenon DEF PreflightRefused, Forget, Killed, StopThen, StartFailed, Answered
<1>5. CASE PreflightAccepted
    BY <1>5, Zenon DEF PreflightAccepted, Forget, StopThen, StartDone, Answered
<1>6. CASE Restart
    BY <1>6, Zenon DEF Restart, Forget
<1>7. CASE Stop
    BY <1>7, Zenon DEF Stop, BadStatus, StartFailed, NoHelper, NoAnswer
<1>8. ASSUME NEW f \in Files, StartRead(f) PROVE WhereInv'
    BY <1>8, Zenon DEF StartRead, NoReader
<1>9. CASE ReadEnds
    BY <1>9, Zenon DEF ReadEnds, NoReader
<1>10. CASE ClearMarker
    BY <1>10, Zenon DEF ClearMarker, StopThen
<1>11. CASE Fail
    BY <1>11, Zenon DEF Fail, FailureBegin, Killed, StopThen
<1>12. CASE Report
    BY <1>12, Zenon DEF Report
<1>13. CASE SendRelease
    BY <1>13, Zenon DEF SendRelease, Ask, Idle
<1>14. CASE ReleaseAnswered
    BY <1>14, Zenon DEF ReleaseAnswered, Forget, Idle, Answered
<1>15. CASE Recover
    BY <1>15, Zenon DEF Recover, FailureBegin, Killed, StopThen
<1>16. CASE RecoverLoop
    BY <1>16, Zenon DEF RecoverLoop
<1>17. CASE SendOwned
    BY <1>17, Zenon DEF SendOwned, Ask, Idle
<1>18. CASE RecoverOnce
    BY <1>18, Zenon DEF RecoverOnce, Forget, Idle, Answered, StopThen
<1>19. CASE ReaderEvent
    BY <1>19, EventEffect, Zenon
<1>20. CASE ReaderAcked
    BY <1>20, AckedEffect, Zenon
<1>21. CASE ReaderTimeout
    BY <1>21, TimeoutEffect, Zenon
<1>22. CASE HelperReady
    BY <1>22, Zenon DEF HelperReady, HelperGoes
<1>23. CASE HelperCommand
    BY <1>23, Zenon DEF HelperCommand, HelperGoes
<1>24. CASE HelperIntentAcked
    BY <1>24, Zenon DEF HelperIntentAcked, HelperGoes
<1>25. CASE HelperStreamed
    BY <1>25, Zenon DEF HelperStreamed, HelperGoes
<1>26. CASE HelperResultAcked
    BY <1>26, Zenon DEF HelperResultAcked, HelperGoes
<1>27. CASE HelperEOF
    BY <1>27, Zenon DEF HelperEOF, HelperGoes, RequestClosed
<1>28. CASE HelperDies
    BY <1>28, Zenon DEF HelperDies, HelperGoes
<1>29. ASSUME NEW p \in Party, Serve(p) PROVE WhereInv'
    BY <1>29, Zenon DEF Serve
<1>30. ASSUME NEW p \in Party, Timeout(p) PROVE WhereInv'
    BY <1>30, Zenon DEF Timeout
<1>31. CASE ServeLate
    BY <1>31, Zenon DEF ServeLate
<1>32. CASE RestoreFails
    BY <1>32, Zenon DEF RestoreFails
<1>33. CASE DeployFails
    BY <1>33, Zenon DEF DeployFails
<1>34. CASE Tick
    BY <1>34, Zenon DEF Tick
<1>35. CASE Reboot
  <2>1. boot' >= 1 /\ boot' # 1 /\ ctl' = "start" /\ then' = "loop" /\ todo' = todo
    BY <1>35, SMTT(30) DEF Reboot
  <2> QED
    BY <2>1, Zenon
<1>36. CASE UNCHANGED vars
    BY <1>36, Zenon
<1> QED
    BY <1>1, <1>2, <1>3, <1>4, <1>5, <1>6, <1>7, <1>8, <1>9, <1>10, <1>11, <1>12, <1>13,
       <1>14, <1>15, <1>16, <1>17, <1>18, <1>19, <1>20, <1>21, <1>22, <1>23, <1>24,
       <1>25, <1>26, <1>27, <1>28, <1>29, <1>30, <1>31, <1>32, <1>33, <1>34, <1>35,
       <1>36, ZenonT(30) DEF Next, Controller, Reader, Helper, Service, HelperKilled, HelperFails

\* A preflight of a first boot changes only the boot of the journal.
LEMMA HandleFirst ==
    ASSUME NetShape, NEW c, c.op = "preflight", ~c.stopped, c.boot = 1, Handle(c),
           svc.boot = 1 \/ svc.file = None, svc.boot \in {0, 1}
    PROVE  /\ svc'.seq = svc.seq /\ svc'.file = svc.file /\ svc'.released = svc.released
           /\ svc'.boot \in {svc.boot, 1}
           /\ Accepts(c) => svc'.boot = 1
<1>1. CASE ~Accepts(c)
    BY <1>1, Zenon DEF Handle
<1>2. CASE Accepts(c)
  <2>1. svc.file = None
    BY <1>2, Zenon DEF Accepts, Admits
  <2> QED
    BY <1>2, <2>1, Zenon DEF Handle, NetShape, AnyJournal
<1> QED
    BY <1>1, <1>2, Zenon

\* What recording an event does.
LEMMA HandleEvent ==
    ASSUME NetShape, NEW c, c.op = "checkpoint", Handle(c)
    PROVE  /\ svc'.released = svc.released /\ svc'.boot = svc.boot
           /\ ~Accepts(c) => svc' = svc
           /\ Accepts(c) /\ c.event.kind = "intent" =>
                  svc'.seq = c.event.seq /\ svc'.file = c.event.file
           /\ Accepts(c) /\ c.event.kind # "intent" =>
                  svc'.seq = c.event.seq /\ svc'.file = None
    BY Zenon DEF Handle, NetShape, AnyJournal

\* Nothing comes back to the places of a first boot.
LEMMA BackStep == SessionInv /\ [Next]_vars => (First' => First) /\ (Opening' => Opening)
<1> SUFFICES ASSUME SessionInv, [Next]_vars PROVE (First' => First) /\ (Opening' => Opening)
    BY Zenon
<1> USE DEF SessionInv, Shape, NetShape, CallInv, WhereInv, Opening, First, Before,
   Resting, Ending, Reading, Releases, Goto, vars, keepVars, ipcVars, netVars
<1>1. CASE Start
    BY <1>1, StartEffect DEF StartFailed
<1>2. CASE Ready
    BY <1>2, Zenon DEF Ready, Ask
<1>3. CASE NotReady
    BY <1>3, Zenon DEF NotReady, Killed, StopThen, StartFailed
<1>4. CASE PreflightRefused
    BY <1>4, Zenon DEF PreflightRefused, Forget, Killed, StopThen, StartFailed, Answered
<1>5. CASE PreflightAccepted
    BY <1>5, Zenon DEF PreflightAccepted, Forget, StopThen, StartDone, Answered
<1>6. CASE Restart
    BY <1>6, Zenon DEF Restart, Forget
<1>7. CASE Stop
    BY <1>7, Zenon DEF Stop, BadStatus, StartFailed, NoHelper, NoAnswer
<1>8. ASSUME NEW f \in Files, StartRead(f) PROVE (First' => First) /\ (Opening' => Opening)
    BY <1>8, Zenon DEF StartRead, NoReader
<1>9. CASE ReadEnds
    BY <1>9, Zenon DEF ReadEnds, NoReader
<1>10. CASE ClearMarker
    BY <1>10, Zenon DEF ClearMarker, StopThen
<1>11. CASE Fail
    BY <1>11, Zenon DEF Fail, FailureBegin, Killed, StopThen
<1>12. CASE Report
    BY <1>12, Zenon DEF Report
<1>13. CASE SendRelease
    BY <1>13, Zenon DEF SendRelease, Ask, Idle
<1>14. CASE ReleaseAnswered
    BY <1>14, Zenon DEF ReleaseAnswered, Forget, Idle, Answered
<1>15. CASE Recover
    BY <1>15, Zenon DEF Recover, FailureBegin, Killed, StopThen
<1>16. CASE RecoverLoop
    BY <1>16, Zenon DEF RecoverLoop
<1>17. CASE SendOwned
    BY <1>17, Zenon DEF SendOwned, Ask, Idle
<1>18. CASE RecoverOnce
    BY <1>18, Zenon DEF RecoverOnce, Forget, Idle, Answered, StopThen
<1>19. CASE ReaderEvent
    BY <1>19, EventEffect
<1>20. CASE ReaderAcked
    BY <1>20, AckedEffect
<1>21. CASE ReaderTimeout
    BY <1>21, TimeoutEffect
<1>22. CASE HelperReady
    BY <1>22, Zenon DEF HelperReady, HelperGoes
<1>23. CASE HelperCommand
    BY <1>23, Zenon DEF HelperCommand, HelperGoes
<1>24. CASE HelperIntentAcked
    BY <1>24, Zenon DEF HelperIntentAcked, HelperGoes
<1>25. CASE HelperStreamed
    BY <1>25, Zenon DEF HelperStreamed, HelperGoes
<1>26. CASE HelperResultAcked
    BY <1>26, Zenon DEF HelperResultAcked, HelperGoes
<1>27. CASE HelperEOF
    BY <1>27, Zenon DEF HelperEOF, HelperGoes, RequestClosed
<1>28. CASE HelperDies
    BY <1>28, Zenon DEF HelperDies, HelperGoes
<1>29. ASSUME NEW p \in Party, Serve(p) PROVE (First' => First) /\ (Opening' => Opening)
    BY <1>29, Zenon DEF Serve
<1>30. ASSUME NEW p \in Party, Timeout(p) PROVE (First' => First) /\ (Opening' => Opening)
    BY <1>30, Zenon DEF Timeout
<1>31. CASE ServeLate
    BY <1>31, Zenon DEF ServeLate
<1>32. CASE RestoreFails
    BY <1>32, Zenon DEF RestoreFails
<1>33. CASE DeployFails
    BY <1>33, Zenon DEF DeployFails
<1>34. CASE Tick
    BY <1>34, Zenon DEF Tick
<1>35. CASE Reboot
  <2>1. boot' >= 1 /\ boot' # 1 /\ ctl' = "start" /\ then' = "loop" /\ todo' = todo
    BY <1>35, SMTT(30) DEF Reboot
  <2> QED
    BY <2>1, Zenon
<1>36. CASE UNCHANGED vars
    BY <1>36, Zenon
<1> QED
    BY <1>1, <1>2, <1>3, <1>4, <1>5, <1>6, <1>7, <1>8, <1>9, <1>10, <1>11, <1>12, <1>13,
       <1>14, <1>15, <1>16, <1>17, <1>18, <1>19, <1>20, <1>21, <1>22, <1>23, <1>24,
       <1>25, <1>26, <1>27, <1>28, <1>29, <1>30, <1>31, <1>32, <1>33, <1>34, <1>35,
       <1>36, Zenon DEF Next, Controller, Reader, Helper, Service, HelperKilled, HelperFails

\* No release and no reconciling is asked for before a read fails.
LEMMA FirstStep == SessionInv /\ [Next]_vars => FirstInv'
<1> SUFFICES ASSUME SessionInv, [Next]_vars, First' PROVE FirstInv'
    BY Zenon DEF FirstInv
<1>1. First
    BY BackStep, Zenon
<1> USE DEF SessionInv, Shape, NetShape
<1>2. /\ ~reconcile /\ ~svc.released /\ svc.boot \in {0, 1} /\ (svc.boot = 0 => svc.file = None)
      /\ call["main"].op = "preflight" => ~call["main"].stopped /\ call["main"].boot = 1
      /\ \A c \in late : c.op # "release" /\ (c.op = "preflight" => ~c.stopped /\ c.boot = 1)
    BY <1>1, Zenon DEF FirstInv
<1>3. call["main"].op # "release"
    BY <1>1, Zenon DEF CallInv, First, Opening, Resting, Reading, Ending, Before, Releases
<1>4. boot' = boot /\ boot = 1
  <2>1. CASE Reboot
    BY <2>1 DEF Reboot, First, Opening, Resting, Reading, Ending, WhereInv
  <2>2. boot' = 1
    BY WhereStep, Zenon DEF First, Opening, Resting, Reading, WhereInv
  <2> QED
    BY <2>1, <2>2, Frame, Zenon
<1>5. ~reconcile'
  <2>1. CASE Recover
    BY <2>1, Zenon DEF Recover, StopThen, First, Opening, Before, Resting, Reading, Ending
  <2>2. CASE Reboot
    BY <2>2, <1>4, Zenon DEF Reboot
  <2> QED
    BY <1>2, <2>1, <2>2, Frame, Zenon DEF PreflightAccepted
<1>6. /\ ~svc'.released /\ svc'.boot \in {0, 1}
      /\ svc'.boot = 0 => svc'.file = None
  <2>1. ASSUME NEW c, Handle(c), c.op = "preflight" => ~c.stopped /\ c.boot = 1,
               c.op \in {"preflight", "checkpoint"}, c.op = "checkpoint" => svc.boot = 1
        PROVE  /\ ~svc'.released /\ svc'.boot \in {0, 1}
               /\ svc'.boot = 0 => svc'.file = None
    <3>1. CASE c.op = "preflight"
      BY <1>2, <2>1, <3>1, HandleFirst, Zenon
    <3>2. CASE c.op = "checkpoint"
      BY <1>2, <2>1, <3>2, HandleEvent
    <3> QED
      BY <2>1, <3>1, <3>2, Zenon
  <2>2. svc.boot = 1 \/ Silent
    BY <1>1, Zenon DEF First, OpeningInv, RestingInv, ReadInv, Turns, Counted
  <2>3. ASSUME NEW p \in Party, Serve(p)
        PROVE  /\ ~svc'.released /\ svc'.boot \in {0, 1}
               /\ svc'.boot = 0 => svc'.file = None
    <3>1. /\ Handle(call[p]) /\ call[p].op \in {"preflight", "checkpoint"}
          /\ call[p].op = "preflight" => p = "main"
          /\ call[p].op = "checkpoint" => p = "exec"
      BY <1>3, <2>3, Zenon DEF Serve, CallInv, Party
    <3> QED
      BY <1>2, <2>1, <2>2, <3>1, Zenon DEF Silent
  <2>4. CASE ServeLate
    <3>1. PICK c \in late : Handle(c)
      BY <2>4, Zenon DEF ServeLate
    <3>2. c.op \in {"preflight", "checkpoint"}
      BY <1>2, Zenon DEF CallInv
    <3> QED
      BY <1>2, <2>1, <2>2, <3>1, <3>2, Zenon DEF Silent
  <2> QED
    BY <1>2, <2>3, <2>4, Frame, Zenon
<1>7. call'["main"].op = "preflight" => ~call'["main"].stopped /\ call'["main"].boot = 1
  <2>1. CASE call'["main"] = call["main"] \/ call'["main"].op # "preflight"
    BY <1>2, <2>1, Zenon
  <2>2. CASE Ready
    <3>1. PICK c : c = [Preflight EXCEPT !.stopped = reconcile]
      BY Zenon
    <3>2. c.stopped = reconcile /\ c.boot = boot
      BY <3>1, Zenon DEF Preflight, NoCall
    <3>3. Ask(c)
      BY <2>2, <3>1, Zenon DEF Ready
    <3> QED
      BY <1>2, <1>4, <3>2, <3>3, AskEffect, Zenon
  <2>3. CASE SendOwned \/ SendRelease
    BY <1>1, <2>3, Zenon
    DEF SendOwned, SendRelease, First, Opening, Before, Resting, Reading, Ending, Releases
  <2>4. CASE ReaderEvent
    BY <2>1, <2>4, EventEffect, Zenon
  <2>5. ASSUME NEW p \in Party, Serve(p) \/ Timeout(p)
        PROVE  call'["main"] = call["main"] \/ call'["main"].op # "preflight"
    BY <2>5, CallShape, Zenon DEF Serve, Timeout, Party
  <2>6. CASE Reboot
    BY <2>6, <1>4 DEF Reboot
  <2> QED
    BY <2>1, <2>2, <2>3, <2>4, <2>5, <2>6, Frame, Zenon
<1>8. \A c \in late' : c.op # "release" /\ (c.op = "preflight" => ~c.stopped /\ c.boot = 1)
  <2>1. ASSUME NEW p \in Party, Timeout(p)
        PROVE  /\ late' \subseteq late \cup {call[p]}
               /\ (p = "exec" => call[p].op \notin {"release", "preflight"})
    BY <2>1, Zenon DEF Timeout, CallInv
  <2>2. CASE ServeLate
    BY <1>2, <2>2, Zenon DEF ServeLate
  <2>3. CASE Reboot
    BY <2>3, <1>4, SMTT(30) DEF Reboot
  <2> QED
    BY <1>2, <1>3, <2>1, <2>2, <2>3, Frame, Zenon DEF Party
<1> QED
    BY <1>5, <1>6, <1>7, <1>8, Zenon DEF FirstInv

\* The journal stays empty until the deployment starts to read.
LEMMA OpeningStep == SessionInv /\ [Next]_vars => OpeningInv'
<1> SUFFICES ASSUME SessionInv, [Next]_vars, Opening' PROVE OpeningInv'
    BY Zenon DEF OpeningInv
<1>1. Opening /\ First
    BY BackStep, Zenon DEF First
<1> USE DEF SessionInv
<1>2. /\ svc.seq = 0 /\ svc.file = None /\ ctx = 0 /\ todo = Files /\ Silent
      /\ reader.pc = "off" /\ ~reader.mine
      /\ ctl \in {"ready", "preflight"} => helper.last = 0
      /\ resp["main"].seq = 0 /\ (resp["main"].kind = "ok" => svc.boot = 1)
    BY <1>1, Zenon DEF OpeningInv, Journal
<1>3. ~Reboot /\ ~ReadEnds /\ ~Reader /\ \A f \in Files : ~StartRead(f)
  <2>1. ~Reboot
    BY <1>1, SMTT(30) DEF Reboot, Opening, Shape, NetShape
  <2>2. ~ReadEnds /\ \A f \in Files : ~StartRead(f)
    BY <1>1, Zenon DEF ReadEnds, StartRead, Opening, Before
  <2>3. ~Reader
    BY <1>2, Zenon DEF Reader, ReaderEvent, ReaderAcked, ReaderTimeout
  <2> QED
    BY <2>1, <2>2, <2>3, Zenon
<1>4. /\ svc.boot \in {0, 1} /\ NetShape
      /\ call["main"].op \in {"none", "preflight"}
      /\ call["main"].op = "preflight" => ~call["main"].stopped /\ call["main"].boot = 1
      /\ \A c \in late : c.op = "preflight" /\ ~c.stopped /\ c.boot = 1
  <2>1. call["main"].op # "release"
    BY <1>1, Zenon DEF CallInv, Opening, Before, Releases
  <2> QED
    BY <1>1, <1>2, <2>1, Zenon DEF Shape, CallInv, FirstInv, Silent
<1>5. ~ReaderEvent /\ ~ReaderAcked
    BY <1>3, Zenon DEF Reader
<1>6. /\ svc'.seq = 0 /\ svc'.file = None /\ svc'.boot \in {svc.boot, 1}
      /\ (Serve("main") /\ Accepts(call["main"])) => svc'.boot = 1
  <2>1. ASSUME NEW p \in Party, Serve(p)
        PROVE  /\ svc'.seq = 0 /\ svc'.file = None /\ svc'.boot \in {svc.boot, 1}
               /\ p = "main" /\ (Accepts(call["main"]) => svc'.boot = 1)
    <3>1. p = "main" /\ call["main"].op = "preflight" /\ Handle(call["main"])
      BY <1>2, <1>4, <2>1, Zenon DEF Serve, Silent, Party
    <3> QED
      BY <1>2, <1>4, <3>1, HandleFirst, Zenon
  <2>2. CASE ServeLate
    <3>1. PICK c \in late : Handle(c)
      BY <2>2, Zenon DEF ServeLate
    <3> QED
      BY <1>2, <1>4, <2>1, <3>1, HandleFirst, Zenon DEF Party
  <2> QED
    BY <1>2, <2>1, <2>2, Frame, Zenon DEF Party
<1>7. ctx' = 0 /\ todo' = Files
    BY <1>2, <1>3, Frame, Zenon DEF Restart
<1>8. reader'.pc = "off" /\ ~reader'.mine
    BY <1>2, <1>3, Frame, StartEffect, Zenon DEF Shape
<1>9. resp'["main"].seq = 0 /\ resp'["exec"].kind = "none" /\ call'["exec"].op = "none"
  <2> USE DEF Shape, NetShape, Party
  <2>1. ASSUME NEW p \in Party, Serve(p) \/ Timeout(p)
        PROVE  resp'["main"].seq = 0 /\ resp'["exec"].kind = "none" /\ call'["exec"].op = "none"
    <3>1. p = "main"
      BY <1>2, <2>1, Zenon DEF Serve, Timeout, Silent
    <3> QED
      BY <1>2, <1>6, <2>1, <3>1, SMTT(30) DEF Serve, Timeout, Silent
  <2>2. CASE Ready
    <3>1. PICK c : Ask(c)
      BY <2>2, Zenon DEF Ready
    <3>2. resp'["main"].seq = 0
      BY <1>2, <3>1 DEF Ask
    <3> QED
      BY <1>2, <3>1, <3>2, AskEffect, Zenon DEF Silent
  <2>3. CASE SendRelease \/ SendOwned \/ ReleaseAnswered \/ RecoverOnce
    BY <1>1, <2>3, Zenon
    DEF SendRelease, SendOwned, ReleaseAnswered, RecoverOnce, Opening, Before, Releases
  <2>4. CASE PreflightRefused \/ PreflightAccepted \/ Restart \/ Stop
    BY <1>2, <2>4, SMTT(30)
    DEF PreflightRefused, PreflightAccepted, Restart, Stop, Forget, NoAnswer, Silent
  <2> QED
    BY <1>2, <1>3, <1>5, <2>1, <2>2, <2>3, <2>4, Frame, Zenon DEF Silent
<1>10. \A c \in late' : c.op # "checkpoint"
  <2>1. ASSUME NEW p \in Party, Timeout(p) PROVE \A c \in late' : c.op # "checkpoint"
    <3>1. p = "main"
      BY <1>2, <2>1, Zenon DEF Timeout, Silent, Party
    <3> QED
      BY <1>2, <1>4, <2>1, <3>1, Zenon DEF Timeout, Silent
  <2>2. CASE ServeLate
    BY <1>4, <2>2, Zenon DEF ServeLate
  <2> QED
    BY <1>3, <1>4, <2>1, <2>2, Frame, Zenon
<1>11. resp'["main"].kind = "ok" => svc'.boot = 1
  <2> USE DEF Shape, NetShape, Party
  <2>1. CASE resp'["main"] = resp["main"] \/ resp'["main"].kind # "ok"
    BY <1>2, <1>6, <2>1, Zenon
  <2>2. ASSUME NEW p \in Party, Serve(p) PROVE resp'["main"].kind = "ok" => svc'.boot = 1
    <3>1. p = "main"
      BY <1>2, <2>2, Zenon DEF Serve, Silent
    <3> QED
      BY <1>6, <2>2, <3>1, Zenon DEF Serve
  <2>3. ASSUME NEW p \in Party, Timeout(p)
        PROVE  resp'["main"] = resp["main"] \/ resp'["main"].kind # "ok"
    BY <2>3, Zenon DEF Timeout
  <2>4. CASE Ready \/ SendRelease \/ SendOwned
    <3>1. PICK c : Ask(c)
      BY <2>4, Zenon DEF Ready, SendRelease, SendOwned
    <3> QED
      BY <2>1, <3>1, AskEffect, Zenon
  <2>5. CASE \/ PreflightRefused \/ PreflightAccepted \/ Restart \/ ReleaseAnswered
             \/ RecoverOnce \/ Stop
    BY <2>1, <2>5
    DEF PreflightRefused, PreflightAccepted, Restart, ReleaseAnswered, RecoverOnce,
       Stop, Forget, NoAnswer
  <2> QED
    BY <1>3, <1>5, <2>1, <2>2, <2>3, <2>4, <2>5, Frame, Zenon
<1>12. ctl' \in {"ready", "preflight"} => helper'.last = 0
  <2>1. CASE ctl' = ctl /\ helper'.last = helper.last
    BY <1>2, <2>1, Zenon
  <2>2. CASE Start
    BY <1>2, <2>2, StartEffect, Zenon DEF StartFailed, Shape
  <2>3. CASE Ready
    BY <1>2, <2>3, Zenon DEF Ready, Goto
  <2>4. ctl' \in {"ready", "preflight"} => ctl = ctl' \/ Start \/ Ready
    BY Zenon
    DEF Next, Controller, Reader, Helper, Service, HelperKilled, HelperFails, HelperDies,
       NotReady, PreflightRefused, PreflightAccepted, Restart, Stop, StartRead, ReadEnds,
       ClearMarker, Fail, Report, SendRelease, ReleaseAnswered, Recover, RecoverLoop, SendOwned,
       RecoverOnce, ReaderEvent, ReaderAcked, ReaderTimeout, HelperReady, HelperCommand,
       HelperIntentAcked, HelperStreamed, HelperResultAcked, HelperEOF, Serve, Timeout, ServeLate,
       RestoreFails, DeployFails, Tick, Reboot, vars, Goto, StopThen, StartDone, BadStatus,
       StartFailed, Releases, CallInv
  <2>5. ASSUME ctl \in {"ready", "preflight"}, UNCHANGED ctl PROVE helper'.last = helper.last
    <3>1. helper.pc \in {"boot", "wait", "exit1"} /\ request.kind = "none"
      BY <2>5, Zenon DEF HelperInv, PreflightInv
    <3>2. CASE Helper \/ HelperFails
      BY <3>1, <3>2, Zenon
      DEF Helper, HelperFails, HelperKilled, HelperDies, HelperReady, HelperCommand,
         HelperIntentAcked, HelperStreamed, HelperResultAcked, HelperEOF, HelperGoes,
         Shape, ProcessShape, AnyHelper
    <3> QED
      BY <1>3, <2>5, <3>2, Frame, Zenon
      DEF Start, NotReady, PreflightRefused, Stop, Fail, Recover, StopThen
  <2> QED
    BY <2>1, <2>2, <2>3, <2>4, <2>5, Zenon
<1> QED
    BY <1>6, <1>7, <1>8, <1>9, <1>10, <1>11, <1>12, Zenon DEF OpeningInv, Journal, Silent

\* Outside a read the helper stays idle.
LEMMA IdleStep == SessionInv /\ [Next]_vars => (IdleInv /\ PreflightInv)'
<1> SUFFICES ASSUME SessionInv, [Next]_vars PROVE (IdleInv /\ PreflightInv)'
    BY Zenon
<1> USE MessageShape DEF SessionInv, Shape, ProcessShape, CallInv, IdleInv, HelperInv,
   WhereInv, PreflightInv, RestingInv, ReadInv, Turns, Done, Counted, AnyHelper,
   AnyReader, HelperAlive, Joined, Reading, Resting, Ending, Releases, Terminal, Goto,
   vars, keepVars, ipcVars, netVars
<1>1. CASE Start
    BY <1>1, StartEffect, Zenon DEF StartFailed
<1>2. CASE Ready
    BY <1>2, Zenon DEF Ready, Ask
<1>3. CASE NotReady
    BY <1>3, Zenon DEF NotReady, Killed, StopThen, StartFailed
<1>4. CASE PreflightRefused
    BY <1>4, Zenon DEF PreflightRefused, Forget, Killed, StopThen, StartFailed, Answered
<1>5. CASE PreflightAccepted
    BY <1>5, Zenon DEF PreflightAccepted, Forget, StopThen, StartDone, Answered
<1>6. CASE Restart
    BY <1>6, Zenon DEF Restart, Forget
<1>7. CASE Stop
    BY <1>7, Zenon DEF Stop, BadStatus, StartFailed, NoHelper, NoAnswer
<1>8. ASSUME NEW f \in Files, StartRead(f) PROVE (IdleInv /\ PreflightInv)'
    BY <1>8, Zenon DEF StartRead, NoReader
<1>9. CASE ReadEnds
    BY <1>9, Zenon DEF ReadEnds, NoReader
<1>10. CASE ClearMarker
    BY <1>10, Zenon DEF ClearMarker, StopThen
<1>11. CASE Fail
    BY <1>11, Zenon DEF Fail, FailureBegin, Killed, StopThen
<1>12. CASE Report
    BY <1>12, Zenon DEF Report
<1>13. CASE SendRelease
    BY <1>13, Zenon DEF SendRelease, Ask, Idle
<1>14. CASE ReleaseAnswered
    BY <1>14, Zenon DEF ReleaseAnswered, Forget, Idle, Answered
<1>15. CASE Recover
    BY <1>15, Zenon DEF Recover, FailureBegin, Killed, StopThen
<1>16. CASE RecoverLoop
    BY <1>16, Zenon DEF RecoverLoop
<1>17. CASE SendOwned
    BY <1>17, Zenon DEF SendOwned, Ask, Idle
<1>18. CASE RecoverOnce
    BY <1>18, Zenon DEF RecoverOnce, Forget, Idle, Answered, StopThen
<1>19. CASE ReaderEvent
  <2>1. reader'.mine => reader.mine
    BY <1>19, EventEffect, EndsEffect, Zenon
  <2> QED
    BY <1>19, <2>1, EventEffect
<1>20. CASE ReaderAcked
  <2>1. reader'.mine => reader.mine
    BY <1>20, AckedEffect, EndsEffect, Zenon
  <2> QED
    BY <1>20, <2>1, AckedEffect
<1>21. CASE ReaderTimeout
  <2>1. reader'.mine => reader.mine
    BY <1>21, TimeoutEffect, EndsEffect, Zenon
  <2> QED
    BY <1>21, <2>1, TimeoutEffect
<1>22. CASE HelperReady
    BY <1>22, Zenon DEF HelperReady, HelperGoes
<1>23. CASE HelperCommand
    BY <1>23, Zenon DEF HelperCommand, HelperGoes
<1>24. CASE HelperIntentAcked
    BY <1>24, Zenon DEF HelperIntentAcked, HelperGoes
<1>25. CASE HelperStreamed
    BY <1>25, Zenon DEF HelperStreamed, HelperGoes
<1>26. CASE HelperResultAcked
    BY <1>26, Zenon DEF HelperResultAcked, HelperGoes
<1>27. CASE HelperEOF
    BY <1>27, Zenon DEF HelperEOF, HelperGoes, RequestClosed
<1>28. CASE HelperDies
    BY <1>28, Zenon DEF HelperDies, HelperGoes
<1>29. ASSUME NEW p \in Party, Serve(p) PROVE (IdleInv /\ PreflightInv)'
    BY <1>29, Zenon DEF Serve
<1>30. ASSUME NEW p \in Party, Timeout(p) PROVE (IdleInv /\ PreflightInv)'
    BY <1>30, Zenon DEF Timeout
<1>31. CASE ServeLate
    BY <1>31, Zenon DEF ServeLate
<1>32. CASE RestoreFails
    BY <1>32, Zenon DEF RestoreFails
<1>33. CASE DeployFails
    BY <1>33, Zenon DEF DeployFails
<1>34. CASE Tick
    BY <1>34, Zenon DEF Tick
<1>35. CASE Reboot
    BY <1>35, Zenon DEF Reboot, NoReader, NoHelper, NoCall, NoAnswer
<1>36. CASE UNCHANGED vars
    BY <1>36, Zenon
<1> QED
    BY <1>1, <1>2, <1>3, <1>4, <1>5, <1>6, <1>7, <1>8, <1>9, <1>10, <1>11, <1>12, <1>13,
       <1>14, <1>15, <1>16, <1>17, <1>18, <1>19, <1>20, <1>21, <1>22, <1>23, <1>24,
       <1>25, <1>26, <1>27, <1>28, <1>29, <1>30, <1>31, <1>32, <1>33, <1>34, <1>35,
       <1>36, ZenonT(30) DEF Next, Controller, Reader, Helper, Service, HelperKilled, HelperFails
=============================================================================
