----------------------------- MODULE InitPower -----------------------------
(***************************************************************************)
(* etc/init.d/S99pxeos: it runs the manual registration or the task, reads *)
(* the exit code and the files the task left in /tmp, and switches the     *)
(* machine off or reboots it.  Composed with FailureWait, which is the run *)
(* of /bin/pxeos as init sees it.                                          *)
(***************************************************************************)
EXTENDS FailureWait

VARIABLES
    init,      \* the command of S99pxeos
    power,     \* the power command that was run: "none", "reboot", "shutdown"
    took,      \* it took effect
    quiet,     \* who made /.pxeos-quiet-shutdown: "none", "ours", "other"
    console,   \* kernel console log level: "normal", or "off" (0)
    warned     \* the operator was told that the level could not be restored

initVars == <<init, power, took, quiet, console, warned>>
allVars == <<vars, initVars>>

PowerTypeOK ==
    /\ TypeOK
    /\ init \in {"boot", "pxeos", "quiet", "printk", "power", "restore", "done"}
    /\ power \in Action \cup {"none"}
    /\ took \in BOOLEAN
    /\ quiet \in {"none", "ours", "other"}
    /\ console \in {"normal", "off"}
    /\ warned \in BOOLEAN

\* A marker of somebody else may be there before.
InitBoot ==
    /\ Init
    /\ init = "boot" /\ power = "none" /\ took = FALSE
    /\ quiet \in {"none", "other"} /\ console = "normal" /\ warned = FALSE

\* pxeos.debug, and a manual registration that ends without a valid handoff
\* (exit code 20 and a context file), end the script.
BootAside ==
    /\ init = "boot"
    /\ init' = "done"
    /\ UNCHANGED <<vars, power, took, quiet, console, warned>>

\* The task named on the kernel command line, or handed over by a registration.
BootTask ==
    /\ init = "boot"
    /\ init' = "pxeos"
    /\ UNCHANGED <<vars, power, took, quiet, console, warned>>

RunTask == init = "pxeos" /\ Next /\ UNCHANGED initVars

\* Mutant: the marker alone decides, also after a failure.
SkipOnMarker ==
    /\ init = "pxeos" /\ pc = "ended" /\ marker
    /\ init' = "done"
    /\ UNCHANGED <<vars, power, took, quiet, console, warned>>

\* Exit code 0 and the marker of a storage-only session: no power action.
SkipPower ==
    /\ init = "pxeos" /\ pc = "ended" /\ rc = 0 /\ marker
    /\ init' = "done"
    /\ UNCHANGED <<vars, power, took, quiet, console, warned>>

\* Mutant: the marker of a storage-only session is ignored.
PowerAfterEverySuccess ==
    /\ init = "pxeos" /\ pc = "ended" /\ rc = 0
    /\ power' = IF shutdown THEN "shutdown" ELSE "reboot"
    /\ init' = "quiet"
    /\ UNCHANGED <<vars, took, quiet, console, warned>>

\* Exit code 0: the finish action of the checkin.
SuccessPower ==
    /\ init = "pxeos" /\ pc = "ended" /\ rc = 0 /\ ~marker
    /\ power' = IF shutdown THEN "shutdown" ELSE "reboot"
    /\ init' = "quiet"
    /\ UNCHANGED <<vars, took, quiet, console, warned>>

\* Any other exit code: /tmp/pxeos.failure_action, or reboot without it.
FailurePower ==
    /\ init = "pxeos" /\ pc = "ended" /\ rc # 0
    /\ power' = IF actionFile = "shutdown" THEN "shutdown" ELSE "reboot"
    /\ took' \in BOOLEAN
    /\ init' = "done"
    /\ UNCHANGED <<vars, quiet, console, warned>>

\* pxeos_enable_quiet_shutdown: create the marker unless there is one.
MakeQuiet ==
    /\ init = "quiet"
    /\ \/ quiet = "none" /\ quiet' = "ours" /\ init' = "printk"
       \/ UNCHANGED quiet /\ init' = "power"
    /\ UNCHANGED <<vars, power, took, console, warned>>

\* Read and lower the log level; on failure our marker is removed.
LowerConsole ==
    /\ init = "printk"
    /\ \/ console' = "off" /\ UNCHANGED quiet
       \/ quiet' = "none" /\ UNCHANGED console
    /\ init' = "power"
    /\ UNCHANGED <<vars, power, took, warned>>

PowerWorks ==
    /\ init = "power"
    /\ took' = TRUE /\ init' = "done"
    /\ UNCHANGED <<vars, power, quiet, console, warned>>

PowerFails ==
    /\ init = "power"
    /\ init' = "restore"
    /\ UNCHANGED <<vars, power, took, quiet, console, warned>>

\* Mutant: the flag of the lowered level is cleared before it is tested.
RestoreMarkerOnly ==
    /\ init = "restore"
    /\ quiet' = IF quiet = "ours" THEN "none" ELSE quiet
    /\ init' = "done"
    /\ UNCHANGED <<vars, power, took, console, warned>>

\* pxeos_restore_quiet_shutdown: write a lowered log level back, or warn that it
\* cannot be written, and remove our marker.
RestoreQuiet ==
    /\ init = "restore"
    /\ \/ console' = "normal" /\ UNCHANGED warned
       \/ console = "off" /\ warned' = TRUE /\ UNCHANGED console
    /\ quiet' = IF quiet = "ours" THEN "none" ELSE quiet
    /\ init' = "done"
    /\ UNCHANGED <<vars, power, took>>

InitStep ==
    \/ BootAside \/ BootTask \/ SkipPower \/ SuccessPower \/ FailurePower
    \/ MakeQuiet \/ LowerConsole \/ PowerWorks \/ PowerFails \/ RestoreQuiet

PowerNext == RunTask \/ InitStep
PowerSpec == InitBoot /\ [][PowerNext]_allVars

\* As for the failed run (FailureWait); and the script goes on.
PowerFairSpec == PowerSpec /\ Fairness /\ WF_allVars(InitStep)

-----------------------------------------------------------------------------
\* Properties

\* A run that opened a failure window and ended in it gets the failure action of
\* the policy in force, the one an accepted report may have changed included.
FailureActionHonoured ==
    init = "done" /\ power # "none" /\ rc = 2 /\ started # NotStarted => power = action

\* A storage-only session that recovered repeats no power action, and one that
\* did not recover gets a failure action.
RecoveryKeepsPower ==
    init = "done" /\ pc = "ended" /\ kind = "recovery" => (power = "none" <=> rc = 0)

\* The console is lowered only behind our marker; a machine that stays up after
\* its power command has no marker of ours and its log level back, unless the
\* operator was told that it could not be written; and a marker that was there
\* before stays.
QuietUndone ==
    /\ [](console = "off" /\ init # "done" => quiet = "ours")
    /\ [](init = "done" /\ ~took => quiet # "ours" /\ (console = "normal" \/ warned))
    /\ [][quiet = "other" => quiet' = "other"]_allVars

\* A failed run does not leave the machine waiting: it is retried, or S99pxeos
\* comes to its power command (or to a recovered session, which needs none).
FailureIsActedOn ==
    started # NotStarted ~> (started = NotStarted \/ (init = "done" /\ (power # "none" \/ rc = 0)))

\* A task that completed gets the finish action its checkin asked for.
CompletedTaskPowers ==
    init = "done" /\ pc = "ended" /\ rc = 0 /\ kind = "task" =>
        power = (IF shutdown THEN "shutdown" ELSE "reboot")
=============================================================================
