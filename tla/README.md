# PXEOS in TLA+

PXEOS is the network-boot client of RootPXE: a small Linux that a machine boots
over PXE to have its disk captured into an image, or an image deployed onto its
disk.  The client is a set of bash programs (`Buildroot/board/PXEOS/PXEOS/rootfs_overlay`,
called `overlay/` below), a few C helpers, vendored network drivers and the scripts
that build the system.
The RootPXE service, the NAS, the kernel and tools such as partclone are outside
the repository.

This directory holds TLA+ models of the client, the TLC configurations that check
them on small instances, and proofs checked by TLAPS.

## 1. Inventory

| Part | Source | State | Operations | Talks to |
|---|---|---|---|---|
| Capture task | `overlay/bin/pxeos.upload`, `pxeos.checkin`, `pxeos.imgcomplete`, `lib/capture-direct.sh`, `lib/funcs.sh` | shell variables (identity, stopped, released), child pids, XFS mount, staging tree | checkin, permit, prepare, save a partition, publish, finish, quiesce, report, retry, traps | service, NAS, producer, writer, reporter |
| Task HTTP | `lib/task-http.sh` | none | add identity and `workerStopped` to a request | service |
| Status reporter | `bin/pxeos.statusreporter`, `lib/partclone-progress.sh`, `funcs.sh` 34-286 | event queue, snapshot, active item and generation | poll for cancellation, apply events, sample, send | controller (SIGTERM), service |
| Failure wait | `funcs.sh` 3290-3456 | first failure, wait, action, deadline, policy confirmed | report, resend, poll, retry by `exec`, time out | service, init |
| Disk permits | `funcs.sh` 2891-3252, 3621-3836 | granted identity and operation, bindings | request, batch, bind, verify | service, disks |
| Deploy storage | `lib/storage-io.sh`, `lib/capture-recovery.sh`, `package/rootpxe-storage-io` | workspace, nonces, helper process, stopped/released flags, marker | start, call, sync, finalize, stop, recover, release | helper, NAS, service |
| Deploy task | `bin/pxeos.download`, `funcs.sh`, `lib/restore-preflight.sh` | stage, layout, permit | preflight, write table, restore partitions, customise, resume | all of the above |
| Init | `etc/init.d/S99pxeos`, `bin/pxeos` | marker files in `/tmp`, exit code | run task, choose the power action | task |
| LVM | `funcs.sh` 664-1437, 2017-2607 | groups, activated VGs | capture, restore, clean up | LVM tools |
| Layout arithmetic | `funcs.sh` 1779-2862, `lib/partition-funcs.sh`, `lib/procsfdisk.awk` | sector tables | resolve, validate, apply, read back | sfdisk |
| FAT growth | `package/pxeos/src/pxeosfatgrow.c` | boot sector, FATs | validate, grow | disk |
| Customisation | `lib/cloud-init.sh`, `lib/linux-hostname.sh`, `lib/deployment-identity.sh`, `funcs.sh` 4950-5548 | files of the deployed root | stage, replace, roll back | deployed disk |
| Realtek drivers | `KernelPackages/drivers/net/ethernet/realtek/r8125`, `r8126`, `r8127`, `r8168` | ring indexes, interrupt mask, queue and carrier state, work items | transmit, interrupt, reset, link change | chip, network stack |
| UEFI entries | `lib/uefi-boot.sh` | firmware variables | create, order, delete | efibootmgr |
| Probes, logs, dialogue, network, build | see `PROJECT.json` | | | |

The behaviours that make the client hard to get right:

* a request that timed out may still be handled later, and replies get lost;
* the administrator cancels or retries at any moment, the machine loses power at
  any moment;
* bash runs a trap between any two commands, so every pair of commands is a place
  where a SIGTERM from the reporter may land;
* the producer and the writer of an artifact fail or block independently;
* the retry is an `exec`: exported variables of the failed attempt survive it;
* the NAS directory is shared by the attempts of a MAC address, and only the
  occupancy kept by the service keeps two of them apart;
* a deployment reads its image through a helper process that stays when the
  subshell that talks to it, or its parent, dies, and every read is journalled by
  the service before and after;
* the transmit ring of the network driver is shared by the stack, the interrupt
  handler, the work items and the chip without a common lock.

`PROJECT.json` lists the hazards line by line with the property that covers each.

## 2. Modules

| Module | Models | Lines of reasoning |
|---|---|---|
| `RootPXE` | the service and the connection, external, from how the client uses them | task status, attempt, occupancy `holder`, checkin id, requests under way |
| `CaptureTask` | a capture task from checkin to power-off, composed with `RootPXE` | 60 actions, the properties, and their mutants |
| `MCCaptureTask` | instances for TLC | |
| `CaptureTaskProofs` | type correctness, the inductive invariant, safe release, fenced publication | TLAPS |
| `FailureWait` | what happens between the first failure of a task and the end of its process, with a clock | 46 actions, the properties, and their mutants |
| `FailureWaitProofs` | the properties of the failure wait, for every policy and timeout | TLAPS |
| `InitPower` | init: what it runs and which power action it takes, composed with `FailureWait` | |
| `CaptureImageProofs` | completeness of a finished image, uninterrupted publication, confirmed success | TLAPS |
| `InitPowerProofs` | the power action, and that a boot is a behaviour of `FailureWait` | TLAPS |
| `StorageHold` | abstract: what the protection of storage promises | 5 actions |
| `CaptureHoldProofs` | a capture implements `StorageHold` | TLAPS |
| `StorageWorker` | the storage session of a deployment: shell, subshell of a read, helper, FIFOs, journal of the service, recovery, reboot | 36 actions, the properties, and their mutants |
| `StorageWorkerSteps` | its inductive invariant, which step changes what, and the steps around a read | TLAPS |
| `StorageWorkerProofs` | the steps of a read, its safety properties and types, and that it implements `StorageHold` | TLAPS |
| `RealtekTx` | the transmit ring of r8125 with its handlers, reset and link work | 47 actions, the properties, and their mutants |
| `RealtekTxProofs` | types, the bound of the ring, the order of its pointers | TLAPS |

### RootPXE

One capture task.  `status` and `attempt` are the task's state in the service,
`holder` is the attempt that occupies the MAC directory and the target (0 when
released), `cid` the `captureCheckinId` that opened the attempt.  `net` is the set
of requests that were sent and not handled; `rpc` is the one the client waits for
and `reply` its answer.  `Hangup` is a timeout, a 5xx or a trap: the request stays
in `net` and may be handled at any later time.  A request that the code resends
unchanged may be handled more than once (`Take`).

The occupancy is given back by an accepted finish, or by an accepted error report
that says `workerStopped=true`; a retry waits for that.  These are the service's
duties as `lib/task-http.sh`, `lib/capture-direct.sh` and `bin/pxeos.imgcomplete`
rely on them.

### CaptureTask

`pc` names the command the controller is about to run.  `At(l)` is a command: it
is at `l` and no SIGTERM is pending, because bash runs a pending trap first
(`TermTrap`).  A wait for a child is interrupted by the trap as well; a wait for a
request ends in `Hangup`.

| Variables | Code |
|---|---|
| `nonce` | `rootpxe_storage_nonce` and `progress_attempt` |
| `direct`, `stopped`, `released` | `rootpxe_capture_direct`, `_stopped` (exported), `_released` (not exported) |
| `confirmed` | `report_confirmed` of `rootpxe_error_wait_for_retry` |
| `prod`, `prodPid`, `writ`, `writPid` | the two children and whether their pid has been stored; `"forked"` is a child nobody knows yet |
| `fifo` | whether the producer has opened the FIFO it shares with the compressor |
| `xfsVar`, `xfsDir`, `xfsMnt` | `rootpxe_capture_xfs_mountpoint`, the directory, the mount |
| `staging`, `target` | sets of artifacts (attempt, partition, part/image/torn) in `/storage/dev/<mac>` and in the image directory |
| `reporter`, `term` | the status reporter is alive; SIGTERM is pending |

Data are abstracted to what the properties tell apart: an artifact is who wrote it
and whether it is complete; an HTTP answer is accepted, refused (4xx), attention,
or not understood; checks that only lead to `handleError` are one disjunct.  Several
disks, LVM volumes and the dd capture go through the same producer/writer pair and
are elements of `Parts`.

### FailureWait

`handleError`, `rootpxe_error_report` and `rootpxe_error_wait_for_retry`
(`lib/funcs.sh`), and the storage part of a failure (`lib/storage-io.sh`: quiesce,
release, `rootpxe_storage_recover_until_clean`), with the checkins, completions and
permit answers that lead there.

Time is a variable.  `now` counts seconds since this run of `/bin/pxeos` began; a
request, a read or a sleep gets its latest end `until` when it starts (`Bounded`,
the code's `remaining < 30 ? remaining : 30`), may end earlier, and time cannot pass
it (`Tick`).  A sleep ends exactly then.  Commands in between take no time.  Work
and the joins of children have no timeout in the code; in the model they may take
any time up to `MaxIdle`.

| Variables | Code |
|---|---|
| `started`, `deadline`, `wait`, `action`, `fixed`, `rejected` | `rootpxe_failure_started_at`, `_deadline`, `_wait_sec`, `_action`, `_policy_confirmed`, `_report_rejected` |
| `answer` | `rootpxe_error_report_response` is an accepting one |
| `reporter`, `recoverer` | the caller of the report, and of the recovery loop |
| `workspace`, `ready`, `helper`, `stopped`, `released` | `rootpxe_storage_workspace`, `ready.json`, the helper process (`rootpxe_storage_pid`), `rootpxe_storage_stopped`, `_released` |
| `actionFile`, `shutdown`, `marker` | `/tmp/pxeos.failure_action`, `.shutdown`, `.storage-recovery-only` |

Assumptions.  `date` and the writes to `/tmp` succeed.  The publish and rollback
dispositions of a recovery belong to captures through the helper, which the
direct capture of this version has replaced; they are not modelled.  What the
helper and the service do in a recovery is a choice between success and failure of
each call.

### InitPower

`etc/init.d/S99pxeos`: kernel arguments choose debugging, registration or a task; a
registration may hand over a task.  `RunTask` is a step of `FailureWait`.  After it,
exit code and files decide: `SkipPower`, `SuccessPower` or `FailurePower`; before
a finish action the console is silenced behind a marker file (`MakeQuiet`,
`LowerConsole`), which `RestoreQuiet` undoes when the command fails; `warned` is its
message that the log level could not be written back.  The removal of our own marker is
taken to succeed.

### StorageHold

`owner` is the attempt the storage is held for, `last` the latest attempt, `worker`
the attempt whose local worker touches it.  The steps are `Grant`, `Withdraw`, `Begin`,
`End` and `GiveBack`: it is granted to new attempts only, touched only by the attempt
that holds it, and given back only when nothing touches it.  Two models implement it,
with different mappings:

* `CaptureTask`: `owner` is `holder`, `last` the attempts opened, `worker` the attempt
  of the tracked processes and the XFS mount (`Worker`);
* `StorageWorker`: one execution, held until the journal says released; `worker` is
  the helper while it streams a file (`Streaming`).

### StorageWorker

A deployment reads the image through `rootpxe-storage-io`, a C helper that mounts the
NAS.  `lib/storage-io.sh` starts it with three FIFOs, and every read is journalled:
the helper announces it (`intent`), the subshell of `rootpxe_storage_exec` publishes
the event to the service and passes the acknowledgement back, the helper streams the
file, announces the `result`, waits for the second acknowledgement and says `done`.

| Variables | Code |
|---|---|
| `ctl`, `then` | the place in the shell, and where `rootpxe_storage_stop` returns to |
| `boot`, `deadline` | which boot; the failure deadline is off, running or passed |
| `mounting`, `todo` | `rootpxe_storage_start` was called by `pxeos.mount`, not by recovery; files still to read |
| `ctx`, `seqFile`, `reconcile`, `ready` | `.sequence` of `context.json`, the file `next-sequence`, `rootpxe_storage_reconcile`, `ready.json` |
| `reader` | the subshell: its place, its file, whether its FIFOs are those of the current helper, and what is left unread in older ones |
| `helper` | the process: its place, `last_sequence`, the command's sequence and file, SIGTERM pending |
| `request`, `result` | the two control FIFOs, each with at most one message |
| `call`, `resp`, `late` | the request the shell and the subshell each wait for, its answer, and requests given up that may still be handled |
| `svc` | external: the journal (sequence, open file, boot) and `released` |

The subshell is not its parent: when the restore fails, its parent dies and the
subshell goes on (`RestoreFails`), and may acknowledge, time out or send SIGTERM while
the shell reports, stops the helper and recovers.  A reboot (`Reboot`) may come at any
place, loses all local state and leaves the journal and the late requests; the new boot
is a storage-only session.  `unreleased` is the end in which the release was not
confirmed in time.

Mount, identity and path checks of the helper (`storage_fs.c`) are one outcome
(`HelperFails`, `NotReady`).  Only deployments start a
helper in this version; its write, rename, mkdir and remove commands and
`lib/capture-recovery.sh` belong to captures through the helper, which nothing calls.
The paging of the preflight in `rootpxe_storage_load_shadow` is part of `DeployFails`.

### RealtekTx

`drivers/net/ethernet/realtek/r8125/r8125_n.c` as its Makefile builds it: no-close mode,
no NAPI, one queue.  `rtl8125_start_xmit` is cut where it reads or writes what another
party changes: the room checks, the load and the store of `cur_tx` (`XmitLoad`,
`XmitStore`), the stop and the doorbell.  A clear of the ring is the stores of
`rtl8125_tx_clear` and `rtl8125_init_ring_indexes` one by one (`ClearDirty`, `ClearCur`,
`IndexCur`, `IndexDirty`).  Some steps hold more than one access: a room check reads
`cur_tx` and `dirty_tx`, the doorbell reads `cur_tx` and writes the register, `IrqReclaim`
reads the close pointer and then `cur_tx`, and `IndexDirty` also resets the handler's
`BeginHwDesCloPtr`.  Nobody but a clear changes `cur_tx` under a transmit, and under the
handler it only grows, so a finer cut differs only where a transmit meets a clear.
`overlap` records that one did; the properties of the ring are not stated after it, and
`QueueWakes`, which is, does not depend on the pointers.

The handler is `rtl8125_interrupt` with its timer mitigation or `rtl8125_interrupt_msix`;
`rtl8125_reset_task` and `rtl8125_linkchg_task` run one at a time under rtnl.  The store
of `dirty_tx` is followed by a write barrier only, so it may become visible after the
reads behind it (`IrqStore`).  Indexes are unsigned and wrap at `CounterSpan` (2^32),
the chip's pointers at `PtrSpan` (2^16, 2^31 or 2^32, by chip).  `setup` is the machine:
which handler, whether the watchdog may fire, whether the cable may be pulled, and whether
a speed is forced that `rtl8125_set_speed_xmii` refuses, so that a reset does not
renegotiate.

The chip is external: it sends in order, raises TxOK at the latest when it has sent
all, and its soft reset clears both pointers.  `rtl8125_hw_reset` is called when the link
is lost, in a reset (`HwReset`) and again when the link is back (`OnReset`, from
`rtl8125_hw_config`).  The operator `hw_reset` waits for a running handler: the code does
not, but masks the interrupts and sleeps for milliseconds first.

## 3. Runs

| Run | Instance | Shows |
|---|---|---|
| `capture_safety` | 1 partition, 2 attempts, 2 invocations, 1 resend | seven properties below, 1.5 million states |
| `capture_liveness` | 1 partition, 1 attempt, 1 invocation, fairness | `FailureEnds`, `CancelStopsWorkers` |
| `capture_fork_gap` | same | violation: a worker nobody tracks survives the release |
| `capture_withdrawn` | 2 attempts, 2 invocations | violation: a callback after a withdrawn checkin |
| `capture_retry_offer` | 1, 1 | violation: retry is offered before the release |
| `capture_stale_staging` | 1, 1 | violation: an old artifact is published |
| `capture_fifo` | 1, 1, fairness | violation: the wait for the compressor never ends |
| `init_power` | 2 runs of the client, waits 2 to 4, requests 2, sleep 1, offers below, in and above the policy, fairness | eleven properties, 0.6 million states |
| `init_stale_marker` | 2 runs | violation: a completed task gets no finish action |
| `storage_worker` | 2 files, one of them streamed to a restore, 2 boots, 2 late requests | eight properties, 0.27 million states |
| `realtek_tx` | ring of 3, up to 2 descriptors a packet, indexes modulo 8, pointers modulo 4, both handlers, 1 loss of the link | four properties, 0.66 million states |
| `realtek_reset` | ring of 2, 1 descriptor a packet, indexes modulo 6, pointers modulo 3, MSI-X, watchdog, with and without a refused speed | `QueueWakes`, 0.27 million states |

Capture:

* `TypeOK`: types, and finish is resent at most `FinishRetries` times.
* `SafeRelease`: while a tracked worker or the XFS mount exists, the attempt they
  belong to holds the occupancy.
* `FenceBeforeMutation`: the published tree changes only while the service is
  publishing the attempt that changes it.
* `FinishedImageComplete`: a finished task has one complete artifact of every
  partition, of the finishing attempt.
* `NoAbortWhilePublishing`: no cancellation trap from the start of completion on.
* `SuccessIsConfirmed`: exit code 0 implies that the service recorded the finish.
* `ImplementsHold`: the capture implements `StorageHold`.
* `FailureEnds`, `CancelStopsWorkers`: liveness.

Failure wait and init:

* `NothingOutlastsDeadline`: the deadline is the first failure plus the wait in
  force, and no request, read or sleep that was started ends after it.
* `OneWindow`: within a run the window starts once, and its policy changes at most
  once, with the first accepted report.
* `RejectedIsFinal`: a report rejected for good is not sent again.
* `RetryIsClean`: a retry needs an accepted report, no helper, released storage.
* `ActionIsRecorded`, `FailureActionHonoured`: the action in force when the run ends
  is in the file, and is the one init performs.
* `RecoveryKeepsPower`: a storage-only session repeats a power action only if it
  failed.
* `QuietUndone`: the console is silenced only behind our marker; a machine that stays up
  has no marker of ours and its log level back, unless the operator was warned that it
  could not be written; a foreign marker stays.
* `WindowCloses`: liveness of the client; `FailureIsActedOn`: of init.  A run that
  failed is retried, or init comes to its power command.

Storage session:

* `TypeOK`: types, and the bound on the sequence: two events for every file.
* `HoldWhileStreaming`: while the helper streams, the journal has this read open for
  this boot and the storage is not released.  The subshells of an earlier read, late
  events and late releases are what could break it.
* `StoppedIsTrue`: a release says `workerStopped=true` only when no helper runs, a
  preflight `previousWorkerStopped=true` only of a helper that has taken no command, and
  both stay true while the client waits.
* `SequenceAgreement`: between two reads `next-sequence`, `last_sequence` and the journal
  agree, two for every file read.
* `DoneMeansReleased`: a session that ends well has released the storage.
* `ImplementsHold`: the session implements `StorageHold`.  It rests on the deployment not
  being taken up again after a recovery: a late reconciling preflight would close the
  journal entry of a read that runs, and a late release would then be accepted.
* `SessionEnds`, `RecoveryReleases`: liveness.

Transmit ring:

* `TypeOK`: types; the count of kept interrupts does not go below zero.
* `RingBound`: queued descriptors and those being written fit the ring.
* `ChipOrder`: the handler frees only what the chip has closed, although pointers and
  indexes wrap at different values.  Both are stated across resets and losses of the
  link, as long as no transmit has run while the ring was being cleared (section 5).
* `TxCleaned`: what the chip has sent is reclaimed while the link holds.
* `QueueWakes`: a stopped queue is woken, even if a wake-up is lost, the chip hangs or a
  transmit met a clear.  Not with a refused forced speed: the reset then leaves the link
  as it is, no link change is reported, and nothing turns the carrier on again.

Bounds.  Two attempts and two invocations are the least with which a late request
of one attempt, or a variable that survives the `exec`, can meet the next attempt.
Partitions are handled one after the other and share nothing but the staging tree:
one is enough for every property but `FinishedImageComplete`, which was also checked
once with two (3.7 million states, three and a half minutes), as were three
invocations with one partition (five minutes).  `FinishRetries` is 10 in the code; 1
separates "resent" from "given up", and the proof holds for every value.

Failure wait: the seconds of the code (600, 60 to 3600, 30, 20, 5) are scaled to
single digits that keep their order: the pause is shorter than a request, a request
shorter than the longest wait, so that a window has room for several tries, ends in
the middle of each kind of command, and can be shortened below the time already
spent.  `MaxIdle` lets work and joins end before and after every deadline.  Two runs are the
least with which exported variables and files of one meet the next.

Storage session: two files are the least for a read that follows another, and one goes
to a file, one to a pipe that the restore may break.  Two boots let every leftover of
the first meet the recovery of the second.  With two late requests an event and a
release of the same session can be handled in either order; the proofs hold for any
number of files, boots and late requests.

Transmit ring: the smallest rings in which a packet has more than one descriptor
and the ring is not always empty or full; 8 and 4 make indexes and pointers wrap at
different moments, as 2^32 and 2^16 or 2^31 do.  `realtek_reset` has the larger control state
and gets by with single descriptors.  The loss of the link is bounded because every
loss clears the ring and begins anew.

`init_power`, `storage_worker`, `realtek_tx` and `realtek_reset` are not checked for
deadlock: a boot ends with the machine off, a storage session ends, a lost link event may
leave the carrier off until the next one, and so may a reset with a refused speed.

Fairness (`Fairness` in `CaptureTask`).  The controller keeps running commands, the
clock reaches the failure deadline (`curl --max-time` and `sleep` are bounded by
it), the reporter keeps polling (its loop has no exit but the cancellation), a
process that got SIGTERM dies (partclone and the compressors do not catch it) and a
compressor at end of file ends.  Nothing is assumed of the network, of the service,
or of a producer that nobody signalled.

`Fairness` of `FailureWait`: time passes (strongly fair, because a command may end at
any moment and switch it off), and the shell takes the next step of a failure.
This includes that a helper that got SIGTERM and lost its pipes ends: the joins of
`rootpxe_storage_stop` have no timeout, and a helper the kernel does not let go would
hold the window open.  Nothing is assumed of the service or of the task.

`PowerFairSpec` adds that init takes its next step.

`StorageWorker` states fairness inside the properties, since the two need different
ones.  `LocalFairness` (for `SessionEnds`): the clock runs, shell, subshell and helper
take their next step, a helper with SIGTERM or a closed request FIFO ends, and a
request is given up at the latest after its `--max-time`; nothing is assumed of
network, NAS and service.  `NetworkFairness` (for `RecoveryReleases`): network and NAS
recover, that is, a preflight and a release that are repeated are answered at last, and a
helper that is started again and again becomes ready and ends well; the clock may stop.

`KernelSpec`: started transmissions and handlers go on, interrupts are delivered, work
items get their locks (strongly fair: the queue's lock is free again and again), the
watchdog looks at a stopped queue, and the PHY finds its link.  `ChipSpec` adds that the
chip sends what it was given and its timer fires; `QueueWakes` does without it.

Divergences.  The six violation runs each state a sentence of the documentation or
of a comment that the code does not keep; `PROJECT.json` quotes it.  The gap between
fork and pid, and the blocked compressor, are why `SafeRelease` and
`CancelStopsWorkers` speak of tracked processes.

## 4. Proofs

For every value of the constants (any set of partitions, any number of attempts,
invocations and resends; assumptions `BoundAssumption` and `TaskAssumption`):
`TypeCorrect`, `ReleaseIsSafe`, `MutationIsFenced`, `SuccessConfirmed`,
`PublishingIsUninterrupted`, `FinishedIsComplete`.

`SafeRelease` is not inductive: a late error report with `workerStopped=true` could
release the occupancy under a running worker.  `IInv` (theorem `Inductive`)
strengthens it by

* `ServerInv`: the holder is 0 or the current attempt, and who may hold in which
  status;
* `NetInv`: a request under way that can release (`Releasing`) belongs to an attempt
  whose workers have ended (`Quiet`), or to an attempt that no longer holds;
* `CheckinInv`: a client that waits for its checkin owns no worker, and the nonce it
  may be told is the one its id opened (`Fresh`);
* `HeldInv` and `BusyInv`: from an accepted checkin to the first release request the
  client's attempt holds the occupancy (`Held`), and only then can workers exist;
* `ProcInv`: which processes, pids and mounts may exist at which command;
* `PublishInv`: between fence and finish the service is publishing this attempt.

`CaptureImageProofs` adds `EndInv` (what is known at the end of a task) and
`ImageInv` (which artifacts are complete at which command); `FinishedIsComplete`
needs that no step after the fence can change the staging tree but the move.

`FailureWaitProofs`, under `WaitAssumption` (the order of the wait bounds, positive
timeouts): `TypeCorrect`, `DeadlineIsKept`, `ActionRecorded`, `WindowIsOne`,
`RejectionIsFinal`, `RetriesAreClean`.  `IInv` adds to the types

* `WindowInv`: at which commands the window is not open yet and at which it is; an
  open one has the deadline `started + wait` and its action in the file; what is under
  way ends by the deadline; after a rejection no report is being sent.  An accepted
  report may shorten the wait below the time already spent: nothing is under way at
  that moment, which is why the bound survives;
* `StoreInv`: a helper and `ready.json` belong to a workspace, at which commands there
  is one, a new run begins with none, and the service is polled only after it accepted
  a report.

`InitPowerProofs`: `RunIsFailureWait` shows that every behaviour of `InitPower` is one of
`FailureWait`, so the theorems above hold of a boot.  `PowerTypeCorrect`,
`FailureActionIsHonoured`, `RecoveryIsKept` and `QuietIsUndone` rest on `PowerInv`: `IInv`,
that the marker is there in a storage-only session (`KindMarked`), what init has seen
when it chooses (`PowerHistory`), whose marker silences the console, and that a lowered
console outlasts a failed command only with the warning (`QuietState`).

`CaptureHoldProofs`: `CaptureImplementsHold`, from `IInv` before and after each step.  A
release maps to `GiveBack` because of `NetInv`: the request that releases belongs to an
attempt without workers.

`StorageWorkerSteps` and `StorageWorkerProofs`, for every finite set of files:
`HeldWhileStreaming`, `StoppedWordIsTrue`, `CountersAgree`, `DoneIsReleased`,
`SessionImplementsHold`, `SessionTypes`.  None of the safety properties is
inductive: whether a helper may stream depends on the acknowledgement in its FIFO, that on
the answer the subshell got, that on what the service recorded, and all of it on no
release being under way from anywhere.  `SessionInv` (theorem `SessionInductive`) has

* `Shape`: loose types, enough for arithmetic and updates;
* `CallInv`, `HelperInv`, `ReleaseInv`: which call the shell waits for where, where it
  knows that no helper runs, and that an acknowledged release was done;
* `WhereInv`, `FirstInv`, `OpeningInv`: only a first boot reads; until a read fails
  nobody has asked for a release; the journal is empty until the first read;
* `IdleInv`, `PreflightInv`, `RestingInv`: outside a read nothing is in the FIFOs and no
  subshell can write there; between reads the counters agree;
* `ReadInv`: a read, from its command to the end of its subshell.  `Phase` says where an
  event is (in the FIFO, published, recorded, refused or given up, acknowledged) and what
  the journal holds before and after; `Journalled` puts the streaming between the two.

The step lemmas `ReadByReader`, `ReadByHelper` and `ReadByService` follow `ReadInv` through
the steps of the three parties; `Frame` says which steps change which variable.

`SessionTypes` bounds the numbers: an event has a number of at most twice the files, and
`next-sequence` is at most one more.  The type invariant alone does not keep that bound,
since a helper adds one to the number it was given.  `Limits`, inductive together with
`SessionInv`, says that a command's number leaves room for its result (`Commanded`): the
command is written only while a file is left to read, when the counter is one more than
twice the files read (`RestingInv`, lemma `NextCommand`), and a helper takes a command or
streams only within a read (`IdleInv`, lemma `TakenCommand`).  Everything else copies
numbers.

`RealtekTxProofs`, for every ring size, fragment limit and span under `RingAssumption`:

* `RingTypes`: types, with or without the LSO patch.
* `RingNeverOverrun`, without the LSO patch, as long as no transmit has met a clear.
  `RingInv` adds that the room seen by a transmission stays there until it is used (only
  the handler moves `dirty_tx`, forward, and never past `cur_tx`), what the two halves of
  a store rely on, and, while the ring is cleared, that no transmit and no handler is
  under way and which indexes are 0 already; the ring is empty when the clear ends.
* `ChipStaysInOrder`, without the LSO patch: `ChipOrder` compares counters modulo
  `CounterSpan` with pointers of the chip modulo `PtrSpan`.  `OrderInv` names two distances
  that do not wrap, `h` and `s`: how far the descriptors the chip has closed, and those it
  was told of, are ahead of the handler.  `h <= s`, and `s` is at most what is queued, so
  by `RingInv` both fit the ring and either span.  The lemmas on remainders (`Wraps`,
  `OneFurther`, `Ahead`) turn the comparison of wrapped numbers into one of distances.
  `OrderInv` follows the chip through its resets: without carrier it is off (`Powered`),
  off it has closed nothing, so the reset at link-up finds the handler at 0 as well.

Each step lemma has one step per action, or one per group that changes the same
variables.  Every invariant and every action property that a passing run checks
is proved.  Only model-checked: liveness (fairness and `ENABLED` are outside the prover)
and the violations.

## 5. What modelling the driver showed

Four races of the transmit path came up that no run keeps as a property; they are in
the hazard list.  With `RequireLSOPatch` a packet may take one descriptor more than the
room check counts, so `RingBound` is stated without the patch.  The handler may start a
queue that a transmission has filled and stopped in between; the next transmission then
answers busy and stops it again.  A handler past its carrier check may start the queue
after `netif_tx_disable`, and a transmission may meet `rtl8125_tx_clear`: it loads
`cur_tx` before the clear and stores the sum after it, and from then on `dirty_tx` and
`cur_tx` differ by descriptors that are gone.  The chip is reset again when the link is
back, but the indexes stay as they are until the next clear, so `RingBound` and
`ChipOrder` are stated until a transmit meets a clear.
On chips with the old interrupt register the link task reads and writes the mask, and a
handler in between leaves the transmit interrupt off, so `TxCleaned` is checked with link
changes only for MSI-X.

## 6. Not modelled

* The rest of the drivers.  Most of the C code of the repository, by lines, is four
  vendored Realtek drivers, and most of each is tables for PHY and MCU, register access,
  ethtool and procfs, with no protocol to state; a small share of the C lines is
  therefore mapped.  r8126, r8127 and r8168 have the transmit path of r8125.  The receive
  ring in this configuration copies packets: buffers never leave the ring, and indexes
  are touched by the handler alone.  Open, close, suspend and several queues are left out.
* The progress reporter: event queue, generation and sampling decide what an operator
  is shown; no task reads it.
* Disk permits beyond the answer of the service: identities and bindings are text
  comparisons of one process before a command.
* The deploy task apart from its storage session: a sequence of external commands whose
  failures all enter `handleError`, which `FailureWait` and `StorageWorker` have at every
  place.
* Layout and FAT arithmetic, offline hostname and cloud-init, UEFI entries, LVM: a single
  process, external tools, no state shared with the parts above.
* Probes whose result is only reported, logging and wording, dialogue, network bring-up,
  byte formats of registry hives and boot sectors, build and release scripts.
