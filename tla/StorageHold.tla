---------------------------- MODULE StorageHold ----------------------------
(***************************************************************************)
(* What the storage protection of a task promises, whoever implements it.  *)
(* The service holds the storage for one attempt at a time; that attempt's *)
(* local worker may touch it while it is held; it is given back only when  *)
(* the worker has stopped, and an attempt that gave it back never touches  *)
(* it again.  CaptureTask, with the service of RootPXE, implements it, and *)
(* so does the storage session of a deployment, StorageWorker.             *)
(***************************************************************************)
EXTENDS Naturals

VARIABLES owner,     \* attempt the storage is held for, 0: nobody
          last,      \* the newest attempt that was opened
          worker     \* attempt whose worker is at the storage, 0: none

holdVars == <<owner, last, worker>>

HoldInit ==
    /\ owner \in Nat /\ last = owner
    /\ worker = 0

\* An attempt is opened, and the storage held for it ...
Grant ==
    /\ owner = 0 /\ worker = 0
    /\ last' = last + 1 /\ owner' = last'
    /\ UNCHANGED worker

\* ... or it is withdrawn before it held anything.
Withdraw ==
    /\ owner = 0
    /\ last' = last + 1
    /\ UNCHANGED <<owner, worker>>

Begin ==
    /\ owner # 0 /\ worker = 0
    /\ worker' = owner
    /\ UNCHANGED <<owner, last>>

End ==
    /\ worker # 0
    /\ worker' = 0
    /\ UNCHANGED <<owner, last>>

GiveBack ==
    /\ owner # 0 /\ worker = 0
    /\ owner' = 0
    /\ UNCHANGED <<last, worker>>

HoldNext == Grant \/ Withdraw \/ Begin \/ End \/ GiveBack

HoldSpec == HoldInit /\ [][HoldNext]_holdVars
=============================================================================
