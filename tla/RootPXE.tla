------------------------------ MODULE RootPXE ------------------------------
(***************************************************************************)
(* The control plane as a capture client sees it: the RootPXE service and  *)
(* the HTTP connection to it.  Neither is part of this repository; both    *)
(* are modelled from how the client uses them (requests built in           *)
(* lib/task-http.sh, replies read in bin/pxeos.checkin, lib/funcs.sh,      *)
(* lib/capture-direct.sh and bin/pxeos.imgcomplete).                       *)
(*                                                                         *)
(* One capture task is modelled.  `holder' is the attempt that occupies    *)
(* the MAC staging directory and the target (0: nobody): it is taken by an *)
(* accepted checkin and given back only by a finish, or by an error report *)
(* that says workerStopped=true.                                           *)
(***************************************************************************)
EXTENDS Naturals

CONSTANTS MaxAttempt,      \* bound on the attempts an administrator requests
          MaxInvocation    \* bound on the runs of /bin/pxeos (boots and retries)

ASSUME BoundAssumption == MaxAttempt \in Nat \ {0} /\ MaxInvocation \in Nat \ {0}

VARIABLES status,    \* state of the task in the service
          attempt,   \* its current attempt (progressAttempt)
          holder,    \* attempt that holds the occupancy, 0 when released
          cid,       \* captureCheckinId that opened the current attempt
          net,       \* requests sent and not yet handled, abandoned ones included
          rpc,       \* the request the client waits for, or NoRequest
          reply      \* what the service answered to rpc

srvVars == <<status, attempt, holder, cid>>
netVars == <<net, rpc, reply>>

Status == {"queued", "running", "publishing", "attention", "cancelled", "finished"}
Attempt == 1..MaxAttempt
Nonce == 0..MaxAttempt           \* 0: the client has no capture identity
Invocation == 1..MaxInvocation

\* What a request carries that the service decides on: the capture identity
\* (attempt and storageNonce, one value here), workerStopped, captureCheckinId.
Request == [op : {"checkin", "permit", "fence", "finish", "error"},
            nonce : Nonce, stop : BOOLEAN, id : Invocation]
NoRequest == [op |-> "none"]

Reply == [kind : {"none", "ok", "refused", "attention"}, att : Nonce]
NoReply == [kind |-> "none", att |-> 0]

ServerTypeOK ==
    /\ status \in Status
    /\ attempt \in Attempt
    /\ holder \in Nonce
    /\ cid \in 0..MaxInvocation
    /\ net \subseteq Request
    /\ rpc \in Request \cup {NoRequest}
    /\ reply \in Reply

ServerInit ==
    /\ status = "queued"
    /\ attempt = 1
    /\ holder = 0
    /\ cid = 0
    /\ net = {}
    /\ rpc = NoRequest
    /\ reply = NoReply

-----------------------------------------------------------------------------
\* The client's end of the connection.

Send(r) ==
    /\ net' = net \cup {r}
    /\ rpc' = r
    /\ reply' = NoReply

\* The client stops waiting (answer read, timeout, 5xx or a trap).  An
\* unanswered request stays in flight: the service may still act on it.
Hangup ==
    /\ rpc' = NoRequest
    /\ reply' = NoReply
    /\ UNCHANGED net

Answered(kind) == rpc # NoRequest /\ reply.kind = kind

-----------------------------------------------------------------------------
\* The service.

Answer(m, kind, a) ==
    reply' = IF rpc = m THEN [kind |-> kind, att |-> a] ELSE reply

\* The checkin, error and finish requests are resent unchanged, so another
\* copy may still be under way when one has been handled.
Take(m) ==
    /\ m \in net
    /\ \/ net' = net \ {m}
       \/ m.op \in {"checkin", "error", "finish"} /\ net' = net
    /\ UNCHANGED rpc

\* A checkin opens a queued attempt; a lost answer is repeated to the same
\* captureCheckinId and to no other.
ServeCheckin(m) ==
    /\ m.op = "checkin"
    /\ Take(m)
    /\ \/ /\ status = "queued"
          /\ status' = "running" /\ holder' = attempt /\ cid' = m.id
          /\ Answer(m, "ok", attempt)
          /\ UNCHANGED attempt
       \/ /\ status = "running" /\ cid = m.id
          /\ Answer(m, "ok", attempt)
          /\ UNCHANGED srvVars
       \/ /\ status # "queued" /\ ~(status = "running" /\ cid = m.id)
          /\ Answer(m, "refused", 0)
          /\ UNCHANGED srvVars

ServePermit(m) ==
    /\ m.op = "permit"
    /\ Take(m)
    /\ \/ status = "running" /\ m.nonce = attempt /\ Answer(m, "ok", 0)
       \/ Answer(m, "refused", 0)
    /\ UNCHANGED srvVars

\* stage=finalizing: only a running attempt that was not cancelled may publish.
ServeFence(m) ==
    /\ m.op = "fence"
    /\ Take(m)
    /\ IF status = "running" /\ m.nonce = attempt
         THEN status' = "publishing" /\ Answer(m, "ok", 0)
         ELSE UNCHANGED status /\ Answer(m, "refused", 0)
    /\ UNCHANGED <<attempt, holder, cid>>

ServeFinish(m) ==
    /\ m.op = "finish"
    /\ Take(m)
    /\ \/ /\ status = "publishing" /\ m.nonce = attempt
          /\ status' = "finished" /\ holder' = 0
          /\ Answer(m, "ok", 0)
          /\ UNCHANGED <<attempt, cid>>
       \/ /\ status = "publishing" /\ m.nonce = attempt     \* metadata refused
          /\ status' = "attention"
          /\ Answer(m, "attention", 0)
          /\ UNCHANGED <<attempt, holder, cid>>
       \/ /\ status = "finished" /\ m.nonce = attempt       \* repeated finish
          /\ Answer(m, "ok", 0)
          /\ UNCHANGED srvVars
       \/ /\ ~(status \in {"publishing", "finished"} /\ m.nonce = attempt)
          /\ Answer(m, "refused", 0)
          /\ UNCHANGED srvVars

\* An error report is accepted for the current attempt only; the occupancy is
\* given back when, and only when, the client confirms workerStopped.
ServeError(m) ==
    /\ m.op = "error"
    /\ Take(m)
    /\ IF m.nonce = attempt /\ status \in {"running", "publishing", "attention", "cancelled"}
         THEN /\ status' = IF status = "cancelled" THEN status ELSE "attention"
              /\ holder' = IF m.stop THEN 0 ELSE holder
              /\ Answer(m, "ok", 0)
         ELSE /\ UNCHANGED <<status, holder>>
              /\ Answer(m, "refused", 0)
    /\ UNCHANGED <<attempt, cid>>

Serve(m) ==
    \/ ServeCheckin(m) \/ ServePermit(m) \/ ServeFence(m)
    \/ ServeFinish(m) \/ ServeError(m)

\* The administrator.  Publishing is not interrupted; a retry waits for the
\* occupancy to be given back and opens a new attempt.
Cancel ==
    /\ status \in {"queued", "running", "attention"}
    /\ status' = "cancelled"
    /\ UNCHANGED <<attempt, holder, cid>>
    /\ UNCHANGED netVars

Retry ==
    /\ status \in {"attention", "cancelled"} /\ holder = 0 /\ attempt < MaxAttempt
    /\ status' = "queued"
    /\ attempt' = attempt + 1
    /\ UNCHANGED <<holder, cid>>
    /\ UNCHANGED netVars
=============================================================================
