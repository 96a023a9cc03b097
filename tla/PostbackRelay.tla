---------------------------- MODULE PostbackRelay ----------------------------
(***************************************************************************)
(* Partner postbacks on their way into the CRM: the gateway stores each    *)
(* accepted request in a SQLite queue under a delivery id of its own and   *)
(* hands it to the CRM, one request at a time, until the CRM confirms it;  *)
(* the CRM performs it in one transaction with a row of                    *)
(* postback_relay_deliveries under that id.                                *)
(*                                                                         *)
(* A post is one accepted request and its delivery id.  The gateway may    *)
(* give a request up (timeout, restart) while the CRM still works on it,   *)
(* so that several requests of one post can be open at the CRM: each has a *)
(* slot.  The partner's key (the endpoint's secret) is replaced while      *)
(* posts are under way; a revision is one version of the endpoint.         *)
(***************************************************************************)
EXTENDS Naturals, FiniteSets

CONSTANTS
  Posts,         \* requests the partner makes, repeated ones included
  Events,        \* the partner's event ids
  Slots,         \* bound: requests open at the CRM at once
  MaxRevisions,  \* bound: versions of the endpoint
  MaxJobs,       \* QUEUE_MAX_JOBS
  MaxFaults,     \* bound: failed, given up and unconfirmed steps
  None

ASSUME BoundAssumption    == MaxRevisions \in Nat \ {0} /\ MaxFaults \in Nat
ASSUME MaxJobsAssumption  == MaxJobs \in Nat \ {0}
ASSUME NoneAssumption     == None \notin Slots \cup Events \cup Posts

VARIABLES
  \* gateway: table jobs, its payloads, tables allowed and metadata, send_loop
  job, envelope, manifest, sender,
  \* CRM: open requests, postback_relay_deliveries, postback_business_effects
  req, ledger, applied,
  \* CRM: postback_endpoints and postback_endpoint_revisions
  active, revision, token, validity,
  \* history
  effects,       \* how often each post took effect, up to 2
  stopped,       \* the endpoint was inactive at some time
  faults

gatewayVars  == <<job, envelope, manifest, sender>>
crmVars      == <<ledger, applied, effects>>
endpointVars == <<active, revision, token, validity, stopped>>
vars == <<gatewayVars, req, crmVars, endpointVars, faults>>

Revs         == 1..MaxRevisions
JobStatuses  == {"none", "pending", "sending", "done", "dead", "pruned", "lost"}
Phases       == {"ledger", "endpoint", "insert", "receive", "commit", "answered"}
Results      == {"processed", "duplicate", "unmatched"}
Answers      == {"ok", "reject", "retry"}
Validities   == {"unused", "valid", "grace", "ended", "revoked"}
Free         == [post |-> None, phase |-> "answered", result |-> "unmatched", answer |-> "retry"]
NoEnvelope   == [rev |-> 1, late |-> FALSE, event |-> None]

\* Requests at work, and those whose transaction inserted its ledger row.
Open(s)  == req[s].post # None
Holds(s) == req[s].phase \in {"receive", "commit"}

TypeOK ==
  /\ job \in [Posts -> JobStatuses]
  /\ envelope \in [Posts -> [rev : Revs, late : BOOLEAN, event : Events \cup {None}]]
  /\ manifest \subseteq Revs
  /\ sender \in Slots \cup {None}
  /\ req \in [Slots -> [post : Posts \cup {None}, phase : Phases,
                        result : Results, answer : Answers]]
  /\ ledger \in [Posts -> Results \cup {"none"}]
  /\ applied \subseteq Events
  /\ active \in BOOLEAN /\ stopped \in BOOLEAN
  /\ revision \in Revs
  /\ token \in [Revs -> Revs]
  /\ validity \in [Revs -> Validities]
  /\ effects \in [Posts -> 0..2]
  /\ faults \in 0..MaxFaults

Init ==
  /\ job = [p \in Posts |-> "none"] /\ envelope = [p \in Posts |-> NoEnvelope]
  /\ manifest = {} /\ sender = None
  /\ req = [s \in Slots |-> Free]
  /\ ledger = [p \in Posts |-> "none"] /\ applied = {}
  /\ active = TRUE /\ revision = 1
  /\ token = [r \in Revs |-> 1]
  /\ validity = [r \in Revs |-> IF r = 1 THEN "valid" ELSE "unused"]
  /\ effects = [p \in Posts |-> 0] /\ stopped = FALSE /\ faults = 0

Fault == faults < MaxFaults /\ faults' = faults + 1

-----------------------------------------------------------------------------
(* The endpoint, as its owner manages it.                                  *)

NewRevision(t, old) ==
  /\ revision < MaxRevisions
  /\ revision' = revision + 1
  /\ token' = [token EXCEPT ![revision + 1] = t]
  /\ validity' = [r \in Revs |-> IF r = revision + 1 THEN "valid"
                                 ELSE IF r <= revision THEN old[r] ELSE validity[r]]

\* update_endpoint: new rules under the same key; it may switch the endpoint.
UpdateEndpoint(on) ==
  /\ NewRevision(token[revision], validity)
  /\ active' = on /\ stopped' = (stopped \/ ~on)
  /\ UNCHANGED <<gatewayVars, req, crmVars, faults>>

\* rotate_secret: the old key gets a grace period, or with revoke_old all older
\* revisions are revoked.
RotateSecret(revokeOld) ==
  /\ NewRevision(token[revision] + 1,
       [r \in Revs |-> IF revokeOld THEN "revoked"
                       ELSE IF token[r] = token[revision] THEN "grace" ELSE validity[r]])
  /\ UNCHANGED <<active, stopped, gatewayVars, req, crmVars, faults>>

\* The grace period of a key is over (valid_until).
GraceEnds(t) ==
  /\ \E r \in Revs : token[r] = t /\ validity[r] = "grace"
  /\ validity' = [r \in Revs |-> IF token[r] = t /\ validity[r] = "grace" THEN "ended"
                                 ELSE validity[r]]
  /\ UNCHANGED <<active, revision, token, stopped, gatewayVars, req, crmVars, faults>>

\* delete_endpoint archives; what is restored from the archive is inactive.
ArchiveEndpoint ==
  /\ active
  /\ active' = FALSE /\ stopped' = TRUE
  /\ UNCHANGED <<revision, token, validity, gatewayVars, req, crmVars, faults>>

-----------------------------------------------------------------------------
(* The gateway: intake, manifest, and the queue's housekeeping.            *)

\* GET manifest: the current revision, and the newest one of every older key
\* whose grace period runs.
ManifestEntries ==
  IF ~active THEN {}
  ELSE {revision} \cup
       {r \in Revs : /\ token[r] # token[revision] /\ validity[r] = "grace"
                     /\ \A q \in Revs : token[q] = token[r] /\ validity[q] = "grace" => q <= r}

Sync ==
  /\ manifest' = ManifestEntries
  /\ UNCHANGED <<job, envelope, sender, req, crmVars, endpointVars, faults>>

Backlog == {p \in Posts : job[p] \in {"pending", "sending", "dead"}}

\* enqueue: the stored manifest decides, however old the endpoint's state in it
\* is; the post keeps the revision and the time of its arrival.
Accept(p, r, e) ==
  /\ job[p] = "none" /\ r \in manifest
  /\ Cardinality(Backlog) < MaxJobs
  /\ job' = [job EXCEPT ![p] = "pending"]
  /\ envelope' = [envelope EXCEPT ![p] =
                    [rev |-> r, late |-> validity[r] = "ended", event |-> e]]
  /\ UNCHANGED <<manifest, sender, req, crmVars, endpointVars, faults>>

SetJob(p, s) == job' = [job EXCEPT ![p] = s]

Prune(p) ==
  /\ job[p] = "done" /\ SetJob(p, "pruned")
  /\ UNCHANGED <<envelope, manifest, sender, req, crmVars, endpointVars, faults>>

\* admin retry: the same delivery id again.
RetryDead(p) ==
  /\ job[p] = "dead" /\ SetJob(p, "pending")
  /\ UNCHANGED <<envelope, manifest, sender, req, crmVars, endpointVars, faults>>

\* The states a job had, or did not have yet, when a backup was taken at some
\* time before; of the settled ones, those that matter.
EarlierStates(p) == IF job[p] = "none" THEN {"none"} ELSE {job[p], "pending", "lost"}

\* A stopped gateway starts with a backup of the queue: jobs are back in an older
\* state, and posts accepted since are lost.
Restore ==
  /\ Fault
  /\ job' \in {old \in [Posts -> JobStatuses] : \A p \in Posts : old[p] \in EarlierStates(p)}
  /\ sender' = None
  /\ req' = [s \in Slots |-> IF req[s].phase = "answered" THEN Free ELSE req[s]]
  /\ UNCHANGED <<envelope, manifest, crmVars, endpointVars>>

-----------------------------------------------------------------------------
(* send_one: claim, POST, and what the answer makes of the job.            *)

\* Mutant: a job left "sending" by a killed gateway is never claimed again.
ClaimableMutant(p) == job[p] = "pending"

\* There is one send loop, so that a job "sending" while it is idle is left
\* over; it is claimed once its lease has run out.
Claimable(p) == job[p] \in {"pending", "sending"}

\* Requests are interchangeable: one stands for all that are not open.
FreeSlot == CHOOSE s \in Slots : ~Open(s) \/ \A u \in Slots : Open(u)

Claim(p) ==
  /\ sender = None /\ Claimable(p)
  /\ SetJob(p, "sending")
  /\ \E s \in Slots :
       /\ s = FreeSlot /\ ~Open(s)
       /\ sender' = s
       /\ req' = [req EXCEPT ![s] = [Free EXCEPT !.post = p, !.phase = "ledger"]]
  /\ UNCHANGED <<envelope, manifest, crmVars, endpointVars, faults>>

\* Mutants: a rejected job gets a status the queue does not know; an answer
\* that is no confirmation closes the job.
StatusAfterMutant1(a) ==
  CASE a = "ok" -> "done" [] a = "reject" -> "rejected" [] a = "retry" -> "pending"
StatusAfterMutant2(a) ==
  CASE a = "ok" -> "done" [] a = "reject" -> "dead" [] a = "retry" -> "done"

StatusAfter(a) ==
  CASE a = "ok" -> "done" [] a = "reject" -> "dead" [] a = "retry" -> "pending"

FinishWith(status) ==
  /\ SetJob(req[sender].post, status)
  /\ sender' = None
  /\ req' = IF req[sender].phase = "answered" THEN [req EXCEPT ![sender] = Free] ELSE req

Finish ==
  /\ sender # None /\ req[sender].phase = "answered"
  /\ FinishWith(StatusAfter(req[sender].answer))
  /\ UNCHANGED <<envelope, manifest, crmVars, endpointVars, faults>>

\* The request times out, or its answer is lost: an answer of the CRM that
\* still comes goes nowhere.
GiveUp ==
  /\ Fault
  /\ sender # None
  /\ FinishWith("pending")
  /\ UNCHANGED <<envelope, manifest, crmVars, endpointVars>>

\* The gateway is killed, or its write of the outcome fails.
LeaveSending ==
  /\ Fault
  /\ sender # None
  /\ FinishWith("sending")
  /\ UNCHANGED <<envelope, manifest, crmVars, endpointVars>>

-----------------------------------------------------------------------------
(* The CRM: one transaction of deliver() per request.                      *)

Goes(s, phase) == req' = [req EXCEPT ![s].phase = phase]

\* The response; nobody waits for that of a request given up.
Answered(s, a) ==
  req' = [req EXCEPT ![s] = IF sender = s THEN [@ EXCEPT !.phase = "answered", !.answer = a]
                            ELSE Free]

Recorded(s) == ledger[req[s].post] # "none"

\* db.get: a delivery already performed is confirmed, whatever the endpoint is by
\* now.
ReadLedger(s) ==
  /\ req[s].phase = "ledger"
  /\ IF Recorded(s) THEN Answered(s, "ok") ELSE Goes(s, "endpoint")
  /\ UNCHANGED <<gatewayVars, crmVars, endpointVars, faults>>

\* Mutant: the deadline of the key is compared with the present time.
RejectsMutant(env) == ~active \/ validity[env.rev] \in {"revoked", "ended"}

\* PostbackContractService.endpoint: the deadline counts for the time of arrival.
Rejects(env) == ~active \/ validity[env.rev] = "revoked" \/ env.late

ReadEndpoint(s) ==
  /\ req[s].phase = "endpoint"
  /\ IF Rejects(envelope[req[s].post]) THEN Answered(s, "reject") ELSE Goes(s, "insert")
  /\ UNCHANGED <<gatewayVars, crmVars, endpointVars, faults>>

\* Mutant: the insert does not wait for another transaction's row.
InsertWaitsMutant(s) == FALSE

InsertWaits(s) == \E u \in Slots \ {s} : req[u].post = req[s].post /\ Holds(u)

\* INSERT ... ON CONFLICT DO NOTHING, and the conflicting row's answer.
InsertDelivery(s) ==
  /\ req[s].phase = "insert" /\ ~InsertWaits(s)
  /\ IF Recorded(s) THEN Answered(s, "ok") ELSE Goes(s, "receive")
  /\ UNCHANGED <<gatewayVars, crmVars, endpointVars, faults>>

EventOf(s) == envelope[req[s].post].event

\* pg_advisory_xact_lock of a partner event id.
EventBusy(e) ==
  \E u \in Slots : /\ req[u].phase = "commit" /\ EventOf(u) = e
                   /\ req[u].result \in {"processed", "duplicate"}

Receives(s, result) ==
  req' = [req EXCEPT ![s].phase = "commit", ![s].result = result]

\* receive: no lead matches (or the data is invalid), or the event takes effect
\* unless its id already did.
ReceivePost(s) ==
  /\ req[s].phase = "receive"
  /\ \/ Receives(s, "unmatched")
     \/ EventOf(s) = None /\ Receives(s, "processed")
     \/ /\ EventOf(s) # None /\ ~EventBusy(EventOf(s))
        /\ Receives(s, IF EventOf(s) \in applied THEN "duplicate" ELSE "processed")
  /\ UNCHANGED <<gatewayVars, crmVars, endpointVars, faults>>

\* The commit; its acknowledgement may be lost, which answers 503.
CommitDelivery(s) ==
  LET p == req[s].post
      performed == req[s].result = "processed"
  IN /\ req[s].phase = "commit"
     /\ ledger' = [ledger EXCEPT ![p] = req[s].result]
     /\ applied' = IF performed THEN applied \cup ({EventOf(s)} \ {None}) ELSE applied
     /\ effects' = IF performed THEN [effects EXCEPT ![p] = IF @ = 0 THEN 1 ELSE 2]
                   ELSE effects
     /\ (Answered(s, "ok") /\ UNCHANGED faults) \/ (Answered(s, "retry") /\ Fault)
     /\ UNCHANGED <<gatewayVars, endpointVars>>

\* Any failure, a lock_timeout included: rollback and 503; a request that never
\* arrives ends in the same way.
FailDelivery(s) ==
  /\ Fault
  /\ Open(s) /\ req[s].phase # "answered"
  /\ Answered(s, "retry")
  /\ UNCHANGED <<gatewayVars, crmVars, endpointVars>>

-----------------------------------------------------------------------------
Owner ==
  \/ \E on \in BOOLEAN : UpdateEndpoint(on) \/ RotateSecret(on)
  \/ \E t \in Revs : GraceEnds(t)
  \/ ArchiveEndpoint

Gateway ==
  \/ Sync \/ Restore \/ Finish \/ GiveUp \/ LeaveSending
  \/ \E p \in Posts : Claim(p) \/ Prune(p) \/ RetryDead(p)
  \/ \E p \in Posts, r \in manifest, e \in Events \cup {None} : Accept(p, r, e)

Deliver(s) ==
  \/ ReadLedger(s) \/ ReadEndpoint(s) \/ InsertDelivery(s) \/ ReceivePost(s)
  \/ CommitDelivery(s)

Next == Owner \/ Gateway \/ \E s \in Slots : Deliver(s) \/ FailDelivery(s)

\* send_loop goes on for ever and takes the job that is longest due, so that no
\* due job is passed over for ever; an open request ends: statements of the CRM
\* wait for locks at most five seconds.
Fairness ==
  /\ \A p \in Posts : SF_vars(Claim(p))
  /\ WF_vars(Finish \/ \E s \in Slots : Deliver(s))

Spec == Init /\ [][Next]_vars
FairSpec == Spec /\ Fairness

-----------------------------------------------------------------------------
(* Properties.                                                             *)

\* A delivery takes effect at most once, and so does a partner event however
\* often the partner sends it: with answers lost, requests given up and still
\* at work, a gateway killed anywhere, dead jobs retried, the queue restored
\* from a backup.
EffectsAtMostOnce ==
  /\ \A p \in Posts : effects[p] <= 1
  /\ \A e \in Events :
       Cardinality({p \in Posts : envelope[p].event = e /\ effects[p] > 0}) <= 1

\* Only what the CRM has recorded is closed, and in time pruned, at the gateway.
DoneMeansRecorded ==
  \A p \in Posts : job[p] \in {"done", "pruned"} => ledger[p] # "none"

\* The regular rotation "keeps the delivery of envelopes accepted before": a post
\* is given up as dead only when its revision was revoked, the endpoint was
\* stopped, or it came after the end of its key's grace period.
RotationKeepsAccepted ==
  \A p \in Posts : job[p] = "dead" =>
    stopped \/ validity[envelope[p].rev] = "revoked" \/ envelope[p].late

\* Every accepted post is confirmed by the CRM or left to an administrator: no
\* crash, lost answer or lock leaves it in the queue for ever.
EveryPostSettles ==
  \A p \in Posts : job[p] = "pending" ~> job[p] \notin {"pending", "sending"}
=============================================================================
