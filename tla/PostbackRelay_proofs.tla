------------------------ MODULE PostbackRelay_proofs -------------------------
(***************************************************************************)
(* Proofs about PostbackRelay, for any posts, events, open requests,       *)
(* versions of the endpoint, faults and queue limits.                      *)
(***************************************************************************)
EXTENDS PostbackRelay, TLAPS, FiniteSetTheorems

USE BoundAssumption, MaxJobsAssumption, NoneAssumption

\* Keys only move forward, and what is revoked belongs to an older key.
EndpointInv ==
  /\ \A r \in Revs : token[r] <= r
  /\ \A r \in Revs : r <= revision => token[r] <= token[revision]
  /\ \A r \in Revs : validity[r] = "revoked" => r <= revision /\ token[r] < token[revision]
  /\ ~active => stopped

\* A request at work has a post, and only what was accepted is requested and
\* recorded.
RequestInv ==
  /\ \A s \in Slots : req[s].phase # "answered" => Open(s)
  /\ \A s \in Slots : Open(s) => job[req[s].post] # "none"
  /\ \A p \in Posts : job[p] = "none" => ledger[p] = "none"

\* The ledger row and the effect come together, in one transaction at a time.
LedgerInv ==
  /\ \A p \in Posts : effects[p] <= 1 /\ (ledger[p] = "none" => effects[p] = 0)
  /\ \A s \in Slots : Holds(s) => ~Recorded(s)
  /\ \A s, u \in Slots : Holds(s) /\ Holds(u) /\ req[s].post = req[u].post => s = u

\* A transaction that is to commit an effect.
Performs(s) == req[s].phase = "commit" /\ req[s].result = "processed"

\* The same of a partner's event.
EventInv ==
  /\ \A p \in Posts : effects[p] > 0 /\ envelope[p].event # None => envelope[p].event \in applied
  /\ \A p, q \in Posts :
       /\ effects[p] > 0 /\ effects[q] > 0
       /\ envelope[p].event = envelope[q].event /\ envelope[p].event # None
       => p = q
  /\ \A s \in Slots : Performs(s) /\ EventOf(s) # None => EventOf(s) \notin applied
  /\ \A s, u \in Slots :
       Performs(s) /\ Performs(u) /\ EventOf(s) = EventOf(u) /\ EventOf(s) # None => s = u

\* What excuses a dead post.
Excused(p) == stopped \/ validity[envelope[p].rev] = "revoked" \/ envelope[p].late

\* An answer tells the truth, and so does the job it settles.
VerdictInv ==
  /\ \A s \in Slots : Open(s) /\ req[s].phase = "answered" =>
       /\ req[s].answer = "ok" => Recorded(s)
       /\ req[s].answer = "reject" => Excused(req[s].post)
  /\ \A p \in Posts : job[p] \in {"done", "pruned"} => ledger[p] # "none"
  /\ \A p \in Posts : job[p] = "dead" => Excused(p)

\* The type of an open request, by a name of its own.
RequestRecords == [post : Posts \cup {None}, phase : Phases, result : Results, answer : Answers]

\* The inductive invariant.
IInv == TypeOK /\ EndpointInv /\ RequestInv /\ LedgerInv /\ EventInv /\ VerdictInv

LEMMA InitIInv == Init => IInv
<1> SUFFICES ASSUME Init PROVE IInv
  OBVIOUS
<1>1. 1 \in Revs
  BY DEF Revs
<1>2. Free \in RequestRecords
  BY DEF Free, RequestRecords, Phases, Results, Answers
<1>3. TypeOK
  <2>1. /\ job \in [Posts -> JobStatuses] /\ ledger \in [Posts -> Results \cup {"none"}]
        /\ effects \in [Posts -> 0..2] /\ faults \in 0..MaxFaults
    BY DEF Init, JobStatuses
  <2>2. NoEnvelope \in [rev : Revs, late : BOOLEAN, event : Events \cup {None}]
    BY <1>1 DEF NoEnvelope
  <2>3. envelope \in [Posts -> [rev : Revs, late : BOOLEAN, event : Events \cup {None}]]
    BY <2>2 DEF Init
  <2>4. req \in [Slots -> RequestRecords]
    BY <1>2 DEF Init
  <2>5. token \in [Revs -> Revs] /\ validity \in [Revs -> Validities]
    BY <1>1 DEF Init, Validities
  <2>6. QED
    BY <1>1, <2>1, <2>3, <2>4, <2>5 DEF Init, TypeOK, RequestRecords
<1>4. EndpointInv
  BY <1>1 DEF Init, EndpointInv, Revs
<1>5. RequestInv /\ LedgerInv /\ EventInv /\ VerdictInv
  BY DEF Init, RequestInv, LedgerInv, EventInv, VerdictInv, Performs, Open, Holds, Free
<1>6. QED
  BY <1>3, <1>4, <1>5 DEF IInv

-----------------------------------------------------------------------------
(* What the helpers do to the requests and the jobs.                       *)

LEMMA AnsweredFacts ==
  ASSUME TypeOK, NEW s \in Slots, NEW a \in Answers, Answered(s, a)
  PROVE  /\ req' \in [Slots -> RequestRecords]
         /\ \A u \in Slots : u # s => req'[u] = req[u]
         /\ req'[s].phase = "answered"
         /\ req'[s].post # None => req'[s].post = req[s].post /\ req'[s].answer = a
<1>1. req \in [Slots -> RequestRecords]
  BY DEF TypeOK, RequestRecords
<1>2. Free \in RequestRecords /\ Free.phase = "answered" /\ Free.post = None
  BY DEF Free, RequestRecords, Phases, Results, Answers
<1> DEFINE answered == [req[s] EXCEPT !.phase = "answered", !.answer = a]
<1>3. /\ answered \in RequestRecords /\ answered.phase = "answered"
      /\ answered.post = req[s].post /\ answered.answer = a
  BY <1>1 DEF RequestRecords, Phases
<1>4. req' = [req EXCEPT ![s] = IF sender = s THEN answered ELSE Free]
  BY DEF Answered
<1> HIDE DEF answered
<1>5. QED
  BY <1>1, <1>2, <1>3, <1>4

LEMMA GoesFacts ==
  ASSUME TypeOK, NEW s \in Slots, NEW phase \in Phases, Goes(s, phase)
  PROVE  /\ req' \in [Slots -> RequestRecords]
         /\ \A u \in Slots : u # s => req'[u] = req[u]
         /\ req'[s].post = req[s].post /\ req'[s].phase = phase
         /\ req'[s].result = req[s].result
<1>1. req \in [Slots -> RequestRecords]
  BY DEF TypeOK, RequestRecords
<1>2. QED
  BY <1>1 DEF Goes, RequestRecords

LEMMA ReceivesFacts ==
  ASSUME TypeOK, NEW s \in Slots, NEW result \in Results, Receives(s, result)
  PROVE  /\ req' \in [Slots -> RequestRecords]
         /\ \A u \in Slots : u # s => req'[u] = req[u]
         /\ req'[s].post = req[s].post /\ req'[s].phase = "commit"
         /\ req'[s].result = result
<1>1. req \in [Slots -> RequestRecords]
  BY DEF TypeOK, RequestRecords
<1>2. QED
  BY <1>1 DEF Receives, RequestRecords, Phases

\* A settled request keeps nothing but what it was.
LEMMA FinishWithFacts ==
  ASSUME TypeOK, sender # None, NEW status \in JobStatuses, FinishWith(status)
  PROVE  /\ job' \in [Posts -> JobStatuses]
         /\ \A p \in Posts : job'[p] = IF p = req[sender].post THEN status ELSE job[p]
         /\ sender' = None
         /\ req' \in [Slots -> RequestRecords]
         /\ \A u \in Slots : req'[u] = req[u] \/ req'[u] = Free
<1>1. req \in [Slots -> RequestRecords] /\ sender \in Slots
  BY DEF TypeOK, RequestRecords
<1>2. Free \in RequestRecords
  BY DEF Free, RequestRecords, Phases, Results, Answers
<1>3. QED
  BY <1>1, <1>2 DEF FinishWith, SetJob, TypeOK

-----------------------------------------------------------------------------
(* The endpoint.                                                           *)

\* A change of the endpoint takes no excuse away.
LEMMA EndpointStep ==
  ASSUME IInv, TypeOK', EndpointInv',
         UNCHANGED <<gatewayVars, req, crmVars>>,
         stopped => stopped',
         \A r \in Revs : validity[r] = "revoked" => validity'[r] = "revoked"
  PROVE  IInv'
<1>1. UNCHANGED <<job, envelope, req, ledger, applied, effects>>
  BY DEF gatewayVars, crmVars
<1>2. RequestInv' /\ LedgerInv' /\ EventInv'
  BY <1>1 DEF IInv, RequestInv, LedgerInv, EventInv, Performs, Open, Holds, Recorded, EventOf
<1>3. \A p \in Posts : Excused(p) => Excused(p)'
  BY <1>1 DEF Excused, IInv, TypeOK
<1>4. VerdictInv'
  BY <1>1, <1>3 DEF VerdictInv, IInv, TypeOK, Open, Recorded
<1>5. QED
  BY <1>2, <1>4 DEF IInv

LEMMA EndpointFacts ==
  ASSUME IInv
  PROVE  /\ revision \in Revs /\ token \in [Revs -> Revs] /\ validity \in [Revs -> Validities]
         /\ \A r \in Revs : r \in Nat
         /\ \A r \in Revs : token[r] <= r
         /\ \A r \in Revs : r <= revision => token[r] <= token[revision]
         /\ \A r \in Revs : validity[r] = "revoked" => r <= revision /\ token[r] < token[revision]
         /\ ~active => stopped
  BY DEF IInv, TypeOK, EndpointInv, Revs

LEMMA NewRevisionFacts ==
  ASSUME IInv, NEW t, NEW old, NewRevision(t, old),
         t = token[revision] \/ t = token[revision] + 1,
         old \in [Revs -> Validities]
  PROVE  /\ revision' = revision + 1 /\ revision' \in Revs
         /\ token' \in [Revs -> Revs] /\ token'[revision'] = t
         /\ \A r \in Revs : r <= revision => token'[r] = token[r]
         /\ \A r \in Revs : token'[r] <= r
         /\ validity' \in [Revs -> Validities]
         /\ \A r \in Revs : r <= revision => validity'[r] = old[r]
         /\ \A r \in Revs : r > revision => validity'[r] # "revoked"
<1>1. /\ revision \in Revs /\ token \in [Revs -> Revs] /\ validity \in [Revs -> Validities]
      /\ \A r \in Revs : token[r] <= r
      /\ \A r \in Revs : validity[r] = "revoked" => r <= revision
  BY DEF IInv, TypeOK, EndpointInv
<1>2. revision' = revision + 1 /\ revision' \in Revs
  BY <1>1 DEF NewRevision, Revs
<1>3. t \in Revs /\ t <= revision'
  <2>1. token[revision] \in Revs /\ token[revision] <= revision
    BY <1>1, Zenon
  <2>2. \A u, n \in Nat : 1 <= u /\ u <= n /\ n + 1 <= MaxRevisions
          => u \in Revs /\ u + 1 \in Revs /\ u <= n + 1 /\ u + 1 <= n + 1
    BY BoundAssumption DEF Revs
  <2>3. /\ revision \in Nat /\ token[revision] \in Nat /\ 1 <= token[revision]
        /\ revision + 1 <= MaxRevisions
    BY <1>1, <1>2, <2>1, BoundAssumption DEF Revs
  <2>4. QED
    BY <1>2, <2>1, <2>2, <2>3
<1>4. token' = [token EXCEPT ![revision'] = t]
  BY <1>2 DEF NewRevision
<1>5. /\ token' \in [Revs -> Revs] /\ token'[revision'] = t
      /\ \A r \in Revs : r # revision' => token'[r] = token[r]
  BY <1>1, <1>2, <1>3, <1>4
<1>6. \A r \in Revs : r <= revision => r # revision'
  BY <1>1, <1>2 DEF Revs
<1>7. \A r \in Revs : token'[r] <= r
  BY <1>1, <1>3, <1>5
<1>8. validity' = [r \in Revs |-> IF r = revision + 1 THEN "valid"
                                  ELSE IF r <= revision THEN old[r] ELSE validity[r]]
  BY DEF NewRevision
<1>9. validity' \in [Revs -> Validities]
  BY <1>1, <1>8 DEF Validities
<1>10. \A r \in Revs : r <= revision => validity'[r] = old[r]
  BY <1>1, <1>2, <1>6, <1>8
<1>11. \A r \in Revs : r > revision => validity'[r] # "revoked"
  BY <1>1, <1>8 DEF Revs
<1>12. QED
  BY <1>2, <1>5, <1>6, <1>7, <1>9, <1>10, <1>11

LEMMA UpdateEndpointStep ==
  ASSUME IInv, NEW on \in BOOLEAN, UpdateEndpoint(on)
  PROVE  IInv'
<1>1. /\ revision \in Revs /\ token \in [Revs -> Revs] /\ validity \in [Revs -> Validities]
      /\ \A r \in Revs : r \in Nat
      /\ \A r \in Revs : r <= revision => token[r] <= token[revision]
      /\ \A r \in Revs : validity[r] = "revoked" => r <= revision /\ token[r] < token[revision]
  BY EndpointFacts
<1>2. NewRevision(token[revision], validity)
  BY DEF UpdateEndpoint
<1>3. /\ revision' = revision + 1 /\ revision' \in Revs
      /\ token' \in [Revs -> Revs] /\ token'[revision'] = token[revision]
      /\ \A r \in Revs : r <= revision => token'[r] = token[r]
      /\ \A r \in Revs : token'[r] <= r
      /\ validity' \in [Revs -> Validities]
      /\ \A r \in Revs : r <= revision => validity'[r] = validity[r]
      /\ \A r \in Revs : r > revision => validity'[r] # "revoked"
  BY <1>1, <1>2, NewRevisionFacts
<1>4. /\ active' \in BOOLEAN /\ stopped' \in BOOLEAN
      /\ stopped => stopped'
      /\ ~active' => stopped'
  BY DEF UpdateEndpoint, IInv, TypeOK
<1>5. UNCHANGED <<gatewayVars, req, crmVars, faults>>
  BY DEF UpdateEndpoint
<1>6. TypeOK'
  BY <1>3, <1>4, <1>5 DEF IInv, TypeOK, gatewayVars, crmVars
<1>7. \A r \in Revs : validity'[r] = "revoked" <=> validity[r] = "revoked"
  BY <1>1, <1>3
<1>8. EndpointInv'
  <2>1. \A r \in Revs : r <= revision' => token'[r] <= token'[revision']
    <3>1. \A r \in Revs : r <= revision' => r <= revision \/ r = revision'
      BY <1>1, <1>3
    <3>2. token'[revision'] \in Nat
      BY <1>1, <1>3
    <3>3. QED
      BY <1>1, <1>3, <3>1, <3>2
  <2>2. \A r \in Revs : validity'[r] = "revoked" => r <= revision' /\ token'[r] < token'[revision']
    BY <1>1, <1>3, <1>7
  <2>3. QED
    BY <1>3, <1>4, <2>1, <2>2 DEF EndpointInv
<1>9. QED
  BY <1>4, <1>5, <1>6, <1>7, <1>8, EndpointStep

LEMMA RotateSecretStep ==
  ASSUME IInv, NEW revokeOld \in BOOLEAN, RotateSecret(revokeOld)
  PROVE  IInv'
<1> DEFINE old == [r \in Revs |-> IF revokeOld THEN "revoked"
                      ELSE IF token[r] = token[revision] THEN "grace" ELSE validity[r]]
<1>1. /\ revision \in Revs /\ token \in [Revs -> Revs] /\ validity \in [Revs -> Validities]
      /\ \A r \in Revs : r \in Nat
      /\ \A r \in Revs : r <= revision => token[r] <= token[revision]
      /\ \A r \in Revs : validity[r] = "revoked" => r <= revision /\ token[r] < token[revision]
  BY EndpointFacts
<1>2. NewRevision(token[revision] + 1, old)
  BY DEF RotateSecret
<1>3. old \in [Revs -> Validities]
  BY <1>1 DEF Validities
<1>4. \A r \in Revs : validity[r] = "revoked" => old[r] = "revoked"
  BY <1>1 DEF IInv, EndpointInv, Revs
<1> HIDE DEF old
<1>5. /\ revision' = revision + 1 /\ revision' \in Revs
      /\ token' \in [Revs -> Revs] /\ token'[revision'] = token[revision] + 1
      /\ \A r \in Revs : r <= revision => token'[r] = token[r]
      /\ \A r \in Revs : token'[r] <= r
      /\ validity' \in [Revs -> Validities]
      /\ \A r \in Revs : r <= revision => validity'[r] = old[r]
      /\ \A r \in Revs : r > revision => validity'[r] # "revoked"
  BY <1>1, <1>2, <1>3, NewRevisionFacts
<1>6. UNCHANGED <<active, stopped, gatewayVars, req, crmVars, faults>>
  BY DEF RotateSecret
<1>7. TypeOK'
  BY <1>5, <1>6 DEF IInv, TypeOK, gatewayVars, crmVars
<1>8. \A r \in Revs : validity[r] = "revoked" => validity'[r] = "revoked"
  BY <1>1, <1>4, <1>5 DEF IInv, EndpointInv
<1>9. EndpointInv'
  <2>1. \A r \in Revs : r <= revision' => token'[r] <= token'[revision']
    <3>1. \A r \in Revs : r <= revision' => r <= revision \/ r = revision'
      BY <1>1, <1>5
    <3>2. \A r \in Revs : r <= revision => token[r] <= token[revision] + 1
      BY <1>1
    <3>3. token[revision] + 1 \in Nat
      BY <1>1
    <3>4. QED
      BY <1>5, <3>1, <3>2, <3>3
  <2>2. \A r \in Revs : validity'[r] = "revoked" => r <= revision' /\ token'[r] < token'[revision']
    <3>1. \A r \in Revs : r <= revision => token[r] \in Nat /\ token[r] < token[revision] + 1
      BY <1>1
    <3>2. \A r \in Revs : r <= revision \/ r > revision
      BY <1>1
    <3>3. QED
      BY <1>1, <1>5, <3>1, <3>2
  <2>3. QED
    BY <1>5, <1>6, <2>1, <2>2 DEF EndpointInv, IInv
<1>10. QED
  BY <1>6, <1>7, <1>8, <1>9, EndpointStep

LEMMA GraceEndsStep ==
  ASSUME IInv, NEW t \in Revs, GraceEnds(t)
  PROVE  IInv'
<1>1. validity \in [Revs -> Validities]
  BY DEF IInv, TypeOK
<1>2. /\ validity' \in [Revs -> Validities]
      /\ \A r \in Revs : validity'[r] = "revoked" <=> validity[r] = "revoked"
  BY <1>1 DEF GraceEnds, Validities
<1>3. UNCHANGED <<active, revision, token, stopped, gatewayVars, req, crmVars, faults>>
  BY DEF GraceEnds
<1>4. TypeOK' /\ EndpointInv'
  BY <1>2, <1>3 DEF IInv, TypeOK, EndpointInv, gatewayVars, crmVars
<1>5. QED
  BY <1>2, <1>3, <1>4, EndpointStep

LEMMA ArchiveEndpointStep ==
  ASSUME IInv, ArchiveEndpoint
  PROVE  IInv'
<1>1. /\ active' = FALSE /\ stopped' = TRUE
      /\ UNCHANGED <<revision, token, validity, gatewayVars, req, crmVars, faults>>
  BY DEF ArchiveEndpoint
<1>2. TypeOK' /\ EndpointInv'
  BY <1>1 DEF IInv, TypeOK, EndpointInv, gatewayVars, crmVars
<1>3. QED
  BY <1>1, <1>2, EndpointStep

-----------------------------------------------------------------------------
(* The gateway.                                                            *)

\* A step that settles jobs and lets go of requests, and closes a job or puts it
\* aside only with a reason.
LEMMA JobStep ==
  ASSUME IInv, TypeOK',
         UNCHANGED <<envelope, crmVars, endpointVars>>,
         \A u \in Slots : req'[u] = req[u] \/ req'[u] = Free,
         \A p \in Posts : job'[p] = "none" <=> job[p] = "none",
         \A p \in Posts : job'[p] \in {"done", "pruned"} => ledger[p] # "none",
         \A p \in Posts : job'[p] = "dead" => Excused(p)
  PROVE  IInv'
<1>1. UNCHANGED <<envelope, ledger, applied, effects, active, revision, token, validity, stopped>>
  BY DEF crmVars, endpointVars
<1>2. Free.post = None /\ Free.phase = "answered"
  BY DEF Free
<1>3. EndpointInv'
  BY <1>1 DEF IInv, EndpointInv
<1>4. RequestInv'
  <2>1. \A s \in Slots : req'[s].phase # "answered" => req'[s].post # None
    BY <1>2 DEF IInv, RequestInv, Open
  <2>2. \A s \in Slots : req'[s].post # None => req'[s] = req[s] /\ Open(s)
    BY <1>2 DEF Open
  <2>3. \A s \in Slots : req'[s].post # None => job'[req'[s].post] # "none"
    <3>1. \A s \in Slots : req[s].post \in Posts \cup {None}
      BY DEF IInv, TypeOK
    <3>2. QED
      BY <2>2, <3>1 DEF IInv, RequestInv, Open
  <2>4. \A p \in Posts : job'[p] = "none" => ledger'[p] = "none"
    BY <1>1 DEF IInv, RequestInv
  <2>5. QED
    BY <2>1, <2>3, <2>4 DEF RequestInv, Open
<1>5. LedgerInv'
  BY <1>1, <1>2 DEF IInv, LedgerInv, Holds, Recorded
<1>6. EventInv'
  BY <1>1, <1>2 DEF IInv, EventInv, Performs, EventOf
<1>7. \A p \in Posts : Excused(p)' <=> Excused(p)
  BY <1>1 DEF Excused
<1>8. VerdictInv'
  <2>1. \A s \in Slots : Open(s)' /\ req'[s].phase = "answered" =>
          /\ req'[s].answer = "ok" => Recorded(s)'
          /\ req'[s].answer = "reject" => Excused(req[s].post) /\ req'[s].post = req[s].post
                                          /\ req[s].post \in Posts
    BY <1>1, <1>2 DEF IInv, TypeOK, VerdictInv, Open, Recorded
  <2>2. QED
    BY <1>1, <1>7, <2>1 DEF VerdictInv
<1>9. QED
  BY <1>3, <1>4, <1>5, <1>6, <1>8 DEF IInv

LEMMA SyncStep ==
  ASSUME IInv, Sync
  PROVE  IInv'
<1>1. manifest' \subseteq Revs
  BY DEF Sync, ManifestEntries, IInv, TypeOK
<1>2. UNCHANGED <<job, envelope, sender, req, crmVars, endpointVars, faults>>
  BY DEF Sync
<1>3. TypeOK'
  BY <1>1, <1>2 DEF IInv, TypeOK, crmVars, endpointVars
<1>4. QED
  BY <1>2, <1>3, JobStep DEF IInv, VerdictInv

\* Prune and the administrator's retry.
LEMMA SetJobStep ==
  ASSUME IInv, NEW p \in Posts, Prune(p) \/ RetryDead(p)
  PROVE  IInv'
<1>1. /\ UNCHANGED <<envelope, manifest, sender, req, crmVars, endpointVars, faults>>
      /\ job \in [Posts -> JobStatuses]
  BY DEF Prune, RetryDead, IInv, TypeOK
<1>2. \/ job[p] = "done" /\ job' = [job EXCEPT ![p] = "pruned"]
      \/ job[p] = "dead" /\ job' = [job EXCEPT ![p] = "pending"]
  BY DEF Prune, RetryDead, SetJob
<1>3. TypeOK'
  BY <1>1, <1>2 DEF IInv, TypeOK, JobStatuses, crmVars, endpointVars
<1>4. \A q \in Posts : job'[q] = "none" <=> job[q] = "none"
  BY <1>1, <1>2
<1>5. \A q \in Posts : job'[q] \in {"done", "pruned"} => ledger[q] # "none"
  BY <1>1, <1>2 DEF IInv, VerdictInv
<1>6. \A q \in Posts : job'[q] = "dead" => Excused(q)
  BY <1>1, <1>2 DEF IInv, VerdictInv
<1>7. QED
  BY <1>1, <1>3, <1>4, <1>5, <1>6, JobStep

LEMMA RestoreStep ==
  ASSUME IInv, Restore
  PROVE  IInv'
<1>1. /\ UNCHANGED <<envelope, manifest, crmVars, endpointVars>>
      /\ sender' = None /\ faults' \in 0..MaxFaults
  BY DEF Restore, Fault, IInv, TypeOK
<1>2. /\ job' \in [Posts -> JobStatuses]
      /\ \A p \in Posts : job'[p] \in EarlierStates(p)
  BY DEF Restore
<1>3. \A p \in Posts : /\ job'[p] = "none" <=> job[p] = "none"
                       /\ job'[p] \in {job[p], "pending", "lost"}
  BY <1>2 DEF EarlierStates
<1>4. Free \in RequestRecords /\ req \in [Slots -> RequestRecords]
  BY DEF Free, RequestRecords, Phases, Results, Answers, IInv, TypeOK
<1>5. /\ req' \in [Slots -> RequestRecords]
      /\ \A u \in Slots : req'[u] = req[u] \/ req'[u] = Free
  BY <1>4 DEF Restore
<1>6. TypeOK'
  BY <1>1, <1>2, <1>5 DEF IInv, TypeOK, RequestRecords, crmVars, endpointVars
<1>7. \A p \in Posts : job'[p] \in {"done", "pruned"} => ledger[p] # "none"
  BY <1>3 DEF IInv, VerdictInv
<1>8. \A p \in Posts : job'[p] = "dead" => Excused(p)
  BY <1>3 DEF IInv, VerdictInv
<1>9. QED
  BY <1>1, <1>3, <1>5, <1>6, <1>7, <1>8, JobStep

\* The outcome of a request: an answer that is true, or another attempt.
LEMMA FinishWithStep ==
  ASSUME IInv, sender # None, NEW status \in {"done", "dead", "pending", "sending"},
         FinishWith(status),
         status = "done" => req[sender].phase = "answered" /\ req[sender].answer = "ok",
         status = "dead" => req[sender].phase = "answered" /\ req[sender].answer = "reject",
         UNCHANGED <<envelope, manifest, crmVars, endpointVars>>,
         faults' \in 0..MaxFaults
  PROVE  IInv'
<1>1. sender \in Slots /\ status \in JobStatuses /\ TypeOK
  BY DEF IInv, TypeOK, JobStatuses
<1>2. /\ job' \in [Posts -> JobStatuses]
      /\ \A p \in Posts : job'[p] = IF p = req[sender].post THEN status ELSE job[p]
      /\ sender' = None
      /\ req' \in [Slots -> RequestRecords]
      /\ \A u \in Slots : req'[u] = req[u] \/ req'[u] = Free
  BY <1>1, FinishWithFacts
<1>3. TypeOK'
  BY <1>2 DEF IInv, TypeOK, RequestRecords, crmVars, endpointVars
<1>4. \A p \in Posts : p = req[sender].post => Open(sender) /\ job[p] # "none"
  BY <1>1 DEF IInv, RequestInv, Open
<1>5. \A p \in Posts : job'[p] = "none" <=> job[p] = "none"
  BY <1>2, <1>4
<1>6. \A p \in Posts : job'[p] \in {"done", "pruned"} => ledger[p] # "none"
  <2>1. \A p \in Posts : p = req[sender].post /\ status = "done" => ledger[p] # "none"
    BY <1>1, <1>4 DEF IInv, VerdictInv, Recorded
  <2>2. QED
    BY <1>2, <2>1 DEF IInv, VerdictInv
<1>7. \A p \in Posts : job'[p] = "dead" => Excused(p)
  <2>1. \A p \in Posts : p = req[sender].post /\ status = "dead" => Excused(p)
    BY <1>1, <1>4 DEF IInv, VerdictInv
  <2>2. QED
    BY <1>2, <2>1 DEF IInv, VerdictInv
<1>8. QED
  BY <1>2, <1>3, <1>5, <1>6, <1>7, JobStep

LEMMA FinishStep ==
  ASSUME IInv, Finish
  PROVE  IInv'
<1> DEFINE a == req[sender].answer
<1>1. sender \in Slots /\ a \in Answers
  BY DEF Finish, IInv, TypeOK
<1>2. /\ StatusAfter(a) \in {"done", "dead", "pending", "sending"}
      /\ StatusAfter(a) = "done" => a = "ok"
      /\ StatusAfter(a) = "dead" => a = "reject"
  BY <1>1 DEF StatusAfter, Answers
<1>3. faults' \in 0..MaxFaults
  BY DEF Finish, IInv, TypeOK
<1>4. /\ sender # None /\ req[sender].phase = "answered" /\ FinishWith(StatusAfter(a))
      /\ UNCHANGED <<envelope, manifest, crmVars, endpointVars>>
  BY DEF Finish
<1> HIDE DEF a
<1>5. QED
  BY <1>2, <1>3, <1>4, FinishWithStep DEF a

\* A request given up, or left by a killed gateway.
LEMMA AbandonStep ==
  ASSUME IInv, GiveUp \/ LeaveSending
  PROVE  IInv'
<1>1. faults' \in 0..MaxFaults
  BY DEF GiveUp, LeaveSending, Fault, IInv, TypeOK
<1>2. /\ sender # None
      /\ UNCHANGED <<envelope, manifest, crmVars, endpointVars>>
  BY DEF GiveUp, LeaveSending
<1>3. CASE GiveUp
  <2>1. FinishWith("pending")
    BY <1>3 DEF GiveUp
  <2>2. QED
    BY <1>1, <1>2, <2>1, FinishWithStep
<1>4. CASE LeaveSending
  <2>1. FinishWith("sending")
    BY <1>4 DEF LeaveSending
  <2>2. QED
    BY <1>1, <1>2, <2>1, FinishWithStep
<1>5. QED
  BY <1>3, <1>4

\* A new post has no past: no effect, no row, no request.
LEMMA AcceptStep ==
  ASSUME IInv, NEW p \in Posts, NEW r \in manifest, NEW e \in Events \cup {None}, Accept(p, r, e)
  PROVE  IInv'
<1> DEFINE new == [rev |-> r, late |-> validity[r] = "ended", event |-> e]
<1>1. /\ r \in Revs /\ job \in [Posts -> JobStatuses]
      /\ envelope \in [Posts -> [rev : Revs, late : BOOLEAN, event : Events \cup {None}]]
  BY DEF IInv, TypeOK
<1>2. /\ job[p] = "none" /\ job' = [job EXCEPT ![p] = "pending"]
      /\ envelope' = [envelope EXCEPT ![p] = new]
      /\ UNCHANGED <<manifest, sender, req, crmVars, endpointVars, faults>>
  BY DEF Accept
<1>3. new \in [rev : Revs, late : BOOLEAN, event : Events \cup {None}]
  BY <1>1
<1> HIDE DEF new
<1>4. /\ job' \in [Posts -> JobStatuses] /\ "pending" \in JobStatuses
      /\ envelope' \in [Posts -> [rev : Revs, late : BOOLEAN, event : Events \cup {None}]]
  BY <1>1, <1>2, <1>3 DEF JobStatuses
<1>5. TypeOK'
  BY <1>2, <1>4 DEF IInv, TypeOK, crmVars, endpointVars
<1>6. UNCHANGED <<req, ledger, applied, effects, active, revision, token, validity, stopped>>
  BY <1>2 DEF crmVars, endpointVars
<1>7. /\ \A q \in Posts : q # p => job'[q] = job[q] /\ envelope'[q] = envelope[q]
      /\ job'[p] = "pending"
      /\ \A s \in Slots : req[s].post # p
      /\ ledger[p] = "none" /\ effects[p] = 0
  BY <1>1, <1>2, NoneAssumption DEF IInv, RequestInv, LedgerInv, Open
<1>8. EndpointInv'
  BY <1>6 DEF IInv, EndpointInv
<1>9. RequestInv'
  BY <1>6, <1>7 DEF IInv, TypeOK, RequestInv, Open
<1>10. LedgerInv'
  BY <1>6 DEF IInv, LedgerInv, Holds, Recorded
<1>11. EventInv'
  <2>1. \A s \in Slots : Performs(s) => req[s].post \in Posts /\ req[s].post # p
    BY <1>7 DEF IInv, TypeOK, RequestInv, Performs, Open
  <2>2. \A s \in Slots : Performs(s)' <=> Performs(s)
    BY <1>6 DEF Performs
  <2>3. \A s \in Slots : Performs(s) => EventOf(s)' = EventOf(s)
    BY <1>6, <1>7, <2>1 DEF EventOf
  <2>4. \A q \in Posts : effects[q] > 0 => q # p
    BY <1>7
  <2>5. QED
    BY <1>6, <1>7, <2>2, <2>3, <2>4 DEF IInv, EventInv
<1>12. VerdictInv'
  <2>1. \A q \in Posts : q # p => (Excused(q)' <=> Excused(q))
    BY <1>6, <1>7 DEF Excused
  <2>2. \A s \in Slots : Open(s) => req[s].post \in Posts /\ req[s].post # p
    BY <1>7 DEF IInv, TypeOK, Open
  <2>3. QED
    BY <1>6, <1>7, <2>1, <2>2 DEF IInv, VerdictInv, Open, Recorded
<1>13. QED
  BY <1>5, <1>8, <1>9, <1>10, <1>11, <1>12 DEF IInv

LEMMA ClaimStep ==
  ASSUME IInv, NEW p \in Posts, Claim(p)
  PROVE  IInv'
<1> DEFINE new == [Free EXCEPT !.post = p, !.phase = "ledger"]
<1>1. PICK s \in Slots : ~Open(s) /\ sender' = s /\ req' = [req EXCEPT ![s] = new]
  BY DEF Claim
<1>2. new \in RequestRecords /\ new.post = p /\ new.phase = "ledger"
  BY DEF Free, RequestRecords, Phases, Results, Answers
<1> HIDE DEF new
<1>3. req \in [Slots -> RequestRecords] /\ job \in [Posts -> JobStatuses]
  BY DEF IInv, TypeOK, RequestRecords
<1>4. /\ job[p] \in {"pending", "sending"} /\ job' = [job EXCEPT ![p] = "sending"]
      /\ UNCHANGED <<envelope, manifest, crmVars, endpointVars, faults>>
  BY DEF Claim, Claimable, SetJob
<1>5. UNCHANGED <<envelope, ledger, applied, effects, active, revision, token, validity, stopped>>
  BY <1>4 DEF crmVars, endpointVars
<1>6. /\ req' \in [Slots -> RequestRecords]
      /\ req'[s].post = p /\ req'[s].phase = "ledger"
      /\ \A u \in Slots : u # s => req'[u] = req[u]
  BY <1>1, <1>2, <1>3
<1>7. /\ job' \in [Posts -> JobStatuses]
      /\ \A q \in Posts : job'[q] = job[q] \/ (q = p /\ job'[q] = "sending")
      /\ job'[p] = "sending"
  BY <1>3, <1>4 DEF JobStatuses
<1>8. TypeOK'
  BY <1>1, <1>4, <1>6, <1>7 DEF IInv, TypeOK, RequestRecords, crmVars, endpointVars
<1>9. EndpointInv'
  BY <1>5 DEF IInv, EndpointInv
<1>10. RequestInv'
  <2>1. \A u \in Slots : Open(u) => req[u].post \in Posts /\ job[req[u].post] # "none"
    BY <1>3 DEF IInv, RequestInv, RequestRecords, Open
  <2>2. \A q \in Posts : job[q] # "none" => job'[q] # "none"
    BY <1>7
  <2>3. job[p] # "none"
    BY <1>4
  <2>4. QED
    BY <1>5, <1>6, <1>7, <2>1, <2>2, <2>3 DEF IInv, RequestInv, Open
<1>11. LedgerInv'
  BY <1>5, <1>6 DEF IInv, LedgerInv, Holds, Recorded
<1>12. EventInv'
  BY <1>5, <1>6 DEF IInv, EventInv, Performs, EventOf
<1>13. VerdictInv'
  <2>1. \A q \in Posts : Excused(q)' <=> Excused(q)
    BY <1>5 DEF Excused
  <2>2. \A u \in Slots : Open(u) => req[u].post \in Posts
    BY <1>3 DEF RequestRecords, Open
  <2>3. QED
    BY <1>5, <1>6, <1>7, <2>1, <2>2 DEF IInv, VerdictInv, Open, Recorded
<1>14. QED
  BY <1>8, <1>9, <1>10, <1>11, <1>12, <1>13 DEF IInv

-----------------------------------------------------------------------------
(* The transactions of the CRM.                                            *)

\* A request ends without a commit, with an answer that is true.
LEMMA AnswerStep ==
  ASSUME IInv, NEW s \in Slots, NEW a \in Answers, Open(s), Answered(s, a),
         a = "ok" => Recorded(s),
         a = "reject" => Excused(req[s].post),
         UNCHANGED <<gatewayVars, crmVars, endpointVars>>,
         faults' \in 0..MaxFaults
  PROVE  IInv'
<1>1. /\ req' \in [Slots -> RequestRecords]
      /\ \A u \in Slots : u # s => req'[u] = req[u]
      /\ req'[s].phase = "answered"
      /\ req'[s].post # None => req'[s].post = req[s].post /\ req'[s].answer = a
  BY AnsweredFacts DEF IInv
<1>2. UNCHANGED <<job, envelope, manifest, sender, ledger, applied, effects,
                  active, revision, token, validity, stopped>>
  BY DEF gatewayVars, crmVars, endpointVars
<1>3. TypeOK'
  BY <1>1, <1>2 DEF IInv, TypeOK, RequestRecords
<1>4. EndpointInv'
  BY <1>2 DEF IInv, EndpointInv
<1>5. RequestInv'
  BY <1>1, <1>2 DEF IInv, RequestInv, Open
<1>6. LedgerInv'
  BY <1>1, <1>2 DEF IInv, LedgerInv, Holds, Recorded
<1>7. EventInv'
  BY <1>1, <1>2 DEF IInv, EventInv, Performs, EventOf
<1>8. VerdictInv'
  <2>1. \A p \in Posts : Excused(p)' <=> Excused(p)
    BY <1>2 DEF Excused
  <2>2. \A u \in Slots : Open(u) => req[u].post \in Posts
    BY DEF IInv, TypeOK, Open
  <2>3. QED
    BY <1>1, <1>2, <2>1, <2>2 DEF IInv, VerdictInv, Open, Recorded
<1>9. QED
  BY <1>3, <1>4, <1>5, <1>6, <1>7, <1>8 DEF IInv

\* A request goes on; the insert of its row goes on only without a rival.
LEMMA GoesStep ==
  ASSUME IInv, NEW s \in Slots, NEW phase \in {"endpoint", "insert", "receive"},
         req[s].phase # "answered", Goes(s, phase),
         phase = "receive" => ~Recorded(s) /\ ~InsertWaits(s),
         UNCHANGED <<gatewayVars, crmVars, endpointVars, faults>>
  PROVE  IInv'
<1>1. phase \in Phases
  BY DEF Phases
<1>2. /\ req' \in [Slots -> RequestRecords]
      /\ \A u \in Slots : u # s => req'[u] = req[u]
      /\ req'[s].post = req[s].post /\ req'[s].phase = phase
  BY <1>1, GoesFacts DEF IInv
<1>3. UNCHANGED <<job, envelope, manifest, sender, ledger, applied, effects,
                  active, revision, token, validity, stopped>>
  BY DEF gatewayVars, crmVars, endpointVars
<1>4. TypeOK'
  BY <1>2, <1>3 DEF IInv, TypeOK, RequestRecords
<1>5. EndpointInv'
  BY <1>3 DEF IInv, EndpointInv
<1>6. RequestInv'
  BY <1>2, <1>3 DEF IInv, RequestInv, Open
<1>7. LedgerInv'
  BY <1>2, <1>3 DEF IInv, LedgerInv, Holds, Recorded, InsertWaits
<1>8. EventInv'
  BY <1>2, <1>3 DEF IInv, EventInv, Performs, EventOf
<1>9. VerdictInv'
  <2>1. \A p \in Posts : Excused(p)' <=> Excused(p)
    BY <1>3 DEF Excused
  <2>2. \A u \in Slots : Open(u) => req[u].post \in Posts
    BY DEF IInv, TypeOK, Open
  <2>3. QED
    BY <1>2, <1>3, <2>1, <2>2 DEF IInv, VerdictInv, Open, Recorded
<1>10. QED
  BY <1>4, <1>5, <1>6, <1>7, <1>8, <1>9 DEF IInv

LEMMA ReadLedgerStep ==
  ASSUME IInv, NEW s \in Slots, ReadLedger(s)
  PROVE  IInv'
<1>1. /\ req[s].phase = "ledger" /\ Open(s) /\ faults' \in 0..MaxFaults
      /\ UNCHANGED <<gatewayVars, crmVars, endpointVars, faults>>
  BY DEF ReadLedger, IInv, TypeOK, RequestInv
<1>2. CASE Recorded(s)
  BY <1>1, <1>2, AnswerStep DEF ReadLedger, Answers
<1>3. CASE ~Recorded(s)
  BY <1>1, <1>3, GoesStep DEF ReadLedger
<1>4. QED
  BY <1>2, <1>3

LEMMA ReadEndpointStep ==
  ASSUME IInv, NEW s \in Slots, ReadEndpoint(s)
  PROVE  IInv'
<1> DEFINE p == req[s].post
<1>1. /\ req[s].phase = "endpoint" /\ Open(s) /\ faults' \in 0..MaxFaults
      /\ UNCHANGED <<gatewayVars, crmVars, endpointVars, faults>>
  BY DEF ReadEndpoint, IInv, TypeOK, RequestInv
<1>2. CASE Rejects(envelope[p])
  <2>1. Excused(p)
    BY <1>2 DEF Rejects, Excused, IInv, EndpointInv
  <2>2. Answered(s, "reject")
    BY <1>2 DEF ReadEndpoint
  <2>3. QED
    BY <1>1, <2>1, <2>2, AnswerStep DEF Answers
<1>3. CASE ~Rejects(envelope[p])
  BY <1>1, <1>3, GoesStep DEF ReadEndpoint
<1>4. QED
  BY <1>2, <1>3

LEMMA InsertDeliveryStep ==
  ASSUME IInv, NEW s \in Slots, InsertDelivery(s)
  PROVE  IInv'
<1>1. /\ req[s].phase = "insert" /\ Open(s) /\ ~InsertWaits(s) /\ faults' \in 0..MaxFaults
      /\ UNCHANGED <<gatewayVars, crmVars, endpointVars, faults>>
  BY DEF InsertDelivery, IInv, TypeOK, RequestInv
<1>2. CASE Recorded(s)
  BY <1>1, <1>2, AnswerStep DEF InsertDelivery, Answers
<1>3. CASE ~Recorded(s)
  BY <1>1, <1>3, GoesStep DEF InsertDelivery
<1>4. QED
  BY <1>2, <1>3

LEMMA FailDeliveryStep ==
  ASSUME IInv, NEW s \in Slots, FailDelivery(s)
  PROVE  IInv'
<1>1. faults' \in 0..MaxFaults
  BY DEF FailDelivery, Fault, IInv, TypeOK
<1>2. QED
  BY <1>1, AnswerStep DEF FailDelivery, Answers

LEMMA ReceivePostStep ==
  ASSUME IInv, NEW s \in Slots, ReceivePost(s)
  PROVE  IInv'
<1>1. req[s].phase = "receive" /\ Holds(s) /\ Open(s)
  BY DEF ReceivePost, Holds, IInv, RequestInv
<1>2. UNCHANGED <<job, envelope, manifest, sender, ledger, applied, effects,
                  active, revision, token, validity, stopped, faults>>
  BY DEF ReceivePost, gatewayVars, crmVars, endpointVars
<1>3. PICK result \in Results :
        /\ Receives(s, result)
        /\ result = "processed" /\ EventOf(s) # None =>
             ~EventBusy(EventOf(s)) /\ EventOf(s) \notin applied
  BY DEF ReceivePost, Results
<1>4. /\ req' \in [Slots -> RequestRecords]
      /\ \A u \in Slots : u # s => req'[u] = req[u]
      /\ req'[s].post = req[s].post /\ req'[s].phase = "commit" /\ req'[s].result = result
  BY <1>3, ReceivesFacts DEF IInv
<1>5. TypeOK'
  BY <1>2, <1>4 DEF IInv, TypeOK, RequestRecords
<1>6. EndpointInv'
  BY <1>2 DEF IInv, EndpointInv
<1>7. RequestInv'
  BY <1>1, <1>2, <1>4 DEF IInv, RequestInv, Open
<1>8. LedgerInv'
  BY <1>1, <1>2, <1>4 DEF IInv, LedgerInv, Holds, Recorded
<1>9. EventInv'
  <2>1. \A u \in Slots : EventOf(u)' = EventOf(u)
    BY <1>2, <1>4 DEF EventOf
  <2>2. \A u \in Slots : u # s => (Performs(u)' <=> Performs(u))
    BY <1>4 DEF Performs
  <2>3. Performs(s)' /\ EventOf(s) # None =>
          /\ EventOf(s) \notin applied
          /\ \A u \in Slots : u # s /\ Performs(u) => EventOf(u) # EventOf(s)
    BY <1>3, <1>4 DEF Performs, EventBusy
  <2>4. QED
    BY <1>2, <2>1, <2>2, <2>3 DEF IInv, EventInv
<1>10. VerdictInv'
  <2>1. \A p \in Posts : Excused(p)' <=> Excused(p)
    BY <1>2 DEF Excused
  <2>2. \A u \in Slots : Open(u) => req[u].post \in Posts
    BY DEF IInv, TypeOK, Open
  <2>3. QED
    BY <1>2, <1>4, <2>1, <2>2 DEF IInv, VerdictInv, Open, Recorded
<1>11. QED
  BY <1>5, <1>6, <1>7, <1>8, <1>9, <1>10 DEF IInv

LEMMA CommitDeliveryStep ==
  ASSUME IInv, NEW s \in Slots, CommitDelivery(s)
  PROVE  IInv'
<1> DEFINE p == req[s].post
           e == EventOf(s)
<1>1. /\ req[s].phase = "commit" /\ Holds(s) /\ Open(s) /\ p \in Posts
      /\ req[s].result \in Results /\ req[s].result # "none"
      /\ job[p] # "none" /\ ledger[p] = "none" /\ effects[p] = 0
      /\ e \in Events \cup {None} /\ e = envelope[p].event
  <2>1. req[s].phase = "commit" /\ Holds(s) /\ Open(s) /\ p \in Posts
    BY DEF CommitDelivery, Holds, IInv, TypeOK, RequestInv, Open
  <2>2. req[s].result \in Results /\ req[s].result # "none"
    BY DEF IInv, TypeOK, Results
  <2>3. job[p] # "none" /\ ledger[p] = "none" /\ effects[p] = 0
    BY <2>1 DEF IInv, RequestInv, LedgerInv, Recorded
  <2>4. e \in Events \cup {None} /\ e = envelope[p].event
    BY <2>1 DEF EventOf, IInv, TypeOK
  <2>5. QED
    BY <2>1, <2>2, <2>3, <2>4
<1>2. UNCHANGED <<job, envelope, manifest, sender, active, revision, token,
                  validity, stopped>>
  BY DEF CommitDelivery, gatewayVars, endpointVars
<1>3. faults' \in 0..MaxFaults
  BY DEF CommitDelivery, Fault, IInv, TypeOK
<1>4. PICK a \in {"ok", "retry"} : Answered(s, a)
  BY DEF CommitDelivery
<1>5. /\ req' \in [Slots -> RequestRecords]
      /\ \A u \in Slots : u # s => req'[u] = req[u]
      /\ req'[s].phase = "answered"
      /\ req'[s].post # None => req'[s].post = p /\ req'[s].answer = a
  BY <1>4, AnsweredFacts DEF IInv, Answers
<1>6. /\ ledger' \in [Posts -> Results \cup {"none"}] /\ ledger'[p] = req[s].result
      /\ \A q \in Posts : q # p => ledger'[q] = ledger[q]
  BY <1>1 DEF CommitDelivery, IInv, TypeOK
<1>7. effects' \in [Posts -> 0..2]
  BY <1>1 DEF CommitDelivery, IInv, TypeOK
<1>8. /\ \A q \in Posts : q # p => effects'[q] = effects[q]
      /\ effects'[p] = IF Performs(s) THEN 1 ELSE 0
  BY <1>1 DEF CommitDelivery, IInv, TypeOK, Performs
<1>9. applied' = IF Performs(s) THEN applied \cup ({e} \ {None}) ELSE applied
  BY <1>1 DEF CommitDelivery, Performs
<1> HIDE DEF p, e
<1>10. TypeOK'
  BY <1>1, <1>2, <1>3, <1>5, <1>6, <1>7, <1>9 DEF IInv, TypeOK, RequestRecords
<1>11. EndpointInv'
  BY <1>2 DEF IInv, EndpointInv
<1>12. RequestInv'
  <2>1. \A u \in Slots : Open(u)' => Open(u) /\ req'[u].post = req[u].post
    BY <1>1, <1>5 DEF Open, p
  <2>2. QED
    BY <1>1, <1>2, <1>5, <1>6, <2>1 DEF IInv, RequestInv, Open
<1>13. LedgerInv'
  <2>1. \A u \in Slots : Holds(u)' => u # s /\ Holds(u) /\ req'[u] = req[u]
    BY <1>5 DEF Holds
  <2>2. \A u \in Slots : Holds(u)' => req[u].post \in Posts /\ req[u].post # p
    BY <1>1, <2>1 DEF IInv, TypeOK, RequestInv, LedgerInv, Holds, Open, p
  <2>3. \A q \in Posts : effects'[q] <= 1 /\ (ledger'[q] = "none" => effects'[q] = 0)
    BY <1>1, <1>6, <1>8 DEF IInv, LedgerInv
  <2>4. \A u \in Slots : Holds(u)' => ~Recorded(u)'
    BY <1>6, <2>1, <2>2 DEF IInv, LedgerInv, Recorded
  <2>5. QED
    BY <2>1, <2>3, <2>4 DEF IInv, LedgerInv
<1>14. EventInv'
  <2>1. \A u \in Slots : Performs(u)' => u # s /\ Performs(u) /\ EventOf(u)' = EventOf(u)
    BY <1>2, <1>5 DEF Performs, EventOf
  <2>2. CASE Performs(s) /\ e # None
    <3>1. e \notin applied /\ applied' = applied \cup {e}
      BY <1>9, <2>2 DEF IInv, EventInv, e
    <3>2. \A q \in Posts : effects[q] > 0 => envelope[q].event # e
      BY <2>2, <3>1 DEF IInv, EventInv
    <3>3. \A u \in Slots : Performs(u)' /\ EventOf(u) # None => EventOf(u) # e
      BY <2>1, <2>2 DEF IInv, EventInv, e
    <3>4. \A q \in Posts : effects'[q] > 0 => q = p \/ effects[q] > 0
      BY <1>8
    <3>5. \A q \in Posts : effects'[q] > 0 /\ envelope[q].event # None =>
             envelope[q].event \in applied'
      BY <1>1, <3>1, <3>4 DEF IInv, EventInv
    <3>6. \A q, r \in Posts :
            /\ effects'[q] > 0 /\ effects'[r] > 0
            /\ envelope[q].event = envelope[r].event /\ envelope[q].event # None
            => q = r
      BY <1>1, <3>2, <3>4 DEF IInv, EventInv
    <3>7. QED
      BY <1>2, <2>1, <3>1, <3>3, <3>5, <3>6 DEF IInv, EventInv
  <2>3. CASE ~(Performs(s) /\ e # None)
    <3>1. applied' = applied
      BY <1>9, <2>3
    <3>2. \A q \in Posts : effects'[q] > 0 /\ envelope[q].event # None => effects[q] > 0
      BY <1>1, <1>8, <2>3
    <3>3. QED
      BY <1>2, <2>1, <3>1, <3>2 DEF IInv, EventInv
  <2>4. QED
    BY <2>2, <2>3
<1>15. VerdictInv'
  <2>1. \A q \in Posts : Excused(q)' <=> Excused(q)
    BY <1>2 DEF Excused
  <2>2. \A q \in Posts : ledger[q] # "none" => ledger'[q] # "none"
    BY <1>1, <1>6
  <2>3. \A u \in Slots : Open(u) => req[u].post \in Posts
    BY DEF IInv, TypeOK, Open
  <2>4. \A u \in Slots : Open(u)' /\ req'[u].phase = "answered" =>
          /\ req'[u].answer = "ok" => Recorded(u)'
          /\ req'[u].answer = "reject" => Excused(req[u].post)'
    <3>1. Open(s)' => req'[s].answer # "reject" /\ Recorded(s)'
      BY <1>1, <1>5, <1>6 DEF Open, Recorded
    <3>2. ASSUME NEW u \in Slots, u # s, Open(u)', req'[u].phase = "answered"
          PROVE  /\ req'[u].answer = "ok" => Recorded(u)'
                 /\ req'[u].answer = "reject" => Excused(req[u].post)'
      <4>1. req'[u] = req[u] /\ req[u].post \in Posts /\ Open(u)
        BY <1>5, <2>3, <3>2 DEF Open
      <4>2. /\ req[u].answer = "ok" => ledger[req[u].post] # "none"
            /\ req[u].answer = "reject" => Excused(req[u].post)
        BY <3>2, <4>1 DEF IInv, VerdictInv, Recorded
      <4>3. req'[u].answer = "ok" => Recorded(u)'
        BY <2>2, <4>1, <4>2 DEF Recorded
      <4>4. Excused(req[u].post) <=> Excused(req[u].post)'
        BY <1>2, <4>1 DEF Excused
      <4>5. QED
        BY <4>1, <4>2, <4>3, <4>4 DEF Excused
    <3>3. QED
      BY <1>5, <3>1, <3>2
  <2>5. \A q \in Posts : job'[q] \in {"done", "pruned"} => ledger'[q] # "none"
    BY <1>2, <2>2 DEF IInv, VerdictInv
  <2>6. \A q \in Posts : job'[q] = "dead" => Excused(q)'
    BY <1>2, <2>1 DEF IInv, VerdictInv
  <2>7. QED
    BY <2>4, <2>5, <2>6 DEF VerdictInv
<1>16. QED
  BY <1>10, <1>11, <1>12, <1>13, <1>14, <1>15 DEF IInv

-----------------------------------------------------------------------------
(* The theorems.                                                           *)

LEMMA StutterIInv == IInv /\ UNCHANGED vars => IInv'
<1> SUFFICES ASSUME IInv, UNCHANGED vars PROVE IInv'
  OBVIOUS
<1>1. /\ UNCHANGED <<gatewayVars, req, crmVars, endpointVars, faults>>
      /\ UNCHANGED <<envelope, job, req>>
  BY DEF vars, gatewayVars
<1>2. TypeOK'
  BY <1>1 DEF IInv, TypeOK, gatewayVars, crmVars, endpointVars
<1>3. QED
  BY <1>1, <1>2, JobStep DEF IInv, VerdictInv

LEMMA NextIInv == IInv /\ [Next]_vars => IInv'
<1> SUFFICES ASSUME IInv, Next PROVE IInv'
  BY StutterIInv
<1>1. ASSUME NEW on \in BOOLEAN, UpdateEndpoint(on) \/ RotateSecret(on) PROVE IInv'
  BY <1>1, UpdateEndpointStep, RotateSecretStep
<1>2. ASSUME NEW t \in Revs, GraceEnds(t) PROVE IInv'
  BY <1>2, GraceEndsStep
<1>3. CASE ArchiveEndpoint
  BY <1>3, ArchiveEndpointStep
<1>4. CASE Sync \/ Restore
  BY <1>4, SyncStep, RestoreStep
<1>5. CASE Finish \/ GiveUp \/ LeaveSending
  BY <1>5, FinishStep, AbandonStep
<1>6. ASSUME NEW p \in Posts, Claim(p) \/ Prune(p) \/ RetryDead(p) PROVE IInv'
  BY <1>6, ClaimStep, SetJobStep
<1>7. ASSUME NEW p \in Posts, NEW r \in manifest, NEW e \in Events \cup {None}, Accept(p, r, e)
      PROVE  IInv'
  BY <1>7, AcceptStep
<1>8. ASSUME NEW s \in Slots, Deliver(s) PROVE IInv'
  BY <1>8, ReadLedgerStep, ReadEndpointStep, InsertDeliveryStep, ReceivePostStep,
     CommitDeliveryStep DEF Deliver
<1>9. ASSUME NEW s \in Slots, FailDelivery(s) PROVE IInv'
  BY <1>9, FailDeliveryStep
<1>10. QED
  BY <1>1, <1>2, <1>3, <1>4, <1>5, <1>6, <1>7, <1>8, <1>9 DEF Next, Owner, Gateway

\* The inductive invariant holds in every state.
THEOREM SpecIInv == Spec => []IInv
  BY InitIInv, NextIInv, PTL DEF Spec

\* Type correctness, for every number of posts, requests, versions and faults.
THEOREM SpecTypeOK == Spec => []TypeOK
<1>1. IInv => TypeOK
  BY DEF IInv
<1>2. QED
  BY <1>1, SpecIInv, PTL

\* A set whose elements are all the same has at most one.
LEMMA AtMostOneElement ==
  ASSUME NEW S, \A x, y \in S : x = y
  PROVE  Cardinality(S) <= 1
<1>1. CASE S = {}
  BY <1>1, FS_EmptySet
<1>2. CASE S # {}
  <2>1. PICK x : x \in S
    BY <1>2
  <2>2. S = {x}
    BY <2>1
  <2>3. QED
    <3>1. Cardinality({x}) = 1
      BY FS_Singleton
    <3>2. QED
      BY <2>2, <3>1
<1>3. QED
  BY <1>1, <1>2

\* No delivery and no partner event takes effect twice, however many requests,
\* retries, repetitions and failures there are: the ledger row is inserted in the
\* transaction that performs, and the event's lock is held until its commit.
THEOREM SpecEffectsAtMostOnce == Spec => []EffectsAtMostOnce
<1>1. IInv => EffectsAtMostOnce
  <2> SUFFICES ASSUME IInv PROVE EffectsAtMostOnce
    OBVIOUS
  <2>1. \A p \in Posts : effects[p] <= 1
    BY DEF IInv, LedgerInv
  <2>2. ASSUME NEW e \in Events
        PROVE  Cardinality({p \in Posts : envelope[p].event = e /\ effects[p] > 0}) <= 1
    <3>1. e # None
      BY NoneAssumption
    <3>2. \A p, q \in {r \in Posts : envelope[r].event = e /\ effects[r] > 0} : p = q
      BY <3>1 DEF IInv, EventInv
    <3>3. QED
      BY <3>2, AtMostOneElement
  <2>3. QED
    BY <2>1, <2>2 DEF EffectsAtMostOnce
<1>2. QED
  BY <1>1, SpecIInv, PTL

\* The gateway closes and prunes only what the CRM has recorded.
THEOREM SpecDoneMeansRecorded == Spec => []DoneMeansRecorded
<1>1. IInv => DoneMeansRecorded
  BY DEF IInv, VerdictInv, DoneMeansRecorded
<1>2. QED
  BY <1>1, SpecIInv, PTL

\* A regular rotation of the partner's key kills no accepted post, for any number of
\* rotations and however old the gateway's manifest is.
THEOREM SpecRotationKeepsAccepted == Spec => []RotationKeepsAccepted
<1>1. IInv => RotationKeepsAccepted
  BY DEF IInv, VerdictInv, RotationKeepsAccepted, Excused
<1>2. QED
  BY <1>1, SpecIInv, PTL
=============================================================================
