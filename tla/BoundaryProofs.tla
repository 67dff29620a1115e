--------------------------- MODULE BoundaryProofs ---------------------------
(***************************************************************************)
(* Proofs about the execution boundary called directly, whoever holds the  *)
(* secret and whatever is kept, altered, presented again and put into      *)
(* force, for every set of configurations and inputs.                      *)
(***************************************************************************)
EXTENDS Boundary, SequenceTheorems, TLAPS

-----------------------------------------------------------------------------
(***************************************************************************)
(* What any execution does to a state, whichever branch it takes.          *)
(***************************************************************************)
Fields == {"policy_version", "sequence", "invoices", "threads", "drafts", "approvals",
           "submissions", "slack_posts", "consumed_nonces", "counters",
           "previous_receipt_hash"}

DraftFields == {"thread_id", "invoice_id", "customer_id", "body", "body_label",
                "created_by", "draft_hash", "deliveries"}

\* What a draft is stored under commits to.
Authored(d) ==
  [thread_id |-> d.thread_id, invoice_id |-> d.invoice_id,
   customer_id |-> d.customer_id, body |-> d.body,
   body_label |-> d.body_label, created_by |-> d.created_by]

\* Every draft is a draft, under the hash of its content and author.
DraftsFiled(s) ==
  \A h \in DOMAIN s.drafts : /\ DOMAIN s.drafts[h] = DraftFields
                             /\ h = DraftHash(Authored(s.drafts[h]))

\* No draft is lost or made another's, no approval is withdrawn.
Keeps(s, t) ==
  /\ DOMAIN s.drafts \subseteq DOMAIN t.drafts
  /\ \A h \in DOMAIN s.drafts :
       /\ t.drafts[h].created_by = s.drafts[h].created_by
       /\ t.drafts[h].customer_id = s.drafts[h].customer_id
  /\ DOMAIN s.approvals \subseteq DOMAIN t.approvals

\* Marking a delivery leaves the rest of a draft as it was.
LEMMA MarkedDraft ==
  ASSUME NEW d, DOMAIN d = DraftFields, NEW x
  PROVE  /\ DOMAIN Submitted(d, x) = DraftFields
         /\ Authored(Submitted(d, x)) = Authored(d)
         /\ DOMAIN Posted(d, x) = DraftFields
         /\ Authored(Posted(d, x)) = Authored(d)
  BY DEF Submitted, Posted, Authored, DraftFields

\* The hash of a draft tells its author and its customer.
LEMMA HashTells ==
  ASSUME NEW d, NEW e, DraftHash(Authored(d)) = DraftHash(Authored(e))
  PROVE  d.created_by = e.created_by /\ d.customer_id = e.customer_id
<1>1. Authored(d) = Authored(e)
  BY DEF DraftHash, TaggedDigest
<1> DEFINE A == Authored(d)
           B == Authored(e)
<1>2. A.created_by = d.created_by /\ A.customer_id = d.customer_id
  BY DEF Authored
<1>3. B.created_by = e.created_by /\ B.customer_id = e.customer_id
  BY DEF Authored
<1> QED
  BY <1>1, <1>2, <1>3

\* Storing a draft under its own hash keeps every draft, also when the hash was
\* taken.
LEMMA FiledAgain ==
  ASSUME NEW s, NEW t, DraftsFiled(s), NEW d, DOMAIN d = DraftFields,
         NEW h, h = DraftHash(Authored(d)),
         t.drafts = RecSet(s.drafts, h, d), t.approvals = s.approvals
  PROVE  DraftsFiled(t) /\ Keeps(s, t)
<1>1. /\ DOMAIN t.drafts = DOMAIN s.drafts \cup {h}
      /\ t.drafts[h] = d
      /\ \A g \in DOMAIN s.drafts \ {h} : t.drafts[g] = s.drafts[g]
  BY DEF RecSet
<1>2. DraftsFiled(t)
  BY <1>1 DEF DraftsFiled
<1>3. ASSUME NEW g \in DOMAIN s.drafts
      PROVE  /\ t.drafts[g].created_by = s.drafts[g].created_by
             /\ t.drafts[g].customer_id = s.drafts[g].customer_id
  <2>1. CASE g = h
    <3>1. DraftHash(Authored(s.drafts[g])) = DraftHash(Authored(d))
      BY <2>1 DEF DraftsFiled
    <3> QED
      BY <1>1, <2>1, <3>1, HashTells
  <2>2. CASE g # h
    BY <1>1, <2>2
  <2> QED
    BY <2>1, <2>2
<1> QED
  BY <1>1, <1>2, <1>3 DEF Keeps

\* An execution consumes the nonce of its action, moves the sequence, and keeps
\* what was decided before it.
ActsOn(s, t, a) ==
  /\ DOMAIN t = Fields
  /\ DraftsFiled(t)
  /\ Keeps(s, t)
  /\ t.consumed_nonces = s.consumed_nonces \cup {a.nonce}

\* So does each branch of the executor: read_invoice,
LEMMA ReadFollows ==
  ASSUME NEW s, DOMAIN s = Fields, DraftsFiled(s), NEW a
  PROVE  ActsOn(s, AfterReadInvoice(s, a), a)
<1> DEFINE t == AfterReadInvoice(s, a)
<1>1. /\ DOMAIN t = Fields
      /\ t.consumed_nonces = s.consumed_nonces \cup {a.nonce}
      /\ t.drafts = s.drafts /\ t.approvals = s.approvals
  BY DEF AfterReadInvoice, ConsumeNonce, Fields
<1> HIDE DEF t
<1>2. DraftsFiled(t) /\ Keeps(s, t)
  BY <1>1 DEF DraftsFiled, Keeps
<1> QED
  BY <1>1, <1>2 DEF ActsOn, t

\* create_draft,
LEMMA CreateFollows ==
  ASSUME NEW s, DOMAIN s = Fields, DraftsFiled(s), NEW a, NEW actor
  PROVE  ActsOn(s, AfterCreateDraft(s, a, actor), a)
<1> DEFINE t == AfterCreateDraft(s, a, actor)
           d == NewDraft(a, actor)
<1>1. /\ DOMAIN t = Fields
      /\ t.consumed_nonces = s.consumed_nonces \cup {a.nonce}
      /\ t.drafts = RecSet(s.drafts, d.draft_hash, d)
      /\ t.approvals = s.approvals
  BY DEF AfterCreateDraft, Step, ConsumeNonce, Fields
<1>2. /\ DOMAIN d = DraftFields
      /\ d.draft_hash = DraftHash(Authored(d))
  BY DEF NewDraft, DraftContent, Authored, DraftFields
<1> HIDE DEF t, d
<1>3. DraftsFiled(t) /\ Keeps(s, t)
  BY <1>1, <1>2, FiledAgain
<1> QED
  BY <1>1, <1>3 DEF ActsOn, t

\* approve_draft,
LEMMA ApproveFollows ==
  ASSUME NEW s, DOMAIN s = Fields, DraftsFiled(s), NEW a, NEW actor
  PROVE  /\ ActsOn(s, AfterApproveDraft(s, a, actor), a)
<1> DEFINE t == AfterApproveDraft(s, a, actor)
<1>1. /\ DOMAIN t = Fields
      /\ t.consumed_nonces = s.consumed_nonces \cup {a.nonce}
      /\ t.drafts = s.drafts
      /\ t.approvals = RecSet(s.approvals, a.draft_hash, Approval(s, a, actor))
  BY DEF AfterApproveDraft, Step, ConsumeNonce, Fields
<1> HIDE DEF t
<1>2. DOMAIN t.approvals = DOMAIN s.approvals \cup {a.draft_hash}
  BY <1>1 DEF RecSet
<1>3. DraftsFiled(t) /\ Keeps(s, t)
  BY <1>1, <1>2 DEF DraftsFiled, Keeps
<1> QED
  BY <1>1, <1>3 DEF ActsOn, t

\* submit_draft,
LEMMA SubmitFollows ==
  ASSUME NEW s, DOMAIN s = Fields, DraftsFiled(s), NEW a,
         a.draft_hash \in DOMAIN s.drafts
  PROVE  ActsOn(s, AfterSubmitDraft(s, a), a)
<1> DEFINE t == AfterSubmitDraft(s, a)
           d == Submitted(s.drafts[a.draft_hash], a.recipient)
<1>1. /\ DOMAIN t = Fields
      /\ t.consumed_nonces = s.consumed_nonces \cup {a.nonce}
      /\ t.drafts = RecSet(s.drafts, a.draft_hash, d)
      /\ t.approvals = s.approvals
  BY DEF AfterSubmitDraft, Step, ConsumeNonce, Fields
<1>2. /\ DOMAIN s.drafts[a.draft_hash] = DraftFields
      /\ a.draft_hash = DraftHash(Authored(s.drafts[a.draft_hash]))
  BY DEF DraftsFiled
<1>3. DOMAIN d = DraftFields /\ a.draft_hash = DraftHash(Authored(d))
  BY <1>2, MarkedDraft
<1> HIDE DEF t, d
<1>4. DraftsFiled(t) /\ Keeps(s, t)
  BY <1>1, <1>3, FiledAgain
<1> QED
  BY <1>1, <1>4 DEF ActsOn, t

\* and post_to_slack.
LEMMA PostFollows ==
  ASSUME NEW s, DOMAIN s = Fields, DraftsFiled(s), NEW a,
         a.draft_hash \in DOMAIN s.drafts
  PROVE  ActsOn(s, AfterPostToSlack(s, a), a)
<1> DEFINE t == AfterPostToSlack(s, a)
           d == Posted(s.drafts[a.draft_hash], a.channel_id)
<1>1. /\ DOMAIN t = Fields
      /\ t.consumed_nonces = s.consumed_nonces \cup {a.nonce}
      /\ t.drafts = RecSet(s.drafts, a.draft_hash, d)
      /\ t.approvals = s.approvals
  BY DEF AfterPostToSlack, Step, ConsumeNonce, Fields
<1>2. /\ DOMAIN s.drafts[a.draft_hash] = DraftFields
      /\ a.draft_hash = DraftHash(Authored(s.drafts[a.draft_hash]))
  BY DEF DraftsFiled
<1>3. DOMAIN d = DraftFields /\ a.draft_hash = DraftHash(Authored(d))
  BY <1>2, MarkedDraft
<1> HIDE DEF t, d
<1>4. DraftsFiled(t) /\ Keeps(s, t)
  BY <1>1, <1>3, FiledAgain
<1> QED
  BY <1>1, <1>4 DEF ActsOn, t

\* What the rule says of one execution, read in a state reached since.
ObeysRule(s, a, actor, rule) ==
  /\ OperationAllowed(rule.capabilities, actor, a.t)
  /\ a.t = "approve_draft" =>
       /\ a.draft_hash \in DOMAIN s.drafts
       /\ ActorRole(rule.capabilities, actor) = rule.policy.approver_role
       /\ rule.policy.require_separation_of_duties
            => actor # s.drafts[a.draft_hash].created_by
  /\ a.t = "submit_draft" =>
       /\ a.draft_hash \in DOMAIN s.drafts
       /\ a.draft_hash \in DOMAIN s.approvals
       /\ RecipientAllowed(rule.policy, s.drafts[a.draft_hash].customer_id, a.recipient)

\* What obeyed the rule goes on obeying it: nothing it rests on changes.
LEMMA ObedienceLasts ==
  ASSUME NEW s, NEW t, Keeps(s, t), NEW a, NEW actor, NEW rule, ObeysRule(s, a, actor, rule)
  PROVE  ObeysRule(t, a, actor, rule)
  BY DEF ObeysRule, Keeps

\* Whatever the executor accepts, it does within the rule it is given.
LEMMA ExecutionFollows ==
  ASSUME NEW s, DOMAIN s = Fields, DraftsFiled(s), NEW a, NEW actor, NEW rule, NEW c,
         ExecutorAccepts(s, a, actor, rule.capabilities, rule.policy, c, rule.broker_secret)
  PROVE  /\ ActsOn(s, ExecutionState(s, a, actor), a)
         /\ ObeysRule(s, a, actor, rule)
         /\ a.nonce \notin s.consumed_nonces
<1>1. /\ Verify(s, a, actor, rule.capabilities, rule.policy)
      /\ a.nonce \notin s.consumed_nonces
  BY DEF ExecutorAccepts, NonceConsumed
<1>2. OperationAllowed(rule.capabilities, actor, a.t)
  BY <1>1 DEF Verify, CommonChecks
<1>3. CASE a.t = "read_invoice"
  <2>1. ExecutionState(s, a, actor) = AfterReadInvoice(s, a)
    BY <1>3 DEF ExecutionState
  <2> QED
    BY <1>1, <1>2, <1>3, <2>1, ReadFollows DEF ObeysRule
<1>4. CASE a.t = "create_draft"
  <2>1. ExecutionState(s, a, actor) = AfterCreateDraft(s, a, actor)
    BY <1>4 DEF ExecutionState
  <2> QED
    BY <1>1, <1>2, <1>4, <2>1, CreateFollows DEF ObeysRule
<1>5. CASE a.t = "approve_draft"
  <2>1. ExecutionState(s, a, actor) = AfterApproveDraft(s, a, actor)
    BY <1>5 DEF ExecutionState
  <2>2. VerifyApproveDraft(s, a, actor, rule.capabilities, rule.policy)
    BY <1>1, <1>5 DEF Verify
  <2>3. ObeysRule(s, a, actor, rule)
    BY <1>2, <1>5, <2>2 DEF ObeysRule, VerifyApproveDraft, HasDraft
  <2> QED
    BY <1>1, <2>1, <2>3, ApproveFollows
<1>6. CASE a.t = "submit_draft"
  <2>1. ExecutionState(s, a, actor) = AfterSubmitDraft(s, a)
    BY <1>6 DEF ExecutionState
  <2>2. VerifySubmitDraft(s, a, rule.policy)
    BY <1>1, <1>6 DEF Verify
  <2>3. ObeysRule(s, a, actor, rule) /\ a.draft_hash \in DOMAIN s.drafts
    BY <1>2, <1>6, <2>2 DEF ObeysRule, VerifySubmitDraft, HasDraft, HasApproval
  <2> QED
    BY <1>1, <2>1, <2>3, SubmitFollows
<1>7. CASE a.t = "post_to_slack"
  <2>1. ExecutionState(s, a, actor) = AfterPostToSlack(s, a)
    BY <1>7 DEF ExecutionState
  <2>2. a.draft_hash \in DOMAIN s.drafts
    BY <1>1, <1>7 DEF Verify, VerifyPostToSlack, HasDraft
  <2> QED
    BY <1>1, <1>2, <1>7, <2>1, <2>2, PostFollows DEF ObeysRule
<1> QED
  BY <1>1, <1>3, <1>4, <1>5, <1>6, <1>7 DEF Verify

-----------------------------------------------------------------------------
(***************************************************************************)
(* The inductive invariant.  CertificateSpentOnce is not inductive: that a *)
(* certificate is not accepted again rests on its nonce being among those  *)
(* the state has consumed, and RuledInForce rests on drafts staying what   *)
(* they were, and their authors' and customers'.                           *)
(***************************************************************************)
LogTyped == log \in Seq({log[k] : k \in DOMAIN log})

LogConsumed == \A k \in DOMAIN log : log[k].certificate.nonce \in state.consumed_nonces

LogDistinct ==
  \A i, j \in DOMAIN log : log[i].certificate.nonce = log[j].certificate.nonce => i = j

LogObeys ==
  \A k \in DOMAIN log : ObeysRule(state, log[k].action, log[k].actor, log[k].ruling)

BoundaryInv ==
  /\ DOMAIN state = Fields
  /\ DraftsFiled(state)
  /\ LogTyped
  /\ LogConsumed
  /\ LogDistinct
  /\ LogObeys

\* Before the first execution there is nothing to hold it against.
LEMMA BoundaryInvInit == Init => BoundaryInv
<1> SUFFICES ASSUME Init PROVE BoundaryInv
  OBVIOUS
<1>1. DOMAIN state = Fields /\ DOMAIN state.drafts = {}
  BY DEF Init, Initial, EmptyRec, Fields
<1>2. DOMAIN log = {} /\ LogTyped
  BY DEF Init, LogTyped
<1> QED
  BY <1>1, <1>2 DEF BoundaryInv, DraftsFiled, LogConsumed, LogDistinct, LogObeys

\* The log grows by one entry at its end.
LEMMA LogGrows ==
  ASSUME LogTyped, NEW e, log' = Append(log, e)
  PROVE  /\ LogTyped'
         /\ Len(log) \in Nat
         /\ DOMAIN log = 1..Len(log)
         /\ DOMAIN log' = 1..(Len(log) + 1)
         /\ Len(log') = Len(log) + 1
         /\ log'[Len(log) + 1] = e
         /\ \A k \in DOMAIN log : log'[k] = log[k]
<1> DEFINE S == {log[k] : k \in DOMAIN log} \cup {e}
<1>1. log \in Seq({log[k] : k \in DOMAIN log})
  BY DEF LogTyped
<1>2. /\ Len(log) \in Nat
      /\ DOMAIN log = 1..Len(log)
  BY <1>1
<1>3. log \in Seq(S)
  BY <1>1, <1>2
<1>4. /\ log' \in Seq(S)
      /\ Len(log') = Len(log) + 1
      /\ log'[Len(log) + 1] = e
      /\ \A k \in 1..Len(log) : log'[k] = log[k]
  BY <1>3
<1> HIDE DEF S
<1>5. DOMAIN log' = 1..Len(log')
  BY <1>4
<1>6. log' \in Seq({log'[k] : k \in DOMAIN log'})
  BY <1>4, <1>5
<1> QED
  BY <1>2, <1>4, <1>5, <1>6 DEF LogTyped

\* An execution keeps the invariant and adds itself to the log.
LEMMA ExecuteKeeps ==
  ASSUME BoundaryInv, NEW a, NEW actor, NEW c, Execute(a, actor, c)
  PROVE  BoundaryInv'
<1> DEFINE e == [certificate |-> c, action |-> a, actor |-> actor,
                 signedUnder |-> held.signedUnder, ruling |-> config]
<1>1. /\ ExecutorAccepts(state, a, actor, config.capabilities, config.policy, c,
                         config.broker_secret)
      /\ state' = ExecutionState(state, a, actor)
      /\ log' = Append(log, e)
  BY DEF Execute
<1>2. /\ ActsOn(state, state', a)
      /\ ObeysRule(state, a, actor, config)
      /\ a.nonce \notin state.consumed_nonces
  BY <1>1, ExecutionFollows DEF BoundaryInv
<1>3. /\ DOMAIN state' = Fields
      /\ DraftsFiled(state')
      /\ Keeps(state, state')
      /\ state'.consumed_nonces = state.consumed_nonces \cup {a.nonce}
  BY <1>2 DEF ActsOn
<1>4. c.nonce = a.nonce
  BY <1>1 DEF ExecutorAccepts, VerifyCertificate
<1>5. /\ e.certificate = c /\ e.action = a /\ e.actor = actor /\ e.ruling = config
  OBVIOUS
<1> HIDE DEF e
<1>6. /\ LogTyped'
      /\ Len(log) \in Nat
      /\ DOMAIN log = 1..Len(log)
      /\ DOMAIN log' = 1..(Len(log) + 1)
      /\ log'[Len(log) + 1] = e
      /\ \A k \in DOMAIN log : log'[k] = log[k]
  BY <1>1, LogGrows DEF BoundaryInv
<1>7. LogConsumed'
  BY <1>3, <1>4, <1>5, <1>6 DEF BoundaryInv, LogConsumed
<1>8. LogDistinct'
  BY <1>2, <1>4, <1>5, <1>6 DEF BoundaryInv, LogConsumed, LogDistinct
<1>9. LogObeys'
  <2>1. ASSUME NEW k \in DOMAIN log'
        PROVE  ObeysRule(state', log'[k].action, log'[k].actor, log'[k].ruling)
    <3>1. CASE k \in DOMAIN log
      <4>1. ObeysRule(state, log[k].action, log[k].actor, log[k].ruling)
        BY <3>1 DEF BoundaryInv, LogObeys
      <4>2. log'[k] = log[k]
        BY <1>6, <3>1
      <4> QED
        BY <1>3, <4>1, <4>2, ObedienceLasts
    <3>2. CASE k = Len(log) + 1
      <4>1. log'[k] = e
        BY <1>6, <3>2
      <4>2. ObeysRule(state', a, actor, config)
        BY <1>2, <1>3, ObedienceLasts
      <4> QED
        BY <1>5, <4>1, <4>2
    <3> QED
      BY <1>6, <3>1, <3>2
  <2> QED
    BY <2>1 DEF LogObeys
<1> QED
  BY <1>3, <1>6, <1>7, <1>8, <1>9 DEF BoundaryInv

\* Signing and rotating touch neither the state nor the log.
LEMMA BoundaryInvNext == BoundaryInv /\ [Next]_vars => BoundaryInv'
<1> SUFFICES ASSUME BoundaryInv, [Next]_vars PROVE BoundaryInv'
  OBVIOUS
<1>1. ASSUME state' = state, log' = log PROVE BoundaryInv'
  BY <1>1 DEF BoundaryInv, LogTyped, LogConsumed, LogDistinct, LogObeys
<1>2. ASSUME NEW a, NEW actor, NEW obligations, Sign(a, actor, obligations) PROVE BoundaryInv'
  BY <1>1, <1>2 DEF Sign
<1>3. ASSUME NEW a, NEW actor, NEW c, Execute(a, actor, c) PROVE BoundaryInv'
  BY <1>3, ExecuteKeeps
<1>4. ASSUME NEW c, Rotate(c) PROVE BoundaryInv'
  BY <1>1, <1>4 DEF Rotate
<1>5. CASE UNCHANGED vars
  BY <1>1, <1>5 DEF vars
<1> QED
  BY <1>2, <1>3, <1>4, <1>5 DEF Next

\* Whatever is signed, kept, altered and put into force, the log of executions
\* and the state agree, and each entry obeys the rule it was executed under.
THEOREM BoundaryInvariant == Spec => []BoundaryInv
  BY BoundaryInvInit, BoundaryInvNext, PTL DEF Spec

\* A certificate is good for one execution, however long it is kept, whoever
\* alters it, and whatever comes into force in between.
THEOREM KeptCertificatesSpentOnce == Spec => []CertificateSpentOnce
<1>1. BoundaryInv => CertificateSpentOnce
  BY DEF BoundaryInv, LogDistinct, CertificateSpentOnce
<1> QED
  BY <1>1, BoundaryInvariant, PTL

\* A valid signature does not replace the kernel: whoever signed for it, what was
\* executed is what the rule then in force allows, and goes on being so.
THEOREM SignaturesGrantNothing == Spec => []RuledInForce
<1>1. BoundaryInv => RuledInForce
  BY DEF BoundaryInv, LogObeys, ObeysRule, RuledInForce
<1> QED
  BY <1>1, BoundaryInvariant, PTL

-----------------------------------------------------------------------------
(***************************************************************************)
(* Alterations.                                                            *)
(***************************************************************************)

\* The kept certificate carries the mac of what it says.
HeldSigned ==
  held # Null => /\ held.certificate = [f \in DOMAIN held.certificate |-> held.certificate[f]]
                 /\ "mac" \in DOMAIN held.certificate
                 /\ \E secret : held.certificate.mac = Mac(secret, StripMac(held.certificate))

\* A mac belongs to one record: of two signed certificates with the same mac and
\* the same fields there is only one.
LEMMA MacTells ==
  ASSUME NEW c, c = [f \in DOMAIN c |-> c[f]], NEW d, d = [f \in DOMAIN d |-> d[f]],
         DOMAIN c = DOMAIN d, c.mac = d.mac,
         NEW x, c.mac = Mac(x, StripMac(c)), NEW y, d.mac = Mac(y, StripMac(d))
  PROVE  c = d
<1> DEFINE C == StripMac(c)
           D == StripMac(d)
<1>1. C = D
  <2> HIDE DEF C, D
  <2>1. Mac(x, C) = Mac(y, D)
    BY DEF C, D
  <2>2. <<x, C>> = <<y, D>>
    BY <2>1 DEF Mac, TaggedDigest
  <2> QED
    BY <2>2
<1>2. \A f \in DOMAIN c \ {"mac"} : C[f] = c[f] /\ D[f] = d[f]
  BY DEF StripMac, RecRemove
<1> HIDE DEF C, D
<1>3. \A f \in DOMAIN c : c[f] = d[f]
  BY <1>1, <1>2
<1> QED
  BY <1>3

\* What is signed and kept carries its own mac.
LEMMA SignSigns ==
  ASSUME NEW a, NEW actor, NEW obligations, Sign(a, actor, obligations)
  PROVE  HeldSigned'
<1> DEFINE u == UnsignedCertificate(state, a, actor, config.capabilities,
                                    config.policy, obligations)
           m == Mac(config.broker_secret, u)
           c == RecSet(u, "mac", m)
<1>1. held'.certificate = c
  BY DEF Sign, Issue
<1>2. u = [f \in DOMAIN u |-> u[f]] /\ "mac" \notin DOMAIN u
  BY DEF UnsignedCertificate
<1> HIDE DEF u
<1>3. /\ DOMAIN c = DOMAIN u \cup {"mac"}
      /\ c = [f \in DOMAIN c |-> c[f]]
      /\ c.mac = m
      /\ \A f \in DOMAIN u : c[f] = u[f]
  BY <1>2 DEF RecSet
<1> HIDE DEF c
<1>4. StripMac(c) = u
  <2>1. DOMAIN c \ {"mac"} = DOMAIN u
    BY <1>2, <1>3
  <2> QED
    BY <1>2, <1>3, <2>1 DEF StripMac, RecRemove
<1> QED
  BY <1>1, <1>3, <1>4 DEF HeldSigned

\* Every version of a certificate has its fields and its mac.
LEMMA VersionsKeepMac ==
  ASSUME NEW c, NEW v, c = held.certificate, c = [f \in DOMAIN c |-> c[f]],
         "mac" \in DOMAIN c, NEW a, v \in Versions(a)
  PROVE  v = [f \in DOMAIN v |-> v[f]] /\ DOMAIN v = DOMAIN c /\ v.mac = c.mac
  BY DEF Versions

\* Of the versions of a kept certificate only the one that was signed executes.
LEMMA SignedExecutes ==
  ASSUME HeldSigned, held # Null, NEW a, NEW actor, NEW c \in Versions(a), NEW b,
         Execute(b, actor, c)
  PROVE  c = held.certificate
<1> DEFINE h == held.certificate
<1>1. /\ h = [f \in DOMAIN h |-> h[f]]
      /\ "mac" \in DOMAIN h
  BY DEF HeldSigned
<1>2. PICK x : h.mac = Mac(x, StripMac(h))
  BY DEF HeldSigned
<1>3. c = [f \in DOMAIN c |-> c[f]] /\ DOMAIN c = DOMAIN h /\ c.mac = h.mac
  BY <1>1, VersionsKeepMac
<1>4. c.mac = Mac(config.broker_secret, StripMac(c))
  BY DEF Execute, ExecutorAccepts, VerifyCertificate
<1> HIDE DEF h
<1>5. c = h
  BY <1>1, <1>2, <1>3, <1>4, MacTells
<1> QED
  BY <1>5 DEF h

\* Only signing changes what is kept.
LEMMA HeldSignedNext == HeldSigned /\ [Next]_vars => HeldSigned'
<1> SUFFICES ASSUME HeldSigned, [Next]_vars PROVE HeldSigned'
  OBVIOUS
<1>1. ASSUME held' = held PROVE HeldSigned'
  BY <1>1 DEF HeldSigned
<1>2. ASSUME NEW a, NEW actor, NEW obligations, Sign(a, actor, obligations) PROVE HeldSigned'
  BY <1>2, SignSigns
<1>3. ASSUME NEW a, NEW actor, NEW c, Execute(a, actor, c) PROVE HeldSigned'
  BY <1>1, <1>3 DEF Execute
<1>4. ASSUME NEW c, Rotate(c) PROVE HeldSigned'
  BY <1>1, <1>4 DEF Rotate
<1>5. CASE UNCHANGED vars
  BY <1>1, <1>5 DEF vars
<1> QED
  BY <1>2, <1>3, <1>4, <1>5 DEF Next

\* What is executed is the kept certificate as it was issued; none that was altered
\* without the secret is, whatever was altered and whichever secret is in force.
THEOREM AlterationsRefused == Spec => AlteredNeverExecutes
<1>1. Init => HeldSigned
  BY DEF Init, HeldSigned
<1>2. BoundaryInv /\ HeldSigned /\ [Next]_vars
        => [log' # log => log'[Len(log')].certificate = held.certificate]_vars
  <2> SUFFICES ASSUME BoundaryInv, HeldSigned, Next, log' # log
               PROVE  log'[Len(log')].certificate = held.certificate
    OBVIOUS
  <2>1. PICK a, actor, c : held # Null /\ c \in Versions(a) /\ Execute(a, actor, c)
    BY DEF Next, Sign, Rotate
  <2>2. c = held.certificate
    BY <2>1, SignedExecutes
  <2> DEFINE e == [certificate |-> c, action |-> a, actor |-> actor,
                   signedUnder |-> held.signedUnder, ruling |-> config]
  <2>3. log' = Append(log, e) /\ e.certificate = c
    BY <2>1 DEF Execute
  <2> HIDE DEF e
  <2>4. log'[Len(log')] = e
    BY <2>3, LogGrows DEF BoundaryInv
  <2> QED
    BY <2>2, <2>3, <2>4
<1> QED
  BY <1>1, <1>2, HeldSignedNext, BoundaryInvariant, PTL DEF Spec, AlteredNeverExecutes

-----------------------------------------------------------------------------
(***************************************************************************)
(* Rules that come and go.  NoStaleRuling is not inductive either: that a  *)
(* certificate names the rule in force says something of the rule it was   *)
(* signed under only because it is the certificate that was signed.        *)
(***************************************************************************)

\* The kept certificate names the policy and capabilities it was signed under.
HeldNamesRule ==
  held # Null =>
    /\ held.certificate.policy_hash = PolicyDigest(held.signedUnder.policy)
    /\ held.certificate.capability_hash = CapabilitiesDigest(held.signedUnder.capabilities)

\* As it does when it is signed.
LEMMA SignNamesRule ==
  ASSUME NEW a, NEW actor, NEW obligations, Sign(a, actor, obligations)
  PROVE  HeldNamesRule'
<1>1. /\ held'.certificate.policy_hash = PolicyDigest(config.policy)
      /\ held'.certificate.capability_hash = CapabilitiesDigest(config.capabilities)
      /\ held'.signedUnder = config
  BY DEF Sign, Issue, RecSet, UnsignedCertificate
<1> QED
  BY <1>1 DEF HeldNamesRule

\* What executes is what was signed, and it names the rule in force.
LEMMA ExecutesUnderItsRule ==
  ASSUME LogTyped, HeldSigned, HeldNamesRule, NoStaleRuling, held # Null,
         NEW a, NEW actor, NEW b, NEW c \in Versions(b), Execute(a, actor, c)
  PROVE  NoStaleRuling'
<1> DEFINE e == [certificate |-> c, action |-> a, actor |-> actor,
                 signedUnder |-> held.signedUnder, ruling |-> config]
<1>1. c = held.certificate
  BY SignedExecutes
<1>2. /\ c.policy_hash = PolicyDigest(config.policy)
      /\ c.capability_hash = CapabilitiesDigest(config.capabilities)
  BY DEF Execute, ExecutorAccepts, VerifyCertificate
<1>3. /\ PolicyDigest(held.signedUnder.policy) = PolicyDigest(config.policy)
      /\ CapabilitiesDigest(held.signedUnder.capabilities)
           = CapabilitiesDigest(config.capabilities)
  BY <1>1, <1>2 DEF HeldNamesRule
<1>4. /\ held.signedUnder.policy = config.policy
      /\ held.signedUnder.capabilities = config.capabilities
  BY <1>3 DEF PolicyDigest, CapabilitiesDigest, TaggedDigest
<1>5. log' = Append(log, e) /\ e.signedUnder = held.signedUnder /\ e.ruling = config
  BY DEF Execute
<1> HIDE DEF e
<1> QED
  BY <1>4, <1>5, LogGrows DEF NoStaleRuling

\* No certificate is executed under a policy or capabilities other than those in
\* force when it was signed, whatever comes into force in between and whatever
\* rule it is made to name.
THEOREM RulingsNeverStale == Spec => []NoStaleRuling
<1> DEFINE Inv == HeldSigned /\ HeldNamesRule /\ NoStaleRuling
<1>1. Init => Inv
  BY DEF Init, HeldSigned, HeldNamesRule, NoStaleRuling
<1>2. BoundaryInv /\ Inv /\ [Next]_vars => Inv'
  <2> SUFFICES ASSUME BoundaryInv, HeldSigned, HeldNamesRule, NoStaleRuling, [Next]_vars
               PROVE  HeldNamesRule' /\ NoStaleRuling'
    BY HeldSignedNext
  <2>1. ASSUME NEW a, NEW actor, NEW obligations, Sign(a, actor, obligations)
        PROVE  HeldNamesRule' /\ NoStaleRuling'
    <3>1. log' = log
      BY <2>1 DEF Sign
    <3> QED
      BY <2>1, <3>1, SignNamesRule DEF NoStaleRuling
  <2>2. ASSUME held # Null, NEW a, NEW actor, NEW b, NEW c \in Versions(b),
               Execute(a, actor, c)
        PROVE  HeldNamesRule' /\ NoStaleRuling'
    <3>1. held' = held
      BY <2>2 DEF Execute
    <3> QED
      BY <2>2, <3>1, ExecutesUnderItsRule DEF BoundaryInv, HeldNamesRule
  <2>3. ASSUME NEW c, Rotate(c) PROVE HeldNamesRule' /\ NoStaleRuling'
    BY <2>3 DEF Rotate, HeldNamesRule, NoStaleRuling
  <2>4. CASE UNCHANGED vars
    BY <2>4 DEF vars, HeldNamesRule, NoStaleRuling
  <2> QED
    BY <2>1, <2>2, <2>3, <2>4 DEF Next
<1> QED
  BY <1>1, <1>2, BoundaryInvariant, PTL DEF Spec
=============================================================================
