------------------------- MODULE EngineLedgerProofs -------------------------
(***************************************************************************)
(* The books, for every configuration and every set of inputs: the ledger  *)
(* of receipts verifies and leads from the initial state to the current    *)
(* one (LedgerIntact), the quotas hold of the effects (Quotas), what is    *)
(* delivered was written and approved before (ChainOfCustody), mailed at   *)
(* most once for each writing (MailedOncePerWriting), and in the ledger,   *)
(* and nothing else is (EffectsAudited).                                   *)
(***************************************************************************)
EXTENDS EngineProofs

Tags == {"read_invoice", "create_draft", "approve_draft", "submit_draft",
         "post_to_slack"}

-----------------------------------------------------------------------------
(***************************************************************************)
(* The ledger.                                                             *)
(***************************************************************************)

\* Every receipt's nonce is consumed, and the last one leads to this state.
LedgerInv ==
  /\ LedgerIntact
  /\ \A i \in DOMAIN receipts : receipts[i].payload.nonce \in state.consumed_nonces
  /\ receipts # <<>> =>
       receipts[Len(receipts)].payload.sequence_after = state.sequence

\* Every branch counts one step and consumes the action's nonce.
LEMMA ExecutionSteps ==
  ASSUME NEW p, NEW actor, p.t \in Tags, DOMAIN state = StateFields
  PROVE  /\ DOMAIN ExecutionState(state, p, actor) = StateFields
         /\ ExecutionState(state, p, actor).sequence = state.sequence + 1
         /\ ExecutionState(state, p, actor).consumed_nonces
              = state.consumed_nonces \cup {p.nonce}
<1>1. CASE p.t = "read_invoice"
  <2>1. ExecutionState(state, p, actor) = AfterReadInvoice(state, p)
    BY <1>1 DEF ExecutionState
  <2> QED
    BY <2>1, ReadFields DEF ConsumeNonce
<1>2. CASE p.t = "create_draft"
  <2>1. ExecutionState(state, p, actor) = AfterCreateDraft(state, p, actor)
    BY <1>2 DEF ExecutionState
  <2> QED
    BY <2>1, CreateFields DEF ConsumeNonce
<1>3. CASE p.t = "approve_draft"
  <2>1. ExecutionState(state, p, actor) = AfterApproveDraft(state, p, actor)
    BY <1>3 DEF ExecutionState
  <2> QED
    BY <2>1, ApproveFields DEF ConsumeNonce
<1>4. CASE p.t = "submit_draft"
  <2>1. ExecutionState(state, p, actor) = AfterSubmitDraft(state, p)
    BY <1>4 DEF ExecutionState
  <2> QED
    BY <2>1, SubmitFields DEF ConsumeNonce
<1>5. CASE p.t = "post_to_slack"
  <2>1. ExecutionState(state, p, actor) = AfterPostToSlack(state, p)
    BY <1>5 DEF ExecutionState
  <2> QED
    BY <2>1, PostFields DEF ConsumeNonce
<1> QED
  BY <1>1, <1>2, <1>3, <1>4, <1>5 DEF Tags

\* Linking a state to its receipt does not change its hash.
LEMMA LinkKeepsHash ==
  ASSUME NEW s, NEW r, DOMAIN s = StateFields
  PROVE  /\ HashState(WithPreviousReceipt(s, r)) = HashState(s)
         /\ WithPreviousReceipt(s, r).previous_receipt_hash = r
<1>1. RecRemove(WithPreviousReceipt(s, r), "previous_receipt_hash")
        = RecRemove(s, "previous_receipt_hash")
  BY DEF RecRemove, WithPreviousReceipt
<1>2. WithPreviousReceipt(s, r).previous_receipt_hash = r
  BY DEF WithPreviousReceipt, StateFields
<1> QED
  BY <1>1, <1>2 DEF HashState

\* What a receipt says of the call it was made for.
LEMMA ReceiptContents ==
  ASSUME NEW p, NEW actor
  PROVE  LET r == ReceiptFor(state, p, actor)
             e == ExecutionState(state, p, actor)
         IN  /\ {"payload", "receipt_hash"} \subseteq DOMAIN r
             /\ r.receipt_hash = ReceiptDigest(r.payload)
             /\ r.payload.previous_receipt_hash = state.previous_receipt_hash
             /\ r.payload.prior_state_hash = HashState(state)
             /\ r.payload.resulting_state_hash = HashState(e)
             /\ r.payload.sequence_before = state.sequence
             /\ r.payload.sequence_after = e.sequence
             /\ r.payload.nonce = p.nonce
  BY DEF ReceiptFor, CreateReceipt, Payload

\* Any step is a commit of some proposal with one of the five tags.
LEMMA NextCommits ==
  ASSUME Next
  PROVE  \E p, actor : p.t \in Tags /\ Commit(p, actor)
<1>1. ASSUME NEW actor \in ActorIds, NEW h \in Admitted("read_invoice", actor),
             ReadInvoice(actor, h)
      PROVE  \E p : p.t \in Tags /\ Commit(p, actor)
  BY <1>1 DEF ReadInvoice, ReadProposals, Admitted, Headers, Tags
<1>2. ASSUME NEW actor \in ActorIds, NEW h \in Admitted("create_draft", actor),
             CreateDraft(actor, h)
      PROVE  \E p : p.t \in Tags /\ Commit(p, actor)
  BY <1>2 DEF CreateDraft, CreateProposals, Admitted, Headers, Tags
<1>3. ASSUME NEW actor \in ActorIds, NEW h \in Admitted("approve_draft", actor),
             ApproveDraft(actor, h)
      PROVE  \E p : p.t \in Tags /\ Commit(p, actor)
  BY <1>3 DEF ApproveDraft, ApproveProposals, Admitted, Headers, Tags
<1>4. ASSUME NEW actor \in ActorIds, NEW h \in Admitted("submit_draft", actor),
             SubmitDraft(actor, h)
      PROVE  \E p : p.t \in Tags /\ Commit(p, actor)
  BY <1>4 DEF SubmitDraft, SubmitProposals, Admitted, Headers, Tags
<1>5. ASSUME NEW actor \in ActorIds, NEW h \in Admitted("post_to_slack", actor),
             PostToSlack(actor, h)
      PROVE  \E p : p.t \in Tags /\ Commit(p, actor)
  BY <1>5 DEF PostToSlack, PostProposals, Admitted, Headers, Tags
<1> QED
  BY <1>1, <1>2, <1>3, <1>4, <1>5 DEF Next

\* A committed call lengthens the chain by one link at its end.
LEMMA CommitKeepsLedger ==
  ASSUME IInv, LedgerInv, NEW p, NEW actor, p.t \in Tags, Commit(p, actor)
  PROVE  LedgerInv'
<1> DEFINE r == ReceiptFor(state, p, actor)
           e == ExecutionState(state, p, actor)
           n == Len(receipts)
<1>1. /\ receipts' = Append(receipts, r)
      /\ state' = WithPreviousReceipt(e, r.receipt_hash)
      /\ ~NonceConsumed(state, p.nonce)
  BY DEF Commit, Commits, Allowed, Verify, CommonChecks, NextState
<1>2. /\ DOMAIN e = StateFields
      /\ e.sequence = state.sequence + 1
      /\ e.consumed_nonces = state.consumed_nonces \cup {p.nonce}
  BY ExecutionSteps DEF IInv, TypeOK
<1>3. /\ {"payload", "receipt_hash"} \subseteq DOMAIN r
      /\ r.receipt_hash = ReceiptDigest(r.payload)
      /\ r.payload.previous_receipt_hash = state.previous_receipt_hash
      /\ r.payload.prior_state_hash = HashState(state)
      /\ r.payload.resulting_state_hash = HashState(e)
      /\ r.payload.sequence_before = state.sequence
      /\ r.payload.sequence_after = e.sequence
      /\ r.payload.nonce = p.nonce
  BY ReceiptContents
<1>4. /\ HashState(state') = HashState(e)
      /\ state'.previous_receipt_hash = r.receipt_hash
      /\ state'.sequence = e.sequence
      /\ state'.consumed_nonces = e.consumed_nonces
  BY <1>1, <1>2, LinkKeepsHash, LinkedFields DEF StateFields
<1> HIDE DEF r, e
<1>5. /\ n \in Nat
      /\ DOMAIN receipts = 1..n
      /\ DOMAIN receipts' = 1..(n + 1)
      /\ Len(receipts') = n + 1
      /\ \A i \in 1..n : receipts'[i] = receipts[i]
      /\ receipts'[n + 1] = r
      /\ receipts' # <<>>
      /\ receipts = <<>> <=> n = 0
  BY <1>1 DEF IInv, TypeOK
<1>6. VerifyReceipt(r)
  BY <1>2, <1>3 DEF VerifyReceipt
<1>7. ASSUME n > 0
      PROVE  Follows(receipts[n], r)
  BY <1>3, <1>5, <1>7 DEF LedgerInv, LedgerIntact, Follows
<1>8. VerifyLinks(receipts')
  <2>1. ASSUME NEW i \in 1..(n + 1)
        PROVE  /\ VerifyReceipt(receipts'[i])
               /\ i > 1 => Follows(receipts'[i - 1], receipts'[i])
    <3>1. CASE i = n + 1
      <4>1. i > 1 => n > 0 /\ receipts'[i - 1] = receipts[n]
        BY <1>5, <3>1
      <4> QED
        BY <1>5, <1>6, <1>7, <3>1, <4>1
    <3>2. CASE i \in 1..n
      <4>1. /\ receipts'[i] = receipts[i]
            /\ i > 1 => receipts'[i - 1] = receipts[i - 1]
        BY <1>5, <3>2
      <4>2. VerifyLinks(receipts)
        BY DEF LedgerInv, LedgerIntact, VerifyChain
      <4> QED
        BY <1>5, <3>2, <4>1, <4>2 DEF VerifyLinks
    <3> QED
      BY <1>5, <3>1, <3>2
  <2> QED
    BY <1>5, <2>1 DEF VerifyLinks
<1>9. \A i \in 1..n : /\ receipts[i].payload.nonce \in state.consumed_nonces
                      /\ receipts[i].payload.nonce # r.payload.nonce
  BY <1>1, <1>3, <1>5 DEF LedgerInv, NonceConsumed
<1>10. VerifyUniqueNonces(receipts')
  <2>1. VerifyUniqueNonces(receipts)
    BY DEF LedgerInv, LedgerIntact, VerifyChain
  <2>2. ASSUME NEW i \in 1..(n + 1), NEW j \in 1..(n + 1),
               receipts'[i].payload.nonce = receipts'[j].payload.nonce
        PROVE  i = j
    <3>1. CASE i \in 1..n /\ j \in 1..n
      BY <1>5, <2>1, <2>2, <3>1 DEF VerifyUniqueNonces
    <3>2. CASE i = n + 1 /\ j \in 1..n
      BY <1>5, <1>9, <2>2, <3>2
    <3>3. CASE i \in 1..n /\ j = n + 1
      BY <1>5, <1>9, <2>2, <3>3
    <3> QED
      BY <1>5, <3>1, <3>2, <3>3
  <2> QED
    BY <1>5, <2>2 DEF VerifyUniqueNonces
<1>11. /\ receipts'[1].payload.previous_receipt_hash = GenesisHash
       /\ receipts'[1].payload.prior_state_hash = HashState(Initial(Config))
  <2>1. CASE n = 0
    <3>1. state = Initial(Config)
      BY <1>5, <2>1 DEF LedgerInv, LedgerIntact
    <3>2. state.previous_receipt_hash = GenesisHash
      BY <3>1 DEF Initial
    <3> QED
      BY <1>3, <1>5, <2>1, <3>1, <3>2
  <2>2. CASE n > 0
    BY <1>5, <2>2 DEF LedgerInv, LedgerIntact
  <2> QED
    BY <1>5, <2>1, <2>2
<1>12. LedgerIntact'
  BY <1>3, <1>4, <1>5, <1>8, <1>10, <1>11 DEF LedgerIntact, VerifyChain
<1>13. \A i \in 1..(n + 1) : receipts'[i].payload.nonce \in state'.consumed_nonces
  BY <1>2, <1>3, <1>4, <1>5, <1>9
<1> QED
  BY <1>3, <1>4, <1>5, <1>12, <1>13 DEF LedgerInv

\* The ledger of any lineage passes verify_chain, starts at the genesis hash
\* and the initial state, and ends at the current state.
THEOREM LedgerStaysIntact == Spec => []LedgerIntact
<1>1. Init => LedgerInv
  BY DEF Init, LedgerInv, LedgerIntact, VerifyChain, VerifyLinks, VerifyUniqueNonces
<1>2. ASSUME IInv, LedgerInv, [Next]_vars
      PROVE  LedgerInv'
  <2>1. CASE UNCHANGED vars
    BY <1>2, <2>1 DEF vars, LedgerInv, LedgerIntact
  <2>2. CASE Next
    BY <1>2, <2>2, NextCommits, CommitKeepsLedger
  <2> QED
    BY <1>2, <2>1, <2>2
<1>3. LedgerInv => LedgerIntact
  BY DEF LedgerInv
<1> QED
  BY <1>1, <1>2, <1>3, SpecIInv, PTL DEF Spec

-----------------------------------------------------------------------------
(***************************************************************************)
(* The order of the ledger.                                                *)
(***************************************************************************)

\* The i-th receipt, and the certificate it names, are of the i-th state.
ReceiptsInOrder ==
  /\ Len(receipts) = state.sequence
  /\ \A i \in DOMAIN receipts :
       LET payload == receipts[i].payload IN
       /\ payload.prior_state_hash[2].sequence = i - 1
       /\ payload.certificate_hash[2].prior_state_hash = payload.prior_state_hash

\* A receipt names the certificate of its state.
LEMMA ReceiptCertificate ==
  ASSUME NEW p, NEW actor, DOMAIN state = StateFields
  PROVE  LET payload == ReceiptFor(state, p, actor).payload
         IN  /\ payload.prior_state_hash[2].sequence = state.sequence
             /\ payload.certificate_hash[2].prior_state_hash = payload.prior_state_hash
<1> DEFINE payload == ReceiptFor(state, p, actor).payload
<1>1. /\ payload.prior_state_hash = HashState(state)
      /\ payload.certificate_hash = CertificateDigest(CertificateFor(state, p, actor))
  BY DEF ReceiptFor, CreateReceipt, Payload
<1>2. HashState(state)[2].sequence = state.sequence
  BY DEF HashState, TaggedDigest, RecRemove, StateFields
<1>3. CertificateFor(state, p, actor).prior_state_hash = HashState(state)
  BY DEF CertificateFor, Issue, UnsignedCertificate, RecSet
<1> QED
  BY <1>1, <1>2, <1>3 DEF CertificateDigest, TaggedDigest

\* A committed call continues the order.
LEMMA CommitKeepsOrder ==
  ASSUME IInv, ReceiptsInOrder, NEW p, NEW actor, p.t \in Tags, Commit(p, actor)
  PROVE  ReceiptsInOrder'
<1> DEFINE r == ReceiptFor(state, p, actor)
           e == ExecutionState(state, p, actor)
           n == Len(receipts)
<1>1. /\ receipts' = Append(receipts, r)
      /\ state' = WithPreviousReceipt(e, r.receipt_hash)
  BY DEF Commit, NextState
<1>2. /\ DOMAIN e = StateFields
      /\ e.sequence = state.sequence + 1
  BY ExecutionSteps DEF IInv, TypeOK
<1>3. state'.sequence = state.sequence + 1
  BY <1>1, <1>2, LinkedFields DEF StateFields
<1>4. /\ r.payload.prior_state_hash[2].sequence = state.sequence
      /\ r.payload.certificate_hash[2].prior_state_hash = r.payload.prior_state_hash
  BY ReceiptCertificate DEF IInv, TypeOK
<1> HIDE DEF r, e
<1>5. /\ n \in Nat
      /\ DOMAIN receipts = 1..n
      /\ DOMAIN receipts' = 1..(n + 1)
      /\ Len(receipts') = n + 1
      /\ \A i \in 1..n : receipts'[i] = receipts[i]
      /\ receipts'[n + 1] = r
  BY <1>1 DEF IInv, TypeOK
<1>6. ASSUME NEW i \in 1..(n + 1)
      PROVE  LET payload == receipts'[i].payload
             IN  /\ payload.prior_state_hash[2].sequence = i - 1
                 /\ payload.certificate_hash[2].prior_state_hash = payload.prior_state_hash
  <2>1. CASE i = n + 1
    BY <1>4, <1>5, <2>1 DEF ReceiptsInOrder
  <2>2. CASE i \in 1..n
    BY <1>5, <2>2 DEF ReceiptsInOrder
  <2> QED
    BY <1>5, <2>1, <2>2
<1> QED
  BY <1>3, <1>5, <1>6 DEF ReceiptsInOrder

\* Receipts are in the order of the states they were issued in, one for each.
THEOREM ReceiptsOrdered == Spec => []ReceiptsInOrder
<1>1. Init => ReceiptsInOrder
  BY DEF Init, Initial, ReceiptsInOrder
<1>2. ASSUME IInv, ReceiptsInOrder, [Next]_vars
      PROVE  ReceiptsInOrder'
  <2>1. CASE UNCHANGED vars
    BY <1>2, <2>1 DEF vars, ReceiptsInOrder
  <2>2. CASE Next
    BY <1>2, <2>2, NextCommits, CommitKeepsOrder
  <2> QED
    BY <1>2, <2>1, <2>2
<1> QED
  BY <1>1, <1>2, SpecIInv, PTL DEF Spec

-----------------------------------------------------------------------------
(***************************************************************************)
(* The executor and the kernel.                                            *)
(***************************************************************************)

\* The certificate just issued for an admitted action passes every check of the
\* executor: the mac is taken off as it was put on, and nothing has changed.
LEMMA AllowedExecutes ==
  ASSUME NEW s, NEW p, NEW actor, Allowed(s, p, actor)
  PROVE  Executes(s, p, actor)
<1> DEFINE u == UnsignedCertificate(s, p, actor, Config.capabilities, Config.policy,
                                    ObligationsForAction(s, p))
           c == CertificateFor(s, p, actor)
<1>1. c = RecSet(u, "mac", Mac(Config.broker_secret, u))
  BY DEF CertificateFor, Issue
<1>2. /\ u.prior_state_hash = HashState(s)
      /\ u.action_hash = ActionHash(p)
      /\ u.actor_id = actor
      /\ u.policy_hash = PolicyDigest(Config.policy)
      /\ u.capability_hash = CapabilitiesDigest(Config.capabilities)
      /\ u.nonce = p.nonce
      /\ u.sequence = s.sequence
      /\ u.obligations = ObligationsForAction(s, p)
      /\ DOMAIN u = {"t", "version", "prior_state_hash", "action_hash", "actor_id",
                     "policy_hash", "capability_hash", "nonce", "sequence",
                     "obligations"}
      /\ u = [f \in DOMAIN u |-> u[f]]
  BY DEF UnsignedCertificate
<1> HIDE DEF u, c
<1>3. /\ DOMAIN c = DOMAIN u \cup {"mac"}
      /\ c["mac"] = Mac(Config.broker_secret, u)
      /\ \A f \in DOMAIN u : c[f] = u[f]
  BY <1>1, <1>2 DEF RecSet
<1>4. StripMac(c) = u
  BY <1>2, <1>3 DEF StripMac, RecRemove
<1>5. VerifyCertificate(c, s, p, actor, Config.capabilities, Config.policy,
                        Config.broker_secret)
  BY <1>2, <1>3, <1>4 DEF VerifyCertificate
<1>6. c.obligations = ObligationsForAction(s, p)
  BY <1>2, <1>3
<1>7. ~NonceConsumed(s, p.nonce)
  BY DEF Allowed, Verify, CommonChecks
<1> QED
  BY <1>5, <1>6, <1>7 DEF Executes, ExecutorAccepts, Allowed, c

-----------------------------------------------------------------------------
(***************************************************************************)
(* Any commit of a proposal is a step of the lineage.                      *)
(***************************************************************************)

\* Any nonce may be proposed.
NoncesOffered == \A s : Nonces \subseteq Offered(s)

HeaderOf(p) ==
  [t |-> p.t, nonce |-> p.nonce, expected_state_hash |-> p.expected_state_hash]

\* The header of a proposal that passes the common checks is one of Next's.
LEMMA HeaderAdmitted ==
  ASSUME NoncesOffered, NEW p, NEW actor, p.nonce \in Nonces,
         CommonChecks(state, p, actor, Config.capabilities, Config.policy)
  PROVE  HeaderOf(p) \in Admitted(p.t, actor)
<1> DEFINE h == HeaderOf(p)
<1>1. /\ h.t = p.t
      /\ h.nonce = p.nonce
      /\ h.expected_state_hash = p.expected_state_hash
  BY DEF HeaderOf
<1>2. p.expected_state_hash \in SeenHashes(state)
  BY DEF CommonChecks, SeenHashes
<1>3. h \in Headers(p.t, state)
  BY <1>2 DEF Headers, HeaderOf, NoncesOffered
<1>4. CommonChecks(state, h, actor, Config.capabilities, Config.policy)
  BY <1>1 DEF CommonChecks
<1> QED
  BY <1>3, <1>4 DEF Admitted

\* An action that some caller may propose, in whatever state it was made up.
Proposable(p) ==
  \E s, h :
    /\ h.nonce \in Nonces
    /\ \/ h.t = "read_invoice"  /\ p \in ReadProposals(h)
       \/ h.t = "create_draft"  /\ p \in CreateProposals(h)
       \/ h.t = "approve_draft" /\ p \in ApproveProposals(h, s)
       \/ h.t = "submit_draft"  /\ p \in SubmitProposals(h, s)
       \/ h.t = "post_to_slack" /\ p \in PostProposals(h, s)

\* Whoever commits a proposable action makes a step of the lineage.
LEMMA ProposableCommits ==
  ASSUME NoncesOffered, NEW p, NEW actor \in ActorIds, Proposable(p), Commit(p, actor)
  PROVE  Next
<1> DEFINE h == HeaderOf(p)
<1>1. /\ Verify(state, p, actor, Config.capabilities, Config.policy)
      /\ CommonChecks(state, p, actor, Config.capabilities, Config.policy)
  BY DEF Commit, Commits, Allowed, Verify
<1>2. PICK s, g :
        /\ g.nonce \in Nonces
        /\ \/ g.t = "read_invoice"  /\ p \in ReadProposals(g)
           \/ g.t = "create_draft"  /\ p \in CreateProposals(g)
           \/ g.t = "approve_draft" /\ p \in ApproveProposals(g, s)
           \/ g.t = "submit_draft"  /\ p \in SubmitProposals(g, s)
           \/ g.t = "post_to_slack" /\ p \in PostProposals(g, s)
  BY DEF Proposable
<1>3. p.t = g.t /\ p.nonce = g.nonce
  BY <1>2 DEF ReadProposals, CreateProposals, ApproveProposals, SubmitProposals,
     PostProposals
<1>4. h \in Admitted(p.t, actor)
  BY <1>1, <1>2, <1>3, HeaderAdmitted
<1>5. CASE g.t = "read_invoice" /\ p \in ReadProposals(g)
  <2>1. p \in ReadProposals(h)
    BY <1>5 DEF ReadProposals, HeaderOf
  <2> QED
    BY <1>3, <1>4, <1>5, <2>1 DEF Next, ReadInvoice
<1>6. CASE g.t = "create_draft" /\ p \in CreateProposals(g)
  <2>1. p \in CreateProposals(h)
    BY <1>6 DEF CreateProposals, HeaderOf
  <2> QED
    BY <1>3, <1>4, <1>6, <2>1 DEF Next, CreateDraft
<1>7. CASE g.t = "approve_draft" /\ p \in ApproveProposals(g, s)
  <2>1. p.draft_hash \in NamedDrafts(state)
    BY <1>1, <1>3, <1>7 DEF Verify, VerifyApproveDraft, HasDraft, NamedDrafts
  <2>2. p \in ApproveProposals(h, state)
    BY <1>7, <2>1 DEF ApproveProposals, HeaderOf
  <2> QED
    BY <1>3, <1>4, <1>7, <2>2 DEF Next, ApproveDraft
<1>8. CASE g.t = "submit_draft" /\ p \in SubmitProposals(g, s)
  <2>1. p.draft_hash \in NamedDrafts(state)
    BY <1>1, <1>3, <1>8 DEF Verify, VerifySubmitDraft, HasDraft, NamedDrafts
  <2>2. p \in SubmitProposals(h, state)
    BY <1>8, <2>1 DEF SubmitProposals, HeaderOf
  <2> QED
    BY <1>3, <1>4, <1>8, <2>2 DEF Next, SubmitDraft
<1>9. CASE g.t = "post_to_slack" /\ p \in PostProposals(g, s)
  <2>1. p.draft_hash \in NamedDrafts(state)
    BY <1>1, <1>3, <1>9 DEF Verify, VerifyPostToSlack, HasDraft, NamedDrafts
  <2>2. p \in PostProposals(h, state)
    BY <1>9, <2>1 DEF PostProposals, HeaderOf
  <2> QED
    BY <1>3, <1>4, <1>9, <2>2 DEF Next, PostToSlack
<1> QED
  BY <1>2, <1>5, <1>6, <1>7, <1>8, <1>9

-----------------------------------------------------------------------------
(***************************************************************************)
(* The quotas.                                                             *)
(***************************************************************************)

\* There are finitely many drafts and approvals, so that they can be counted.
QuotaInv ==
  /\ Quotas
  /\ IsFiniteSet(DOMAIN state.drafts)
  /\ IsFiniteSet(DOMAIN state.approvals)

\* Adding one element to a finite set adds at most one to its cardinality.
LEMMA OneMore ==
  ASSUME NEW S, IsFiniteSet(S), NEW x
  PROVE  /\ IsFiniteSet(S \cup {x})
         /\ Cardinality(S) \in Nat
         /\ Cardinality(S \cup {x}) \in Nat
         /\ Cardinality(S \cup {x}) <= Cardinality(S) + 1
         /\ x \notin S => Cardinality(S \cup {x}) = Cardinality(S) + 1
<1>1. Cardinality(S) \in Nat
  BY FS_CardinalityType
<1>2. CASE x \in S
  <2>1. S \cup {x} = S
    BY <1>2
  <2> QED
    BY <1>1, <1>2, <2>1
<1>3. CASE x \notin S
  <2>1. /\ IsFiniteSet(S \cup {x})
        /\ Cardinality(S \cup {x}) = Cardinality(S) + 1
    BY <1>3, FS_AddElement
  <2> QED
    BY <1>1, <1>3, <2>1
<1> QED
  BY <1>2, <1>3

\* One counter goes up by one and the others stay.
LEMMA CounterStep ==
  ASSUME IInv, NEW name \in Counters, state'.counters = Count(state.counters, name)
  PROVE  /\ state'.counters[name] = state.counters[name] + 1
         /\ state.counters[name] \in Nat
         /\ \A other \in Counters \ {name} :
              state'.counters[other] = state.counters[other]
  BY CountType DEF IInv, TypeOK

\* The accepted limits are natural numbers.
LEMMA Limits ==
  /\ Config.policy.max_total_drafts \in Nat
  /\ Config.policy.max_total_submissions \in Nat
  /\ Config.policy.max_total_slack_posts \in Nat
  BY ConfigAssumption DEF ConfigValid

\* A committed create_draft keeps the counters true and within the limits.
LEMMA CreateKeepsQuotas ==
  ASSUME IInv, QuotaInv, NEW p, NEW actor, Commit(p, actor), p.t = "create_draft"
  PROVE  QuotaInv'
<1> DEFINE g == NewDraft(p, actor).draft_hash
<1>1. DOMAIN state = StateFields
  BY DEF IInv, TypeOK
<1>2. /\ state.counters.drafted_total < Config.policy.max_total_drafts
      /\ state'.counters = Count(state.counters, "drafted_total")
      /\ state'.drafts = RecSet(state.drafts, g, NewDraft(p, actor))
  BY <1>1, CreateEffect DEF VerifyCreateDraft
<1>3. /\ state'.approvals = state.approvals
      /\ state'.submissions = state.submissions
      /\ state'.slack_posts = state.slack_posts
  BY <1>1, CreateEffect DEF StateFields
<1>4. DOMAIN state'.drafts = DOMAIN state.drafts \cup {g}
  BY <1>2 DEF RecSet
<1>5. /\ state'.counters.drafted_total = state.counters.drafted_total + 1
      /\ state'.counters.submitted_total = state.counters.submitted_total
      /\ state'.counters.approved_total = state.counters.approved_total
      /\ state'.counters.slack_posted_total = state.counters.slack_posted_total
      /\ state.counters.drafted_total \in Nat
  BY <1>2, CounterStep DEF Counters
<1> HIDE DEF g
<1>6. /\ IsFiniteSet(DOMAIN state'.drafts)
      /\ Cardinality(DOMAIN state.drafts) \in Nat
      /\ Cardinality(DOMAIN state'.drafts) \in Nat
      /\ Cardinality(DOMAIN state'.drafts) <= Cardinality(DOMAIN state.drafts) + 1
  BY <1>4, OneMore DEF QuotaInv
<1>7. /\ Cardinality(DOMAIN state'.drafts) <= state'.counters.drafted_total
      /\ state'.counters.drafted_total <= Config.policy.max_total_drafts
  BY <1>2, <1>5, <1>6, Limits DEF QuotaInv, Quotas
<1> QED
  BY <1>3, <1>5, <1>6, <1>7 DEF QuotaInv, Quotas

\* A committed approve_draft keeps the counters true and within the limits.
LEMMA ApproveKeepsQuotas ==
  ASSUME IInv, QuotaInv, NEW p, NEW actor, Commit(p, actor), p.t = "approve_draft"
  PROVE  QuotaInv'
<1>1. DOMAIN state = StateFields
  BY DEF IInv, TypeOK
<1>2. /\ p.draft_hash \notin DOMAIN state.approvals
      /\ state'.counters = Count(state.counters, "approved_total")
      /\ state'.approvals = RecSet(state.approvals, p.draft_hash, Approval(state, p, actor))
  BY <1>1, ApproveEffect DEF VerifyApproveDraft, HasApproval
<1>3. /\ state'.drafts = state.drafts
      /\ state'.submissions = state.submissions
      /\ state'.slack_posts = state.slack_posts
  BY <1>1, ApproveEffect DEF StateFields
<1>4. DOMAIN state'.approvals = DOMAIN state.approvals \cup {p.draft_hash}
  BY <1>2 DEF RecSet
<1>5. /\ state'.counters.approved_total = state.counters.approved_total + 1
      /\ state'.counters.submitted_total = state.counters.submitted_total
      /\ state'.counters.drafted_total = state.counters.drafted_total
      /\ state'.counters.slack_posted_total = state.counters.slack_posted_total
  BY <1>2, CounterStep DEF Counters
<1>6. /\ IsFiniteSet(DOMAIN state'.approvals)
      /\ Cardinality(DOMAIN state'.approvals) = Cardinality(DOMAIN state.approvals) + 1
  BY <1>2, <1>4, OneMore DEF QuotaInv
<1> QED
  BY <1>3, <1>5, <1>6 DEF QuotaInv, Quotas

\* A committed submit_draft keeps the counters true and within the limits.
LEMMA SubmitKeepsQuotas ==
  ASSUME IInv, QuotaInv, NEW p, NEW actor, Commit(p, actor), p.t = "submit_draft"
  PROVE  QuotaInv'
<1>1. DOMAIN state = StateFields
  BY DEF IInv, TypeOK
<1>2. /\ p.draft_hash \in DOMAIN state.drafts
      /\ state.counters.submitted_total < Config.policy.max_total_submissions
      /\ state'.counters = Count(state.counters, "submitted_total")
      /\ state'.drafts = RecSet(state.drafts, p.draft_hash,
                                Submitted(state.drafts[p.draft_hash], p.recipient))
      /\ state'.submissions = Append(state.submissions, EmailEffect(state, p))
  BY <1>1, SubmitEffect DEF VerifySubmitDraft, HasDraft
<1>3. /\ state'.approvals = state.approvals
      /\ state'.slack_posts = state.slack_posts
  BY <1>1, SubmitEffect DEF StateFields
<1>4. DOMAIN state'.drafts = DOMAIN state.drafts
  BY <1>2 DEF RecSet
<1>5. /\ state'.counters.submitted_total = state.counters.submitted_total + 1
      /\ state'.counters.approved_total = state.counters.approved_total
      /\ state'.counters.drafted_total = state.counters.drafted_total
      /\ state'.counters.slack_posted_total = state.counters.slack_posted_total
      /\ state.counters.submitted_total \in Nat
  BY <1>2, CounterStep DEF Counters
<1>6. Len(state'.submissions) = Len(state.submissions) + 1
  BY <1>2, AppendElements DEF IInv, TypeOK
<1>7. Len(state'.submissions) <= Config.policy.max_total_submissions
  BY <1>2, <1>5, <1>6, Limits DEF QuotaInv, Quotas
<1> QED
  BY <1>3, <1>4, <1>5, <1>6, <1>7 DEF QuotaInv, Quotas

\* A committed post_to_slack keeps the counters true and within the limits.
LEMMA PostKeepsQuotas ==
  ASSUME IInv, QuotaInv, NEW p, NEW actor, Commit(p, actor), p.t = "post_to_slack"
  PROVE  QuotaInv'
<1>1. DOMAIN state = StateFields
  BY DEF IInv, TypeOK
<1>2. /\ p.draft_hash \in DOMAIN state.drafts
      /\ state.counters.slack_posted_total < Config.policy.max_total_slack_posts
      /\ state'.counters = Count(state.counters, "slack_posted_total")
      /\ state'.drafts = RecSet(state.drafts, p.draft_hash,
                                Posted(state.drafts[p.draft_hash], p.channel_id))
      /\ state'.slack_posts = Append(state.slack_posts, SlackEffect(state, p))
  BY <1>1, PostEffect DEF VerifyPostToSlack, HasDraft
<1>3. /\ state'.approvals = state.approvals
      /\ state'.submissions = state.submissions
  BY <1>1, PostEffect DEF StateFields
<1>4. DOMAIN state'.drafts = DOMAIN state.drafts
  BY <1>2 DEF RecSet
<1>5. /\ state'.counters.slack_posted_total = state.counters.slack_posted_total + 1
      /\ state'.counters.approved_total = state.counters.approved_total
      /\ state'.counters.drafted_total = state.counters.drafted_total
      /\ state'.counters.submitted_total = state.counters.submitted_total
      /\ state.counters.slack_posted_total \in Nat
  BY <1>2, CounterStep DEF Counters
<1>6. Len(state'.slack_posts) = Len(state.slack_posts) + 1
  BY <1>2, AppendElements DEF IInv, TypeOK
<1>7. Len(state'.slack_posts) <= Config.policy.max_total_slack_posts
  BY <1>2, <1>5, <1>6, Limits DEF QuotaInv, Quotas
<1> QED
  BY <1>3, <1>4, <1>5, <1>6, <1>7 DEF QuotaInv, Quotas

\* A committed read_invoice keeps the counters true and within the limits.
LEMMA ReadKeepsQuotas ==
  ASSUME IInv, QuotaInv, NEW p, NEW actor, Commit(p, actor), p.t = "read_invoice"
  PROVE  QuotaInv'
<1>1. DOMAIN state = StateFields
  BY DEF IInv, TypeOK
<1>2. /\ state'.drafts = state.drafts
      /\ state'.approvals = state.approvals
      /\ state'.submissions = state.submissions
      /\ state'.slack_posts = state.slack_posts
      /\ state'.counters = state.counters
  BY <1>1, ReadEffect DEF StateFields
<1> QED
  BY <1>2 DEF QuotaInv, Quotas

\* The quotas of the policy hold of the drafts, mails and posts themselves, and
\* the counters count them.
THEOREM QuotasHold == Spec => []Quotas
<1>1. Init => QuotaInv
  <2>1. SUFFICES ASSUME Init PROVE QuotaInv
    OBVIOUS
  <2>2. /\ DOMAIN state.drafts = {}
        /\ DOMAIN state.approvals = {}
        /\ Len(state.submissions) = 0
        /\ Len(state.slack_posts) = 0
        /\ state.counters.submitted_total = 0
        /\ state.counters.drafted_total = 0
        /\ state.counters.approved_total = 0
        /\ state.counters.slack_posted_total = 0
    BY <2>1 DEF Init, Initial, EmptyRec
  <2> QED
    BY <2>2, FS_EmptySet, Limits DEF QuotaInv, Quotas
<1>2. ASSUME IInv, QuotaInv, [Next]_vars
      PROVE  QuotaInv'
  <2>1. CASE UNCHANGED vars
    BY <1>2, <2>1 DEF vars, QuotaInv, Quotas
  <2>2. CASE Next
    <3>1. PICK p, actor : p.t \in Tags /\ Commit(p, actor)
      BY <2>2, NextCommits
    <3> QED
      BY <1>2, <3>1, ReadKeepsQuotas, CreateKeepsQuotas, ApproveKeepsQuotas,
         SubmitKeepsQuotas, PostKeepsQuotas DEF Tags
  <2> QED
    BY <1>2, <2>1, <2>2
<1>3. QuotaInv => Quotas
  BY DEF QuotaInv
<1> QED
  BY <1>1, <1>2, <1>3, SpecIInv, PTL DEF Spec

-----------------------------------------------------------------------------
(***************************************************************************)
(* Custody: what the ledger tells of the drafts, approvals and deliveries. *)
(***************************************************************************)

\* Receipt i of the ledger R records the writing of the draft h with that body.
Writes(R, i, h, body) ==
  /\ i \in DOMAIN R
  /\ ActionOf(R[i]).t = "create_draft"
  /\ ResultOf(R[i]).draft_hash = h
  /\ ActionOf(R[i]).body = body

\* Before receipt k of the ledger R the draft was written, and then approved.
InCustody(R, k, h, body) ==
  \E j \in DOMAIN R, i \in DOMAIN R :
    /\ i < j /\ j < k
    /\ ActionOf(R[j]).t = "approve_draft"
    /\ ActionOf(R[j]).draft_hash = h
    /\ Writes(R, i, h, body)

\* Every draft was written, every approved draft written before, and every
\* delivery made in custody.
CustodyInv ==
  /\ \A h \in DOMAIN state.drafts :
       \E i \in DOMAIN receipts : Writes(receipts, i, h, state.drafts[h].body)
  /\ \A h \in DOMAIN state.approvals :
       InCustody(receipts, Len(receipts) + 1, h, state.drafts[h].body)
  /\ \A k \in DOMAIN receipts :
       ActionOf(receipts[k]).t \in {"submit_draft", "post_to_slack"}
         => InCustody(receipts, k, ResultOf(receipts[k]).effect.draft_hash,
                      ResultOf(receipts[k]).effect.body)

\* The receipt of a call records its action and its result.
LEMMA ReceiptTells ==
  ASSUME NEW p, NEW actor
  PROVE  /\ ActionOf(ReceiptFor(state, p, actor)) = p
         /\ ResultOf(ReceiptFor(state, p, actor)) = ExecutionResult(state, p, actor)
  BY DEF ReceiptFor, CreateReceipt, Payload, ActionOf, ResultOf, ActionHash, TaggedDigest

\* A commit lengthens the ledger by the receipt of its call.
LEMMA LedgerGrows ==
  ASSUME IInv, NEW p, NEW actor, Commit(p, actor)
  PROVE  LET n == Len(receipts)
         IN  /\ n \in Nat
             /\ DOMAIN receipts = 1..n
             /\ DOMAIN receipts' = 1..(n + 1)
             /\ Len(receipts') = n + 1
             /\ \A i \in 1..n : receipts'[i] = receipts[i]
             /\ ActionOf(receipts'[n + 1]) = p
             /\ ResultOf(receipts'[n + 1]) = ExecutionResult(state, p, actor)
<1> DEFINE r == ReceiptFor(state, p, actor)
<1>1. receipts' = Append(receipts, r)
  BY DEF Commit
<1>2. ActionOf(r) = p /\ ResultOf(r) = ExecutionResult(state, p, actor)
  BY ReceiptTells
<1> HIDE DEF r
<1> QED
  BY <1>1, <1>2 DEF IInv, TypeOK

\* What was in custody stays so in a longer ledger.
LEMMA CustodyLasts ==
  ASSUME NEW R, NEW S, DOMAIN R \subseteq DOMAIN S, \A i \in DOMAIN R : S[i] = R[i],
         NEW h, NEW body
  PROVE  /\ \A i : Writes(R, i, h, body) => Writes(S, i, h, body)
         /\ \A k : InCustody(R, k, h, body) => InCustody(S, k, h, body)
<1>1. \A i : Writes(R, i, h, body) => Writes(S, i, h, body)
  BY DEF Writes
<1>2. ASSUME NEW k, InCustody(R, k, h, body)
      PROVE  InCustody(S, k, h, body)
  <2>1. PICK j \in DOMAIN R, i \in DOMAIN R :
          /\ i < j /\ j < k
          /\ ActionOf(R[j]).t = "approve_draft"
          /\ ActionOf(R[j]).draft_hash = h
          /\ Writes(R, i, h, body)
    BY <1>2 DEF InCustody
  <2>2. S[j] = R[j] /\ j \in DOMAIN S /\ i \in DOMAIN S /\ Writes(S, i, h, body)
    BY <1>1, <2>1
  <2> QED
    BY <2>1, <2>2 DEF InCustody
<1> QED
  BY <1>1, <1>2

\* What the last receipt adds to the custody: a draft is as it was or has just
\* been written, an approval as it was or just given of a draft, and a delivery
\* is of an approved draft.
DraftsFollow ==
  \A h \in DOMAIN state'.drafts :
    \/ h \in DOMAIN state.drafts /\ state'.drafts[h].body = state.drafts[h].body
    \/ Writes(receipts', Len(receipts) + 1, h, state'.drafts[h].body)

ApprovalsFollow(p) ==
  \A h \in DOMAIN state'.approvals :
    /\ h \in DOMAIN state.drafts
    /\ \/ h \in DOMAIN state.approvals
       \/ p.t = "approve_draft" /\ p.draft_hash = h

DeliveryFollows(p, effect) ==
  p.t \in {"submit_draft", "post_to_slack"} =>
    /\ effect.draft_hash \in DOMAIN state.approvals
    /\ effect.body = state.drafts[effect.draft_hash].body

CustodyStep(p, actor) ==
  /\ DraftsFollow
  /\ ApprovalsFollow(p)
  /\ DeliveryFollows(p, ExecutionResult(state, p, actor).effect)

\* A step that does so keeps everything in custody.
LEMMA CustodyKept ==
  ASSUME IInv, IInv', CustodyInv, NEW p, NEW actor, Commit(p, actor), CustodyStep(p, actor),
         \A h \in DOMAIN state.drafts : /\ h \in DOMAIN state'.drafts
                                        /\ state'.drafts[h].body = state.drafts[h].body
  PROVE  CustodyInv'
<1> DEFINE n == Len(receipts)
<1>1. /\ n \in Nat
      /\ DOMAIN receipts = 1..n
      /\ DOMAIN receipts' = 1..(n + 1)
      /\ Len(receipts') = n + 1
      /\ \A i \in 1..n : receipts'[i] = receipts[i]
      /\ ActionOf(receipts'[n + 1]) = p
      /\ ResultOf(receipts'[n + 1]) = ExecutionResult(state, p, actor)
  BY LedgerGrows
<1>2. \A h, body : /\ \A i : Writes(receipts, i, h, body) => Writes(receipts', i, h, body)
                   /\ \A k : InCustody(receipts, k, h, body) => InCustody(receipts', k, h, body)
  BY <1>1, CustodyLasts
<1>3. ASSUME NEW h \in DOMAIN state'.drafts
      PROVE  \E i \in DOMAIN receipts' : Writes(receipts', i, h, state'.drafts[h].body)
  <2>1. CASE h \in DOMAIN state.drafts /\ state'.drafts[h].body = state.drafts[h].body
    <3>1. PICK i \in DOMAIN receipts : Writes(receipts, i, h, state.drafts[h].body)
      BY <2>1 DEF CustodyInv
    <3>2. i \in DOMAIN receipts' /\ Writes(receipts', i, h, state.drafts[h].body)
      BY <1>1, <1>2, <3>1
    <3> QED
      BY <2>1, <3>2
  <2>2. CASE Writes(receipts', Len(receipts) + 1, h, state'.drafts[h].body)
    BY <1>1, <2>2
  <2>3. DraftsFollow
    BY DEF CustodyStep
  <2> QED
    BY <2>1, <2>2, <2>3 DEF DraftsFollow
<1>4. ASSUME NEW h \in DOMAIN state'.approvals
      PROVE  InCustody(receipts', Len(receipts') + 1, h, state'.drafts[h].body)
  <2>1. h \in DOMAIN state.drafts /\ state'.drafts[h].body = state.drafts[h].body
    <3>1. h \in DOMAIN state.drafts
      BY DEF CustodyStep, ApprovalsFollow
    <3> QED
      BY <3>1
  <2>2. CASE h \in DOMAIN state.approvals
    <3>1. InCustody(receipts', n + 1, h, state'.drafts[h].body)
      BY <1>2, <2>1, <2>2 DEF CustodyInv
    <3>2. PICK j \in DOMAIN receipts', i \in DOMAIN receipts' :
            /\ i < j /\ j < n + 1
            /\ ActionOf(receipts'[j]).t = "approve_draft"
            /\ ActionOf(receipts'[j]).draft_hash = h
            /\ Writes(receipts', i, h, state'.drafts[h].body)
      BY <3>1 DEF InCustody
    <3>3. j < Len(receipts') + 1
      BY <1>1, <3>2
    <3> QED
      BY <3>2, <3>3 DEF InCustody
  <2>3. CASE p.t = "approve_draft" /\ p.draft_hash = h
    <3>1. PICK i \in DOMAIN receipts : Writes(receipts, i, h, state.drafts[h].body)
      BY <2>1 DEF CustodyInv
    <3>2. Writes(receipts', i, h, state'.drafts[h].body)
      BY <1>2, <2>1, <3>1
    <3>3. i < n + 1 /\ n + 1 < Len(receipts') + 1 /\ n + 1 \in DOMAIN receipts'
          /\ i \in DOMAIN receipts'
      BY <1>1
    <3> QED
      BY <1>1, <2>3, <3>2, <3>3 DEF InCustody
  <2> QED
    BY <2>2, <2>3 DEF CustodyStep, DraftsFollow, ApprovalsFollow, DeliveryFollows
<1>5. ASSUME NEW k \in DOMAIN receipts',
             ActionOf(receipts'[k]).t \in {"submit_draft", "post_to_slack"}
      PROVE  InCustody(receipts', k, ResultOf(receipts'[k]).effect.draft_hash,
                       ResultOf(receipts'[k]).effect.body)
  <2>1. CASE k \in 1..n
    BY <1>1, <1>2, <1>5, <2>1 DEF CustodyInv
  <2>2. CASE k = n + 1
    <3> DEFINE effect == ExecutionResult(state, p, actor).effect
    <3>1. /\ effect.draft_hash \in DOMAIN state.approvals
          /\ effect.body = state.drafts[effect.draft_hash].body
      BY <1>1, <1>5, <2>2 DEF CustodyStep, DraftsFollow, ApprovalsFollow, DeliveryFollows
    <3>2. InCustody(receipts, n + 1, effect.draft_hash, effect.body)
      BY <3>1 DEF CustodyInv
    <3> HIDE DEF effect
    <3>3. InCustody(receipts', k, effect.draft_hash, effect.body)
      BY <1>2, <2>2, <3>2
    <3> QED
      BY <1>1, <2>2, <3>3 DEF effect
  <2> QED
    BY <1>1, <2>1, <2>2
<1> QED
  BY <1>3, <1>4, <1>5 DEF CustodyInv

\* What each operation adds.
LEMMA CommitInCustody ==
  ASSUME IInv, NEW p, NEW actor, p.t \in Tags, Commit(p, actor)
  PROVE  CustodyStep(p, actor)
<1> DEFINE n == Len(receipts)
<1>1. /\ DOMAIN state = StateFields
      /\ DOMAIN state.approvals \subseteq DOMAIN state.drafts
  BY DEF IInv, TypeOK
<1>2. CASE p.t = "read_invoice"
  <2>1. state'.drafts = state.drafts /\ state'.approvals = state.approvals
    BY <1>1, <1>2, ReadEffect DEF StateFields
  <2> QED
    BY <1>1, <1>2, <2>1 DEF CustodyStep, DraftsFollow, ApprovalsFollow, DeliveryFollows
<1>3. CASE p.t = "create_draft"
  <2> DEFINE d == NewDraft(p, actor)
  <2>1. /\ state'.drafts = RecSet(state.drafts, d.draft_hash, d)
        /\ state'.approvals = state.approvals
    BY <1>1, <1>3, CreateEffect DEF StateFields
  <2>2. /\ n + 1 \in DOMAIN receipts'
        /\ ActionOf(receipts'[n + 1]) = p
        /\ ResultOf(receipts'[n + 1]) = ExecutionResult(state, p, actor)
    BY LedgerGrows
  <2>3. ExecutionResult(state, p, actor) = CreateDraftResult(p, actor)
    BY <1>3 DEF ExecutionResult
  <2>4. CreateDraftResult(p, actor).draft_hash = d.draft_hash /\ d.body = p.body
    BY DEF CreateDraftResult, NewDraft, DraftContent
  <2> HIDE DEF d
  <2>5. /\ state'.drafts[d.draft_hash] = d
        /\ DOMAIN state'.drafts = DOMAIN state.drafts \cup {d.draft_hash}
        /\ \A h \in DOMAIN state.drafts \ {d.draft_hash} : state'.drafts[h] = state.drafts[h]
    BY <2>1 DEF RecSet
  <2>6. Writes(receipts', n + 1, d.draft_hash, d.body)
    BY <1>3, <2>2, <2>3, <2>4 DEF Writes
  <2> QED
    BY <1>1, <1>3, <2>1, <2>5, <2>6 DEF CustodyStep, DraftsFollow, ApprovalsFollow, DeliveryFollows
<1>4. CASE p.t = "approve_draft"
  <2>1. /\ VerifyApproveDraft(state, p, actor, Config.capabilities, Config.policy)
        /\ state'.approvals = RecSet(state.approvals, p.draft_hash, Approval(state, p, actor))
        /\ state'.drafts = state.drafts
    BY <1>1, <1>4, ApproveEffect DEF StateFields
  <2>2. /\ DOMAIN state'.approvals = DOMAIN state.approvals \cup {p.draft_hash}
        /\ p.draft_hash \in DOMAIN state.drafts
    BY <2>1 DEF RecSet, VerifyApproveDraft, HasDraft
  <2> QED
    BY <1>1, <1>4, <2>1, <2>2 DEF CustodyStep, DraftsFollow, ApprovalsFollow, DeliveryFollows
<1>5. CASE p.t = "submit_draft"
  <2> DEFINE d == Submitted(state.drafts[p.draft_hash], p.recipient)
             e == ExecutionResult(state, p, actor).effect
  <2>1. /\ VerifySubmitDraft(state, p, Config.policy)
        /\ state'.drafts = RecSet(state.drafts, p.draft_hash, d)
        /\ state'.approvals = state.approvals
    BY <1>1, <1>5, SubmitEffect DEF StateFields
  <2>2. p.draft_hash \in DOMAIN state.drafts /\ p.draft_hash \in DOMAIN state.approvals
    BY <2>1 DEF VerifySubmitDraft, HasDraft, HasApproval
  <2>3. d.body = state.drafts[p.draft_hash].body
    <3>1. state.drafts[p.draft_hash] \in Drafts
      BY <2>2 DEF IInv, TypeOK
    <3> QED
      BY <3>1 DEF Submitted, Drafts
  <2>4. e.draft_hash = p.draft_hash /\ e.body = state.drafts[p.draft_hash].body
    <3>1. ExecutionResult(state, p, actor) = SubmitDraftResult(state, p)
      BY <1>5 DEF ExecutionResult
    <3> QED
      BY <3>1 DEF SubmitDraftResult, EmailEffect
  <2> HIDE DEF d, e
  <2>5. /\ DOMAIN state'.drafts = DOMAIN state.drafts
        /\ state'.drafts[p.draft_hash] = d
        /\ \A h \in DOMAIN state.drafts \ {p.draft_hash} : state'.drafts[h] = state.drafts[h]
    BY <2>1, <2>2 DEF RecSet
  <2> QED
    BY <1>1, <1>5, <2>1, <2>2, <2>3, <2>4, <2>5 DEF CustodyStep, DraftsFollow, ApprovalsFollow, DeliveryFollows, e
<1>6. CASE p.t = "post_to_slack"
  <2> DEFINE d == Posted(state.drafts[p.draft_hash], p.channel_id)
             e == ExecutionResult(state, p, actor).effect
  <2>1. /\ VerifyPostToSlack(state, p, Config.policy)
        /\ state'.drafts = RecSet(state.drafts, p.draft_hash, d)
        /\ state'.approvals = state.approvals
    BY <1>1, <1>6, PostEffect DEF StateFields
  <2>2. p.draft_hash \in DOMAIN state.drafts /\ p.draft_hash \in DOMAIN state.approvals
    BY <2>1 DEF VerifyPostToSlack, HasDraft, HasApproval
  <2>3. d.body = state.drafts[p.draft_hash].body
    <3>1. state.drafts[p.draft_hash] \in Drafts
      BY <2>2 DEF IInv, TypeOK
    <3> QED
      BY <3>1 DEF Posted, Drafts
  <2>4. e.draft_hash = p.draft_hash /\ e.body = state.drafts[p.draft_hash].body
    <3>1. ExecutionResult(state, p, actor) = PostToSlackResult(state, p)
      BY <1>6 DEF ExecutionResult
    <3> QED
      BY <3>1 DEF PostToSlackResult, SlackEffect
  <2> HIDE DEF d, e
  <2>5. /\ DOMAIN state'.drafts = DOMAIN state.drafts
        /\ state'.drafts[p.draft_hash] = d
        /\ \A h \in DOMAIN state.drafts \ {p.draft_hash} : state'.drafts[h] = state.drafts[h]
    BY <2>1, <2>2 DEF RecSet
  <2> QED
    BY <1>1, <1>6, <2>1, <2>2, <2>3, <2>4, <2>5 DEF CustodyStep, DraftsFollow, ApprovalsFollow, DeliveryFollows, e
<1> QED
  BY <1>2, <1>3, <1>4, <1>5, <1>6 DEF Tags

\* A delivery follows an approval that follows a writing of exactly the body that
\* is delivered, and the ledger records all three, in that order.
THEOREM DeliveriesInCustody == Spec => []ChainOfCustody
<1>1. Init => CustodyInv
  BY DEF Init, Initial, EmptyRec, CustodyInv
<1>2. ASSUME IInv, IInv', CustodyInv, [Next]_vars
      PROVE  CustodyInv'
  <2>1. CASE UNCHANGED vars
    BY <1>2, <2>1 DEF vars, CustodyInv
  <2>2. CASE Next
    <3>1. PICK p, actor : p.t \in Tags /\ Commit(p, actor)
      BY <2>2, NextCommits
    <3>2. ASSUME NEW h \in DOMAIN state.drafts
          PROVE  /\ h \in DOMAIN state'.drafts
                 /\ state'.drafts[h].body = state.drafts[h].body
      <4>1. DOMAIN state.drafts \subseteq DOMAIN state'.drafts
        BY <1>2, <2>2, NextIsOneCommit DEF OneCommit, IInv
      <4>2. Content(state'.drafts[h]) = Content(state.drafts[h])
        BY <1>2, <4>1, ContentKept
      <4>3. Content(state'.drafts[h]).body = Content(state.drafts[h]).body
        BY <4>2
      <4> QED
        BY <4>1, <4>3 DEF Content
    <3>3. CustodyStep(p, actor)
      BY <1>2, <3>1, CommitInCustody
    <3> QED
      BY <1>2, <3>1, <3>2, <3>3, CustodyKept
  <2> QED
    BY <1>2, <2>1, <2>2
<1>3. CustodyInv => ChainOfCustody
  <2> SUFFICES ASSUME CustodyInv,
                      NEW k \in Positions("submit_draft") \cup Positions("post_to_slack")
               PROVE  LET effect == ResultOf(receipts[k]).effect IN
                      \E j \in Positions("approve_draft"), i \in Positions("create_draft") :
                        /\ i < j /\ j < k
                        /\ ActionOf(receipts[j]).draft_hash = effect.draft_hash
                        /\ ResultOf(receipts[i]).draft_hash = effect.draft_hash
                        /\ ActionOf(receipts[i]).body = effect.body
    BY DEF ChainOfCustody
  <2> DEFINE effect == ResultOf(receipts[k]).effect
  <2>1. InCustody(receipts, k, effect.draft_hash, effect.body)
    BY DEF CustodyInv, Positions
  <2> HIDE DEF effect
  <2>2. \E j \in Positions("approve_draft"), i \in Positions("create_draft") :
          /\ i < j /\ j < k
          /\ ActionOf(receipts[j]).draft_hash = effect.draft_hash
          /\ ResultOf(receipts[i]).draft_hash = effect.draft_hash
          /\ ActionOf(receipts[i]).body = effect.body
    BY <2>1 DEF InCustody, Writes, Positions
  <2> QED
    BY <2>2 DEF effect
<1> QED
  BY <1>1, <1>2, <1>3, SpecIInv, PTL DEF Spec

-----------------------------------------------------------------------------
(***************************************************************************)
(* A draft is mailed at most once for each time it was written.            *)
(***************************************************************************)
MailsOf(h) == {k \in DOMAIN state.submissions : state.submissions[k].draft_hash = h}

WritingsOf(h) == {i \in Positions("create_draft") : ResultOf(receipts[i]).draft_hash = h}

\* The draft that waits to be mailed leaves one writing to spare; a mail is of a
\* stored draft.
WritingsInv ==
  /\ \A k \in DOMAIN state.submissions :
       state.submissions[k].draft_hash \in DOMAIN state.drafts
  /\ \A h \in DOMAIN state.drafts :
       /\ Cardinality(MailsOf(h)) <= Cardinality(WritingsOf(h))
       /\ ~state.drafts[h].deliveries.email.submitted
            => Cardinality(MailsOf(h)) + 1 <= Cardinality(WritingsOf(h))

\* Both can be counted.
LEMMA Countable ==
  ASSUME IInv, NEW h
  PROVE  /\ IsFiniteSet(MailsOf(h)) /\ Cardinality(MailsOf(h)) \in Nat
         /\ IsFiniteSet(WritingsOf(h)) /\ Cardinality(WritingsOf(h)) \in Nat
<1>1. /\ DOMAIN state.submissions = 1..Len(state.submissions)
      /\ Len(state.submissions) \in Nat
      /\ DOMAIN receipts = 1..Len(receipts)
      /\ Len(receipts) \in Nat
  BY DEF IInv, TypeOK
<1>2. IsFiniteSet(1..Len(state.submissions)) /\ IsFiniteSet(1..Len(receipts))
  BY <1>1, FS_Interval
<1>3. MailsOf(h) \subseteq 1..Len(state.submissions) /\ WritingsOf(h) \subseteq 1..Len(receipts)
  BY <1>1 DEF MailsOf, WritingsOf, Positions
<1>4. IsFiniteSet(MailsOf(h)) /\ IsFiniteSet(WritingsOf(h))
  BY <1>2, <1>3, FS_Subset
<1> QED
  BY <1>4, FS_CardinalityType

\* The mails and the writings of a draft before and after a committed call.
LEMMA WritingsGrow ==
  ASSUME IInv, NEW p, NEW actor, Commit(p, actor), NEW h
  PROVE  IF p.t = "create_draft" /\ ExecutionResult(state, p, actor).draft_hash = h
         THEN /\ Len(receipts) + 1 \notin WritingsOf(h)
              /\ WritingsOf(h)' = WritingsOf(h) \cup {Len(receipts) + 1}
         ELSE WritingsOf(h)' = WritingsOf(h)
<1> DEFINE n == Len(receipts)
<1>1. /\ n \in Nat
      /\ DOMAIN receipts = 1..n
      /\ DOMAIN receipts' = 1..(n + 1)
      /\ \A i \in 1..n : receipts'[i] = receipts[i]
      /\ ActionOf(receipts'[n + 1]) = p
      /\ ResultOf(receipts'[n + 1]) = ExecutionResult(state, p, actor)
  BY LedgerGrows
<1>2. /\ WritingsOf(h) = {i \in 1..n : /\ ActionOf(receipts[i]).t = "create_draft"
                                       /\ ResultOf(receipts[i]).draft_hash = h}
      /\ WritingsOf(h)' = {i \in 1..(n + 1) : /\ ActionOf(receipts'[i]).t = "create_draft"
                                              /\ ResultOf(receipts'[i]).draft_hash = h}
  BY <1>1 DEF WritingsOf, Positions
<1>3. n + 1 \notin 1..n /\ 1..(n + 1) = 1..n \cup {n + 1}
  BY <1>1
<1> HIDE DEF n
<1>4. \A i \in 1..n : i \in WritingsOf(h)' <=> i \in WritingsOf(h)
  BY <1>1, <1>2, <1>3
<1>5. n + 1 \in WritingsOf(h)' <=> /\ p.t = "create_draft"
                                  /\ ExecutionResult(state, p, actor).draft_hash = h
  BY <1>1, <1>2, <1>3
<1>6. n + 1 \notin WritingsOf(h) /\ WritingsOf(h) \subseteq 1..n
  BY <1>2, <1>3
<1>7. WritingsOf(h)' \subseteq 1..n \cup {n + 1}
  BY <1>2, <1>3
<1>8. CASE p.t = "create_draft" /\ ExecutionResult(state, p, actor).draft_hash = h
  <2>1. WritingsOf(h)' = WritingsOf(h) \cup {n + 1}
    BY <1>4, <1>5, <1>6, <1>7, <1>8
  <2> QED
    BY <1>6, <1>8, <2>1 DEF n
<1>9. CASE ~(p.t = "create_draft" /\ ExecutionResult(state, p, actor).draft_hash = h)
  <2>1. WritingsOf(h)' = WritingsOf(h)
    BY <1>4, <1>5, <1>6, <1>7, <1>9
  <2> QED
    BY <1>9, <2>1
<1> QED
  BY <1>8, <1>9

\* A call that writes and mails nothing leaves every draft with what it had to spare.
LEMMA WritingsKept ==
  ASSUME IInv, WritingsInv, NEW p, NEW actor, Commit(p, actor), p.t # "create_draft",
         state'.submissions = state.submissions,
         DOMAIN state'.drafts = DOMAIN state.drafts,
         \A h \in DOMAIN state.drafts : state'.drafts[h].deliveries.email.submitted
                                          = state.drafts[h].deliveries.email.submitted
  PROVE  WritingsInv'
<1>1. ASSUME NEW h
      PROVE  MailsOf(h)' = MailsOf(h) /\ WritingsOf(h)' = WritingsOf(h)
  BY WritingsGrow DEF MailsOf
<1> QED
  BY <1>1 DEF WritingsInv

\* A writing leaves one to spare.
LEMMA CreateKeepsWritings ==
  ASSUME IInv, WritingsInv, NEW p, NEW actor, Commit(p, actor), p.t = "create_draft"
  PROVE  WritingsInv'
<1> DEFINE d == NewDraft(p, actor)
           g == d.draft_hash
<1>1. /\ state'.drafts = RecSet(state.drafts, g, d)
      /\ state'.submissions = state.submissions
  <2>1. DOMAIN state = StateFields
    BY DEF IInv, TypeOK
  <2> QED
    BY <2>1, CreateEffect DEF StateFields
<1>2. ExecutionResult(state, p, actor).draft_hash = g
  BY DEF ExecutionResult, CreateDraftResult
<1> HIDE DEF d, g
<1>3. /\ DOMAIN state'.drafts = DOMAIN state.drafts \cup {g}
      /\ \A h \in DOMAIN state.drafts \ {g} : state'.drafts[h] = state.drafts[h]
  BY <1>1 DEF RecSet
<1>4. ASSUME NEW h
      PROVE  MailsOf(h)' = MailsOf(h)
  BY <1>1 DEF MailsOf
<1>5. ASSUME NEW h, h # g
      PROVE  WritingsOf(h)' = WritingsOf(h)
  BY <1>2, <1>5, WritingsGrow
<1>6. Cardinality(WritingsOf(g)') = Cardinality(WritingsOf(g)) + 1
  <2>1. /\ Len(receipts) + 1 \notin WritingsOf(g)
        /\ WritingsOf(g)' = WritingsOf(g) \cup {Len(receipts) + 1}
    BY <1>2, WritingsGrow
  <2>2. IsFiniteSet(WritingsOf(g))
    BY Countable
  <2> QED
    BY <2>1, <2>2, OneMore
<1>7. Cardinality(MailsOf(g)) <= Cardinality(WritingsOf(g))
  <2>1. CASE g \in DOMAIN state.drafts
    BY <2>1 DEF WritingsInv
  <2>2. CASE g \notin DOMAIN state.drafts
    <3>1. MailsOf(g) = {}
      BY <2>2 DEF WritingsInv, MailsOf
    <3>2. Cardinality(MailsOf(g)) = 0
      BY <3>1, FS_EmptySet
    <3> QED
      BY <3>2, Countable
  <2> QED
    BY <2>1, <2>2
<1>8. /\ Cardinality(MailsOf(g)) \in Nat
      /\ Cardinality(WritingsOf(g)) \in Nat
  BY Countable
<1>9. ASSUME NEW h \in DOMAIN state'.drafts
      PROVE  /\ Cardinality(MailsOf(h)') <= Cardinality(WritingsOf(h)')
             /\ ~state'.drafts[h].deliveries.email.submitted
                  => Cardinality(MailsOf(h)') + 1 <= Cardinality(WritingsOf(h)')
  <2>1. CASE h = g
    BY <1>4, <1>6, <1>7, <1>8, <2>1
  <2>2. CASE h # g
    <3>1. h \in DOMAIN state.drafts /\ state'.drafts[h] = state.drafts[h]
      BY <1>3, <2>2
    <3>2. MailsOf(h)' = MailsOf(h) /\ WritingsOf(h)' = WritingsOf(h)
      BY <1>4, <1>5, <2>2
    <3> QED
      BY <3>1, <3>2 DEF WritingsInv
  <2> QED
    BY <2>1, <2>2
<1> QED
  BY <1>1, <1>3, <1>9 DEF WritingsInv

\* A mail uses up the writing the draft had to spare.
LEMMA SubmitKeepsWritings ==
  ASSUME IInv, WritingsInv, NEW p, NEW actor, Commit(p, actor), p.t = "submit_draft"
  PROVE  WritingsInv'
<1> DEFINE g == p.draft_hash
           d == Submitted(state.drafts[g], p.recipient)
           n == Len(state.submissions)
<1>1. /\ g \in DOMAIN state.drafts
      /\ ~state.drafts[g].deliveries.email.submitted
      /\ state'.drafts = RecSet(state.drafts, g, d)
      /\ state'.submissions = Append(state.submissions, EmailEffect(state, p))
  <2>1. DOMAIN state = StateFields
    BY DEF IInv, TypeOK
  <2> QED
    BY <2>1, SubmitEffect DEF VerifySubmitDraft, HasDraft
<1>2. d.deliveries.email.submitted
  <2>1. state.drafts[g] \in Drafts
    BY <1>1 DEF IInv, TypeOK
  <2> QED
    BY <2>1 DEF Submitted, Drafts
<1>3. /\ n \in Nat
      /\ DOMAIN state.submissions = 1..n
      /\ DOMAIN state'.submissions = 1..(n + 1)
      /\ \A k \in 1..n : state'.submissions[k] = state.submissions[k]
      /\ state'.submissions[n + 1].draft_hash = g
  <2>1. EmailEffect(state, p).draft_hash = g
    BY DEF EmailEffect
  <2> DEFINE e == EmailEffect(state, p)
  <2> HIDE DEF e
  <2>2. state'.submissions = Append(state.submissions, e)
    BY <1>1 DEF e
  <2>3. /\ n \in Nat
        /\ DOMAIN state.submissions = 1..n
        /\ DOMAIN state'.submissions = 1..(n + 1)
        /\ \A k \in 1..n : state'.submissions[k] = state.submissions[k]
        /\ state'.submissions[n + 1] = e
    BY <2>2 DEF IInv, TypeOK
  <2> QED
    BY <2>1, <2>3 DEF e
<1> HIDE DEF d, g, n
<1>4. /\ DOMAIN state'.drafts = DOMAIN state.drafts
      /\ state'.drafts[g] = d
      /\ \A h \in DOMAIN state.drafts \ {g} : state'.drafts[h] = state.drafts[h]
  BY <1>1 DEF RecSet
<1>5. ASSUME NEW h
      PROVE  WritingsOf(h)' = WritingsOf(h)
  BY WritingsGrow
<1>6. n + 1 \notin 1..n /\ 1..(n + 1) = 1..n \cup {n + 1}
  BY <1>3
<1>7. ASSUME NEW h, h # g
      PROVE  MailsOf(h)' = MailsOf(h)
  BY <1>3, <1>6, <1>7 DEF MailsOf
<1>8. /\ n + 1 \notin MailsOf(g)
      /\ MailsOf(g)' = MailsOf(g) \cup {n + 1}
  BY <1>3, <1>6 DEF MailsOf
<1>9. Cardinality(MailsOf(g)') = Cardinality(MailsOf(g)) + 1
  <2>1. IsFiniteSet(MailsOf(g))
    BY Countable
  <2> QED
    BY <1>8, <2>1, OneMore
<1>10. ASSUME NEW h \in DOMAIN state'.drafts
       PROVE  /\ Cardinality(MailsOf(h)') <= Cardinality(WritingsOf(h)')
              /\ ~state'.drafts[h].deliveries.email.submitted
                   => Cardinality(MailsOf(h)') + 1 <= Cardinality(WritingsOf(h)')
  <2>1. CASE h = g
    <3>1. Cardinality(MailsOf(g)) + 1 <= Cardinality(WritingsOf(g))
      BY <1>1 DEF WritingsInv
    <3> QED
      BY <1>2, <1>4, <1>5, <1>9, <2>1, <3>1
  <2>2. CASE h # g
    <3>1. h \in DOMAIN state.drafts /\ state'.drafts[h] = state.drafts[h]
      BY <1>4, <2>2
    <3>2. MailsOf(h)' = MailsOf(h) /\ WritingsOf(h)' = WritingsOf(h)
      BY <1>5, <1>7, <2>2
    <3> QED
      BY <3>1, <3>2 DEF WritingsInv
  <2> QED
    BY <2>1, <2>2
<1>11. ASSUME NEW k \in DOMAIN state'.submissions
       PROVE  state'.submissions[k].draft_hash \in DOMAIN state'.drafts
  BY <1>1, <1>3, <1>4, <1>6 DEF WritingsInv
<1> QED
  BY <1>10, <1>11 DEF WritingsInv

\* A post is marked on the draft apart from its mail.
LEMMA PostKeepsWritings ==
  ASSUME IInv, WritingsInv, NEW p, NEW actor, Commit(p, actor), p.t = "post_to_slack"
  PROVE  WritingsInv'
<1> DEFINE g == p.draft_hash
           d == Posted(state.drafts[g], p.channel_id)
<1>1. /\ g \in DOMAIN state.drafts
      /\ state'.drafts = RecSet(state.drafts, g, d)
      /\ state'.submissions = state.submissions
  <2>1. DOMAIN state = StateFields
    BY DEF IInv, TypeOK
  <2> QED
    BY <2>1, PostEffect DEF VerifyPostToSlack, HasDraft, StateFields
<1>2. d.deliveries.email.submitted = state.drafts[g].deliveries.email.submitted
  <2>1. state.drafts[g] \in Drafts
    BY <1>1 DEF IInv, TypeOK
  <2> QED
    BY <2>1 DEF Posted, Drafts
<1> HIDE DEF d, g
<1>3. /\ DOMAIN state'.drafts = DOMAIN state.drafts
      /\ \A h \in DOMAIN state.drafts :
           state'.drafts[h] = IF h = g THEN d ELSE state.drafts[h]
  BY <1>1 DEF RecSet
<1>4. \A h \in DOMAIN state.drafts : state'.drafts[h].deliveries.email.submitted
                                       = state.drafts[h].deliveries.email.submitted
  BY <1>2, <1>3
<1> QED
  BY <1>1, <1>3, <1>4, WritingsKept

\* A draft is mailed at most once for each time it was written.
THEOREM MailedPerWriting == Spec => []MailedOncePerWriting
<1>1. Init => WritingsInv
  BY DEF Init, Initial, EmptyRec, WritingsInv
<1>2. ASSUME IInv, WritingsInv, [Next]_vars
      PROVE  WritingsInv'
  <2>1. CASE UNCHANGED vars
    <3>1. ASSUME NEW h
          PROVE  MailsOf(h)' = MailsOf(h) /\ WritingsOf(h)' = WritingsOf(h)
      BY <2>1 DEF vars, MailsOf, WritingsOf, Positions
    <3> QED
      BY <1>2, <2>1, <3>1 DEF vars, WritingsInv
  <2>2. CASE Next
    <3>1. PICK p, actor : p.t \in Tags /\ Commit(p, actor)
      BY <2>2, NextCommits
    <3>2. DOMAIN state = StateFields
      BY <1>2 DEF IInv, TypeOK
    <3>3. CASE p.t = "read_invoice"
      <4>1. state'.drafts = state.drafts /\ state'.submissions = state.submissions
        BY <3>1, <3>2, <3>3, ReadEffect DEF StateFields
      <4> QED
        BY <1>2, <3>1, <3>3, <4>1, WritingsKept
    <3>4. CASE p.t = "approve_draft"
      <4>1. state'.drafts = state.drafts /\ state'.submissions = state.submissions
        BY <3>1, <3>2, <3>4, ApproveEffect DEF StateFields
      <4> QED
        BY <1>2, <3>1, <3>4, <4>1, WritingsKept
    <3> QED
      BY <1>2, <3>1, <3>3, <3>4, CreateKeepsWritings, SubmitKeepsWritings,
         PostKeepsWritings DEF Tags
  <2> QED
    BY <1>2, <2>1, <2>2
<1>3. WritingsInv => MailedOncePerWriting
  BY DEF WritingsInv, MailedOncePerWriting, MailsOf, WritingsOf
<1> QED
  BY <1>1, <1>2, <1>3, SpecIInv, PTL DEF Spec

-----------------------------------------------------------------------------
(***************************************************************************)
(* The effects are those of the receipts.                                  *)
(***************************************************************************)

\* The positions of an operation can be counted, and so can their places.
LEMMA Placed ==
  ASSUME IInv, NEW tag
  PROVE  /\ IsFiniteSet(Positions(tag))
         /\ Cardinality(Positions(tag)) \in Nat
         /\ \A k \in Positions(tag) : Place(k, Positions(tag)) \in 1..Cardinality(Positions(tag))
<1>1. DOMAIN receipts = 1..Len(receipts) /\ Len(receipts) \in Nat
  BY DEF IInv, TypeOK
<1>2. IsFiniteSet(Positions(tag)) /\ Cardinality(Positions(tag)) \in Nat
  <2>1. IsFiniteSet(1..Len(receipts)) /\ Positions(tag) \subseteq 1..Len(receipts)
    BY <1>1, FS_Interval DEF Positions
  <2> QED
    BY <2>1, FS_Subset, FS_CardinalityType
<1>3. ASSUME NEW k \in Positions(tag)
      PROVE  Place(k, Positions(tag)) \in 1..Cardinality(Positions(tag))
  <2> DEFINE U == {j \in Positions(tag) : j <= k}
  <2>1. k \in Nat
    BY <1>1 DEF Positions
  <2>2. U \subseteq Positions(tag) /\ k \in U
    BY <2>1
  <2> HIDE DEF U
  <2>3. /\ IsFiniteSet(U)
        /\ Cardinality(U) \in Nat
        /\ Cardinality(U) <= Cardinality(Positions(tag))
    BY <1>2, <2>2, FS_Subset, FS_CardinalityType
  <2>4. Cardinality(U) # 0
    BY <2>2, <2>3, FS_EmptySet
  <2> QED
    BY <1>2, <2>3, <2>4 DEF Place, U
<1> QED
  BY <1>2, <1>3

\* A commit of another operation leaves the positions of this one; a commit of
\* this one is placed behind all others.
LEMMA PlacesGrow ==
  ASSUME IInv, NEW p, NEW actor, Commit(p, actor), NEW tag
  PROVE  LET n == Len(receipts)
         IN  /\ \A k \in Positions(tag) : /\ k \in 1..n
                                         /\ Place(k, Positions(tag)') = Place(k, Positions(tag))
             /\ IF p.t = tag
                THEN /\ Positions(tag)' = Positions(tag) \cup {n + 1}
                     /\ Cardinality(Positions(tag)') = Cardinality(Positions(tag)) + 1
                     /\ Place(n + 1, Positions(tag)') = Cardinality(Positions(tag)) + 1
                ELSE Positions(tag)' = Positions(tag)
<1> DEFINE n == Len(receipts)
<1>1. /\ n \in Nat
      /\ DOMAIN receipts = 1..n
      /\ DOMAIN receipts' = 1..(n + 1)
      /\ \A i \in 1..n : receipts'[i] = receipts[i]
      /\ ActionOf(receipts'[n + 1]) = p
  BY LedgerGrows
<1>2. /\ Positions(tag) = {i \in 1..n : ActionOf(receipts[i]).t = tag}
      /\ Positions(tag)' = {i \in 1..(n + 1) : ActionOf(receipts'[i]).t = tag}
  BY <1>1 DEF Positions
<1>3. n + 1 \notin 1..n /\ 1..(n + 1) = 1..n \cup {n + 1}
  BY <1>1
<1> HIDE DEF n
<1>4. Positions(tag) \subseteq 1..n
  BY <1>2
<1>5. IF p.t = tag THEN Positions(tag)' = Positions(tag) \cup {n + 1}
                   ELSE Positions(tag)' = Positions(tag)
  <2>1. \A i \in 1..n : i \in Positions(tag)' <=> i \in Positions(tag)
    BY <1>1, <1>2, <1>3
  <2>2. n + 1 \in Positions(tag)' <=> p.t = tag
    BY <1>1, <1>2, <1>3
  <2>3. Positions(tag)' \subseteq 1..n \cup {n + 1}
    BY <1>2, <1>3
  <2>4. CASE p.t = tag
    BY <1>4, <2>1, <2>2, <2>3, <2>4
  <2>5. CASE p.t # tag
    BY <1>4, <2>1, <2>2, <2>3, <2>5
  <2> QED
    BY <2>4, <2>5
<1>6. ASSUME NEW k \in Positions(tag)
      PROVE  Place(k, Positions(tag)') = Place(k, Positions(tag))
  <2>1. {j \in Positions(tag)' : j <= k} = {j \in Positions(tag) : j <= k}
    <3>1. ~(n + 1 <= k)
      BY <1>1, <1>4
    <3> QED
      BY <1>5, <3>1
  <2> QED
    BY <2>1 DEF Place
<1>7. ASSUME p.t = tag
      PROVE  /\ Cardinality(Positions(tag)') = Cardinality(Positions(tag)) + 1
             /\ Place(n + 1, Positions(tag)') = Cardinality(Positions(tag)) + 1
  <2>1. Positions(tag)' = Positions(tag) \cup {n + 1} /\ n + 1 \notin Positions(tag)
    BY <1>3, <1>4, <1>5, <1>7
  <2>2. Cardinality(Positions(tag)') = Cardinality(Positions(tag)) + 1
    <3>1. IsFiniteSet(Positions(tag))
      BY Placed
    <3> QED
      BY <2>1, <3>1, OneMore
  <2>3. {j \in Positions(tag)' : j <= n + 1} = Positions(tag)'
    BY <1>1, <1>4, <2>1
  <2> QED
    BY <2>2, <2>3 DEF Place
<1> QED
  BY <1>4, <1>5, <1>6, <1>7 DEF n

\* A commit appends its effect to the effects of its operation.
LEMMA EffectAppended ==
  ASSUME IInv, NEW p, NEW actor, Commit(p, actor),
         NEW effects, effects \in Seq(Elements(effects)), Recorded(effects, p.t),
         NEW e, e = ExecutionResult(state, p, actor).effect
  PROVE  Recorded(Append(effects, e), p.t)'
<1> DEFINE n == Len(receipts)
           m == Cardinality(Positions(p.t))
<1>1. /\ n \in Nat
      /\ \A i \in 1..n : receipts'[i] = receipts[i]
      /\ ResultOf(receipts'[n + 1]).effect = e
  BY LedgerGrows
<1>2. /\ \A k \in Positions(p.t) : k \in 1..n /\ Place(k, Positions(p.t)') = Place(k, Positions(p.t))
      /\ Positions(p.t)' = Positions(p.t) \cup {n + 1}
      /\ Cardinality(Positions(p.t)') = m + 1
      /\ Place(n + 1, Positions(p.t)') = m + 1
  BY PlacesGrow
<1>3. \A k \in Positions(p.t) : Place(k, Positions(p.t)) \in 1..m
  BY Placed
<1>4. Len(effects) = m /\ \A k \in Positions(p.t) :
        effects[Place(k, Positions(p.t))] = ResultOf(receipts[k]).effect
  BY DEF Recorded
<1> HIDE DEF n, m
<1> DEFINE longer == Append(effects, e)
<1>5. /\ Len(longer) = m + 1
      /\ \A i \in 1..m : longer[i] = effects[i]
      /\ longer[m + 1] = e
  BY <1>4
<1> HIDE DEF longer
<1>6. ASSUME NEW k \in Positions(p.t)'
      PROVE  longer[Place(k, Positions(p.t)')] = ResultOf(receipts'[k]).effect
  <2>1. CASE k \in Positions(p.t)
    BY <1>1, <1>2, <1>3, <1>4, <1>5, <2>1
  <2>2. CASE k = n + 1
    BY <1>1, <1>2, <1>5, <2>2
  <2> QED
    BY <1>2, <2>1, <2>2
<1>7. Len(longer) = Cardinality(Positions(p.t)')
  BY <1>2, <1>5
<1> QED
  BY <1>6, <1>7 DEF Recorded, longer

\* A commit of another operation leaves what was recorded of this one.
LEMMA RecordLasts ==
  ASSUME IInv, NEW p, NEW actor, Commit(p, actor), NEW tag, p.t # tag,
         NEW effects, Recorded(effects, tag)
  PROVE  Recorded(effects, tag)'
<1>1. /\ \A k \in Positions(tag) : /\ k \in 1..Len(receipts)
                                  /\ Place(k, Positions(tag)') = Place(k, Positions(tag))
      /\ Positions(tag)' = Positions(tag)
  BY PlacesGrow
<1>2. \A i \in 1..Len(receipts) : receipts'[i] = receipts[i]
  BY LedgerGrows
<1> QED
  BY <1>1, <1>2 DEF Recorded

\* What the mails and the posts are after a commit.
LEMMA EffectsGrow ==
  ASSUME IInv, NEW p, NEW actor, p.t \in Tags, Commit(p, actor)
  PROVE  LET e == ExecutionResult(state, p, actor).effect
         IN  /\ state'.submissions = IF p.t = "submit_draft"
                                     THEN Append(state.submissions, e)
                                     ELSE state.submissions
             /\ state'.slack_posts = IF p.t = "post_to_slack"
                                     THEN Append(state.slack_posts, e)
                                     ELSE state.slack_posts
<1>1. DOMAIN state = StateFields
  BY DEF IInv, TypeOK
<1>2. CASE p.t = "read_invoice"
  BY <1>1, <1>2, ReadEffect DEF StateFields
<1>3. CASE p.t = "create_draft"
  BY <1>1, <1>3, CreateEffect DEF StateFields
<1>4. CASE p.t = "approve_draft"
  BY <1>1, <1>4, ApproveEffect DEF StateFields
<1>5. CASE p.t = "submit_draft"
  <2>1. ExecutionResult(state, p, actor).effect = EmailEffect(state, p)
    BY <1>5 DEF ExecutionResult, SubmitDraftResult
  <2>2. /\ state'.submissions = Append(state.submissions, EmailEffect(state, p))
        /\ state'.slack_posts = state.slack_posts
    BY <1>1, <1>5, SubmitEffect DEF StateFields
  <2> QED
    BY <1>5, <2>1, <2>2
<1>6. CASE p.t = "post_to_slack"
  <2>1. ExecutionResult(state, p, actor).effect = SlackEffect(state, p)
    BY <1>6 DEF ExecutionResult, PostToSlackResult
  <2>2. /\ state'.slack_posts = Append(state.slack_posts, SlackEffect(state, p))
        /\ state'.submissions = state.submissions
    BY <1>1, <1>6, PostEffect DEF StateFields
  <2> QED
    BY <1>6, <2>1, <2>2
<1> QED
  BY <1>2, <1>3, <1>4, <1>5, <1>6 DEF Tags

\* The mails and the posts are, one for one and in order, the effects that the
\* receipts of the ledger record.
THEOREM EffectsAreAudited == Spec => []EffectsAudited
<1>1. Init => EffectsAudited
  <2> SUFFICES ASSUME Init PROVE EffectsAudited
    OBVIOUS
  <2>1. /\ state.submissions = <<>> /\ state.slack_posts = <<>>
        /\ \A tag : Positions(tag) = {}
    BY DEF Init, Initial, Positions
  <2> QED
    BY <2>1, FS_EmptySet DEF EffectsAudited, Recorded
<1>2. ASSUME IInv, EffectsAudited, [Next]_vars
      PROVE  EffectsAudited'
  <2>1. CASE UNCHANGED vars
    BY <1>2, <2>1 DEF vars, EffectsAudited, Recorded, Positions
  <2>2. CASE Next
    <3>1. PICK p, actor : p.t \in Tags /\ Commit(p, actor)
      BY <2>2, NextCommits
    <3>2. PICK mails, posts : mails = state.submissions /\ posts = state.slack_posts
      OBVIOUS
    <3>3. PICK e : e = ExecutionResult(state, p, actor).effect
      OBVIOUS
    <3>4. /\ mails \in Seq(Elements(mails)) /\ posts \in Seq(Elements(posts))
      BY <1>2, <3>2 DEF IInv, TypeOK
    <3>5. Recorded(mails, "submit_draft") /\ Recorded(posts, "post_to_slack")
      BY <1>2, <3>2 DEF EffectsAudited
    <3>6. Recorded(state.submissions, "submit_draft")'
      <4>1. CASE p.t = "submit_draft"
        <5>1. Recorded(Append(mails, e), "submit_draft")'
          BY <1>2, <3>1, <3>3, <3>4, <3>5, <4>1, EffectAppended
        <5>2. state'.submissions = Append(mails, e)
          BY <1>2, <3>1, <3>2, <3>3, <4>1, EffectsGrow
        <5> QED
          BY <5>1, <5>2 DEF Recorded
      <4>2. CASE p.t # "submit_draft"
        <5>1. Recorded(mails, "submit_draft")'
          BY <1>2, <3>1, <3>5, <4>2, RecordLasts
        <5>2. state'.submissions = mails
          BY <1>2, <3>1, <3>2, <4>2, EffectsGrow
        <5> QED
          BY <5>1, <5>2 DEF Recorded
      <4> QED
        BY <4>1, <4>2
    <3>7. Recorded(state.slack_posts, "post_to_slack")'
      <4>1. CASE p.t = "post_to_slack"
        <5>1. Recorded(Append(posts, e), "post_to_slack")'
          BY <1>2, <3>1, <3>3, <3>4, <3>5, <4>1, EffectAppended
        <5>2. state'.slack_posts = Append(posts, e)
          BY <1>2, <3>1, <3>2, <3>3, <4>1, EffectsGrow
        <5> QED
          BY <5>1, <5>2 DEF Recorded
      <4>2. CASE p.t # "post_to_slack"
        <5>1. Recorded(posts, "post_to_slack")'
          BY <1>2, <3>1, <3>5, <4>2, RecordLasts
        <5>2. state'.slack_posts = posts
          BY <1>2, <3>1, <3>2, <4>2, EffectsGrow
        <5> QED
          BY <5>1, <5>2 DEF Recorded
      <4> QED
        BY <4>1, <4>2
    <3> QED
      BY <3>6, <3>7 DEF EffectsAudited
  <2> QED
    BY <1>2, <2>1, <2>2
<1> QED
  BY <1>1, <1>2, SpecIInv, PTL DEF Spec
=============================================================================
