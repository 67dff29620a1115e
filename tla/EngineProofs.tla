---------------------------- MODULE EngineProofs ----------------------------
(***************************************************************************)
(* Proofs about Engine, for every configuration and every set of inputs.   *)
(* First what a committed call of each operation does to the fields of the *)
(* state, then the inductive invariant, then the theorems.                 *)
(***************************************************************************)
EXTENDS Engine, FiniteSetTheorems, SequenceTheorems, TLAPS

-----------------------------------------------------------------------------
(***************************************************************************)
(* What each execution branch does to each field of a state.               *)
(***************************************************************************)

\* Linking a state to its receipt changes that link only.
LEMMA LinkedFields ==
  ASSUME NEW s, NEW r, DOMAIN s = StateFields
  PROVE  /\ DOMAIN WithPreviousReceipt(s, r) = StateFields
         /\ \A f \in StateFields \ {"previous_receipt_hash"} :
              WithPreviousReceipt(s, r)[f] = s[f]
  BY DEF WithPreviousReceipt, StateFields

\* What each branch of the executor does to each field, linked to its receipt:
\* a read,
LEMMA ReadFields ==
  ASSUME NEW s, NEW a, DOMAIN s = StateFields
  PROVE  LET t == AfterReadInvoice(s, a)
         IN  /\ DOMAIN t = StateFields
             /\ t.sequence = s.sequence + 1
             /\ t.consumed_nonces = ConsumeNonce(s, a.nonce)
             /\ \A f \in StateFields \ {"sequence", "consumed_nonces"} : t[f] = s[f]
  BY DEF AfterReadInvoice, StateFields

\* create_draft,
LEMMA CreateFields ==
  ASSUME NEW s, NEW a, NEW actor, DOMAIN s = StateFields
  PROVE  LET t == AfterCreateDraft(s, a, actor)
         IN  /\ DOMAIN t = StateFields
             /\ t.sequence = s.sequence + 1
             /\ t.consumed_nonces = ConsumeNonce(s, a.nonce)
             /\ t.counters = Count(s.counters, "drafted_total")
             /\ t.drafts = RecSet(s.drafts, NewDraft(a, actor).draft_hash, NewDraft(a, actor))
             /\ \A f \in StateFields \ {"sequence", "consumed_nonces", "counters",
                                      "drafts"} : t[f] = s[f]
  BY DEF AfterCreateDraft, Step, StateFields

\* approve_draft,
LEMMA ApproveFields ==
  ASSUME NEW s, NEW a, NEW actor, DOMAIN s = StateFields
  PROVE  LET t == AfterApproveDraft(s, a, actor)
         IN  /\ DOMAIN t = StateFields
             /\ t.sequence = s.sequence + 1
             /\ t.consumed_nonces = ConsumeNonce(s, a.nonce)
             /\ t.counters = Count(s.counters, "approved_total")
             /\ t.approvals = RecSet(s.approvals, a.draft_hash, Approval(s, a, actor))
             /\ \A f \in StateFields \ {"sequence", "consumed_nonces", "counters",
                                      "approvals"} : t[f] = s[f]
  BY DEF AfterApproveDraft, Step, StateFields

\* submit_draft,
LEMMA SubmitFields ==
  ASSUME NEW s, NEW a, DOMAIN s = StateFields
  PROVE  LET t == AfterSubmitDraft(s, a)
         IN  /\ DOMAIN t = StateFields
             /\ t.sequence = s.sequence + 1
             /\ t.consumed_nonces = ConsumeNonce(s, a.nonce)
             /\ t.counters = Count(s.counters, "submitted_total")
             /\ t.drafts = RecSet(s.drafts, a.draft_hash,
                               Submitted(s.drafts[a.draft_hash], a.recipient))
             /\ t.submissions = Append(s.submissions, EmailEffect(s, a))
             /\ \A f \in StateFields \ {"sequence", "consumed_nonces", "counters",
                                      "drafts", "submissions"} : t[f] = s[f]
  BY DEF AfterSubmitDraft, Step, StateFields

\* and post_to_slack.
LEMMA PostFields ==
  ASSUME NEW s, NEW a, DOMAIN s = StateFields
  PROVE  LET t == AfterPostToSlack(s, a)
         IN  /\ DOMAIN t = StateFields
             /\ t.sequence = s.sequence + 1
             /\ t.consumed_nonces = ConsumeNonce(s, a.nonce)
             /\ t.counters = Count(s.counters, "slack_posted_total")
             /\ t.drafts = RecSet(s.drafts, a.draft_hash,
                               Posted(s.drafts[a.draft_hash], a.channel_id))
             /\ t.slack_posts = Append(s.slack_posts, SlackEffect(s, a))
             /\ \A f \in StateFields \ {"sequence", "consumed_nonces", "counters",
                                      "drafts", "slack_posts"} : t[f] = s[f]
  BY DEF AfterPostToSlack, Step, StateFields

-----------------------------------------------------------------------------
(***************************************************************************)
(* What a committed call of each operation does to the variables, and what *)
(* the policy kernel has established of it.                                *)
(***************************************************************************)

\* A commit runs the branch of its tag and appends one receipt.
LEMMA CommitEffect ==
  ASSUME NEW p, NEW actor, Commit(p, actor), DOMAIN ExecutionState(state, p, actor) = StateFields
  PROVE  /\ Verify(state, p, actor, Config.capabilities, Config.policy)
         /\ \E r : receipts' = Append(receipts, r)
         /\ DOMAIN state' = StateFields
         /\ \A f \in StateFields \ {"previous_receipt_hash"} :
              state'[f] = ExecutionState(state, p, actor)[f]
<1>1. /\ Verify(state, p, actor, Config.capabilities, Config.policy)
      /\ receipts' = Append(receipts, ReceiptFor(state, p, actor))
      /\ state' = WithPreviousReceipt(ExecutionState(state, p, actor),
                                      ReceiptFor(state, p, actor).receipt_hash)
  BY DEF Commit, Commits, Allowed, NextState
<1> QED
  BY <1>1, LinkedFields

\* A committed read changes nothing but the sequence and the nonces.
LEMMA ReadEffect ==
  ASSUME NEW p, NEW actor, Commit(p, actor), p.t = "read_invoice",
         DOMAIN state = StateFields
  PROVE  /\ CommonChecks(state, p, actor, Config.capabilities, Config.policy)
         /\ \E r : receipts' = Append(receipts, r)
         /\ DOMAIN state' = StateFields
         /\ state'.sequence = state.sequence + 1
         /\ state'.consumed_nonces = state.consumed_nonces \cup {p.nonce}
         /\ VerifyReadInvoice(state, p)
         /\ \A f \in StateFields \ {"previous_receipt_hash", "sequence", "consumed_nonces"} :
              state'[f] = state[f]
<1> DEFINE t == AfterReadInvoice(state, p)
<1>1. ExecutionState(state, p, actor) = t
  BY DEF ExecutionState
<1>2. DOMAIN t = StateFields
  BY ReadFields
<1>3. /\ Verify(state, p, actor, Config.capabilities, Config.policy)
      /\ \E r : receipts' = Append(receipts, r)
      /\ DOMAIN state' = StateFields
      /\ \A f \in StateFields \ {"previous_receipt_hash"} : state'[f] = t[f]
  BY <1>1, <1>2, CommitEffect
<1> QED
  BY <1>3, ReadFields DEF StateFields, Verify, ConsumeNonce

\* A committed create_draft stores the new draft under its hash.
LEMMA CreateEffect ==
  ASSUME NEW p, NEW actor, Commit(p, actor), p.t = "create_draft",
         DOMAIN state = StateFields
  PROVE  /\ CommonChecks(state, p, actor, Config.capabilities, Config.policy)
         /\ \E r : receipts' = Append(receipts, r)
         /\ DOMAIN state' = StateFields
         /\ state'.sequence = state.sequence + 1
         /\ state'.consumed_nonces = state.consumed_nonces \cup {p.nonce}
         /\ VerifyCreateDraft(state, p, Config.policy)
         /\ state'.counters = Count(state.counters, "drafted_total")
         /\ state'.drafts = RecSet(state.drafts, NewDraft(p, actor).draft_hash, NewDraft(p, actor))
         /\ \A f \in StateFields \ {"previous_receipt_hash", "sequence", "consumed_nonces",
                                "counters", "drafts"} :
              state'[f] = state[f]
<1> DEFINE t == AfterCreateDraft(state, p, actor)
<1>1. ExecutionState(state, p, actor) = t
  BY DEF ExecutionState
<1>2. DOMAIN t = StateFields
  BY CreateFields
<1>3. /\ Verify(state, p, actor, Config.capabilities, Config.policy)
      /\ \E r : receipts' = Append(receipts, r)
      /\ DOMAIN state' = StateFields
      /\ \A f \in StateFields \ {"previous_receipt_hash"} : state'[f] = t[f]
  BY <1>1, <1>2, CommitEffect
<1> QED
  BY <1>3, CreateFields DEF StateFields, Verify, ConsumeNonce

\* A committed approve_draft records one approval.
LEMMA ApproveEffect ==
  ASSUME NEW p, NEW actor, Commit(p, actor), p.t = "approve_draft",
         DOMAIN state = StateFields
  PROVE  /\ CommonChecks(state, p, actor, Config.capabilities, Config.policy)
         /\ \E r : receipts' = Append(receipts, r)
         /\ DOMAIN state' = StateFields
         /\ state'.sequence = state.sequence + 1
         /\ state'.consumed_nonces = state.consumed_nonces \cup {p.nonce}
         /\ VerifyApproveDraft(state, p, actor, Config.capabilities, Config.policy)
         /\ state'.counters = Count(state.counters, "approved_total")
         /\ state'.approvals = RecSet(state.approvals, p.draft_hash, Approval(state, p, actor))
         /\ \A f \in StateFields \ {"previous_receipt_hash", "sequence", "consumed_nonces",
                                "counters", "approvals"} :
              state'[f] = state[f]
<1> DEFINE t == AfterApproveDraft(state, p, actor)
<1>1. ExecutionState(state, p, actor) = t
  BY DEF ExecutionState
<1>2. DOMAIN t = StateFields
  BY ApproveFields
<1>3. /\ Verify(state, p, actor, Config.capabilities, Config.policy)
      /\ \E r : receipts' = Append(receipts, r)
      /\ DOMAIN state' = StateFields
      /\ \A f \in StateFields \ {"previous_receipt_hash"} : state'[f] = t[f]
  BY <1>1, <1>2, CommitEffect
<1> QED
  BY <1>3, ApproveFields DEF StateFields, Verify, ConsumeNonce

\* A committed submit_draft marks the draft and appends one mail.
LEMMA SubmitEffect ==
  ASSUME NEW p, NEW actor, Commit(p, actor), p.t = "submit_draft",
         DOMAIN state = StateFields
  PROVE  /\ CommonChecks(state, p, actor, Config.capabilities, Config.policy)
         /\ \E r : receipts' = Append(receipts, r)
         /\ DOMAIN state' = StateFields
         /\ state'.sequence = state.sequence + 1
         /\ state'.consumed_nonces = state.consumed_nonces \cup {p.nonce}
         /\ VerifySubmitDraft(state, p, Config.policy)
         /\ state'.counters = Count(state.counters, "submitted_total")
         /\ state'.drafts = RecSet(state.drafts, p.draft_hash,
                              Submitted(state.drafts[p.draft_hash], p.recipient))
         /\ state'.submissions = Append(state.submissions, EmailEffect(state, p))
         /\ \A f \in StateFields \ {"previous_receipt_hash", "sequence", "consumed_nonces",
                                "counters", "drafts", "submissions"} :
              state'[f] = state[f]
<1> DEFINE t == AfterSubmitDraft(state, p)
<1>1. ExecutionState(state, p, actor) = t
  BY DEF ExecutionState
<1>2. DOMAIN t = StateFields
  BY SubmitFields
<1>3. /\ Verify(state, p, actor, Config.capabilities, Config.policy)
      /\ \E r : receipts' = Append(receipts, r)
      /\ DOMAIN state' = StateFields
      /\ \A f \in StateFields \ {"previous_receipt_hash"} : state'[f] = t[f]
  BY <1>1, <1>2, CommitEffect
<1> QED
  BY <1>3, SubmitFields DEF StateFields, Verify, ConsumeNonce

\* A committed post_to_slack marks the channel and appends one post.
LEMMA PostEffect ==
  ASSUME NEW p, NEW actor, Commit(p, actor), p.t = "post_to_slack",
         DOMAIN state = StateFields
  PROVE  /\ CommonChecks(state, p, actor, Config.capabilities, Config.policy)
         /\ \E r : receipts' = Append(receipts, r)
         /\ DOMAIN state' = StateFields
         /\ state'.sequence = state.sequence + 1
         /\ state'.consumed_nonces = state.consumed_nonces \cup {p.nonce}
         /\ VerifyPostToSlack(state, p, Config.policy)
         /\ state'.counters = Count(state.counters, "slack_posted_total")
         /\ state'.drafts = RecSet(state.drafts, p.draft_hash,
                              Posted(state.drafts[p.draft_hash], p.channel_id))
         /\ state'.slack_posts = Append(state.slack_posts, SlackEffect(state, p))
         /\ \A f \in StateFields \ {"previous_receipt_hash", "sequence", "consumed_nonces",
                                "counters", "drafts", "slack_posts"} :
              state'[f] = state[f]
<1> DEFINE t == AfterPostToSlack(state, p)
<1>1. ExecutionState(state, p, actor) = t
  BY DEF ExecutionState
<1>2. DOMAIN t = StateFields
  BY PostFields
<1>3. /\ Verify(state, p, actor, Config.capabilities, Config.policy)
      /\ \E r : receipts' = Append(receipts, r)
      /\ DOMAIN state' = StateFields
      /\ \A f \in StateFields \ {"previous_receipt_hash"} : state'[f] = t[f]
  BY <1>1, <1>2, CommitEffect
<1> QED
  BY <1>3, PostFields DEF StateFields, Verify, ConsumeNonce

-----------------------------------------------------------------------------
(***************************************************************************)
(* The inductive invariant: the types, and the drafts under their hashes.  *)
(* TypeOK alone is not kept: overwriting a draft keeps the approvals of    *)
(* known drafts only because a write adds a hash and removes none.         *)
(***************************************************************************)
IInv == TypeOK /\ ContentAddressed

\* A sequence that grows stays a sequence of its own elements.
LEMMA AppendElements ==
  ASSUME NEW s, s \in Seq(Elements(s)), NEW x
  PROVE  /\ Append(s, x) \in Seq(Elements(Append(s, x)))
         /\ Len(Append(s, x)) = Len(s) + 1
<1> DEFINE t == Append(s, x)
<1>1. s \in Seq(Elements(s) \cup {x})
  <2>1. \A i \in 1..Len(s) : s[i] \in Elements(s)
    BY DEF Elements
  <2> QED
    BY <2>1
<1>2. /\ t \in Seq(Elements(s) \cup {x})
      /\ Len(t) = Len(s) + 1
      /\ DOMAIN t = 1..Len(t)
  BY <1>1
<1>3. \A i \in 1..Len(t) : t[i] \in Elements(t)
  BY <1>2 DEF Elements
<1> QED
  BY <1>2, <1>3

\* Storing a value under a key keeps the range of a function.
LEMMA RecSetType ==
  ASSUME NEW S, NEW f, f \in [DOMAIN f -> S], NEW k, NEW v \in S
  PROVE  RecSet(f, k, v) \in [DOMAIN RecSet(f, k, v) -> S]
  BY DEF RecSet

\* Counting one more keeps the counters natural numbers.
LEMMA CountType ==
  ASSUME NEW counters \in [Counters -> Nat], NEW name \in Counters
  PROVE  /\ Count(counters, name) \in [Counters -> Nat]
         /\ Count(counters, name)[name] = counters[name] + 1
         /\ \A other \in Counters \ {name} :
              Count(counters, name)[other] = counters[other]
  BY DEF Count

\* Marking a delivery changes the deliveries of a draft and nothing else.
LEMMA MarkedDraft ==
  ASSUME NEW d \in Drafts
  PROVE  /\ \A r \in Recipients : Submitted(d, r) \in Drafts
         /\ \A r : Content(Submitted(d, r)) = Content(d)
         /\ \A c \in ChannelIds : Posted(d, c) \in Drafts
         /\ \A c : Content(Posted(d, c)) = Content(d)
  BY DEF Drafts, Submitted, Posted, Content

\* The initial state, with no drafts, satisfies the inductive invariant.
THEOREM InitIInv == Init => IInv
  BY DEF Init, Initial, IInv, TypeOK, ContentAddressed, StateFields, Counters,
         EmptyRec, Elements, GenesisHash, NonceConsumed

\* What is the same for every operation: the business data, the sequence, the
\* consumed nonces and the ledger keep their types.
LEMMA CommonTypes ==
  ASSUME TypeOK, NEW nonce \in Nonces,
         \E r : receipts' = Append(receipts, r),
         state'.sequence = state.sequence + 1,
         state'.consumed_nonces = state.consumed_nonces \cup {nonce},
         \A f \in {"policy_version", "invoices", "threads"} : state'[f] = state[f]
  PROVE  /\ state'.policy_version = Config.policy_version
         /\ state'.invoices = Config.invoices
         /\ state'.threads = Config.threads
         /\ state'.sequence \in Nat
         /\ state'.consumed_nonces \subseteq Nonces
         /\ receipts' \in Seq(Elements(receipts'))
  BY AppendElements DEF TypeOK

\* Storing a draft under a hash adds or overwrites that one draft.
LEMMA DraftStored ==
  ASSUME TypeOK, NEW g, NEW d \in Drafts,
         state'.drafts = RecSet(state.drafts, g, d)
  PROVE  /\ DOMAIN state'.drafts = DOMAIN state.drafts \cup {g}
         /\ state'.drafts \in [DOMAIN state'.drafts -> Drafts]
         /\ state'.drafts[g] = d
         /\ \A x \in DOMAIN state.drafts \ {g} : state'.drafts[x] = state.drafts[x]
<1>1. state.drafts \in [DOMAIN state.drafts -> Drafts]
  BY DEF TypeOK
<1>2. RecSet(state.drafts, g, d) \in [DOMAIN RecSet(state.drafts, g, d) -> Drafts]
  BY <1>1, RecSetType
<1>3. state'.drafts \in [DOMAIN state'.drafts -> Drafts]
  BY <1>2
<1>4. DOMAIN state'.drafts = DOMAIN state.drafts \cup {g}
  BY DEF RecSet
<1>5. state'.drafts[g] = d
  BY DEF RecSet
<1>6. ASSUME NEW x \in DOMAIN state.drafts \ {g}
      PROVE  state'.drafts[x] = state.drafts[x]
  BY DEF RecSet
<1> QED
  BY <1>3, <1>4, <1>5, <1>6

\* A committed read_invoice keeps the inductive invariant.
LEMMA ReadPreservesIInv ==
  ASSUME IInv, NEW actor \in ActorIds, NEW h \in Admitted("read_invoice", actor),
         ReadInvoice(actor, h)
  PROVE  IInv'
<1>1. PICK p \in ReadProposals(h) : Commit(p, actor)
  BY DEF ReadInvoice
<1>2. p.t = "read_invoice" /\ p.nonce \in Nonces
  BY DEF ReadProposals, Admitted, Headers
<1> USE DEF IInv
<1>3. /\ \E r : receipts' = Append(receipts, r)
      /\ DOMAIN state' = StateFields
      /\ state'.sequence = state.sequence + 1
      /\ state'.consumed_nonces = state.consumed_nonces \cup {p.nonce}
      /\ \A f \in StateFields \ {"previous_receipt_hash", "sequence", "consumed_nonces"} :
           state'[f] = state[f]
  BY <1>1, <1>2, ReadEffect DEF TypeOK
<1>4. /\ state'.policy_version = state.policy_version
      /\ state'.invoices = state.invoices
      /\ state'.threads = state.threads
      /\ state'.counters = state.counters
      /\ state'.drafts = state.drafts
      /\ state'.approvals = state.approvals
      /\ state'.submissions = state.submissions
      /\ state'.slack_posts = state.slack_posts
  BY <1>3 DEF StateFields
<1>5. TypeOK'
  BY <1>2, <1>3, <1>4, CommonTypes DEF TypeOK
<1>6. ContentAddressed'
  BY <1>4 DEF ContentAddressed
<1> QED
  BY <1>5, <1>6

\* A committed create_draft, which may overwrite a draft, keeps the inductive invariant.
LEMMA CreatePreservesIInv ==
  ASSUME IInv, NEW actor \in ActorIds, NEW h \in Admitted("create_draft", actor),
         CreateDraft(actor, h)
  PROVE  IInv'
<1>1. PICK p \in CreateProposals(h) : Commit(p, actor)
  BY DEF CreateDraft
<1> DEFINE d == NewDraft(p, actor)
<1>2. p.t = "create_draft" /\ p.nonce \in Nonces
  BY DEF CreateProposals, Admitted, Headers
<1> USE DEF IInv
<1>3. /\ \E r : receipts' = Append(receipts, r)
      /\ DOMAIN state' = StateFields
      /\ state'.sequence = state.sequence + 1
      /\ state'.consumed_nonces = state.consumed_nonces \cup {p.nonce}
      /\ state'.counters = Count(state.counters, "drafted_total")
      /\ state'.drafts = RecSet(state.drafts, d.draft_hash, d)
      /\ \A f \in StateFields \ {"previous_receipt_hash", "sequence",
                                 "consumed_nonces", "counters", "drafts"} :
           state'[f] = state[f]
  BY <1>1, <1>2, CreateEffect DEF TypeOK
<1>4. /\ state'.policy_version = state.policy_version
      /\ state'.invoices = state.invoices
      /\ state'.threads = state.threads
      /\ state'.approvals = state.approvals
      /\ state'.submissions = state.submissions
      /\ state'.slack_posts = state.slack_posts
  BY <1>3 DEF StateFields
<1>5. /\ d \in Drafts
      /\ d.draft_hash \in DraftHashes
      /\ d.draft_hash = DraftHash(Content(d))
  <2>1. DraftContent(p, actor) \in Contents
    BY <1>1 DEF CreateProposals, DraftContent, Contents
  <2>2. Content(d) = DraftContent(p, actor)
    BY DEF NewDraft, Content, DraftContent
  <2>3. NoDeliveries \in [email : [submitted : BOOLEAN,
                                   recipient : Recipients \cup {Null}],
                          slack : SUBSET ChannelIds]
    BY DEF NoDeliveries
  <2>4. d.draft_hash = DraftHash(DraftContent(p, actor))
    BY DEF NewDraft
  <2>5. d.draft_hash \in DraftHashes
    BY <2>1, <2>4 DEF DraftHashes
  <2>6. d \in Drafts
    BY <2>1, <2>3, <2>4, <2>5 DEF Contents, Drafts, NewDraft
  <2> QED
    BY <2>2, <2>4, <2>5, <2>6
<1>6. /\ DOMAIN state'.drafts = DOMAIN state.drafts \cup {d.draft_hash}
      /\ state'.drafts \in [DOMAIN state'.drafts -> Drafts]
      /\ state'.drafts[d.draft_hash] = d
      /\ \A g \in DOMAIN state.drafts \ {d.draft_hash} :
           state'.drafts[g] = state.drafts[g]
  BY <1>3, <1>5, DraftStored
<1>7. state'.counters \in [Counters -> Nat]
  BY <1>3, CountType DEF TypeOK, Counters
<1>8. TypeOK'
  <2>1. DOMAIN state'.drafts \subseteq DraftHashes
    BY <1>5, <1>6 DEF TypeOK
  <2>2. /\ DOMAIN state'.approvals \subseteq DOMAIN state'.drafts
        /\ state'.approvals \in [DOMAIN state'.approvals -> Approvals]
    BY <1>4, <1>6 DEF TypeOK
  <2>3. \A f \in {"policy_version", "invoices", "threads"} : state'[f] = state[f]
    BY <1>4
  <2> QED
    BY <1>2, <1>3, <1>4, <1>6, <1>7, <2>1, <2>2, <2>3, CommonTypes DEF TypeOK
<1>9. ContentAddressed'
  BY <1>5, <1>6 DEF ContentAddressed
<1> QED
  BY <1>8, <1>9

\* A committed approve_draft keeps the inductive invariant.
LEMMA ApprovePreservesIInv ==
  ASSUME IInv, NEW actor \in ActorIds, NEW h \in Admitted("approve_draft", actor),
         ApproveDraft(actor, h)
  PROVE  IInv'
<1>1. PICK p \in ApproveProposals(h, state) : Commit(p, actor)
  BY DEF ApproveDraft
<1> DEFINE ap == Approval(state, p, actor)
<1>2. p.t = "approve_draft" /\ p.nonce \in Nonces
  BY DEF ApproveProposals, Admitted, Headers
<1> USE DEF IInv
<1>3. /\ \E r : receipts' = Append(receipts, r)
      /\ DOMAIN state' = StateFields
      /\ state'.sequence = state.sequence + 1
      /\ state'.consumed_nonces = state.consumed_nonces \cup {p.nonce}
      /\ VerifyApproveDraft(state, p, actor, Config.capabilities, Config.policy)
      /\ state'.counters = Count(state.counters, "approved_total")
      /\ state'.approvals = RecSet(state.approvals, p.draft_hash, ap)
      /\ \A f \in StateFields \ {"previous_receipt_hash", "sequence",
                                 "consumed_nonces", "counters", "approvals"} :
           state'[f] = state[f]
  BY <1>1, <1>2, ApproveEffect DEF TypeOK
<1>4. /\ state'.policy_version = state.policy_version
      /\ state'.invoices = state.invoices
      /\ state'.threads = state.threads
      /\ state'.drafts = state.drafts
      /\ state'.submissions = state.submissions
      /\ state'.slack_posts = state.slack_posts
  BY <1>3 DEF StateFields
<1>5. p.draft_hash \in DOMAIN state.drafts
  BY <1>3 DEF VerifyApproveDraft, HasDraft
<1>6. ap \in Approvals
  BY <1>5 DEF Approval, Approvals, TypeOK
<1>7. /\ DOMAIN state'.approvals = DOMAIN state.approvals \cup {p.draft_hash}
      /\ state'.approvals \in [DOMAIN state'.approvals -> Approvals]
  <2>1. state.approvals \in [DOMAIN state.approvals -> Approvals]
    BY DEF TypeOK
  <2>2. RecSet(state.approvals, p.draft_hash, ap)
          \in [DOMAIN RecSet(state.approvals, p.draft_hash, ap) -> Approvals]
    BY <1>6, <2>1, RecSetType
  <2>3. DOMAIN state'.approvals = DOMAIN state.approvals \cup {p.draft_hash}
    BY <1>3 DEF RecSet
  <2> QED
    BY <1>3, <2>2, <2>3
<1>8. state'.counters \in [Counters -> Nat]
  BY <1>3, CountType DEF TypeOK, Counters
<1>9. TypeOK'
  <2>1. DOMAIN state'.approvals \subseteq DOMAIN state'.drafts
    BY <1>4, <1>5, <1>7 DEF TypeOK
  <2>2. \A f \in {"policy_version", "invoices", "threads"} : state'[f] = state[f]
    BY <1>4
  <2> QED
    BY <1>2, <1>3, <1>4, <1>7, <1>8, <2>1, <2>2, CommonTypes DEF TypeOK
<1>10. ContentAddressed'
  BY <1>4 DEF ContentAddressed
<1> QED
  BY <1>9, <1>10

\* A committed submit_draft, which overwrites a draft, keeps the inductive invariant.
LEMMA SubmitPreservesIInv ==
  ASSUME IInv, NEW actor \in ActorIds, NEW h \in Admitted("submit_draft", actor),
         SubmitDraft(actor, h)
  PROVE  IInv'
<1>1. PICK p \in SubmitProposals(h, state) : Commit(p, actor)
  BY DEF SubmitDraft
<1> DEFINE d == Submitted(state.drafts[p.draft_hash], p.recipient)
<1>2. p.t = "submit_draft" /\ p.nonce \in Nonces
  BY DEF SubmitProposals, Admitted, Headers
<1> USE DEF IInv
<1>3. /\ \E r : receipts' = Append(receipts, r)
      /\ DOMAIN state' = StateFields
      /\ state'.sequence = state.sequence + 1
      /\ state'.consumed_nonces = state.consumed_nonces \cup {p.nonce}
      /\ VerifySubmitDraft(state, p, Config.policy)
      /\ state'.counters = Count(state.counters, "submitted_total")
      /\ state'.drafts = RecSet(state.drafts, p.draft_hash, d)
      /\ state'.submissions = Append(state.submissions, EmailEffect(state, p))
      /\ \A f \in StateFields \ {"previous_receipt_hash", "sequence",
                                 "consumed_nonces", "counters", "drafts",
                                 "submissions"} :
           state'[f] = state[f]
  BY <1>1, <1>2, SubmitEffect DEF TypeOK
<1>4. /\ state'.policy_version = state.policy_version
      /\ state'.invoices = state.invoices
      /\ state'.threads = state.threads
      /\ state'.approvals = state.approvals
      /\ state'.slack_posts = state.slack_posts
  BY <1>3 DEF StateFields
<1>5. p.draft_hash \in DOMAIN state.drafts
  BY <1>3 DEF VerifySubmitDraft, HasDraft
<1>6. state.drafts[p.draft_hash] \in Drafts
  BY <1>5 DEF TypeOK
<1>7. /\ d \in Drafts
      /\ Content(d) = Content(state.drafts[p.draft_hash])
  BY <1>1, <1>6, MarkedDraft DEF SubmitProposals
<1>8. /\ DOMAIN state'.drafts = DOMAIN state.drafts
      /\ state'.drafts \in [DOMAIN state'.drafts -> Drafts]
      /\ state'.drafts[p.draft_hash] = d
      /\ \A g \in DOMAIN state.drafts \ {p.draft_hash} :
           state'.drafts[g] = state.drafts[g]
  <2> HIDE DEF d
  <2>1. state'.drafts = RecSet(state.drafts, p.draft_hash, d)
    BY <1>3
  <2>2. DOMAIN state'.drafts = DOMAIN state.drafts \cup {p.draft_hash}
    BY <1>7, <2>1, DraftStored
  <2>3. DOMAIN state'.drafts = DOMAIN state.drafts
    BY <1>5, <2>2
  <2> QED
    BY <1>7, <2>1, <2>3, DraftStored
<1>9. state'.counters \in [Counters -> Nat]
  BY <1>3, CountType DEF TypeOK, Counters
<1>10. state'.submissions \in Seq(Elements(state'.submissions))
  BY <1>3, AppendElements DEF TypeOK
<1>11. TypeOK'
  <2>1. \A f \in {"policy_version", "invoices", "threads"} : state'[f] = state[f]
    BY <1>4
  <2> QED
    BY <1>2, <1>3, <1>4, <1>8, <1>9, <1>10, <2>1, CommonTypes DEF TypeOK
<1>12. ContentAddressed'
  BY <1>5, <1>7, <1>8 DEF ContentAddressed
<1> QED
  BY <1>11, <1>12

\* A committed post_to_slack, which overwrites a draft, keeps the inductive invariant.
LEMMA PostPreservesIInv ==
  ASSUME IInv, NEW actor \in ActorIds, NEW h \in Admitted("post_to_slack", actor),
         PostToSlack(actor, h)
  PROVE  IInv'
<1>1. PICK p \in PostProposals(h, state) : Commit(p, actor)
  BY DEF PostToSlack
<1> DEFINE d == Posted(state.drafts[p.draft_hash], p.channel_id)
<1>2. p.t = "post_to_slack" /\ p.nonce \in Nonces
  BY DEF PostProposals, Admitted, Headers
<1> USE DEF IInv
<1>3. /\ \E r : receipts' = Append(receipts, r)
      /\ DOMAIN state' = StateFields
      /\ state'.sequence = state.sequence + 1
      /\ state'.consumed_nonces = state.consumed_nonces \cup {p.nonce}
      /\ VerifyPostToSlack(state, p, Config.policy)
      /\ state'.counters = Count(state.counters, "slack_posted_total")
      /\ state'.drafts = RecSet(state.drafts, p.draft_hash, d)
      /\ state'.slack_posts = Append(state.slack_posts, SlackEffect(state, p))
      /\ \A f \in StateFields \ {"previous_receipt_hash", "sequence",
                                 "consumed_nonces", "counters", "drafts",
                                 "slack_posts"} :
           state'[f] = state[f]
  BY <1>1, <1>2, PostEffect DEF TypeOK
<1>4. /\ state'.policy_version = state.policy_version
      /\ state'.invoices = state.invoices
      /\ state'.threads = state.threads
      /\ state'.approvals = state.approvals
      /\ state'.submissions = state.submissions
  BY <1>3 DEF StateFields
<1>5. p.draft_hash \in DOMAIN state.drafts
  BY <1>3 DEF VerifyPostToSlack, HasDraft
<1>6. state.drafts[p.draft_hash] \in Drafts
  BY <1>5 DEF TypeOK
<1>7. /\ d \in Drafts
      /\ Content(d) = Content(state.drafts[p.draft_hash])
  BY <1>1, <1>6, MarkedDraft DEF PostProposals
<1>8. /\ DOMAIN state'.drafts = DOMAIN state.drafts
      /\ state'.drafts \in [DOMAIN state'.drafts -> Drafts]
      /\ state'.drafts[p.draft_hash] = d
      /\ \A g \in DOMAIN state.drafts \ {p.draft_hash} :
           state'.drafts[g] = state.drafts[g]
  <2> HIDE DEF d
  <2>1. state'.drafts = RecSet(state.drafts, p.draft_hash, d)
    BY <1>3
  <2>2. DOMAIN state'.drafts = DOMAIN state.drafts \cup {p.draft_hash}
    BY <1>7, <2>1, DraftStored
  <2>3. DOMAIN state'.drafts = DOMAIN state.drafts
    BY <1>5, <2>2
  <2> QED
    BY <1>7, <2>1, <2>3, DraftStored
<1>9. state'.counters \in [Counters -> Nat]
  BY <1>3, CountType DEF TypeOK, Counters
<1>10. state'.slack_posts \in Seq(Elements(state'.slack_posts))
  BY <1>3, AppendElements DEF TypeOK
<1>11. TypeOK'
  <2>1. \A f \in {"policy_version", "invoices", "threads"} : state'[f] = state[f]
    BY <1>4
  <2> QED
    BY <1>2, <1>3, <1>4, <1>8, <1>9, <1>10, <2>1, CommonTypes DEF TypeOK
<1>12. ContentAddressed'
  BY <1>5, <1>7, <1>8 DEF ContentAddressed
<1> QED
  BY <1>11, <1>12

\* Every step of apply_with_receipt keeps the inductive invariant.
THEOREM NextIInv == IInv /\ [Next]_vars => IInv'
<1> SUFFICES ASSUME IInv, [Next]_vars PROVE IInv'
  OBVIOUS
<1>1. CASE UNCHANGED vars
  BY <1>1 DEF vars, IInv, TypeOK, ContentAddressed
<1>2. CASE Next
  BY <1>2, ReadPreservesIInv, CreatePreservesIInv, ApprovePreservesIInv,
     SubmitPreservesIInv, PostPreservesIInv DEF Next
<1> QED
  BY <1>1, <1>2

\* The inductive invariant holds throughout every lineage of calls.
THEOREM SpecIInv == Spec => []IInv
  BY InitIInv, NextIInv, PTL DEF Spec

\* The types of the committed state and of the ledger (TypeOK), in every
\* lineage of calls, for every configuration and every set of inputs.
THEOREM TypeCorrect == Spec => []TypeOK
  BY SpecIInv, PTL DEF IInv

\* Drafts stay under the hash of their content and author, though the
\* executor overwrites them on every delivery and on every second writing.
THEOREM DraftsContentAddressed == Spec => []ContentAddressed
  BY SpecIInv, PTL DEF IInv

-----------------------------------------------------------------------------
(***************************************************************************)
(* The properties.  All of them follow from a summary of what one commit   *)
(* does to the nonces, the ledger, the drafts and the approvals.           *)
(***************************************************************************)

\* A fresh nonce is consumed and a receipt appended.
NonceSpent ==
  \E nonce \in Nonces :
    /\ ~NonceConsumed(state, nonce)
    /\ state'.consumed_nonces = state.consumed_nonces \cup {nonce}
    /\ state'.sequence = state.sequence + 1
    /\ \E r : receipts' = Append(receipts, r)

\* No draft is lost; approvals change by one approval the policy allows.
ApprovalGiven ==
  \E p, actor :
    /\ VerifyApproveDraft(state, p, actor, Config.capabilities, Config.policy)
    /\ state'.approvals = RecSet(state.approvals, p.draft_hash, Approval(state, p, actor))
    /\ state'.drafts = state.drafts

OneCommit ==
  /\ NonceSpent
  /\ DOMAIN state.drafts \subseteq DOMAIN state'.drafts
  /\ state'.approvals = state.approvals \/ ApprovalGiven

\* Any step in one summary: what may change, and under which rules.
LEMMA NextIsOneCommit ==
  ASSUME TypeOK, Next
  PROVE  OneCommit
<1>1. ASSUME NEW actor \in ActorIds, NEW h \in Admitted("read_invoice", actor),
             ReadInvoice(actor, h)
      PROVE  OneCommit
  <2>1. PICK p \in ReadProposals(h) : Commit(p, actor)
    BY <1>1 DEF ReadInvoice
  <2>2. p.t = "read_invoice" /\ p.nonce \in Nonces
    BY DEF ReadProposals, Admitted, Headers
  <2>3. DOMAIN state = StateFields
    BY DEF TypeOK
  <2>4. NonceSpent
    BY <2>1, <2>2, <2>3, ReadEffect DEF NonceSpent, CommonChecks
  <2>5. state'.approvals = state.approvals
    BY <2>1, <2>2, <2>3, ReadEffect DEF StateFields
  <2>6. DOMAIN state.drafts \subseteq DOMAIN state'.drafts
    BY <2>1, <2>2, <2>3, ReadEffect DEF StateFields
  <2> QED
    BY <2>4, <2>5, <2>6 DEF OneCommit
<1>2. ASSUME NEW actor \in ActorIds, NEW h \in Admitted("create_draft", actor),
             CreateDraft(actor, h)
      PROVE  OneCommit
  <2>1. PICK p \in CreateProposals(h) : Commit(p, actor)
    BY <1>2 DEF CreateDraft
  <2>2. p.t = "create_draft" /\ p.nonce \in Nonces
    BY DEF CreateProposals, Admitted, Headers
  <2>3. DOMAIN state = StateFields
    BY DEF TypeOK
  <2>4. NonceSpent
    BY <2>1, <2>2, <2>3, CreateEffect DEF NonceSpent, CommonChecks
  <2>5. state'.approvals = state.approvals
    BY <2>1, <2>2, <2>3, CreateEffect DEF StateFields
  <2>6. DOMAIN state.drafts \subseteq DOMAIN state'.drafts
    BY <2>1, <2>2, <2>3, CreateEffect DEF RecSet
  <2> QED
    BY <2>4, <2>5, <2>6 DEF OneCommit
<1>3. ASSUME NEW actor \in ActorIds, NEW h \in Admitted("approve_draft", actor),
             ApproveDraft(actor, h)
      PROVE  OneCommit
  <2>1. PICK p \in ApproveProposals(h, state) : Commit(p, actor)
    BY <1>3 DEF ApproveDraft
  <2>2. p.t = "approve_draft" /\ p.nonce \in Nonces
    BY DEF ApproveProposals, Admitted, Headers
  <2>3. DOMAIN state = StateFields
    BY DEF TypeOK
  <2>4. NonceSpent
    BY <2>1, <2>2, <2>3, ApproveEffect DEF NonceSpent, CommonChecks
  <2>5. state'.drafts = state.drafts
    BY <2>1, <2>2, <2>3, ApproveEffect DEF StateFields
  <2>6. ApprovalGiven
    BY <2>1, <2>2, <2>3, <2>5, ApproveEffect DEF ApprovalGiven
  <2> QED
    BY <2>4, <2>5, <2>6 DEF OneCommit
<1>4. ASSUME NEW actor \in ActorIds, NEW h \in Admitted("submit_draft", actor),
             SubmitDraft(actor, h)
      PROVE  OneCommit
  <2>1. PICK p \in SubmitProposals(h, state) : Commit(p, actor)
    BY <1>4 DEF SubmitDraft
  <2>2. p.t = "submit_draft" /\ p.nonce \in Nonces
    BY DEF SubmitProposals, Admitted, Headers
  <2>3. DOMAIN state = StateFields
    BY DEF TypeOK
  <2>4. NonceSpent
    BY <2>1, <2>2, <2>3, SubmitEffect DEF NonceSpent, CommonChecks
  <2>5. state'.approvals = state.approvals
    BY <2>1, <2>2, <2>3, SubmitEffect DEF StateFields
  <2>6. DOMAIN state.drafts \subseteq DOMAIN state'.drafts
    BY <2>1, <2>2, <2>3, SubmitEffect DEF RecSet
  <2> QED
    BY <2>4, <2>5, <2>6 DEF OneCommit
<1>5. ASSUME NEW actor \in ActorIds, NEW h \in Admitted("post_to_slack", actor),
             PostToSlack(actor, h)
      PROVE  OneCommit
  <2>1. PICK p \in PostProposals(h, state) : Commit(p, actor)
    BY <1>5 DEF PostToSlack
  <2>2. p.t = "post_to_slack" /\ p.nonce \in Nonces
    BY DEF PostProposals, Admitted, Headers
  <2>3. DOMAIN state = StateFields
    BY DEF TypeOK
  <2>4. NonceSpent
    BY <2>1, <2>2, <2>3, PostEffect DEF NonceSpent, CommonChecks
  <2>5. state'.approvals = state.approvals
    BY <2>1, <2>2, <2>3, PostEffect DEF StateFields
  <2>6. DOMAIN state.drafts \subseteq DOMAIN state'.drafts
    BY <2>1, <2>2, <2>3, PostEffect DEF RecSet
  <2> QED
    BY <2>4, <2>5, <2>6 DEF OneCommit
<1> QED
  BY <1>1, <1>2, <1>3, <1>4, <1>5 DEF Next

\* A draft hash names one content for ever: a digest commits to its value.
LEMMA ContentKept ==
  ASSUME IInv, IInv', DOMAIN state.drafts \subseteq DOMAIN state'.drafts,
         NEW h \in DOMAIN state.drafts
  PROVE  Content(state'.drafts[h]) = Content(state.drafts[h])
<1>1. /\ h = DraftHash(Content(state.drafts[h]))
      /\ h = DraftHash(Content(state'.drafts[h]))
  BY DEF IInv, ContentAddressed
<1> QED
  BY <1>1 DEF DraftHash, TaggedDigest

\* No approval is withdrawn, replaced or moved to other content.
LEMMA ApprovalsKept ==
  ASSUME IInv, IInv', OneCommit, NEW h \in DOMAIN state.approvals
  PROVE  /\ h \in DOMAIN state'.approvals
         /\ state'.approvals[h] = state.approvals[h]
         /\ Content(state'.drafts[h]) = Content(state.drafts[h])
<1>1. Content(state'.drafts[h]) = Content(state.drafts[h])
  BY ContentKept DEF OneCommit, IInv, TypeOK
<1>2. CASE state'.approvals = state.approvals
  BY <1>1, <1>2
<1>3. CASE ApprovalGiven
  BY <1>1, <1>3 DEF ApprovalGiven, VerifyApproveDraft, HasApproval, RecSet
<1> QED
  BY <1>2, <1>3 DEF OneCommit

\* What was approved stays what it is, through every second writing of the
\* draft and every repeated request for approval.
THEOREM ApprovalsAreFinal == Spec => ApprovalIsFinal
<1>1. ASSUME IInv, IInv', [Next]_vars
      PROVE  [\A h \in DOMAIN state.approvals :
                 /\ h \in DOMAIN state'.approvals
                 /\ state'.approvals[h] = state.approvals[h]
                 /\ Content(state'.drafts[h]) = Content(state.drafts[h])]_vars
  <2>1. CASE UNCHANGED vars
    BY <2>1
  <2>2. CASE Next
    BY <1>1, <2>2, NextIsOneCommit, ApprovalsKept DEF IInv
  <2> QED
    BY <1>1, <2>1, <2>2
<1> QED
  BY <1>1, SpecIInv, PTL DEF Spec, ApprovalIsFinal

\* Each committed call consumes a nonce no earlier one consumed, and counts.
THEOREM NoncesAccountedFor == Spec => []NonceAccounting
<1>1. Init => NonceAccounting
  BY FS_EmptySet DEF Init, Initial, NonceAccounting
<1>2. ASSUME IInv, NonceAccounting, [Next]_vars
      PROVE  NonceAccounting'
  <2>1. CASE UNCHANGED vars
    BY <1>2, <2>1 DEF vars, NonceAccounting
  <2>2. CASE Next
    <3>1. PICK nonce \in Nonces :
            /\ ~NonceConsumed(state, nonce)
            /\ state'.consumed_nonces = state.consumed_nonces \cup {nonce}
            /\ state'.sequence = state.sequence + 1
            /\ \E r : receipts' = Append(receipts, r)
      BY <1>2, <2>2, NextIsOneCommit DEF IInv, OneCommit, NonceSpent
    <3>2. /\ IsFiniteSet(state'.consumed_nonces)
          /\ Cardinality(state'.consumed_nonces) = Cardinality(state.consumed_nonces) + 1
      BY <1>2, <3>1, FS_AddElement DEF NonceAccounting, NonceConsumed
    <3>3. Len(receipts') = Len(receipts) + 1
      BY <1>2, <3>1, AppendElements DEF IInv, TypeOK
    <3> QED
      BY <1>2, <3>1, <3>2, <3>3 DEF NonceAccounting
  <2> QED
    BY <1>2, <2>1, <2>2
<1> QED
  BY <1>1, <1>2, SpecIInv, PTL DEF Spec

\* Nobody's own draft carries their approval where the policy forbids it, and
\* every approver holds the approver role.
THEOREM DutiesSeparated == Spec => []SeparationOfDuties
<1>1. Init => SeparationOfDuties
  BY DEF Init, Initial, EmptyRec, SeparationOfDuties
<1>2. ASSUME IInv, IInv', SeparationOfDuties, [Next]_vars
      PROVE  SeparationOfDuties'
  <2>1. CASE UNCHANGED vars
    BY <1>2, <2>1 DEF vars, SeparationOfDuties
  <2>2. CASE Next
    <3>1. OneCommit
      BY <1>2, <2>2, NextIsOneCommit DEF IInv
    <3>2. ASSUME NEW h \in DOMAIN state.approvals
          PROVE  /\ state'.approvals[h] = state.approvals[h]
                 /\ state'.drafts[h].created_by = state.drafts[h].created_by
      BY <1>2, <3>1, <3>2, ApprovalsKept DEF Content
    <3>3. CASE state'.approvals = state.approvals
      BY <1>2, <3>2, <3>3 DEF SeparationOfDuties
    <3>4. CASE ApprovalGiven
      <4>1. PICK p, actor :
              /\ VerifyApproveDraft(state, p, actor, Config.capabilities, Config.policy)
              /\ state'.approvals = RecSet(state.approvals, p.draft_hash,
                                           Approval(state, p, actor))
              /\ state'.drafts = state.drafts
        BY <3>4 DEF ApprovalGiven
      <4>2. state'.approvals[p.draft_hash].approver_id = actor
        BY <4>1 DEF RecSet, Approval
      <4>3. DOMAIN state'.approvals = DOMAIN state.approvals \cup {p.draft_hash}
        BY <4>1 DEF RecSet
      <4> QED
        BY <1>2, <3>2, <4>1, <4>2, <4>3 DEF SeparationOfDuties, VerifyApproveDraft
    <3> QED
      BY <3>1, <3>3, <3>4 DEF OneCommit
  <2> QED
    BY <1>2, <2>1, <2>2
<1> QED
  BY <1>1, <1>2, SpecIInv, PTL DEF Spec
=============================================================================
