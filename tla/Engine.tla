------------------------------- MODULE Engine -------------------------------
(***************************************************************************)
(* One lineage of calls of engine.apply_with_receipt: each call is made on *)
(* the state the last committed call returned, and the receipts are kept   *)
(* in the order in which they were returned.                               *)
(***************************************************************************)
EXTENDS Proposals, Evaluation

VARIABLES
  state,      \* the state returned by the last committed call
  receipts    \* the receipts of all committed calls

vars == <<state, receipts>>

Init == /\ state = Initial(Config)
        /\ receipts = <<>>

Commit(p, actor) ==
  /\ Commits(state, p, actor)
  /\ state' = NextState(state, p, actor)
  /\ receipts' = Append(receipts, ReceiptFor(state, p, actor))

ReadInvoice(actor, h)  == \E p \in ReadProposals(h)           : Commit(p, actor)
CreateDraft(actor, h)  == \E p \in CreateProposals(h)         : Commit(p, actor)
ApproveDraft(actor, h) == \E p \in ApproveProposals(h, state) : Commit(p, actor)
SubmitDraft(actor, h)  == \E p \in SubmitProposals(h, state)  : Commit(p, actor)
PostToSlack(actor, h)  == \E p \in PostProposals(h, state)    : Commit(p, actor)

\* The common checks read only the header, and every commit passes them:
\* testing the header first spares the enumeration of its proposals.
Admitted(tag, actor) ==
  {h \in Headers(tag, state) :
     CommonChecks(state, h, actor, Config.capabilities, Config.policy)}

Next ==
  \E actor \in ActorIds :
    \/ \E h \in Admitted("read_invoice", actor)  : ReadInvoice(actor, h)
    \/ \E h \in Admitted("create_draft", actor)  : CreateDraft(actor, h)
    \/ \E h \in Admitted("approve_draft", actor) : ApproveDraft(actor, h)
    \/ \E h \in Admitted("submit_draft", actor)  : SubmitDraft(actor, h)
    \/ \E h \in Admitted("post_to_slack", actor) : PostToSlack(actor, h)

Spec == Init /\ [][Next]_vars

-----------------------------------------------------------------------------
(***************************************************************************)
(* Reading the ledger.  A digest commits to its value, so the action and   *)
(* the result of a committed call can be read off its receipt.             *)
(***************************************************************************)
ActionOf(r) == r.payload.action_hash[2]
ResultOf(r) == r.payload.result_hash[2]

\* The ledger positions of the committed calls of one operation.
Positions(tag) == {i \in DOMAIN receipts : ActionOf(receipts[i]).t = tag}

Content(d) ==
  [thread_id |-> d.thread_id, invoice_id |-> d.invoice_id,
   customer_id |-> d.customer_id, body |-> d.body,
   body_label |-> d.body_label, created_by |-> d.created_by]

Elements(seq) == {seq[i] : i \in DOMAIN seq}

(***************************************************************************)
(* Types.                                                                  *)
(***************************************************************************)
Counters == {"submitted_total", "drafted_total", "approved_total",
             "slack_posted_total"}

StateFields == {"policy_version", "sequence", "invoices", "threads", "drafts",
                "approvals", "submissions", "slack_posts", "consumed_nonces",
                "counters", "previous_receipt_hash"}

Contents == [thread_id : ThreadIds, invoice_id : InvoiceIds,
             customer_id : CustomerIds, body : Bodies,
             body_label : ClaimedLabels, created_by : ActorIds]

DraftHashes == {DraftHash(c) : c \in Contents}

Drafts == [thread_id : ThreadIds, invoice_id : InvoiceIds,
           customer_id : CustomerIds, body : Bodies,
           body_label : ClaimedLabels, created_by : ActorIds,
           draft_hash : DraftHashes,
           deliveries : [email : [submitted : BOOLEAN,
                                  recipient : Recipients \cup {Null}],
                         slack : SUBSET ChannelIds]]

Approvals == [draft_hash : DraftHashes, approver_id : ActorIds, sequence : Nat]

\* The state and the ledger keep their shapes; approvals are of known drafts;
\* the business data and the policy version never change.
TypeOK ==
  /\ DOMAIN state = StateFields
  /\ state.policy_version = Config.policy_version
  /\ state.invoices = Config.invoices
  /\ state.threads = Config.threads
  /\ state.sequence \in Nat
  /\ state.counters \in [Counters -> Nat]
  /\ state.consumed_nonces \subseteq Nonces
  /\ DOMAIN state.drafts \subseteq DraftHashes
  /\ state.drafts \in [DOMAIN state.drafts -> Drafts]
  /\ DOMAIN state.approvals \subseteq DOMAIN state.drafts
  /\ state.approvals \in [DOMAIN state.approvals -> Approvals]
  /\ state.submissions \in Seq(Elements(state.submissions))
  /\ state.slack_posts \in Seq(Elements(state.slack_posts))
  /\ receipts \in Seq(Elements(receipts))

(***************************************************************************)
(* Safety.                                                                 *)
(***************************************************************************)

\* A draft is stored under the hash of its content and author, through every
\* later marking of its deliveries, and so names what was approved.
ContentAddressed ==
  \A h \in DOMAIN state.drafts : h = DraftHash(Content(state.drafts[h]))

\* Where the policy asks for it, nobody's own draft carries their approval,
\* and every approver holds the approver role: also after a draft is written
\* again (executor.fard:27 overwrites it) or its approval is asked for again.
SeparationOfDuties ==
  \A h \in DOMAIN state.approvals :
    LET approver == state.approvals[h].approver_id IN
    /\ ActorRole(Config.capabilities, approver) = Config.policy.approver_role
    /\ Config.policy.require_separation_of_duties =>
         approver # state.drafts[h].created_by

\* Every delivery of a draft comes after its approval, which comes after a
\* call that wrote exactly the delivered body under the delivered hash.
ChainOfCustody ==
  \A k \in Positions("submit_draft") \cup Positions("post_to_slack") :
    LET effect == ResultOf(receipts[k]).effect IN
    \E j \in Positions("approve_draft"), i \in Positions("create_draft") :
      /\ i < j /\ j < k
      /\ ActionOf(receipts[j]).draft_hash = effect.draft_hash
      /\ ResultOf(receipts[i]).draft_hash = effect.draft_hash
      /\ ActionOf(receipts[i]).body = effect.body

\* Invoice data reaches only sinks its label flows to: the label checks of
\* create_draft (invoice to body) and of the delivery (body to sink) compose.
NoLeak ==
  /\ \A e \in Elements(state.submissions) :
       FlowsTo(state.invoices[state.drafts[e.draft_hash].invoice_id].label,
               e.recipient_label)
  /\ \A e \in Elements(state.slack_posts) :
       FlowsTo(state.invoices[state.drafts[e.draft_hash].invoice_id].label,
               Config.policy.approved_slack_channels[e.channel_id].label)

\* A mail goes to an approved recipient of the one customer who owns both the
\* thread it is sent in and the invoice it is about, under a label it owns.
CustomerIsolation ==
  \A e \in Elements(state.submissions) :
    LET customer == state.invoices[state.drafts[e.draft_hash].invoice_id].customer_id
    IN  /\ state.threads[e.thread_id].customer_id = customer
        /\ RecipientAllowed(Config.policy, customer, e.recipient)
        /\ e.recipient_label.owner = customer

\* The quotas hold of the effects themselves, not only of the counters, and
\* the counters count what the maps and lists hold.
Quotas ==
  /\ state.counters.submitted_total = Len(state.submissions)
  /\ state.counters.slack_posted_total = Len(state.slack_posts)
  /\ state.counters.approved_total = Cardinality(DOMAIN state.approvals)
  /\ Len(state.submissions) <= Config.policy.max_total_submissions
  /\ Len(state.slack_posts) <= Config.policy.max_total_slack_posts
  /\ Cardinality(DOMAIN state.drafts) <= state.counters.drafted_total
  /\ state.counters.drafted_total <= Config.policy.max_total_drafts

\* Every committed call consumed a nonce of its own: as many nonces, receipts
\* and sequence numbers have been used up.
NonceAccounting ==
  /\ IsFiniteSet(state.consumed_nonces)
  /\ Cardinality(state.consumed_nonces) = state.sequence
  /\ Len(receipts) = state.sequence

\* The ledger passes verify_chain, begins at the genesis hash and the initial
\* state, and ends at the current state, which links to its last receipt.
LedgerIntact ==
  /\ VerifyChain(receipts)
  /\ IF receipts = <<>>
     THEN state = Initial(Config)
     ELSE LET first == receipts[1].payload
              last  == receipts[Len(receipts)]
          IN  /\ first.previous_receipt_hash = GenesisHash
              /\ first.prior_state_hash = HashState(Initial(Config))
              /\ last.payload.resulting_state_hash = HashState(state)
              /\ last.receipt_hash = state.previous_receipt_hash

\* The effects are those the receipts of the operation record: as many, the
\* effect of each receipt at its place among them.
Place(k, positions) == Cardinality({j \in positions : j <= k})

Recorded(effects, tag) ==
  /\ Len(effects) = Cardinality(Positions(tag))
  /\ \A k \in Positions(tag) : effects[Place(k, Positions(tag))] = ResultOf(receipts[k]).effect

\* Auditing the effects: the mails are the effects of the submit receipts, in
\* ledger order, one for one; likewise the Slack posts.
EffectsAudited ==
  /\ Recorded(state.submissions, "submit_draft")
  /\ Recorded(state.slack_posts, "post_to_slack")

\* A draft is mailed at most once for each time it was written: a second mail
\* of the same hash needs a second create_draft of the same content.
MailedOncePerWriting ==
  \A h \in DOMAIN state.drafts :
    Cardinality({k \in DOMAIN state.submissions :
                   state.submissions[k].draft_hash = h})
    <= Cardinality({i \in Positions("create_draft") :
                      ResultOf(receipts[i]).draft_hash = h})

\* No call stops with a runtime error, which would leave the mutex of a store
\* locked for good (commit_store.fard:48): whatever was read, written, approved,
\* mailed and posted before, every field the next call reads is there, unless an
\* entry of the configuration is at fault.
NoCallRaises ==
  EntriesComplete(Config) =>
    \A actor \in ActorIds, p \in Offers(state) : Evaluates(state, p, actor)

(***************************************************************************)
(* What a step may never do.                                               *)
(***************************************************************************)

\* What was approved stays what it is: neither the approval of a draft nor
\* the content it approves changes afterwards, whatever is written again.
ApprovalIsFinal ==
  [][\A h \in DOMAIN state.approvals :
       /\ h \in DOMAIN state'.approvals
       /\ state'.approvals[h] = state.approvals[h]
       /\ Content(state'.drafts[h]) = Content(state.drafts[h])]_vars

-----------------------------------------------------------------------------
(***************************************************************************)
(* A claim of the code that does not hold: policy.fard:95 denies a second  *)
(* submission of a draft hash with ALREADY_SUBMITTED.                      *)
(***************************************************************************)

\* No draft hash is mailed twice.
MailedOnce ==
  \A i, j \in DOMAIN state.submissions :
    state.submissions[i].draft_hash = state.submissions[j].draft_hash => i = j
=============================================================================
