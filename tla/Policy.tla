------------------------------- MODULE Policy -------------------------------
(***************************************************************************)
(* The policy kernel: which action of which actor a state admits, and the  *)
(* obligations an admitted action carries.  Each rule is one conjunct, in  *)
(* the order in which the code denies.                                     *)
(***************************************************************************)
EXTENDS Actions, State, Capabilities

(***************************************************************************)
(* Obligations: the facts a certificate binds and execution must repeat.   *)
(***************************************************************************)
ObligationsForReadInvoice(s, a) ==
  <<[t |-> "result_label", label |-> s.invoices[a.invoice_id].label]>>

ObligationsForCreateDraft(a) ==
  <<[t |-> "bind_customer", customer_id |-> a.customer_id],
    [t |-> "body_label", label |-> a.body_label]>>

ObligationsForApproveDraft(a) ==
  <<[t |-> "approve_exact_hash", draft_hash |-> a.draft_hash]>>

ObligationsForSubmitDraft(a) ==
  <<[t |-> "submit_exact_hash", draft_hash |-> a.draft_hash],
    [t |-> "recipient", recipient |-> a.recipient]>>

ObligationsForPostToSlack(a) ==
  <<[t |-> "post_exact_hash", draft_hash |-> a.draft_hash],
    [t |-> "channel", channel_id |-> a.channel_id]>>

ObligationsForAction(s, a) ==
  CASE a.t = "read_invoice"  -> ObligationsForReadInvoice(s, a)
    [] a.t = "create_draft"  -> ObligationsForCreateDraft(a)
    [] a.t = "approve_draft" -> ObligationsForApproveDraft(a)
    [] a.t = "submit_draft"  -> ObligationsForSubmitDraft(a)
    [] a.t = "post_to_slack" -> ObligationsForPostToSlack(a)
    [] OTHER                 -> <<>>

(***************************************************************************)
(* Rules every action obeys.                                               *)
(***************************************************************************)
CommonChecks(s, a, actor, caps, pol) ==
  /\ s.policy_version = pol.version                  \* POLICY_VERSION_MISMATCH
  /\ a.expected_state_hash = HashState(s)            \* STALE_STATE
  /\ ~NonceConsumed(s, a.nonce)                      \* NONCE_REPLAY
  /\ StrLen(a.nonce) >= pol.min_nonce_length         \* NONCE_TOO_SHORT
  /\ OperationAllowed(caps, actor, a.t)              \* CAPABILITY_DENIED

VerifyReadInvoice(s, a) == HasInvoice(s, a.invoice_id)

\* Mutant: the thread's customer is not compared.
CreateInAnyThread(s, a, pol) ==
  /\ HasInvoice(s, a.invoice_id)
  /\ HasThread(s, a.thread_id)
  /\ s.invoices[a.invoice_id].customer_id = a.customer_id
  /\ FlowsTo(s.invoices[a.invoice_id].label, a.body_label)
  /\ a.body_label.kind = "customer"
  /\ a.body_label.owner = a.customer_id
  /\ StrLen(a.body) # 0
  /\ StrLen(a.body) <= pol.max_draft_chars
  /\ s.counters.drafted_total < pol.max_total_drafts

\* Mutant: source and sink are swapped.
CreateDowngraded(s, a, pol) ==
  /\ HasInvoice(s, a.invoice_id)
  /\ HasThread(s, a.thread_id)
  /\ s.invoices[a.invoice_id].customer_id = a.customer_id
  /\ s.threads[a.thread_id].customer_id = a.customer_id
  /\ FlowsTo(a.body_label, s.invoices[a.invoice_id].label)
  /\ a.body_label.kind = "customer"
  /\ a.body_label.owner = a.customer_id
  /\ StrLen(a.body) # 0
  /\ StrLen(a.body) <= pol.max_draft_chars
  /\ s.counters.drafted_total < pol.max_total_drafts

\* Mutant: the draft quota is off by one.
CreateOneTooMany(s, a, pol) ==
  /\ HasInvoice(s, a.invoice_id)
  /\ HasThread(s, a.thread_id)
  /\ s.invoices[a.invoice_id].customer_id = a.customer_id
  /\ s.threads[a.thread_id].customer_id = a.customer_id
  /\ FlowsTo(s.invoices[a.invoice_id].label, a.body_label)
  /\ a.body_label.kind = "customer"
  /\ a.body_label.owner = a.customer_id
  /\ StrLen(a.body) # 0
  /\ StrLen(a.body) <= pol.max_draft_chars
  /\ s.counters.drafted_total <= pol.max_total_drafts

VerifyCreateDraft(s, a, pol) ==
  /\ HasInvoice(s, a.invoice_id)
  /\ HasThread(s, a.thread_id)
  /\ s.invoices[a.invoice_id].customer_id = a.customer_id
  /\ s.threads[a.thread_id].customer_id = a.customer_id
  /\ FlowsTo(s.invoices[a.invoice_id].label, a.body_label)
  /\ a.body_label.kind = "customer"
  /\ a.body_label.owner = a.customer_id
  /\ StrLen(a.body) # 0
  /\ StrLen(a.body) <= pol.max_draft_chars
  /\ s.counters.drafted_total < pol.max_total_drafts

\* Mutant: an approved draft may be approved again.
ApproveAgain(s, a, actor, caps, pol) ==
  /\ HasDraft(s, a.draft_hash)
  /\ ActorRole(caps, actor) = pol.approver_role
  /\ actor = a.approver_id
  /\ ~(s.drafts[a.draft_hash].created_by = actor
       /\ pol.require_separation_of_duties)

VerifyApproveDraft(s, a, actor, caps, pol) ==
  /\ HasDraft(s, a.draft_hash)
  /\ ActorRole(caps, actor) = pol.approver_role
  /\ actor = a.approver_id
  /\ ~(s.drafts[a.draft_hash].created_by = actor
       /\ pol.require_separation_of_duties)
  /\ ~HasApproval(s, a.draft_hash)

RecipientAllowed(pol, customer, recipient) ==
  /\ customer \in DOMAIN pol.approved_recipients
  /\ recipient \in pol.approved_recipients[customer]

\* Mutant: the approval is not asked for.
SubmitUnapproved(s, a, pol) ==
  LET draft == s.drafts[a.draft_hash] IN
  /\ HasDraft(s, a.draft_hash)
  /\ ~draft.deliveries.email.submitted
  /\ RecipientAllowed(pol, draft.customer_id, a.recipient)
  /\ a.recipient_label.kind = "customer"
  /\ a.recipient_label.owner = draft.customer_id
  /\ FlowsTo(draft.body_label, a.recipient_label)
  /\ s.counters.submitted_total < pol.max_total_submissions

VerifySubmitDraft(s, a, pol) ==
  LET draft == s.drafts[a.draft_hash] IN
  /\ HasDraft(s, a.draft_hash)
  /\ HasApproval(s, a.draft_hash)
  /\ ~draft.deliveries.email.submitted
  /\ RecipientAllowed(pol, draft.customer_id, a.recipient)
  /\ a.recipient_label.kind = "customer"
  /\ a.recipient_label.owner = draft.customer_id
  /\ FlowsTo(draft.body_label, a.recipient_label)
  /\ s.counters.submitted_total < pol.max_total_submissions

\* Mutant: the claimed label of the channel is trusted.
PostUnderClaimedLabel(s, a, pol) ==
  LET draft   == s.drafts[a.draft_hash]
      channel == pol.approved_slack_channels[a.channel_id]
  IN
  /\ HasDraft(s, a.draft_hash)
  /\ HasApproval(s, a.draft_hash)
  /\ a.channel_id \in DOMAIN pol.approved_slack_channels
  /\ FlowsTo(draft.body_label, a.channel_label)
  /\ a.channel_id \notin draft.deliveries.slack
  /\ s.counters.slack_posted_total < pol.max_total_slack_posts

VerifyPostToSlack(s, a, pol) ==
  LET draft   == s.drafts[a.draft_hash]
      channel == pol.approved_slack_channels[a.channel_id]
  IN
  /\ HasDraft(s, a.draft_hash)
  /\ HasApproval(s, a.draft_hash)
  /\ a.channel_id \in DOMAIN pol.approved_slack_channels
  /\ a.channel_label = channel.label
  /\ FlowsTo(draft.body_label, channel.label)
  /\ a.channel_id \notin draft.deliveries.slack
  /\ s.counters.slack_posted_total < pol.max_total_slack_posts

\* policy.verify allows a; any tag outside the algebra is denied.
Verify(s, a, actor, caps, pol) ==
  /\ CommonChecks(s, a, actor, caps, pol)
  /\ \/ a.t = "read_invoice"  /\ VerifyReadInvoice(s, a)
     \/ a.t = "create_draft"  /\ VerifyCreateDraft(s, a, pol)
     \/ a.t = "approve_draft" /\ VerifyApproveDraft(s, a, actor, caps, pol)
     \/ a.t = "submit_draft"  /\ VerifySubmitDraft(s, a, pol)
     \/ a.t = "post_to_slack" /\ VerifyPostToSlack(s, a, pol)

PolicyDigest(pol) == TaggedDigest("confine.policy.v1", pol)
=============================================================================
