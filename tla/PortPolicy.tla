----------------------------- MODULE PortPolicy -----------------------------
(***************************************************************************)
(* The Rust port's capabilities and its policy kernel: the rules in the    *)
(* order of the code, each with the code it denies with.                   *)
(***************************************************************************)
EXTENDS PortState

CONSTANT TextLen(_)   \* String::len, the bytes of a text

(***************************************************************************)
(* Capabilities: a map of actors, and a registry of operation names that   *)
(* only the digest reads.                                                  *)
(***************************************************************************)

\* Lists of operations are modelled as sets: only membership is read.
operation_allowed(capabilities, actor_id, operation) ==
  /\ actor_id \in DOMAIN capabilities.actors
  /\ operation \in capabilities.actors[actor_id].operations

\* None is Null.
actor_role(capabilities, actor_id) ==
  IF actor_id \in DOMAIN capabilities.actors
  THEN capabilities.actors[actor_id].role
  ELSE Null

actor_value(actor) == [role |-> actor.role, operations |-> actor.operations]

\* The registry maps each known operation to true; its key set is kept.
capabilities_value(capabilities) ==
  [actors |-> [id \in DOMAIN capabilities.actors |->
                 actor_value(capabilities.actors[id])],
   operations |-> capabilities.operations_registry]

capability_digest(capabilities) ==
  TaggedDigest("confine.capabilities.v1", capabilities_value(capabilities))

(***************************************************************************)
(* Decisions.                                                              *)
(***************************************************************************)
allow(obligations) == [t |-> "Allow", obligations |-> obligations]
deny(code) == [t |-> "Deny", code |-> code]
is_allow(decision) == decision.t = "Allow"

(***************************************************************************)
(* Obligations: a tag, a map of texts and an optional label.               *)
(***************************************************************************)
text_obligation(t, data) == [t |-> t, data |-> data, label |-> Null]
label_obligation(t, label) == [t |-> t, data |-> EmptyRec, label |-> label]

obligations_for_read_invoice(label) == <<label_obligation("result_label", label)>>

obligations_for_create_draft(customer_id, body_label) ==
  <<text_obligation("bind_customer", [customer_id |-> customer_id]),
    label_obligation("body_label", body_label)>>

obligations_for_approve_draft(draft_hash) ==
  <<text_obligation("approve_exact_hash", [draft_hash |-> draft_hash])>>

obligations_for_submit_draft(draft_hash, recipient) ==
  <<text_obligation("submit_exact_hash", [draft_hash |-> draft_hash]),
    text_obligation("recipient", [recipient |-> recipient])>>

obligations_for_post_to_slack(draft_hash, channel_id) ==
  <<text_obligation("post_exact_hash", [draft_hash |-> draft_hash]),
    text_obligation("channel", [channel_id |-> channel_id])>>

\* The label is written over the data, and the data over the tag.
obligation_value(o) ==
  LET tagged == [f \in DOMAIN o.data \cup {"t"} |->
                   IF f \in DOMAIN o.data THEN o.data[f] ELSE o.t]
  IN  IF o.label = Null THEN tagged ELSE RecSet(tagged, "label", label_value(o.label))

obligations_value(os) == [i \in DOMAIN os |-> obligation_value(os[i])]

(***************************************************************************)
(* Rules every action obeys: Null when none of them denies.                *)
(***************************************************************************)
common_checks(state, action, actor_id, capabilities, policy) ==
  IF state.policy_version # policy.version THEN deny("POLICY_VERSION_MISMATCH")
  ELSE IF action.expected_state_hash # hash_state(state) THEN deny("STALE_STATE")
  ELSE IF nonce_consumed(state, action.nonce) THEN deny("NONCE_REPLAY")
  ELSE IF TextLen(action.nonce) < policy.min_nonce_length THEN deny("NONCE_TOO_SHORT")
  ELSE IF ~operation_allowed(capabilities, actor_id, type_tag(action))
       THEN deny("CAPABILITY_DENIED")
  ELSE Null

verify_read_invoice(state, a) ==
  IF ~has_invoice(state, a.invoice_id) THEN deny("INVOICE_NOT_FOUND")
  ELSE allow(obligations_for_read_invoice(state.invoices[a.invoice_id].label))

verify_create_draft(state, a, policy) ==
  LET invoice == state.invoices[a.invoice_id]
      thread  == state.threads[a.thread_id]
  IN
  IF ~has_invoice(state, a.invoice_id) THEN deny("INVOICE_NOT_FOUND")
  ELSE IF ~has_thread(state, a.thread_id) THEN deny("THREAD_NOT_FOUND")
  ELSE IF invoice.customer_id # a.customer_id THEN deny("INVOICE_CUSTOMER_MISMATCH")
  ELSE IF thread.customer_id # a.customer_id THEN deny("THREAD_CUSTOMER_MISMATCH")
  ELSE IF ~flows_to(invoice.label, a.body_label) THEN deny("IFC_INVOICE_TO_BODY")
  ELSE IF a.body_label.kind # "customer" \/ a.body_label.owner # a.customer_id
       THEN deny("BODY_LABEL_OWNER_MISMATCH")
  ELSE IF TextLen(a.body) = 0 THEN deny("EMPTY_DRAFT")
  ELSE IF TextLen(a.body) > policy.max_draft_chars THEN deny("DRAFT_TOO_LARGE")
  ELSE IF state.counters.drafted_total >= policy.max_total_drafts
       THEN deny("DRAFT_QUOTA")
  ELSE allow(obligations_for_create_draft(a.customer_id, a.body_label))

verify_approve_draft(state, a, actor_id, capabilities, policy) ==
  IF ~has_draft(state, a.draft_hash) THEN deny("DRAFT_NOT_FOUND")
  ELSE IF actor_role(capabilities, actor_id) # policy.approver_role
       THEN deny("APPROVER_ROLE_REQUIRED")
  ELSE IF actor_id # a.approver_id THEN deny("APPROVER_ID_MISMATCH")
  ELSE IF /\ state.drafts[a.draft_hash].created_by = actor_id
          /\ policy.require_separation_of_duties
       THEN deny("SEPARATION_OF_DUTIES")
  ELSE IF has_approval(state, a.draft_hash) THEN deny("ALREADY_APPROVED")
  ELSE allow(obligations_for_approve_draft(a.draft_hash))

recipients_ok(policy, customer_id, recipient) ==
  /\ customer_id \in DOMAIN policy.approved_recipients
  /\ recipient \in policy.approved_recipients[customer_id]

verify_submit_draft(state, a, policy) ==
  LET draft == state.drafts[a.draft_hash] IN
  IF ~has_draft(state, a.draft_hash) THEN deny("DRAFT_NOT_FOUND")
  ELSE IF ~has_approval(state, a.draft_hash) THEN deny("APPROVAL_REQUIRED")
  ELSE IF draft.deliveries.email_submitted THEN deny("ALREADY_SUBMITTED")
  ELSE IF ~recipients_ok(policy, draft.customer_id, a.recipient)
       THEN deny("RECIPIENT_NOT_APPROVED")
  ELSE IF \/ a.recipient_label.kind # "customer"
          \/ a.recipient_label.owner # draft.customer_id
       THEN deny("RECIPIENT_LABEL_OWNER_MISMATCH")
  ELSE IF ~flows_to(draft.body_label, a.recipient_label)
       THEN deny("IFC_BODY_TO_RECIPIENT")
  ELSE IF state.counters.submitted_total >= policy.max_total_submissions
       THEN deny("SUBMISSION_QUOTA")
  ELSE allow(obligations_for_submit_draft(a.draft_hash, a.recipient))

verify_post_to_slack(state, a, policy) ==
  LET draft   == state.drafts[a.draft_hash]
      channel == policy.approved_slack_channels[a.channel_id]
  IN
  IF ~has_draft(state, a.draft_hash) THEN deny("DRAFT_NOT_FOUND")
  ELSE IF ~has_approval(state, a.draft_hash) THEN deny("APPROVAL_REQUIRED")
  ELSE IF a.channel_id \notin DOMAIN policy.approved_slack_channels
       THEN deny("CHANNEL_NOT_FOUND")
  ELSE IF a.channel_label # channel THEN deny("CHANNEL_LABEL_MISMATCH")
  ELSE IF ~flows_to(draft.body_label, channel) THEN deny("IFC_BODY_TO_CHANNEL")
  ELSE IF a.channel_id \in draft.deliveries.slack_posted_channels
       THEN deny("ALREADY_POSTED")
  ELSE IF state.counters.slack_posted_total >= policy.max_total_slack_posts
       THEN deny("SLACK_QUOTA")
  ELSE allow(obligations_for_post_to_slack(a.draft_hash, a.channel_id))

policy_verify(state, action, actor_id, capabilities, policy) ==
  LET common == common_checks(state, action, actor_id, capabilities, policy) IN
  IF common # Null THEN common
  ELSE CASE action.variant = "ReadInvoice"  -> verify_read_invoice(state, action)
         [] action.variant = "CreateDraft"  -> verify_create_draft(state, action, policy)
         [] action.variant = "ApproveDraft" ->
              verify_approve_draft(state, action, actor_id, capabilities, policy)
         [] action.variant = "SubmitDraft"  -> verify_submit_draft(state, action, policy)
         [] action.variant = "PostToSlack"  -> verify_post_to_slack(state, action, policy)

\* Each channel is nested as the record of its label.
policy_value(policy) ==
  [approved_recipients |-> policy.approved_recipients,
   approved_slack_channels |->
     [ch \in DOMAIN policy.approved_slack_channels |->
        [label |-> label_value(policy.approved_slack_channels[ch])]],
   approver_role |-> policy.approver_role,
   max_draft_chars |-> policy.max_draft_chars,
   max_total_drafts |-> policy.max_total_drafts,
   max_total_slack_posts |-> policy.max_total_slack_posts,
   max_total_submissions |-> policy.max_total_submissions,
   min_nonce_length |-> policy.min_nonce_length,
   require_separation_of_duties |-> policy.require_separation_of_duties,
   version |-> policy.version]

policy_digest(policy) == TaggedDigest("confine.policy.v1", policy_value(policy))
=============================================================================
