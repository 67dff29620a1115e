----------------------------- MODULE PortState ------------------------------
(***************************************************************************)
(* The Rust port's action enum and committed state, and the protocol       *)
(* values their hashes cover.  Structs with the fields of their value      *)
(* differ from it only where the conversions below say so.                 *)
(***************************************************************************)
EXTENDS PortLabels

(***************************************************************************)
(* Actions: a record of the variant's fields and the name of the variant.  *)
(***************************************************************************)

\* The fields of each variant, besides nonce and expected_state_hash.
VariantFields ==
  [ReadInvoice  |-> {"invoice_id"},
   CreateDraft  |-> {"thread_id", "invoice_id", "customer_id", "body", "body_label"},
   ApproveDraft |-> {"draft_hash", "approver_id"},
   SubmitDraft  |-> {"draft_hash", "recipient", "recipient_label"},
   PostToSlack  |-> {"draft_hash", "channel_id", "channel_label"}]

type_tag(action) ==
  CASE action.variant = "ReadInvoice"  -> "read_invoice"
    [] action.variant = "CreateDraft"  -> "create_draft"
    [] action.variant = "ApproveDraft" -> "approve_draft"
    [] action.variant = "SubmitDraft"  -> "submit_draft"
    [] action.variant = "PostToSlack"  -> "post_to_slack"

\* Every variant writes its tag and each of its fields, the labels as values.
action_value(action) ==
  [f \in VariantFields[action.variant] \cup {"t", "nonce", "expected_state_hash"} |->
     CASE f = "t" -> type_tag(action)
       [] f \in {"body_label", "recipient_label", "channel_label"} ->
            label_value(action[f])
       [] OTHER -> action[f]]

action_hash(action) == TaggedDigest("confine.action.v1", action_value(action))

(***************************************************************************)
(* The state.                                                              *)
(***************************************************************************)
new_delivery == [email_submitted |-> FALSE, email_recipient |-> Null,
                 slack_posted_channels |-> {}]

\* The getters return an Option: here, whether it is Some.
has_invoice(state, id)    == id \in DOMAIN state.invoices
has_thread(state, id)     == id \in DOMAIN state.threads
has_draft(state, hash)    == hash \in DOMAIN state.drafts
has_approval(state, hash) == hash \in DOMAIN state.approvals

nonce_consumed(state, nonce) == nonce \in state.consumed_nonces

invoice_value(invoice) ==
  [invoice_id |-> invoice.invoice_id, customer_id |-> invoice.customer_id,
   status |-> invoice.status, amount_cents |-> invoice.amount_cents,
   label |-> label_value(invoice.label)]

thread_value(thread) ==
  [thread_id |-> thread.thread_id, customer_id |-> thread.customer_id]

\* Mutant: the posted channels do not reach the value.
mail_only_value(delivery) ==
  [email |-> [submitted |-> delivery.email_submitted,
              recipient |-> delivery.email_recipient],
   slack |-> {}]

\* A map of channels to true is modelled as the set of its keys.
delivery_value(delivery) ==
  [email |-> [submitted |-> delivery.email_submitted,
              recipient |-> delivery.email_recipient],
   slack |-> delivery.slack_posted_channels]

draft_value(draft) ==
  [body |-> draft.body, body_label |-> label_value(draft.body_label),
   created_by |-> draft.created_by, customer_id |-> draft.customer_id,
   deliveries |-> delivery_value(draft.deliveries),
   draft_hash |-> draft.draft_hash, invoice_id |-> draft.invoice_id,
   thread_id |-> draft.thread_id]

approval_value(approval) ==
  [approver_id |-> approval.approver_id, draft_hash |-> approval.draft_hash,
   sequence |-> approval.sequence]

counters_value(counters) ==
  [approved_total |-> counters.approved_total,
   drafted_total |-> counters.drafted_total,
   slack_posted_total |-> counters.slack_posted_total,
   submitted_total |-> counters.submitted_total]

\* The value that is hashed: previous_receipt_hash is not part of it.
value_for_hashing(state) ==
  [policy_version |-> state.policy_version,
   sequence |-> state.sequence,
   invoices |-> [k \in DOMAIN state.invoices |-> invoice_value(state.invoices[k])],
   threads |-> [k \in DOMAIN state.threads |-> thread_value(state.threads[k])],
   drafts |-> [k \in DOMAIN state.drafts |-> draft_value(state.drafts[k])],
   approvals |-> [k \in DOMAIN state.approvals |-> approval_value(state.approvals[k])],
   consumed_nonces |-> state.consumed_nonces,
   counters |-> counters_value(state.counters),
   submissions |-> state.submissions,
   slack_posts |-> state.slack_posts]

hash_state(state) == TaggedDigest("confine.state.v1", value_for_hashing(state))
=============================================================================
