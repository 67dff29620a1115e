----------------------------- MODULE PortPython -----------------------------
(***************************************************************************)
(* The Python port's policy kernel and what it reads: labels, capabilities *)
(* and the state's hash.  Operators keep the names of the Python           *)
(* functions; an instance of a dataclass is a record of its fields, and    *)
(* the action is the engine's own, a dictionary with a label in it.        *)
(***************************************************************************)
EXTENDS Canonical

CONSTANT CodePoints(_)   \* len of a str

(***************************************************************************)
(* labels.py                                                               *)
(***************************************************************************)
rank(kind) ==
  CASE kind = "public"   -> 0
    [] kind = "internal" -> 1
    [] kind = "customer" -> 2
    [] kind = "secret"   -> 3
    [] OTHER             -> 100

valid(label) == rank(label.kind) < 100

contains_all(xs, ys) ==
  \A j \in DOMAIN ys : \E i \in DOMAIN xs : xs[i] = ys[j]

flows_to(source, sink) ==
  /\ valid(source) /\ valid(sink)
  /\ CASE source.kind = "public"   -> TRUE
       [] source.kind = "internal" -> rank(sink.kind) >= 1
       [] source.kind \in {"customer", "secret"} ->
            /\ sink.kind = source.kind
            /\ source.owner = sink.owner
            /\ contains_all(sink.compartments, source.compartments)
       [] OTHER -> FALSE

(***************************************************************************)
(* capabilities.py                                                         *)
(***************************************************************************)

\* Lists of operations and of recipients are modelled as sets.
operation_allowed(capabilities, actor_id, operation) ==
  /\ actor_id \in DOMAIN capabilities.actors
  /\ operation \in capabilities.actors[actor_id].operations

\* None is Null.
actor_role(capabilities, actor_id) ==
  IF actor_id \in DOMAIN capabilities.actors
  THEN capabilities.actors[actor_id].role
  ELSE Null

(***************************************************************************)
(* state.py: what to_dict makes of each class, and the hash.               *)
(***************************************************************************)
label_dict(label) ==
  [kind |-> label.kind, owner |-> label.owner, compartments |-> label.compartments]

invoice_dict(invoice) ==
  [invoice_id |-> invoice.invoice_id, customer_id |-> invoice.customer_id,
   status |-> invoice.status, amount_cents |-> invoice.amount_cents,
   label |-> label_dict(invoice.label)]

thread_dict(thread) ==
  [thread_id |-> thread.thread_id, customer_id |-> thread.customer_id]

\* A dictionary of channels to True is modelled as the set of its keys.
delivery_dict(delivery) ==
  [email |-> [submitted |-> delivery.email_submitted,
              recipient |-> delivery.email_recipient],
   slack |-> delivery.slack_posted_channels]

draft_dict(draft) ==
  [body |-> draft.body, body_label |-> label_dict(draft.body_label),
   created_by |-> draft.created_by, customer_id |-> draft.customer_id,
   deliveries |-> delivery_dict(draft.deliveries),
   draft_hash |-> draft.draft_hash, invoice_id |-> draft.invoice_id,
   thread_id |-> draft.thread_id]

approval_dict(approval) ==
  [approver_id |-> approval.approver_id, draft_hash |-> approval.draft_hash,
   sequence |-> approval.sequence]

counters_dict(counters) ==
  [approved_total |-> counters.approved_total, drafted_total |-> counters.drafted_total,
   slack_posted_total |-> counters.slack_posted_total,
   submitted_total |-> counters.submitted_total]

to_dict_for_hashing(state) ==
  [policy_version |-> state.policy_version,
   sequence |-> state.sequence,
   invoices |-> [k \in DOMAIN state.invoices |-> invoice_dict(state.invoices[k])],
   threads |-> [k \in DOMAIN state.threads |-> thread_dict(state.threads[k])],
   drafts |-> [k \in DOMAIN state.drafts |-> draft_dict(state.drafts[k])],
   approvals |-> [k \in DOMAIN state.approvals |-> approval_dict(state.approvals[k])],
   consumed_nonces |-> state.consumed_nonces,
   counters |-> counters_dict(state.counters),
   submissions |-> state.submissions,
   slack_posts |-> state.slack_posts]

hash_state(state) == TaggedDigest("confine.state.v1", to_dict_for_hashing(state))

\* The getters return None for what is not there.
has_invoice(state, id)    == id \in DOMAIN state.invoices
has_thread(state, id)     == id \in DOMAIN state.threads
has_draft(state, hash)    == hash \in DOMAIN state.drafts
has_approval(state, hash) == hash \in DOMAIN state.approvals

nonce_consumed(state, nonce) == nonce \in state.consumed_nonces

(***************************************************************************)
(* policy.py: the rules in the order of the code.                          *)
(***************************************************************************)
deny(code) == [t |-> "deny", code |-> code]
allow(obligations) == [t |-> "allow", obligations |-> obligations]

obligations_for_create_draft(customer_id, body_label) ==
  <<[t |-> "bind_customer", customer_id |-> customer_id],
    [t |-> "body_label", label |-> body_label]>>

obligations_for_approve_draft(draft_hash) ==
  <<[t |-> "approve_exact_hash", draft_hash |-> draft_hash]>>

obligations_for_submit_draft(draft_hash, recipient) ==
  <<[t |-> "submit_exact_hash", draft_hash |-> draft_hash],
    [t |-> "recipient", recipient |-> recipient]>>

\* Null when no rule denies.
common_checks(state, action, actor_id, capabilities, policy) ==
  IF state.policy_version # policy.version THEN deny("POLICY_VERSION_MISMATCH")
  ELSE IF action.expected_state_hash # hash_state(state) THEN deny("STALE_STATE")
  ELSE IF nonce_consumed(state, action.nonce) THEN deny("NONCE_REPLAY")
  ELSE IF CodePoints(action.nonce) < policy.min_nonce_length THEN deny("NONCE_TOO_SHORT")
  ELSE IF ~operation_allowed(capabilities, actor_id, action.t) THEN deny("CAPABILITY_DENIED")
  ELSE Null

verify_read_invoice(state, action) ==
  IF ~has_invoice(state, action.invoice_id) THEN deny("INVOICE_NOT_FOUND")
  ELSE allow(<<[t |-> "result_label", label |-> state.invoices[action.invoice_id].label]>>)

verify_create_draft(state, action, policy) ==
  LET invoice == state.invoices[action.invoice_id]
      thread  == state.threads[action.thread_id]
      label   == action.body_label
  IN
  IF ~has_invoice(state, action.invoice_id) THEN deny("INVOICE_NOT_FOUND")
  ELSE IF ~has_thread(state, action.thread_id) THEN deny("THREAD_NOT_FOUND")
  ELSE IF invoice.customer_id # action.customer_id THEN deny("INVOICE_CUSTOMER_MISMATCH")
  ELSE IF thread.customer_id # action.customer_id THEN deny("THREAD_CUSTOMER_MISMATCH")
  ELSE IF ~flows_to(invoice.label, label) THEN deny("IFC_INVOICE_TO_BODY")
  ELSE IF label.kind # "customer" \/ label.owner # action.customer_id
       THEN deny("BODY_LABEL_OWNER_MISMATCH")
  ELSE IF CodePoints(action.body) = 0 THEN deny("EMPTY_DRAFT")
  ELSE IF CodePoints(action.body) > policy.max_draft_chars THEN deny("DRAFT_TOO_LARGE")
  ELSE IF state.counters.drafted_total >= policy.max_total_drafts THEN deny("DRAFT_QUOTA")
  ELSE allow(obligations_for_create_draft(action.customer_id, label))

verify_approve_draft(state, action, actor_id, capabilities, policy) ==
  IF ~has_draft(state, action.draft_hash) THEN deny("DRAFT_NOT_FOUND")
  ELSE IF actor_role(capabilities, actor_id) # policy.approver_role
       THEN deny("APPROVER_ROLE_REQUIRED")
  ELSE IF actor_id # action.approver_id THEN deny("APPROVER_ID_MISMATCH")
  ELSE IF /\ state.drafts[action.draft_hash].created_by = actor_id
          /\ policy.require_separation_of_duties
       THEN deny("SEPARATION_OF_DUTIES")
  ELSE IF has_approval(state, action.draft_hash) THEN deny("ALREADY_APPROVED")
  ELSE allow(obligations_for_approve_draft(action.draft_hash))

\* A customer without recipients has the empty list of them.
recipients_of(policy, customer_id) ==
  IF customer_id \in DOMAIN policy.approved_recipients
  THEN policy.approved_recipients[customer_id] ELSE {}

verify_submit_draft(state, action, policy) ==
  LET draft == state.drafts[action.draft_hash]
      label == action.recipient_label
  IN
  IF ~has_draft(state, action.draft_hash) THEN deny("DRAFT_NOT_FOUND")
  ELSE IF ~has_approval(state, action.draft_hash) THEN deny("APPROVAL_REQUIRED")
  ELSE IF draft.deliveries.email_submitted THEN deny("ALREADY_SUBMITTED")
  ELSE IF action.recipient \notin recipients_of(policy, draft.customer_id)
       THEN deny("RECIPIENT_NOT_APPROVED")
  ELSE IF label.kind # "customer" \/ label.owner # draft.customer_id
       THEN deny("RECIPIENT_LABEL_OWNER_MISMATCH")
  ELSE IF ~flows_to(draft.body_label, label) THEN deny("IFC_BODY_TO_RECIPIENT")
  ELSE IF state.counters.submitted_total >= policy.max_total_submissions
       THEN deny("SUBMISSION_QUOTA")
  ELSE allow(obligations_for_submit_draft(action.draft_hash, action.recipient))

verify_post_to_slack(state, action, policy) ==
  LET draft   == state.drafts[action.draft_hash]
      channel == policy.approved_slack_channels[action.channel_id]
  IN
  IF ~has_draft(state, action.draft_hash) THEN deny("DRAFT_NOT_FOUND")
  ELSE IF ~has_approval(state, action.draft_hash) THEN deny("APPROVAL_REQUIRED")
  ELSE IF action.channel_id \notin DOMAIN policy.approved_slack_channels
       THEN deny("CHANNEL_NOT_FOUND")
  ELSE IF action.channel_label # channel THEN deny("CHANNEL_LABEL_MISMATCH")
  ELSE IF ~flows_to(draft.body_label, channel) THEN deny("IFC_BODY_TO_CHANNEL")
  ELSE IF action.channel_id \in draft.deliveries.slack_posted_channels
       THEN deny("ALREADY_POSTED")
  ELSE IF state.counters.slack_posted_total >= policy.max_total_slack_posts
       THEN deny("SLACK_QUOTA")
  ELSE allow(<<[t |-> "post_exact_hash", draft_hash |-> action.draft_hash],
               [t |-> "channel", channel_id |-> action.channel_id]>>)

verify(state, action, actor_id, capabilities, policy) ==
  LET common == common_checks(state, action, actor_id, capabilities, policy) IN
  IF common # Null THEN common
  ELSE CASE action.t = "read_invoice"  -> verify_read_invoice(state, action)
         [] action.t = "create_draft"  -> verify_create_draft(state, action, policy)
         [] action.t = "approve_draft" ->
              verify_approve_draft(state, action, actor_id, capabilities, policy)
         [] action.t = "submit_draft"  -> verify_submit_draft(state, action, policy)
         [] action.t = "post_to_slack" -> verify_post_to_slack(state, action, policy)
         [] OTHER                      -> deny("UNKNOWN_ACTION")
=============================================================================
