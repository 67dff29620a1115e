---------------------------- MODULE PortLengths -----------------------------
(***************************************************************************)
(* The three ports side by side, each a translation of its own: what they  *)
(* answer to one offer in one state.  Their kernels measure a text in      *)
(* bytes, code points and UTF-16 units, and JavaScript's compares labels   *)
(* by a text that keeps the order of their keys.                           *)
(***************************************************************************)
EXTENDS Conformance

CONSTANTS
  CodePoints(_),   \* Python's len
  Utf16Units(_)    \* JavaScript's length

Python == INSTANCE PortPython
JavaScript == INSTANCE PortJavaScript

(***************************************************************************)
(* The engine's records as the JavaScript port's tests write them.  Python *)
(* has the fields of the Rust port's structs.                              *)
(***************************************************************************)
AsJavaScriptLabel(l, keys) ==
  [kind |-> l.kind, owner |-> l.owner, compartments |-> l.compartments, keys |-> keys]

Constructed(l) == AsJavaScriptLabel(l, JavaScript!ConstructorKeys)

AsJavaScriptInvoice(i) ==
  [invoiceId |-> i.invoice_id, customerId |-> i.customer_id, status |-> i.status,
   amountCents |-> i.amount_cents, label |-> Constructed(i.label)]

AsJavaScriptDraft(d) ==
  [draftHash |-> d.draft_hash, threadId |-> d.thread_id, invoiceId |-> d.invoice_id,
   customerId |-> d.customer_id, body |-> d.body, bodyLabel |-> Constructed(d.body_label),
   createdBy |-> d.created_by,
   deliveries |-> [emailSubmitted |-> d.deliveries.email.submitted,
                   emailRecipient |-> d.deliveries.email.recipient,
                   slackPostedChannels |-> d.deliveries.slack]]

AsJavaScriptState(s) ==
  [policyVersion |-> s.policy_version, sequence |-> s.sequence,
   invoices |-> [k \in DOMAIN s.invoices |-> AsJavaScriptInvoice(s.invoices[k])],
   threads |-> [k \in DOMAIN s.threads |-> [threadId |-> s.threads[k].thread_id,
                                            customerId |-> s.threads[k].customer_id]],
   drafts |-> [h \in DOMAIN s.drafts |-> AsJavaScriptDraft(s.drafts[h])],
   approvals |-> [h \in DOMAIN s.approvals |->
                    [draftHash |-> s.approvals[h].draft_hash,
                     approverId |-> s.approvals[h].approver_id,
                     sequence |-> s.approvals[h].sequence]],
   consumedNonces |-> s.consumed_nonces,
   counters |-> [approvedTotal |-> s.counters.approved_total,
                 draftedTotal |-> s.counters.drafted_total,
                 slackPostedTotal |-> s.counters.slack_posted_total,
                 submittedTotal |-> s.counters.submitted_total],
   submissions |-> s.submissions, slackPosts |-> s.slack_posts,
   previousReceiptHash |-> s.previous_receipt_hash]

AsJavaScriptPolicy(pol) ==
  LET channels == pol.approved_slack_channels IN
  [version |-> pol.version, minNonceLength |-> pol.min_nonce_length,
   maxDraftChars |-> pol.max_draft_chars, maxTotalDrafts |-> pol.max_total_drafts,
   maxTotalSubmissions |-> pol.max_total_submissions,
   maxTotalSlackPosts |-> pol.max_total_slack_posts,
   approverRole |-> pol.approver_role,
   requireSeparationOfDuties |-> pol.require_separation_of_duties,
   approvedRecipients |-> pol.approved_recipients,
   approvedSlackChannels |-> [ch \in DOMAIN channels |-> Constructed(channels[ch].label)]]

\* An action whose label somebody wrote with its keys in the given order.
LabelField(t) ==
  CASE t = "create_draft"  -> {"body_label"}
    [] t = "submit_draft"  -> {"recipient_label"}
    [] t = "post_to_slack" -> {"channel_label"}
    [] OTHER               -> {}

AsJavaScriptAction(p, keys) ==
  [f \in DOMAIN p |-> IF f \in LabelField(p.t) THEN AsJavaScriptLabel(p[f], keys) ELSE p[f]]

(***************************************************************************)
(* The answers, as values: obligations as their executors encode them.     *)
(***************************************************************************)
RustAnswered(decision) ==
  IF is_allow(decision)
  THEN [t |-> "allow", obligations |-> obligations_value(decision.obligations)]
  ELSE [t |-> "deny", code |-> decision.code]

RustAnswer(s, p, actor) == RustAnswered(PortVerify(s, p, actor))

PythonAnswer(s, p, actor) ==
  Python!verify(AsState(s), p, actor, AsCapabilities(Config.capabilities),
                AsPolicy(Config.policy))

EncodedObligation(o) ==
  IF "label" \in DOMAIN o THEN [o EXCEPT !.label = JavaScript!Encoded(@)] ELSE o

JavaScriptAnswered(decision) ==
  IF decision.t = "allow"
  THEN [t |-> "allow", obligations |-> [i \in DOMAIN decision.obligations |->
                                          EncodedObligation(decision.obligations[i])]]
  ELSE decision

JavaScriptAnswer(s, p, actor, keys) ==
  JavaScriptAnswered(
    JavaScript!verify(AsJavaScriptState(s), AsJavaScriptAction(p, keys), actor,
                      Config.capabilities, AsJavaScriptPolicy(Config.policy)))

\* Every port gives the same answer to every offer, with the same code or
\* obligations: "Every branch and check order traces to a specific line in that
\* file" (policy.rs:3-4), "Direct port of packages/confine/policy.fard,
\* transliterated from the vector-confirmed Rust port" (policy.py:3-4).
PortsDecideAlike ==
  \A actor \in ActorIds, p \in Offers(state) :
    /\ PythonAnswer(state, p, actor) = RustAnswer(state, p, actor)
    /\ JavaScriptAnswer(state, p, actor, JavaScript!ConstructorKeys)
         = RustAnswer(state, p, actor)
=============================================================================
