----------------------------- MODULE Evaluation -----------------------------
(***************************************************************************)
(* FARD stops with a runtime error where a field is read that a record     *)
(* does not have, or an operation is given a value it is not defined on.   *)
(* Here is what a call of apply_with_receipt reads besides the action it   *)
(* has parsed: of the state and the policy in any case, of their entries   *)
(* once the look-ups that come first have found them.                      *)
(***************************************************************************)
EXTENDS Transition

Has(r, fields) == fields \subseteq DOMAIN r

\* An entry of the configuration may be anything.
HasEntry(x, fields) == x # Malformed /\ Has(x, fields)

\* The fields common_checks, certificates, receipts and the branches read; the
\* counters, which are compared and raised.
StateEvaluates(s) ==
  LET counts == {"submitted_total", "drafted_total", "approved_total", "slack_posted_total"}
  IN  /\ Has(s, {"policy_version", "sequence", "invoices", "threads", "drafts",
                 "approvals", "submissions", "slack_posts", "consumed_nonces",
                 "counters", "previous_receipt_hash"})
      /\ s.sequence \in Int
      /\ Has(s.counters, counts) /\ \A name \in counts : s.counters[name] \in Int

\* What is compared with a length or a counter is a number, what is a
\* condition a truth value.
PolicyEvaluates(pol) ==
  LET limits == {"min_nonce_length", "max_draft_chars", "max_total_drafts",
                 "max_total_submissions", "max_total_slack_posts"}
  IN  /\ Has(pol, limits) /\ \A f \in limits : pol[f] \in Int
      /\ Has(pol, {"version", "approver_role", "require_separation_of_duties",
                   "approved_recipients", "approved_slack_channels"})
      /\ pol.require_separation_of_duties \in BOOLEAN

\* operation_allowed asks whether the entry it finds has a field.
ActorEvaluates(caps, actor) ==
  /\ Has(caps, {"actors"})
  /\ actor \in DOMAIN caps.actors => caps.actors[actor] # Malformed

\* The obligation is the label, the result all of these.
ReadInvoiceEvaluates(s, a) ==
  HasInvoice(s, a.invoice_id) =>
    HasEntry(s.invoices[a.invoice_id], {"status", "amount_cents", "customer_id", "label"})

CreateDraftEvaluates(s, a) ==
  HasInvoice(s, a.invoice_id) /\ HasThread(s, a.thread_id) =>
    /\ HasEntry(s.invoices[a.invoice_id], {"customer_id", "label"})
    /\ HasEntry(s.threads[a.thread_id], {"customer_id"})

ApproveDraftEvaluates(s, a) ==
  HasDraft(s, a.draft_hash) => Has(s.drafts[a.draft_hash], {"created_by"})

\* Submitting and posting keep the other delivery of the draft.
DeliveryEvaluates(draft) ==
  /\ Has(draft, {"thread_id", "body", "body_label", "deliveries"})
  /\ Has(draft.deliveries, {"email", "slack"})

SubmitDraftEvaluates(s, a, pol) ==
  LET draft == s.drafts[a.draft_hash] IN
  HasDraft(s, a.draft_hash) /\ HasApproval(s, a.draft_hash) =>
    /\ DeliveryEvaluates(draft)
    /\ Has(draft.deliveries.email, {"submitted"})
    /\ draft.deliveries.email.submitted \in BOOLEAN
    /\ Has(draft, {"customer_id"})
    /\ draft.customer_id \in DOMAIN pol.approved_recipients =>
         pol.approved_recipients[draft.customer_id] # Malformed

PostToSlackEvaluates(s, a, pol) ==
  /\ HasDraft(s, a.draft_hash)
  /\ HasApproval(s, a.draft_hash)
  /\ a.channel_id \in DOMAIN pol.approved_slack_channels
  => /\ DeliveryEvaluates(s.drafts[a.draft_hash])
     /\ HasEntry(pol.approved_slack_channels[a.channel_id], {"label"})

\* apply_with_receipt returns: it commits or rejects.
Evaluates(s, p, actor) ==
  Parses(p) =>
    /\ StateEvaluates(s)
    /\ PolicyEvaluates(Config.policy)
    /\ ActorEvaluates(Config.capabilities, actor)
    /\ CASE p.t = "read_invoice"  -> ReadInvoiceEvaluates(s, p)
         [] p.t = "create_draft"  -> CreateDraftEvaluates(s, p)
         [] p.t = "approve_draft" -> ApproveDraftEvaluates(s, p)
         [] p.t = "submit_draft"  -> SubmitDraftEvaluates(s, p, Config.policy)
         [] p.t = "post_to_slack" -> PostToSlackEvaluates(s, p, Config.policy)

\* config.validate does not look at the entries of the maps it asks for.
EntriesComplete(config) ==
  /\ \A i \in DOMAIN config.invoices :
       HasEntry(config.invoices[i], {"status", "amount_cents", "customer_id", "label"})
  /\ \A i \in DOMAIN config.threads : HasEntry(config.threads[i], {"customer_id"})
  /\ \A i \in DOMAIN config.policy.approved_slack_channels :
       HasEntry(config.policy.approved_slack_channels[i], {"label"})
  /\ \A i \in DOMAIN config.policy.approved_recipients :
       config.policy.approved_recipients[i] # Malformed
  /\ \A i \in DOMAIN config.capabilities.actors : config.capabilities.actors[i] # Malformed
=============================================================================
