---------------------------- MODULE Conformance -----------------------------
(***************************************************************************)
(* The Rust port against the FARD engine it is a port of: in every state   *)
(* the engine reaches, and for everything a caller may propose there, the  *)
(* port computes the same digests, takes the same decisions and accepts    *)
(* the same certificates.  TextLen is the port's measure of a text, StrLen *)
(* the engine's.                                                           *)
(***************************************************************************)
EXTENDS Engine, PortExecutor

(***************************************************************************)
(* The port's structs for the engine's records, as its tests build them.   *)
(***************************************************************************)
AsDelivery(d) ==
  [email_submitted |-> d.email.submitted, email_recipient |-> d.email.recipient,
   slack_posted_channels |-> d.slack]

AsDraft(d) ==
  [draft_hash |-> d.draft_hash, thread_id |-> d.thread_id,
   invoice_id |-> d.invoice_id, customer_id |-> d.customer_id, body |-> d.body,
   body_label |-> d.body_label, created_by |-> d.created_by,
   deliveries |-> AsDelivery(d.deliveries)]

\* Invoices, threads, approvals and counters have the fields of their records.
AsState(s) ==
  [policy_version |-> s.policy_version, sequence |-> s.sequence,
   invoices |-> s.invoices, threads |-> s.threads,
   drafts |-> [h \in DOMAIN s.drafts |-> AsDraft(s.drafts[h])],
   approvals |-> s.approvals, consumed_nonces |-> s.consumed_nonces,
   counters |-> s.counters, submissions |-> s.submissions,
   slack_posts |-> s.slack_posts,
   previous_receipt_hash |-> s.previous_receipt_hash]

Variant(t) ==
  CASE t = "read_invoice"  -> "ReadInvoice"
    [] t = "create_draft"  -> "CreateDraft"
    [] t = "approve_draft" -> "ApproveDraft"
    [] t = "submit_draft"  -> "SubmitDraft"
    [] t = "post_to_slack" -> "PostToSlack"

AsAction(p) == RecSet(RecRemove(p, "t"), "variant", Variant(p.t))

AsCapabilities(caps) ==
  [actors |-> caps.actors, operations_registry |-> caps.operations]

AsPolicy(pol) ==
  [pol EXCEPT !.approved_slack_channels =
     [ch \in DOMAIN pol.approved_slack_channels |->
        pol.approved_slack_channels[ch].label]]

\* The record the engine knows a certificate of the port by.
CertificateRecord(c) == RecSet(unsigned_value(c), "mac", c.mac)

(***************************************************************************)
(* What the port's structs can hold: records with their fields and no      *)
(* other, none of them of the wrong type.  The engine asks for less.       *)
(***************************************************************************)
HasExactly(r, fields) == r = [f \in fields |-> r[f]]

LabelFits(l) ==
  /\ HasExactly(l, {"kind", "owner", "compartments"})
  /\ l \notin {Malformed, Null}
  /\ Malformed \notin {l.kind, l.owner, l.compartments}

InvoiceFits(i) ==
  /\ HasExactly(i, {"invoice_id", "customer_id", "status", "amount_cents", "label"})
  /\ LabelFits(i.label)

ThreadFits(t) == HasExactly(t, {"thread_id", "customer_id"})

ActorFits(a) == HasExactly(a, {"role", "operations"}) /\ a.operations # Malformed

CapabilitiesFit(caps) ==
  /\ HasExactly(caps, {"actors", "operations"})
  /\ HasExactly(caps.actors, DOMAIN caps.actors)
  /\ \A id \in DOMAIN caps.actors : ActorFits(caps.actors[id])

PolicyFits(pol) ==
  LET channels == pol.approved_slack_channels IN
  /\ HasExactly(pol, {"version", "min_nonce_length", "max_draft_chars",
                      "max_total_drafts", "max_total_submissions", "approver_role",
                      "require_separation_of_duties", "approved_recipients",
                      "approved_slack_channels", "max_total_slack_posts"})
  /\ HasExactly(channels, DOMAIN channels)
  /\ \A ch \in DOMAIN channels :
       HasExactly(channels[ch], {"label"}) /\ LabelFits(channels[ch].label)

\* The configuration and the texts and labels that are proposed can be given to
\* the port, and it measures the texts as the engine does.
Portable ==
  /\ PolicyFits(Config.policy)
  /\ CapabilitiesFit(Config.capabilities)
  /\ HasExactly(Config.invoices, DOMAIN Config.invoices)
  /\ HasExactly(Config.threads, DOMAIN Config.threads)
  /\ \A id \in DOMAIN Config.invoices : InvoiceFits(Config.invoices[id])
  /\ \A id \in DOMAIN Config.threads : ThreadFits(Config.threads[id])
  /\ \A l \in ClaimedLabels : LabelFits(l)
  /\ \A x \in Nonces \cup Bodies : TextLen(x) = StrLen(x) /\ StrLen(x) \in Nat
  /\ Malformed \notin UNION {Nonces, InvoiceIds, ThreadIds, CustomerIds, Bodies, Recipients,
                             ChannelIds, ActorIds}

(***************************************************************************)
(* The port at work on the engine's state.                                 *)
(***************************************************************************)
PortVerify(s, p, actor) ==
  policy_verify(AsState(s), AsAction(p), actor,
                AsCapabilities(Config.capabilities), AsPolicy(Config.policy))

PortIssue(s, p, actor, obligations, secret) ==
  issue(AsState(s), AsAction(p), actor, AsCapabilities(Config.capabilities),
        AsPolicy(Config.policy), obligations, secret)

PortExecute(s, p, actor, certificate) ==
  execute_exact(AsState(s), AsAction(p), actor,
                AsCapabilities(Config.capabilities), AsPolicy(Config.policy),
                certificate, Config.broker_secret)

\* Obligations consistent with the action, whatever the policy says of it: what
\* the holder of the secret can have signed without asking the kernel.
ClaimedObligations(s, p) ==
  CASE p.t = "read_invoice"  ->
         IF HasInvoice(s, p.invoice_id)
         THEN obligations_for_read_invoice(s.invoices[p.invoice_id].label) ELSE <<>>
    [] p.t = "create_draft"  -> obligations_for_create_draft(p.customer_id, p.body_label)
    [] p.t = "approve_draft" -> obligations_for_approve_draft(p.draft_hash)
    [] p.t = "submit_draft"  -> obligations_for_submit_draft(p.draft_hash, p.recipient)
    [] p.t = "post_to_slack" -> obligations_for_post_to_slack(p.draft_hash, p.channel_id)

\* Certificates an executor may be handed with a proposal: signed in this state
\* for any actor, in the initial state, without the obligations, or by somebody
\* who does not hold the broker secret.
Presented(s, p, actor) ==
  LET claimed == ClaimedObligations(s, p)
      secret  == Config.broker_secret
  IN  {PortIssue(s, p, other, claimed, secret) : other \in ActorIds} \cup
      {PortIssue(Initial(Config), p, actor, claimed, secret),
       PortIssue(s, p, actor, <<>>, secret),
       PortIssue(s, p, actor, claimed, "another secret")}

(***************************************************************************)
(* Conformance.                                                            *)
(***************************************************************************)

\* The port hashes the state, the configuration and every proposal to what the
\* engine hashes them to (state.rs:104-112: only the empty state was compared).
HashesAgree ==
  /\ hash_state(AsState(state)) = HashState(state)
  /\ policy_digest(AsPolicy(Config.policy)) = PolicyDigest(Config.policy)
  /\ capability_digest(AsCapabilities(Config.capabilities))
       = CapabilitiesDigest(Config.capabilities)
  /\ \A p \in Offers(state) : action_hash(AsAction(p)) = ActionHash(p)

\* The port allows exactly what the engine allows, with the same obligations
\* (policy.rs:9-13: two of the five obligations were never compared).
DecisionsAgree ==
  \A actor \in ActorIds, p \in Offers(state) :
    LET decision == PortVerify(state, p, actor) IN
    /\ is_allow(decision) <=> Allowed(state, p, actor)
    /\ is_allow(decision) => obligations_value(decision.obligations)
                               = ObligationsForAction(state, p)

\* The port signs the record the engine would sign, and its executor accepts a
\* certificate, of whatever origin, exactly when the engine's does.
ExecutionsAgree ==
  \A p \in Offers(state) : \A actor \in ActorIds :
    /\ Allowed(state, p, actor) =>
         CertificateRecord(PortIssue(state, p, actor, ClaimedObligations(state, p),
                                     Config.broker_secret))
           = CertificateFor(state, p, actor)
    /\ \A c \in Presented(state, p, actor) :
         PortExecute(state, p, actor, c).ok <=>
           ExecutorAccepts(state, p, actor, Config.capabilities, Config.policy,
                           CertificateRecord(c), Config.broker_secret)
=============================================================================
