------------------------------ MODULE Executor ------------------------------
(***************************************************************************)
(* The execution boundary: it checks the certificate, reruns the whole     *)
(* policy kernel, compares the obligations, and only then produces the     *)
(* result and the next state of exactly one action.                        *)
(***************************************************************************)
EXTENDS Certificate

\* The counters after one more of what name counts.
Count(counters, name) == [counters EXCEPT ![name] = @ + 1]

\* What every operation but a read changes, besides the fields of its own.
Step(s, a, name) ==
  [s EXCEPT !.sequence = @ + 1,
            !.consumed_nonces = ConsumeNonce(s, a.nonce),
            !.counters = Count(@, name)]

(***************************************************************************)
(* read_invoice                                                            *)
(***************************************************************************)
ReadInvoiceResult(s, a) ==
  LET invoice == s.invoices[a.invoice_id] IN
  [t |-> "invoice_status", invoice_id |-> a.invoice_id, status |-> invoice.status,
   amount_cents |-> invoice.amount_cents, customer_id |-> invoice.customer_id,
   label |-> invoice.label]

\* Mutant: a read does not consume its nonce.
AfterReadForFree(s, a) == [s EXCEPT !.sequence = @ + 1]

\* Mutant: a read changes nothing.
AfterPureRead(s, a) == s

AfterReadInvoice(s, a) ==
  [s EXCEPT !.sequence = @ + 1, !.consumed_nonces = ConsumeNonce(s, a.nonce)]

(***************************************************************************)
(* create_draft: the hash commits to the content, and to its author, but   *)
(* not to the nonce, so the same content by the same author is the same    *)
(* draft, and it is stored with fresh deliveries.                          *)
(***************************************************************************)
DraftContent(a, actor) ==
  [thread_id |-> a.thread_id, invoice_id |-> a.invoice_id,
   customer_id |-> a.customer_id, body |-> a.body,
   body_label |-> a.body_label, created_by |-> actor]

\* Mutant: the hash does not commit to the author.
AnonymousDraftHash(content) ==
  TaggedDigest("confine.draft.v1", RecRemove(content, "created_by"))

DraftHash(content) == TaggedDigest("confine.draft.v1", content)

NoDeliveries == [email |-> [submitted |-> FALSE, recipient |-> Null],
                 slack |-> {}]

\* Mutant: the stored author is not the hashed one.
MisattributedDraft(a, actor) ==
  LET content == DraftContent(a, actor) IN
  [thread_id |-> content.thread_id, invoice_id |-> content.invoice_id,
   customer_id |-> content.customer_id, body |-> content.body,
   body_label |-> content.body_label, created_by |-> content.created_by,
   draft_hash |-> DraftHash(RecSet(content, "created_by", a.customer_id)),
   deliveries |-> NoDeliveries]

NewDraft(a, actor) ==
  LET content == DraftContent(a, actor) IN
  [thread_id |-> content.thread_id, invoice_id |-> content.invoice_id,
   customer_id |-> content.customer_id, body |-> content.body,
   body_label |-> content.body_label, created_by |-> content.created_by,
   draft_hash |-> DraftHash(content), deliveries |-> NoDeliveries]

CreateDraftResult(a, actor) ==
  LET draft == NewDraft(a, actor) IN
  [t |-> "draft_created", draft_hash |-> draft.draft_hash, draft |-> draft]

AfterCreateDraft(s, a, actor) ==
  LET draft == NewDraft(a, actor) IN
  [Step(s, a, "drafted_total") EXCEPT
     !.drafts = RecSet(s.drafts, draft.draft_hash, draft)]

(***************************************************************************)
(* approve_draft                                                           *)
(***************************************************************************)
Approval(s, a, actor) ==
  [draft_hash |-> a.draft_hash, approver_id |-> actor, sequence |-> s.sequence]

ApproveDraftResult(s, a, actor) ==
  [t |-> "draft_approved", approval |-> Approval(s, a, actor)]

AfterApproveDraft(s, a, actor) ==
  [Step(s, a, "approved_total") EXCEPT
     !.approvals = RecSet(s.approvals, a.draft_hash, Approval(s, a, actor))]

(***************************************************************************)
(* submit_draft                                                            *)
(***************************************************************************)
EmailEffect(s, a) ==
  LET draft == s.drafts[a.draft_hash] IN
  [t |-> "email_submission", recipient |-> a.recipient,
   recipient_label |-> a.recipient_label, thread_id |-> draft.thread_id,
   body |-> draft.body,
   body_hash |-> TaggedDigest("confine.body.v1", draft.body),
   draft_hash |-> a.draft_hash]

SubmitDraftResult(s, a) == [t |-> "draft_submitted", effect |-> EmailEffect(s, a)]

\* Mutant: the mail replaces the deliveries made before.
OnlyMailed(draft, recipient) ==
  [draft EXCEPT !.deliveries = [email |-> [submitted |-> TRUE, recipient |-> recipient]]]

\* Mutant: the recipient is noted, the submission is not.
RecipientNoted(draft, recipient) ==
  [draft EXCEPT !.deliveries.email.recipient = recipient]

Submitted(draft, recipient) ==
  [draft EXCEPT !.deliveries.email = [submitted |-> TRUE, recipient |-> recipient]]

\* Mutant: a submitted draft is removed.
AfterSubmitRemoving(s, a) ==
  [Step(s, a, "submitted_total") EXCEPT
     !.drafts = RecRemove(s.drafts, a.draft_hash),
     !.submissions = Append(@, EmailEffect(s, a))]

AfterSubmitDraft(s, a) ==
  [Step(s, a, "submitted_total") EXCEPT
     !.drafts = RecSet(s.drafts, a.draft_hash,
                       Submitted(s.drafts[a.draft_hash], a.recipient)),
     !.submissions = Append(@, EmailEffect(s, a))]

(***************************************************************************)
(* post_to_slack                                                           *)
(***************************************************************************)
SlackEffect(s, a) ==
  LET draft == s.drafts[a.draft_hash] IN
  [t |-> "slack_message", channel_id |-> a.channel_id,
   channel_label |-> a.channel_label, body |-> draft.body,
   body_hash |-> TaggedDigest("confine.body.v1", draft.body),
   draft_hash |-> a.draft_hash]

PostToSlackResult(s, a) == [t |-> "slack_posted", effect |-> SlackEffect(s, a)]

\* deliveries.slack maps each posted channel to true; its key set is kept.
Posted(draft, channel) == [draft EXCEPT !.deliveries.slack = @ \cup {channel}]

\* Mutant: the post is noted on the draft and counted, but its effect is not kept.
AfterPostUnkept(s, a) ==
  [Step(s, a, "slack_posted_total") EXCEPT
     !.drafts = RecSet(s.drafts, a.draft_hash,
                       Posted(s.drafts[a.draft_hash], a.channel_id))]

AfterPostToSlack(s, a) ==
  [Step(s, a, "slack_posted_total") EXCEPT
     !.drafts = RecSet(s.drafts, a.draft_hash,
                       Posted(s.drafts[a.draft_hash], a.channel_id)),
     !.slack_posts = Append(@, SlackEffect(s, a))]

(***************************************************************************)
(* execute_exact                                                           *)
(***************************************************************************)
\* Mutant: only what goes out is judged again.
JudgeDeliveriesAgain(s, a, actor, caps, pol, certificate, secret) ==
  /\ VerifyCertificate(certificate, s, a, actor, caps, pol, secret)
  /\ a.t \in {"submit_draft", "post_to_slack"} => Verify(s, a, actor, caps, pol)
  /\ certificate.obligations = ObligationsForAction(s, a)
  /\ ~NonceConsumed(s, a.nonce)

ExecutorAccepts(s, a, actor, caps, pol, certificate, secret) ==
  /\ VerifyCertificate(certificate, s, a, actor, caps, pol, secret)
  /\ Verify(s, a, actor, caps, pol)
  /\ certificate.obligations = ObligationsForAction(s, a)
  /\ ~NonceConsumed(s, a.nonce)

ExecutionResult(s, a, actor) ==
  CASE a.t = "read_invoice"  -> ReadInvoiceResult(s, a)
    [] a.t = "create_draft"  -> CreateDraftResult(a, actor)
    [] a.t = "approve_draft" -> ApproveDraftResult(s, a, actor)
    [] a.t = "submit_draft"  -> SubmitDraftResult(s, a)
    [] a.t = "post_to_slack" -> PostToSlackResult(s, a)

ExecutionState(s, a, actor) ==
  CASE a.t = "read_invoice"  -> AfterReadInvoice(s, a)
    [] a.t = "create_draft"  -> AfterCreateDraft(s, a, actor)
    [] a.t = "approve_draft" -> AfterApproveDraft(s, a, actor)
    [] a.t = "submit_draft"  -> AfterSubmitDraft(s, a)
    [] a.t = "post_to_slack" -> AfterPostToSlack(s, a)
=============================================================================
