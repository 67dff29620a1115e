--------------------------- MODULE PortJavaScript ---------------------------
(***************************************************************************)
(* The JavaScript port's policy kernel and what it reads: labels,          *)
(* capabilities and the state's hash.  Operators keep the names of the     *)
(* JavaScript functions; an object is a record of its own properties, of   *)
(* which names of Object.prototype are none.  The order in which an object *)
(* was written is left out except for labels, where a rule reads it: a     *)
(* label carries the sequence of its keys.                                 *)
(***************************************************************************)
EXTENDS Canonical

CONSTANT Utf16Units(_)   \* length of a string

(***************************************************************************)
(* labels.js                                                               *)
(***************************************************************************)

\* The order of the keys of a label the constructors make.
ConstructorKeys == <<"kind", "owner", "compartments">>

rank(kind) ==
  CASE kind = "public"   -> 0
    [] kind = "internal" -> 1
    [] kind = "customer" -> 2
    [] kind = "secret"   -> 3
    [] OTHER             -> 100

valid(label) == rank(label.kind) < 100

containsAll(xs, ys) ==
  \A j \in DOMAIN ys : \E i \in DOMAIN xs : xs[i] = ys[j]

flowsTo(source, sink) ==
  /\ valid(source) /\ valid(sink)
  /\ CASE source.kind = "public"   -> TRUE
       [] source.kind = "internal" -> rank(sink.kind) >= 1
       [] source.kind \in {"customer", "secret"} ->
            /\ sink.kind = source.kind
            /\ source.owner = sink.owner
            /\ containsAll(sink.compartments, source.compartments)
       [] OTHER -> FALSE

\* JSON.stringify writes the properties in the order in which they were made.
Stringify(label) ==
  [i \in DOMAIN label.keys |-> <<label.keys[i], label[label.keys[i]]>>]

\* canonical.js sorts the keys of what it encodes.
Encoded(label) ==
  [kind |-> label.kind, owner |-> label.owner, compartments |-> label.compartments]

(***************************************************************************)
(* capabilities.js                                                         *)
(***************************************************************************)

\* Lists of operations and of recipients are modelled as sets.
operationAllowed(capabilities, actorId, operation) ==
  /\ actorId \in DOMAIN capabilities.actors
  /\ operation \in capabilities.actors[actorId].operations

actorRole(capabilities, actorId) ==
  IF actorId \in DOMAIN capabilities.actors THEN capabilities.actors[actorId].role ELSE Null

(***************************************************************************)
(* state.js                                                                *)
(***************************************************************************)
invoiceToValue(inv) ==
  [invoice_id |-> inv.invoiceId, customer_id |-> inv.customerId,
   status |-> inv.status, amount_cents |-> inv.amountCents,
   label |-> Encoded(inv.label)]

threadToValue(th) == [thread_id |-> th.threadId, customer_id |-> th.customerId]

\* An object of channels with the value true is modelled as the set of its keys.
deliveryToValue(d) ==
  [email |-> [submitted |-> d.emailSubmitted, recipient |-> d.emailRecipient],
   slack |-> d.slackPostedChannels]

draftToValue(d) ==
  [body |-> d.body, body_label |-> Encoded(d.bodyLabel), created_by |-> d.createdBy,
   customer_id |-> d.customerId, deliveries |-> deliveryToValue(d.deliveries),
   draft_hash |-> d.draftHash, invoice_id |-> d.invoiceId, thread_id |-> d.threadId]

approvalToValue(a) ==
  [approver_id |-> a.approverId, draft_hash |-> a.draftHash, sequence |-> a.sequence]

countersToValue(c) ==
  [approved_total |-> c.approvedTotal, drafted_total |-> c.draftedTotal,
   slack_posted_total |-> c.slackPostedTotal, submitted_total |-> c.submittedTotal]

stateToValueForHashing(state) ==
  [policy_version |-> state.policyVersion,
   sequence |-> state.sequence,
   invoices |-> [k \in DOMAIN state.invoices |-> invoiceToValue(state.invoices[k])],
   threads |-> [k \in DOMAIN state.threads |-> threadToValue(state.threads[k])],
   drafts |-> [k \in DOMAIN state.drafts |-> draftToValue(state.drafts[k])],
   approvals |-> [k \in DOMAIN state.approvals |-> approvalToValue(state.approvals[k])],
   consumed_nonces |-> state.consumedNonces,
   counters |-> countersToValue(state.counters),
   submissions |-> state.submissions,
   slack_posts |-> state.slackPosts]

hashState(state) == TaggedDigest("confine.state.v1", stateToValueForHashing(state))

\* The getters return null for what is not there.
hasInvoice(state, id)    == id \in DOMAIN state.invoices
hasThread(state, id)     == id \in DOMAIN state.threads
hasDraft(state, hash)    == hash \in DOMAIN state.drafts
hasApproval(state, hash) == hash \in DOMAIN state.approvals

nonceConsumed(state, nonce) == nonce \in state.consumedNonces

(***************************************************************************)
(* policy.js: the rules in the order of the code.  Actions keep the names  *)
(* of the engine's fields.                                                 *)
(***************************************************************************)
deny(code) == [t |-> "deny", code |-> code]
allow(obligations) == [t |-> "allow", obligations |-> obligations]

obligationsForCreateDraft(customerId, bodyLabel) ==
  <<[t |-> "bind_customer", customer_id |-> customerId],
    [t |-> "body_label", label |-> bodyLabel]>>

obligationsForApproveDraft(draftHash) ==
  <<[t |-> "approve_exact_hash", draft_hash |-> draftHash]>>

obligationsForSubmitDraft(draftHash, recipient) ==
  <<[t |-> "submit_exact_hash", draft_hash |-> draftHash],
    [t |-> "recipient", recipient |-> recipient]>>

\* Null when no rule denies.
commonChecks(state, action, actorId, capabilities, policy) ==
  IF state.policyVersion # policy.version THEN deny("POLICY_VERSION_MISMATCH")
  ELSE IF action.expected_state_hash # hashState(state) THEN deny("STALE_STATE")
  ELSE IF nonceConsumed(state, action.nonce) THEN deny("NONCE_REPLAY")
  ELSE IF Utf16Units(action.nonce) < policy.minNonceLength THEN deny("NONCE_TOO_SHORT")
  ELSE IF ~operationAllowed(capabilities, actorId, action.t) THEN deny("CAPABILITY_DENIED")
  ELSE Null

verifyReadInvoice(state, action) ==
  IF ~hasInvoice(state, action.invoice_id) THEN deny("INVOICE_NOT_FOUND")
  ELSE allow(<<[t |-> "result_label", label |-> state.invoices[action.invoice_id].label]>>)

verifyCreateDraft(state, action, policy) ==
  LET invoice == state.invoices[action.invoice_id]
      thread  == state.threads[action.thread_id]
      label   == action.body_label
  IN
  IF ~hasInvoice(state, action.invoice_id) THEN deny("INVOICE_NOT_FOUND")
  ELSE IF ~hasThread(state, action.thread_id) THEN deny("THREAD_NOT_FOUND")
  ELSE IF invoice.customerId # action.customer_id THEN deny("INVOICE_CUSTOMER_MISMATCH")
  ELSE IF thread.customerId # action.customer_id THEN deny("THREAD_CUSTOMER_MISMATCH")
  ELSE IF ~flowsTo(invoice.label, label) THEN deny("IFC_INVOICE_TO_BODY")
  ELSE IF label.kind # "customer" \/ label.owner # action.customer_id
       THEN deny("BODY_LABEL_OWNER_MISMATCH")
  ELSE IF Utf16Units(action.body) = 0 THEN deny("EMPTY_DRAFT")
  ELSE IF Utf16Units(action.body) > policy.maxDraftChars THEN deny("DRAFT_TOO_LARGE")
  ELSE IF state.counters.draftedTotal >= policy.maxTotalDrafts THEN deny("DRAFT_QUOTA")
  ELSE allow(obligationsForCreateDraft(action.customer_id, label))

verifyApproveDraft(state, action, actorId, capabilities, policy) ==
  IF ~hasDraft(state, action.draft_hash) THEN deny("DRAFT_NOT_FOUND")
  ELSE IF actorRole(capabilities, actorId) # policy.approverRole
       THEN deny("APPROVER_ROLE_REQUIRED")
  ELSE IF actorId # action.approver_id THEN deny("APPROVER_ID_MISMATCH")
  ELSE IF /\ state.drafts[action.draft_hash].createdBy = actorId
          /\ policy.requireSeparationOfDuties
       THEN deny("SEPARATION_OF_DUTIES")
  ELSE IF hasApproval(state, action.draft_hash) THEN deny("ALREADY_APPROVED")
  ELSE allow(obligationsForApproveDraft(action.draft_hash))

\* A customer without recipients has the empty list of them.
recipientsOf(policy, customerId) ==
  IF customerId \in DOMAIN policy.approvedRecipients
  THEN policy.approvedRecipients[customerId] ELSE {}

verifySubmitDraft(state, action, policy) ==
  LET draft == state.drafts[action.draft_hash]
      label == action.recipient_label
  IN
  IF ~hasDraft(state, action.draft_hash) THEN deny("DRAFT_NOT_FOUND")
  ELSE IF ~hasApproval(state, action.draft_hash) THEN deny("APPROVAL_REQUIRED")
  ELSE IF draft.deliveries.emailSubmitted THEN deny("ALREADY_SUBMITTED")
  ELSE IF action.recipient \notin recipientsOf(policy, draft.customerId)
       THEN deny("RECIPIENT_NOT_APPROVED")
  ELSE IF label.kind # "customer" \/ label.owner # draft.customerId
       THEN deny("RECIPIENT_LABEL_OWNER_MISMATCH")
  ELSE IF ~flowsTo(draft.bodyLabel, label) THEN deny("IFC_BODY_TO_RECIPIENT")
  ELSE IF state.counters.submittedTotal >= policy.maxTotalSubmissions
       THEN deny("SUBMISSION_QUOTA")
  ELSE allow(obligationsForSubmitDraft(action.draft_hash, action.recipient))

\* A policy without the two fields, or with null there, has no channel and ten
\* posts.
channelsOf(policy) ==
  IF "approvedSlackChannels" \in DOMAIN policy THEN policy.approvedSlackChannels ELSE EmptyRec

slackLimit(policy) ==
  IF "maxTotalSlackPosts" \in DOMAIN policy THEN policy.maxTotalSlackPosts ELSE 10

verifyPostToSlack(state, action, policy) ==
  LET draft   == state.drafts[action.draft_hash]
      channel == channelsOf(policy)[action.channel_id]
  IN
  IF ~hasDraft(state, action.draft_hash) THEN deny("DRAFT_NOT_FOUND")
  ELSE IF ~hasApproval(state, action.draft_hash) THEN deny("APPROVAL_REQUIRED")
  ELSE IF action.channel_id \notin DOMAIN channelsOf(policy) THEN deny("CHANNEL_NOT_FOUND")
  ELSE IF Stringify(action.channel_label) # Stringify(channel)
       THEN deny("CHANNEL_LABEL_MISMATCH")
  ELSE IF ~flowsTo(draft.bodyLabel, channel) THEN deny("IFC_BODY_TO_CHANNEL")
  ELSE IF action.channel_id \in draft.deliveries.slackPostedChannels
       THEN deny("ALREADY_POSTED")
  ELSE IF state.counters.slackPostedTotal >= slackLimit(policy) THEN deny("SLACK_QUOTA")
  ELSE allow(<<[t |-> "post_exact_hash", draft_hash |-> action.draft_hash],
               [t |-> "channel", channel_id |-> action.channel_id]>>)

verify(state, action, actorId, capabilities, policy) ==
  LET common == commonChecks(state, action, actorId, capabilities, policy) IN
  IF common # Null THEN common
  ELSE CASE action.t = "read_invoice"  -> verifyReadInvoice(state, action)
         [] action.t = "create_draft"  -> verifyCreateDraft(state, action, policy)
         [] action.t = "approve_draft" ->
              verifyApproveDraft(state, action, actorId, capabilities, policy)
         [] action.t = "submit_draft"  -> verifySubmitDraft(state, action, policy)
         [] action.t = "post_to_slack" -> verifyPostToSlack(state, action, policy)
         [] OTHER                      -> deny("UNKNOWN_ACTION")
=============================================================================
