--------------------------- MODULE PortProofs ------------------------------
(***************************************************************************)
(* The Rust port against the engine, for every configuration the port's    *)
(* structs can hold (Portable), in every state the engine reaches: the     *)
(* same digests, the same decisions, the same certificates accepted.       *)
(*                                                                         *)
(* Then a host built on it, for any number of workers: it refines Engine,  *)
(* a certificate is good for one receipt, and a certificate the kernel     *)
(* allowed is refused only when the state has moved.                       *)
(*                                                                         *)
(* Last the ports among themselves, each kernel a translation of its own:  *)
(* they answer alike as long as no text lies on two sides of a limit by    *)
(* the measures of two ports, and the JavaScript port is handed labels     *)
(* with their keys in its constructors' order.                             *)
(***************************************************************************)
EXTENDS PortHost, PortLengths, EngineFlowProofs

\* Digests, tags and proposals are not the value that stands for a wrong one.
MalformedIsApart ==
  /\ \A tag, v : TaggedDigest(tag, v) \notin {Malformed, Null}
  /\ Malformed \notin Tags
  /\ ~Proposable(Malformed)

\* None is no decision and no error code.
NoneIsNone ==
  /\ \A code : deny(code) # Null
  /\ Null \notin {"CERTIFICATE_MISSING_MAC", "CERTIFICATE_MAC_MISMATCH",
                  "CERTIFICATE_STATE_MISMATCH", "CERTIFICATE_ACTION_MISMATCH",
                  "CERTIFICATE_ACTOR_MISMATCH", "CERTIFICATE_POLICY_MISMATCH",
                  "CERTIFICATE_CAPABILITY_MISMATCH", "CERTIFICATE_NONCE_MISMATCH",
                  "CERTIFICATE_SEQUENCE_MISMATCH"}

-----------------------------------------------------------------------------
(***************************************************************************)
(* Labels.                                                                 *)
(***************************************************************************)

\* Kinds are ranked alike.
LEMMA RanksAgree == \A kind : rank(kind) = Rank(kind)
  BY Zenon DEF rank, Rank

\* A label the struct can hold is its own value, and valid for both or neither.
LEMMA LabelsAgree ==
  ASSUME NEW l, LabelFits(l)
  PROVE  /\ label_value(l) = l
         /\ valid(l) <=> Valid(l)
<1>1. label_value(l) = l
  BY DEF LabelFits, HasExactly, label_value
<1>2. DOMAIN l = {"kind", "owner", "compartments"}
  BY DEF LabelFits, HasExactly
<1>3. valid(l) <=> Valid(l)
  BY <1>2, RanksAgree DEF LabelFits, valid, Valid, RequireTextFields, IsText
<1> QED
  BY <1>1, <1>3

\* The flow relations are one.
LEMMA FlowsAgree ==
  ASSUME NEW a, NEW b, LabelFits(a), LabelFits(b)
  PROVE  flows_to(a, b) <=> FlowsTo(a, b)
  BY LabelsAgree, RanksAgree
     DEF flows_to, FlowsTo, SameDomain, contains_all, ContainsAll

-----------------------------------------------------------------------------
(***************************************************************************)
(* Actions.                                                                *)
(***************************************************************************)

ActionFields ==
  [read_invoice  |-> {"t", "nonce", "expected_state_hash", "invoice_id"},
   create_draft  |-> {"t", "nonce", "expected_state_hash", "thread_id", "invoice_id",
                      "customer_id", "body", "body_label"},
   approve_draft |-> {"t", "nonce", "expected_state_hash", "draft_hash", "approver_id"},
   submit_draft  |-> {"t", "nonce", "expected_state_hash", "draft_hash", "recipient",
                      "recipient_label"},
   post_to_slack |-> {"t", "nonce", "expected_state_hash", "draft_hash", "channel_id",
                      "channel_label"}]

\* Actions the port's enum can hold.
ActionFits(p) ==
  /\ p.t \in Tags
  /\ HasExactly(p, ActionFields[p.t])
  /\ p.t = "create_draft" => LabelFits(p.body_label)
  /\ p.t = "submit_draft" => LabelFits(p.recipient_label)
  /\ p.t = "post_to_slack" => LabelFits(p.channel_label)
  /\ TextLen(p.nonce) = StrLen(p.nonce) /\ StrLen(p.nonce) \in Nat
  /\ p.t = "create_draft" => TextLen(p.body) = StrLen(p.body) /\ StrLen(p.body) \in Nat

\* Everything that is proposed can be given to the port.
LEMMA ProposalsFit ==
  ASSUME Portable, NEW p, Proposable(p)
  PROVE  ActionFits(p)
<1>1. PICK s, h :
        /\ h.nonce \in Nonces
        /\ \/ h.t = "read_invoice"  /\ p \in ReadProposals(h)
           \/ h.t = "create_draft"  /\ p \in CreateProposals(h)
           \/ h.t = "approve_draft" /\ p \in ApproveProposals(h, s)
           \/ h.t = "submit_draft"  /\ p \in SubmitProposals(h, s)
           \/ h.t = "post_to_slack" /\ p \in PostProposals(h, s)
  BY DEF Proposable
<1>2. CASE h.t = "read_invoice" /\ p \in ReadProposals(h)
  BY <1>1, <1>2 DEF ReadProposals, ActionFits, ActionFields, HasExactly, Tags, Portable
<1>3. CASE h.t = "create_draft" /\ p \in CreateProposals(h)
  BY <1>1, <1>3 DEF CreateProposals, ActionFits, ActionFields, HasExactly, Tags, Portable
<1>4. CASE h.t = "approve_draft" /\ p \in ApproveProposals(h, s)
  BY <1>1, <1>4 DEF ApproveProposals, ActionFits, ActionFields, HasExactly, Tags, Portable
<1>5. CASE h.t = "submit_draft" /\ p \in SubmitProposals(h, s)
  BY <1>1, <1>5 DEF SubmitProposals, ActionFits, ActionFields, HasExactly, Tags, Portable
<1>6. CASE h.t = "post_to_slack" /\ p \in PostProposals(h, s)
  BY <1>1, <1>6 DEF PostProposals, ActionFits, ActionFields, HasExactly, Tags, Portable
<1> QED
  BY <1>1, <1>2, <1>3, <1>4, <1>5, <1>6

\* The port's variant keeps every field of the action.
LEMMA VariantKeeps ==
  ASSUME NEW p, ActionFits(p)
  PROVE  /\ AsAction(p).variant = Variant(p.t)
         /\ \A f \in ActionFields[p.t] \ {"t"} : AsAction(p)[f] = p[f]
<1>1. /\ DOMAIN p = ActionFields[p.t]
      /\ "variant" \notin DOMAIN p
  BY DEF ActionFits, HasExactly, Tags, ActionFields
<1> QED
  BY <1>1 DEF AsAction, RecSet, RecRemove

\* Variants have the tags and the fields of the actions.
LEMMA VariantsAgree ==
  ASSUME NEW t \in Tags, NEW a, a.variant = Variant(t)
  PROVE  /\ type_tag(a) = t
         /\ VariantFields[a.variant] \cup {"t", "nonce", "expected_state_hash"}
              = ActionFields[t]
<1>1. CASE t = "read_invoice"
  <2>1. a.variant = "ReadInvoice"
    BY <1>1 DEF Variant
  <2> QED
    BY <1>1, <2>1 DEF type_tag, VariantFields, ActionFields
<1>2. CASE t = "create_draft"
  <2>1. a.variant = "CreateDraft"
    BY <1>2 DEF Variant
  <2> QED
    BY <1>2, <2>1 DEF type_tag, VariantFields, ActionFields
<1>3. CASE t = "approve_draft"
  <2>1. a.variant = "ApproveDraft"
    BY <1>3 DEF Variant
  <2> QED
    BY <1>3, <2>1 DEF type_tag, VariantFields, ActionFields
<1>4. CASE t = "submit_draft"
  <2>1. a.variant = "SubmitDraft"
    BY <1>4 DEF Variant
  <2> QED
    BY <1>4, <2>1 DEF type_tag, VariantFields, ActionFields
<1>5. CASE t = "post_to_slack"
  <2>1. a.variant = "PostToSlack"
    BY <1>5 DEF Variant
  <2> QED
    BY <1>5, <2>1 DEF type_tag, VariantFields, ActionFields
<1> QED
  BY <1>1, <1>2, <1>3, <1>4, <1>5 DEF Tags

\* The value of the variant is the action.
LEMMA ActionsAgree ==
  ASSUME NEW p, ActionFits(p)
  PROVE  /\ type_tag(AsAction(p)) = p.t
         /\ action_value(AsAction(p)) = p
<1> DEFINE a == AsAction(p)
           fields == ActionFields[p.t]
<1>1. /\ p.t \in Tags
      /\ p = [f \in fields |-> p[f]]
      /\ a.variant = Variant(p.t)
      /\ \A f \in fields \ {"t"} : a[f] = p[f]
  BY VariantKeeps DEF ActionFits, HasExactly
<1> HIDE DEF a
<1>2. /\ type_tag(a) = p.t
      /\ VariantFields[a.variant] \cup {"t", "nonce", "expected_state_hash"} = fields
  BY <1>1, VariantsAgree
<1>3. action_value(a)
        = [f \in fields |->
             CASE f = "t" -> type_tag(a)
               [] f \in {"body_label", "recipient_label", "channel_label"} ->
                    label_value(a[f])
               [] OTHER -> a[f]]
  BY <1>2 DEF action_value
<1>4. ASSUME NEW f \in fields
      PROVE  action_value(a)[f] = p[f]
  <2>1. CASE f = "t"
    BY <1>2, <1>3, <2>1
  <2>2. CASE f \in {"body_label", "recipient_label", "channel_label"}
    <3>1. LabelFits(p[f])
      BY <2>2 DEF ActionFits, ActionFields, Tags
    <3>2. label_value(p[f]) = p[f]
      BY <3>1, LabelsAgree
    <3> QED
      BY <1>1, <1>3, <2>2, <3>2
  <2>3. CASE f # "t" /\ f \notin {"body_label", "recipient_label", "channel_label"}
    BY <1>1, <1>3, <2>3
  <2> QED
    BY <2>1, <2>2, <2>3
<1> QED
  BY <1>1, <1>2, <1>3, <1>4 DEF a

-----------------------------------------------------------------------------
(***************************************************************************)
(* The state.                                                              *)
(***************************************************************************)

\* A stored draft is the value of its struct.
LEMMA DraftsAgree ==
  ASSUME Portable, NEW d \in Drafts
  PROVE  /\ draft_value(AsDraft(d)) = d
         /\ LabelFits(d.body_label)
<1>1. LabelFits(d.body_label)
  BY DEF Drafts, Portable
<1>2. label_value(d.body_label) = d.body_label
  BY <1>1, LabelsAgree
<1>3. delivery_value(AsDelivery(d.deliveries)) = d.deliveries
  BY DEF delivery_value, AsDelivery, Drafts
<1> QED
  BY <1>1, <1>2, <1>3 DEF draft_value, AsDraft, Drafts

\* The invoices, threads, drafts, approvals and counters of a state the engine
\* reaches are the values of their structs.
LEMMA PartsAgree ==
  ASSUME Portable, TypeOK
  PROVE  LET s == AsState(state)
         IN  /\ [k \in DOMAIN s.invoices |-> invoice_value(s.invoices[k])] = state.invoices
             /\ [k \in DOMAIN s.threads |-> thread_value(s.threads[k])] = state.threads
             /\ [k \in DOMAIN s.drafts |-> draft_value(s.drafts[k])] = state.drafts
             /\ [k \in DOMAIN s.approvals |-> approval_value(s.approvals[k])]
                  = state.approvals
             /\ counters_value(s.counters) = state.counters
<1> DEFINE s == AsState(state)
<1>1. /\ s.invoices = state.invoices
      /\ s.threads = state.threads
      /\ s.drafts = [h \in DOMAIN state.drafts |-> AsDraft(state.drafts[h])]
      /\ s.approvals = state.approvals
      /\ s.counters = state.counters
  BY DEF AsState
<1> HIDE DEF s
<1>2. [k \in DOMAIN s.invoices |-> invoice_value(s.invoices[k])] = state.invoices
  <2>1. ASSUME NEW k \in DOMAIN state.invoices
        PROVE  invoice_value(state.invoices[k]) = state.invoices[k]
    <3>1. InvoiceFits(state.invoices[k])
      BY DEF TypeOK, Portable
    <3> QED
      BY <3>1, LabelsAgree DEF InvoiceFits, HasExactly, invoice_value
  <2>2. state.invoices = [k \in DOMAIN state.invoices |-> state.invoices[k]]
    BY DEF TypeOK, Portable, HasExactly
  <2> QED
    BY <1>1, <2>1, <2>2
<1>3. [k \in DOMAIN s.threads |-> thread_value(s.threads[k])] = state.threads
  <2>1. ASSUME NEW k \in DOMAIN state.threads
        PROVE  thread_value(state.threads[k]) = state.threads[k]
    <3>1. ThreadFits(state.threads[k])
      BY DEF TypeOK, Portable
    <3> QED
      BY <3>1 DEF ThreadFits, HasExactly, thread_value
  <2>2. state.threads = [k \in DOMAIN state.threads |-> state.threads[k]]
    BY DEF TypeOK, Portable, HasExactly
  <2> QED
    BY <1>1, <2>1, <2>2
<1>4. [k \in DOMAIN s.drafts |-> draft_value(s.drafts[k])] = state.drafts
  <2>1. /\ DOMAIN s.drafts = DOMAIN state.drafts
        /\ \A k \in DOMAIN state.drafts : s.drafts[k] = AsDraft(state.drafts[k])
    BY <1>1
  <2>2. state.drafts \in [DOMAIN state.drafts -> Drafts]
    BY DEF TypeOK
  <2> QED
    BY <2>1, <2>2, DraftsAgree
<1>5. [k \in DOMAIN s.approvals |-> approval_value(s.approvals[k])] = state.approvals
  <2>1. state.approvals \in [DOMAIN state.approvals -> Approvals]
    BY DEF TypeOK
  <2>2. \A v \in Approvals : approval_value(v) = v
    BY DEF Approvals, approval_value
  <2> QED
    BY <1>1, <2>1, <2>2
<1>6. counters_value(s.counters) = state.counters
  <2>1. state.counters \in [Counters -> Nat]
    BY DEF TypeOK
  <2> QED
    BY <1>1, <2>1 DEF counters_value, Counters
<1> QED
  BY <1>2, <1>3, <1>4, <1>5, <1>6 DEF s

\* The port hashes every reachable state to what the engine hashes it to.
LEMMA StatesAgree ==
  ASSUME Portable, TypeOK
  PROVE  hash_state(AsState(state)) = HashState(state)
<1> DEFINE s == AsState(state)
           v == value_for_hashing(s)
           r == RecRemove(state, "previous_receipt_hash")
           fields == StateFields \ {"previous_receipt_hash"}
<1>1. r = [f \in fields |-> state[f]]
  BY DEF TypeOK, RecRemove
<1>2. /\ v = [f \in fields |-> v[f]]
      /\ v.policy_version = state.policy_version
      /\ v.sequence = state.sequence
      /\ v.consumed_nonces = state.consumed_nonces
      /\ v.submissions = state.submissions
      /\ v.slack_posts = state.slack_posts
  BY DEF value_for_hashing, AsState, StateFields
<1>3. /\ v.invoices = state.invoices
      /\ v.threads = state.threads
      /\ v.drafts = state.drafts
      /\ v.approvals = state.approvals
      /\ v.counters = state.counters
  BY PartsAgree DEF value_for_hashing
<1> HIDE DEF v, s
<1>4. \A f \in fields : v[f] = state[f]
  BY <1>2, <1>3 DEF StateFields
<1>5. v = r
  BY <1>1, <1>2, <1>4
<1> QED
  BY <1>5 DEF hash_state, HashState, v, s

-----------------------------------------------------------------------------
(***************************************************************************)
(* The configuration.                                                      *)
(***************************************************************************)

\* The struct keeps every field, and the label of each channel.
LEMMA PolicyKept ==
  ASSUME NEW pol, PolicyFits(pol)
  PROVE  LET q == AsPolicy(pol)
             channels == pol.approved_slack_channels
         IN  /\ q.approved_slack_channels = [ch \in DOMAIN channels |-> channels[ch].label]
             /\ \A f \in DOMAIN pol \ {"approved_slack_channels"} : q[f] = pol[f]
             /\ DOMAIN pol = {"version", "min_nonce_length", "max_draft_chars",
                              "max_total_drafts", "max_total_submissions",
                              "approver_role", "require_separation_of_duties",
                              "approved_recipients", "approved_slack_channels",
                              "max_total_slack_posts"}
  BY DEF AsPolicy, PolicyFits, HasExactly

\* The policy is the value of its struct.
LEMMA PoliciesAgree ==
  ASSUME NEW pol, PolicyFits(pol)
  PROVE  policy_value(AsPolicy(pol)) = pol
<1> DEFINE q == AsPolicy(pol)
           channels == pol.approved_slack_channels
<1>1. /\ q.approved_slack_channels = [ch \in DOMAIN channels |-> channels[ch].label]
      /\ \A f \in DOMAIN pol \ {"approved_slack_channels"} : q[f] = pol[f]
  BY PolicyKept
<1> HIDE DEF q
<1>2. [ch \in DOMAIN q.approved_slack_channels |->
         [label |-> label_value(q.approved_slack_channels[ch])]] = channels
  <2>1. ASSUME NEW ch \in DOMAIN channels
        PROVE  [label |-> label_value(q.approved_slack_channels[ch])] = channels[ch]
    BY <1>1, LabelsAgree DEF PolicyFits, HasExactly
  <2>2. channels = [ch \in DOMAIN channels |-> channels[ch]]
    BY DEF PolicyFits, HasExactly
  <2>3. DOMAIN q.approved_slack_channels = DOMAIN channels
    BY <1>1
  <2> QED
    BY <2>1, <2>2, <2>3
<1>3. DOMAIN pol = {"version", "min_nonce_length", "max_draft_chars",
                    "max_total_drafts", "max_total_submissions", "approver_role",
                    "require_separation_of_duties", "approved_recipients",
                    "approved_slack_channels", "max_total_slack_posts"}
  BY PolicyKept
<1> QED
  BY <1>1, <1>2, <1>3 DEF policy_value, PolicyFits, HasExactly, q

\* The capabilities are the value of their struct.
LEMMA CapabilitiesAgree ==
  ASSUME NEW caps, CapabilitiesFit(caps)
  PROVE  capabilities_value(AsCapabilities(caps)) = caps
<1>1. \A id \in DOMAIN caps.actors : actor_value(caps.actors[id]) = caps.actors[id]
  BY DEF CapabilitiesFit, ActorFits, HasExactly, actor_value
<1>2. [id \in DOMAIN caps.actors |-> actor_value(caps.actors[id])] = caps.actors
  BY <1>1 DEF CapabilitiesFit, HasExactly
<1> QED
  BY <1>2 DEF CapabilitiesFit, HasExactly, capabilities_value, AsCapabilities

\* Who may do what, and in which role, is read alike.
LEMMA PermissionsAgree ==
  ASSUME NEW caps, CapabilitiesFit(caps), NEW actor, NEW operation
  PROVE  /\ operation_allowed(AsCapabilities(caps), actor, operation)
              <=> OperationAllowed(caps, actor, operation)
         /\ actor_role(AsCapabilities(caps), actor) = ActorRole(caps, actor)
<1>1. AsCapabilities(caps).actors = caps.actors
  BY DEF AsCapabilities
<1>2. \A id \in DOMAIN caps.actors :
        /\ DOMAIN caps.actors[id] = {"role", "operations"}
        /\ caps.actors[id].operations # Malformed
  BY DEF CapabilitiesFit, ActorFits, HasExactly
<1> QED
  BY <1>1, <1>2 DEF operation_allowed, OperationAllowed, actor_role, ActorRole

-----------------------------------------------------------------------------
(***************************************************************************)
(* Obligations.                                                            *)
(***************************************************************************)

\* One obligation, of a label or of a text.
LEMMA ObligationValues ==
  /\ \A l : LabelFits(l) =>
       /\ obligation_value(label_obligation("result_label", l))
            = [t |-> "result_label", label |-> l]
       /\ obligation_value(label_obligation("body_label", l))
            = [t |-> "body_label", label |-> l]
  /\ \A x : obligation_value(text_obligation("bind_customer", [customer_id |-> x]))
            = [t |-> "bind_customer", customer_id |-> x]
  /\ \A x : obligation_value(text_obligation("approve_exact_hash", [draft_hash |-> x]))
            = [t |-> "approve_exact_hash", draft_hash |-> x]
  /\ \A x : obligation_value(text_obligation("submit_exact_hash", [draft_hash |-> x]))
            = [t |-> "submit_exact_hash", draft_hash |-> x]
  /\ \A x : obligation_value(text_obligation("recipient", [recipient |-> x]))
            = [t |-> "recipient", recipient |-> x]
  /\ \A x : obligation_value(text_obligation("post_exact_hash", [draft_hash |-> x]))
            = [t |-> "post_exact_hash", draft_hash |-> x]
  /\ \A x : obligation_value(text_obligation("channel", [channel_id |-> x]))
            = [t |-> "channel", channel_id |-> x]
<1>1. ASSUME NEW t, NEW l, LabelFits(l)
      PROVE  obligation_value(label_obligation(t, l)) = [t |-> t, label |-> l]
  <2>1. l # Null /\ label_value(l) = l
    BY <1>1, LabelsAgree DEF LabelFits
  <2> QED
    BY <2>1 DEF obligation_value, label_obligation, EmptyRec, RecSet
<1>2. \A x : obligation_value(text_obligation("bind_customer", [customer_id |-> x]))
            = [t |-> "bind_customer", customer_id |-> x]
  BY DEF obligation_value, text_obligation
<1>3. \A x : obligation_value(text_obligation("approve_exact_hash", [draft_hash |-> x]))
            = [t |-> "approve_exact_hash", draft_hash |-> x]
  BY DEF obligation_value, text_obligation
<1>4. \A x : obligation_value(text_obligation("submit_exact_hash", [draft_hash |-> x]))
            = [t |-> "submit_exact_hash", draft_hash |-> x]
  BY DEF obligation_value, text_obligation
<1>5. \A x : obligation_value(text_obligation("recipient", [recipient |-> x]))
            = [t |-> "recipient", recipient |-> x]
  BY DEF obligation_value, text_obligation
<1>6. \A x : obligation_value(text_obligation("post_exact_hash", [draft_hash |-> x]))
            = [t |-> "post_exact_hash", draft_hash |-> x]
  BY DEF obligation_value, text_obligation
<1>7. \A x : obligation_value(text_obligation("channel", [channel_id |-> x]))
            = [t |-> "channel", channel_id |-> x]
  BY DEF obligation_value, text_obligation
<1> QED
  BY <1>1, <1>2, <1>3, <1>4, <1>5, <1>6, <1>7

\* The obligations of each operation are the engine's.
LEMMA ObligationsAgree ==
  /\ \A l, s, p : LabelFits(l) /\ l = s.invoices[p.invoice_id].label =>
       obligations_value(obligations_for_read_invoice(l)) = ObligationsForReadInvoice(s, p)
  /\ \A p : LabelFits(p.body_label) =>
       obligations_value(obligations_for_create_draft(p.customer_id, p.body_label))
         = ObligationsForCreateDraft(p)
  /\ \A p : obligations_value(obligations_for_approve_draft(p.draft_hash))
              = ObligationsForApproveDraft(p)
  /\ \A p : obligations_value(obligations_for_submit_draft(p.draft_hash, p.recipient))
              = ObligationsForSubmitDraft(p)
  /\ \A p : obligations_value(obligations_for_post_to_slack(p.draft_hash, p.channel_id))
              = ObligationsForPostToSlack(p)
<1>1. /\ \A o : obligations_value(<<o>>) = <<obligation_value(o)>>
      /\ \A o, u : obligations_value(<<o, u>>)
                    = <<obligation_value(o), obligation_value(u)>>
  BY DEF obligations_value
<1>2. \A l, s, p : LabelFits(l) /\ l = s.invoices[p.invoice_id].label =>
       obligations_value(obligations_for_read_invoice(l)) = ObligationsForReadInvoice(s, p)
  BY <1>1, ObligationValues DEF obligations_for_read_invoice, ObligationsForReadInvoice
<1>3. \A p : LabelFits(p.body_label) =>
       obligations_value(obligations_for_create_draft(p.customer_id, p.body_label))
         = ObligationsForCreateDraft(p)
  BY <1>1, ObligationValues DEF obligations_for_create_draft, ObligationsForCreateDraft
<1>4. \A p : obligations_value(obligations_for_approve_draft(p.draft_hash))
              = ObligationsForApproveDraft(p)
  BY <1>1, ObligationValues DEF obligations_for_approve_draft, ObligationsForApproveDraft
<1>5. \A p : obligations_value(obligations_for_submit_draft(p.draft_hash, p.recipient))
              = ObligationsForSubmitDraft(p)
  BY <1>1, ObligationValues DEF obligations_for_submit_draft, ObligationsForSubmitDraft
<1>6. \A p : obligations_value(obligations_for_post_to_slack(p.draft_hash, p.channel_id))
              = ObligationsForPostToSlack(p)
  BY <1>1, ObligationValues DEF obligations_for_post_to_slack, ObligationsForPostToSlack
<1> QED
  BY <1>2, <1>3, <1>4, <1>5, <1>6

-----------------------------------------------------------------------------
(***************************************************************************)
(* Decisions.                                                              *)
(***************************************************************************)

\* A decision allows, with obligations, or denies.
LEMMA DecisionCases ==
  /\ \A o : is_allow(allow(o)) /\ allow(o).obligations = o
  /\ \A code : ~is_allow(deny(code))
  BY DEF is_allow, allow, deny

\* The struct keeps the fields the kernel reads.
LEMMA StateKept ==
  ASSUME Portable, TypeOK
  PROVE  LET s == AsState(state)
         IN  /\ s.policy_version = state.policy_version
             /\ s.sequence = state.sequence
             /\ s.invoices = state.invoices
             /\ s.threads = state.threads
             /\ s.approvals = state.approvals
             /\ s.consumed_nonces = state.consumed_nonces
             /\ s.counters = state.counters
             /\ DOMAIN s.drafts = DOMAIN state.drafts
             /\ \A h \in DOMAIN state.drafts :
                  LET d == state.drafts[h] IN
                  /\ s.drafts[h].created_by = d.created_by
                  /\ s.drafts[h].customer_id = d.customer_id
                  /\ s.drafts[h].body_label = d.body_label
                  /\ s.drafts[h].deliveries.email_submitted = d.deliveries.email.submitted
                  /\ s.drafts[h].deliveries.slack_posted_channels = d.deliveries.slack
                  /\ LabelFits(d.body_label)
<1>1. \A h \in DOMAIN state.drafts : LabelFits(state.drafts[h].body_label)
  BY DraftsAgree DEF TypeOK
<1> QED
  BY <1>1 DEF AsState, AsDraft, AsDelivery

\* The limits of the policy are numbers, and so are the counters.
LEMMA NumbersCompare ==
  ASSUME TypeOK
  PROVE  /\ Config.policy.min_nonce_length \in Nat
         /\ Config.policy.max_draft_chars \in Nat
         /\ Config.policy.max_total_drafts \in Nat
         /\ Config.policy.max_total_submissions \in Nat
         /\ Config.policy.max_total_slack_posts \in Nat
         /\ state.counters.drafted_total \in Nat
         /\ state.counters.submitted_total \in Nat
         /\ state.counters.slack_posted_total \in Nat
<1>1. state.counters \in [Counters -> Nat]
  BY DEF TypeOK
<1>2. /\ state.counters.drafted_total \in Nat
      /\ state.counters.submitted_total \in Nat
      /\ state.counters.slack_posted_total \in Nat
  BY <1>1 DEF Counters
<1> QED
  BY <1>2, ConfigAssumption DEF ConfigValid

PortPolicy == AsPolicy(Config.policy)
PortCaps == AsCapabilities(Config.capabilities)

\* The rules for every action.
LEMMA CommonsAgree ==
  ASSUME Portable, NoneIsNone, TypeOK, NEW p, NEW actor, ActionFits(p)
  PROVE  LET checked == common_checks(AsState(state), AsAction(p), actor, PortCaps, PortPolicy)
         IN  /\ checked = Null
                  <=> CommonChecks(state, p, actor, Config.capabilities, Config.policy)
             /\ checked # Null => ~is_allow(checked)
<1> DEFINE s == AsState(state)
           a == AsAction(p)
           pol == Config.policy
<1>1. /\ s.policy_version = state.policy_version
      /\ s.consumed_nonces = state.consumed_nonces
      /\ hash_state(s) = HashState(state)
  BY StateKept, StatesAgree
<1>2. /\ a.nonce = p.nonce
      /\ a.expected_state_hash = p.expected_state_hash
      /\ type_tag(a) = p.t
      /\ TextLen(p.nonce) = StrLen(p.nonce) /\ StrLen(p.nonce) \in Nat
  BY VariantKeeps, ActionsAgree DEF ActionFits, ActionFields, Tags
<1>3. /\ PortPolicy.version = pol.version
      /\ PortPolicy.min_nonce_length = pol.min_nonce_length
      /\ pol.min_nonce_length \in Nat
  BY PolicyKept, NumbersCompare DEF PortPolicy, Portable
<1>4. operation_allowed(PortCaps, actor, p.t)
        <=> OperationAllowed(Config.capabilities, actor, p.t)
  BY PermissionsAgree DEF PortCaps, Portable
<1> HIDE DEF s, a
<1> DEFINE checked == common_checks(s, a, actor, PortCaps, PortPolicy)
<1>5. CASE CommonChecks(state, p, actor, Config.capabilities, pol)
  <2>1. checked = Null
    BY <1>1, <1>2, <1>3, <1>4, <1>5 DEF CommonChecks, common_checks, nonce_consumed,
       NonceConsumed
  <2> QED
    BY <1>5, <2>1 DEF s, a
<1>6. CASE ~CommonChecks(state, p, actor, Config.capabilities, pol)
  <2>1. \E code : checked = deny(code)
    BY <1>1, <1>2, <1>3, <1>4, <1>6 DEF CommonChecks, common_checks, nonce_consumed,
       NonceConsumed
  <2> QED
    BY <1>6, <2>1, DecisionCases DEF NoneIsNone, s, a
<1> QED
  BY <1>5, <1>6

\* read_invoice.
LEMMA ReadAgrees ==
  ASSUME Portable, TypeOK, NEW p, ActionFits(p), p.t = "read_invoice"
  PROVE  LET d == verify_read_invoice(AsState(state), AsAction(p))
         IN  /\ is_allow(d) <=> VerifyReadInvoice(state, p)
             /\ is_allow(d) => obligations_value(d.obligations) = ObligationsForReadInvoice(state, p)
<1> DEFINE s == AsState(state)
           a == AsAction(p)
           d == verify_read_invoice(s, a)
<1>1. a.invoice_id = p.invoice_id
  BY VariantKeeps DEF ActionFits, ActionFields, Tags
<1>2. s.invoices = state.invoices
  BY StateKept
<1>3. \A id \in DOMAIN state.invoices : LabelFits(state.invoices[id].label)
  BY DEF TypeOK, Portable, InvoiceFits
<1> HIDE DEF s, a
<1>8. CASE VerifyReadInvoice(state, p)
  <2>1. d = allow(obligations_for_read_invoice(state.invoices[p.invoice_id].label))
    BY <1>1, <1>2, <1>3, <1>8 DEF VerifyReadInvoice, HasInvoice, verify_read_invoice, has_invoice
  <2> QED
    BY <1>1, <1>2, <1>3, <1>8, <2>1, ObligationsAgree, DecisionCases DEF VerifyReadInvoice, HasInvoice, s, a
<1>9. CASE ~VerifyReadInvoice(state, p)
  <2>1. \E code : d = deny(code)
    BY <1>1, <1>2, <1>3, <1>9 DEF VerifyReadInvoice, HasInvoice, verify_read_invoice, has_invoice
  <2> QED
    BY <1>9, <2>1, DecisionCases DEF s, a
<1> QED
  BY <1>8, <1>9

\* create_draft.
LEMMA CreateAgrees ==
  ASSUME Portable, TypeOK, NEW p, ActionFits(p), p.t = "create_draft"
  PROVE  LET d == verify_create_draft(AsState(state), AsAction(p), PortPolicy)
         IN  /\ is_allow(d) <=> VerifyCreateDraft(state, p, Config.policy)
             /\ is_allow(d) => obligations_value(d.obligations) = ObligationsForCreateDraft(p)
<1> DEFINE s == AsState(state)
           a == AsAction(p)
           d == verify_create_draft(s, a, PortPolicy)
<1>1. /\ a.invoice_id = p.invoice_id
      /\ a.thread_id = p.thread_id
      /\ a.customer_id = p.customer_id
      /\ a.body = p.body
      /\ a.body_label = p.body_label
      /\ LabelFits(p.body_label)
      /\ TextLen(p.body) = StrLen(p.body) /\ StrLen(p.body) \in Nat
  BY VariantKeeps DEF ActionFits, ActionFields, Tags
<1>2. /\ s.invoices = state.invoices
      /\ s.threads = state.threads
      /\ s.counters = state.counters
  BY StateKept
<1>3. \A id \in DOMAIN state.invoices :
        flows_to(state.invoices[id].label, p.body_label)
          <=> FlowsTo(state.invoices[id].label, p.body_label)
  BY <1>1, FlowsAgree DEF TypeOK, Portable, InvoiceFits
<1>4. /\ PortPolicy.max_draft_chars = Config.policy.max_draft_chars
      /\ PortPolicy.max_total_drafts = Config.policy.max_total_drafts
      /\ Config.policy.max_draft_chars \in Nat
      /\ Config.policy.max_total_drafts \in Nat
      /\ state.counters.drafted_total \in Nat
  BY PolicyKept, NumbersCompare DEF PortPolicy, Portable
<1> HIDE DEF s, a
<1>8. CASE VerifyCreateDraft(state, p, Config.policy)
  <2>1. d = allow(obligations_for_create_draft(p.customer_id, p.body_label))
    BY <1>1, <1>2, <1>3, <1>4, <1>8 DEF VerifyCreateDraft, HasInvoice, HasThread, verify_create_draft, has_invoice, has_thread
  <2> QED
    BY <1>1, <1>2, <1>3, <1>4, <1>8, <2>1, ObligationsAgree, DecisionCases DEF VerifyCreateDraft, s, a
<1>9. CASE ~VerifyCreateDraft(state, p, Config.policy)
  <2>1. \E code : d = deny(code)
    BY <1>1, <1>2, <1>3, <1>4, <1>9 DEF VerifyCreateDraft, HasInvoice, HasThread, verify_create_draft, has_invoice, has_thread
  <2> QED
    BY <1>9, <2>1, DecisionCases DEF s, a
<1> QED
  BY <1>8, <1>9

\* approve_draft.
LEMMA ApproveAgrees ==
  ASSUME Portable, TypeOK, NEW p, NEW actor, ActionFits(p), p.t = "approve_draft"
  PROVE  LET d == verify_approve_draft(AsState(state), AsAction(p), actor, PortCaps, PortPolicy)
         IN  /\ is_allow(d) <=> VerifyApproveDraft(state, p, actor, Config.capabilities, Config.policy)
             /\ is_allow(d) => obligations_value(d.obligations) = ObligationsForApproveDraft(p)
<1> DEFINE s == AsState(state)
           a == AsAction(p)
           d == verify_approve_draft(s, a, actor, PortCaps, PortPolicy)
<1>1. /\ a.draft_hash = p.draft_hash
      /\ a.approver_id = p.approver_id
  BY VariantKeeps DEF ActionFits, ActionFields, Tags
<1>2. /\ s.approvals = state.approvals
      /\ DOMAIN s.drafts = DOMAIN state.drafts
      /\ \A h \in DOMAIN state.drafts : s.drafts[h].created_by = state.drafts[h].created_by
  BY StateKept
<1>3. /\ PortPolicy.approver_role = Config.policy.approver_role
      /\ PortPolicy.require_separation_of_duties
           = Config.policy.require_separation_of_duties
  BY PolicyKept DEF PortPolicy, Portable
<1>4. actor_role(PortCaps, actor) = ActorRole(Config.capabilities, actor)
  BY PermissionsAgree DEF PortCaps, Portable
<1> HIDE DEF s, a
<1>8. CASE VerifyApproveDraft(state, p, actor, Config.capabilities, Config.policy)
  <2>1. d = allow(obligations_for_approve_draft(p.draft_hash))
    BY <1>1, <1>2, <1>3, <1>4, <1>8 DEF VerifyApproveDraft, HasDraft, HasApproval, verify_approve_draft, has_draft, has_approval
  <2> QED
    BY <1>1, <1>2, <1>3, <1>4, <1>8, <2>1, ObligationsAgree, DecisionCases DEF VerifyApproveDraft, s, a
<1>9. CASE ~VerifyApproveDraft(state, p, actor, Config.capabilities, Config.policy)
  <2>1. \E code : d = deny(code)
    BY <1>1, <1>2, <1>3, <1>4, <1>9 DEF VerifyApproveDraft, HasDraft, HasApproval, verify_approve_draft, has_draft, has_approval
  <2> QED
    BY <1>9, <2>1, DecisionCases DEF s, a
<1> QED
  BY <1>8, <1>9

\* submit_draft.
LEMMA SubmitAgrees ==
  ASSUME Portable, TypeOK, NEW p, ActionFits(p), p.t = "submit_draft"
  PROVE  LET d == verify_submit_draft(AsState(state), AsAction(p), PortPolicy)
         IN  /\ is_allow(d) <=> VerifySubmitDraft(state, p, Config.policy)
             /\ is_allow(d) => obligations_value(d.obligations) = ObligationsForSubmitDraft(p)
<1> DEFINE s == AsState(state)
           a == AsAction(p)
           d == verify_submit_draft(s, a, PortPolicy)
<1>1. /\ a.draft_hash = p.draft_hash
      /\ a.recipient = p.recipient
      /\ a.recipient_label = p.recipient_label
      /\ LabelFits(p.recipient_label)
  <2>1. LabelFits(p.recipient_label)
    BY DEF ActionFits
  <2>2. \A f \in {"draft_hash", "recipient", "recipient_label"} : a[f] = p[f]
    BY VariantKeeps DEF ActionFields
  <2> QED
    BY <2>1, <2>2
<1>2. /\ s.approvals = state.approvals
      /\ s.counters = state.counters
      /\ DOMAIN s.drafts = DOMAIN state.drafts
      /\ \A h \in DOMAIN state.drafts :
           LET k == state.drafts[h] IN
           /\ s.drafts[h].customer_id = k.customer_id
           /\ s.drafts[h].body_label = k.body_label
           /\ s.drafts[h].deliveries.email_submitted <=> k.deliveries.email.submitted
  BY StateKept
<1>3. \A h \in DOMAIN state.drafts :
        flows_to(state.drafts[h].body_label, p.recipient_label)
          <=> FlowsTo(state.drafts[h].body_label, p.recipient_label)
  BY <1>1, FlowsAgree, StateKept
<1>4. /\ PortPolicy.approved_recipients = Config.policy.approved_recipients
      /\ PortPolicy.max_total_submissions = Config.policy.max_total_submissions
      /\ Config.policy.max_total_submissions \in Nat
      /\ state.counters.submitted_total \in Nat
  BY PolicyKept, NumbersCompare DEF PortPolicy, Portable
<1> HIDE DEF s, a
<1>8. CASE VerifySubmitDraft(state, p, Config.policy)
  <2>1. d = allow(obligations_for_submit_draft(p.draft_hash, p.recipient))
    BY <1>1, <1>2, <1>3, <1>4, <1>8 DEF VerifySubmitDraft, HasDraft, HasApproval, RecipientAllowed, verify_submit_draft, has_draft, has_approval, recipients_ok
  <2> QED
    BY <1>1, <1>2, <1>3, <1>4, <1>8, <2>1, ObligationsAgree, DecisionCases DEF VerifySubmitDraft, s, a
<1>9. CASE ~VerifySubmitDraft(state, p, Config.policy)
  <2>1. \E code : d = deny(code)
    <3>1. CASE ~HasDraft(state, p.draft_hash)
      BY <1>1, <1>2, <3>1 DEF HasDraft, verify_submit_draft, has_draft
    <3>2. CASE HasDraft(state, p.draft_hash)
      <4> DEFINE k == state.drafts[p.draft_hash]
                 l == s.drafts[p.draft_hash]
      <4>1. /\ l.customer_id = k.customer_id
            /\ l.deliveries.email_submitted <=> k.deliveries.email.submitted
            /\ flows_to(l.body_label, a.recipient_label)
                 <=> FlowsTo(k.body_label, p.recipient_label)
        BY <1>1, <1>2, <1>3, <3>2 DEF HasDraft
      <4>2. recipients_ok(PortPolicy, l.customer_id, a.recipient)
              <=> RecipientAllowed(Config.policy, k.customer_id, p.recipient)
        BY <1>1, <1>4, <4>1 DEF recipients_ok, RecipientAllowed
      <4> HIDE DEF k, l
      <4>3. \/ ~HasApproval(state, p.draft_hash)
            \/ k.deliveries.email.submitted
            \/ ~RecipientAllowed(Config.policy, k.customer_id, p.recipient)
            \/ p.recipient_label.kind # "customer"
            \/ p.recipient_label.owner # k.customer_id
            \/ ~FlowsTo(k.body_label, p.recipient_label)
            \/ ~(state.counters.submitted_total < Config.policy.max_total_submissions)
        BY <1>9, <3>2 DEF VerifySubmitDraft, k
      <4>4. d = IF ~has_draft(s, a.draft_hash) THEN deny("DRAFT_NOT_FOUND")
                ELSE IF ~has_approval(s, a.draft_hash) THEN deny("APPROVAL_REQUIRED")
                ELSE IF l.deliveries.email_submitted THEN deny("ALREADY_SUBMITTED")
                ELSE IF ~recipients_ok(PortPolicy, l.customer_id, a.recipient)
                     THEN deny("RECIPIENT_NOT_APPROVED")
                ELSE IF \/ a.recipient_label.kind # "customer"
                        \/ a.recipient_label.owner # l.customer_id
                     THEN deny("RECIPIENT_LABEL_OWNER_MISMATCH")
                ELSE IF ~flows_to(l.body_label, a.recipient_label)
                     THEN deny("IFC_BODY_TO_RECIPIENT")
                ELSE IF s.counters.submitted_total >= PortPolicy.max_total_submissions
                     THEN deny("SUBMISSION_QUOTA")
                ELSE allow(obligations_for_submit_draft(a.draft_hash, a.recipient))
        BY <1>1 DEF verify_submit_draft, l
      <4> QED
        BY <1>1, <1>2, <1>4, <4>1, <4>2, <4>3, <4>4 DEF HasApproval, has_approval
    <3> QED
      BY <3>1, <3>2
  <2> QED
    BY <1>9, <2>1, DecisionCases DEF s, a
<1> QED
  BY <1>8, <1>9

\* post_to_slack.
LEMMA PostAgrees ==
  ASSUME Portable, TypeOK, NEW p, ActionFits(p), p.t = "post_to_slack"
  PROVE  LET d == verify_post_to_slack(AsState(state), AsAction(p), PortPolicy)
         IN  /\ is_allow(d) <=> VerifyPostToSlack(state, p, Config.policy)
             /\ is_allow(d) => obligations_value(d.obligations) = ObligationsForPostToSlack(p)
<1> DEFINE s == AsState(state)
           a == AsAction(p)
           d == verify_post_to_slack(s, a, PortPolicy)
<1>1. /\ a.draft_hash = p.draft_hash
      /\ a.channel_id = p.channel_id
      /\ a.channel_label = p.channel_label
  BY VariantKeeps DEF ActionFits, ActionFields, Tags
<1>2. /\ s.approvals = state.approvals
      /\ s.counters = state.counters
      /\ DOMAIN s.drafts = DOMAIN state.drafts
      /\ \A h \in DOMAIN state.drafts :
           LET k == state.drafts[h] IN
           /\ s.drafts[h].body_label = k.body_label
           /\ s.drafts[h].deliveries.slack_posted_channels = k.deliveries.slack
  BY StateKept
<1> DEFINE channels == Config.policy.approved_slack_channels
<1>3. /\ DOMAIN PortPolicy.approved_slack_channels = DOMAIN channels
      /\ \A ch \in DOMAIN channels :
           /\ PortPolicy.approved_slack_channels[ch] = channels[ch].label
           /\ LabelFits(channels[ch].label)
  <2>1. \A ch \in DOMAIN channels : LabelFits(channels[ch].label)
    BY DEF Portable, PolicyFits
  <2>2. PolicyFits(Config.policy)
    BY DEF Portable
  <2>3. PortPolicy.approved_slack_channels = [ch \in DOMAIN channels |-> channels[ch].label]
    BY <2>2 DEF PortPolicy, AsPolicy, PolicyFits, HasExactly
  <2> QED
    BY <2>1, <2>3
<1>4. \A h \in DOMAIN state.drafts, ch \in DOMAIN channels :
        flows_to(state.drafts[h].body_label, channels[ch].label)
          <=> FlowsTo(state.drafts[h].body_label, channels[ch].label)
  BY <1>3, FlowsAgree, StateKept
<1>5. /\ PortPolicy.max_total_slack_posts = Config.policy.max_total_slack_posts
      /\ Config.policy.max_total_slack_posts \in Nat
      /\ state.counters.slack_posted_total \in Nat
  BY PolicyKept, NumbersCompare DEF PortPolicy, Portable
<1> HIDE DEF s, a
<1>8. CASE VerifyPostToSlack(state, p, Config.policy)
  <2>1. d = allow(obligations_for_post_to_slack(p.draft_hash, p.channel_id))
    BY <1>1, <1>2, <1>3, <1>4, <1>5, <1>8 DEF VerifyPostToSlack, HasDraft, HasApproval, verify_post_to_slack, has_draft, has_approval
  <2> QED
    BY <1>1, <1>2, <1>3, <1>4, <1>5, <1>8, <2>1, ObligationsAgree, DecisionCases DEF VerifyPostToSlack, s, a
<1>9. CASE ~VerifyPostToSlack(state, p, Config.policy)
  <2>1. \E code : d = deny(code)
    BY <1>1, <1>2, <1>3, <1>4, <1>5, <1>9 DEF VerifyPostToSlack, HasDraft, HasApproval, verify_post_to_slack, has_draft, has_approval
  <2> QED
    BY <1>9, <2>1, DecisionCases DEF s, a
<1> QED
  BY <1>8, <1>9

\* The whole kernel: the same actions are allowed, with the same obligations.
LEMMA DecisionAgrees ==
  ASSUME Portable, NoneIsNone, TypeOK, NEW p, NEW actor, ActionFits(p)
  PROVE  LET d == PortVerify(state, p, actor)
         IN  /\ is_allow(d) <=> Allowed(state, p, actor)
             /\ is_allow(d) => obligations_value(d.obligations) = ObligationsForAction(state, p)
<1> DEFINE s == AsState(state)
           a == AsAction(p)
           d == policy_verify(s, a, actor, PortCaps, PortPolicy)
           checked == common_checks(s, a, actor, PortCaps, PortPolicy)
<1>1. d = PortVerify(state, p, actor)
  BY DEF PortVerify, PortCaps, PortPolicy
<1>2. /\ checked = Null
           <=> CommonChecks(state, p, actor, Config.capabilities, Config.policy)
      /\ checked # Null => ~is_allow(checked)
  BY CommonsAgree
<1>3. a.variant = Variant(p.t) /\ p.t \in Tags
  BY VariantKeeps DEF ActionFits
<1>4. CASE checked # Null
  <2>1. d = checked
    BY <1>4 DEF policy_verify
  <2> QED
    BY <1>1, <1>2, <1>4, <2>1 DEF Allowed, Verify
<1>5. CASE checked = Null
  <2>1. CASE p.t = "read_invoice"
    <3>1. a.variant = "ReadInvoice"
      BY <1>3, <2>1 DEF Variant
    <3>2. d = verify_read_invoice(s, a)
      BY <1>5, <3>1 DEF policy_verify
    <3>3. Allowed(state, p, actor)
            <=> VerifyReadInvoice(state, p)
      BY <1>2, <1>5, <2>1 DEF Allowed, Verify
    <3>4. ObligationsForAction(state, p) = ObligationsForReadInvoice(state, p)
      BY <2>1 DEF ObligationsForAction
    <3> HIDE DEF d
    <3> QED
      BY <1>1, <2>1, <3>2, <3>3, <3>4, ReadAgrees
  <2>2. CASE p.t = "create_draft"
    <3>1. a.variant = "CreateDraft"
      BY <1>3, <2>2 DEF Variant
    <3>2. d = verify_create_draft(s, a, PortPolicy)
      BY <1>5, <3>1 DEF policy_verify
    <3>3. Allowed(state, p, actor)
            <=> VerifyCreateDraft(state, p, Config.policy)
      BY <1>2, <1>5, <2>2 DEF Allowed, Verify
    <3>4. ObligationsForAction(state, p) = ObligationsForCreateDraft(p)
      BY <2>2 DEF ObligationsForAction
    <3> HIDE DEF d
    <3> QED
      BY <1>1, <2>2, <3>2, <3>3, <3>4, CreateAgrees
  <2>3. CASE p.t = "approve_draft"
    <3>1. a.variant = "ApproveDraft"
      BY <1>3, <2>3 DEF Variant
    <3>2. d = verify_approve_draft(s, a, actor, PortCaps, PortPolicy)
      BY <1>5, <3>1 DEF policy_verify
    <3>3. Allowed(state, p, actor)
            <=> VerifyApproveDraft(state, p, actor, Config.capabilities, Config.policy)
      BY <1>2, <1>5, <2>3 DEF Allowed, Verify
    <3>4. ObligationsForAction(state, p) = ObligationsForApproveDraft(p)
      BY <2>3 DEF ObligationsForAction
    <3> HIDE DEF d
    <3> QED
      BY <1>1, <2>3, <3>2, <3>3, <3>4, ApproveAgrees
  <2>4. CASE p.t = "submit_draft"
    <3>1. a.variant = "SubmitDraft"
      BY <1>3, <2>4 DEF Variant
    <3>2. d = verify_submit_draft(s, a, PortPolicy)
      BY <1>5, <3>1 DEF policy_verify
    <3>3. Allowed(state, p, actor)
            <=> VerifySubmitDraft(state, p, Config.policy)
      BY <1>2, <1>5, <2>4 DEF Allowed, Verify
    <3>4. ObligationsForAction(state, p) = ObligationsForSubmitDraft(p)
      BY <2>4 DEF ObligationsForAction
    <3> HIDE DEF d
    <3> QED
      BY <1>1, <2>4, <3>2, <3>3, <3>4, SubmitAgrees
  <2>5. CASE p.t = "post_to_slack"
    <3>1. a.variant = "PostToSlack"
      BY <1>3, <2>5 DEF Variant
    <3>2. d = verify_post_to_slack(s, a, PortPolicy)
      BY <1>5, <3>1 DEF policy_verify
    <3>3. Allowed(state, p, actor)
            <=> VerifyPostToSlack(state, p, Config.policy)
      BY <1>2, <1>5, <2>5 DEF Allowed, Verify
    <3>4. ObligationsForAction(state, p) = ObligationsForPostToSlack(p)
      BY <2>5 DEF ObligationsForAction
    <3> HIDE DEF d
    <3> QED
      BY <1>1, <2>5, <3>2, <3>3, <3>4, PostAgrees
  <2> QED
    BY <1>3, <2>1, <2>2, <2>3, <2>4, <2>5 DEF Tags
<1> QED
  BY <1>4, <1>5

\* What is offered in a state is proposable.
LEMMA OffersProposable ==
  ASSUME NEW s, NEW p \in Offers(s)
  PROVE  Proposable(p)
<1>1. CASE \E h \in Headers("read_invoice", s) : p \in ReadProposals(h)
  BY <1>1 DEF Headers, Proposable
<1>2. CASE \E h \in Headers("create_draft", s) : p \in CreateProposals(h)
  BY <1>2 DEF Headers, Proposable
<1>3. CASE \E h \in Headers("approve_draft", s) : p \in ApproveProposals(h, s)
  BY <1>3 DEF Headers, Proposable
<1>4. CASE \E h \in Headers("submit_draft", s) : p \in SubmitProposals(h, s)
  BY <1>4 DEF Headers, Proposable
<1>5. CASE \E h \in Headers("post_to_slack", s) : p \in PostProposals(h, s)
  BY <1>5 DEF Headers, Proposable
<1> QED
  BY <1>1, <1>2, <1>3, <1>4, <1>5 DEF Offers

-----------------------------------------------------------------------------
(***************************************************************************)
(* Certificates and executions.                                            *)
(***************************************************************************)

\* The record of a certificate has its fields, and its signed value under the
\* mac.
LEMMA CertificateRecords ==
  ASSUME NEW c
  PROVE  LET r == CertificateRecord(c)
         IN  /\ "mac" \in DOMAIN r
             /\ r.mac = c.mac
             /\ StripMac(r) = unsigned_value(c)
             /\ r.prior_state_hash = c.prior_state_hash
             /\ r.action_hash = c.action_hash
             /\ r.actor_id = c.actor_id
             /\ r.policy_hash = c.policy_hash
             /\ r.capability_hash = c.capability_hash
             /\ r.nonce = c.nonce
             /\ r.sequence = c.sequence
             /\ r.obligations = obligations_value(c.obligations)
<1> DEFINE u == unsigned_value(c)
<1>1. /\ u = [f \in DOMAIN u |-> u[f]]
      /\ DOMAIN u = {"t", "version", "prior_state_hash", "action_hash", "actor_id",
                     "policy_hash", "capability_hash", "nonce", "sequence",
                     "obligations"}
      /\ u.prior_state_hash = c.prior_state_hash
      /\ u.action_hash = c.action_hash
      /\ u.actor_id = c.actor_id
      /\ u.policy_hash = c.policy_hash
      /\ u.capability_hash = c.capability_hash
      /\ u.nonce = c.nonce
      /\ u.sequence = c.sequence
      /\ u.obligations = obligations_value(c.obligations)
  BY DEF unsigned_value
<1> HIDE DEF u
<1>2. CertificateRecord(c) = RecSet(u, "mac", c.mac)
  BY DEF CertificateRecord, u
<1>3. StripMac(RecSet(u, "mac", c.mac)) = u
  BY <1>1 DEF StripMac, RecRemove, RecSet
<1> QED
  BY <1>1, <1>2, <1>3 DEF RecSet, u

\* The digests a certificate is compared with.
LEMMA DigestsAgree ==
  ASSUME Portable, TypeOK, NEW p, ActionFits(p)
  PROVE  /\ hash_state(AsState(state)) = HashState(state)
         /\ action_hash(AsAction(p)) = ActionHash(p)
         /\ policy_digest(PortPolicy) = PolicyDigest(Config.policy)
         /\ capability_digest(PortCaps) = CapabilitiesDigest(Config.capabilities)
<1>1. policy_value(PortPolicy) = Config.policy
  BY PoliciesAgree DEF PortPolicy, Portable
<1>2. capabilities_value(PortCaps) = Config.capabilities
  BY CapabilitiesAgree DEF PortCaps, Portable
<1>3. action_value(AsAction(p)) = p
  BY ActionsAgree
<1> QED
  BY <1>1, <1>2, <1>3, StatesAgree
     DEF action_hash, ActionHash, policy_digest, PolicyDigest, capability_digest, CapabilitiesDigest

\* Whatever struct is presented, both check it alike.
LEMMA ChecksAgree ==
  ASSUME Portable, NoneIsNone, MalformedIsApart, TypeOK, NEW p, NEW actor, NEW c, NEW secret,
         ActionFits(p)
  PROVE  certificate_verify(c, AsState(state), AsAction(p), actor, PortCaps, PortPolicy, secret)
           = Null
         <=> VerifyCertificate(CertificateRecord(c), state, p, actor,
                               Config.capabilities, Config.policy, secret)
<1> DEFINE s == AsState(state)
           a == AsAction(p)
           r == CertificateRecord(c)
<1>1. s.sequence = state.sequence /\ a.nonce = p.nonce
  BY StateKept, VariantKeeps DEF ActionFits, ActionFields, Tags
<1>2. \A v : certificate_mac_v1_fard(secret, v) = Mac(secret, v) /\ Mac(secret, v) # NoMac
  BY DEF certificate_mac_v1_fard, Mac, MalformedIsApart, NoMac
<1>3. /\ "mac" \in DOMAIN r
      /\ r.mac = c.mac
      /\ StripMac(r) = unsigned_value(c)
      /\ r.prior_state_hash = c.prior_state_hash
      /\ r.action_hash = c.action_hash
      /\ r.actor_id = c.actor_id
      /\ r.policy_hash = c.policy_hash
      /\ r.capability_hash = c.capability_hash
      /\ r.nonce = c.nonce
      /\ r.sequence = c.sequence
  BY CertificateRecords
<1>4. /\ hash_state(s) = HashState(state)
      /\ action_hash(a) = ActionHash(p)
      /\ policy_digest(PortPolicy) = PolicyDigest(Config.policy)
      /\ capability_digest(PortCaps) = CapabilitiesDigest(Config.capabilities)
  BY DigestsAgree
<1> HIDE DEF s, a, r
<1> DEFINE matches ==
      /\ c.mac # NoMac
      /\ c.mac = certificate_mac_v1_fard(secret, unsigned_value(c))
      /\ c.prior_state_hash = hash_state(s)
      /\ c.action_hash = action_hash(a)
      /\ c.actor_id = actor
      /\ c.policy_hash = policy_digest(PortPolicy)
      /\ c.capability_hash = capability_digest(PortCaps)
      /\ c.nonce = a.nonce
      /\ c.sequence = s.sequence
<1>5. certificate_verify(c, s, a, actor, PortCaps, PortPolicy, secret) = Null <=> matches
  BY DEF certificate_verify, NoneIsNone
<1>6. matches <=> VerifyCertificate(r, state, p, actor, Config.capabilities, Config.policy,
                                    secret)
  BY <1>1, <1>2, <1>3, <1>4 DEF VerifyCertificate
<1> QED
  BY <1>5, <1>6 DEF s, a, r

\* The port's executor accepts what the engine's accepts.
LEMMA ExecutorsAgree ==
  ASSUME Portable, NoneIsNone, MalformedIsApart, TypeOK, NEW p, NEW actor, NEW c, ActionFits(p)
  PROVE  PortExecute(state, p, actor, c).ok
           <=> ExecutorAccepts(state, p, actor, Config.capabilities, Config.policy,
                               CertificateRecord(c), Config.broker_secret)
<1> DEFINE invalid == certificate_verify(c, AsState(state), AsAction(p), actor, PortCaps,
                                         PortPolicy, Config.broker_secret)
           d == PortVerify(state, p, actor)
           r == CertificateRecord(c)
<1>1. invalid = Null
        <=> VerifyCertificate(r, state, p, actor, Config.capabilities, Config.policy,
                              Config.broker_secret)
  BY ChecksAgree
<1>2. /\ is_allow(d) <=> Verify(state, p, actor, Config.capabilities, Config.policy)
      /\ is_allow(d) => obligations_value(d.obligations) = ObligationsForAction(state, p)
  BY DecisionAgrees DEF Allowed
<1>3. r.obligations = obligations_value(c.obligations)
  BY CertificateRecords
<1>4. nonce_consumed(AsState(state), AsAction(p).nonce) <=> NonceConsumed(state, p.nonce)
  <2>1. AsAction(p).nonce = p.nonce
    BY VariantKeeps DEF ActionFits, ActionFields, Tags
  <2> QED
    BY <2>1, StateKept DEF nonce_consumed, NonceConsumed
<1>5. PortExecute(state, p, actor, c)
        = IF invalid # Null THEN Err(invalid)
          ELSE IF ~is_allow(d) THEN Err("EXECUTOR_POLICY_DENIED")
          ELSE IF obligations_value(c.obligations) # obligations_value(d.obligations)
               THEN Err("CERTIFICATE_OBLIGATION_MISMATCH")
          ELSE IF nonce_consumed(AsState(state), AsAction(p).nonce)
               THEN Err("NONCE_REPLAY_AT_EXECUTOR")
          ELSE Ok(d.obligations)
  BY DEF PortExecute, execute_exact, PortVerify, PortCaps, PortPolicy
<1> HIDE DEF invalid, d, r
<1>6. PortExecute(state, p, actor, c).ok
        <=> /\ invalid = Null
            /\ is_allow(d)
            /\ obligations_value(c.obligations) = obligations_value(d.obligations)
            /\ ~nonce_consumed(AsState(state), AsAction(p).nonce)
  BY <1>5 DEF Ok, Err
<1> QED
  BY <1>1, <1>2, <1>3, <1>4, <1>6 DEF ExecutorAccepts, r

\* A certificate the executor accepts is the one the engine would issue.
LEMMA AcceptedIsIssued ==
  ASSUME NEW p, NEW actor, NEW c,
         ExecutorAccepts(state, p, actor, Config.capabilities, Config.policy,
                         CertificateRecord(c), Config.broker_secret)
  PROVE  CertificateRecord(c) = CertificateFor(state, p, actor)
<1> DEFINE r == CertificateRecord(c)
<1>1. /\ VerifyCertificate(r, state, p, actor, Config.capabilities, Config.policy,
                           Config.broker_secret)
      /\ r.obligations = ObligationsForAction(state, p)
  BY DEF ExecutorAccepts
<1>2. unsigned_value(c) = UnsignedCertificate(state, p, actor, Config.capabilities,
                                              Config.policy, ObligationsForAction(state, p))
  BY <1>1, CertificateRecords DEF VerifyCertificate, unsigned_value, UnsignedCertificate
<1>3. c.mac = Mac(Config.broker_secret, unsigned_value(c))
  BY <1>1, CertificateRecords DEF VerifyCertificate
<1> QED
  BY <1>2, <1>3 DEF CertificateRecord, CertificateFor, Issue

\* The port signs the record the engine would sign.
LEMMA IssuesAgree ==
  ASSUME Portable, TypeOK, NEW p, NEW actor, NEW os, ActionFits(p),
         obligations_value(os) = ObligationsForAction(state, p)
  PROVE  CertificateRecord(PortIssue(state, p, actor, os, Config.broker_secret))
           = CertificateFor(state, p, actor)
<1> DEFINE bare == unsigned_certificate(AsState(state), AsAction(p), actor, PortCaps,
                                        PortPolicy, os)
           c == PortIssue(state, p, actor, os, Config.broker_secret)
           v == UnsignedCertificate(state, p, actor, Config.capabilities, Config.policy,
                                    ObligationsForAction(state, p))
<1>1. AsState(state).sequence = state.sequence /\ AsAction(p).nonce = p.nonce
  BY StateKept, VariantKeeps DEF ActionFits, ActionFields, Tags
<1>2. unsigned_value(bare) = v
  BY <1>1, DigestsAgree DEF unsigned_certificate, unsigned_value, UnsignedCertificate
<1>3. c = [bare EXCEPT !.mac = certificate_mac_v1_fard(Config.broker_secret,
                                                      unsigned_value(bare))]
  BY DEF PortIssue, issue, PortCaps, PortPolicy
<1>4. /\ c.mac = Mac(Config.broker_secret, v)
      /\ unsigned_value(c) = unsigned_value(bare)
  BY <1>2, <1>3 DEF unsigned_certificate, certificate_mac_v1_fard, Mac, unsigned_value
<1> QED
  BY <1>2, <1>4 DEF CertificateRecord, CertificateFor, Issue

\* Obligations claimed for an allowed action are those of the action.
LEMMA ClaimsAgree ==
  ASSUME Portable, TypeOK, NEW p, NEW actor, ActionFits(p), Allowed(state, p, actor)
  PROVE  obligations_value(ClaimedObligations(state, p)) = ObligationsForAction(state, p)
<1>1. CASE p.t = "read_invoice"
  <2>1. HasInvoice(state, p.invoice_id)
    BY <1>1 DEF Allowed, Verify, VerifyReadInvoice
  <2>2. LabelFits(state.invoices[p.invoice_id].label)
    BY <2>1 DEF HasInvoice, TypeOK, Portable, InvoiceFits
  <2> QED
    BY <1>1, <2>1, <2>2, ObligationsAgree DEF ClaimedObligations, ObligationsForAction
<1>2. CASE p.t = "create_draft"
  BY <1>2, ObligationsAgree DEF ClaimedObligations, ObligationsForAction, ActionFits
<1>3. CASE p.t = "approve_draft"
  BY <1>3, ObligationsAgree DEF ClaimedObligations, ObligationsForAction
<1>4. CASE p.t = "submit_draft"
  BY <1>4, ObligationsAgree DEF ClaimedObligations, ObligationsForAction
<1>5. CASE p.t = "post_to_slack"
  BY <1>5, ObligationsAgree DEF ClaimedObligations, ObligationsForAction
<1> QED
  BY <1>1, <1>2, <1>3, <1>4, <1>5 DEF ActionFits, Tags

-----------------------------------------------------------------------------
(***************************************************************************)
(* Conformance.                                                            *)
(***************************************************************************)

\* Everything is hashed to the same digests, in every state of every lineage.
THEOREM PortHashesAgree ==
  ASSUME Portable
  PROVE  Spec => []HashesAgree
<1>1. ASSUME TypeOK
      PROVE  HashesAgree
  <2>1. hash_state(AsState(state)) = HashState(state)
    BY <1>1, StatesAgree
  <2>2. /\ policy_digest(AsPolicy(Config.policy)) = PolicyDigest(Config.policy)
        /\ capability_digest(AsCapabilities(Config.capabilities))
             = CapabilitiesDigest(Config.capabilities)
    BY PoliciesAgree, CapabilitiesAgree
       DEF Portable, policy_digest, PolicyDigest, capability_digest, CapabilitiesDigest
  <2>3. \A p \in Offers(state) : action_hash(AsAction(p)) = ActionHash(p)
    BY OffersProposable, ProposalsFit, ActionsAgree DEF action_hash, ActionHash
  <2> QED
    BY <2>1, <2>2, <2>3 DEF HashesAgree
<1> QED
  BY <1>1, TypeCorrect, PTL

\* The port allows what the engine allows, with the same obligations.
THEOREM PortDecisionsAgree ==
  ASSUME Portable, NoneIsNone
  PROVE  Spec => []DecisionsAgree
<1>1. ASSUME TypeOK
      PROVE  DecisionsAgree
  BY <1>1, OffersProposable, ProposalsFit, DecisionAgrees DEF DecisionsAgree
<1> QED
  BY <1>1, TypeCorrect, PTL

\* The port signs what the engine signs and its executor accepts what the
\* engine's accepts, whatever certificate is presented.
THEOREM PortExecutionsAgree ==
  ASSUME Portable, NoneIsNone, MalformedIsApart
  PROVE  Spec => []ExecutionsAgree
<1>1. ASSUME TypeOK
      PROVE  ExecutionsAgree
  <2>1. ASSUME NEW p \in Offers(state), NEW actor \in ActorIds
        PROVE  /\ Allowed(state, p, actor) =>
                    CertificateRecord(PortIssue(state, p, actor, ClaimedObligations(state, p),
                                                Config.broker_secret))
                      = CertificateFor(state, p, actor)
               /\ \A c \in Presented(state, p, actor) :
                    PortExecute(state, p, actor, c).ok <=>
                      ExecutorAccepts(state, p, actor, Config.capabilities, Config.policy,
                                      CertificateRecord(c), Config.broker_secret)
    <3>1. ActionFits(p)
      BY OffersProposable, ProposalsFit
    <3> QED
      BY <1>1, <3>1, ClaimsAgree, IssuesAgree, ExecutorsAgree
  <2> QED
    BY <2>1 DEF ExecutionsAgree
<1> QED
  BY <1>1, TypeCorrect, PTL

\* What execute_exact accepts for an action, of all certificates there could
\* be, is the record the engine would issue for it, and the action is allowed.
OnlyIssuedAccepted ==
  \A p \in Offers(state), actor \in ActorIds : \A c :
    PortExecute(state, p, actor, c).ok
      => /\ Allowed(state, p, actor)
         /\ CertificateRecord(c) = CertificateFor(state, p, actor)

\* No certificate buys an execution the kernel would not allow, and for one it
\* allows there is a single certificate.
THEOREM PortAcceptsOnlyIssued ==
  ASSUME Portable, NoneIsNone, MalformedIsApart
  PROVE  Spec => []OnlyIssuedAccepted
<1>1. ASSUME TypeOK, NEW p \in Offers(state), NEW actor \in ActorIds, NEW c,
             PortExecute(state, p, actor, c).ok
      PROVE  /\ Allowed(state, p, actor)
             /\ CertificateRecord(c) = CertificateFor(state, p, actor)
  <2>1. ActionFits(p)
    BY OffersProposable, ProposalsFit
  <2>2. ExecutorAccepts(state, p, actor, Config.capabilities, Config.policy,
                        CertificateRecord(c), Config.broker_secret)
    BY <1>1, <2>1, ExecutorsAgree
  <2>3. Allowed(state, p, actor)
    BY <2>2 DEF ExecutorAccepts, Allowed
  <2> QED
    BY <2>2, <2>3, AcceptedIsIssued
<1>2. TypeOK => OnlyIssuedAccepted
  BY <1>1 DEF OnlyIssuedAccepted
<1> QED
  BY <1>2, TypeCorrect, PTL

-----------------------------------------------------------------------------
(***************************************************************************)
(* The host.                                                               *)
(***************************************************************************)
\* What the theorems assume of the constants.
HostHypotheses == Portable /\ NoneIsNone /\ MalformedIsApart

JobFields == {"action", "actor", "certificate", "asked", "seen", "code"}

\* A worker has a job in hand that somebody could propose.
InHand(j) ==
  /\ DOMAIN j = JobFields
  /\ Proposable(j.action)
  /\ j.actor \in ActorIds

\* The state the executor accepted a job on is s, or was left behind.
SeenBefore(j, s) ==
  /\ DOMAIN j.seen = StateFields
  /\ j.seen.sequence \in Nat
  /\ j.seen.sequence <= s.sequence
  /\ j.seen.sequence = s.sequence => j.seen = s
  /\ PortExecute(j.seen, j.action, j.actor, j.certificate).ok

\* A certificate the kernel allowed is signed, and good as long as the state is
\* the one it was signed on.
GoodUntilMoved(j, s) ==
  LET c == j.certificate IN
  /\ c.mac # NoMac
  /\ c.mac = certificate_mac_v1_fard(Config.broker_secret, unsigned_value(c))
  /\ c.prior_state_hash[2].sequence \in Nat
  /\ c.prior_state_hash[2].sequence <= s.sequence
  /\ c.prior_state_hash[2].sequence = s.sequence =>
       PortExecute(s, j.action, j.actor, c).ok

\* As long as the state is the one a certificate was made out for, its action is
\* one that may be proposed in it.
OfferedUntilMoved(j, s) ==
  LET c == j.certificate IN
  /\ c.sequence \in Nat
  /\ c.sequence <= s.sequence
  /\ c.sequence = s.sequence => j.action \in Offers(s)

Statuses == {"idle", "certified", "accepted", "refused"}

WorkerOK(status, j, s) ==
  /\ status \in Statuses
  /\ status # "idle" => InHand(j)
  /\ status # "idle" => OfferedUntilMoved(j, s)
  /\ status = "accepted" => SeenBefore(j, s)
  /\ status \in {"certified", "accepted"} /\ j.asked => GoodUntilMoved(j, s)
  /\ status = "refused" /\ j.asked => j.code = "CERTIFICATE_STATE_MISMATCH"

HostInv ==
  /\ DOMAIN pc = Workers /\ DOMAIN job = Workers
  /\ \A w \in Workers : WorkerOK(pc[w], job[w], state)

-----------------------------------------------------------------------------
(***************************************************************************)
(* Steps of a worker.                                                      *)
(***************************************************************************)

\* Nobody works in the initial state.
LEMMA InitHostInv == HostInit => HostInv
  BY DEF HostInit, HostInv, WorkerOK, Statuses

\* A step that leaves the state alone need only leave its worker in order.
LEMMA BecomeKeeps ==
  ASSUME HostInv, NEW w \in Workers, NEW status, NEW j, Become(w, status, j),
         UNCHANGED vars, WorkerOK(status, j, state)
  PROVE  HostInv'
<1>1. /\ DOMAIN pc' = Workers /\ DOMAIN job' = Workers
      /\ pc'[w] = status /\ job'[w] = j
      /\ \A v \in Workers \ {w} : pc'[v] = pc[v] /\ job'[v] = job[v]
  BY DEF Become, HostInv
<1>2. state' = state
  BY DEF vars
<1> QED
  BY <1>1, <1>2 DEF HostInv

\* When the state moves on, what was in order stays in order.
LEMMA MovingKeeps ==
  ASSUME NEW status, NEW j, NEW s, NEW t, WorkerOK(status, j, s),
         s.sequence \in Nat, t.sequence = s.sequence + 1
  PROVE  WorkerOK(status, j, t)
<1>1. SeenBefore(j, s) => SeenBefore(j, t)
  BY DEF SeenBefore
<1>2. GoodUntilMoved(j, s) => GoodUntilMoved(j, t)
  BY DEF GoodUntilMoved
<1>3. OfferedUntilMoved(j, s) => OfferedUntilMoved(j, t)
  BY DEF OfferedUntilMoved
<1> QED
  BY <1>1, <1>2, <1>3 DEF WorkerOK

\* A certificate is made out for the state it is issued on, whoever signs it.
LEMMA IssuedIsOffered ==
  ASSUME Portable, TypeOK, NEW p \in Offers(state), NEW actor, NEW os, NEW j,
         j.action = p,
         j.certificate = PortIssue(state, p, actor, os, Config.broker_secret)
  PROVE  OfferedUntilMoved(j, state)
<1> DEFINE bare == unsigned_certificate(AsState(state), AsAction(p), actor, PortCaps,
                                        PortPolicy, os)
           mac == certificate_mac_v1_fard(Config.broker_secret, unsigned_value(bare))
<1>1. bare.sequence = AsState(state).sequence /\ "sequence" \in DOMAIN bare
  BY DEF unsigned_certificate
<1>2. j.certificate = [bare EXCEPT !.mac = mac]
  BY DEF PortIssue, issue, PortCaps, PortPolicy
<1> HIDE DEF bare, mac
<1>3. j.certificate.sequence = state.sequence
  BY <1>1, <1>2, StateKept
<1>4. state.sequence \in Nat
  BY DEF TypeOK
<1> QED
  BY <1>3, <1>4 DEF OfferedUntilMoved

\* The commit of an offer is a step of the lineage.
LEMMA OfferCommits ==
  ASSUME NEW p \in Offers(state), NEW actor \in ActorIds, Commit(p, actor)
  PROVE  Next
<1>1. CommonChecks(state, p, actor, Config.capabilities, Config.policy)
  BY DEF Commit, Commits, Allowed, Verify
<1>2. ASSUME NEW h, h.t = p.t, h.nonce = p.nonce,
             h.expected_state_hash = p.expected_state_hash
      PROVE  CommonChecks(state, h, actor, Config.capabilities, Config.policy)
  BY <1>1, <1>2 DEF CommonChecks
<1>3. ASSUME NEW h \in Headers("read_invoice", state), p \in ReadProposals(h)
      PROVE  Next
  <2>1. h \in Admitted("read_invoice", actor)
    BY <1>2, <1>3 DEF ReadProposals, Admitted
  <2> QED
    BY <1>3, <2>1 DEF Next, ReadInvoice
<1>4. ASSUME NEW h \in Headers("create_draft", state), p \in CreateProposals(h)
      PROVE  Next
  <2>1. h \in Admitted("create_draft", actor)
    BY <1>2, <1>4 DEF CreateProposals, Admitted
  <2> QED
    BY <1>4, <2>1 DEF Next, CreateDraft
<1>5. ASSUME NEW h \in Headers("approve_draft", state), p \in ApproveProposals(h, state)
      PROVE  Next
  <2>1. h \in Admitted("approve_draft", actor)
    BY <1>2, <1>5 DEF ApproveProposals, Admitted
  <2> QED
    BY <1>5, <2>1 DEF Next, ApproveDraft
<1>6. ASSUME NEW h \in Headers("submit_draft", state), p \in SubmitProposals(h, state)
      PROVE  Next
  <2>1. h \in Admitted("submit_draft", actor)
    BY <1>2, <1>6 DEF SubmitProposals, Admitted
  <2> QED
    BY <1>6, <2>1 DEF Next, SubmitDraft
<1>7. ASSUME NEW h \in Headers("post_to_slack", state), p \in PostProposals(h, state)
      PROVE  Next
  <2>1. h \in Admitted("post_to_slack", actor)
    BY <1>2, <1>7 DEF PostProposals, Admitted
  <2> QED
    BY <1>7, <2>1 DEF Next, PostToSlack
<1> QED
  BY <1>3, <1>4, <1>5, <1>6, <1>7 DEF Offers

\* The number of a state can be read off its digest.
LEMMA DigestSequence ==
  ASSUME NEW s, DOMAIN s = StateFields
  PROVE  HashState(s)[2].sequence = s.sequence
  BY DEF HashState, TaggedDigest, RecRemove, StateFields

\* A certificate just issued for an allowed action is good.
LEMMA IssuedIsGood ==
  ASSUME HostHypotheses, TypeOK, NEW p, NEW actor, NEW os, NEW j, Proposable(p),
         Allowed(state, p, actor),
         obligations_value(os) = ObligationsForAction(state, p),
         j.action = p, j.actor = actor,
         j.certificate = PortIssue(state, p, actor, os, Config.broker_secret)
  PROVE  GoodUntilMoved(j, state)
<1> DEFINE c == j.certificate
<1>1. ActionFits(p)
  BY ProposalsFit DEF HostHypotheses
<1>2. CertificateRecord(c) = CertificateFor(state, p, actor)
  BY <1>1, IssuesAgree DEF HostHypotheses
<1>3. ExecutorAccepts(state, p, actor, Config.capabilities, Config.policy,
                      CertificateRecord(c), Config.broker_secret)
  BY <1>2, AllowedExecutes DEF Executes
<1>4. PortExecute(state, p, actor, c).ok
  BY <1>1, <1>3, ExecutorsAgree DEF HostHypotheses
<1>5. VerifyCertificate(CertificateRecord(c), state, p, actor, Config.capabilities,
                        Config.policy, Config.broker_secret)
  BY <1>3 DEF ExecutorAccepts
<1>6. /\ c.mac = Mac(Config.broker_secret, unsigned_value(c))
      /\ c.prior_state_hash = HashState(state)
  BY <1>5, CertificateRecords DEF VerifyCertificate
<1>7. c.prior_state_hash[2].sequence = state.sequence /\ state.sequence \in Nat
  BY <1>6, DigestSequence DEF TypeOK
<1>8. c.mac # NoMac
  BY <1>6 DEF Mac, NoMac, HostHypotheses, MalformedIsApart
<1> QED
  BY <1>4, <1>6, <1>7, <1>8 DEF GoodUntilMoved, certificate_mac_v1_fard, Mac

\* A good certificate that is refused is told that the state has moved.
LEMMA RefusedAsMoved ==
  ASSUME HostHypotheses, TypeOK, NEW j, InHand(j), GoodUntilMoved(j, state),
         ~PortExecute(state, j.action, j.actor, j.certificate).ok
  PROVE  PortExecute(state, j.action, j.actor, j.certificate).code
           = "CERTIFICATE_STATE_MISMATCH"
<1> DEFINE c == j.certificate
           invalid == certificate_verify(c, AsState(state), AsAction(j.action), j.actor,
                                         AsCapabilities(Config.capabilities),
                                         AsPolicy(Config.policy), Config.broker_secret)
<1>1. c.prior_state_hash[2].sequence # state.sequence
  BY DEF GoodUntilMoved
<1>2. hash_state(AsState(state)) = HashState(state)
  BY StatesAgree DEF HostHypotheses
<1>3. c.prior_state_hash # hash_state(AsState(state))
  BY <1>1, <1>2, DigestSequence DEF TypeOK
<1>4. invalid = "CERTIFICATE_STATE_MISMATCH"
  BY <1>3 DEF GoodUntilMoved, certificate_verify
<1>5. invalid # Null
  BY <1>4 DEF HostHypotheses, NoneIsNone
<1>6. PortExecute(state, j.action, j.actor, c) = Err(invalid)
  BY <1>5 DEF PortExecute, execute_exact
<1> QED
  BY <1>4, <1>6 DEF Err

-----------------------------------------------------------------------------
(***************************************************************************)
(* A commit of the host is a commit of the engine.                         *)
(***************************************************************************)

\* Fields that are present, of the right type and no others.
LEMMA FieldsParse ==
  ASSUME NEW r, NEW texts, NEW hashes, NEW labels,
         HasExactly(r, Header \cup texts \cup labels),
         \A f \in texts \cup hashes \cup {"nonce", "expected_state_hash"} : r[f] # Malformed,
         \A f \in labels : Valid(r[f])
  PROVE  ParseFields(r, texts, hashes, labels)
<1>1. DOMAIN r = Header \cup texts \cup labels
  BY DEF HasExactly
<1> QED
  BY <1>1 DEF ParseFields, Header, NoUnknownFields, RequireTextFields, IsText, ValidSha256

\* The texts of a proposal are well formed.
LEMMA ProposalTexts ==
  ASSUME HostHypotheses, NEW p, Proposable(p)
  PROVE  /\ p.nonce # Malformed
         /\ p.t = "read_invoice" => p.invoice_id # Malformed
         /\ p.t = "create_draft" =>
              Malformed \notin {p.thread_id, p.invoice_id, p.customer_id, p.body}
         /\ p.t = "approve_draft" => p.approver_id # Malformed
         /\ p.t = "submit_draft" => p.recipient # Malformed
         /\ p.t = "post_to_slack" => p.channel_id # Malformed
<1>1. PICK s, h :
        /\ h.nonce \in Nonces
        /\ \/ h.t = "read_invoice"  /\ p \in ReadProposals(h)
           \/ h.t = "create_draft"  /\ p \in CreateProposals(h)
           \/ h.t = "approve_draft" /\ p \in ApproveProposals(h, s)
           \/ h.t = "submit_draft"  /\ p \in SubmitProposals(h, s)
           \/ h.t = "post_to_slack" /\ p \in PostProposals(h, s)
  BY DEF Proposable
<1>2. /\ Malformed \notin Nonces
      /\ Malformed \notin InvoiceIds
      /\ Malformed \notin ThreadIds
      /\ Malformed \notin CustomerIds
      /\ Malformed \notin Bodies
      /\ Malformed \notin Recipients
      /\ Malformed \notin ChannelIds
      /\ Malformed \notin ActorIds
  BY DEF HostHypotheses, Portable
<1>3. CASE h.t = "read_invoice" /\ p \in ReadProposals(h)
  BY <1>1, <1>2, <1>3 DEF ReadProposals
<1>4. CASE h.t = "create_draft" /\ p \in CreateProposals(h)
  BY <1>1, <1>2, <1>4 DEF CreateProposals
<1>5. CASE h.t = "approve_draft" /\ p \in ApproveProposals(h, s)
  BY <1>1, <1>2, <1>5 DEF ApproveProposals
<1>6. CASE h.t = "submit_draft" /\ p \in SubmitProposals(h, s)
  BY <1>1, <1>2, <1>6 DEF SubmitProposals
<1>7. CASE h.t = "post_to_slack" /\ p \in PostProposals(h, s)
  BY <1>1, <1>2, <1>7 DEF PostProposals
<1> QED
  BY <1>1, <1>3, <1>4, <1>5, <1>6, <1>7

\* What the kernel allows would have been parsed.
LEMMA AllowedParses ==
  ASSUME HostHypotheses, TypeOK, NEW p, NEW actor, Proposable(p), Allowed(state, p, actor)
  PROVE  Parses(p)
<1>1. /\ p.t \in Tags
      /\ HasExactly(p, ActionFields[p.t])
      /\ p.t = "create_draft" => LabelFits(p.body_label)
      /\ p.t = "submit_draft" => LabelFits(p.recipient_label)
      /\ p.t = "post_to_slack" => LabelFits(p.channel_label)
  BY ProposalsFit DEF HostHypotheses, ActionFits
<1>2. p.expected_state_hash # Malformed /\ p.nonce # Malformed
  BY ProposalTexts
     DEF Allowed, Verify, CommonChecks, HashState, HostHypotheses, MalformedIsApart
<1>3. ASSUME p.draft_hash \in DOMAIN state.drafts
      PROVE  p.draft_hash # Malformed
  BY <1>3 DEF TypeOK, DraftHashes, DraftHash, HostHypotheses, MalformedIsApart
<1>4. p # Malformed /\ p.t # Malformed /\ p.t \in DOMAIN ActionFields /\ "t" \in DOMAIN p
  BY <1>1 DEF HostHypotheses, MalformedIsApart, HasExactly, Tags, ActionFields
<1>5. CASE p.t = "read_invoice"
  <2>1. HasExactly(p, Header \cup {"invoice_id"} \cup {})
    BY <1>1, <1>5 DEF ActionFields, Header
  <2>4. \A f \in {"invoice_id"} \cup {} \cup {"nonce", "expected_state_hash"} :
          p[f] # Malformed
    BY <1>2, <1>5, ProposalTexts
  <2>5. \A f \in {} : Valid(p[f])
    OBVIOUS
  <2>6. ParseReadInvoice(p)
    BY <2>1, <2>4, <2>5, FieldsParse DEF ParseReadInvoice
  <2> QED
    BY <1>4, <1>5, <2>6 DEF Parses, RequireTextFields, IsText
<1>6. CASE p.t = "create_draft"
  <2>1. HasExactly(p, Header \cup {"thread_id", "invoice_id", "customer_id", "body"} \cup {"body_label"})
    BY <1>1, <1>6 DEF ActionFields, Header
  <2>2. VerifyCreateDraft(state, p, Config.policy)
    BY <1>6 DEF Allowed, Verify
  <2>4. \A f \in {"thread_id", "invoice_id", "customer_id", "body"} \cup {} \cup {"nonce", "expected_state_hash"} :
          p[f] # Malformed
    BY <1>2, <1>6, ProposalTexts
  <2>5. \A f \in {"body_label"} : Valid(p[f])
    BY <2>2 DEF VerifyCreateDraft, FlowsTo
  <2>6. ParseCreateDraft(p)
    BY <2>1, <2>4, <2>5, FieldsParse DEF ParseCreateDraft
  <2> QED
    BY <1>4, <1>6, <2>6 DEF Parses, RequireTextFields, IsText
<1>7. CASE p.t = "approve_draft"
  <2>1. HasExactly(p, Header \cup {"draft_hash", "approver_id"} \cup {})
    BY <1>1, <1>7 DEF ActionFields, Header
  <2>2. VerifyApproveDraft(state, p, actor, Config.capabilities, Config.policy)
    BY <1>7 DEF Allowed, Verify
  <2>3. p.draft_hash # Malformed
    BY <1>3, <2>2 DEF VerifyApproveDraft, HasDraft
  <2>4. \A f \in {"draft_hash", "approver_id"} \cup {"draft_hash"} \cup {"nonce", "expected_state_hash"} :
          p[f] # Malformed
    BY <1>2, <1>7, <2>3, ProposalTexts
  <2>5. \A f \in {} : Valid(p[f])
    OBVIOUS
  <2>6. ParseApproveDraft(p)
    BY <2>1, <2>4, <2>5, FieldsParse DEF ParseApproveDraft
  <2> QED
    BY <1>4, <1>7, <2>6 DEF Parses, RequireTextFields, IsText
<1>8. CASE p.t = "submit_draft"
  <2>1. HasExactly(p, Header \cup {"draft_hash", "recipient"} \cup {"recipient_label"})
    BY <1>1, <1>8 DEF ActionFields, Header
  <2>2. VerifySubmitDraft(state, p, Config.policy)
    BY <1>8 DEF Allowed, Verify
  <2>3. p.draft_hash # Malformed
    BY <1>3, <2>2 DEF VerifySubmitDraft, HasDraft
  <2>4. \A f \in {"draft_hash", "recipient"} \cup {"draft_hash"} \cup {"nonce", "expected_state_hash"} :
          p[f] # Malformed
    BY <1>2, <1>8, <2>3, ProposalTexts
  <2>5. \A f \in {"recipient_label"} : Valid(p[f])
    BY <2>2 DEF VerifySubmitDraft, FlowsTo
  <2>6. ParseSubmitDraft(p)
    BY <2>1, <2>4, <2>5, FieldsParse DEF ParseSubmitDraft
  <2> QED
    BY <1>4, <1>8, <2>6 DEF Parses, RequireTextFields, IsText
<1>9. CASE p.t = "post_to_slack"
  <2>1. HasExactly(p, Header \cup {"draft_hash", "channel_id"} \cup {"channel_label"})
    BY <1>1, <1>9 DEF ActionFields, Header
  <2>2. VerifyPostToSlack(state, p, Config.policy)
    BY <1>9 DEF Allowed, Verify
  <2>3. p.draft_hash # Malformed
    BY <1>3, <2>2 DEF VerifyPostToSlack, HasDraft
  <2>4. \A f \in {"draft_hash", "channel_id"} \cup {"draft_hash"} \cup {"nonce", "expected_state_hash"} :
          p[f] # Malformed
    BY <1>2, <1>9, <2>3, ProposalTexts
  <2>5. \A f \in {"channel_label"} : Valid(p[f])
    BY <2>2 DEF VerifyPostToSlack, FlowsTo
  <2>6. ParsePostToSlack(p)
    BY <2>1, <2>4, <2>5, FieldsParse DEF ParsePostToSlack
  <2> QED
    BY <1>4, <1>9, <2>6 DEF Parses, RequireTextFields, IsText
<1> QED
  BY <1>1, <1>5, <1>6, <1>7, <1>8, <1>9 DEF Tags

\* The commit of an accepted job, when the compare succeeds, is the engine's.
LEMMA HostCommits ==
  ASSUME HostHypotheses, IInv, HostInv, NEW w \in Workers, HostCommit(w)
  PROVE  Commit(job[w].action, job[w].actor) /\ job[w].action \in Offers(state)
<1> DEFINE j == job[w]
           p == j.action
           actor == j.actor
           r == CertificateRecord(j.certificate)
<1>1. InHand(j) /\ SeenBefore(j, state) /\ OfferedUntilMoved(j, state)
  BY DEF HostInv, WorkerOK, HostCommit
<1>2. TypeOK /\ DOMAIN state = StateFields
  BY DEF IInv, TypeOK
<1>3. j.seen.sequence = state.sequence
  <2>1. HashState(state) = HashState(j.seen)
    BY DEF HostCommit
  <2> QED
    BY <1>1, <1>2, <2>1, DigestSequence DEF SeenBefore
<1>4. j.seen = state
  BY <1>1, <1>3 DEF SeenBefore
<1>5. ActionFits(p)
  BY <1>1, ProposalsFit DEF InHand, HostHypotheses
<1>6. ExecutorAccepts(state, p, actor, Config.capabilities, Config.policy, r,
                      Config.broker_secret)
  <2>1. PortExecute(state, p, actor, j.certificate).ok
    BY <1>1, <1>4 DEF SeenBefore
  <2> QED
    BY <1>2, <1>5, <2>1, ExecutorsAgree DEF HostHypotheses
<1>7. r = CertificateFor(state, p, actor)
  BY <1>6, AcceptedIsIssued
<1>8. Allowed(state, p, actor) /\ Executes(state, p, actor)
  BY <1>6, <1>7 DEF ExecutorAccepts, Allowed, Executes
<1>9. Parses(p)
  BY <1>1, <1>2, <1>8, AllowedParses DEF InHand
<1>10. HostReceipt(j) = ReceiptFor(state, p, actor)
  BY <1>4, <1>7 DEF HostReceipt, ReceiptFor
<1>11. /\ state' = WithPreviousReceipt(ExecutionState(state, p, actor),
                                       HostReceipt(j).receipt_hash)
       /\ receipts' = Append(receipts, HostReceipt(j))
  BY <1>4 DEF HostCommit
<1>12. j.certificate.sequence = state.sequence
  BY <1>6, CertificateRecords DEF ExecutorAccepts, VerifyCertificate
<1>13. p \in Offers(state)
  BY <1>1, <1>12 DEF OfferedUntilMoved
<1> QED
  BY <1>8, <1>9, <1>10, <1>11, <1>13 DEF Commit, Commits, NextState

\* Changing what was seen or the code of a job changes nothing else of it.
LEMMA JobsKept ==
  ASSUME NEW j, InHand(j), NEW x
  PROVE  /\ LET i == [j EXCEPT !.seen = x]
            IN  /\ DOMAIN i = JobFields
                /\ i.seen = x
                /\ \A f \in JobFields \ {"seen"} : i[f] = j[f]
         /\ LET i == [j EXCEPT !.code = x]
            IN  /\ DOMAIN i = JobFields
                /\ i.code = x
                /\ \A f \in JobFields \ {"code"} : i[f] = j[f]
  BY DEF InHand, JobFields

\* After a commit, a conflict or an acceptance the job is as good as before.
LEMMA SeenKeeps ==
  ASSUME NEW j, InHand(j), NEW x, NEW s
  PROVE  LET i == [j EXCEPT !.seen = x]
         IN  /\ InHand(i)
             /\ i.seen = x
             /\ i.asked = j.asked
             /\ GoodUntilMoved(j, s) => GoodUntilMoved(i, s)
             /\ OfferedUntilMoved(j, s) => OfferedUntilMoved(i, s)
             /\ i.action = j.action /\ i.actor = j.actor
             /\ i.certificate = j.certificate
<1> DEFINE i == [j EXCEPT !.seen = x]
<1>1. /\ DOMAIN i = JobFields
      /\ i.seen = x
      /\ i.asked = j.asked
      /\ i.action = j.action /\ i.actor = j.actor
      /\ i.certificate = j.certificate
  BY JobsKept DEF JobFields
<1> HIDE DEF i
<1> QED
  BY <1>1 DEF InHand, GoodUntilMoved, OfferedUntilMoved, i

-----------------------------------------------------------------------------
(***************************************************************************)
(* Every step keeps the host's invariant.                                  *)
(***************************************************************************)

\* A certificate is signed, with the kernel's leave or without.
LEMMA SigningKeeps ==
  ASSUME HostHypotheses, IInv, HostInv, NEW w \in Workers, NEW actor \in ActorIds,
         NEW p \in Offers(state), Certify(w, actor, p) \/ Forge(w, actor, p)
  PROVE  HostInv'
<1>1. Proposable(p) /\ ActionFits(p) /\ TypeOK
  BY OffersProposable, ProposalsFit DEF HostHypotheses, IInv
<1>2. CASE Certify(w, actor, p)
  <2> DEFINE d == PortVerify(state, p, actor)
             c == PortIssue(state, p, actor, d.obligations, Config.broker_secret)
             j == NewJob(p, actor, c, TRUE)
  <2>1. Become(w, "certified", j) /\ UNCHANGED vars /\ is_allow(d)
    BY <1>2 DEF Certify
  <2>2. /\ Allowed(state, p, actor)
        /\ obligations_value(d.obligations) = ObligationsForAction(state, p)
    BY <1>1, <2>1, DecisionAgrees DEF HostHypotheses
  <2> HIDE DEF d
  <2>3. /\ DOMAIN j = JobFields
        /\ j.action = p /\ j.actor = actor /\ j.certificate = c
    BY DEF NewJob, JobFields
  <2> HIDE DEF j
  <2>4. GoodUntilMoved(j, state)
    BY <1>1, <2>2, <2>3, IssuedIsGood
  <2>5. InHand(j)
    BY <1>1, <2>3 DEF InHand
  <2>6. OfferedUntilMoved(j, state)
    BY <1>1, <2>3, IssuedIsOffered DEF HostHypotheses
  <2> QED
    BY <2>1, <2>4, <2>5, <2>6, BecomeKeeps DEF WorkerOK, Statuses
<1>3. CASE Forge(w, actor, p)
  <2> DEFINE c == PortIssue(state, p, actor, ClaimedObligations(state, p),
                            Config.broker_secret)
             j == NewJob(p, actor, c, FALSE)
  <2>1. Become(w, "certified", j) /\ UNCHANGED vars
    BY <1>3 DEF Forge
  <2>2. InHand(j) /\ j.asked = FALSE /\ j.action = p /\ j.certificate = c
    BY <1>1 DEF InHand, NewJob, JobFields
  <2> HIDE DEF j
  <2>3. OfferedUntilMoved(j, state)
    BY <1>1, <2>2, IssuedIsOffered DEF HostHypotheses
  <2> QED
    BY <2>1, <2>2, <2>3, BecomeKeeps DEF WorkerOK, Statuses
<1> QED
  BY <1>2, <1>3

\* A certificate is copied or dropped.
LEMMA HandlingKeeps ==
  ASSUME HostInv, NEW w \in Workers, (\E from \in Workers : Copy(w, from)) \/ Drop(w)
  PROVE  HostInv'
<1>1. ASSUME NEW from \in Workers, Copy(w, from)
      PROVE  HostInv'
  <2>1. WorkerOK("certified", job[from], state)
    BY <1>1 DEF Copy, HostInv
  <2> QED
    BY <1>1, <2>1, BecomeKeeps DEF Copy
<1>2. CASE Drop(w)
  <2>1. WorkerOK("idle", Null, state)
    BY DEF WorkerOK, Statuses
  <2> QED
    BY <1>2, <2>1, BecomeKeeps DEF Drop
<1> QED
  BY <1>1, <1>2

\* A certificate is accepted, refused, or meets a conflict.
LEMMA JudgingKeeps ==
  ASSUME HostHypotheses, IInv, HostInv, NEW w \in Workers,
         Accept(w) \/ Refuse(w) \/ Conflict(w)
  PROVE  HostInv'
<1> DEFINE j == job[w]
<1>1. /\ WorkerOK(pc[w], j, state)
      /\ TypeOK
      /\ DOMAIN state = StateFields /\ state.sequence \in Nat
  BY DEF HostInv, IInv, TypeOK
<1>2. InHand(j)
  BY <1>1 DEF WorkerOK, Accept, Refuse, Conflict
<1>3. CASE Accept(w)
  <2> DEFINE i == [j EXCEPT !.seen = state]
  <2>1. /\ pc[w] = "certified"
        /\ PortExecute(state, j.action, j.actor, j.certificate).ok
        /\ Become(w, "accepted", i) /\ UNCHANGED vars
    BY <1>3 DEF Accept, Accepted
  <2>2. /\ InHand(i)
        /\ i.seen = state
        /\ i.asked = j.asked
        /\ GoodUntilMoved(j, state) => GoodUntilMoved(i, state)
        /\ OfferedUntilMoved(j, state) => OfferedUntilMoved(i, state)
        /\ i.action = j.action /\ i.actor = j.actor
        /\ i.certificate = j.certificate
    BY <1>2, SeenKeeps
  <2> HIDE DEF i
  <2>3. SeenBefore(i, state)
    BY <1>1, <2>1, <2>2 DEF SeenBefore
  <2>4. WorkerOK("accepted", i, state)
    BY <1>1, <2>1, <2>2, <2>3 DEF WorkerOK, Statuses
  <2> QED
    BY <2>1, <2>4, BecomeKeeps
<1>4. CASE Refuse(w)
  <2> DEFINE x == PortExecute(state, j.action, j.actor, j.certificate).code
             i == [j EXCEPT !.code = x]
  <2>1. /\ pc[w] = "certified"
        /\ ~PortExecute(state, j.action, j.actor, j.certificate).ok
        /\ Become(w, "refused", i) /\ UNCHANGED vars
    BY <1>4 DEF Refuse, Accepted
  <2>2. j.asked => x = "CERTIFICATE_STATE_MISMATCH"
    BY <1>1, <1>2, <2>1, RefusedAsMoved DEF WorkerOK
  <2> HIDE DEF x
  <2>3. /\ DOMAIN i = JobFields
        /\ i.code = x
        /\ i.asked = j.asked /\ i.action = j.action /\ i.actor = j.actor
        /\ i.certificate = j.certificate
    BY <1>2, JobsKept DEF JobFields
  <2> HIDE DEF i
  <2>4. OfferedUntilMoved(i, state)
    BY <1>1, <2>1, <2>3 DEF WorkerOK, OfferedUntilMoved
  <2>5. WorkerOK("refused", i, state)
    BY <1>2, <2>2, <2>3, <2>4 DEF WorkerOK, Statuses, InHand
  <2> QED
    BY <2>1, <2>5, BecomeKeeps
<1>5. CASE Conflict(w)
  <2> DEFINE i == [j EXCEPT !.seen = Null]
  <2>1. /\ pc[w] = "accepted"
        /\ Become(w, "certified", i) /\ UNCHANGED vars
    BY <1>5 DEF Conflict
  <2>2. /\ InHand(i)
        /\ i.asked = j.asked
        /\ GoodUntilMoved(j, state) => GoodUntilMoved(i, state)
        /\ OfferedUntilMoved(j, state) => OfferedUntilMoved(i, state)
    BY <1>2, SeenKeeps
  <2> HIDE DEF i
  <2>3. WorkerOK("certified", i, state)
    BY <1>1, <2>1, <2>2 DEF WorkerOK, Statuses
  <2> QED
    BY <2>1, <2>3, BecomeKeeps
<1> QED
  BY <1>3, <1>4, <1>5

\* A commit moves the state on, for its own worker and for all others.
LEMMA CommittingKeeps ==
  ASSUME HostHypotheses, IInv, HostInv, NEW w \in Workers, HostCommit(w)
  PROVE  HostInv' /\ Next
<1> DEFINE j == job[w]
           i == [j EXCEPT !.seen = Null]
<1>1. Commit(j.action, j.actor) /\ j.action \in Offers(state)
  BY HostCommits
<1>2. /\ pc[w] = "accepted"
      /\ Become(w, "certified", i)
      /\ WorkerOK(pc[w], j, state)
  BY DEF HostCommit, HostInv
<1>3. InHand(j)
  BY <1>2 DEF WorkerOK
<1>4. Next
  BY <1>1, <1>3, OfferCommits DEF InHand
<1>5. state'.sequence = state.sequence + 1 /\ state.sequence \in Nat
  <2>1. ActionFits(j.action)
    BY <1>3, ProposalsFit DEF InHand, HostHypotheses
  <2>2. /\ DOMAIN ExecutionState(state, j.action, j.actor) = StateFields
        /\ ExecutionState(state, j.action, j.actor).sequence = state.sequence + 1
    BY <2>1, ExecutionSteps DEF ActionFits, IInv, TypeOK
  <2> QED
    BY <1>1, <2>2, CommitEffect DEF StateFields, IInv, TypeOK
<1>6. /\ InHand(i)
      /\ i.asked = j.asked
      /\ GoodUntilMoved(j, state) => GoodUntilMoved(i, state)
      /\ OfferedUntilMoved(j, state) => OfferedUntilMoved(i, state)
  BY <1>3, SeenKeeps
<1>7. /\ DOMAIN pc' = Workers /\ DOMAIN job' = Workers
      /\ pc'[w] = "certified" /\ job'[w] = i
      /\ \A v \in Workers \ {w} : pc'[v] = pc[v] /\ job'[v] = job[v]
  BY <1>2 DEF Become, HostInv
<1> HIDE DEF i
<1>8. WorkerOK("certified", i, state)
  BY <1>2, <1>6 DEF WorkerOK, Statuses
<1>9. WorkerOK("certified", i, state')
  BY <1>5, <1>8, MovingKeeps
<1>10. \A v \in Workers \ {w} : WorkerOK(pc[v], job[v], state')
  BY <1>5, MovingKeeps DEF HostInv
<1> QED
  BY <1>4, <1>7, <1>9, <1>10 DEF HostInv

\* Every step of the host keeps the invariant and is a step of the lineage, or
\* leaves it alone.
LEMMA HostSteps ==
  ASSUME HostHypotheses, IInv, HostInv, [HostNext]_hostVars
  PROVE  HostInv' /\ [Next]_vars
<1>1. CASE UNCHANGED hostVars
  BY <1>1 DEF hostVars, vars, HostInv
<1>2. ASSUME NEW w \in Workers, NEW actor \in ActorIds, NEW p \in Offers(state),
             Certify(w, actor, p) \/ Forge(w, actor, p)
      PROVE  HostInv' /\ [Next]_vars
  BY <1>2, SigningKeeps DEF Certify, Forge
<1>3. ASSUME NEW w \in Workers, (\E from \in Workers : Copy(w, from)) \/ Drop(w)
      PROVE  HostInv' /\ [Next]_vars
  BY <1>3, HandlingKeeps DEF Copy, Drop
<1>4. ASSUME NEW w \in Workers, Accept(w) \/ Refuse(w) \/ Conflict(w)
      PROVE  HostInv' /\ [Next]_vars
  BY <1>4, JudgingKeeps DEF Accept, Refuse, Conflict
<1>5. ASSUME NEW w \in Workers, HostCommit(w)
      PROVE  HostInv' /\ [Next]_vars
  BY <1>5, CommittingKeeps
<1> QED
  BY <1>1, <1>2, <1>3, <1>4, <1>5 DEF HostNext

\* The invariants of the host and of the lineage hold together.
LEMMA HostInvariant ==
  ASSUME HostHypotheses
  PROVE  HostSpec => [](IInv /\ HostInv)
<1>1. HostInit => IInv /\ HostInv
  BY InitIInv, InitHostInv DEF HostInit
<1>2. IInv /\ HostInv /\ [HostNext]_hostVars => IInv' /\ HostInv'
  BY HostSteps, NextIInv
<1> QED
  BY <1>1, <1>2, PTL DEF HostSpec

-----------------------------------------------------------------------------
(***************************************************************************)
(* The theorems.                                                           *)
(***************************************************************************)

\* The host's states and receipts are those of one lineage of the engine,
\* whatever is copied, delayed, tried again or signed unasked.
THEOREM HostRefinesEngine ==
  ASSUME HostHypotheses
  PROVE  HostSpec => ImplementsEngine
<1>1. HostInit => Init
  BY DEF HostInit
<1> QED
  BY <1>1, HostSteps, HostInvariant, PTL DEF HostSpec, Spec, ImplementsEngine

\* What a lineage promises holds of a host built on the port, whatever becomes
\* of its certificates.
THEOREM HostIsSafe ==
  ASSUME HostHypotheses
  PROVE  HostSpec => []LineageSafety /\ ApprovalIsFinal
  BY HostRefinesEngine, LineagesAreSafe, ApprovalsAreFinal, PTL DEF ImplementsEngine

\* The host implements the authority, which knows of no certificates.
THEOREM HostImplementsAuthority ==
  ASSUME HostHypotheses
  PROVE  HostSpec => ImplementsAuthority
  BY HostRefinesEngine, EngineImplementsAuthority, PTL DEF ImplementsEngine

\* A certificate is good for one receipt, however often it was accepted.
THEOREM CertificatesSpentOnce ==
  ASSUME HostHypotheses
  PROVE  HostSpec => []OneReceiptPerCertificate
<1>1. ASSUME IInv, ReceiptsInOrder
      PROVE  OneReceiptPerCertificate
  <2>1. DOMAIN receipts \subseteq Int
    BY <1>1 DEF IInv, TypeOK
  <2>2. ASSUME NEW i \in DOMAIN receipts, NEW k \in DOMAIN receipts,
               receipts[i].payload.certificate_hash = receipts[k].payload.certificate_hash
        PROVE  i = k
    <3>1. receipts[i].payload.prior_state_hash = receipts[k].payload.prior_state_hash
      BY <1>1, <2>2 DEF ReceiptsInOrder
    <3>2. i - 1 = k - 1
      BY <1>1, <3>1 DEF ReceiptsInOrder
    <3> QED
      BY <2>1, <3>2
  <2> QED
    BY <2>2 DEF OneReceiptPerCertificate
<1> QED
  BY <1>1, HostRefinesEngine, SpecIInv, ReceiptsOrdered, PTL DEF ImplementsEngine

\* Who asked the kernel is refused only because the state has moved.
THEOREM AskersRefusedOnlyAsStale ==
  ASSUME HostHypotheses
  PROVE  HostSpec => []RefusedOnlyAsStale
<1>1. HostInv => RefusedOnlyAsStale
  BY DEF HostInv, WorkerOK, RefusedOnlyAsStale
<1> QED
  BY <1>1, HostInvariant, PTL

-----------------------------------------------------------------------------
(***************************************************************************)
(* The ports among themselves.  Each rule of the Python and of the         *)
(* JavaScript kernel is compared with the Rust port's, in the states the   *)
(* engine reaches.                                                         *)
(***************************************************************************)

\* A text is on the same side of every limit the kernel compares its length
\* with, whether it is counted in bytes, code points or UTF-16 units.
MeasuredAlike ==
  LET shortest == Config.policy.min_nonce_length
      longest  == Config.policy.max_draft_chars
  IN
  /\ \A x \in Nonces :
       /\ CodePoints(x) < shortest <=> TextLen(x) < shortest
       /\ Utf16Units(x) < shortest <=> TextLen(x) < shortest
  /\ \A x \in Bodies :
       /\ CodePoints(x) = 0 <=> TextLen(x) = 0
       /\ Utf16Units(x) = 0 <=> TextLen(x) = 0
       /\ CodePoints(x) > longest <=> TextLen(x) > longest
       /\ Utf16Units(x) > longest <=> TextLen(x) > longest

\* Python's None and JavaScript's null are no denial.
NoneIsNoDenial == \A code : Python!deny(code) # Null

\* What an offer holds that is measured.
LEMMA MeasuredTexts ==
  ASSUME NEW p, Proposable(p)
  PROVE  /\ p.nonce \in Nonces
         /\ p.t = "create_draft" => p.body \in Bodies
  BY DEF Proposable, ReadProposals, CreateProposals, ApproveProposals, SubmitProposals,
     PostProposals

\* The limits a port reads are those of the policy.
LEMMA LimitsKept ==
  ASSUME Portable
  PROVE  /\ PortPolicy.min_nonce_length = Config.policy.min_nonce_length
         /\ PortPolicy.max_draft_chars = Config.policy.max_draft_chars
  BY PolicyKept DEF PortPolicy, Portable

\* The Rust port's decisions as answers.
LEMMA RustAnswers ==
  /\ \A code : RustAnswered(deny(code)) = Python!deny(code)
  /\ \A os : RustAnswered(allow(os)) = Python!allow(obligations_value(os))
<1>1. \A code : RustAnswered(deny(code)) = Python!deny(code)
  BY DecisionCases DEF RustAnswered, deny, Python!deny
<1>2. \A os : RustAnswered(allow(os)) = Python!allow(obligations_value(os))
  BY DecisionCases DEF RustAnswered, allow, Python!allow
<1> QED
  BY <1>1, <1>2

\* Python's flow relation.
LEMMA PythonFlows ==
  ASSUME NEW l, NEW m
  PROVE  Python!flows_to(l, m) <=> flows_to(l, m)
<1>1. \A kind : Python!rank(kind) = rank(kind)
  BY Zenon DEF Python!rank, rank
<1>2. Python!contains_all(m.compartments, l.compartments)
        <=> contains_all(m.compartments, l.compartments)
  BY DEF Python!contains_all, contains_all
<1>3. /\ Python!valid(l) <=> valid(l)
      /\ Python!valid(m) <=> valid(m)
  BY <1>1 DEF Python!valid, valid
<1>4. rank("public") = 0 /\ rank("internal") = 1 /\ rank("customer") = 2 /\ rank("secret") = 3
  BY DEF rank
<1>5. valid(l) => l.kind \in {"public", "internal", "customer", "secret"}
  BY DEF valid, rank
<1> QED
  BY <1>1, <1>2, <1>3, <1>5 DEF Python!flows_to, flows_to

\* Python's hash of a state.
LEMMA PythonHashes ==
  ASSUME NEW s
  PROVE  Python!hash_state(s) = hash_state(s)
<1>1. \A l : Python!label_dict(l) = label_value(l)
  BY DEF Python!label_dict, label_value
<1>2. \A i : Python!invoice_dict(i) = invoice_value(i)
  BY <1>1 DEF Python!invoice_dict, invoice_value
<1>3. \A d : Python!draft_dict(d) = draft_value(d)
  BY <1>1 DEF Python!draft_dict, draft_value, Python!delivery_dict, delivery_value
<1>4. /\ \A t : Python!thread_dict(t) = thread_value(t)
      /\ \A a : Python!approval_dict(a) = approval_value(a)
      /\ \A c : Python!counters_dict(c) = counters_value(c)
  BY DEF Python!thread_dict, thread_value, Python!approval_dict, approval_value,
     Python!counters_dict, counters_value
<1>5. Python!to_dict_for_hashing(s) = value_for_hashing(s)
  BY <1>2, <1>3, <1>4 DEF Python!to_dict_for_hashing, value_for_hashing
<1> QED
  BY <1>5 DEF Python!hash_state, hash_state, Python!TaggedDigest, TaggedDigest

\* Python's rules for every action: no rule denies, or the same one.
LEMMA PythonCommons ==
  ASSUME Portable, NoneIsNone, NoneIsNoDenial, MeasuredAlike, TypeOK,
         NEW p, NEW actor, Proposable(p), ActionFits(p)
  PROVE  LET s == AsState(state)
             rust == common_checks(s, AsAction(p), actor, PortCaps, PortPolicy)
             python == Python!common_checks(s, p, actor, PortCaps, PortPolicy)
         IN  \/ rust = Null /\ python = Null
             \/ \E code : rust = deny(code) /\ python = Python!deny(code)
<1> DEFINE s == AsState(state)
           a == AsAction(p)
<1>1. /\ a.nonce = p.nonce
      /\ a.expected_state_hash = p.expected_state_hash
      /\ type_tag(a) = p.t
  BY VariantKeeps, ActionsAgree DEF ActionFits, ActionFields, Tags
<1>2. CodePoints(p.nonce) < PortPolicy.min_nonce_length
        <=> TextLen(p.nonce) < PortPolicy.min_nonce_length
  BY LimitsKept, MeasuredTexts DEF MeasuredAlike
<1>3. operation_allowed(PortCaps, actor, p.t)
        <=> Python!operation_allowed(PortCaps, actor, p.t)
  BY DEF operation_allowed, Python!operation_allowed
<1>4. Python!hash_state(s) = hash_state(s)
  BY PythonHashes
<1>5. nonce_consumed(s, p.nonce) <=> Python!nonce_consumed(s, p.nonce)
  BY DEF nonce_consumed, Python!nonce_consumed
<1> HIDE DEF s, a
<1>6. \/ /\ common_checks(s, a, actor, PortCaps, PortPolicy) = Null
         /\ Python!common_checks(s, p, actor, PortCaps, PortPolicy) = Null
      \/ \E code :
           /\ common_checks(s, a, actor, PortCaps, PortPolicy) = deny(code)
           /\ Python!common_checks(s, p, actor, PortCaps, PortPolicy) = Python!deny(code)
  BY <1>1, <1>2, <1>3, <1>4, <1>5 DEF common_checks, Python!common_checks
<1> QED
  BY <1>6 DEF s, a

\* Python's read_invoice.
LEMMA PythonReads ==
  ASSUME Portable, TypeOK, NEW p, ActionFits(p), p.t = "read_invoice"
  PROVE  Python!verify_read_invoice(AsState(state), p)
           = RustAnswered(verify_read_invoice(AsState(state), AsAction(p)))
<1> DEFINE s == AsState(state)
           a == AsAction(p)
           l == s.invoices[p.invoice_id].label
<1>1. a.invoice_id = p.invoice_id
  BY VariantKeeps DEF ActionFits, ActionFields, Tags
<1>2. has_invoice(s, p.invoice_id) => LabelFits(l)
  BY StateKept DEF TypeOK, Portable, InvoiceFits, has_invoice
<1>3. has_invoice(s, p.invoice_id) <=> Python!has_invoice(s, p.invoice_id)
  BY DEF has_invoice, Python!has_invoice
<1>4. has_invoice(s, p.invoice_id) =>
        obligations_value(obligations_for_read_invoice(l))
          = <<[t |-> "result_label", label |-> l]>>
  BY <1>2, ObligationValues DEF obligations_value, obligations_for_read_invoice
<1> HIDE DEF s, a
<1>5. Python!verify_read_invoice(s, p) = RustAnswered(verify_read_invoice(s, a))
  BY <1>1, <1>3, <1>4, RustAnswers DEF verify_read_invoice, Python!verify_read_invoice
<1> QED
  BY <1>5 DEF s, a

\* Python's create_draft, when the body is measured alike.
LEMMA PythonCreates ==
  ASSUME Portable, MeasuredAlike, TypeOK, NEW p, Proposable(p), ActionFits(p),
         p.t = "create_draft"
  PROVE  Python!verify_create_draft(AsState(state), p, PortPolicy)
           = RustAnswered(verify_create_draft(AsState(state), AsAction(p), PortPolicy))
<1> DEFINE s == AsState(state)
           a == AsAction(p)
<1>1. /\ a.invoice_id = p.invoice_id
      /\ a.thread_id = p.thread_id
      /\ a.customer_id = p.customer_id
      /\ a.body = p.body
      /\ a.body_label = p.body_label
      /\ LabelFits(p.body_label)
  BY VariantKeeps DEF ActionFits, ActionFields, Tags
<1>2. /\ CodePoints(p.body) = 0 <=> TextLen(p.body) = 0
      /\ CodePoints(p.body) > PortPolicy.max_draft_chars
           <=> TextLen(p.body) > PortPolicy.max_draft_chars
  BY LimitsKept, MeasuredTexts DEF MeasuredAlike
<1>3. /\ has_invoice(s, p.invoice_id) <=> Python!has_invoice(s, p.invoice_id)
      /\ has_thread(s, p.thread_id) <=> Python!has_thread(s, p.thread_id)
  BY DEF has_invoice, Python!has_invoice, has_thread, Python!has_thread
<1>4. obligations_value(obligations_for_create_draft(p.customer_id, p.body_label))
        = Python!obligations_for_create_draft(p.customer_id, p.body_label)
  BY <1>1, ObligationValues DEF obligations_value, obligations_for_create_draft,
     Python!obligations_for_create_draft
<1> HIDE DEF s, a
<1>5. Python!verify_create_draft(s, p, PortPolicy)
        = RustAnswered(verify_create_draft(s, a, PortPolicy))
  BY <1>1, <1>2, <1>3, <1>4, PythonFlows, RustAnswers
     DEF verify_create_draft, Python!verify_create_draft
<1> QED
  BY <1>5 DEF s, a

\* Python's approve_draft.
LEMMA PythonApproves ==
  ASSUME NEW s, NEW p, NEW actor, ActionFits(p), p.t = "approve_draft"
  PROVE  Python!verify_approve_draft(s, p, actor, PortCaps, PortPolicy)
           = RustAnswered(verify_approve_draft(s, AsAction(p), actor, PortCaps, PortPolicy))
<1> DEFINE a == AsAction(p)
<1>1. a.draft_hash = p.draft_hash /\ a.approver_id = p.approver_id
  BY VariantKeeps DEF ActionFits, ActionFields, Tags
<1>2. /\ has_draft(s, p.draft_hash) <=> Python!has_draft(s, p.draft_hash)
      /\ has_approval(s, p.draft_hash) <=> Python!has_approval(s, p.draft_hash)
      /\ actor_role(PortCaps, actor) = Python!actor_role(PortCaps, actor)
  BY DEF has_draft, Python!has_draft, has_approval, Python!has_approval, actor_role,
     Python!actor_role
<1>3. obligations_value(obligations_for_approve_draft(p.draft_hash))
        = Python!obligations_for_approve_draft(p.draft_hash)
  BY ObligationValues DEF obligations_value, obligations_for_approve_draft,
     Python!obligations_for_approve_draft
<1> HIDE DEF a
<1>4. Python!verify_approve_draft(s, p, actor, PortCaps, PortPolicy)
        = RustAnswered(verify_approve_draft(s, a, actor, PortCaps, PortPolicy))
  BY <1>1, <1>2, <1>3, RustAnswers DEF verify_approve_draft, Python!verify_approve_draft
<1> QED
  BY <1>4 DEF a

\* Python's submit_draft.
LEMMA PythonSubmits ==
  ASSUME NEW s, NEW p, ActionFits(p), p.t = "submit_draft"
  PROVE  Python!verify_submit_draft(s, p, PortPolicy)
           = RustAnswered(verify_submit_draft(s, AsAction(p), PortPolicy))
<1> DEFINE a == AsAction(p)
           d == s.drafts[p.draft_hash]
<1>1. /\ a.draft_hash = p.draft_hash
      /\ a.recipient = p.recipient
      /\ a.recipient_label = p.recipient_label
  BY VariantKeeps DEF ActionFits, ActionFields, Tags
<1>2. /\ has_draft(s, p.draft_hash) <=> Python!has_draft(s, p.draft_hash)
      /\ has_approval(s, p.draft_hash) <=> Python!has_approval(s, p.draft_hash)
  BY DEF has_draft, Python!has_draft, has_approval, Python!has_approval
<1>3. recipients_ok(PortPolicy, d.customer_id, p.recipient)
        <=> p.recipient \in Python!recipients_of(PortPolicy, d.customer_id)
  BY DEF recipients_ok, Python!recipients_of
<1>4. obligations_value(obligations_for_submit_draft(p.draft_hash, p.recipient))
        = Python!obligations_for_submit_draft(p.draft_hash, p.recipient)
  BY ObligationValues DEF obligations_value, obligations_for_submit_draft,
     Python!obligations_for_submit_draft
<1> HIDE DEF a
<1>5. Python!verify_submit_draft(s, p, PortPolicy)
        = RustAnswered(verify_submit_draft(s, a, PortPolicy))
  BY <1>1, <1>2, <1>3, <1>4, PythonFlows, RustAnswers
     DEF verify_submit_draft, Python!verify_submit_draft
<1> QED
  BY <1>5 DEF a

\* Python's post_to_slack.
LEMMA PythonPosts ==
  ASSUME NEW s, NEW p, ActionFits(p), p.t = "post_to_slack"
  PROVE  Python!verify_post_to_slack(s, p, PortPolicy)
           = RustAnswered(verify_post_to_slack(s, AsAction(p), PortPolicy))
<1> DEFINE a == AsAction(p)
<1>1. /\ a.draft_hash = p.draft_hash
      /\ a.channel_id = p.channel_id
      /\ a.channel_label = p.channel_label
  BY VariantKeeps DEF ActionFits, ActionFields, Tags
<1>2. /\ has_draft(s, p.draft_hash) <=> Python!has_draft(s, p.draft_hash)
      /\ has_approval(s, p.draft_hash) <=> Python!has_approval(s, p.draft_hash)
  BY DEF has_draft, Python!has_draft, has_approval, Python!has_approval
<1>3. obligations_value(obligations_for_post_to_slack(p.draft_hash, p.channel_id))
        = <<[t |-> "post_exact_hash", draft_hash |-> p.draft_hash],
            [t |-> "channel", channel_id |-> p.channel_id]>>
  BY ObligationValues DEF obligations_value, obligations_for_post_to_slack
<1> HIDE DEF a
<1>4. Python!verify_post_to_slack(s, p, PortPolicy)
        = RustAnswered(verify_post_to_slack(s, a, PortPolicy))
  BY <1>1, <1>2, <1>3, PythonFlows, RustAnswers
     DEF verify_post_to_slack, Python!verify_post_to_slack
<1> QED
  BY <1>4 DEF a

\* The rules of an action, by its tag.
LEMMA RustRules ==
  ASSUME NEW p, NEW actor, ActionFits(p)
  PROVE  LET s == AsState(state)
             a == AsAction(p)
             checked == common_checks(s, a, actor, PortCaps, PortPolicy)
             d == PortVerify(state, p, actor)
         IN  /\ checked # Null => d = checked
             /\ checked = Null =>
                  /\ p.t = "read_invoice"  => d = verify_read_invoice(s, a)
                  /\ p.t = "create_draft"  => d = verify_create_draft(s, a, PortPolicy)
                  /\ p.t = "approve_draft" =>
                       d = verify_approve_draft(s, a, actor, PortCaps, PortPolicy)
                  /\ p.t = "submit_draft"  => d = verify_submit_draft(s, a, PortPolicy)
                  /\ p.t = "post_to_slack" => d = verify_post_to_slack(s, a, PortPolicy)
<1> DEFINE s == AsState(state)
           a == AsAction(p)
<1>1. a.variant = Variant(p.t)
  BY VariantKeeps
<1>2. PortVerify(state, p, actor) = policy_verify(s, a, actor, PortCaps, PortPolicy)
  BY DEF PortVerify, PortCaps, PortPolicy
<1> HIDE DEF s, a
<1> QED
  BY <1>1, <1>2 DEF policy_verify, Variant, s, a

\* Python's kernel answers as the Rust port's.
LEMMA PythonAgrees ==
  ASSUME Portable, NoneIsNone, NoneIsNoDenial, MeasuredAlike, TypeOK,
         NEW p, NEW actor, Proposable(p), ActionFits(p)
  PROVE  PythonAnswer(state, p, actor) = RustAnswer(state, p, actor)
<1> DEFINE s == AsState(state)
           a == AsAction(p)
           d == PortVerify(state, p, actor)
           rust == common_checks(s, a, actor, PortCaps, PortPolicy)
           python == Python!common_checks(s, p, actor, PortCaps, PortPolicy)
           answer == Python!verify(s, p, actor, PortCaps, PortPolicy)
<1>1. answer = PythonAnswer(state, p, actor) /\ RustAnswer(state, p, actor) = RustAnswered(d)
  BY DEF PythonAnswer, RustAnswer, PortCaps, PortPolicy
<1>2. \/ rust = Null /\ python = Null
      \/ \E code : rust = deny(code) /\ python = Python!deny(code)
  BY PythonCommons
<1>3. CASE rust = Null /\ python = Null
  <2>1. p.t \in Tags
    BY DEF ActionFits
  <2>2. CASE p.t = "read_invoice"
    <3>1. d = verify_read_invoice(s, a)
      BY <1>3, <2>2, RustRules
    <3>2. answer = Python!verify_read_invoice(s, p)
      BY <1>3, <2>2 DEF Python!verify
    <3> QED
      BY <1>1, <2>2, <3>1, <3>2, PythonReads
  <2>3. CASE p.t = "create_draft"
    <3>1. d = verify_create_draft(s, a, PortPolicy)
      BY <1>3, <2>3, RustRules
    <3>2. answer = Python!verify_create_draft(s, p, PortPolicy)
      BY <1>3, <2>3 DEF Python!verify
    <3> QED
      BY <1>1, <2>3, <3>1, <3>2, PythonCreates
  <2>4. CASE p.t = "approve_draft"
    <3>1. d = verify_approve_draft(s, a, actor, PortCaps, PortPolicy)
      BY <1>3, <2>4, RustRules
    <3>2. answer = Python!verify_approve_draft(s, p, actor, PortCaps, PortPolicy)
      BY <1>3, <2>4 DEF Python!verify
    <3> QED
      BY <1>1, <2>4, <3>1, <3>2, PythonApproves
  <2>5. CASE p.t = "submit_draft"
    <3>1. d = verify_submit_draft(s, a, PortPolicy)
      BY <1>3, <2>5, RustRules
    <3>2. answer = Python!verify_submit_draft(s, p, PortPolicy)
      BY <1>3, <2>5 DEF Python!verify
    <3> QED
      BY <1>1, <2>5, <3>1, <3>2, PythonSubmits
  <2>6. CASE p.t = "post_to_slack"
    <3>1. d = verify_post_to_slack(s, a, PortPolicy)
      BY <1>3, <2>6, RustRules
    <3>2. answer = Python!verify_post_to_slack(s, p, PortPolicy)
      BY <1>3, <2>6 DEF Python!verify
    <3> QED
      BY <1>1, <2>6, <3>1, <3>2, PythonPosts
  <2> QED
    BY <2>1, <2>2, <2>3, <2>4, <2>5, <2>6 DEF Tags
<1>4. ASSUME NEW code, rust = deny(code), python = Python!deny(code)
      PROVE  answer = RustAnswered(d)
  <2>1. d = deny(code)
    BY <1>4, RustRules DEF NoneIsNone
  <2>2. answer = Python!deny(code)
    BY <1>4 DEF Python!verify, NoneIsNoDenial
  <2> QED
    BY <2>1, <2>2, RustAnswers
<1> QED
  BY <1>1, <1>2, <1>3, <1>4

\* The fields of a label somebody wrote.
LEMMA WrittenLabels ==
  ASSUME NEW l, NEW keys
  PROVE  LET w == AsJavaScriptLabel(l, keys)
         IN  /\ w.kind = l.kind /\ w.owner = l.owner
             /\ w.compartments = l.compartments /\ w.keys = keys
             /\ JavaScript!Encoded(w) = label_value(l)
  BY DEF AsJavaScriptLabel, JavaScript!Encoded, label_value

\* JavaScript's flow relation.
LEMMA JavaScriptFlows ==
  ASSUME NEW l, NEW m, NEW u, NEW w,
         u.kind = l.kind, u.owner = l.owner, u.compartments = l.compartments,
         w.kind = m.kind, w.owner = m.owner, w.compartments = m.compartments
  PROVE  JavaScript!flowsTo(u, w) <=> flows_to(l, m)
<1>1. \A kind : JavaScript!rank(kind) = rank(kind)
  BY Zenon DEF JavaScript!rank, rank
<1>2. JavaScript!containsAll(w.compartments, u.compartments)
        <=> contains_all(m.compartments, l.compartments)
  BY DEF JavaScript!containsAll, contains_all
<1>3. /\ JavaScript!valid(u) <=> valid(l)
      /\ JavaScript!valid(w) <=> valid(m)
  BY <1>1 DEF JavaScript!valid, valid
<1>4. valid(l) => l.kind \in {"public", "internal", "customer", "secret"}
  BY DEF valid, rank
<1> QED
  BY <1>1, <1>2, <1>3, <1>4 DEF JavaScript!flowsTo, flows_to

\* The text of a label keeps the order of its keys, and its values.
LEMMA TextsOfLabels ==
  ASSUME NEW l, LabelFits(l), NEW m, LabelFits(m),
         NEW keys \in [1..3 -> {"kind", "owner", "compartments"}]
  PROVE  JavaScript!Stringify(AsJavaScriptLabel(l, keys)) = JavaScript!Stringify(Constructed(m))
           <=> keys = JavaScript!ConstructorKeys /\ l = m
<1> DEFINE u == AsJavaScriptLabel(l, keys)
           w == Constructed(m)
           made == JavaScript!ConstructorKeys
<1>1. /\ made \in [1..3 -> {"kind", "owner", "compartments"}]
      /\ made[1] = "kind" /\ made[2] = "owner" /\ made[3] = "compartments"
  BY DEF JavaScript!ConstructorKeys
<1>2. /\ JavaScript!Stringify(u) = [i \in 1..3 |-> <<keys[i], u[keys[i]]>>]
      /\ JavaScript!Stringify(w) = [i \in 1..3 |-> <<made[i], w[made[i]]>>]
  BY <1>1, WrittenLabels DEF JavaScript!Stringify, Constructed
<1>3. JavaScript!Stringify(u) = JavaScript!Stringify(w)
        <=> \A i \in 1..3 : keys[i] = made[i] /\ u[keys[i]] = w[made[i]]
  BY <1>2
<1>4. (\A i \in 1..3 : keys[i] = made[i]) <=> keys = made
  BY <1>1
<1>5. /\ u.kind = l.kind /\ u.owner = l.owner /\ u.compartments = l.compartments
      /\ w.kind = m.kind /\ w.owner = m.owner /\ w.compartments = m.compartments
  BY WrittenLabels DEF Constructed
<1>6. l = m <=> l.kind = m.kind /\ l.owner = m.owner /\ l.compartments = m.compartments
  BY DEF LabelFits, HasExactly
<1> HIDE DEF u, w, made
<1>7. keys = made =>
        ((\A i \in 1..3 : u[keys[i]] = w[made[i]])
           <=> u.kind = w.kind /\ u.owner = w.owner /\ u.compartments = w.compartments)
  BY <1>1
<1>8. JavaScript!Stringify(u) = JavaScript!Stringify(w) <=> keys = made /\ l = m
  BY <1>3, <1>4, <1>5, <1>6, <1>7
<1> QED
  BY <1>8 DEF u, w, made

\* JavaScript's hash of a state.
LEMMA JavaScriptHashes ==
  ASSUME NEW s
  PROVE  JavaScript!hashState(AsJavaScriptState(s)) = hash_state(AsState(s))
<1> DEFINE j == AsJavaScriptState(s)
           r == AsState(s)
<1>1. \A l : JavaScript!Encoded(Constructed(l)) = label_value(l)
  BY WrittenLabels DEF Constructed
<1>2. [k \in DOMAIN j.invoices |-> JavaScript!invoiceToValue(j.invoices[k])]
        = [k \in DOMAIN r.invoices |-> invoice_value(r.invoices[k])]
  <2>1. \A i : JavaScript!invoiceToValue(AsJavaScriptInvoice(i)) = invoice_value(i)
    BY <1>1 DEF JavaScript!invoiceToValue, AsJavaScriptInvoice, invoice_value
  <2>2. /\ j.invoices = [k \in DOMAIN s.invoices |-> AsJavaScriptInvoice(s.invoices[k])]
        /\ r.invoices = s.invoices
    BY DEF AsJavaScriptState, AsState
  <2> QED
    BY <2>1, <2>2
<1>3. [k \in DOMAIN j.threads |-> JavaScript!threadToValue(j.threads[k])]
        = [k \in DOMAIN r.threads |-> thread_value(r.threads[k])]
  <2>1. /\ j.threads = [k \in DOMAIN s.threads |->
                          [threadId |-> s.threads[k].thread_id,
                           customerId |-> s.threads[k].customer_id]]
        /\ r.threads = s.threads
    BY DEF AsJavaScriptState, AsState
  <2> QED
    BY <2>1 DEF JavaScript!threadToValue, thread_value
<1>4. [h \in DOMAIN j.drafts |-> JavaScript!draftToValue(j.drafts[h])]
        = [h \in DOMAIN r.drafts |-> draft_value(r.drafts[h])]
  <2>1. \A d : JavaScript!draftToValue(AsJavaScriptDraft(d)) = draft_value(AsDraft(d))
    BY <1>1 DEF JavaScript!draftToValue, AsJavaScriptDraft, draft_value, AsDraft,
       JavaScript!deliveryToValue, delivery_value, AsDelivery
  <2>2. /\ j.drafts = [h \in DOMAIN s.drafts |-> AsJavaScriptDraft(s.drafts[h])]
        /\ r.drafts = [h \in DOMAIN s.drafts |-> AsDraft(s.drafts[h])]
    BY DEF AsJavaScriptState, AsState
  <2> QED
    BY <2>1, <2>2
<1>5. [h \in DOMAIN j.approvals |-> JavaScript!approvalToValue(j.approvals[h])]
        = [h \in DOMAIN r.approvals |-> approval_value(r.approvals[h])]
  <2>1. /\ j.approvals = [h \in DOMAIN s.approvals |->
                            [draftHash |-> s.approvals[h].draft_hash,
                             approverId |-> s.approvals[h].approver_id,
                             sequence |-> s.approvals[h].sequence]]
        /\ r.approvals = s.approvals
    BY DEF AsJavaScriptState, AsState
  <2> QED
    BY <2>1 DEF JavaScript!approvalToValue, approval_value
<1>6. JavaScript!countersToValue(j.counters) = counters_value(r.counters)
  BY DEF AsJavaScriptState, AsState, JavaScript!countersToValue, counters_value
<1>7. /\ j.policyVersion = r.policy_version
      /\ j.sequence = r.sequence
      /\ j.consumedNonces = r.consumed_nonces
      /\ j.submissions = r.submissions
      /\ j.slackPosts = r.slack_posts
  BY DEF AsJavaScriptState, AsState
<1> HIDE DEF j, r
<1>8. JavaScript!stateToValueForHashing(j) = value_for_hashing(r)
  BY <1>2, <1>3, <1>4, <1>5, <1>6, <1>7
     DEF JavaScript!stateToValueForHashing, value_for_hashing
<1> QED
  BY <1>8 DEF JavaScript!hashState, hash_state, JavaScript!TaggedDigest, TaggedDigest, j, r

\* The fields of an action whose label somebody wrote.
LEMMA WrittenActions ==
  ASSUME NEW p, NEW keys, ActionFits(p)
  PROVE  LET j == AsJavaScriptAction(p, keys)
         IN  /\ \A f \in ActionFields[p.t] \ LabelField(p.t) : j[f] = p[f]
             /\ \A f \in LabelField(p.t) : j[f] = AsJavaScriptLabel(p[f], keys)
             /\ j.t = p.t /\ j.nonce = p.nonce
             /\ j.expected_state_hash = p.expected_state_hash
<1>1. DOMAIN p = ActionFields[p.t] /\ p.t \in Tags
  BY DEF ActionFits, HasExactly
<1>2. /\ LabelField(p.t) \subseteq ActionFields[p.t]
      /\ {"t", "nonce", "expected_state_hash"} \subseteq ActionFields[p.t] \ LabelField(p.t)
  BY <1>1 DEF LabelField, ActionFields, Tags
<1> QED
  BY <1>1, <1>2 DEF AsJavaScriptAction

\* JavaScript's decisions as answers.
LEMMA JavaScriptAnswers ==
  /\ \A code : JavaScriptAnswered(JavaScript!deny(code)) = Python!deny(code)
  /\ \A o : JavaScriptAnswered(JavaScript!allow(<<o>>)) = Python!allow(<<EncodedObligation(o)>>)
  /\ \A o, u : JavaScriptAnswered(JavaScript!allow(<<o, u>>))
                 = Python!allow(<<EncodedObligation(o), EncodedObligation(u)>>)
<1>1. \A code : JavaScriptAnswered(JavaScript!deny(code)) = Python!deny(code)
  BY DEF JavaScriptAnswered, JavaScript!deny, Python!deny
<1>2. \A os : JavaScriptAnswered(JavaScript!allow(os))
                = Python!allow([i \in DOMAIN os |-> EncodedObligation(os[i])])
  BY DEF JavaScriptAnswered, JavaScript!allow, Python!allow
<1>3. /\ \A o : [i \in DOMAIN <<o>> |-> EncodedObligation(<<o>>[i])] = <<EncodedObligation(o)>>
      /\ \A o, u : [i \in DOMAIN <<o, u>> |-> EncodedObligation(<<o, u>>[i])]
                     = <<EncodedObligation(o), EncodedObligation(u)>>
  OBVIOUS
<1> QED
  BY <1>1, <1>2, <1>3

\* JavaScript's rules for every action: no rule denies, or the same one.
LEMMA JavaScriptCommons ==
  ASSUME Portable, NoneIsNone, NoneIsNoDenial, MeasuredAlike, TypeOK,
         NEW p, NEW actor, NEW keys, Proposable(p), ActionFits(p)
  PROVE  LET rust == common_checks(AsState(state), AsAction(p), actor, PortCaps, PortPolicy)
             js == JavaScript!commonChecks(
                     AsJavaScriptState(state), AsJavaScriptAction(p, keys), actor,
                     Config.capabilities, AsJavaScriptPolicy(Config.policy))
         IN  \/ rust = Null /\ js = Null
             \/ \E code : rust = deny(code) /\ js = JavaScript!deny(code)
<1> DEFINE s == AsState(state)
           a == AsAction(p)
           z == AsJavaScriptState(state)
           j == AsJavaScriptAction(p, keys)
           caps == Config.capabilities
           pol == AsJavaScriptPolicy(Config.policy)
<1>1. /\ a.nonce = p.nonce /\ a.expected_state_hash = p.expected_state_hash
      /\ type_tag(a) = p.t
      /\ j.nonce = p.nonce /\ j.expected_state_hash = p.expected_state_hash /\ j.t = p.t
  BY VariantKeeps, ActionsAgree, WrittenActions DEF ActionFits, ActionFields, Tags
<1>2. /\ pol.version = PortPolicy.version
      /\ pol.minNonceLength = PortPolicy.min_nonce_length
  <2>1. pol.version = Config.policy.version /\ pol.minNonceLength = Config.policy.min_nonce_length
    BY DEF AsJavaScriptPolicy
  <2> QED
    BY <2>1, PolicyKept DEF PortPolicy, Portable
<1>3. Utf16Units(p.nonce) < PortPolicy.min_nonce_length
        <=> TextLen(p.nonce) < PortPolicy.min_nonce_length
  BY LimitsKept, MeasuredTexts DEF MeasuredAlike
<1>4. operation_allowed(PortCaps, actor, p.t) <=> JavaScript!operationAllowed(caps, actor, p.t)
  BY DEF operation_allowed, JavaScript!operationAllowed, PortCaps, AsCapabilities
<1>5. JavaScript!hashState(z) = hash_state(s)
  BY JavaScriptHashes
<1>6. /\ z.policyVersion = s.policy_version
      /\ nonce_consumed(s, p.nonce) <=> JavaScript!nonceConsumed(z, p.nonce)
  BY DEF nonce_consumed, JavaScript!nonceConsumed, AsState, AsJavaScriptState
<1> HIDE DEF s, a, z, j, pol
<1>7. \/ /\ common_checks(s, a, actor, PortCaps, PortPolicy) = Null
         /\ JavaScript!commonChecks(z, j, actor, caps, pol) = Null
      \/ \E code :
           /\ common_checks(s, a, actor, PortCaps, PortPolicy) = deny(code)
           /\ JavaScript!commonChecks(z, j, actor, caps, pol) = JavaScript!deny(code)
  BY <1>1, <1>2, <1>3, <1>4, <1>5, <1>6 DEF common_checks, JavaScript!commonChecks
<1> QED
  BY <1>7 DEF s, a, z, j, pol

JavaScriptPolicy == AsJavaScriptPolicy(Config.policy)

\* What the JavaScript kernel reads of a draft and of the counters.
LEMMA JavaScriptStateKept ==
  LET z == AsJavaScriptState(state)
      s == AsState(state)
  IN  /\ DOMAIN z.drafts = DOMAIN s.drafts
      /\ DOMAIN z.approvals = DOMAIN s.approvals
      /\ \A h \in DOMAIN s.drafts :
           /\ z.drafts[h].createdBy = s.drafts[h].created_by
           /\ z.drafts[h].customerId = s.drafts[h].customer_id
           /\ z.drafts[h].bodyLabel = Constructed(s.drafts[h].body_label)
           /\ z.drafts[h].deliveries.emailSubmitted = s.drafts[h].deliveries.email_submitted
           /\ z.drafts[h].deliveries.slackPostedChannels
                = s.drafts[h].deliveries.slack_posted_channels
      /\ DOMAIN z.invoices = DOMAIN s.invoices
      /\ \A k \in DOMAIN s.invoices :
           /\ z.invoices[k].customerId = s.invoices[k].customer_id
           /\ z.invoices[k].label = Constructed(s.invoices[k].label)
      /\ DOMAIN z.threads = DOMAIN s.threads
      /\ \A k \in DOMAIN s.threads : z.threads[k].customerId = s.threads[k].customer_id
      /\ z.counters.draftedTotal = s.counters.drafted_total
      /\ z.counters.submittedTotal = s.counters.submitted_total
      /\ z.counters.slackPostedTotal = s.counters.slack_posted_total
<1> DEFINE z == AsJavaScriptState(state)
           s == AsState(state)
<1>1. /\ z.drafts = [h \in DOMAIN state.drafts |-> AsJavaScriptDraft(state.drafts[h])]
      /\ s.drafts = [h \in DOMAIN state.drafts |-> AsDraft(state.drafts[h])]
  BY DEF AsJavaScriptState, AsState
<1>2. \A d :
        LET k == AsJavaScriptDraft(d)
            r == AsDraft(d)
        IN  /\ k.createdBy = r.created_by
            /\ k.customerId = r.customer_id
            /\ k.bodyLabel = Constructed(r.body_label)
            /\ k.deliveries.emailSubmitted = r.deliveries.email_submitted
            /\ k.deliveries.slackPostedChannels = r.deliveries.slack_posted_channels
  BY DEF AsJavaScriptDraft, AsDraft, AsDelivery
<1>3. /\ DOMAIN z.approvals = DOMAIN s.approvals
      /\ DOMAIN z.invoices = DOMAIN s.invoices
      /\ DOMAIN z.threads = DOMAIN s.threads
      /\ \A k \in DOMAIN s.invoices : z.invoices[k] = AsJavaScriptInvoice(s.invoices[k])
      /\ \A k \in DOMAIN s.threads : z.threads[k].customerId = s.threads[k].customer_id
      /\ z.counters.draftedTotal = s.counters.drafted_total
      /\ z.counters.submittedTotal = s.counters.submitted_total
      /\ z.counters.slackPostedTotal = s.counters.slack_posted_total
  BY DEF AsJavaScriptState, AsState
<1>4. \A i : /\ AsJavaScriptInvoice(i).customerId = i.customer_id
             /\ AsJavaScriptInvoice(i).label = Constructed(i.label)
  BY DEF AsJavaScriptInvoice
<1> HIDE DEF z, s
<1>5. /\ DOMAIN z.drafts = DOMAIN s.drafts
      /\ \A h \in DOMAIN s.drafts :
           /\ z.drafts[h].createdBy = s.drafts[h].created_by
           /\ z.drafts[h].customerId = s.drafts[h].customer_id
           /\ z.drafts[h].bodyLabel = Constructed(s.drafts[h].body_label)
           /\ z.drafts[h].deliveries.emailSubmitted = s.drafts[h].deliveries.email_submitted
           /\ z.drafts[h].deliveries.slackPostedChannels
                = s.drafts[h].deliveries.slack_posted_channels
  BY <1>1, <1>2
<1>6. \A k \in DOMAIN s.invoices :
        /\ z.invoices[k].customerId = s.invoices[k].customer_id
        /\ z.invoices[k].label = Constructed(s.invoices[k].label)
  BY <1>3, <1>4
<1> QED
  BY <1>3, <1>5, <1>6 DEF z, s

\* The policy the JavaScript kernel reads.
LEMMA JavaScriptPolicyKept ==
  ASSUME Portable
  PROVE  LET channels == PortPolicy.approved_slack_channels IN
         /\ JavaScriptPolicy.maxDraftChars = PortPolicy.max_draft_chars
         /\ JavaScriptPolicy.maxTotalDrafts = PortPolicy.max_total_drafts
         /\ JavaScriptPolicy.maxTotalSubmissions = PortPolicy.max_total_submissions
         /\ JavaScript!slackLimit(JavaScriptPolicy) = PortPolicy.max_total_slack_posts
         /\ JavaScriptPolicy.approverRole = PortPolicy.approver_role
         /\ JavaScriptPolicy.requireSeparationOfDuties = PortPolicy.require_separation_of_duties
         /\ JavaScriptPolicy.approvedRecipients = PortPolicy.approved_recipients
         /\ DOMAIN JavaScript!channelsOf(JavaScriptPolicy) = DOMAIN channels
         /\ \A ch \in DOMAIN channels :
              /\ JavaScript!channelsOf(JavaScriptPolicy)[ch] = Constructed(channels[ch])
              /\ LabelFits(channels[ch])
<1> DEFINE pol == Config.policy
<1>1. /\ PolicyFits(pol)
      /\ \A f \in DOMAIN pol \ {"approved_slack_channels"} : PortPolicy[f] = pol[f]
      /\ PortPolicy.approved_slack_channels
           = [ch \in DOMAIN pol.approved_slack_channels |-> pol.approved_slack_channels[ch].label]
  BY PolicyKept DEF PortPolicy, Portable
<1>2. DOMAIN pol = {"version", "min_nonce_length", "max_draft_chars", "max_total_drafts",
                    "max_total_submissions", "approver_role", "require_separation_of_duties",
                    "approved_recipients", "approved_slack_channels", "max_total_slack_posts"}
  BY <1>1 DEF PolicyFits, HasExactly
<1>3. /\ JavaScript!slackLimit(JavaScriptPolicy) = pol.max_total_slack_posts
      /\ JavaScript!channelsOf(JavaScriptPolicy)
           = [ch \in DOMAIN pol.approved_slack_channels |->
                Constructed(pol.approved_slack_channels[ch].label)]
  BY DEF JavaScriptPolicy, AsJavaScriptPolicy, JavaScript!slackLimit, JavaScript!channelsOf
<1>4. /\ JavaScriptPolicy.maxDraftChars = pol.max_draft_chars
      /\ JavaScriptPolicy.maxTotalDrafts = pol.max_total_drafts
      /\ JavaScriptPolicy.maxTotalSubmissions = pol.max_total_submissions
      /\ JavaScriptPolicy.approverRole = pol.approver_role
      /\ JavaScriptPolicy.requireSeparationOfDuties = pol.require_separation_of_duties
      /\ JavaScriptPolicy.approvedRecipients = pol.approved_recipients
  BY DEF JavaScriptPolicy, AsJavaScriptPolicy
<1>5. \A ch \in DOMAIN pol.approved_slack_channels :
        LabelFits(pol.approved_slack_channels[ch].label)
  BY <1>1 DEF PolicyFits
<1>6. /\ PortPolicy.max_draft_chars = pol.max_draft_chars
      /\ PortPolicy.max_total_drafts = pol.max_total_drafts
      /\ PortPolicy.max_total_submissions = pol.max_total_submissions
      /\ PortPolicy.max_total_slack_posts = pol.max_total_slack_posts
      /\ PortPolicy.approver_role = pol.approver_role
      /\ PortPolicy.require_separation_of_duties = pol.require_separation_of_duties
      /\ PortPolicy.approved_recipients = pol.approved_recipients
  BY <1>1, <1>2
<1> QED
  BY <1>1, <1>3, <1>4, <1>5, <1>6

\* JavaScript's read_invoice.
LEMMA JavaScriptReads ==
  ASSUME Portable, TypeOK, NEW p, NEW keys, ActionFits(p), p.t = "read_invoice"
  PROVE  JavaScriptAnswered(JavaScript!verifyReadInvoice(AsJavaScriptState(state),
                                                         AsJavaScriptAction(p, keys)))
           = RustAnswered(verify_read_invoice(AsState(state), AsAction(p)))
<1> DEFINE s == AsState(state)
           a == AsAction(p)
           z == AsJavaScriptState(state)
           j == AsJavaScriptAction(p, keys)
           l == s.invoices[p.invoice_id].label
           o == [t |-> "result_label", label |-> Constructed(l)]
<1>1. a.invoice_id = p.invoice_id /\ j.invoice_id = p.invoice_id
  BY VariantKeeps, WrittenActions DEF ActionFits, ActionFields, Tags, LabelField
<1>2. has_invoice(s, p.invoice_id) => LabelFits(l)
  BY StateKept DEF TypeOK, Portable, InvoiceFits, has_invoice
<1>3. /\ has_invoice(s, p.invoice_id) <=> JavaScript!hasInvoice(z, p.invoice_id)
      /\ has_invoice(s, p.invoice_id) => z.invoices[p.invoice_id].label = Constructed(l)
  BY JavaScriptStateKept DEF has_invoice, JavaScript!hasInvoice
<1>4. has_invoice(s, p.invoice_id) =>
        obligations_value(obligations_for_read_invoice(l)) = <<EncodedObligation(o)>>
  <2>1. EncodedObligation(o) = [t |-> "result_label", label |-> label_value(l)]
    BY WrittenLabels DEF EncodedObligation, Constructed
  <2> HIDE DEF o
  <2> QED
    BY <1>2, <2>1, ObligationValues, LabelsAgree
       DEF obligations_value, obligations_for_read_invoice
<1> HIDE DEF s, a, z, j, l
<1>5. JavaScriptAnswered(JavaScript!verifyReadInvoice(z, j)) = RustAnswered(verify_read_invoice(s, a))
  <2>1. CASE has_invoice(s, p.invoice_id)
    <3>1. JavaScript!verifyReadInvoice(z, j) = JavaScript!allow(<<o>>)
      BY <1>1, <1>3, <2>1 DEF JavaScript!verifyReadInvoice
    <3>2. verify_read_invoice(s, a) = allow(obligations_for_read_invoice(l))
      BY <1>1, <2>1 DEF verify_read_invoice, l
    <3> HIDE DEF o
    <3> QED
      BY <1>4, <2>1, <3>1, <3>2, RustAnswers, JavaScriptAnswers
  <2>2. CASE ~has_invoice(s, p.invoice_id)
    BY <1>1, <1>3, <2>2, RustAnswers, JavaScriptAnswers
       DEF verify_read_invoice, JavaScript!verifyReadInvoice
  <2> QED
    BY <2>1, <2>2
<1> QED
  BY <1>5 DEF s, a, z, j

\* JavaScript's create_draft, when the body is measured alike.
LEMMA JavaScriptCreates ==
  ASSUME Portable, MeasuredAlike, TypeOK, NEW p, NEW keys, Proposable(p), ActionFits(p),
         p.t = "create_draft"
  PROVE  JavaScriptAnswered(JavaScript!verifyCreateDraft(
             AsJavaScriptState(state), AsJavaScriptAction(p, keys), JavaScriptPolicy))
           = RustAnswered(verify_create_draft(AsState(state), AsAction(p), PortPolicy))
<1> DEFINE s == AsState(state)
           a == AsAction(p)
           z == AsJavaScriptState(state)
           j == AsJavaScriptAction(p, keys)
           w == AsJavaScriptLabel(p.body_label, keys)
           invoice == s.invoices[p.invoice_id]
<1>1. /\ a.invoice_id = p.invoice_id /\ a.thread_id = p.thread_id
      /\ a.customer_id = p.customer_id
      /\ a.body = p.body /\ a.body_label = p.body_label
      /\ LabelFits(p.body_label)
  BY VariantKeeps DEF ActionFits, ActionFields, Tags
<1>2. /\ j.invoice_id = p.invoice_id /\ j.thread_id = p.thread_id
      /\ j.customer_id = p.customer_id
      /\ j.body = p.body /\ j.body_label = w
  BY WrittenActions DEF ActionFits, ActionFields, Tags, LabelField
<1>3. /\ Utf16Units(p.body) = 0 <=> TextLen(p.body) = 0
      /\ Utf16Units(p.body) > PortPolicy.max_draft_chars
           <=> TextLen(p.body) > PortPolicy.max_draft_chars
  BY LimitsKept, MeasuredTexts DEF MeasuredAlike
<1>4. /\ has_invoice(s, p.invoice_id) <=> JavaScript!hasInvoice(z, p.invoice_id)
      /\ has_thread(s, p.thread_id) <=> JavaScript!hasThread(z, p.thread_id)
      /\ has_invoice(s, p.invoice_id) =>
           /\ z.invoices[p.invoice_id].customerId = invoice.customer_id
           /\ z.invoices[p.invoice_id].label = Constructed(invoice.label)
      /\ has_thread(s, p.thread_id) =>
           z.threads[p.thread_id].customerId = s.threads[p.thread_id].customer_id
      /\ z.counters.draftedTotal = s.counters.drafted_total
  BY JavaScriptStateKept
     DEF has_invoice, JavaScript!hasInvoice, has_thread, JavaScript!hasThread
<1>5. /\ w.kind = p.body_label.kind /\ w.owner = p.body_label.owner
      /\ JavaScript!flowsTo(Constructed(invoice.label), w)
           <=> flows_to(invoice.label, p.body_label)
  BY WrittenLabels, JavaScriptFlows DEF Constructed
<1>6. /\ JavaScriptPolicy.maxDraftChars = PortPolicy.max_draft_chars
      /\ JavaScriptPolicy.maxTotalDrafts = PortPolicy.max_total_drafts
  BY JavaScriptPolicyKept
<1>7. JavaScriptAnswered(JavaScript!allow(JavaScript!obligationsForCreateDraft(p.customer_id, w)))
        = RustAnswered(allow(obligations_for_create_draft(p.customer_id, p.body_label)))
  <2>1. /\ EncodedObligation([t |-> "body_label", label |-> w])
             = [t |-> "body_label", label |-> label_value(p.body_label)]
        /\ EncodedObligation([t |-> "bind_customer", customer_id |-> p.customer_id])
             = [t |-> "bind_customer", customer_id |-> p.customer_id]
    BY WrittenLabels DEF EncodedObligation
  <2>2. obligations_value(obligations_for_create_draft(p.customer_id, p.body_label))
          = <<[t |-> "bind_customer", customer_id |-> p.customer_id],
              [t |-> "body_label", label |-> p.body_label]>>
    BY <1>1, ObligationValues DEF obligations_value, obligations_for_create_draft
  <2> QED
    BY <1>1, <2>1, <2>2, LabelsAgree, RustAnswers, JavaScriptAnswers
       DEF JavaScript!obligationsForCreateDraft
<1> HIDE DEF s, a, z, j, w
<1>8. JavaScriptAnswered(JavaScript!verifyCreateDraft(z, j, JavaScriptPolicy))
        = RustAnswered(verify_create_draft(s, a, PortPolicy))
  BY <1>1, <1>2, <1>3, <1>4, <1>5, <1>6, <1>7, RustAnswers, JavaScriptAnswers
     DEF verify_create_draft, JavaScript!verifyCreateDraft
<1> QED
  BY <1>8 DEF s, a, z, j

\* JavaScript's approve_draft.
LEMMA JavaScriptApproves ==
  ASSUME Portable, NEW p, NEW actor, NEW keys, ActionFits(p), p.t = "approve_draft"
  PROVE  JavaScriptAnswered(JavaScript!verifyApproveDraft(
             AsJavaScriptState(state), AsJavaScriptAction(p, keys), actor,
             Config.capabilities, JavaScriptPolicy))
           = RustAnswered(verify_approve_draft(AsState(state), AsAction(p), actor, PortCaps,
                                               PortPolicy))
<1> DEFINE s == AsState(state)
           a == AsAction(p)
           z == AsJavaScriptState(state)
           j == AsJavaScriptAction(p, keys)
           caps == Config.capabilities
<1>1. /\ a.draft_hash = p.draft_hash /\ a.approver_id = p.approver_id
      /\ j.draft_hash = p.draft_hash /\ j.approver_id = p.approver_id
  BY VariantKeeps, WrittenActions DEF ActionFits, ActionFields, Tags, LabelField
<1>2. /\ has_draft(s, p.draft_hash) <=> JavaScript!hasDraft(z, p.draft_hash)
      /\ has_approval(s, p.draft_hash) <=> JavaScript!hasApproval(z, p.draft_hash)
      /\ has_draft(s, p.draft_hash) =>
           z.drafts[p.draft_hash].createdBy = s.drafts[p.draft_hash].created_by
  BY JavaScriptStateKept
     DEF has_draft, JavaScript!hasDraft, has_approval, JavaScript!hasApproval
<1>3. actor_role(PortCaps, actor) = JavaScript!actorRole(caps, actor)
  BY DEF actor_role, JavaScript!actorRole, PortCaps, AsCapabilities
<1>4. /\ JavaScriptPolicy.approverRole = PortPolicy.approver_role
      /\ JavaScriptPolicy.requireSeparationOfDuties = PortPolicy.require_separation_of_duties
  BY JavaScriptPolicyKept
<1>5. JavaScriptAnswered(JavaScript!allow(JavaScript!obligationsForApproveDraft(p.draft_hash)))
        = RustAnswered(allow(obligations_for_approve_draft(p.draft_hash)))
  <2>1. EncodedObligation([t |-> "approve_exact_hash", draft_hash |-> p.draft_hash])
          = [t |-> "approve_exact_hash", draft_hash |-> p.draft_hash]
    BY DEF EncodedObligation
  <2>2. obligations_value(obligations_for_approve_draft(p.draft_hash))
          = <<[t |-> "approve_exact_hash", draft_hash |-> p.draft_hash]>>
    BY ObligationValues DEF obligations_value, obligations_for_approve_draft
  <2> QED
    BY <2>1, <2>2, RustAnswers, JavaScriptAnswers DEF JavaScript!obligationsForApproveDraft
<1> HIDE DEF s, a, z, j
<1>6. JavaScriptAnswered(JavaScript!verifyApproveDraft(z, j, actor, caps, JavaScriptPolicy))
        = RustAnswered(verify_approve_draft(s, a, actor, PortCaps, PortPolicy))
  BY <1>1, <1>2, <1>3, <1>4, <1>5, RustAnswers, JavaScriptAnswers
     DEF verify_approve_draft, JavaScript!verifyApproveDraft
<1> QED
  BY <1>6 DEF s, a, z, j

\* JavaScript's submit_draft.
LEMMA JavaScriptSubmits ==
  ASSUME Portable, NEW p, NEW keys, ActionFits(p), p.t = "submit_draft"
  PROVE  JavaScriptAnswered(JavaScript!verifySubmitDraft(
             AsJavaScriptState(state), AsJavaScriptAction(p, keys), JavaScriptPolicy))
           = RustAnswered(verify_submit_draft(AsState(state), AsAction(p), PortPolicy))
<1> DEFINE s == AsState(state)
           a == AsAction(p)
           z == AsJavaScriptState(state)
           j == AsJavaScriptAction(p, keys)
           w == AsJavaScriptLabel(p.recipient_label, keys)
           d == s.drafts[p.draft_hash]
           k == z.drafts[p.draft_hash]
<1>1. /\ a.draft_hash = p.draft_hash /\ a.recipient = p.recipient
      /\ a.recipient_label = p.recipient_label
  BY VariantKeeps DEF ActionFits, ActionFields, Tags
<1>2. j.draft_hash = p.draft_hash /\ j.recipient = p.recipient /\ j.recipient_label = w
  BY WrittenActions DEF ActionFits, ActionFields, Tags, LabelField
<1>3. /\ has_draft(s, p.draft_hash) <=> JavaScript!hasDraft(z, p.draft_hash)
      /\ has_approval(s, p.draft_hash) <=> JavaScript!hasApproval(z, p.draft_hash)
      /\ has_draft(s, p.draft_hash) =>
           /\ k.customerId = d.customer_id
           /\ k.bodyLabel = Constructed(d.body_label)
           /\ k.deliveries.emailSubmitted = d.deliveries.email_submitted
      /\ z.counters.submittedTotal = s.counters.submitted_total
  BY JavaScriptStateKept
     DEF has_draft, JavaScript!hasDraft, has_approval, JavaScript!hasApproval
<1>4. /\ w.kind = p.recipient_label.kind /\ w.owner = p.recipient_label.owner
      /\ JavaScript!flowsTo(Constructed(d.body_label), w)
           <=> flows_to(d.body_label, p.recipient_label)
  BY WrittenLabels, JavaScriptFlows DEF Constructed
<1>5. /\ JavaScriptPolicy.maxTotalSubmissions = PortPolicy.max_total_submissions
      /\ recipients_ok(PortPolicy, d.customer_id, p.recipient)
           <=> p.recipient \in JavaScript!recipientsOf(JavaScriptPolicy, d.customer_id)
  BY JavaScriptPolicyKept DEF recipients_ok, JavaScript!recipientsOf
<1>6. JavaScriptAnswered(JavaScript!allow(
            JavaScript!obligationsForSubmitDraft(p.draft_hash, p.recipient)))
        = RustAnswered(allow(obligations_for_submit_draft(p.draft_hash, p.recipient)))
  <2>1. /\ EncodedObligation([t |-> "submit_exact_hash", draft_hash |-> p.draft_hash])
             = [t |-> "submit_exact_hash", draft_hash |-> p.draft_hash]
        /\ EncodedObligation([t |-> "recipient", recipient |-> p.recipient])
             = [t |-> "recipient", recipient |-> p.recipient]
    BY DEF EncodedObligation
  <2>2. obligations_value(obligations_for_submit_draft(p.draft_hash, p.recipient))
          = <<[t |-> "submit_exact_hash", draft_hash |-> p.draft_hash],
              [t |-> "recipient", recipient |-> p.recipient]>>
    BY ObligationValues DEF obligations_value, obligations_for_submit_draft
  <2> QED
    BY <2>1, <2>2, RustAnswers, JavaScriptAnswers DEF JavaScript!obligationsForSubmitDraft
<1> HIDE DEF s, a, z, j, w
<1>7. JavaScriptAnswered(JavaScript!verifySubmitDraft(z, j, JavaScriptPolicy))
        = RustAnswered(verify_submit_draft(s, a, PortPolicy))
  BY <1>1, <1>2, <1>3, <1>4, <1>5, <1>6, RustAnswers, JavaScriptAnswers
     DEF verify_submit_draft, JavaScript!verifySubmitDraft
<1> QED
  BY <1>7 DEF s, a, z, j

\* JavaScript's post_to_slack: a label written in the constructors' order of
\* keys is judged as by the Rust port, one in another order is never the
\* channel's.
LEMMA JavaScriptPosts ==
  ASSUME Portable, NEW p, ActionFits(p), p.t = "post_to_slack",
         NEW keys \in [1..3 -> {"kind", "owner", "compartments"}]
  PROVE  LET rust == verify_post_to_slack(AsState(state), AsAction(p), PortPolicy)
             js == JavaScript!verifyPostToSlack(AsJavaScriptState(state),
                                                AsJavaScriptAction(p, keys), JavaScriptPolicy)
         IN  /\ keys = JavaScript!ConstructorKeys =>
                  JavaScriptAnswered(js) = RustAnswered(rust)
             /\ keys # JavaScript!ConstructorKeys /\ is_allow(rust) =>
                  js = JavaScript!deny("CHANNEL_LABEL_MISMATCH")
<1> DEFINE s == AsState(state)
           a == AsAction(p)
           z == AsJavaScriptState(state)
           j == AsJavaScriptAction(p, keys)
           w == AsJavaScriptLabel(p.channel_label, keys)
           d == s.drafts[p.draft_hash]
           k == z.drafts[p.draft_hash]
           channels == PortPolicy.approved_slack_channels
           channel == channels[p.channel_id]
           other == JavaScript!channelsOf(JavaScriptPolicy)
           made == JavaScript!ConstructorKeys
<1>1. /\ a.draft_hash = p.draft_hash /\ a.channel_id = p.channel_id
      /\ a.channel_label = p.channel_label
      /\ LabelFits(p.channel_label)
  BY VariantKeeps DEF ActionFits, ActionFields, Tags
<1>2. j.draft_hash = p.draft_hash /\ j.channel_id = p.channel_id /\ j.channel_label = w
  BY WrittenActions DEF ActionFits, ActionFields, Tags, LabelField
<1>3. /\ has_draft(s, p.draft_hash) <=> JavaScript!hasDraft(z, p.draft_hash)
      /\ has_approval(s, p.draft_hash) <=> JavaScript!hasApproval(z, p.draft_hash)
      /\ has_draft(s, p.draft_hash) =>
           /\ k.bodyLabel = Constructed(d.body_label)
           /\ k.deliveries.slackPostedChannels = d.deliveries.slack_posted_channels
      /\ z.counters.slackPostedTotal = s.counters.slack_posted_total
  BY JavaScriptStateKept
     DEF has_draft, JavaScript!hasDraft, has_approval, JavaScript!hasApproval
<1>4. /\ DOMAIN other = DOMAIN channels
      /\ p.channel_id \in DOMAIN channels =>
           other[p.channel_id] = Constructed(channel) /\ LabelFits(channel)
      /\ JavaScript!slackLimit(JavaScriptPolicy) = PortPolicy.max_total_slack_posts
  BY JavaScriptPolicyKept
<1>5. p.channel_id \in DOMAIN channels =>
        (JavaScript!Stringify(w) = JavaScript!Stringify(other[p.channel_id])
           <=> keys = made /\ p.channel_label = channel)
  BY <1>1, <1>4, TextsOfLabels
<1>6. JavaScript!flowsTo(Constructed(d.body_label), Constructed(channel))
        <=> flows_to(d.body_label, channel)
  BY WrittenLabels, JavaScriptFlows DEF Constructed
<1>7. JavaScriptAnswered(JavaScript!allow(
            <<[t |-> "post_exact_hash", draft_hash |-> p.draft_hash],
              [t |-> "channel", channel_id |-> p.channel_id]>>))
        = RustAnswered(allow(obligations_for_post_to_slack(p.draft_hash, p.channel_id)))
  <2>1. /\ EncodedObligation([t |-> "post_exact_hash", draft_hash |-> p.draft_hash])
             = [t |-> "post_exact_hash", draft_hash |-> p.draft_hash]
        /\ EncodedObligation([t |-> "channel", channel_id |-> p.channel_id])
             = [t |-> "channel", channel_id |-> p.channel_id]
    BY DEF EncodedObligation
  <2>2. obligations_value(obligations_for_post_to_slack(p.draft_hash, p.channel_id))
          = <<[t |-> "post_exact_hash", draft_hash |-> p.draft_hash],
              [t |-> "channel", channel_id |-> p.channel_id]>>
    BY ObligationValues DEF obligations_value, obligations_for_post_to_slack
  <2> QED
    BY <2>1, <2>2, RustAnswers, JavaScriptAnswers
<1> HIDE DEF s, a, z, j, w, made, channels, other
<1> DEFINE rust == verify_post_to_slack(s, a, PortPolicy)
           js == JavaScript!verifyPostToSlack(z, j, JavaScriptPolicy)
<1>8. keys = made => JavaScriptAnswered(js) = RustAnswered(rust)
  BY <1>1, <1>2, <1>3, <1>4, <1>5, <1>6, <1>7, RustAnswers, JavaScriptAnswers
     DEF verify_post_to_slack, JavaScript!verifyPostToSlack, channels, other
<1>9. keys # made /\ is_allow(rust) => js = JavaScript!deny("CHANNEL_LABEL_MISMATCH")
  <2>1. is_allow(rust) => /\ has_draft(s, p.draft_hash) /\ has_approval(s, p.draft_hash)
                          /\ p.channel_id \in DOMAIN channels
    BY <1>1, DecisionCases DEF verify_post_to_slack, channels
  <2> QED
    BY <1>2, <1>3, <1>4, <1>5, <2>1 DEF JavaScript!verifyPostToSlack, other
<1> QED
  BY <1>8, <1>9 DEF s, a, z, j, made

\* JavaScript's kernel answers as the Rust port's, whatever the order in which
\* the keys of a label were written, unless it is a channel's.
LEMMA JavaScriptAgrees ==
  ASSUME Portable, NoneIsNone, NoneIsNoDenial, MeasuredAlike, TypeOK,
         NEW p, NEW actor, Proposable(p), ActionFits(p),
         NEW keys \in [1..3 -> {"kind", "owner", "compartments"}]
  PROVE  /\ p.t # "post_to_slack" \/ keys = JavaScript!ConstructorKeys =>
              JavaScriptAnswer(state, p, actor, keys) = RustAnswer(state, p, actor)
         /\ /\ p.t = "post_to_slack"
            /\ keys # JavaScript!ConstructorKeys
            /\ is_allow(PortVerify(state, p, actor))
            => JavaScriptAnswer(state, p, actor, keys)
                 = JavaScript!deny("CHANNEL_LABEL_MISMATCH")
<1> DEFINE s == AsState(state)
           a == AsAction(p)
           d == PortVerify(state, p, actor)
           z == AsJavaScriptState(state)
           j == AsJavaScriptAction(p, keys)
           caps == Config.capabilities
           rust == common_checks(s, a, actor, PortCaps, PortPolicy)
           js == JavaScript!commonChecks(z, j, actor, caps, JavaScriptPolicy)
           e == JavaScript!verify(z, j, actor, caps, JavaScriptPolicy)
<1>1. /\ JavaScriptAnswer(state, p, actor, keys) = JavaScriptAnswered(e)
      /\ RustAnswer(state, p, actor) = RustAnswered(d)
  BY DEF JavaScriptAnswer, RustAnswer, JavaScriptPolicy
<1>2. \/ rust = Null /\ js = Null
      \/ \E code : rust = deny(code) /\ js = JavaScript!deny(code)
  BY JavaScriptCommons DEF JavaScriptPolicy
<1>3. j.t = p.t /\ p.t \in Tags
  BY WrittenActions DEF ActionFits
<1>4. CASE rust = Null /\ js = Null
  <2>1. CASE p.t = "read_invoice"
    <3>1. d = verify_read_invoice(s, a) /\ e = JavaScript!verifyReadInvoice(z, j)
      BY <1>3, <1>4, <2>1, RustRules DEF JavaScript!verify
    <3> QED
      BY <1>1, <2>1, <3>1, JavaScriptReads
  <2>2. CASE p.t = "create_draft"
    <3>1. /\ d = verify_create_draft(s, a, PortPolicy)
          /\ e = JavaScript!verifyCreateDraft(z, j, JavaScriptPolicy)
      BY <1>3, <1>4, <2>2, RustRules DEF JavaScript!verify
    <3> QED
      BY <1>1, <2>2, <3>1, JavaScriptCreates
  <2>3. CASE p.t = "approve_draft"
    <3>1. /\ d = verify_approve_draft(s, a, actor, PortCaps, PortPolicy)
          /\ e = JavaScript!verifyApproveDraft(z, j, actor, caps, JavaScriptPolicy)
      BY <1>3, <1>4, <2>3, RustRules DEF JavaScript!verify
    <3> QED
      BY <1>1, <2>3, <3>1, JavaScriptApproves
  <2>4. CASE p.t = "submit_draft"
    <3>1. /\ d = verify_submit_draft(s, a, PortPolicy)
          /\ e = JavaScript!verifySubmitDraft(z, j, JavaScriptPolicy)
      BY <1>3, <1>4, <2>4, RustRules DEF JavaScript!verify
    <3> QED
      BY <1>1, <2>4, <3>1, JavaScriptSubmits
  <2>5. CASE p.t = "post_to_slack"
    <3>1. /\ d = verify_post_to_slack(s, a, PortPolicy)
          /\ e = JavaScript!verifyPostToSlack(z, j, JavaScriptPolicy)
      BY <1>3, <1>4, <2>5, RustRules DEF JavaScript!verify
    <3>2. JavaScriptAnswered(JavaScript!deny("CHANNEL_LABEL_MISMATCH"))
            = JavaScript!deny("CHANNEL_LABEL_MISMATCH")
      BY DEF JavaScriptAnswered, JavaScript!deny
    <3> QED
      BY <1>1, <2>5, <3>1, <3>2, JavaScriptPosts
  <2> QED
    BY <1>3, <2>1, <2>2, <2>3, <2>4, <2>5 DEF Tags
<1>5. ASSUME NEW code, rust = deny(code), js = JavaScript!deny(code)
      PROVE  JavaScriptAnswered(e) = RustAnswered(d) /\ ~is_allow(d)
  <2>1. d = deny(code)
    BY <1>5, RustRules DEF NoneIsNone
  <2>2. JavaScript!deny(code) # Null
    BY DEF NoneIsNoDenial, Python!deny, JavaScript!deny
  <2>3. e = JavaScript!deny(code)
    BY <1>5, <2>2 DEF JavaScript!verify
  <2> QED
    BY <2>1, <2>3, RustAnswers, JavaScriptAnswers, DecisionCases
<1> QED
  BY <1>1, <1>2, <1>4, <1>5

\* As long as no text lies on two sides of a limit by the measures of two ports,
\* they answer every offer alike, with the same codes and obligations, if the
\* JavaScript port is handed labels as its constructors make them.
THEOREM PortsAgreeWhereMeasuredAlike ==
  ASSUME Portable, NoneIsNone, NoneIsNoDenial, MeasuredAlike
  PROVE  Spec => []PortsDecideAlike
<1>1. JavaScript!ConstructorKeys \in [1..3 -> {"kind", "owner", "compartments"}]
  BY DEF JavaScript!ConstructorKeys
<1>2. ASSUME TypeOK, NEW actor \in ActorIds, NEW p \in Offers(state)
      PROVE  /\ PythonAnswer(state, p, actor) = RustAnswer(state, p, actor)
             /\ JavaScriptAnswer(state, p, actor, JavaScript!ConstructorKeys)
                  = RustAnswer(state, p, actor)
  <2>1. Proposable(p) /\ ActionFits(p)
    BY OffersProposable, ProposalsFit
  <2> QED
    BY <1>1, <1>2, <2>1, PythonAgrees, JavaScriptAgrees
<1>3. TypeOK => PortsDecideAlike
  BY <1>2 DEF PortsDecideAlike
<1> QED
  BY <1>3, TypeCorrect, PTL

\* The key order of a label matters to the JavaScript port, and to posts alone:
\* one it would otherwise allow is denied (policy.js:102), and no other action
\* is judged differently.
KeyOrderDecidesPosts ==
  \A actor \in ActorIds, p \in Offers(state),
     keys \in [1..3 -> {"kind", "owner", "compartments"}] \ {JavaScript!ConstructorKeys} :
    IF p.t = "post_to_slack"
    THEN RustAnswer(state, p, actor).t = "allow" =>
           JavaScriptAnswer(state, p, actor, keys) = JavaScript!deny("CHANNEL_LABEL_MISMATCH")
    ELSE JavaScriptAnswer(state, p, actor, keys) = RustAnswer(state, p, actor)

\* A post that the Rust and the Python port allow is denied by the JavaScript
\* port when the keys of its label come in another order; nothing else depends
\* on that order.
THEOREM KeyOrderMattersToPosts ==
  ASSUME Portable, NoneIsNone, NoneIsNoDenial, MeasuredAlike
  PROVE  Spec => []KeyOrderDecidesPosts
<1>1. ASSUME TypeOK, NEW actor \in ActorIds, NEW p \in Offers(state),
             NEW keys \in [1..3 -> {"kind", "owner", "compartments"}],
             keys # JavaScript!ConstructorKeys
      PROVE  IF p.t = "post_to_slack"
             THEN RustAnswer(state, p, actor).t = "allow" =>
                    JavaScriptAnswer(state, p, actor, keys)
                      = JavaScript!deny("CHANNEL_LABEL_MISMATCH")
             ELSE JavaScriptAnswer(state, p, actor, keys) = RustAnswer(state, p, actor)
  <2>1. Proposable(p) /\ ActionFits(p)
    BY OffersProposable, ProposalsFit
  <2>2. RustAnswer(state, p, actor).t = "allow" => is_allow(PortVerify(state, p, actor))
    BY DEF RustAnswer, RustAnswered
  <2> QED
    BY <1>1, <2>1, <2>2, JavaScriptAgrees
<1>2. TypeOK => KeyOrderDecidesPosts
  BY <1>1 DEF KeyOrderDecidesPosts
<1> QED
  BY <1>2, TypeCorrect, PTL
=============================================================================
