-------------------------- MODULE EngineAuthority --------------------------
(***************************************************************************)
(* The engine implements the authority: a text is a draft's content, a     *)
(* draft hash names its content, and what was written, approved, mailed    *)
(* and posted is read off the committed state.                             *)
(***************************************************************************)
EXTENDS Engine

LawfulContent(c) ==
  /\ c.invoice_id \in DOMAIN Config.invoices
  /\ c.thread_id \in DOMAIN Config.threads
  /\ Config.invoices[c.invoice_id].customer_id = c.customer_id
  /\ Config.threads[c.thread_id].customer_id = c.customer_id
  /\ FlowsTo(Config.invoices[c.invoice_id].label, c.body_label)
  /\ c.body_label.kind = "customer"
  /\ c.body_label.owner = c.customer_id
  /\ StrLen(c.body) \in 1..Config.policy.max_draft_chars
  /\ OperationAllowed(Config.capabilities, c.created_by, "create_draft")

EntitledTo(c, p) ==
  /\ OperationAllowed(Config.capabilities, p, "approve_draft")
  /\ ActorRole(Config.capabilities, p) = Config.policy.approver_role
  /\ Config.policy.require_separation_of_duties => p # c.created_by

AddressableTo(c, a) == RecipientAllowed(Config.policy, c.customer_id, a)

PostableTo(c, r) ==
  /\ r \in DOMAIN Config.policy.approved_slack_channels
  /\ FlowsTo(c.body_label, Config.policy.approved_slack_channels[r].label)

\* A digest names what it digests.
ContentOf(h) == h[2]

Abstract == INSTANCE Authority WITH
  Texts       <- Contents,
  People      <- ActorIds,
  Addresses   <- Recipients,
  Rooms       <- ChannelIds,
  Lawful      <- LawfulContent,
  Entitled    <- EntitledTo,
  Addressable <- AddressableTo,
  Postable    <- PostableTo,
  MaxWritten  <- Config.policy.max_total_drafts,
  MaxMailed   <- Config.policy.max_total_submissions,
  MaxPosted   <- Config.policy.max_total_slack_posts,
  written     <- state.counters.drafted_total,
  texts       <- {ContentOf(h) : h \in DOMAIN state.drafts},
  approver    <- [c \in {ContentOf(h) : h \in DOMAIN state.approvals} |->
                    state.approvals[DraftHash(c)].approver_id],
  unmailed    <- {ContentOf(h) : h \in
                    {g \in DOMAIN state.drafts :
                       ~state.drafts[g].deliveries.email.submitted}},
  roomsOf     <- [c \in {ContentOf(h) : h \in DOMAIN state.drafts} |->
                    state.drafts[DraftHash(c)].deliveries.slack],
  mailed      <- [i \in DOMAIN state.submissions |->
                    <<ContentOf(state.submissions[i].draft_hash),
                      state.submissions[i].recipient>>],
  posted      <- [i \in DOMAIN state.slack_posts |->
                    <<ContentOf(state.slack_posts[i].draft_hash),
                      state.slack_posts[i].channel_id>>]

\* Every lineage of the engine is a behaviour of the authority: whatever is
\* proposed, each committed call is one lawful step of it or a read.
ImplementsAuthority == Abstract!Spec
=============================================================================
