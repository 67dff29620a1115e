----------------------------- MODULE Proposals -----------------------------
(***************************************************************************)
(* What a caller may propose.  The proposer is untrusted: any combination  *)
(* of the texts, labels and hashes below, made against the state it looks  *)
(* at or against the initial one, by any actor.                            *)
(***************************************************************************)
EXTENDS Transition

CONSTANTS
  ActorIds, Nonces, InvoiceIds, ThreadIds, CustomerIds, Bodies,
  ClaimedLabels, Recipients, ChannelIds,
  Offered(_)   \* which of the Nonces a proposer may try in a state

\* str.len is a length.
ASSUME LengthsAssumption == \A x \in Nonces \cup Bodies : StrLen(x) \in Nat

\* Hashes of the states a proposer may have looked at.
SeenHashes(s) == {HashState(s), HashState(Initial(Config))}

\* Drafts a proposer may name: the stored ones, and a hash that names none.
NamedDrafts(s) == DOMAIN s.drafts \cup {GenesisHash}

Headers(tag, s) ==
  [t : {tag}, nonce : Offered(s) \cap Nonces, expected_state_hash : SeenHashes(s)]

ReadProposals(h) ==
  [t : {h.t}, invoice_id : InvoiceIds,
   nonce : {h.nonce}, expected_state_hash : {h.expected_state_hash}]

CreateProposals(h) ==
  [t : {h.t}, thread_id : ThreadIds, invoice_id : InvoiceIds,
   customer_id : CustomerIds, body : Bodies, body_label : ClaimedLabels,
   nonce : {h.nonce}, expected_state_hash : {h.expected_state_hash}]

ApproveProposals(h, s) ==
  [t : {h.t}, draft_hash : NamedDrafts(s), approver_id : ActorIds,
   nonce : {h.nonce}, expected_state_hash : {h.expected_state_hash}]

SubmitProposals(h, s) ==
  [t : {h.t}, draft_hash : NamedDrafts(s), recipient : Recipients,
   recipient_label : ClaimedLabels,
   nonce : {h.nonce}, expected_state_hash : {h.expected_state_hash}]

PostProposals(h, s) ==
  [t : {h.t}, draft_hash : NamedDrafts(s), channel_id : ChannelIds,
   channel_label : ClaimedLabels,
   nonce : {h.nonce}, expected_state_hash : {h.expected_state_hash}]

\* Everything a caller may propose in a state.
Offers(s) ==
  UNION {UNION {ReadProposals(h)       : h \in Headers("read_invoice", s)},
         UNION {CreateProposals(h)     : h \in Headers("create_draft", s)},
         UNION {ApproveProposals(h, s) : h \in Headers("approve_draft", s)},
         UNION {SubmitProposals(h, s)  : h \in Headers("submit_draft", s)},
         UNION {PostProposals(h, s)    : h \in Headers("post_to_slack", s)}}
=============================================================================
