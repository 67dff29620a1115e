------------------------------- MODULE State -------------------------------
(***************************************************************************)
(* The committed state: the read-only business data, the drafts and        *)
(* approvals, the two lists of external effects, the consumed nonces, the  *)
(* counters, and the hash of the receipt that led here.                    *)
(***************************************************************************)
EXTENDS Canonical

Initial(config) ==
  [policy_version        |-> config.policy_version,
   sequence              |-> 0,
   invoices              |-> config.invoices,
   threads               |-> config.threads,
   drafts                |-> EmptyRec,
   approvals             |-> EmptyRec,
   submissions           |-> <<>>,
   slack_posts           |-> <<>>,
   consumed_nonces       |-> {},
   counters              |-> [submitted_total    |-> 0, drafted_total      |-> 0,
                              approved_total     |-> 0, slack_posted_total |-> 0],
   previous_receipt_hash |-> GenesisHash]

\* What the hash covers is everything but the link to the last receipt.
HashState(s) ==
  TaggedDigest("confine.state.v1", RecRemove(s, "previous_receipt_hash"))

\* consumed_nonces maps each consumed nonce to true; its key set is kept.
NonceConsumed(s, nonce) == nonce \in s.consumed_nonces

\* Mutant: nothing is consumed.
NothingConsumed(s, nonce) == s.consumed_nonces

ConsumeNonce(s, nonce) == s.consumed_nonces \cup {nonce}

HasInvoice(s, id) == id \in DOMAIN s.invoices
HasThread(s, id)  == id \in DOMAIN s.threads
HasDraft(s, h)    == h \in DOMAIN s.drafts
HasApproval(s, h) == h \in DOMAIN s.approvals

\* Mutant: the link to the last receipt is forgotten.
WithoutReceiptLink(s, receipt_hash) == s

WithPreviousReceipt(s, receipt_hash) ==
  [s EXCEPT !.previous_receipt_hash = receipt_hash]
=============================================================================
