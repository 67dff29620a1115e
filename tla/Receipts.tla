------------------------------ MODULE Receipts ------------------------------
(***************************************************************************)
(* Receipts bind a transition (state, action, actor, certificate, result,  *)
(* next state) to the receipt before it; verify_chain audits a list of     *)
(* them.                                                                   *)
(***************************************************************************)
EXTENDS Executor

Payload(prior, a, actor, certificate, result, resulting) ==
  [version               |-> 1,
   previous_receipt_hash |-> prior.previous_receipt_hash,
   prior_state_hash      |-> HashState(prior),
   action_hash           |-> ActionHash(a),
   actor_id              |-> actor,
   certificate_hash      |-> CertificateDigest(certificate),
   result_hash           |-> TaggedDigest("confine.result.v1", result),
   resulting_state_hash  |-> HashState(resulting),
   nonce                 |-> a.nonce,
   sequence_before       |-> prior.sequence,
   sequence_after        |-> resulting.sequence]

\* Mutant: the receipt before is not part of what is hashed.
UnlinkedDigest(payload) ==
  TaggedDigest("confine.receipt.v1", RecRemove(payload, "previous_receipt_hash"))

ReceiptDigest(payload) == TaggedDigest("confine.receipt.v1", payload)

CreateReceipt(prior, a, actor, certificate, result, resulting) ==
  LET p == Payload(prior, a, actor, certificate, result, resulting) IN
  [t |-> "transition_receipt", payload |-> p, receipt_hash |-> ReceiptDigest(p)]

VerifyReceipt(r) ==
  /\ {"payload", "receipt_hash"} \subseteq DOMAIN r
  /\ r.receipt_hash = ReceiptDigest(r.payload)
  /\ r.payload.sequence_after = r.payload.sequence_before + 1

\* Mutant: the receipts of a chain are linked by the states only.
FollowsState(previous, current) ==
  /\ current.payload.prior_state_hash = previous.payload.resulting_state_hash
  /\ current.payload.sequence_before = previous.payload.sequence_after

\* current directly continues previous in a chain.
Follows(previous, current) ==
  /\ current.payload.previous_receipt_hash = previous.receipt_hash
  /\ current.payload.prior_state_hash = previous.payload.resulting_state_hash
  /\ current.payload.sequence_before = previous.payload.sequence_after

VerifyLinks(receipts) ==
  \A i \in DOMAIN receipts :
    /\ VerifyReceipt(receipts[i])
    /\ i > 1 => Follows(receipts[i - 1], receipts[i])

VerifyUniqueNonces(receipts) ==
  \A i, j \in DOMAIN receipts :
    receipts[i].payload.nonce = receipts[j].payload.nonce => i = j

VerifyChain(receipts) == VerifyLinks(receipts) /\ VerifyUniqueNonces(receipts)
=============================================================================
