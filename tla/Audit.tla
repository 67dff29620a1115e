------------------------------- MODULE Audit --------------------------------
(***************************************************************************)
(* An auditor with a copy of the ledger.  The engine returns each receipt  *)
(* to its caller, who keeps it: receipts may be lost, kept twice or kept   *)
(* out of order on the way to the auditor, who runs verify_chain.  The     *)
(* engine is a pure function of the state it is given, so that callers may *)
(* also go on from a state others have left: two lineages with a common    *)
(* beginning, which may consume the same nonces.                           *)
(***************************************************************************)
EXTENDS Engine

CONSTANT MaxArchive   \* bounds the copy

VARIABLES
  kept,      \* the end of the other lineage: its state and its receipts
  archive    \* the receipts the auditor has been given, in order

auditVars == <<state, receipts, kept, archive>>

AuditInit ==
  /\ Init
  /\ kept = [state |-> state, receipts |-> receipts]
  /\ archive = <<>>

Call == Next /\ UNCHANGED <<kept, archive>>

\* Nothing was called on the kept state since the lineages parted.
IsEarlier(ledger, later) ==
  Len(ledger) <= Len(later) /\ \A i \in DOMAIN ledger : ledger[i] = later[i]

\* The kept state is read again: from here on the lineages may part.
Keep ==
  /\ IsEarlier(kept.receipts, receipts)
  /\ kept' = [state |-> state, receipts |-> receipts]
  /\ UNCHANGED <<state, receipts, archive>>

\* The next calls are made on the kept state.
GoBack ==
  /\ state' = kept.state
  /\ receipts' = kept.receipts
  /\ kept' = [state |-> state, receipts |-> receipts]
  /\ UNCHANGED archive

\* Any receipt is filed next: an earlier one, one filed before, or a later one
\* than the next, of either lineage.
File(ledger) ==
  /\ Len(archive) < MaxArchive
  /\ \E i \in DOMAIN ledger : archive' = Append(archive, ledger[i])
  /\ UNCHANGED <<state, receipts, kept>>

AuditNext ==
  \/ Call
  \/ Keep
  \/ GoBack
  \/ File(receipts)
  \/ File(kept.receipts)

AuditSpec == AuditInit /\ [][AuditNext]_auditVars

\* The archive is the receipts of the ledger after the first k.
Segment(ledger, k) ==
  /\ k + Len(archive) <= Len(ledger)
  /\ \A i \in DOMAIN archive : archive[i] = ledger[k + i]

\* verify_chain accepts exactly the copies of one lineage without a gap, a
\* repetition or a swap: the link, the hash and the sequence of a receipt all
\* have to continue the receipt before it (receipts.fard:43-51), whatever two
\* lineages have in common.
AcceptedIffSegment ==
  VerifyChain(archive) <=>
    \E ledger \in {receipts, kept.receipts} : \E k \in 0..Len(ledger) : Segment(ledger, k)

\* The hash of a receipt tells all that happened before it: where two lineages
\* have one in common they were one up to it, call by call, and where both end
\* in it they end in the same state (receipts.fard:8-22).
ReceiptTellsHistory ==
  \A i \in DOMAIN receipts, j \in DOMAIN kept.receipts :
    receipts[i].receipt_hash = kept.receipts[j].receipt_hash =>
      /\ i = j
      /\ \A k \in 1..i : receipts[k] = kept.receipts[k]
      /\ i = Len(receipts) /\ j = Len(kept.receipts) => state = kept.state

\* An accepted copy that begins at the genesis value, as the specification asks,
\* and ends in the receipt the state is linked to is the whole ledger of that
\* state: verify_chain lacks these two comparisons (receipts.fard:44), and no more.
WholeBetweenEnds ==
  /\ VerifyChain(archive)
  /\ archive # <<>>
  /\ archive[1].payload.previous_receipt_hash = GenesisHash
  /\ archive[Len(archive)].receipt_hash = state.previous_receipt_hash
  => archive = receipts

\* "for r_0, previous_receipt_hash MUST equal the configured genesis value"
\* (Protocal Specification V2.md:226): an accepted copy starts at the first call.
AcceptedFromGenesis ==
  VerifyChain(archive) /\ archive # <<>> =>
    archive[1].payload.previous_receipt_hash = GenesisHash
=============================================================================
