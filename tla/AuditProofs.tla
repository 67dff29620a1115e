---------------------------- MODULE AuditProofs ----------------------------
(***************************************************************************)
(* Proof that an auditor who runs verify_chain accepts exactly the         *)
(* segments of one lineage, for every configuration and every set of       *)
(* inputs, however long the lineages and the copy are.  The argument goes  *)
(* by steps of the auditor: a receipt that continues an accepted copy      *)
(* names the receipt before it by a hash, and so continues the lineage it  *)
(* is taken from where the copy ends.                                      *)
(***************************************************************************)
EXTENDS Audit, EngineLedgerProofs

-----------------------------------------------------------------------------
(***************************************************************************)
(* Ledgers and the states they end in.                                     *)
(***************************************************************************)

\* The receipt with that payload.
Made(payload) ==
  [t |-> "transition_receipt", payload |-> payload, receipt_hash |-> ReceiptDigest(payload)]

\* L is a chain of receipts, numbered from the genesis hash on.
Ledger(L) ==
  /\ L \in Seq(Elements(L))
  /\ VerifyChain(L)
  /\ \A i \in DOMAIN L : L[i] = Made(L[i].payload)
  /\ \A i \in DOMAIN L : L[i].payload.sequence_before = i - 1
  /\ L # <<>> => L[1].payload.previous_receipt_hash = GenesisHash

\* A state is a record: nothing but its fields.
IsRecord(s) == s = [f \in StateFields |-> s[f]]

\* The ledger leads to the state.
LeadsTo(L, s) ==
  /\ IsRecord(s)
  /\ DOMAIN s = StateFields
  /\ s.sequence = Len(L)
  /\ \A i \in DOMAIN L : L[i].payload.nonce \in s.consumed_nonces
  /\ IF L = <<>>
     THEN s.previous_receipt_hash = GenesisHash
     ELSE /\ L[Len(L)].receipt_hash = s.previous_receipt_hash
          /\ L[Len(L)].payload.resulting_state_hash = HashState(s)

\* Where two ledgers have the same receipt they have the same beginning.
Parted(L, M) ==
  \A k \in DOMAIN L \cap DOMAIN M : L[k] = M[k] => \A i \in 1..k : L[i] = M[i]

\* A is the part of L after the first k receipts.
PartOf(A, L, k) ==
  /\ k \in Nat
  /\ k + Len(A) <= Len(L)
  /\ \A i \in DOMAIN A : A[i] = L[k + i]

AuditInv ==
  /\ Ledger(receipts) /\ LeadsTo(receipts, state)
  /\ Ledger(kept.receipts) /\ LeadsTo(kept.receipts, kept.state)
  /\ Parted(receipts, kept.receipts)
  /\ archive \in Seq(Elements(archive))
  /\ VerifyLinks(archive) =>
       \E k : PartOf(archive, receipts, k) \/ PartOf(archive, kept.receipts, k)

\* A sequence is indexed from one to its length.
LEMMA Indexed ==
  ASSUME NEW L, L \in Seq(Elements(L))
  PROVE  Len(L) \in Nat /\ DOMAIN L = 1..Len(L) /\ (L = <<>> <=> Len(L) = 0)
  OBVIOUS

\* A sequence with one more element.
LEMMA Lengthened ==
  ASSUME NEW L, NEW x, NEW M, L \in Seq(Elements(L)), M = Append(L, x)
  PROVE  /\ M \in Seq(Elements(M))
         /\ Len(M) = Len(L) + 1
         /\ DOMAIN M = 1..(Len(L) + 1)
         /\ \A i \in 1..Len(L) : M[i] = L[i]
         /\ M[Len(L) + 1] = x
<1>1. /\ Len(M) = Len(L) + 1
      /\ DOMAIN M = 1..(Len(L) + 1)
      /\ \A i \in 1..Len(L) : M[i] = L[i]
      /\ M[Len(L) + 1] = x
  OBVIOUS
<1>2. M \in Seq(Elements(M))
  BY AppendElements
<1> QED
  BY <1>1, <1>2

\* Receipts with the same hash are the same receipt.
LEMMA HashNamesReceipt ==
  ASSUME NEW L, NEW M, NEW i \in DOMAIN L, NEW j \in DOMAIN M,
         Ledger(L), Ledger(M), L[i].receipt_hash = M[j].receipt_hash
  PROVE  L[i] = M[j] /\ i = j
<1>1. L[i] = Made(L[i].payload) /\ M[j] = Made(M[j].payload)
  BY DEF Ledger
<1>2. L[i].receipt_hash = ReceiptDigest(L[i].payload)
      /\ M[j].receipt_hash = ReceiptDigest(M[j].payload)
  BY <1>1 DEF Made
<1>3. L[i].payload = M[j].payload
  <2>1. \A payload : ReceiptDigest(payload)[2] = payload
    BY DEF ReceiptDigest, TaggedDigest
  <2>2. ReceiptDigest(L[i].payload) = ReceiptDigest(M[j].payload)
    BY <1>2
  <2> QED
    BY <2>1, <2>2
<1>4. L[i] = M[j]
  BY <1>1, <1>3
<1>5. L[i].payload.sequence_before = i - 1 /\ M[j].payload.sequence_before = j - 1
  BY DEF Ledger
<1>6. i \in Int /\ j \in Int
  BY Indexed DEF Ledger
<1> QED
  BY <1>3, <1>4, <1>5, <1>6

\* A linked state is a record.
LEMMA LinkedIsRecord ==
  ASSUME NEW s, NEW h, NEW t, DOMAIN s = StateFields, t = WithPreviousReceipt(s, h)
  PROVE  IsRecord(t)
<1>1. t = [f \in StateFields |-> IF f = "previous_receipt_hash" THEN h ELSE s[f]]
  BY DEF WithPreviousReceipt, StateFields
<1>2. \A f \in StateFields : t[f] = IF f = "previous_receipt_hash" THEN h ELSE s[f]
  BY <1>1
<1> QED
  BY <1>1, <1>2 DEF IsRecord

\* A committed call continues the ledger.
LEMMA CommitContinues ==
  ASSUME Ledger(receipts), LeadsTo(receipts, state), NEW p, NEW actor, p.t \in Tags,
         Commit(p, actor)
  PROVE  /\ Ledger(receipts')
         /\ LeadsTo(receipts', state')
<1> DEFINE r == ReceiptFor(state, p, actor)
           e == ExecutionState(state, p, actor)
           n == Len(receipts)
<1>1. /\ receipts' = Append(receipts, r)
      /\ state' = WithPreviousReceipt(e, r.receipt_hash)
      /\ ~NonceConsumed(state, p.nonce)
  BY DEF Commit, Commits, Allowed, Verify, CommonChecks, NextState
<1>2. /\ DOMAIN e = StateFields
      /\ e.sequence = state.sequence + 1
      /\ e.consumed_nonces = state.consumed_nonces \cup {p.nonce}
  BY ExecutionSteps DEF LeadsTo
<1>3. /\ {"payload", "receipt_hash"} \subseteq DOMAIN r
      /\ r.receipt_hash = ReceiptDigest(r.payload)
      /\ r.payload.previous_receipt_hash = state.previous_receipt_hash
      /\ r.payload.prior_state_hash = HashState(state)
      /\ r.payload.resulting_state_hash = HashState(e)
      /\ r.payload.sequence_before = state.sequence
      /\ r.payload.sequence_after = e.sequence
      /\ r.payload.nonce = p.nonce
  BY ReceiptContents
<1>4. /\ DOMAIN state' = StateFields
      /\ HashState(state') = HashState(e)
      /\ state'.previous_receipt_hash = r.receipt_hash
      /\ state'.sequence = e.sequence
      /\ state'.consumed_nonces = e.consumed_nonces
  BY <1>1, <1>2, LinkKeepsHash, LinkedFields DEF StateFields
<1>5. r = Made(r.payload)
  BY DEF ReceiptFor, CreateReceipt, Made
<1> HIDE DEF r, e
<1>6. /\ n \in Nat
      /\ DOMAIN receipts = 1..n
      /\ receipts = <<>> <=> n = 0
      /\ receipts' \in Seq(Elements(receipts'))
      /\ Len(receipts') = n + 1
      /\ DOMAIN receipts' = 1..(n + 1)
      /\ \A i \in 1..n : receipts'[i] = receipts[i]
      /\ receipts'[n + 1] = r
      /\ receipts' # <<>>
  <2>1. receipts \in Seq(Elements(receipts))
    BY DEF Ledger
  <2>2. /\ n \in Nat
        /\ DOMAIN receipts = 1..n
        /\ receipts = <<>> <=> n = 0
    BY <2>1, Indexed
  <2>3. /\ receipts' \in Seq(Elements(receipts'))
        /\ Len(receipts') = n + 1
        /\ DOMAIN receipts' = 1..(n + 1)
        /\ \A i \in 1..n : receipts'[i] = receipts[i]
        /\ receipts'[n + 1] = r
    <3>1. receipts' = Append(receipts, r)
      BY <1>1
    <3> HIDE DEF n
    <3>2. PICK M : M = receipts'
      OBVIOUS
    <3>3. M = Append(receipts, r)
      BY <3>1, <3>2
    <3>4. M \in Seq(Elements(M))
      BY <2>1, <3>3, Lengthened
    <3>5. /\ Len(M) = Len(receipts) + 1
          /\ DOMAIN M = 1..(Len(receipts) + 1)
          /\ \A i \in 1..Len(receipts) : M[i] = receipts[i]
          /\ M[Len(receipts) + 1] = r
      BY <2>1, <3>3, Lengthened
    <3> QED
      BY <3>2, <3>4, <3>5 DEF n
  <2>4. receipts' # <<>>
    BY <2>2, <2>3
  <2> QED
    BY <2>2, <2>3, <2>4
<1>7. state.sequence = n
  BY DEF LeadsTo
<1>8. VerifyReceipt(r)
  BY <1>2, <1>3 DEF VerifyReceipt
<1>9. ASSUME n > 0
      PROVE  Follows(receipts[n], r)
  <2>1. VerifyReceipt(receipts[n]) /\ receipts[n].payload.sequence_before = n - 1
    BY <1>6, <1>9 DEF Ledger, VerifyChain, VerifyLinks
  <2>2. receipts[n].payload.sequence_after = n
    BY <1>6, <2>1 DEF VerifyReceipt
  <2> QED
    BY <1>3, <1>6, <1>7, <1>9, <2>2 DEF LeadsTo, Follows
<1>10. VerifyLinks(receipts')
  <2>1. ASSUME NEW i \in 1..(n + 1)
        PROVE  /\ VerifyReceipt(receipts'[i])
               /\ i > 1 => Follows(receipts'[i - 1], receipts'[i])
    <3>1. CASE i = n + 1
      <4>1. i > 1 => n > 0 /\ receipts'[i - 1] = receipts[n]
        BY <1>6, <3>1
      <4> QED
        BY <1>6, <1>8, <1>9, <3>1, <4>1
    <3>2. CASE i \in 1..n
      <4>1. /\ receipts'[i] = receipts[i]
            /\ i > 1 => receipts'[i - 1] = receipts[i - 1]
        BY <1>6, <3>2
      <4>2. VerifyLinks(receipts)
        BY DEF Ledger, VerifyChain
      <4> QED
        BY <1>6, <3>2, <4>1, <4>2 DEF VerifyLinks
    <3> QED
      BY <1>6, <3>1, <3>2
  <2> QED
    BY <1>6, <2>1 DEF VerifyLinks
<1>11. \A i \in 1..n : /\ receipts[i].payload.nonce \in state.consumed_nonces
                       /\ receipts[i].payload.nonce # r.payload.nonce
  BY <1>1, <1>3, <1>6 DEF LeadsTo, NonceConsumed
<1>12. VerifyUniqueNonces(receipts')
  <2>1. VerifyUniqueNonces(receipts)
    BY DEF Ledger, VerifyChain
  <2>2. ASSUME NEW i \in 1..(n + 1), NEW j \in 1..(n + 1),
               receipts'[i].payload.nonce = receipts'[j].payload.nonce
        PROVE  i = j
    <3>1. CASE i \in 1..n /\ j \in 1..n
      BY <1>6, <2>1, <2>2, <3>1 DEF VerifyUniqueNonces
    <3>2. CASE i = n + 1 /\ j \in 1..n
      BY <1>6, <1>11, <2>2, <3>2
    <3>3. CASE i \in 1..n /\ j = n + 1
      BY <1>6, <1>11, <2>2, <3>3
    <3> QED
      BY <1>6, <3>1, <3>2, <3>3
  <2> QED
    BY <1>6, <2>2 DEF VerifyUniqueNonces
<1>13. receipts'[1].payload.previous_receipt_hash = GenesisHash
  <2>1. CASE n = 0
    BY <1>3, <1>6, <2>1 DEF LeadsTo
  <2>2. CASE n > 0
    BY <1>6, <2>2 DEF Ledger
  <2> QED
    BY <1>6, <2>1, <2>2
<1>14. ASSUME NEW i \in 1..(n + 1)
       PROVE  /\ receipts'[i] = Made(receipts'[i].payload)
              /\ receipts'[i].payload.sequence_before = i - 1
              /\ receipts'[i].payload.nonce \in state'.consumed_nonces
  <2>1. CASE i = n + 1
    BY <1>2, <1>3, <1>4, <1>5, <1>6, <1>7, <2>1
  <2>2. CASE i \in 1..n
    BY <1>2, <1>4, <1>6, <1>11, <2>2 DEF Ledger
  <2> QED
    BY <1>6, <2>1, <2>2
<1>15. Ledger(receipts')
  BY <1>6, <1>10, <1>12, <1>13, <1>14 DEF Ledger, VerifyChain
<1>16. IsRecord(state')
  BY <1>1, <1>2, LinkedIsRecord
<1>17. LeadsTo(receipts', state')
  BY <1>2, <1>3, <1>4, <1>6, <1>7, <1>14, <1>16 DEF LeadsTo
<1> QED
  BY <1>15, <1>17

\* A ledger is indexed from one, and each of its receipts continues the one before.
LEMMA LedgerIndexed ==
  ASSUME NEW L, Ledger(L)
  PROVE  /\ Len(L) \in Nat
         /\ DOMAIN L = 1..Len(L)
         /\ \A i \in 1..Len(L) : VerifyReceipt(L[i])
         /\ \A i \in 2..Len(L) : Follows(L[i - 1], L[i])
<1>1. Len(L) \in Nat /\ DOMAIN L = 1..Len(L)
  BY Indexed DEF Ledger
<1>2. VerifyLinks(L)
  BY DEF Ledger, VerifyChain
<1> QED
  BY <1>1, <1>2 DEF VerifyLinks

\* A receipt that continues a receipt of a ledger has that receipt before it in its
\* own.
LEMMA NamesBefore ==
  ASSUME NEW L, NEW M, NEW i \in DOMAIN L, NEW k \in DOMAIN M,
         Ledger(L), Ledger(M), Follows(M[k], L[i])
  PROVE  i = k + 1 /\ k \in DOMAIN L /\ L[k] = M[k]
<1>1. /\ Len(L) \in Nat
      /\ DOMAIN L = 1..Len(L)
      /\ \A j \in 2..Len(L) : Follows(L[j - 1], L[j])
  BY LedgerIndexed
<1>2. Len(M) \in Nat /\ DOMAIN M = 1..Len(M)
  BY LedgerIndexed
<1>3. L[i].payload.previous_receipt_hash = M[k].receipt_hash
  BY DEF Follows
<1>4. i # 1
  <2>1. M[k] = Made(M[k].payload)
    BY DEF Ledger
  <2>2. M[k].receipt_hash = ReceiptDigest(M[k].payload)
    BY <2>1 DEF Made
  <2>3. M[k].receipt_hash # GenesisHash
    BY <2>2 DEF ReceiptDigest, TaggedDigest, GenesisHash
  <2>4. i = 1 => L[1].payload.previous_receipt_hash = GenesisHash
    BY <1>1 DEF Ledger
  <2> QED
    BY <1>3, <2>3, <2>4
<1>5. i \in 2..Len(L) /\ i - 1 \in DOMAIN L
  BY <1>1, <1>4
<1>6. L[i].payload.previous_receipt_hash = L[i - 1].receipt_hash
  BY <1>1, <1>5 DEF Follows
<1>7. L[i - 1].receipt_hash = M[k].receipt_hash
  BY <1>3, <1>6
<1>8. L[i - 1] = M[k] /\ i - 1 = k
  BY <1>5, <1>7, HashNamesReceipt
<1> QED
  BY <1>1, <1>2, <1>5, <1>8

\* Two lineages stay parted when one of them is continued.
LEMMA PartedKept ==
  ASSUME NEW L, NEW N, NEW M, NEW x, Ledger(L), Ledger(N), Ledger(M), N = Append(L, x),
         Parted(L, M)
  PROVE  Parted(N, M)
<1>1. /\ Len(L) \in Nat
      /\ DOMAIN L = 1..Len(L)
      /\ DOMAIN N = 1..(Len(L) + 1)
      /\ \A i \in 1..Len(L) : N[i] = L[i]
  BY Lengthened, LedgerIndexed DEF Ledger
<1>2. Len(M) \in Nat /\ DOMAIN M = 1..Len(M)
  BY LedgerIndexed
<1> SUFFICES ASSUME NEW k \in DOMAIN N \cap DOMAIN M, N[k] = M[k], NEW i \in 1..k
             PROVE  N[i] = M[i]
  BY DEF Parted
<1>3. CASE k \in 1..Len(L)
  BY <1>1, <1>2, <1>3 DEF Parted
<1>4. CASE k = Len(L) + 1 /\ i = k
  BY <1>4
<1>5. CASE k = Len(L) + 1 /\ i # k
  <2>1. k - 1 \in 1..Len(L) /\ k - 1 \in DOMAIN M /\ k \in 2..Len(M) /\ i \in 1..(k - 1)
    BY <1>1, <1>2, <1>5
  <2>2. Follows(M[k - 1], M[k])
    BY <2>1, LedgerIndexed
  <2>3. Follows(M[k - 1], N[k])
    BY <2>2
  <2>4. N[k - 1] = M[k - 1]
    BY <2>1, <2>3, NamesBefore
  <2>5. L[k - 1] = M[k - 1]
    BY <1>1, <2>1, <2>4
  <2>6. L[i] = M[i]
    BY <1>1, <2>1, <2>5 DEF Parted
  <2> QED
    BY <1>1, <2>1, <2>6
<1> QED
  BY <1>1, <1>3, <1>4, <1>5

\* The parts of a ledger verify.
LEMMA PartsVerify ==
  ASSUME NEW L, NEW A, NEW k, Ledger(L), A \in Seq(Elements(A)), PartOf(A, L, k)
  PROVE  VerifyChain(A)
<1>1. /\ Len(L) \in Nat
      /\ DOMAIN L = 1..Len(L)
      /\ \A i \in 1..Len(L) : VerifyReceipt(L[i])
      /\ \A i \in 2..Len(L) : Follows(L[i - 1], L[i])
  BY LedgerIndexed
<1>2. /\ Len(A) \in Nat
      /\ DOMAIN A = 1..Len(A)
  BY Indexed
<1>3. /\ k \in Nat
      /\ k + Len(A) <= Len(L)
      /\ \A i \in 1..Len(A) : A[i] = L[k + i]
  BY <1>2 DEF PartOf
<1>4. VerifyLinks(A)
  <2>1. ASSUME NEW i \in 1..Len(A)
        PROVE  /\ VerifyReceipt(A[i])
               /\ i > 1 => Follows(A[i - 1], A[i])
    <3>1. k + i \in 1..Len(L) /\ A[i] = L[k + i]
      BY <1>1, <1>2, <1>3
    <3>2. ASSUME i > 1
          PROVE  Follows(A[i - 1], A[i])
      <4>1. i - 1 \in 1..Len(A) /\ k + i \in 2..Len(L) /\ k + (i - 1) = (k + i) - 1
        BY <1>1, <1>2, <1>3, <3>2
      <4>2. A[i - 1] = L[k + (i - 1)]
        BY <1>3, <4>1
      <4>3. Follows(L[(k + i) - 1], L[k + i])
        BY <1>1, <4>1
      <4>4. A[i - 1] = L[(k + i) - 1]
        BY <4>1, <4>2
      <4> QED
        BY <3>1, <4>3, <4>4
    <3> QED
      BY <1>1, <3>1, <3>2
  <2> QED
    BY <1>2, <2>1 DEF VerifyLinks
<1>5. VerifyUniqueNonces(A)
  <2>1. ASSUME NEW i \in 1..Len(A), NEW j \in 1..Len(A),
               A[i].payload.nonce = A[j].payload.nonce
        PROVE  i = j
    <3>1. k + i \in DOMAIN L /\ k + j \in DOMAIN L /\ A[i] = L[k + i] /\ A[j] = L[k + j]
      BY <1>1, <1>2, <1>3
    <3>2. VerifyUniqueNonces(L)
      BY DEF Ledger, VerifyChain
    <3>3. k + i = k + j
      BY <2>1, <3>1, <3>2 DEF VerifyUniqueNonces
    <3> QED
      BY <1>3, <3>3
  <2> QED
    BY <1>2, <2>1 DEF VerifyUniqueNonces
<1> QED
  BY <1>4, <1>5 DEF VerifyChain

\* A copy that still verifies with one receipt more verified without it.
LEMMA VerifiedBefore ==
  ASSUME NEW A, NEW x, NEW B, A \in Seq(Elements(A)), B = Append(A, x), VerifyLinks(B)
  PROVE  /\ VerifyLinks(A)
         /\ Len(A) > 0 => Follows(A[Len(A)], x)
<1> DEFINE n == Len(A)
<1>1. /\ n \in Nat
      /\ DOMAIN A = 1..n
      /\ DOMAIN B = 1..(n + 1)
      /\ \A i \in 1..n : B[i] = A[i]
      /\ B[n + 1] = x
  BY Indexed, Lengthened
<1> HIDE DEF n
<1>2. ASSUME NEW i \in 1..n
      PROVE  /\ VerifyReceipt(A[i])
             /\ i > 1 => Follows(A[i - 1], A[i])
  <2>1. i \in DOMAIN B /\ B[i] = A[i] /\ (i > 1 => B[i - 1] = A[i - 1])
    BY <1>1
  <2> QED
    BY <2>1 DEF VerifyLinks
<1>3. ASSUME n > 0
      PROVE  Follows(A[n], x)
  <2>1. n + 1 \in DOMAIN B /\ n + 1 > 1 /\ B[(n + 1) - 1] = A[n] /\ B[n + 1] = x
    BY <1>1, <1>3
  <2> QED
    BY <2>1 DEF VerifyLinks
<1> QED
  BY <1>1, <1>2, <1>3 DEF VerifyLinks, n

\* An accepted copy of one lineage is only continued within a lineage it is of.
LEMMA FilingKeepsPart ==
  ASSUME NEW A, NEW B, NEW L, NEW M, NEW i \in DOMAIN L, NEW k,
         Ledger(L), Ledger(M), L = M \/ Parted(L, M), A \in Seq(Elements(A)),
         B = Append(A, L[i]), PartOf(A, M, k), VerifyLinks(B)
  PROVE  \E j : PartOf(B, L, j)
<1> DEFINE n == Len(A)
           x == L[i]
<1>1. /\ n \in Nat
      /\ DOMAIN A = 1..n
      /\ Len(B) = n + 1
      /\ DOMAIN B = 1..(n + 1)
      /\ \A j \in 1..n : B[j] = A[j]
      /\ B[n + 1] = x
  <2> HIDE DEF x
  <2>1. B = Append(A, x)
    BY DEF x
  <2> QED
    BY <2>1, Indexed, Lengthened
<1>2. n > 0 => Follows(A[n], x)
  <2> HIDE DEF x
  <2>1. B = Append(A, x)
    BY DEF x
  <2> QED
    BY <2>1, VerifiedBefore
<1>3. /\ Len(L) \in Nat /\ DOMAIN L = 1..Len(L)
      /\ Len(M) \in Nat /\ DOMAIN M = 1..Len(M)
  BY LedgerIndexed
<1>4. /\ k \in Nat
      /\ k + n <= Len(M)
      /\ \A j \in 1..n : A[j] = M[k + j]
  BY <1>1 DEF PartOf
<1>5. CASE n = 0
  <2>1. PartOf(B, L, i - 1)
    <3>1. ASSUME NEW j \in DOMAIN B
          PROVE  B[j] = L[(i - 1) + j]
      <4>1. j = 1 /\ (i - 1) + j = i
        BY <1>1, <1>3, <1>5
      <4> QED
        BY <1>1, <1>5, <4>1
    <3> QED
      BY <1>1, <1>3, <1>5, <3>1 DEF PartOf
  <2> QED
    BY <2>1
<1>6. CASE n > 0
  <2>1. k + n \in DOMAIN M /\ n \in 1..n
    BY <1>1, <1>3, <1>4, <1>6
  <2>2. A[n] = M[k + n]
    BY <1>4, <2>1
  <2>3. Follows(M[k + n], L[i])
    BY <1>2, <1>6, <2>2
  <2>4. i = (k + n) + 1 /\ k + n \in DOMAIN L /\ L[k + n] = M[k + n]
    BY <2>1, <2>3, NamesBefore
  <2>5. \A j \in 1..(k + n) : L[j] = M[j]
    BY <2>1, <2>4 DEF Parted
  <2>6. ASSUME NEW j \in 1..(n + 1)
        PROVE  B[j] = L[k + j]
    <3>1. CASE j \in 1..n
      <4>1. k + j \in 1..(k + n)
        BY <1>1, <1>4, <3>1
      <4> QED
        BY <1>1, <1>4, <2>5, <3>1, <4>1
    <3>2. CASE j = n + 1
      <4>1. k + j = i
        BY <1>1, <1>4, <2>4, <3>2
      <4> QED
        BY <1>1, <3>2, <4>1
    <3> QED
      BY <1>1, <3>1, <3>2
  <2>7. k + (n + 1) <= Len(L)
    BY <1>1, <1>3, <1>4, <2>4
  <2>8. PartOf(B, L, k)
    BY <1>1, <1>4, <2>6, <2>7 DEF PartOf
  <2> QED
    BY <2>8
<1> QED
  BY <1>1, <1>5, <1>6

-----------------------------------------------------------------------------
(***************************************************************************)
(* The steps.                                                              *)
(***************************************************************************)

\* At first both lineages and the copy are empty.
LEMMA AuditInvInit == AuditInit => AuditInv
<1> SUFFICES ASSUME AuditInit PROVE AuditInv
  OBVIOUS
<1>1. /\ receipts = <<>>
      /\ kept.receipts = <<>>
      /\ kept.state = state
      /\ archive = <<>>
  BY DEF AuditInit, Init
<1>2. /\ DOMAIN state = StateFields
      /\ state.sequence = 0
      /\ state.previous_receipt_hash = GenesisHash
  BY DEF AuditInit, Init, Initial, StateFields
<1>3. \A L : L = <<>> => Ledger(L)
  BY DEF Ledger, VerifyChain, VerifyLinks, VerifyUniqueNonces
<1>4. LeadsTo(<<>>, state)
  <2>1. IsRecord(state)
    BY DEF AuditInit, Init, Initial, IsRecord, StateFields
  <2> QED
    BY <1>2, <2>1 DEF LeadsTo
<1>5. Parted(<<>>, <<>>)
  BY DEF Parted
<1>6. <<>> \in Seq(Elements(<<>>)) /\ PartOf(<<>>, <<>>, 0)
  BY DEF PartOf
<1> QED
  BY <1>1, <1>3, <1>4, <1>5, <1>6 DEF AuditInv

\* What a call adds to its lineage.
LEMMA CallLengthens ==
  ASSUME AuditInv, Next
  PROVE  /\ Ledger(receipts')
         /\ LeadsTo(receipts', state')
         /\ Parted(receipts', kept.receipts)
         /\ \A A, k : A \in Seq(Elements(A)) /\ PartOf(A, receipts, k)
                     => PartOf(A, receipts', k)
<1>1. PICK p, actor : p.t \in Tags /\ Commit(p, actor)
  BY NextCommits
<1>2. Ledger(receipts) /\ LeadsTo(receipts, state) /\ Ledger(kept.receipts)
  BY DEF AuditInv
<1>3. Ledger(receipts') /\ LeadsTo(receipts', state')
  BY <1>1, <1>2, CommitContinues
<1>4. receipts' = Append(receipts, ReceiptFor(state, p, actor))
  BY <1>1 DEF Commit
<1> DEFINE r == ReceiptFor(state, p, actor)
<1> HIDE DEF r
<1>5. receipts' = Append(receipts, r)
  BY <1>4 DEF r
<1>6. Parted(receipts', kept.receipts)
  <2>1. Parted(receipts, kept.receipts)
    BY DEF AuditInv
  <2> QED
    BY <1>2, <1>3, <1>5, <2>1, PartedKept
<1>7. /\ Len(receipts) \in Nat
      /\ Len(receipts') = Len(receipts) + 1
      /\ \A i \in 1..Len(receipts) : receipts'[i] = receipts[i]
  <2>1. receipts \in Seq(Elements(receipts))
    BY <1>2 DEF Ledger
  <2>2. PICK M : M = receipts'
    OBVIOUS
  <2>3. M = Append(receipts, r)
    BY <1>5, <2>2
  <2>4. /\ Len(M) = Len(receipts) + 1
        /\ \A i \in 1..Len(receipts) : M[i] = receipts[i]
    BY <2>1, <2>3, Lengthened
  <2> QED
    BY <2>1, <2>2, <2>4, Indexed
<1>8. ASSUME NEW A, NEW k, A \in Seq(Elements(A)), PartOf(A, receipts, k)
      PROVE  PartOf(A, receipts', k)
  <2>1. Len(A) \in Nat /\ DOMAIN A = 1..Len(A)
    BY <1>8, Indexed
  <2>2. /\ k \in Nat
        /\ k + Len(A) <= Len(receipts)
        /\ \A i \in 1..Len(A) : A[i] = receipts[k + i]
    BY <1>8, <2>1 DEF PartOf
  <2>3. ASSUME NEW i \in 1..Len(A)
        PROVE  A[i] = receipts'[k + i]
    <3>1. k + i \in 1..Len(receipts)
      BY <1>7, <2>1, <2>2
    <3> QED
      BY <1>7, <2>2, <3>1
  <2> QED
    BY <1>7, <2>1, <2>2, <2>3 DEF PartOf
<1> QED
  BY <1>3, <1>6, <1>8

\* The archive is a part of a lineage, as far as it verifies.
Copied(A, L, M) ==
  VerifyLinks(A) => \E k : PartOf(A, L, k) \/ PartOf(A, M, k)

\* Filing a receipt of either of two lineages keeps the copy a part of one of them.
LEMMA FilingKeepsCopied ==
  ASSUME NEW A, NEW B, NEW L, NEW M, NEW i \in DOMAIN L,
         Ledger(L), Ledger(M), Parted(L, M), A \in Seq(Elements(A)),
         B = Append(A, L[i]), Copied(A, L, M)
  PROVE  B \in Seq(Elements(B)) /\ Copied(B, L, M)
<1> DEFINE x == L[i]
<1>1. B = Append(A, x)
  OBVIOUS
<1> HIDE DEF x
<1>2. B \in Seq(Elements(B))
  BY <1>1, Lengthened
<1>3. ASSUME VerifyLinks(B)
      PROVE  \E k : PartOf(B, L, k)
  <2>1. VerifyLinks(A)
    BY <1>1, <1>3, VerifiedBefore
  <2>2. PICK k : PartOf(A, L, k) \/ PartOf(A, M, k)
    BY <2>1 DEF Copied
  <2>3. CASE PartOf(A, L, k)
    BY <1>3, <2>3, FilingKeepsPart
  <2>4. CASE PartOf(A, M, k)
    BY <1>3, <2>4, FilingKeepsPart
  <2> QED
    BY <2>2, <2>3, <2>4
<1> QED
  BY <1>2, <1>3 DEF Copied

\* Which of two lineages is named first is all the same.
LEMMA Symmetric ==
  ASSUME NEW A, NEW L, NEW M
  PROVE  /\ Ledger(L) /\ Ledger(M) /\ Parted(L, M) => Parted(M, L)
         /\ Copied(A, L, M) => Copied(A, M, L)
<1>1. ASSUME Parted(L, M), NEW k \in DOMAIN M \cap DOMAIN L, M[k] = L[k], NEW i \in 1..k
      PROVE  M[i] = L[i]
  BY <1>1 DEF Parted
<1> QED
  BY <1>1 DEF Parted, Copied

\* A later lineage has every part of an earlier one.
LEMMA EarlierParts ==
  ASSUME NEW L, NEW M, Ledger(L), Ledger(M), IsEarlier(L, M),
         NEW A, NEW k, PartOf(A, L, k), A \in Seq(Elements(A))
  PROVE  PartOf(A, M, k)
<1>1. /\ Len(L) \in Nat /\ DOMAIN L = 1..Len(L)
      /\ Len(M) \in Nat /\ DOMAIN M = 1..Len(M)
      /\ Len(A) \in Nat /\ DOMAIN A = 1..Len(A)
  BY LedgerIndexed, Indexed
<1>2. /\ k \in Nat /\ k + Len(A) <= Len(L)
      /\ \A i \in 1..Len(A) : A[i] = L[k + i]
      /\ Len(L) <= Len(M)
      /\ \A i \in 1..Len(L) : L[i] = M[i]
  BY <1>1 DEF PartOf, IsEarlier
<1>3. ASSUME NEW i \in 1..Len(A)
      PROVE  A[i] = M[k + i]
  <2>1. k + i \in 1..Len(L)
    BY <1>1, <1>2
  <2> QED
    BY <1>2, <2>1
<1> QED
  BY <1>1, <1>2, <1>3 DEF PartOf

LEMMA AuditInvCall ==
  ASSUME AuditInv, Call
  PROVE  AuditInv'
<1>1. /\ Ledger(receipts')
      /\ LeadsTo(receipts', state')
      /\ Parted(receipts', kept.receipts)
      /\ \A A, k : A \in Seq(Elements(A)) /\ PartOf(A, receipts, k)
                     => PartOf(A, receipts', k)
  BY CallLengthens DEF Call
<1>2. kept' = kept /\ archive' = archive
  BY DEF Call
<1>3. Copied(archive, receipts', kept.receipts)
  BY <1>1 DEF Copied, AuditInv
<1> QED
  BY <1>1, <1>2, <1>3 DEF AuditInv, Copied

LEMMA AuditInvKeep ==
  ASSUME AuditInv, Keep
  PROVE  AuditInv'
<1>1. /\ IsEarlier(kept.receipts, receipts)
      /\ kept'.receipts = receipts
      /\ kept'.state = state
      /\ state' = state /\ receipts' = receipts /\ archive' = archive
  BY DEF Keep
<1>2. Copied(archive, receipts, receipts)
  <2>1. ASSUME NEW k, PartOf(archive, kept.receipts, k)
        PROVE  PartOf(archive, receipts, k)
    BY <1>1, <2>1, EarlierParts DEF AuditInv
  <2> QED
    BY <2>1 DEF AuditInv, Copied
<1>3. Parted(receipts, receipts)
  BY DEF Parted
<1> QED
  BY <1>1, <1>2, <1>3 DEF AuditInv, Copied

LEMMA AuditInvGoBack ==
  ASSUME AuditInv, GoBack
  PROVE  AuditInv'
<1>1. /\ state' = kept.state
      /\ receipts' = kept.receipts
      /\ kept'.receipts = receipts
      /\ kept'.state = state
      /\ archive' = archive
  BY DEF GoBack
<1>2. Parted(kept.receipts, receipts)
  BY Symmetric DEF AuditInv
<1>3. Copied(archive, kept.receipts, receipts)
  BY DEF AuditInv, Copied
<1> QED
  BY <1>1, <1>2, <1>3 DEF AuditInv, Copied

LEMMA AuditInvFile ==
  ASSUME AuditInv, File(receipts) \/ File(kept.receipts)
  PROVE  AuditInv'
<1>1. state' = state /\ receipts' = receipts /\ kept' = kept
  BY DEF File
<1>2. /\ Ledger(receipts) /\ Ledger(kept.receipts)
      /\ Parted(receipts, kept.receipts)
      /\ Parted(kept.receipts, receipts)
      /\ archive \in Seq(Elements(archive))
      /\ Copied(archive, receipts, kept.receipts)
      /\ Copied(archive, kept.receipts, receipts)
  BY Symmetric DEF AuditInv, Copied
<1>3. PICK B : B = archive'
  OBVIOUS
<1>4. B \in Seq(Elements(B)) /\ Copied(B, receipts, kept.receipts)
  <2>1. CASE File(receipts)
    <3>1. PICK i \in DOMAIN receipts : B = Append(archive, receipts[i])
      BY <1>3, <2>1 DEF File
    <3> QED
      BY <1>2, <3>1, FilingKeepsCopied
  <2>2. CASE File(kept.receipts)
    <3>1. PICK i \in DOMAIN kept.receipts : B = Append(archive, kept.receipts[i])
      BY <1>3, <2>2 DEF File
    <3>2. B \in Seq(Elements(B)) /\ Copied(B, kept.receipts, receipts)
      BY <1>2, <3>1, FilingKeepsCopied
    <3> QED
      BY <3>2 DEF Copied
  <2> QED
    BY <2>1, <2>2
<1> QED
  BY <1>1, <1>3, <1>4 DEF AuditInv, Copied

LEMMA AuditInvKept == AuditInv /\ [AuditNext]_auditVars => AuditInv'
<1> SUFFICES ASSUME AuditInv, [AuditNext]_auditVars PROVE AuditInv'
  OBVIOUS
<1>1. CASE Call
  BY <1>1, AuditInvCall
<1>2. CASE Keep
  BY <1>2, AuditInvKeep
<1>3. CASE GoBack
  BY <1>3, AuditInvGoBack
<1>4. CASE File(receipts) \/ File(kept.receipts)
  BY <1>4, AuditInvFile
<1>5. CASE UNCHANGED auditVars
  BY <1>5 DEF auditVars, AuditInv
<1> QED
  BY <1>1, <1>2, <1>3, <1>4, <1>5 DEF AuditNext

-----------------------------------------------------------------------------
(***************************************************************************)
(* What the auditor learns.                                                *)
(***************************************************************************)

\* A part of a ledger is a segment of it, and conversely.
LEMMA PartsAreSegments ==
  ASSUME NEW L, Ledger(L), archive \in Seq(Elements(archive))
  PROVE  (\E k : PartOf(archive, L, k)) <=> (\E k \in 0..Len(L) : Segment(L, k))
<1>1. Len(L) \in Nat /\ Len(archive) \in Nat
  BY LedgerIndexed, Indexed
<1>2. ASSUME NEW k, PartOf(archive, L, k)
      PROVE  k \in 0..Len(L) /\ Segment(L, k)
  BY <1>1, <1>2 DEF PartOf, Segment
<1>3. ASSUME NEW k \in 0..Len(L), Segment(L, k)
      PROVE  PartOf(archive, L, k)
  BY <1>1, <1>3 DEF PartOf, Segment
<1> QED
  BY <1>2, <1>3

LEMMA AuditInvAccepts == AuditInv => AcceptedIffSegment
<1> SUFFICES ASSUME AuditInv PROVE AcceptedIffSegment
  OBVIOUS
<1>1. /\ Ledger(receipts) /\ Ledger(kept.receipts)
      /\ archive \in Seq(Elements(archive))
      /\ Copied(archive, receipts, kept.receipts)
  BY DEF AuditInv, Copied
<1>2. ASSUME VerifyChain(archive)
      PROVE  \E ledger \in {receipts, kept.receipts} :
               \E k \in 0..Len(ledger) : Segment(ledger, k)
  <2>1. VerifyLinks(archive)
    BY <1>2 DEF VerifyChain
  <2>2. PICK k : PartOf(archive, receipts, k) \/ PartOf(archive, kept.receipts, k)
    BY <1>1, <2>1 DEF Copied
  <2> QED
    BY <1>1, <2>2, PartsAreSegments
<1>3. ASSUME NEW ledger \in {receipts, kept.receipts}, NEW j \in 0..Len(ledger),
             Segment(ledger, j)
      PROVE  VerifyChain(archive)
  <2>1. Ledger(ledger)
    BY <1>1
  <2>2. PICK k : PartOf(archive, ledger, k)
    BY <1>1, <1>3, <2>1, PartsAreSegments
  <2> QED
    BY <1>1, <2>1, <2>2, PartsVerify
<1> QED
  BY <1>2, <1>3 DEF AcceptedIffSegment

\* verify_chain accepts a copy of the receipts exactly when it is a stretch of one
\* lineage, without a gap, a repetition, a swap or a receipt of the other lineage.
THEOREM OnlySegmentsAccepted == AuditSpec => []AcceptedIffSegment
<1>1. AuditSpec => []AuditInv
  BY AuditInvInit, AuditInvKept, PTL DEF AuditSpec
<1> QED
  BY <1>1, AuditInvAccepts, PTL

\* A state is what its hash covers and the receipt before it.
LEMMA StatesTold ==
  ASSUME NEW s, NEW t, DOMAIN s = StateFields, DOMAIN t = StateFields,
         IsRecord(s), IsRecord(t), HashState(s) = HashState(t),
         s.previous_receipt_hash = t.previous_receipt_hash
  PROVE  s = t
<1> DEFINE u == RecRemove(s, "previous_receipt_hash")
           v == RecRemove(t, "previous_receipt_hash")
<1>1. u = v
  BY DEF HashState, TaggedDigest
<1>2. ASSUME NEW f \in StateFields \ {"previous_receipt_hash"}
      PROVE  s[f] = t[f]
  <2>1. u[f] = s[f] /\ v[f] = t[f]
    BY <1>2 DEF RecRemove
  <2> QED
    BY <1>1, <2>1
<1>3. \A f \in StateFields : s[f] = t[f]
  BY <1>2
<1> QED
  BY <1>3 DEF IsRecord

\* The invariant makes every receipt tell its history.
LEMMA AuditInvTells ==
  ASSUME AuditInv
  PROVE  ReceiptTellsHistory
<1>1. ASSUME NEW i \in DOMAIN receipts, NEW j \in DOMAIN kept.receipts,
             receipts[i].receipt_hash = kept.receipts[j].receipt_hash
      PROVE  /\ i = j
             /\ \A k \in 1..i : receipts[k] = kept.receipts[k]
             /\ i = Len(receipts) /\ j = Len(kept.receipts) => state = kept.state
  <2>1. receipts[i] = kept.receipts[j] /\ i = j
    BY <1>1, HashNamesReceipt DEF AuditInv
  <2>2. \A k \in 1..i : receipts[k] = kept.receipts[k]
    BY <2>1 DEF AuditInv, Parted
  <2>3. ASSUME i = Len(receipts), j = Len(kept.receipts)
        PROVE  state = kept.state
    <3>1. receipts # <<>> /\ kept.receipts # <<>>
      BY <1>1
    <3>2. /\ DOMAIN state = StateFields /\ IsRecord(state)
          /\ receipts[i].receipt_hash = state.previous_receipt_hash
          /\ receipts[i].payload.resulting_state_hash = HashState(state)
      BY <2>3, <3>1 DEF AuditInv, LeadsTo
    <3>3. /\ DOMAIN kept.state = StateFields /\ IsRecord(kept.state)
          /\ kept.receipts[j].receipt_hash = kept.state.previous_receipt_hash
          /\ kept.receipts[j].payload.resulting_state_hash = HashState(kept.state)
      BY <2>3, <3>1 DEF AuditInv, LeadsTo
    <3> QED
      BY <2>1, <3>2, <3>3, StatesTold
  <2> QED
    BY <2>1, <2>2, <2>3
<1> QED
  BY <1>1 DEF ReceiptTellsHistory

\* Whoever holds the last receipt of a lineage holds all of it: no other lineage,
\* of whatever length, ends in the same receipt in another state.
THEOREM ReceiptsTellHistories == AuditSpec => []ReceiptTellsHistory
<1>1. AuditSpec => []AuditInv
  BY AuditInvInit, AuditInvKept, PTL DEF AuditSpec
<1> QED
  BY <1>1, AuditInvTells, PTL

\* No receipt hash is the genesis value.
LEMMA NoReceiptIsGenesis ==
  ASSUME NEW L, Ledger(L), NEW i \in DOMAIN L
  PROVE  L[i].receipt_hash # GenesisHash
<1>1. L[i].receipt_hash = ReceiptDigest(L[i].payload)
  BY DEF Ledger, Made
<1> QED
  BY <1>1 DEF ReceiptDigest, TaggedDigest, GenesisHash

\* A part of a lineage that begins at the genesis value lacks no beginning.
LEMMA PartFromGenesis ==
  ASSUME NEW A, NEW L, NEW k, Ledger(L), A \in Seq(Elements(A)), A # <<>>,
         PartOf(A, L, k), A[1].payload.previous_receipt_hash = GenesisHash
  PROVE  k = 0
<1>1. /\ k \in Nat /\ Len(A) \in Nat \ {0} /\ DOMAIN A = 1..Len(A)
      /\ k + Len(A) <= Len(L)
      /\ A[1] = L[k + 1]
  <2>1. Len(A) \in Nat \ {0} /\ DOMAIN A = 1..Len(A)
    BY Indexed
  <2> QED
    BY <2>1 DEF PartOf
<1>2. Len(L) \in Nat /\ DOMAIN L = 1..Len(L) /\ \A i \in 2..Len(L) : Follows(L[i - 1], L[i])
  BY LedgerIndexed
<1>3. ASSUME k # 0
      PROVE  FALSE
  <2>1. k + 1 \in 2..Len(L) /\ k \in DOMAIN L /\ (k + 1) - 1 = k
    BY <1>1, <1>2, <1>3
  <2>2. Follows(L[k], L[k + 1])
    BY <1>2, <2>1
  <2>3. L[k + 1].payload.previous_receipt_hash = L[k].receipt_hash
    BY <2>2 DEF Follows
  <2> QED
    BY <1>1, <2>1, <2>3, NoReceiptIsGenesis
<1> QED
  BY <1>3

\* The beginning of a lineage up to a state's last receipt is that state's ledger.
LEMMA PartUpToLink ==
  ASSUME NEW A, NEW L, NEW M, NEW s, Ledger(L), Ledger(M), LeadsTo(M, s),
         L = M \/ Parted(L, M), A \in Seq(Elements(A)), A # <<>>, PartOf(A, L, 0),
         A[Len(A)].receipt_hash = s.previous_receipt_hash
  PROVE  A = M
<1> DEFINE n == Len(A)
<1>1. n \in Nat \ {0} /\ DOMAIN A = 1..n
  BY Indexed
<1>2. /\ Len(L) \in Nat /\ DOMAIN L = 1..Len(L)
      /\ Len(M) \in Nat /\ DOMAIN M = 1..Len(M)
  BY LedgerIndexed
<1>3. n <= Len(L) /\ \A i \in 1..n : A[i] = L[i]
  BY <1>1, <1>2 DEF PartOf
<1>4. n \in DOMAIN L /\ A[n] = L[n]
  BY <1>1, <1>2, <1>3
<1>5. M # <<>>
  <2>1. L[n].receipt_hash # GenesisHash
    BY <1>4, NoReceiptIsGenesis
  <2> QED
    BY <1>4, <2>1 DEF LeadsTo
<1>6. Len(M) \in DOMAIN M /\ M[Len(M)].receipt_hash = s.previous_receipt_hash
  <2>1. Len(M) # 0
    BY <1>5, Indexed DEF Ledger
  <2> QED
    BY <1>2, <1>5, <2>1 DEF LeadsTo
<1>7. L[n] = M[Len(M)] /\ n = Len(M)
  BY <1>4, <1>6, HashNamesReceipt
<1>8. \A i \in 1..n : L[i] = M[i]
  BY <1>4, <1>6, <1>7 DEF Parted
<1>9. \A i \in 1..n : A[i] = M[i]
  BY <1>3, <1>8
<1>10. A = [i \in 1..n |-> A[i]] /\ M = [i \in 1..n |-> M[i]]
  BY <1>1, <1>2, <1>7 DEF Ledger
<1> QED
  BY <1>9, <1>10

\* With both its ends a copy that verifies is the whole ledger.
LEMMA AuditInvWhole ==
  ASSUME AuditInv
  PROVE  WholeBetweenEnds
<1> SUFFICES ASSUME VerifyChain(archive), archive # <<>>,
                    archive[1].payload.previous_receipt_hash = GenesisHash,
                    archive[Len(archive)].receipt_hash = state.previous_receipt_hash
             PROVE  archive = receipts
  BY DEF WholeBetweenEnds
<1>1. /\ Ledger(receipts) /\ LeadsTo(receipts, state)
      /\ Ledger(kept.receipts)
      /\ archive \in Seq(Elements(archive))
      /\ Parted(kept.receipts, receipts)
  BY Symmetric DEF AuditInv
<1>2. VerifyLinks(archive)
  BY DEF VerifyChain
<1>3. PICK k : PartOf(archive, receipts, k) \/ PartOf(archive, kept.receipts, k)
  BY <1>2 DEF AuditInv
<1>4. CASE PartOf(archive, receipts, k)
  BY <1>1, <1>4, PartFromGenesis, PartUpToLink
<1>5. CASE PartOf(archive, kept.receipts, k)
  BY <1>1, <1>5, PartFromGenesis, PartUpToLink
<1> QED
  BY <1>3, <1>4, <1>5

\* An auditor who compares the two ends as well, the first receipt with the genesis
\* value and the last with the state's link, knows that nothing is missing, cut off
\* or of another lineage.
THEOREM NothingMissingBetweenEnds == AuditSpec => []WholeBetweenEnds
<1>1. AuditSpec => []AuditInv
  BY AuditInvInit, AuditInvKept, PTL DEF AuditSpec
<1> QED
  BY <1>1, AuditInvWhole, PTL
=============================================================================
