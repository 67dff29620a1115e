------------------------------ MODULE PortHost ------------------------------
(***************************************************************************)
(* A host built on the Rust port.  The port judges and signs but takes no  *)
(* step and keeps no state, so its workers do: a worker has a certificate  *)
(* signed on the state it read, hands it to execute_exact, possibly much   *)
(* later, and commits if the state is still the one execute_exact accepted *)
(* it on.  Certificates may be copied to another worker, tried again after *)
(* a commit or a conflict, or signed without asking the policy kernel.     *)
(***************************************************************************)
EXTENDS Conformance

CONSTANT Workers

VARIABLES
  pc,    \* of each worker: idle, certified, accepted or refused
  job    \* of each worker: what it has in hand, Null when idle

hostVars == <<state, receipts, pc, job>>

HostInit ==
  /\ Init
  /\ pc = [w \in Workers |-> "idle"]
  /\ job = [w \in Workers |-> Null]

Become(w, status, j) ==
  /\ pc' = [pc EXCEPT ![w] = status]
  /\ job' = [job EXCEPT ![w] = j]

\* certificate and seen aside, what a worker has in hand: the proposal, the
\* actor, whether the kernel was asked, and the code it was refused with.
NewJob(p, actor, certificate, asked) ==
  [action |-> p, actor |-> actor, certificate |-> certificate, asked |-> asked,
   seen |-> Null, code |-> Null]

\* policy::verify allows the proposal, and a certificate is issued for it.
Certify(w, actor, p) ==
  LET decision == PortVerify(state, p, actor) IN
  /\ pc[w] = "idle"
  /\ is_allow(decision)
  /\ Become(w, "certified",
            NewJob(p, actor, PortIssue(state, p, actor, decision.obligations,
                                       Config.broker_secret), TRUE))
  /\ UNCHANGED vars

\* A certificate is issued without asking the kernel, for an action it would
\* deny, with obligations consistent with the action (executor.rs:164-185).
Forge(w, actor, p) ==
  /\ pc[w] = "idle"
  /\ ~is_allow(PortVerify(state, p, actor))
  /\ Become(w, "certified",
            NewJob(p, actor, PortIssue(state, p, actor, ClaimedObligations(state, p),
                                       Config.broker_secret), FALSE))
  /\ UNCHANGED vars

\* The same certificate reaches a second worker.
Copy(w, from) ==
  /\ pc[w] = "idle"
  /\ pc[from] = "certified"
  /\ Become(w, "certified", job[from])
  /\ UNCHANGED vars

Accepted(w) == PortExecute(state, job[w].action, job[w].actor, job[w].certificate)

Accept(w) ==
  /\ pc[w] = "certified"
  /\ Accepted(w).ok
  /\ Become(w, "accepted", [job[w] EXCEPT !.seen = state])
  /\ UNCHANGED vars

Refuse(w) ==
  /\ pc[w] = "certified"
  /\ ~Accepted(w).ok
  /\ Become(w, "refused", [job[w] EXCEPT !.code = Accepted(w).code])
  /\ UNCHANGED vars

HostReceipt(j) ==
  CreateReceipt(j.seen, j.action, j.actor, CertificateRecord(j.certificate),
                ExecutionResult(j.seen, j.action, j.actor),
                ExecutionState(j.seen, j.action, j.actor))

\* Mutant: the state is swapped without comparing it.
CommitUnchecked(w) ==
  LET receipt == HostReceipt(job[w]) IN
  /\ pc[w] = "accepted"
  /\ state' = WithPreviousReceipt(ExecutionState(job[w].seen, job[w].action, job[w].actor),
                                  receipt.receipt_hash)
  /\ receipts' = Append(receipts, receipt)
  /\ Become(w, "certified", [job[w] EXCEPT !.seen = Null])

\* Compare and swap.  The answer may be lost: the worker still has its
\* certificate and may try it again.
HostCommit(w) ==
  LET receipt == HostReceipt(job[w]) IN
  /\ pc[w] = "accepted"
  /\ HashState(state) = HashState(job[w].seen)
  /\ state' = WithPreviousReceipt(ExecutionState(job[w].seen, job[w].action, job[w].actor),
                                  receipt.receipt_hash)
  /\ receipts' = Append(receipts, receipt)
  /\ Become(w, "certified", [job[w] EXCEPT !.seen = Null])

Conflict(w) ==
  /\ pc[w] = "accepted"
  /\ HashState(state) # HashState(job[w].seen)
  /\ Become(w, "certified", [job[w] EXCEPT !.seen = Null])
  /\ UNCHANGED vars

Drop(w) ==
  /\ pc[w] \in {"certified", "refused"}
  /\ Become(w, "idle", Null)
  /\ UNCHANGED vars

HostNext ==
  \E w \in Workers :
    \/ \E actor \in ActorIds, p \in Offers(state) : Certify(w, actor, p)
    \/ \E actor \in ActorIds, p \in Offers(state) : Forge(w, actor, p)
    \/ \E from \in Workers : Copy(w, from)
    \/ Accept(w)
    \/ Refuse(w)
    \/ HostCommit(w)
    \/ Conflict(w)
    \/ Drop(w)

HostSpec == HostInit /\ [][HostNext]_hostVars

(***************************************************************************)
(* Properties.                                                             *)
(***************************************************************************)

\* The host is the engine: whatever is copied, delayed, retried or forged, its
\* states and receipts are those of one lineage of apply_with_receipt calls.
\* (executor.rs:43-44: the executor is the authority, not the certificate.)
ImplementsEngine == Spec

\* A certificate is good for one receipt, although execute_exact may accept it
\* any number of times before the first commit (executor.rs:80 returns Ok and
\* consumes nothing).
OneReceiptPerCertificate ==
  \A i, j \in DOMAIN receipts :
    receipts[i].payload.certificate_hash = receipts[j].payload.certificate_hash
      => i = j

\* The holder of a certificate the kernel allowed is told the truth when it is
\* refused: the state has moved, so proposing again is the remedy; never a
\* policy denial, a mac or an obligation mismatch (certificate.rs:84-98).
RefusedOnlyAsStale ==
  \A w \in Workers :
    pc[w] = "refused" /\ job[w].asked => job[w].code = "CERTIFICATE_STATE_MISMATCH"
=============================================================================
