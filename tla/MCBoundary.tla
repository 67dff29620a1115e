----------------------------- MODULE MCBoundary -----------------------------
(***************************************************************************)
(* One text, two actors and two configurations with the same secret, so    *)
(* that only the digests tell a certificate of the one from one of the     *)
(* other: the second has another recipient, lets the author approve and    *)
(* no longer lets the drafter read.                                        *)
(***************************************************************************)
EXTENDS Boundary, MCBusiness

CONSTANTS n1, n2, n3

MCNonces == {n1, n2, n3}

\* One fresh nonce, or any when all are consumed.  Nonces are compared only for
\* equality and length, so which of the fresh ones it is does not matter; a
\* consumed one comes back with the certificate that is kept.
MCOffered(s) ==
  LET fresh == Nonces \ s.consumed_nonces IN
  {CHOOSE n \in Nonces : fresh # {} => n \in fresh}

\* The drafter has the role and the operation to approve: where duties are
\* separated it may not approve what it wrote.
First ==
  [MCConfig EXCEPT !.capabilities.actors.drafter =
     [role |-> "approver", operations |-> {"read_invoice", "create_draft", "approve_draft"}]]

\* Other recipients, duties no longer separated, no reads for the drafter.
Moved ==
  [First EXCEPT !.policy.approved_recipients = [cust_1 |-> {"accounts@1"}],
                !.policy.require_separation_of_duties = FALSE,
                !.capabilities.actors.drafter.operations =
                  {"create_draft", "approve_draft"}]

MCConfigs == {First, Moved}

TwoActors == {"drafter", "approver"}
OneInvoice == {"inv_1"}
OneThread == {"thread_1"}
OneCustomer == {"cust_1"}
OneBody == {"dear customer"}
OneLabel == {WithPii("cust_1")}
TwoRecipients == {"billing@1", "accounts@1"}
NoChannel == {}
=============================================================================
