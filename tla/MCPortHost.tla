----------------------------- MODULE MCPortHost -----------------------------
(***************************************************************************)
(* Two workers, one customer, one text, three commits.                     *)
(***************************************************************************)
EXTENDS PortHost, MCBusiness, TLC

CONSTANTS n1, n2, n3, w1, w2

HostBusiness ==
  [MCConfig EXCEPT
     !.invoices = [inv_1 |-> [invoice_id |-> "inv_1", customer_id |-> "cust_1",
                              status |-> "open", amount_cents |-> 1,
                              label |-> WithPii("cust_1")]],
     !.threads = [thread_1 |-> [thread_id |-> "thread_1", customer_id |-> "cust_1"]]]

HostNonces == {n1, n2, n3}
HostWorkers == {w1, w2}
HostSymmetry == Permutations(HostWorkers)

\* One fresh nonce: a consumed one is tried again with its certificate.
HostOffered(s) ==
  LET fresh == HostNonces \ s.consumed_nonces IN
  IF fresh = {} THEN {} ELSE {CHOOSE n \in fresh : TRUE}

\* Two workers hold the same forged certificate, or only one holds one.
OneForgery ==
  \A v, w \in Workers :
    pc[v] # "idle" /\ pc[w] # "idle" /\ ~job[v].asked /\ ~job[w].asked
      => job[v].certificate = job[w].certificate

HostActorIds == {"drafter", "approver"}
HostLabels == {WithPii("cust_1")}

\* The instance is one the theorems of PortProofs speak of.
ASSUME HoldsInStructs == Portable
=============================================================================
