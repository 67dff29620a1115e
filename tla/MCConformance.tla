--------------------------- MODULE MCConformance ----------------------------
(***************************************************************************)
(* An instance of Conformance: the small business with whole invoices and  *)
(* threads, an invoice and a channel that do not exist, a text at the      *)
(* limit, one over it and the empty one.                                   *)
(***************************************************************************)
EXTENDS Conformance, MCBusiness

CONSTANTS n1, n2, n3, n4, short

PortBusiness ==
  [MCConfig EXCEPT
     !.invoices = [inv_1 |-> [invoice_id |-> "inv_1", customer_id |-> "cust_1",
                              status |-> "open", amount_cents |-> 1,
                              label |-> WithPii("cust_1")],
                   inv_2 |-> [invoice_id |-> "inv_2", customer_id |-> "cust_2",
                              status |-> "paid", amount_cents |-> 2,
                              label |-> CustomerLabel("cust_2")]],
     !.threads = [thread_1 |-> [thread_id |-> "thread_1", customer_id |-> "cust_1"],
                  thread_2 |-> [thread_id |-> "thread_2", customer_id |-> "cust_2"]]]

PortStrLen(x) == IF x = "overlong" THEN 4 ELSE IF x = short THEN 11 ELSE MCStrLen(x)

PortNonces == {n1, n2, n3, n4, short}

\* Nonces are compared for equality and length only: a short one, a fresh one
\* and a consumed one stand for all.
OneOf(S) == IF S = {} THEN {} ELSE {CHOOSE x \in S : TRUE}
PortOffered(s) ==
  {short} \cup OneOf(s.consumed_nonces)
          \cup OneOf({n1, n2, n3, n4} \ s.consumed_nonces)

PortInvoiceIds == {"inv_1", "inv_9"}
PortThreadIds == {"thread_1", "thread_9"}
PortCustomerIds == {"cust_1"}
PortBodies == {"final notice", "overlong", ""}
ClaimedPortLabels == {CustomerLabel("cust_1"), WithPii("cust_1")}
PortRecipients == {"billing@1", "accounts@2"}
PortChannels == {"team_1", "finance", "nowhere"}

\* The instance is one the theorems of PortProofs speak of.
ASSUME HoldsInStructs == Portable
=============================================================================
