------------------------------ MODULE MCEngine ------------------------------
(***************************************************************************)
(* Instances of Engine, with the Authority it implements: a wide one and   *)
(* long ones.                                                              *)
(***************************************************************************)
EXTENDS EngineAuthority, MCBusiness

CONSTANTS n1, n2, n3, n4, n5, n6

\* The number of nonces bounds the number of committed calls.
MCNonces == {n1, n2, n3, n4}
FiveNonces == {n1, n2, n3, n4, n5}
LongNonces == {n1, n2, n3, n4, n5, n6}

\* The consumed nonces and one fresh one.  Nonces are compared only for
\* equality and length, so which of the fresh ones it is does not matter.
MCOffered(s) ==
  LET fresh == Nonces \ s.consumed_nonces IN
  s.consumed_nonces \cup (IF fresh = {} THEN {} ELSE {CHOOSE n \in fresh : TRUE})

(***************************************************************************)
(* Wide: every combination of a customer's data, four commits.             *)
(***************************************************************************)
MCInvoiceIds == {"inv_1", "inv_2"}
MCThreadIds == {"thread_1", "thread_2"}
MCCustomerIds == {"cust_1", "cust_2"}
MCBodies == {"dear customer", "final notice"}
MCLabels == {CustomerLabel("cust_1"), CustomerLabel("cust_2"), WithPii("cust_1"), InternalLabel}
MCRecipients == {"billing@1", "accounts@2"}
MCChannels == {"finance", "team_1"}

(***************************************************************************)
(* Long: one customer and one text, six commits, so that drafts are        *)
(* written, approved and delivered again and every quota is reached.       *)
(***************************************************************************)
LongInvoiceIds == {"inv_1"}
LongThreadIds == {"thread_1"}
LongCustomerIds == {"cust_1"}
LongBodies == {"dear customer"}
LongLabels == {WithPii("cust_1")}
LongRecipients == {"billing@1"}
LongChannels == {"team_1"}
=============================================================================
