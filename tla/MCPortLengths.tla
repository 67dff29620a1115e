--------------------------- MODULE MCPortLengths ----------------------------
(***************************************************************************)
(* Texts of three characters, the limit: one of ASCII letters, one with a  *)
(* letter of two bytes, one with a character of four bytes, which is two   *)
(* UTF-16 units.                                                           *)
(***************************************************************************)
EXTENDS PortLengths, MCBusiness

CONSTANTS n1, n2, n3

LengthBodies == {"final notice", "umlaut", "emoji"}

Bytes(x) ==
  CASE x = "umlaut" -> 4 [] x = "emoji" -> 6 [] OTHER -> MCStrLen(x)
Points(x) == IF x \in LengthBodies THEN 3 ELSE MCStrLen(x)
Units(x) == IF x = "emoji" THEN 4 ELSE Points(x)

LengthNonces == {n1, n2, n3}
LengthOffered(s) ==
  LET fresh == LengthNonces \ s.consumed_nonces IN
  IF fresh = {} THEN {} ELSE {CHOOSE n \in fresh : TRUE}

LengthBusiness ==
  [MCConfig EXCEPT
     !.invoices = [inv_1 |-> [invoice_id |-> "inv_1", customer_id |-> "cust_1",
                              status |-> "open", amount_cents |-> 1,
                              label |-> CustomerLabel("cust_1")]],
     !.threads = [thread_1 |-> [thread_id |-> "thread_1", customer_id |-> "cust_1"]]]
LengthLabels == {CustomerLabel("cust_1"), WithPii("cust_1")}
=============================================================================
