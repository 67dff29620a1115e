------------------------------ MODULE MCAudit -------------------------------
(***************************************************************************)
(* Two lineages of up to three calls each, and copies of up to three       *)
(* receipts of either.                                                     *)
(***************************************************************************)
EXTENDS Audit, MCBusiness

CONSTANTS n1, n2, n3

AuditNonces == {n1, n2, n3}
AuditOffered(s) ==
  LET fresh == AuditNonces \ s.consumed_nonces IN
  IF fresh = {} THEN {} ELSE {CHOOSE n \in fresh : TRUE}
AuditLabels == {WithPii("cust_1")}
=============================================================================
