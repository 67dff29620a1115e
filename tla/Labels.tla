------------------------------- MODULE Labels -------------------------------
(***************************************************************************)
(* Information-flow labels: a kind, an owner and a list of compartments,   *)
(* and the relation that says which label may flow into which.             *)
(***************************************************************************)
EXTENDS Canonical

PublicLabel == [kind |-> "public", owner |-> "*", compartments |-> <<>>]
InternalLabel ==
  [kind |-> "internal", owner |-> "organization", compartments |-> <<>>]
CustomerLabel(c) ==
  [kind |-> "customer", owner |-> c, compartments |-> <<"customer_data">>]
SecretLabel(x) ==
  [kind |-> "secret", owner |-> x, compartments |-> <<"secret">>]

Rank(kind) ==
  CASE kind = "public"   -> 0
    [] kind = "internal" -> 1
    [] kind = "customer" -> 2
    [] kind = "secret"   -> 3
    [] OTHER             -> 100

\* A label may carry further fields: only these three are looked at.
Valid(label) ==
  /\ label # Malformed
  /\ RequireTextFields(label, {"kind", "owner"})
  /\ "compartments" \in DOMAIN label
  /\ label.compartments # Malformed
  /\ Rank(label.kind) < 100

ContainsAll(xs, ys) ==
  \A j \in DOMAIN ys : \E i \in DOMAIN xs : xs[i] = ys[j]

SameDomain(source, sink) ==
  /\ sink.kind = source.kind
  /\ sink.owner = source.owner
  /\ ContainsAll(sink.compartments, source.compartments)

FlowsTo(source, sink) ==
  /\ Valid(source)
  /\ Valid(sink)
  /\ \/ source.kind = "public"
     \/ source.kind = "internal" /\ Rank(sink.kind) >= 1
     \/ source.kind \in {"customer", "secret"} /\ SameDomain(source, sink)

\* The join is the larger of two comparable labels; there is no other.
Joinable(a, b) == FlowsTo(a, b) \/ FlowsTo(b, a)
Join(a, b) == IF FlowsTo(a, b) THEN b ELSE a
=============================================================================
