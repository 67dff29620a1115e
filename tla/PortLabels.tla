----------------------------- MODULE PortLabels -----------------------------
(***************************************************************************)
(* The Rust port's labels.  Its operators keep the names of the Rust       *)
(* functions; a struct is a record with the fields of the struct, an       *)
(* Option is Null or the value, and a protocol Value is the record,        *)
(* sequence or scalar it stands for.                                       *)
(***************************************************************************)
EXTENDS Canonical

label_public == [kind |-> "public", owner |-> "*", compartments |-> <<>>]
label_internal ==
  [kind |-> "internal", owner |-> "organization", compartments |-> <<>>]
label_customer(id) ==
  [kind |-> "customer", owner |-> id, compartments |-> <<"customer_data">>]
label_secret(id) ==
  [kind |-> "secret", owner |-> id, compartments |-> <<"secret">>]

label_value(label) ==
  [kind |-> label.kind, owner |-> label.owner,
   compartments |-> label.compartments]

rank(kind) ==
  CASE kind = "public"   -> 0
    [] kind = "internal" -> 1
    [] kind = "customer" -> 2
    [] kind = "secret"   -> 3
    [] OTHER             -> 100

valid(label) == rank(label.kind) < 100

\* Mutant: which list must contain the other is swapped.
contained_in_all(xs, ys) ==
  \A i \in DOMAIN xs : \E j \in DOMAIN ys : ys[j] = xs[i]

contains_all(xs, ys) ==
  \A j \in DOMAIN ys : \E i \in DOMAIN xs : xs[i] = ys[j]

flows_to(source, sink) ==
  /\ valid(source)
  /\ valid(sink)
  /\ \/ source.kind = "public"
     \/ source.kind = "internal" /\ rank(sink.kind) >= 1
     \/ /\ source.kind \in {"customer", "secret"}
        /\ sink.kind = source.kind
        /\ source.owner = sink.owner
        /\ contains_all(sink.compartments, source.compartments)
=============================================================================
