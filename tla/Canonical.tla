----------------------------- MODULE Canonical -----------------------------
(***************************************************************************)
(* The value model every other module stands on: records with optional     *)
(* fields, field-presence and type checks, and domain-separated digests.   *)
(* SHA-256 is modelled as collision free: a digest is the pair of its tag  *)
(* and the value it commits to, so two digests are equal exactly when tag  *)
(* and canonical value are.                                                *)
(***************************************************************************)
EXTENDS Integers, Sequences, FiniteSets

CONSTANTS
  Malformed,   \* stands for any value of the wrong type (or a non-sha256 text)
  Null,        \* FARD's null
  StrLen(_)    \* str.len of a text

TaggedDigest(tag, value) == <<tag, value>>

\* The genesis receipt hash: a well-formed sha256 text that digests nothing.
GenesisHash == <<"genesis", "sha256:0">>

IsText(x) == x # Malformed

RequireTextFields(r, names) == \A f \in names : f \in DOMAIN r /\ IsText(r[f])

NoUnknownFields(r, allowed) == DOMAIN r \subseteq allowed

ValidSha256(x) == x # Malformed

\* rec.set: f with key k bound to v, added or overwritten.
RecSet(f, k, v) == [x \in DOMAIN f \cup {k} |-> IF x = k THEN v ELSE f[x]]

\* rec.remove
RecRemove(f, k) == [x \in DOMAIN f \ {k} |-> f[x]]

EmptyRec == [x \in {} |-> x]
=============================================================================
