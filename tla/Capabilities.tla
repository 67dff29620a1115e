---------------------------- MODULE Capabilities ----------------------------
(***************************************************************************)
(* Actor-specific operation lists with no default: an actor that is not    *)
(* listed, or whose entry lists no operations, may do nothing.             *)
(***************************************************************************)
EXTENDS Canonical

CapabilitiesValid(caps) ==
  /\ caps # Malformed
  /\ \A f \in {"actors", "operations"} :
       f \in DOMAIN caps /\ caps[f] # Malformed

\* Lists of operations are modelled as sets: only membership is read.
OperationAllowed(caps, actor, operation) ==
  /\ actor \in DOMAIN caps.actors
  /\ "operations" \in DOMAIN caps.actors[actor]
  /\ caps.actors[actor].operations # Malformed
  /\ operation \in caps.actors[actor].operations

ActorRole(caps, actor) ==
  IF actor \in DOMAIN caps.actors /\ "role" \in DOMAIN caps.actors[actor]
  THEN caps.actors[actor].role
  ELSE Null

CapabilitiesDigest(caps) == TaggedDigest("confine.capabilities.v1", caps)
=============================================================================
