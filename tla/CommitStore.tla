---------------------------- MODULE CommitStore ----------------------------
(***************************************************************************)
(* The commit store: Engine's state behind a mutex, and callers that read, *)
(* build a proposal, and commit it by compare-and-swap.  A call of commit  *)
(* is three steps, because other callers run in between: it enters, it     *)
(* takes the mutex and with it the state, and it puts a state back.  What  *)
(* callers do around their calls (reading first, trying again after a      *)
(* conflict, repeating a call) is not fixed by the store and left open.    *)
(***************************************************************************)
EXTENDS Engine

CONSTANTS
  Callers,
  ActorOf,     \* the actor each caller acts for
  NonceOf,     \* the nonce each caller uses; callers may share one
  MaxCalls     \* how many decided calls a caller makes (bounds the model)

ASSUME CallersAssumption ==
  /\ ActorOf \in [Callers -> ActorIds]
  /\ NonceOf \in [Callers -> Nonces]
  /\ MaxCalls \in Nat \ {0}
  /\ Null \notin Callers

VARIABLES
  holder,     \* the caller that holds the mutex, or Null
  pc,         \* where each caller is
  proposal,   \* the proposal of each caller's call
  expected,   \* the expected_state_hash of each caller's call
  current,    \* the state each caller found when it took the mutex
  reply,      \* the answer to each caller's last call
  calls       \* how many of its calls were decided

storeVars == <<state, holder, pc, proposal, expected, current, reply, calls, receipts>>

StoreInit ==
  /\ Init
  /\ holder = Null
  /\ pc = [c \in Callers |-> "idle"]
  /\ proposal = [c \in Callers |-> Null]
  /\ expected = [c \in Callers |-> Null]
  /\ current = [c \in Callers |-> Null]
  /\ reply = [c \in Callers |-> "none"]
  /\ calls = [c \in Callers |-> 0]

\* Any proposal of caller c's actor and nonce against state s, and one that
\* is no record at all.
ProposalsOf(c, s) ==
  LET HeaderOf(tag) == [t |-> tag, nonce |-> NonceOf[c],
                    expected_state_hash |-> HashState(s)]
  IN  UNION {{Malformed},
             ReadProposals(HeaderOf("read_invoice")),
             CreateProposals(HeaderOf("create_draft")),
             ApproveProposals(HeaderOf("approve_draft"), s),
             SubmitProposals(HeaderOf("submit_draft"), s),
             PostProposals(HeaderOf("post_to_slack"), s)}

\* current_state locks and unlocks at once: it waits for the mutex to be free
\* and reads.  The caller then makes up its call.
Call(c) ==
  /\ pc[c] = "idle"
  /\ calls[c] < MaxCalls
  /\ holder = Null
  /\ \E p \in ProposalsOf(c, state) : proposal' = [proposal EXCEPT ![c] = p]
  /\ expected' = [expected EXCEPT ![c] = HashState(state)]
  /\ pc' = [pc EXCEPT ![c] = "entering"]
  /\ UNCHANGED <<state, holder, current, reply, calls, receipts>>

\* After a conflict a careless caller reads the state again but sends the
\* proposal it had.
CallAgain(c) ==
  /\ pc[c] = "idle"
  /\ calls[c] < MaxCalls
  /\ reply[c] = "conflict"
  /\ holder = Null
  /\ expected' = [expected EXCEPT ![c] = HashState(state)]
  /\ pc' = [pc EXCEPT ![c] = "entering"]
  /\ UNCHANGED <<state, holder, proposal, current, reply, calls, receipts>>

(***************************************************************************)
(* commit                                                                  *)
(***************************************************************************)

\* mutex.lock blocks until the mutex is free, and hands over the state.
\* Mutant: the state is read without taking the mutex.
ReadWithoutLock(c) ==
  /\ pc[c] = "entering"
  /\ holder' = c
  /\ current' = [current EXCEPT ![c] = state]
  /\ pc' = [pc EXCEPT ![c] = "locked"]
  /\ UNCHANGED <<state, proposal, expected, reply, calls, receipts>>

Lock(c) ==
  /\ pc[c] = "entering"
  /\ holder = Null
  /\ holder' = c
  /\ current' = [current EXCEPT ![c] = state]
  /\ pc' = [pc EXCEPT ![c] = "locked"]
  /\ UNCHANGED <<state, proposal, expected, reply, calls, receipts>>

\* mutex.unlock puts s back; the call returns answer.
Unlock(c, s, answer) ==
  /\ state' = s
  /\ holder' = Null
  /\ current' = [current EXCEPT ![c] = Null]
  /\ reply' = [reply EXCEPT ![c] = answer]
  /\ pc' = [pc EXCEPT ![c] = "idle"]

\* The compare of the compare-and-swap.
\* Mutant: what the proposal expects is compared instead.
MatchesProposal(c) ==
  proposal[c] # Malformed
    => HashState(current[c]) = proposal[c].expected_state_hash

Matches(c) == HashState(current[c]) = expected[c]

\* Mutant: a conflict goes back to waiting for the mutex with the hash it had.
ConflictAndWait(c) ==
  /\ pc[c] = "locked"
  /\ ~Matches(c)
  /\ holder' = Null
  /\ current' = [current EXCEPT ![c] = Null]
  /\ reply' = [reply EXCEPT ![c] = "conflict"]
  /\ pc' = [pc EXCEPT ![c] = "entering"]
  /\ UNCHANGED <<state, proposal, expected, calls, receipts>>

Conflict(c) ==
  /\ pc[c] = "locked"
  /\ ~Matches(c)
  /\ Unlock(c, current[c], "conflict")
  /\ UNCHANGED <<proposal, expected, calls, receipts>>

\* Mutant: a rejection returns without giving the mutex back.
RejectAndKeep(c) ==
  /\ pc[c] = "locked"
  /\ Matches(c)
  /\ ~Commits(current[c], proposal[c], ActorOf[c])
  /\ reply' = [reply EXCEPT
                ![c] = RejectionStage(current[c], proposal[c], ActorOf[c])]
  /\ pc' = [pc EXCEPT ![c] = "idle"]
  /\ calls' = [calls EXCEPT ![c] = @ + 1]
  /\ UNCHANGED <<state, holder, current, proposal, expected, receipts>>

Reject(c) ==
  /\ pc[c] = "locked"
  /\ Matches(c)
  /\ ~Commits(current[c], proposal[c], ActorOf[c])
  /\ Unlock(c, current[c], RejectionStage(current[c], proposal[c], ActorOf[c]))
  /\ calls' = [calls EXCEPT ![c] = @ + 1]
  /\ UNCHANGED <<proposal, expected, receipts>>

\* Mutant: the state that was found is put back after a commit.
CommitAndForget(c) ==
  /\ pc[c] = "locked"
  /\ Matches(c)
  /\ Commits(current[c], proposal[c], ActorOf[c])
  /\ Unlock(c, current[c], "committed")
  /\ calls' = [calls EXCEPT ![c] = @ + 1]
  /\ receipts' = Append(receipts, ReceiptFor(current[c], proposal[c], ActorOf[c]))
  /\ UNCHANGED <<proposal, expected>>

StoreCommit(c) ==
  /\ pc[c] = "locked"
  /\ Matches(c)
  /\ Commits(current[c], proposal[c], ActorOf[c])
  /\ Unlock(c, NextState(current[c], proposal[c], ActorOf[c]), "committed")
  /\ calls' = [calls EXCEPT ![c] = @ + 1]
  /\ receipts' = Append(receipts, ReceiptFor(current[c], proposal[c], ActorOf[c]))
  /\ UNCHANGED <<proposal, expected>>

CallerStep(c) ==
  Call(c) \/ CallAgain(c) \/ Lock(c) \/ Conflict(c) \/ Reject(c) \/ StoreCommit(c)

StoreNext == \E c \in Callers : CallerStep(c)

StoreSpec == StoreInit /\ [][StoreNext]_storeVars

(***************************************************************************)
(* A call of commit runs to its end once it has been made, as a thread of  *)
(* the process does; and a caller that met a conflict tries again, as the  *)
(* store asks of it.  Nobody is obliged to make a first call.              *)
(***************************************************************************)
Answer(c) == Conflict(c) \/ Reject(c) \/ StoreCommit(c)
Retry(c)  == reply[c] = "conflict" /\ (Call(c) \/ CallAgain(c))

Fairness ==
  \A c \in Callers :
    WF_storeVars(Lock(c)) /\ WF_storeVars(Answer(c)) /\ WF_storeVars(Retry(c))

FairStoreSpec == StoreSpec /\ Fairness

-----------------------------------------------------------------------------

\* Callers are where their variables say they are, and only the holder of the
\* mutex has a state in hand: the one that is put back or replaced.
StoreTypeOK ==
  /\ holder \in Callers \cup {Null}
  /\ pc \in [Callers -> {"idle", "entering", "locked"}]
  /\ reply \in [Callers -> {"none", "conflict", "parse", "policy", "execution",
                             "committed"}]
  /\ calls \in [Callers -> 0..MaxCalls]
  /\ DOMAIN proposal = Callers /\ DOMAIN expected = Callers
  /\ \A c \in Callers : pc[c] = "locked" <=> holder = c
  /\ current = [c \in Callers |-> IF holder = c THEN state ELSE Null]

\* Of all calls made against one state, at most one commits, ever.
OneWinner ==
  \A i, j \in DOMAIN receipts :
    receipts[i].payload.prior_state_hash = receipts[j].payload.prior_state_hash
      => i = j

\* No nonce commits twice, though callers share nonces, repeat their calls,
\* and send them again after a conflict.
NonceOnce ==
  \A i, j \in DOMAIN receipts :
    receipts[i].payload.nonce = receipts[j].payload.nonce => i = j

\* What the policy admits is never refused at execution: the certificate just
\* issued verifies and the second run of the kernel agrees with the first.
ExecutionAgrees == \A c \in Callers : reply[c] # "execution"

\* A conflict is only reported to a caller whose state really has been left
\* behind: a commit was made after the state it expects was current.
ConflictIsHonest ==
  [][\A c \in Callers :
       pc[c] = "locked" /\ pc'[c] = "idle" /\ reply'[c] = "conflict"
         => expected[c][2].sequence < state.sequence]_storeVars

\* The store, with all its callers, is one lineage of the engine: commits are
\* serialised, and no call that does not commit changes the state.
Serialised == Spec

\* A call of commit returns, whoever else calls.
EveryCallReturns ==
  \A c \in Callers : pc[c] = "entering" ~> pc[c] = "idle"

\* A caller that met a conflict and keeps trying gets a decision.
RetriesSettle ==
  \A c \in Callers :
    reply[c] = "conflict" ~> reply[c] \in {"committed", "policy", "parse"}
=============================================================================
