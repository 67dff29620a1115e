------------------------- MODULE CommitStoreProofs --------------------------
(***************************************************************************)
(* The commit store, for any number of callers and calls: it refines       *)
(* Engine, so what is proved of one lineage holds of the store with all    *)
(* its callers; the mutex, the answers and the conflicts are as promised.  *)
(***************************************************************************)
EXTENDS CommitStore, EngineFlowProofs

\* What a caller sends was made up against some state, by its own rules.
Sendable(c) == \E s : proposal[c] \in ProposalsOf(c, s)

Calling(c) == pc[c] # "idle"

\* A caller that is calling, or may call again, has a proposal in hand.
CallsSendable ==
  \A c \in Callers : Calling(c) \/ reply[c] = "conflict" => Sendable(c)

CallsBounded == \A c \in Callers : Calling(c) => calls[c] < MaxCalls

StoreInv == StoreTypeOK /\ CallsSendable /\ CallsBounded

-----------------------------------------------------------------------------
(***************************************************************************)
(* A call that commits is a step of the lineage.                           *)
(***************************************************************************)

\* A sendable proposal that commits is a step of the lineage.
LEMMA CommitIsStep ==
  ASSUME NoncesOffered, NEW c \in Callers, Sendable(c), Commit(proposal[c], ActorOf[c])
  PROVE  Next
<1>1. PICK s : proposal[c] \in ProposalsOf(c, s)
  BY DEF Sendable
<1>2. proposal[c] # Malformed
  BY DEF Commit, Commits, Parses
<1> DEFINE sent(tag) == [t |-> tag, nonce |-> NonceOf[c], expected_state_hash |-> HashState(s)]
<1>3. \/ proposal[c] \in ReadProposals(sent("read_invoice"))
      \/ proposal[c] \in CreateProposals(sent("create_draft"))
      \/ proposal[c] \in ApproveProposals(sent("approve_draft"), s)
      \/ proposal[c] \in SubmitProposals(sent("submit_draft"), s)
      \/ proposal[c] \in PostProposals(sent("post_to_slack"), s)
  BY <1>1, <1>2 DEF ProposalsOf
<1>4. NonceOf[c] \in Nonces /\ ActorOf[c] \in ActorIds
  BY CallersAssumption
<1>5. \A tag : sent(tag).t = tag /\ sent(tag).nonce \in Nonces
  BY <1>4
<1> HIDE DEF sent
<1>6. Proposable(proposal[c])
  BY <1>3, <1>5 DEF Proposable
<1> QED
  BY <1>4, <1>6, ProposableCommits

-----------------------------------------------------------------------------
(***************************************************************************)
(* The store's own invariant.                                              *)
(***************************************************************************)

\* The answers to a call.
Answers == {"conflict", "parse", "policy", "execution", "committed"}

\* A rejection names one of three stages.
LEMMA StageIsAnswer ==
  ASSUME NEW s, NEW p, NEW actor
  PROVE  RejectionStage(s, p, actor) \in {"parse", "policy", "execution"}
<1>1. CASE ~Parses(p)
  BY <1>1 DEF RejectionStage
<1>2. CASE Parses(p) /\ ~Allowed(s, p, actor)
  BY <1>2 DEF RejectionStage
<1>3. CASE Parses(p) /\ Allowed(s, p, actor)
  BY <1>3 DEF RejectionStage
<1> QED
  BY <1>1, <1>2, <1>3

\* No caller calls in the initial state.
LEMMA InitStoreInv == StoreInit => StoreInv
  BY CallersAssumption DEF StoreInit, StoreInv, StoreTypeOK, CallsSendable, CallsBounded,
     Calling

\* What a caller other than c keeps, and what c has after the mutex is given
\* back with an answer: everything but the state that is put back.
LEMMA AnswerKeepsStoreInv ==
  ASSUME StoreInv, NEW c \in Callers, pc[c] = "locked", NEW s, NEW answer \in Answers,
         Unlock(c, s, answer),
         UNCHANGED <<proposal, expected>>,
         calls' = calls \/ calls' = [calls EXCEPT ![c] = @ + 1]
  PROVE  StoreInv'
<1> USE DEF StoreInv, StoreTypeOK
<1>1. /\ pc' = [pc EXCEPT ![c] = "idle"]
      /\ reply' = [reply EXCEPT ![c] = answer]
      /\ current' = [current EXCEPT ![c] = Null]
      /\ holder' = Null
  BY DEF Unlock
<1>2. /\ pc' \in [Callers -> {"idle", "entering", "locked"}]
      /\ reply' \in [Callers -> {"none", "conflict", "parse", "policy", "execution",
                                 "committed"}]
      /\ holder' \in Callers \cup {Null}
  BY <1>1 DEF Answers
<1>3. calls[c] < MaxCalls
  BY DEF CallsBounded, Calling
<1>4. /\ calls' \in [Callers -> 0..MaxCalls]
      /\ \A b \in Callers \ {c} : calls'[b] = calls[b]
  BY <1>3, CallersAssumption
<1>5. ASSUME NEW b \in Callers
      PROVE  pc'[b] = "locked" <=> holder' = b
  <2>1. holder = c
    OBVIOUS
  <2>2. b # Null
    BY CallersAssumption
  <2>3. CASE b = c
    BY <1>1, <2>2, <2>3
  <2>4. CASE b # c
    BY <1>1, <2>1, <2>2, <2>4
  <2> QED
    BY <2>3, <2>4
<1>6. current' = [b \in Callers |-> IF holder' = b THEN state' ELSE Null]
  BY <1>1, CallersAssumption
<1>7. StoreTypeOK'
  BY <1>2, <1>4, <1>5, <1>6
<1>8. CallsSendable'
  <2>1. ASSUME NEW b \in Callers, Calling(b)' \/ reply'[b] = "conflict"
        PROVE  Sendable(b)'
    <3>1. Calling(b) \/ reply[b] = "conflict"
      BY <1>1, <2>1 DEF Calling
    <3> QED
      BY <3>1 DEF CallsSendable, Sendable
  <2> QED
    BY <2>1 DEF CallsSendable
<1>9. CallsBounded'
  BY <1>1, <1>4 DEF CallsBounded, Calling
<1> QED
  BY <1>7, <1>8, <1>9

\* Making a call, for the first time or again.
LEMMA CallKeepsStoreInv ==
  ASSUME StoreInv, NEW c \in Callers, Call(c) \/ CallAgain(c)
  PROVE  StoreInv'
<1> USE DEF StoreInv, StoreTypeOK
<1>1. /\ pc[c] = "idle"
      /\ calls[c] < MaxCalls
      /\ pc' = [pc EXCEPT ![c] = "entering"]
      /\ UNCHANGED <<state, holder, current, reply, calls, receipts>>
  BY DEF Call, CallAgain
<1>2. StoreTypeOK'
  <2>1. DOMAIN proposal' = Callers /\ DOMAIN expected' = Callers
    BY DEF Call, CallAgain
  <2>2. \A b \in Callers : pc'[b] = "locked" <=> pc[b] = "locked"
    BY <1>1
  <2>3. pc' \in [Callers -> {"idle", "entering", "locked"}]
    BY <1>1
  <2>4. \A b \in Callers : pc'[b] = "locked" <=> holder' = b
    BY <1>1, <2>2
  <2>5. current' = [b \in Callers |-> IF holder' = b THEN state' ELSE Null]
    BY <1>1
  <2> QED
    BY <1>1, <2>1, <2>3, <2>4, <2>5
<1>3. Sendable(c)'
  <2>1. CASE Call(c)
    <3>1. PICK p \in ProposalsOf(c, state) : proposal' = [proposal EXCEPT ![c] = p]
      BY <2>1 DEF Call
    <3>2. proposal'[c] = p
      BY <3>1
    <3> QED
      BY <3>1, <3>2 DEF Sendable
  <2>2. CASE CallAgain(c)
    BY <2>2 DEF CallAgain, CallsSendable, Sendable
  <2> QED
    BY <2>1, <2>2
<1>4. ASSUME NEW b \in Callers, b # c
      PROVE  Sendable(b) => Sendable(b)'
  BY <1>4 DEF Call, CallAgain, Sendable
<1>5. CallsSendable'
  BY <1>1, <1>3, <1>4 DEF CallsSendable, Calling
<1>6. CallsBounded'
  BY <1>1 DEF CallsBounded, Calling
<1> QED
  BY <1>2, <1>5, <1>6

\* Taking the mutex.
LEMMA LockKeepsStoreInv ==
  ASSUME StoreInv, NEW c \in Callers, Lock(c)
  PROVE  StoreInv'
<1> USE DEF StoreInv, StoreTypeOK
<1>1. StoreTypeOK'
  BY CallersAssumption DEF Lock
<1>2. CallsSendable'
  BY DEF Lock, CallsSendable, Calling, Sendable
<1>3. CallsBounded'
  BY DEF Lock, CallsBounded, Calling
<1> QED
  BY <1>1, <1>2, <1>3

\* Every step keeps the store's invariant.
LEMMA NextStoreInv == StoreInv /\ [StoreNext]_storeVars => StoreInv'
<1> SUFFICES ASSUME StoreInv, [StoreNext]_storeVars PROVE StoreInv'
  OBVIOUS
<1>1. CASE UNCHANGED storeVars
  BY <1>1 DEF storeVars, StoreInv, StoreTypeOK, CallsSendable, CallsBounded, Calling,
     Sendable
<1>2. ASSUME NEW c \in Callers, CallerStep(c)
      PROVE  StoreInv'
  <2>1. CASE Call(c) \/ CallAgain(c)
    BY <2>1, CallKeepsStoreInv
  <2>2. CASE Lock(c)
    BY <2>2, LockKeepsStoreInv
  <2>3. CASE Conflict(c)
    BY <2>3, AnswerKeepsStoreInv DEF Conflict, Answers
  <2>4. CASE Reject(c)
    BY <2>4, AnswerKeepsStoreInv, StageIsAnswer DEF Reject, Answers
  <2>5. CASE StoreCommit(c)
    BY <2>5, AnswerKeepsStoreInv DEF StoreCommit, Answers
  <2> QED
    BY <1>2, <2>1, <2>2, <2>3, <2>4, <2>5 DEF CallerStep
<1> QED
  BY <1>1, <1>2 DEF StoreNext

\* The store's invariant holds throughout.
THEOREM StoreSpecInv == StoreSpec => []StoreInv
  BY InitStoreInv, NextStoreInv, PTL DEF StoreSpec

\* Only the holder of the mutex has the state in hand, and every caller is
\* where its variables say.
THEOREM StoreTypeCorrect == StoreSpec => []StoreTypeOK
  BY StoreSpecInv, PTL DEF StoreInv

-----------------------------------------------------------------------------
(***************************************************************************)
(* The store refines the lineage.                                          *)
(***************************************************************************)

\* Every step of the store is a step of the lineage, or leaves it alone.
LEMMA StoreStepsAreEngineSteps ==
  ASSUME NoncesOffered, StoreInv, [StoreNext]_storeVars
  PROVE  [Next]_vars
<1>1. CASE UNCHANGED storeVars
  BY <1>1 DEF storeVars, vars
<1>2. ASSUME NEW c \in Callers, CallerStep(c)
      PROVE  [Next]_vars
  <2>1. pc[c] = "locked" => current[c] = state
    BY DEF StoreInv, StoreTypeOK
  <2>2. CASE Call(c) \/ CallAgain(c) \/ Lock(c)
    BY <2>2 DEF Call, CallAgain, Lock, vars
  <2>3. CASE Conflict(c) \/ Reject(c)
    BY <2>1, <2>3 DEF Conflict, Reject, Unlock, vars
  <2>4. CASE StoreCommit(c)
    <3>1. Commit(proposal[c], ActorOf[c])
      BY <2>1, <2>4 DEF StoreCommit, Unlock, Commit
    <3>2. Sendable(c)
      BY <2>4 DEF StoreInv, CallsSendable, Calling, StoreCommit
    <3> QED
      BY <3>1, <3>2, CommitIsStep
  <2> QED
    BY <1>2, <2>2, <2>3, <2>4 DEF CallerStep
<1> QED
  BY <1>1, <1>2 DEF StoreNext

\* Commits are serialised: whatever callers read, hold and retry, the state and
\* the receipts are those of one lineage of apply_with_receipt calls.
THEOREM StoreRefinesEngine ==
  ASSUME NoncesOffered
  PROVE  StoreSpec => Serialised
<1>1. StoreInit => Init
  BY DEF StoreInit
<1> QED
  BY <1>1, StoreStepsAreEngineSteps, StoreSpecInv, PTL DEF StoreSpec, Spec, Serialised

\* What a lineage promises holds of the store under any number of callers, and
\* an approval, once given, survives all of them.
THEOREM StoreIsSafe ==
  ASSUME NoncesOffered
  PROVE  StoreSpec => []LineageSafety /\ ApprovalIsFinal
  BY StoreRefinesEngine, LineagesAreSafe, ApprovalsAreFinal, PTL DEF Serialised

\* The store with all its callers implements the authority, which knows of no
\* callers, conflicts or mutex.
THEOREM StoreImplementsAuthority ==
  ASSUME NoncesOffered
  PROVE  StoreSpec => ImplementsAuthority
  BY StoreRefinesEngine, EngineImplementsAuthority, PTL DEF Serialised

\* Of all calls against one state at most one commits, ever.
THEOREM AtMostOneWinner ==
  ASSUME NoncesOffered
  PROVE  StoreSpec => []OneWinner
<1>1. ASSUME IInv, ReceiptsInOrder
      PROVE  OneWinner
  <2>1. receipts \in Seq(Elements(receipts))
    BY <1>1 DEF IInv, TypeOK
  <2>2. DOMAIN receipts \subseteq Int
    BY <2>1
  <2> QED
    BY <1>1, <2>2 DEF ReceiptsInOrder, OneWinner
<1> QED
  BY <1>1, StoreRefinesEngine, SpecIInv, ReceiptsOrdered, PTL DEF Serialised

\* No nonce commits twice, though callers share, repeat and resend theirs.
THEOREM NoncesCommitOnce ==
  ASSUME NoncesOffered
  PROVE  StoreSpec => []NonceOnce
<1>1. LedgerIntact => NonceOnce
  BY DEF LedgerIntact, VerifyChain, VerifyUniqueNonces, NonceOnce
<1> QED
  BY <1>1, StoreRefinesEngine, LedgerStaysIntact, PTL DEF Serialised

-----------------------------------------------------------------------------
(***************************************************************************)
(* No call stops short of its unlock.                                      *)
(***************************************************************************)

\* What every call reads of the state is there: no operation drops a field,
LEMMA StateEvaluatesAlways ==
  ASSUME TypeOK
  PROVE  StateEvaluates(state)
<1>1. DOMAIN state = StateFields /\ state.sequence \in Int
  BY DEF TypeOK
<1>2. DOMAIN state.counters = Counters /\ \A name \in Counters : state.counters[name] \in Int
  BY DEF TypeOK
<1> QED
  BY <1>1, <1>2 DEF StateEvaluates, Has, StateFields, Counters

\* a valid policy is one that can be read,
LEMMA PolicyEvaluatesAlways == PolicyEvaluates(Config.policy)
  BY ConfigAssumption DEF ConfigValid, PolicyEvaluates, Has

\* and every draft, however often written and delivered, has all it was written with.
LEMMA DraftsEvaluate ==
  ASSUME TypeOK, NEW h \in DOMAIN state.drafts
  PROVE  LET draft == state.drafts[h]
         IN  /\ DeliveryEvaluates(draft)
             /\ Has(draft, {"created_by", "customer_id"})
             /\ Has(draft.deliveries.email, {"submitted"})
             /\ draft.deliveries.email.submitted \in BOOLEAN
<1> DEFINE draft == state.drafts[h]
<1>1. draft \in Drafts
  BY DEF TypeOK
<1>2. DOMAIN draft = {"thread_id", "invoice_id", "customer_id", "body", "body_label",
                      "created_by", "draft_hash", "deliveries"}
  BY <1>1 DEF Drafts
<1>3. draft.deliveries \in [email : [submitted : BOOLEAN,
                                     recipient : Recipients \cup {Null}],
                            slack : SUBSET ChannelIds]
  BY <1>1 DEF Drafts
<1>4. /\ DOMAIN draft.deliveries = {"email", "slack"}
      /\ draft.deliveries.email \in [submitted : BOOLEAN, recipient : Recipients \cup {Null}]
  BY <1>3
<1>5. /\ DOMAIN draft.deliveries.email = {"submitted", "recipient"}
      /\ draft.deliveries.email.submitted \in BOOLEAN
  BY <1>4
<1> HIDE DEF draft
<1>6. DeliveryEvaluates(draft)
  BY <1>2, <1>4 DEF DeliveryEvaluates, Has
<1>7. Has(draft, {"created_by", "customer_id"}) /\ Has(draft.deliveries.email, {"submitted"})
  BY <1>2, <1>5 DEF Has
<1> QED
  BY <1>5, <1>6, <1>7 DEF draft

\* Any call on a state of a lineage returns, whoever makes it.
LEMMA CallsEvaluate ==
  ASSUME TypeOK, EntriesComplete(Config), NEW p, NEW actor
  PROVE  Evaluates(state, p, actor)
<1> SUFFICES ASSUME Parses(p)
             PROVE  Evaluates(state, p, actor)
  BY DEF Evaluates
<1>1. state.invoices = Config.invoices /\ state.threads = Config.threads
  BY DEF TypeOK
<1>2. ActorEvaluates(Config.capabilities, actor)
  BY ConfigAssumption DEF ConfigValid, CapabilitiesValid, ActorEvaluates, Has, EntriesComplete
<1>3. p.t \in {"read_invoice", "create_draft", "approve_draft", "submit_draft", "post_to_slack"}
  BY DEF Parses
<1>4. ReadInvoiceEvaluates(state, p)
  BY <1>1 DEF ReadInvoiceEvaluates, HasInvoice, EntriesComplete
<1>5. CreateDraftEvaluates(state, p)
  BY <1>1 DEF CreateDraftEvaluates, HasInvoice, HasThread, EntriesComplete, HasEntry, Has
<1>6. ApproveDraftEvaluates(state, p)
  BY DraftsEvaluate DEF ApproveDraftEvaluates, HasDraft, Has
<1>7. SubmitDraftEvaluates(state, p, Config.policy)
  BY DraftsEvaluate DEF SubmitDraftEvaluates, HasDraft, Has, EntriesComplete
<1>8. PostToSlackEvaluates(state, p, Config.policy)
  BY DraftsEvaluate DEF PostToSlackEvaluates, HasDraft, EntriesComplete
<1> QED
  BY <1>2, <1>3, <1>4, <1>5, <1>6, <1>7, <1>8, StateEvaluatesAlways, PolicyEvaluatesAlways
     DEF Evaluates

\* The call of whoever holds the mutex returns from the engine, be the proposal
\* made up for this state, sent again after a conflict, or no record at all.
HeldCallReturns ==
  EntriesComplete(Config) =>
    \A c \in Callers : holder = c => Evaluates(current[c], proposal[c], ActorOf[c])

\* Whoever holds the mutex gets to the unlock, and so will whoever calls next: no
\* call stops with a runtime error inside the engine, whatever was committed
\* before, unless an entry of the configuration lacks what is read of it
\* (commit_store.fard:48).
THEOREM CallsNeverRaise ==
  ASSUME NoncesOffered
  PROVE  StoreSpec => [](NoCallRaises /\ HeldCallReturns)
<1>1. IInv => NoCallRaises
  BY CallsEvaluate DEF NoCallRaises, IInv
<1>2. IInv /\ StoreInv => HeldCallReturns
  <2> SUFFICES ASSUME TypeOK, StoreInv, EntriesComplete(Config),
                      NEW c \in Callers, holder = c
               PROVE  Evaluates(current[c], proposal[c], ActorOf[c])
    BY DEF IInv, HeldCallReturns
  <2>1. current[c] = state
    BY DEF StoreInv, StoreTypeOK
  <2> QED
    BY <2>1, CallsEvaluate
<1> QED
  BY <1>1, <1>2, StoreRefinesEngine, StoreSpecInv, SpecIInv, PTL DEF Serialised

-----------------------------------------------------------------------------
(***************************************************************************)
(* The answers.                                                            *)
(***************************************************************************)

\* What the policy admits is never refused at execution, whatever other callers
\* do between the calls.
THEOREM ExecutionNeverDisagrees == StoreSpec => []ExecutionAgrees
<1>1. StoreInit => ExecutionAgrees
  BY DEF StoreInit, ExecutionAgrees
<1>2. ASSUME StoreInv, ExecutionAgrees, [StoreNext]_storeVars
      PROVE  ExecutionAgrees'
  <2>1. CASE UNCHANGED storeVars
    BY <1>2, <2>1 DEF storeVars, ExecutionAgrees
  <2>2. ASSUME NEW c \in Callers, CallerStep(c)
        PROVE  ExecutionAgrees'
    <3>1. reply \in [Callers -> {"none", "conflict", "parse", "policy", "execution",
                                  "committed"}]
      BY <1>2 DEF StoreInv, StoreTypeOK
    <3>2. CASE Call(c) \/ CallAgain(c) \/ Lock(c)
      BY <1>2, <3>2 DEF Call, CallAgain, Lock, ExecutionAgrees
    <3>3. CASE Conflict(c) \/ StoreCommit(c)
      BY <1>2, <3>1, <3>3 DEF Conflict, StoreCommit, Unlock, ExecutionAgrees
    <3>4. CASE Reject(c)
      <4>1. ~Parses(proposal[c]) \/ ~Allowed(current[c], proposal[c], ActorOf[c])
        BY <3>4, AllowedExecutes DEF Reject, Commits
      <4>2. RejectionStage(current[c], proposal[c], ActorOf[c]) # "execution"
        <5>1. CASE ~Parses(proposal[c])
          BY <5>1 DEF RejectionStage
        <5>2. CASE Parses(proposal[c]) /\ ~Allowed(current[c], proposal[c], ActorOf[c])
          BY <5>2 DEF RejectionStage
        <5> QED
          BY <4>1, <5>1, <5>2
      <4>3. reply' = [reply EXCEPT
                        ![c] = RejectionStage(current[c], proposal[c], ActorOf[c])]
        BY <3>4 DEF Reject, Unlock
      <4> QED
        BY <1>2, <3>1, <4>2, <4>3 DEF ExecutionAgrees
    <3> QED
      BY <2>2, <3>2, <3>3, <3>4 DEF CallerStep
  <2> QED
    BY <1>2, <2>1, <2>2 DEF StoreNext
<1> QED
  BY <1>1, <1>2, StoreSpecInv, PTL DEF StoreSpec

\* The state a caller expects is the present one or was left behind.
ExpectationsSeen ==
  \A c \in Callers : Calling(c) =>
    /\ expected[c][2].sequence \in Nat
    /\ expected[c][2].sequence <= state.sequence
    /\ expected[c][2].sequence = state.sequence => expected[c] = HashState(state)

\* A commit leaves every expected state behind; no other step moves the state.
LEMMA StateMoves ==
  ASSUME NoncesOffered, StoreInv, IInv, [StoreNext]_storeVars
  PROVE  state' = state \/ state'.sequence = state.sequence + 1
<1>1. [Next]_vars
  BY StoreStepsAreEngineSteps
<1>2. CASE UNCHANGED vars
  BY <1>2 DEF vars
<1>3. CASE Next
  <2>1. PICK p, actor : p.t \in Tags /\ Commit(p, actor)
    BY <1>3, NextCommits
  <2>2. /\ DOMAIN ExecutionState(state, p, actor) = StateFields
        /\ ExecutionState(state, p, actor).sequence = state.sequence + 1
    BY <2>1, ExecutionSteps DEF IInv, TypeOK
  <2> QED
    BY <2>1, <2>2, CommitEffect DEF StateFields
<1> QED
  BY <1>1, <1>2, <1>3

\* Every step keeps expectations behind the state.
LEMMA StepKeepsExpectations ==
  ASSUME NoncesOffered, StoreInv, IInv, ExpectationsSeen, [StoreNext]_storeVars
  PROVE  ExpectationsSeen'
<1>1. state.sequence \in Nat /\ DOMAIN state = StateFields
  BY DEF IInv, TypeOK
<1>2. HashState(state)[2].sequence = state.sequence
  BY <1>1 DEF HashState, TaggedDigest, RecRemove, StateFields
<1>3. CASE UNCHANGED storeVars
  BY <1>3 DEF storeVars, ExpectationsSeen, Calling
<1>4. ASSUME NEW c \in Callers, CallerStep(c)
      PROVE  ExpectationsSeen'
  <2>1. /\ DOMAIN expected = Callers
        /\ pc \in [Callers -> {"idle", "entering", "locked"}]
    BY DEF StoreInv, StoreTypeOK
  <2>2. CASE Call(c) \/ CallAgain(c)
    <3>1. /\ expected' = [expected EXCEPT ![c] = HashState(state)]
          /\ pc' = [pc EXCEPT ![c] = "entering"]
          /\ state' = state
      BY <2>2 DEF Call, CallAgain
    <3>2. expected'[c] = HashState(state)
      BY <2>1, <3>1
    <3>3. \A b \in Callers \ {c} : expected'[b] = expected[b] /\ pc'[b] = pc[b]
      BY <2>1, <3>1
    <3> QED
      BY <1>1, <1>2, <3>1, <3>2, <3>3 DEF ExpectationsSeen, Calling
  <2>3. CASE Lock(c) \/ Conflict(c) \/ Reject(c) \/ StoreCommit(c)
    <3>1. /\ expected' = expected
          /\ \A b \in Callers : Calling(b)' => Calling(b)
      BY <2>1, <2>3 DEF Lock, Conflict, Reject, StoreCommit, Unlock, Calling
    <3>2. state' = state \/ state'.sequence = state.sequence + 1
      BY StateMoves
    <3> QED
      BY <1>1, <3>1, <3>2 DEF ExpectationsSeen
  <2> QED
    BY <1>4, <2>2, <2>3 DEF CallerStep
<1> QED
  BY <1>3, <1>4 DEF StoreNext

\* A conflict is reported only to a caller whose state has been left behind.
THEOREM ConflictsAreHonest ==
  ASSUME NoncesOffered
  PROVE  StoreSpec => ConflictIsHonest
<1> DEFINE Honest ==
      \A c \in Callers :
        pc[c] = "locked" /\ pc'[c] = "idle" /\ reply'[c] = "conflict"
          => expected[c][2].sequence < state.sequence
<1>1. StoreInit => ExpectationsSeen
  BY DEF StoreInit, ExpectationsSeen, Calling
<1>2. ASSUME StoreInv, IInv, ExpectationsSeen, [StoreNext]_storeVars
      PROVE  [Honest]_storeVars
  <2>1. CASE UNCHANGED storeVars
    BY <2>1
  <2>2. ASSUME NEW b \in Callers, CallerStep(b), NEW c \in Callers,
               pc[c] = "locked", pc'[c] = "idle", reply'[c] = "conflict"
        PROVE  expected[c][2].sequence < state.sequence
    <3>1. /\ pc \in [Callers -> {"idle", "entering", "locked"}]
          /\ current[c] = state
          /\ DOMAIN reply = Callers
      BY <1>2, <2>2 DEF StoreInv, StoreTypeOK
    <3>2. b = c
      BY <2>2, <3>1 DEF CallerStep, Call, CallAgain, Lock, Conflict, Reject, StoreCommit, Unlock
    <3>3. ~Call(c) /\ ~CallAgain(c) /\ ~Lock(c)
      BY <2>2 DEF Call, CallAgain, Lock
    <3>4. ~StoreCommit(c)
      BY <2>2, <3>1 DEF StoreCommit, Unlock
    <3>5. ~Reject(c)
      BY <2>2, <3>1, StageIsAnswer DEF Reject, Unlock
    <3>6. expected[c] # HashState(state)
      BY <2>2, <3>1, <3>2, <3>3, <3>4, <3>5 DEF CallerStep, Conflict, Matches
    <3>7. state.sequence \in Nat
      BY <1>2 DEF IInv, TypeOK
    <3> QED
      BY <1>2, <2>2, <3>6, <3>7 DEF ExpectationsSeen, Calling
  <2> QED
    BY <1>2, <2>1, <2>2 DEF StoreNext
<1> QED
  BY <1>1, <1>2, StepKeepsExpectations, StoreSpecInv, StoreRefinesEngine, SpecIInv, PTL
     DEF StoreSpec, ConflictIsHonest, Serialised
=============================================================================
