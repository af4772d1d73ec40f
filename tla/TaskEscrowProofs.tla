-------------------------- MODULE TaskEscrowProofs --------------------------
(***************************************************************************)
(* What holds of an escrow for every panel, threshold, stake, schedule and *)
(* amount: the theorems of TaskEscrow and their proofs.                    *)
(***************************************************************************)
EXTENDS TaskEscrow, FiniteSetTheorems, NaturalsInduction, WellFoundedInduction, TLAPS

-----------------------------------------------------------------------------
(* The control state has its types.                                        *)

\* There are 1 to 16 milestones, and 1 is always one of them.
LEMMA IndicesRange ==
    /\ MilestoneCount \in 1..16
    /\ Indices = 1..MilestoneCount
    /\ 1 \in Indices
    /\ \A i \in Indices : i \in Nat /\ MilestoneDeadlines[i] \in Nat
<1>1. MilestoneCount \in 1..16
  BY MilestoneAssumption DEF MilestoneCount
<1>2. Indices = 1..MilestoneCount
  BY DEF Indices
<1>3. MilestoneDeadlines \in [Indices -> Nat]
  BY MilestoneAssumption DEF MilestoneCount, Indices
<1> QED
  BY <1>1, <1>2, <1>3

\* The time at which anything happens is a natural number.
LEMMA NowIsNat == ControlTypeOK => now \in Nat /\ MaxTime \in Nat
  BY TimeAssumption DEF ControlTypeOK

\* Appending a valid outcome keeps the log well-typed.
LEMMA OutcomesType ==
    ASSUME outcomes \in Seq(Outcome), NEW o, RecordOutcome(o)
    PROVE  outcomes' \in Seq(Outcome)
  BY DEF RecordOutcome

\* Replacing one milestone, or the fields of one, keeps them well-typed.
LEMMA MilestoneReplaced ==
    ASSUME milestones \in [Indices -> Milestone], NEW i \in Indices, NEW m \in Milestone
    PROVE  [milestones EXCEPT ![i] = m] \in [Indices -> Milestone]
  OBVIOUS

LEMMA MilestoneWithStatus ==
    ASSUME NEW m \in Milestone, NEW s \in MilestoneStatus
    PROVE  [m EXCEPT !.status = s] \in Milestone
  BY DEF Milestone

LEMMA MilestoneWithAward ==
    ASSUME NEW m \in Milestone, NEW s \in MilestoneStatus, NEW bps \in 0..BPS
    PROVE  [m EXCEPT !.status = s, !.awardBps = bps] \in Milestone
<1> DEFINE n == [m EXCEPT !.status = s]
<1>1. n \in Milestone
  BY MilestoneWithStatus
<1>2. [m EXCEPT !.status = s, !.awardBps = bps] = [n EXCEPT !.awardBps = bps]
  OBVIOUS
<1> HIDE DEF n
<1>3. [n EXCEPT !.awardBps = bps] \in Milestone
  BY <1>1 DEF Milestone
<1> QED
  BY <1>2, <1>3

LEMMA MilestoneSubmitted ==
    ASSUME NEW m \in Milestone, NEW at \in Nat, NEW p \in BOOLEAN
    PROVE  [m EXCEPT !.submittedAt = at, !.proofHash = p, !.status = "Submitted"]
             \in Milestone
<1> DEFINE n1 == [m EXCEPT !.submittedAt = at]
           n2 == [n1 EXCEPT !.proofHash = p]
<1>1. n1 \in Milestone
  BY DEF Milestone
<1>2. [m EXCEPT !.submittedAt = at, !.proofHash = p, !.status = "Submitted"]
        = [n2 EXCEPT !.status = "Submitted"]
  OBVIOUS
<1>3. n2 \in Milestone
  <2> HIDE DEF n1
  <2> QED  BY <1>1 DEF Milestone
<1> HIDE DEF n2
<1>4. [n2 EXCEPT !.status = "Submitted"] \in Milestone
  BY <1>3 DEF Milestone, MilestoneStatus
<1> QED
  BY <1>2, <1>4

LEMMA MilestoneDisputed ==
    ASSUME NEW m \in Milestone, NEW at \in Nat
    PROVE  [m EXCEPT !.disputedAt = at, !.status = "Disputed"] \in Milestone
<1> DEFINE n == [m EXCEPT !.disputedAt = at]
<1>1. n \in Milestone
  BY DEF Milestone
<1>2. [m EXCEPT !.disputedAt = at, !.status = "Disputed"] = [n EXCEPT !.status = "Disputed"]
  OBVIOUS
<1> HIDE DEF n
<1> QED
  BY <1>1, <1>2 DEF Milestone, MilestoneStatus

LEMMA MilestoneExtended ==
    ASSUME NEW m \in Milestone, NEW d \in Nat
    PROVE  [m EXCEPT !.deadline = @ + d] \in Milestone
  BY DEF Milestone

LEMMA SyncType ==
    ASSUME milestones \in [Indices -> Milestone], NEW m \in Milestone
    PROVE  SyncMilestone(m) \in [Indices -> Milestone]
  BY IndicesRange DEF SyncMilestone

LEMMA InitControlType == Init => ControlTypeOK
<1> SUFFICES ASSUME Init PROVE ControlTypeOK
  OBVIOUS
<1>1. milestones \in [Indices -> Milestone]
  BY IndicesRange DEF Init, Milestone, MilestoneStatus, BPS
<1>2. outcomes \in Seq(Outcome) /\ currentMilestone \in Indices
  BY IndicesRange DEF Init
<1>3. now \in 0..MaxTime
  BY TimeAssumption DEF Init
<1> QED
  BY <1>1, <1>2, <1>3 DEF Init, ControlTypeOK, Status

\* The parts of a step that several actions share.
LEMMA SetSingleDisputedType ==
    ASSUME ControlTypeOK, SetSingleDisputed
    PROVE  /\ status' \in Status /\ milestones' \in [Indices -> Milestone]
           /\ disputedAt' \in Nat
           /\ UNCHANGED <<submittedAt, proofHash, currentMilestone, outcomes>>
<1>1. [milestones[1] EXCEPT !.disputedAt = now, !.status = "Disputed"] \in Milestone
  BY NowIsNat, IndicesRange, MilestoneDisputed DEF ControlTypeOK
<1>2. milestones' \in [Indices -> Milestone]
  BY <1>1, SyncType DEF SetSingleDisputed, ControlTypeOK
<1> QED
  BY <1>2, NowIsNat DEF SetSingleDisputed, Status

LEMMA SyncStatusType ==
    ASSUME ControlTypeOK, NEW s \in MilestoneStatus,
           milestones' = SyncMilestone([milestones[1] EXCEPT !.status = s])
    PROVE  milestones' \in [Indices -> Milestone]
<1>1. [milestones[1] EXCEPT !.status = s] \in Milestone
  BY IndicesRange, MilestoneWithStatus DEF ControlTypeOK
<1> QED
  BY <1>1, SyncType DEF ControlTypeOK

LEMMA ApproveType ==
    ASSUME ControlTypeOK, Approve
    PROVE  /\ status' \in Status /\ milestones' \in [Indices -> Milestone]
           /\ outcomes' \in Seq(Outcome)
           /\ UNCHANGED <<submittedAt, disputedAt, proofHash, currentMilestone>>
<1>1. milestones' \in [Indices -> Milestone]
  BY SyncStatusType DEF Approve, MilestoneStatus
<1>2. outcomes' \in Seq(Outcome)
  BY OutcomesType DEF Approve, ControlTypeOK
<1> QED
  BY <1>1, <1>2 DEF Approve, Status, singleVars

LEMMA WithStatusType ==
    ASSUME ControlTypeOK, NEW s \in MilestoneStatus
    PROVE  WithStatus(s) \in [Indices -> Milestone]
<1>1. milestones[currentMilestone] \in Milestone /\ currentMilestone \in Indices
  BY DEF ControlTypeOK
<1>2. [milestones[currentMilestone] EXCEPT !.status = s] \in Milestone
  BY <1>1, MilestoneWithStatus
<1> QED
  BY <1>1, <1>2, MilestoneReplaced DEF ControlTypeOK, WithStatus

LEMMA AdvanceType ==
    ASSUME ControlTypeOK, NEW ms \in [Indices -> Milestone], NEW w, NEW b, NEW t,
           AdvanceMilestone(ms, w, b, t)
    PROVE  ControlTypeOK'
<1>1. currentMilestone' \in Indices
  BY IndicesRange DEF AdvanceMilestone, NextMilestone, ControlTypeOK
<1>2. status' \in Status /\ outcomes' \in Seq(Outcome)
  <2>1. CASE AllTerminal(ms)
    <3>1. RecordOutcome(FinalOutcome(ms)) /\ status' = "Settled"
      BY <2>1 DEF AdvanceMilestone
    <3> QED
      BY <3>1, OutcomesType DEF ControlTypeOK, Status
  <2>2. CASE ~AllTerminal(ms)
    BY <2>2 DEF AdvanceMilestone, ControlTypeOK
  <2> QED
    BY <2>1, <2>2
<1> QED
  BY <1>1, <1>2 DEF AdvanceMilestone, ControlTypeOK, workerVars, singleVars

LEMMA SetMilestoneDisputedType ==
    ASSUME ControlTypeOK, SetMilestoneDisputed
    PROVE  ControlTypeOK'
<1>1. milestones[currentMilestone] \in Milestone /\ currentMilestone \in Indices
  BY DEF ControlTypeOK
<1>2. [milestones[currentMilestone] EXCEPT !.disputedAt = now, !.status = "Disputed"]
        \in Milestone
  BY <1>1, NowIsNat, MilestoneDisputed
<1>3. milestones' \in [Indices -> Milestone]
  BY <1>1, <1>2, MilestoneReplaced DEF SetMilestoneDisputed, ControlTypeOK
<1> QED
  BY <1>3 DEF SetMilestoneDisputed, ControlTypeOK, workerVars, singleVars

\* The actions common to both modes.
LEMMA CommonControlType ==
    ASSUME ControlTypeOK, CommonNext
    PROVE  ControlTypeOK'
<1> USE DEF ControlTypeOK, Status
<1>1. CASE AcceptFunding
  BY <1>1 DEF AcceptFunding, workerVars, singleVars, msVars
<1>2. CASE CancelBeforeFunding
  BY <1>2 DEF CancelBeforeFunding, workerVars, singleVars, msVars
<1>3. CASE DepositStake
  BY <1>3 DEF DepositStake, singleVars, msVars
<1>4. ASSUME NEW v \in Verifiers, DepositVerifierStake(v) PROVE ControlTypeOK'
  BY <1>4 DEF DepositVerifierStake, workerVars, singleVars, msVars
<1>5. ASSUME NEW c \in Claimants, WithdrawStake(c) PROVE ControlTypeOK'
  BY <1>5 DEF WithdrawStake, workerVars, singleVars, msVars
<1>6. CASE ClaimTimeoutRefund
  <2>1. milestones' \in [Indices -> Milestone]
    BY <1>6, SyncStatusType DEF ClaimTimeoutRefund, RefundInFull, MilestoneStatus
  <2>2. outcomes' \in Seq(Outcome)
    BY <1>6, OutcomesType DEF ClaimTimeoutRefund, RefundInFull
  <2> QED
    BY <1>6, <2>1, <2>2 DEF ClaimTimeoutRefund, RefundInFull, workerVars, singleVars
<1>7. CASE ActivateBackup
  <2>1. milestones' \in [Indices -> Milestone]
    <3>1. milestones[currentMilestone] \in Milestone
      OBVIOUS
    <3>2. [milestones[currentMilestone] EXCEPT !.deadline = @ + BackupExtension] \in Milestone
      BY <3>1, TimeAssumption, MilestoneExtended
    <3>3. [milestones EXCEPT ![currentMilestone].deadline = @ + BackupExtension]
            \in [Indices -> Milestone]
      BY <3>1, <3>2
    <3>4. CASE Single
      BY <1>7, <3>4 DEF ActivateBackup
    <3>5. CASE ~Single
      BY <1>7, <3>3, <3>5 DEF ActivateBackup
    <3> QED
      BY <3>4, <3>5
  <2>2. deadlineExtensionApplied' \in Nat
    BY <1>7, TimeAssumption DEF ActivateBackup
  <2> QED
    BY <1>7, <2>1, <2>2 DEF ActivateBackup, singleVars
<1>8. CASE SetFrozen
  BY <1>8 DEF SetFrozen, workerVars, singleVars, msVars
<1>9. ASSUME NEW bps \in Awards, EmergencyResolve(bps) PROVE ControlTypeOK'
  <2>1. CASE EmergencyCancel
    BY <2>1 DEF EmergencyCancel, workerVars, singleVars, msVars
  <2>2. CASE EmergencySettle(bps)
    <3>1. outcomes' \in Seq(Outcome)
      BY <2>2, OutcomesType DEF EmergencySettle, SettleWithAward
    <3> QED
      BY <2>2, <3>1 DEF EmergencySettle, SettleWithAward, workerVars, singleVars, msVars
  <2>3. CASE EmergencySettleMilestones(bps)
    <3>1. outcomes' \in Seq(Outcome)
      BY <2>3, OutcomesType DEF EmergencySettleMilestones
    <3>2. bps \in 0..BPS /\ "Resolved" \in MilestoneStatus
      BY AmountAssumption DEF MilestoneStatus
    <3>3. \A m \in Milestone :
             [m EXCEPT !.status = "Resolved", !.awardBps = bps] \in Milestone
      BY <3>2, MilestoneWithAward
    <3>4. milestones' \in [Indices -> Milestone]
      BY <2>3, <3>3 DEF EmergencySettleMilestones
    <3> QED
      BY <2>3, <3>1, <3>4 DEF EmergencySettleMilestones, workerVars, singleVars
  <2> QED
    BY <1>9, <2>1, <2>2, <2>3 DEF EmergencyResolve
<1>10. CASE Tick
  BY <1>10, NowIsNat DEF Tick, workerVars, singleVars, msVars
<1> QED
  BY <1>1, <1>2, <1>3, <1>4, <1>5, <1>6, <1>7, <1>8, <1>9, <1>10
  DEF CommonNext, Fund, FundWithAuthorization

\* The actions of a single-shot escrow.
LEMMA SingleShotControlType ==
    ASSUME ControlTypeOK, SingleShotNext
    PROVE  ControlTypeOK'
<1> USE DEF ControlTypeOK, Status
<1>1. ASSUME NEW proof \in BOOLEAN, Submit(proof) PROVE ControlTypeOK'
  <2>1. [milestones[1] EXCEPT !.submittedAt = now, !.proofHash = proof,
                              !.status = "Submitted"] \in Milestone
    BY NowIsNat, IndicesRange, MilestoneSubmitted
  <2>2. milestones' \in [Indices -> Milestone]
    BY <1>1, <2>1, SyncType DEF Submit
  <2> QED
    BY <1>1, <2>2, NowIsNat DEF Submit, workerVars
<1>2. ASSUME NEW v \in Verifiers, NEW vote, CastSingleVote(v, vote) PROVE ControlTypeOK'
  <2>1. CASE QuorumApprove(v, vote)
    BY <1>2, <2>1, ApproveType DEF CastSingleVote, QuorumApprove, workerVars
  <2>2. CASE QuorumReject(v, vote)
    BY <1>2, <2>2, SetSingleDisputedType DEF CastSingleVote, QuorumReject, workerVars
  <2>3. CASE VoteOnly(v, vote)
    BY <1>2, <2>3 DEF CastSingleVote, VoteOnly, workerVars, singleVars, msVars
  <2> QED
    BY <1>2, <2>1, <2>2, <2>3 DEF CastSingleVote
<1>3. ASSUME NEW bps \in Awards, ResolveDispute(bps) PROVE ControlTypeOK'
  <2>1. milestones' \in [Indices -> Milestone]
    BY <1>3, SyncStatusType DEF ResolveDispute, MilestoneStatus
  <2>2. outcomes' \in Seq(Outcome)
    BY <1>3, OutcomesType DEF ResolveDispute, SettleWithAward
  <2> QED
    BY <1>3, <2>1, <2>2 DEF ResolveDispute, SettleWithAward, workerVars, singleVars
<1>4. CASE ApproveByBuyer
  BY <1>4, ApproveType DEF ApproveByBuyer, workerVars
<1>5. CASE Dispute
  BY <1>5, SetSingleDisputedType DEF Dispute, workerVars
<1>6. CASE EscalateSilence
  BY <1>6, SetSingleDisputedType DEF EscalateSilence, workerVars
<1>7. CASE ExpireNoQuorum
  BY <1>7, SetSingleDisputedType DEF ExpireNoQuorum, workerVars
<1>8. CASE ClaimArbitratorTimeout
  <2>1. milestones' \in [Indices -> Milestone]
    BY <1>8, SyncStatusType DEF ClaimArbitratorTimeout, RefundInFull, MilestoneStatus
  <2>2. outcomes' \in Seq(Outcome)
    BY <1>8, OutcomesType DEF ClaimArbitratorTimeout, RefundInFull
  <2> QED
    BY <1>8, <2>1, <2>2 DEF ClaimArbitratorTimeout, RefundInFull, workerVars, singleVars
<1> QED
  BY <1>1, <1>2, <1>3, <1>4, <1>5, <1>6, <1>7, <1>8
  DEF SingleShotNext, CastVerifierVote, VerifyAndApprove

\* The actions of milestone mode.
LEMMA MilestoneControlType ==
    ASSUME ControlTypeOK, MilestoneNext
    PROVE  ControlTypeOK'
<1>1. ASSUME NEW proof \in BOOLEAN, SubmitMilestone(proof) PROVE ControlTypeOK'
  <2>1. milestones[currentMilestone] \in Milestone /\ currentMilestone \in Indices
    BY DEF ControlTypeOK
  <2>2. [milestones[currentMilestone] EXCEPT !.submittedAt = now, !.proofHash = proof,
                              !.status = "Submitted"] \in Milestone
    BY <2>1, NowIsNat, MilestoneSubmitted
  <2>3. milestones' \in [Indices -> Milestone]
    BY <1>1, <2>1, <2>2, MilestoneReplaced DEF SubmitMilestone, ControlTypeOK
  <2> QED
    BY <1>1, <2>3 DEF SubmitMilestone, ControlTypeOK, workerVars, singleVars
<1>2. ASSUME ApproveMilestone PROVE ControlTypeOK'
  <2>1. WithStatus("Approved") \in [Indices -> Milestone]
    BY WithStatusType DEF MilestoneStatus
  <2> QED
    BY <1>2, <2>1, AdvanceType DEF ApproveMilestone
<1>3. ASSUME NEW v \in Verifiers, NEW vote, CastMilestoneVote(v, vote) PROVE ControlTypeOK'
  <2>1. CASE ApproveMilestone
    BY <1>2, <2>1
  <2>2. CASE SetMilestoneDisputed
    BY <2>2, SetMilestoneDisputedType
  <2>3. CASE VoteOnly(v, vote) /\ UNCHANGED <<now, frozen>> /\ UNCHANGED workerVars
    BY <2>3 DEF VoteOnly, ControlTypeOK, workerVars, singleVars, msVars
  <2> QED
    BY <1>3, <2>1, <2>2, <2>3 DEF CastMilestoneVote
<1>4. ASSUME NEW bps \in Awards, ResolveMilestoneDispute(bps) PROVE ControlTypeOK'
  <2>1. /\ WithStatus("Resolved") \in [Indices -> Milestone]
        /\ currentMilestone \in Indices /\ bps \in 0..BPS
    BY WithStatusType, AmountAssumption DEF MilestoneStatus, ControlTypeOK
  <2>2. [WithStatus("Resolved")[currentMilestone] EXCEPT !.awardBps = bps] \in Milestone
    BY <2>1 DEF Milestone
  <2>3. [WithStatus("Resolved") EXCEPT ![currentMilestone].awardBps = bps]
          \in [Indices -> Milestone]
    BY <2>1, <2>2
  <2> QED
    BY <1>4, <2>3, AdvanceType DEF ResolveMilestoneDispute
<1>5. ASSUME CancelCurrentMilestone PROVE ControlTypeOK'
  <2>1. WithStatus("Cancelled") \in [Indices -> Milestone]
    BY WithStatusType DEF MilestoneStatus
  <2> QED
    BY <1>5, <2>1, AdvanceType DEF CancelCurrentMilestone
<1>6. CASE AbortRemainingMilestones
  <2>1. \A m \in Milestone : [m EXCEPT !.status = "Cancelled"] \in Milestone
    BY MilestoneWithStatus DEF MilestoneStatus
  <2>2. milestones' \in [Indices -> Milestone]
    BY <1>6, <2>1 DEF AbortRemainingMilestones, ControlTypeOK
  <2>3. outcomes' \in Seq(Outcome)
    BY <1>6, OutcomesType DEF AbortRemainingMilestones, ControlTypeOK
  <2> QED
    BY <1>6, <2>2, <2>3
    DEF AbortRemainingMilestones, ControlTypeOK, Status, workerVars, singleVars
<1> QED
  BY <1>1, <1>2, <1>3, <1>4, <1>5, <1>6, SetMilestoneDisputedType
  DEF MilestoneNext, CastMilestoneVerifierVote, VerifyAndApproveMilestone,
      ApproveMilestoneByBuyer, DisputeMilestone, EscalateMilestoneSilence,
      ExpireMilestoneNoQuorum, ClaimMilestoneTimeoutRefund,
      ClaimMilestoneArbitratorTimeout

LEMMA ControlTypeStep == ControlTypeOK /\ [Next]_vars => ControlTypeOK'
<1>1. ASSUME ControlTypeOK, UNCHANGED vars PROVE ControlTypeOK'
  BY <1>1 DEF vars, ControlTypeOK
<1> QED
  BY <1>1, CommonControlType, SingleShotControlType, MilestoneControlType DEF Next

\* In every reachable state the lifecycle, the milestones and the recorded
\* outcomes have their types: the current milestone always exists.
THEOREM ControlTypeCorrect == Spec => []ControlTypeOK
  BY InitControlType, ControlTypeStep, PTL DEF Spec

-----------------------------------------------------------------------------
(* Votes and stakes.                                                       *)

\* What makes the vote and stake properties inductive: before funding there
\* is neither a vote nor a stake, and no stake is held when none is asked.
NothingBeforeFunding == status = "Created" => Voters = {} /\ Staked = {}
NoFreeStake == VerifierStake = 0 => quorumStakeCount = 0
VoteInv ==
    /\ QuorumTypeOK /\ CountersAgree
    /\ VotesBelongToReview /\ VotersAreStaked /\ NoStrandedStake
    /\ NothingBeforeFunding /\ NoFreeStake

\* A review cycle that is over: no vote and no stake is left of it.
VotesCleared == Voters = {} /\ quorumApproveCount = 0 /\ quorumRejectCount = 0
StakesCleared == Staked = {} /\ quorumStakeCount = 0

LEMMA Thresholds ==
    /\ QuorumThreshold \in Nat \ {0}
    /\ QuorumRejectThreshold \in Nat \ {0}
    /\ VerifierStake \in Nat
    /\ Cardinality(Verifiers) \in Nat
<1>1. Cardinality(Verifiers) \in Nat
  BY QuorumAssumption, FS_CardinalityType
<1> QED
  BY <1>1, QuorumAssumption DEF QuorumRejectThreshold

\* Every set of verifiers is finite, and empty when it has no members.
LEMMA PanelFinite ==
    ASSUME NEW S \in SUBSET Verifiers
    PROVE  /\ IsFiniteSet(S) /\ Cardinality(S) \in Nat
           /\ Cardinality(S) = 0 <=> S = {}
  BY QuorumAssumption, FS_Subset, FS_CardinalityType, FS_EmptySet

LEMMA StakedFinite ==
    /\ IsFiniteSet(Staked) /\ Cardinality(Staked) \in Nat
    /\ Cardinality(Staked) = 0 <=> Staked = {}
  BY PanelFinite DEF Staked

\* _resetQuorumVoteState leaves no vote and no count.
LEMMA ResetClears ==
    ASSUME ResetQuorumVoteState
    PROVE  /\ VotesCleared'
           /\ quorumVote' \in [Verifiers -> Vote]
           /\ {v \in Verifiers : quorumVote'[v] = "approve"} = {}
           /\ {v \in Verifiers : quorumVote'[v] = "reject"} = {}
  BY DEF ResetQuorumVoteState, VotesCleared, Voters, Vote

\* The two ways a stake leaves the contract's hold leave none behind.
LEMMA RefundClears ==
    ASSUME QuorumTypeOK, CountersAgree, NoFreeStake, RefundUnsettledVerifierStakes
    PROVE  /\ StakesCleared'
           /\ quorumStaked' \in [Verifiers -> BOOLEAN]
           /\ withdrawable' \in [Claimants -> Nat] /\ owed' \in Int
<1>1. CASE VerifierStake = 0 \/ quorumStakeCount = 0
  <2>1. Staked = {}
    BY <1>1, StakedFinite DEF NoFreeStake, CountersAgree
  <2> QED
    BY <1>1, <2>1
    DEF RefundUnsettledVerifierStakes, StakesCleared, stakeVars, QuorumTypeOK, Staked,
        NoFreeStake
<1>2. CASE ~(VerifierStake = 0 \/ quorumStakeCount = 0)
  <2> DEFINE due(c) == IF c \in Staked THEN VerifierStake ELSE 0
  <2>1. /\ withdrawable' = [c \in Claimants |-> withdrawable[c] + due(c)]
        /\ owed' = owed + Cardinality(Staked) * VerifierStake
        /\ quorumStaked' = [v \in Verifiers |-> FALSE]
        /\ quorumStakeCount' = CountDown(quorumStakeCount, Cardinality(Staked))
    BY <1>2 DEF RefundUnsettledVerifierStakes
  <2>2. \A c \in Claimants : withdrawable[c] + due(c) \in Nat
    BY Thresholds DEF QuorumTypeOK
  <2>3. Cardinality(Staked) * VerifierStake \in Int
    BY StakedFinite, Thresholds
  <2>4. quorumStakeCount' = 0
    BY <2>1, StakedFinite DEF CountDown, CountersAgree
  <2> HIDE DEF due
  <2> QED
    BY <2>1, <2>2, <2>3, <2>4 DEF StakesCleared, QuorumTypeOK, Staked
<1> QED
  BY <1>1, <1>2

LEMMA SettleClears ==
    ASSUME QuorumTypeOK, CountersAgree, NoFreeStake, NEW votes, NEW winner,
           SettleVerifierStakes(votes, winner)
    PROVE  /\ StakesCleared'
           /\ quorumStaked' \in [Verifiers -> BOOLEAN]
           /\ withdrawable' \in [Claimants -> Nat] /\ owed' \in Int
<1>1. CASE VerifierStake = 0
  <2>1. Staked = {}
    BY <1>1, StakedFinite DEF NoFreeStake, CountersAgree
  <2> QED
    BY <1>1, <2>1
    DEF SettleVerifierStakes, StakesCleared, stakeVars, QuorumTypeOK, Staked, NoFreeStake
<1>2. CASE VerifierStake # 0
  <2> DEFINE slashed == Staked \cap Minority(votes, winner)
             due(c) == (IF c \in Staked \ slashed THEN VerifierStake ELSE 0)
                         + (IF c = "buyer" THEN Cardinality(slashed) * VerifierStake ELSE 0)
  <2>1. /\ withdrawable' = [c \in Claimants |->
                withdrawable[c] + (IF c \in Staked \ slashed THEN VerifierStake ELSE 0)
                  + (IF c = "buyer" THEN Cardinality(slashed) * VerifierStake ELSE 0)]
        /\ owed' = owed + Cardinality(Staked) * VerifierStake
        /\ quorumStaked' = [v \in Verifiers |-> FALSE]
        /\ quorumStakeCount' = CountDown(quorumStakeCount, Cardinality(Staked))
    BY <1>2 DEF SettleVerifierStakes
  <2>2. Cardinality(slashed) \in Nat
    BY PanelFinite DEF Staked
  <2>3. Cardinality(slashed) * VerifierStake \in Nat
    BY <2>2, Thresholds
  <2>4. \A c \in Claimants : withdrawable[c] \in Nat
    BY DEF QuorumTypeOK
  <2>5. Cardinality(Staked) * VerifierStake \in Int
    BY StakedFinite, Thresholds
  <2>6. quorumStakeCount' = 0
    BY <2>1, StakedFinite DEF CountDown, CountersAgree
  <2> HIDE DEF slashed
  <2>7. withdrawable' \in [Claimants -> Nat]
    BY <2>1, <2>3, <2>4, Thresholds
  <2> QED
    BY <2>1, <2>5, <2>6, <2>7 DEF StakesCleared, QuorumTypeOK, Staked
<1> QED
  BY <1>1, <1>2

\* When the cycle is cleared, everything said of votes and stakes holds.
LEMMA ClearedIsFine ==
    ASSUME VotesCleared', StakesCleared', QuorumTypeOK'
    PROVE  VoteInv'
<1>1. CountersAgree'
  <2>1. /\ {v \in Verifiers : quorumVote'[v] = "approve"} = {}
        /\ {v \in Verifiers : quorumVote'[v] = "reject"} = {}
    BY DEF VotesCleared, Voters
  <2> QED
    BY <2>1, FS_EmptySet DEF CountersAgree, VotesCleared, StakesCleared
<1>2. VotesBelongToReview'
  BY Thresholds DEF VotesBelongToReview, VotesCleared, QuorumRejectThreshold
<1>3. VotersAreStaked' /\ NoStrandedStake' /\ NothingBeforeFunding' /\ NoFreeStake'
  BY DEF VotersAreStaked, NoStrandedStake, NothingBeforeFunding, NoFreeStake,
         VotesCleared, StakesCleared
<1> QED
  BY <1>1, <1>2, <1>3 DEF VoteInv

\* Outside a review of an open escrow nothing has been voted.
LEMMA NoVotesOutsideReview ==
    ASSUME VoteInv, Open \/ status = "Created", ~InReview
    PROVE  VotesCleared
<1>1. Voters = {}
  BY DEF VoteInv, VotesBelongToReview, NothingBeforeFunding
<1>2. /\ {v \in Verifiers : quorumVote[v] = "approve"} = {}
      /\ {v \in Verifiers : quorumVote[v] = "reject"} = {}
  BY <1>1 DEF Voters
<1> QED
  BY <1>1, <1>2, FS_EmptySet DEF VotesCleared, VoteInv, CountersAgree

\* A review that ends without a quorum, or with one and a reset.
LEMMA ExitKeeps ==
    ASSUME VoteInv, ExitReviewWithoutQuorum
    PROVE  VoteInv'
<1>1. /\ VotesCleared' /\ StakesCleared' /\ quorumVote' \in [Verifiers -> Vote]
      /\ quorumStaked' \in [Verifiers -> BOOLEAN]
      /\ withdrawable' \in [Claimants -> Nat] /\ owed' \in Int
  BY ResetClears, RefundClears DEF ExitReviewWithoutQuorum, VoteInv
<1>2. QuorumTypeOK'
  BY <1>1 DEF QuorumTypeOK, VotesCleared, StakesCleared
<1> QED
  BY <1>1, <1>2, ClearedIsFine

LEMMA SettleAndResetKeeps ==
    ASSUME VoteInv, NEW votes, NEW winner,
           SettleVerifierStakes(votes, winner), ResetQuorumVoteState
    PROVE  VoteInv'
<1>1. /\ VotesCleared' /\ StakesCleared' /\ quorumVote' \in [Verifiers -> Vote]
      /\ quorumStaked' \in [Verifiers -> BOOLEAN]
      /\ withdrawable' \in [Claimants -> Nat] /\ owed' \in Int
  BY ResetClears, SettleClears DEF VoteInv
<1>2. QuorumTypeOK'
  BY <1>1 DEF QuorumTypeOK, VotesCleared, StakesCleared
<1> QED
  BY <1>1, <1>2, ClearedIsFine

\* Stakes refunded outside a review.
LEMMA RefundOutsideReviewKeeps ==
    ASSUME VoteInv, Open, ~InReview, RefundUnsettledVerifierStakes, UNCHANGED voteVars
    PROVE  VoteInv'
<1>1. VotesCleared
  BY NoVotesOutsideReview
<1>2. VotesCleared'
  BY <1>1 DEF VotesCleared, Voters, voteVars
<1>3. /\ StakesCleared' /\ quorumStaked' \in [Verifiers -> BOOLEAN]
      /\ withdrawable' \in [Claimants -> Nat] /\ owed' \in Int
  BY RefundClears DEF VoteInv
<1>4. QuorumTypeOK'
  BY <1>2, <1>3 DEF QuorumTypeOK, VoteInv, voteVars, StakesCleared
<1> QED
  BY <1>2, <1>3, <1>4, ClearedIsFine

\* A settlement that closes the escrow may keep the votes: they count for
\* nothing any more.
LEMMA ClosingKeeps ==
    ASSUME status' \in {"Settled", "Refunded"}, StakesCleared', QuorumTypeOK',
           quorumApproveCount' = Cardinality({v \in Verifiers : quorumVote'[v] = "approve"}),
           quorumRejectCount' = Cardinality({v \in Verifiers : quorumVote'[v] = "reject"})
    PROVE  VoteInv'
<1>1. ~Open' /\ ~InReview' /\ status' # "Created"
  BY DEF Open, InReview, MilestoneInReview, MultiFunded
<1> QED
  BY <1>1, FS_EmptySet
  DEF VoteInv, CountersAgree, VotesBelongToReview, VotersAreStaked, NoStrandedStake,
      NothingBeforeFunding, NoFreeStake, StakesCleared

LEMMA RefundAndCloseKeeps ==
    ASSUME VoteInv, RefundUnsettledVerifierStakes, UNCHANGED voteVars,
           status' \in {"Settled", "Refunded"}
    PROVE  VoteInv'
<1>1. /\ StakesCleared' /\ quorumStaked' \in [Verifiers -> BOOLEAN]
      /\ withdrawable' \in [Claimants -> Nat] /\ owed' \in Int
  BY RefundClears DEF VoteInv
<1>2. QuorumTypeOK'
  BY <1>1 DEF QuorumTypeOK, VoteInv, voteVars, StakesCleared
<1> QED
  BY <1>1, <1>2, ClosingKeeps DEF VoteInv, CountersAgree, voteVars

\* Nothing about votes and stakes changes, nor does the review.
LEMMA UnchangedKeeps ==
    ASSUME VoteInv, UNCHANGED voteVars, UNCHANGED stakeVars,
           \/ Open /\ Open' /\ InReview' = InReview
           \/ UNCHANGED <<status, InReview>>
    PROVE  VoteInv'
<1>1. QuorumTypeOK' /\ CountersAgree' /\ NoFreeStake'
  BY DEF VoteInv, QuorumTypeOK, CountersAgree, NoFreeStake, voteVars, stakeVars, Staked
<1>2. VotesBelongToReview' /\ VotersAreStaked' /\ NoStrandedStake' /\ NothingBeforeFunding'
  BY DEF VoteInv, VotesBelongToReview, VotersAreStaked, NoStrandedStake,
         NothingBeforeFunding, voteVars, stakeVars, Staked, Voters, Open, Terminal,
         QuorumRejectThreshold
<1> QED
  BY <1>1, <1>2 DEF VoteInv

\* An escrow that is open and not under review changes its status without
\* touching votes or stakes: funding and the two submissions.
LEMMA StartsKeeps ==
    ASSUME VoteInv, Open \/ status = "Created", ~InReview, Open',
           UNCHANGED voteVars, UNCHANGED stakeVars
    PROVE  VoteInv'
<1>1. VotesCleared /\ VotesCleared'
  BY NoVotesOutsideReview DEF VotesCleared, Voters, voteVars
<1>2. QuorumTypeOK' /\ CountersAgree' /\ NoFreeStake'
  BY DEF VoteInv, QuorumTypeOK, CountersAgree, NoFreeStake, voteVars, stakeVars, Staked
<1>3. VotesBelongToReview'
  BY <1>1, Thresholds DEF VotesBelongToReview, VotesCleared, QuorumRejectThreshold
<1>4. VotersAreStaked' /\ NoStrandedStake' /\ NothingBeforeFunding'
  BY <1>1 DEF VotersAreStaked, NoStrandedStake, NothingBeforeFunding, VotesCleared,
              Open, Terminal
<1> QED
  BY <1>2, <1>3, <1>4 DEF VoteInv

\* A vote adds its voter to one of the two camps, and only there.
LEMMA VoteCounted ==
    ASSUME VoteInv, NEW v \in Verifiers, MayVote(v), NEW vote \in {"approve", "reject"}
    PROVE  /\ VotesWith(v, vote) \in [Verifiers -> Vote]
           /\ ApprovalsWith(vote) \in Nat /\ RejectionsWith(vote) \in Nat
           /\ ApprovalsWith(vote)
                = Cardinality({u \in Verifiers : VotesWith(v, vote)[u] = "approve"})
           /\ RejectionsWith(vote)
                = Cardinality({u \in Verifiers : VotesWith(v, vote)[u] = "reject"})
           /\ \A u \in Verifiers : VotesWith(v, vote)[u] # "none" => u = v \/ u \in Voters
<1> DEFINE Camp(q, x) == {u \in Verifiers : q[u] = x}
<1>1. /\ quorumVote \in [Verifiers -> Vote] /\ quorumVote[v] = "none"
      /\ quorumApproveCount \in Nat /\ quorumRejectCount \in Nat
      /\ quorumApproveCount = Cardinality(Camp(quorumVote, "approve"))
      /\ quorumRejectCount = Cardinality(Camp(quorumVote, "reject"))
  BY DEF VoteInv, QuorumTypeOK, CountersAgree, MayVote
<1>2. VotesWith(v, vote) \in [Verifiers -> Vote]
  BY <1>1 DEF VotesWith, Vote
<1>3. \A u \in Verifiers : VotesWith(v, vote)[u] = IF u = v THEN vote ELSE quorumVote[u]
  BY <1>1 DEF VotesWith
<1>4. /\ IsFiniteSet(Camp(quorumVote, "approve"))
      /\ IsFiniteSet(Camp(quorumVote, "reject"))
  BY PanelFinite
<1> DEFINE Counted ==
             /\ ApprovalsWith(vote) \in Nat /\ RejectionsWith(vote) \in Nat
             /\ ApprovalsWith(vote) = Cardinality(Camp(VotesWith(v, vote), "approve"))
             /\ RejectionsWith(vote) = Cardinality(Camp(VotesWith(v, vote), "reject"))
<1>5. ASSUME vote = "approve" PROVE Counted
  <2>1. Camp(VotesWith(v, vote), "approve") = Camp(quorumVote, "approve") \cup {v}
    BY <1>3, <1>5
  <2>2. Camp(VotesWith(v, vote), "reject") = Camp(quorumVote, "reject")
    BY <1>1, <1>3, <1>5
  <2>3. v \notin Camp(quorumVote, "approve")
    BY <1>1
  <2>4. Cardinality(Camp(quorumVote, "approve") \cup {v})
          = Cardinality(Camp(quorumVote, "approve")) + 1
    BY <2>3, <1>4, FS_AddElement
  <2>5. ApprovalsWith(vote) = quorumApproveCount + 1 /\ RejectionsWith(vote) = quorumRejectCount
    BY <1>1, <1>5 DEF ApprovalsWith, RejectionsWith
  <2>6. Cardinality(Camp(VotesWith(v, vote), "approve")) = quorumApproveCount + 1
    BY <1>1, <2>1, <2>4
  <2>7. Cardinality(Camp(VotesWith(v, vote), "reject")) = quorumRejectCount
    BY <1>1, <2>2
  <2> QED
    BY <1>1, <2>5, <2>6, <2>7
<1>6. ASSUME vote = "reject" PROVE Counted
  <2>1. Camp(VotesWith(v, vote), "reject") = Camp(quorumVote, "reject") \cup {v}
    BY <1>3, <1>6
  <2>2. Camp(VotesWith(v, vote), "approve") = Camp(quorumVote, "approve")
    BY <1>1, <1>3, <1>6
  <2>3. v \notin Camp(quorumVote, "reject")
    BY <1>1
  <2>4. Cardinality(Camp(quorumVote, "reject") \cup {v})
          = Cardinality(Camp(quorumVote, "reject")) + 1
    BY <2>3, <1>4, FS_AddElement
  <2>5. RejectionsWith(vote) = quorumRejectCount + 1 /\ ApprovalsWith(vote) = quorumApproveCount
    BY <1>1, <1>6 DEF ApprovalsWith, RejectionsWith
  <2>6. Cardinality(Camp(VotesWith(v, vote), "reject")) = quorumRejectCount + 1
    BY <1>1, <2>1, <2>4
  <2>7. Cardinality(Camp(VotesWith(v, vote), "approve")) = quorumApproveCount
    BY <1>1, <2>2
  <2> QED
    BY <1>1, <2>5, <2>6, <2>7
<1>7. \A u \in Verifiers : VotesWith(v, vote)[u] # "none" => u = v \/ u \in Voters
  BY <1>3 DEF Voters
<1> QED
  BY <1>2, <1>5, <1>6, <1>7

\* A vote that decides nothing.
LEMMA VoteOnlyKeeps ==
    ASSUME VoteInv, InReview, NEW v \in Verifiers, MayVote(v),
           NEW vote \in {"approve", "reject"}, VoteOnly(v, vote)
    PROVE  VoteInv'
<1>1. UNCHANGED <<status, milestones, currentMilestone>> /\ UNCHANGED stakeVars
  BY DEF VoteOnly, msVars
<1>2. InReview' /\ Open' = Open /\ status # "Created" /\ (status \in Terminal <=> status' \in Terminal)
  BY <1>1 DEF InReview, MilestoneInReview, MultiFunded, Current, Open
<1>3. /\ quorumVote' = VotesWith(v, vote)
      /\ quorumApproveCount' = ApprovalsWith(vote)
      /\ quorumRejectCount' = RejectionsWith(vote)
      /\ ~(ApprovalsWith(vote) >= QuorumThreshold)
      /\ ~(RejectionsWith(vote) >= QuorumRejectThreshold)
  BY DEF VoteOnly, RecordVote, QuorumApproves, QuorumRejects
<1> DEFINE q == VotesWith(v, vote)
<1>3a. /\ q \in [Verifiers -> Vote]
      /\ ApprovalsWith(vote) \in Nat /\ RejectionsWith(vote) \in Nat
      /\ ApprovalsWith(vote) = Cardinality({u \in Verifiers : q[u] = "approve"})
      /\ RejectionsWith(vote) = Cardinality({u \in Verifiers : q[u] = "reject"})
      /\ \A u \in Verifiers : q[u] # "none" => u = v \/ u \in Voters
  BY VoteCounted
<1> HIDE DEF q
<1>4. QuorumTypeOK' /\ CountersAgree' /\ NoFreeStake'
  BY <1>1, <1>3, <1>3a
  DEF q, VoteInv, QuorumTypeOK, CountersAgree, NoFreeStake, stakeVars, Staked
<1>5. VotesBelongToReview'
  <2>1. quorumApproveCount' \in Nat /\ quorumRejectCount' \in Nat
    BY <1>3, <1>3a
  <2>2. quorumApproveCount' < QuorumThreshold /\ quorumRejectCount' < QuorumRejectThreshold
    BY <1>3, <2>1, Thresholds
  <2> QED
    BY <1>2, <2>2 DEF VotesBelongToReview, QuorumRejectThreshold
<1>6. VotersAreStaked'
  BY <1>1, <1>3, <1>3a
  DEF q, VoteInv, VotersAreStaked, MayVote, Voters, Staked, stakeVars
<1>7. NoStrandedStake' /\ NothingBeforeFunding'
  BY <1>1, <1>2 DEF VoteInv, NoStrandedStake, NothingBeforeFunding, stakeVars, Staked
<1> QED
  BY <1>4, <1>5, <1>6, <1>7 DEF VoteInv

\* The vote that settles a single-shot escrow.
LEMMA QuorumApproveKeeps ==
    ASSUME VoteInv, NEW v \in Verifiers, MayVote(v),
           NEW vote \in {"approve", "reject"}, QuorumApprove(v, vote)
    PROVE  VoteInv'
<1>1. /\ StakesCleared' /\ quorumStaked' \in [Verifiers -> BOOLEAN]
      /\ withdrawable' \in [Claimants -> Nat] /\ owed' \in Int
  BY SettleClears DEF VoteInv, QuorumApprove
<1>2. /\ quorumVote' = VotesWith(v, vote)
      /\ quorumApproveCount' = ApprovalsWith(vote)
      /\ quorumRejectCount' = RejectionsWith(vote)
      /\ status' = "Settled"
  BY DEF QuorumApprove, RecordVote, Approve
<1>3. /\ quorumVote' \in [Verifiers -> Vote]
      /\ quorumApproveCount' \in Nat /\ quorumRejectCount' \in Nat
      /\ quorumApproveCount' = Cardinality({u \in Verifiers : quorumVote'[u] = "approve"})
      /\ quorumRejectCount' = Cardinality({u \in Verifiers : quorumVote'[u] = "reject"})
  <2> DEFINE q == VotesWith(v, vote)
  <2>1. /\ q \in [Verifiers -> Vote]
        /\ ApprovalsWith(vote) \in Nat /\ RejectionsWith(vote) \in Nat
        /\ ApprovalsWith(vote) = Cardinality({u \in Verifiers : q[u] = "approve"})
        /\ RejectionsWith(vote) = Cardinality({u \in Verifiers : q[u] = "reject"})
    BY VoteCounted
  <2>2. quorumVote' = q
    BY <1>2
  <2> HIDE DEF q
  <2> QED
    BY <1>2, <2>1, <2>2
<1>4. QuorumTypeOK'
  BY <1>1, <1>3 DEF QuorumTypeOK, StakesCleared
<1> QED
  BY <1>1, <1>2, <1>3, <1>4, ClosingKeeps

\* depositVerifierStake: one more stake, one more in the count.
LEMMA DepositVerifierStakeKeeps ==
    ASSUME VoteInv, NEW v \in Verifiers, DepositVerifierStake(v)
    PROVE  VoteInv'
<1>1. /\ quorumStaked' = [quorumStaked EXCEPT ![v] = TRUE] /\ ~quorumStaked[v]
      /\ quorumStakeCount' = quorumStakeCount + 1 /\ VerifierStake > 0
      /\ status \in {"Funded", "Submitted"}
      /\ UNCHANGED <<status, withdrawable, owed, milestones, currentMilestone>>
      /\ UNCHANGED voteVars
  BY DEF DepositVerifierStake, StakingOpen, msVars
<1>2. quorumStaked \in [Verifiers -> BOOLEAN] /\ quorumStakeCount = Cardinality(Staked)
  BY DEF VoteInv, QuorumTypeOK, CountersAgree
<1>3. Staked' = Staked \cup {v} /\ v \notin Staked
  BY <1>1, <1>2 DEF Staked
<1>4. Cardinality(Staked') = quorumStakeCount + 1
  BY <1>2, <1>3, StakedFinite, FS_AddElement
<1>5. QuorumTypeOK' /\ CountersAgree' /\ NoFreeStake'
  BY <1>1, <1>2, <1>4, Thresholds
  DEF VoteInv, QuorumTypeOK, CountersAgree, NoFreeStake, voteVars
<1>6. InReview' = InReview /\ Open /\ Open' /\ status' \notin Terminal /\ status' # "Created"
  BY <1>1 DEF InReview, MilestoneInReview, MultiFunded, Current, Open, Terminal
<1>7. VotesBelongToReview' /\ VotersAreStaked' /\ NoStrandedStake' /\ NothingBeforeFunding'
  BY <1>1, <1>3, <1>6
  DEF VoteInv, VotesBelongToReview, VotersAreStaked, NoStrandedStake,
      NothingBeforeFunding, voteVars, Voters, QuorumRejectThreshold
<1> QED
  BY <1>5, <1>7 DEF VoteInv

\* withdrawStake: the claim is paid once and gone.
LEMMA WithdrawStakeKeeps ==
    ASSUME VoteInv, NEW c \in Claimants, WithdrawStake(c)
    PROVE  VoteInv'
<1>1. /\ withdrawable' = [withdrawable EXCEPT ![c] = 0]
      /\ owed' = owed - withdrawable[c]
      /\ UNCHANGED <<status, quorumStaked, quorumStakeCount, milestones, currentMilestone>>
      /\ UNCHANGED voteVars
  BY DEF WithdrawStake, msVars
<1>2. QuorumTypeOK'
  BY <1>1 DEF VoteInv, QuorumTypeOK, voteVars
<1>3. InReview' = InReview /\ Open' = Open
  BY <1>1 DEF InReview, MilestoneInReview, MultiFunded, Current, Open
<1>4. CountersAgree' /\ NoFreeStake'
  BY <1>1 DEF VoteInv, CountersAgree, NoFreeStake, voteVars, Staked
<1>5. VotesBelongToReview' /\ VotersAreStaked' /\ NoStrandedStake' /\ NothingBeforeFunding'
  BY <1>1, <1>3
  DEF VoteInv, VotesBelongToReview, VotersAreStaked, NoStrandedStake,
      NothingBeforeFunding, voteVars, Staked, Voters, QuorumRejectThreshold, Terminal
<1> QED
  BY <1>2, <1>4, <1>5 DEF VoteInv

LEMMA InitVotes == Init => VoteInv
<1> SUFFICES ASSUME Init PROVE VoteInv
  OBVIOUS
<1>1. Voters = {} /\ Staked = {}
  BY DEF Init, Voters, Staked
<1>2. /\ {v \in Verifiers : quorumVote[v] = "approve"} = {}
      /\ {v \in Verifiers : quorumVote[v] = "reject"} = {}
  BY DEF Init
<1>3. QuorumTypeOK
  BY DEF Init, QuorumTypeOK, Vote
<1>3a. CountersAgree /\ NoFreeStake
  <2>1. quorumApproveCount = 0 /\ quorumRejectCount = 0 /\ quorumStakeCount = 0
    BY DEF Init
  <2> QED
    BY <1>1, <1>2, <2>1, FS_EmptySet DEF CountersAgree, NoFreeStake
<1>4. VotesBelongToReview /\ VotersAreStaked /\ NoStrandedStake /\ NothingBeforeFunding
  BY <1>1
  DEF Init, VotesBelongToReview, VotersAreStaked, NoStrandedStake, NothingBeforeFunding,
      Open, InReview, MilestoneInReview, MultiFunded, Terminal
<1> QED
  BY <1>3, <1>3a, <1>4 DEF VoteInv

LEMMA CommonVotes ==
    ASSUME VoteInv, ControlTypeOK, CommonNext
    PROVE  VoteInv'
<1>1. CASE AcceptFunding
  <2>1. status = "Created" /\ status' = "Funded" /\ UNCHANGED voteVars /\ UNCHANGED stakeVars
    BY <1>1 DEF AcceptFunding
  <2> QED
    BY <2>1, StartsKeeps DEF Open, InReview, MilestoneInReview, MultiFunded
<1>2. ASSUME status = "Created", status' = "Cancelled", UNCHANGED voteVars, UNCHANGED stakeVars
      PROVE  VoteInv'
  <2>1. VotesCleared
    BY <1>2, NoVotesOutsideReview DEF InReview, MilestoneInReview, MultiFunded
  <2>2. Staked = {} /\ quorumStakeCount = 0
    BY <1>2, FS_EmptySet DEF VoteInv, NothingBeforeFunding, CountersAgree
  <2>3. VotesCleared' /\ StakesCleared' /\ QuorumTypeOK'
    BY <1>2, <2>1, <2>2
    DEF VotesCleared, StakesCleared, Voters, Staked, voteVars, stakeVars, VoteInv, QuorumTypeOK
  <2> QED
    BY <2>3, ClearedIsFine
<1>3. CASE CancelBeforeFunding
  BY <1>2, <1>3 DEF CancelBeforeFunding
<1>4. ASSUME UNCHANGED voteVars, UNCHANGED stakeVars,
             UNCHANGED <<status, milestones, currentMilestone>>
      PROVE  VoteInv'
  BY <1>4, UnchangedKeeps DEF InReview, MilestoneInReview, MultiFunded, Current
<1>5. CASE DepositStake
  BY <1>4, <1>5 DEF DepositStake, msVars
<1>6. ASSUME NEW v \in Verifiers, DepositVerifierStake(v) PROVE VoteInv'
  BY <1>6, DepositVerifierStakeKeeps
<1>7. ASSUME NEW c \in Claimants, WithdrawStake(c) PROVE VoteInv'
  BY <1>7, WithdrawStakeKeeps
<1>8. CASE ClaimTimeoutRefund
  BY <1>8, RefundAndCloseKeeps DEF ClaimTimeoutRefund, RefundInFull
<1>9. CASE ActivateBackup
  <2>1. /\ UNCHANGED voteVars /\ UNCHANGED stakeVars /\ UNCHANGED <<status, currentMilestone>>
        /\ status = "Funded"
    BY <1>9 DEF ActivateBackup
  <2>2. ~Single => milestones'[currentMilestone].status = milestones[currentMilestone].status
    BY <1>9 DEF ActivateBackup, ControlTypeOK, Milestone
  <2> QED
    BY <2>1, <2>2, UnchangedKeeps DEF InReview, MilestoneInReview, MultiFunded, Current
<1>10. CASE SetFrozen
  BY <1>4, <1>10 DEF SetFrozen, msVars
<1>11. ASSUME NEW bps \in Awards, EmergencyResolve(bps) PROVE VoteInv'
  <2>1. CASE EmergencyCancel
    BY <1>2, <2>1 DEF EmergencyCancel
  <2>2. CASE EmergencySettle(bps)
    BY <2>2, RefundAndCloseKeeps DEF EmergencySettle, SettleWithAward
  <2>3. CASE EmergencySettleMilestones(bps)
    BY <2>3, RefundAndCloseKeeps DEF EmergencySettleMilestones
  <2> QED
    BY <1>11, <2>1, <2>2, <2>3 DEF EmergencyResolve
<1>12. CASE Tick
  BY <1>4, <1>12 DEF Tick, msVars
<1> QED
  BY <1>1, <1>3, <1>5, <1>6, <1>7, <1>8, <1>9, <1>10, <1>11, <1>12
  DEF CommonNext, Fund, FundWithAuthorization

LEMMA SingleShotVotes ==
    ASSUME VoteInv, ControlTypeOK, SingleShotNext
    PROVE  VoteInv'
<1>1. ASSUME NEW proof \in BOOLEAN, Submit(proof) PROVE VoteInv'
  <2>1. status = "Funded" /\ Single /\ status' = "Submitted"
        /\ UNCHANGED voteVars /\ UNCHANGED stakeVars
    BY <1>1 DEF Submit
  <2> QED
    BY <2>1, StartsKeeps DEF Open, InReview, MilestoneInReview, MultiFunded
<1>2. ASSUME NEW v \in Verifiers, NEW vote \in {"approve", "reject"},
             CastSingleVote(v, vote)
      PROVE  VoteInv'
  <2>1. InReview /\ MayVote(v)
    BY <1>2 DEF CastSingleVote, InReview
  <2>2. CASE QuorumApprove(v, vote)
    BY <2>1, <2>2, QuorumApproveKeeps
  <2>3. CASE QuorumReject(v, vote)
    BY <2>3, SettleAndResetKeeps DEF QuorumReject
  <2>4. CASE VoteOnly(v, vote)
    BY <2>1, <2>4, VoteOnlyKeeps
  <2> QED
    BY <1>2, <2>2, <2>3, <2>4 DEF CastSingleVote
<1>3. ASSUME NEW bps \in Awards, ResolveDispute(bps) PROVE VoteInv'
  BY <1>3, RefundAndCloseKeeps DEF ResolveDispute, SettleWithAward
<1>4. CASE ExitReviewWithoutQuorum
  BY <1>4, ExitKeeps
<1>5. CASE ClaimArbitratorTimeout
  BY <1>5, RefundAndCloseKeeps DEF ClaimArbitratorTimeout, RefundInFull
<1> QED
  BY <1>1, <1>2, <1>3, <1>4, <1>5
  DEF SingleShotNext, CastVerifierVote, VerifyAndApprove, ApproveByBuyer, Dispute,
      EscalateSilence, ExpireNoQuorum

LEMMA MilestoneVotes ==
    ASSUME VoteInv, ControlTypeOK, MilestoneNext
    PROVE  VoteInv'
<1>1. ASSUME NEW proof \in BOOLEAN, SubmitMilestone(proof) PROVE VoteInv'
  <2>1. /\ status = "Funded" /\ status' = "Funded" /\ Current.status = "Pending"
        /\ UNCHANGED voteVars /\ UNCHANGED stakeVars
    BY <1>1 DEF SubmitMilestone, MultiFunded
  <2> QED
    BY <2>1, StartsKeeps DEF Open, InReview, MilestoneInReview
<1>2. ASSUME NEW v \in Verifiers, NEW vote \in {"approve", "reject"},
             CastMilestoneVote(v, vote)
      PROVE  VoteInv'
  <2>1. InReview /\ MayVote(v)
    BY <1>2 DEF CastMilestoneVote, InReview
  <2>2. CASE SettleVerifierStakes(VotesWith(v, vote), "approve") /\ ResetQuorumVoteState
    BY <2>2, SettleAndResetKeeps
  <2>3. CASE SettleVerifierStakes(VotesWith(v, vote), "reject") /\ ResetQuorumVoteState
    BY <2>3, SettleAndResetKeeps
  <2>4. CASE VoteOnly(v, vote)
    BY <2>1, <2>4, VoteOnlyKeeps
  <2> QED
    BY <1>2, <2>2, <2>3, <2>4 DEF CastMilestoneVote
<1>3. ASSUME MultiFunded, Current.status \in {"Pending", "Disputed"},
             RefundUnsettledVerifierStakes, UNCHANGED voteVars
      PROVE  VoteInv'
  BY <1>3, RefundOutsideReviewKeeps DEF Open, InReview, MilestoneInReview, MultiFunded
<1>4. ASSUME NEW bps \in Awards, ResolveMilestoneDispute(bps) PROVE VoteInv'
  BY <1>3, <1>4 DEF ResolveMilestoneDispute
<1>5. CASE ClaimMilestoneTimeoutRefund
  BY <1>3, <1>5 DEF ClaimMilestoneTimeoutRefund, CancelCurrentMilestone
<1>6. CASE ClaimMilestoneArbitratorTimeout
  BY <1>3, <1>6 DEF ClaimMilestoneArbitratorTimeout, CancelCurrentMilestone
<1>7. CASE AbortRemainingMilestones
  BY <1>7, RefundAndCloseKeeps DEF AbortRemainingMilestones
<1>8. CASE ExitReviewWithoutQuorum
  BY <1>8, ExitKeeps
<1> QED
  BY <1>1, <1>2, <1>4, <1>5, <1>6, <1>7, <1>8
  DEF MilestoneNext, CastMilestoneVerifierVote, VerifyAndApproveMilestone,
      ApproveMilestoneByBuyer, DisputeMilestone, EscalateMilestoneSilence,
      ExpireMilestoneNoQuorum

LEMMA VoteInvStep == VoteInv /\ ControlTypeOK /\ [Next]_vars => VoteInv'
<1>1. ASSUME VoteInv, UNCHANGED vars PROVE VoteInv'
  BY <1>1, UnchangedKeeps
  DEF vars, voteVars, stakeVars, InReview, MilestoneInReview, MultiFunded, Current
<1> QED
  BY <1>1, CommonVotes, SingleShotVotes, MilestoneVotes DEF Next

LEMMA VoteInvCorrect == Spec => []VoteInv
  BY InitVotes, VoteInvStep, ControlTypeCorrect, PTL DEF Spec

\* The two vote counts and the stake count always agree with the votes and
\* stakes they summarise, through every reset, slash and refund.
THEOREM CountersAlwaysAgree == Spec => []CountersAgree
  BY VoteInvCorrect, PTL DEF VoteInv

\* No vote outlives its review, and a threshold that is reached is acted on.
THEOREM VotesNeverLeak == Spec => []VotesBelongToReview
  BY VoteInvCorrect, PTL DEF VoteInv

\* Nobody votes without a stake where stakes are asked for.
THEOREM VotersAlwaysStaked == Spec => []VotersAreStaked
  BY VoteInvCorrect, PTL DEF VoteInv

\* A vote counts only in its own review and with its stake behind it.
THEOREM VotesAlwaysInForce == Spec => []VotesInForce
  BY VotesNeverLeak, VotersAlwaysStaked, PTL DEF VotesInForce

\* No verifier stake is left inside an escrow that has closed.
THEOREM StakesNeverStranded == Spec => []NoStrandedStake
  BY VoteInvCorrect, PTL DEF VoteInv

-----------------------------------------------------------------------------
(* The order of the milestones.                                            *)

\* MilestonesInOrder is inductive once it also covers the time before funding.
InOrder(ms, cur) ==
    \A i \in Indices :
        /\ i < cur => ms[i].status \in MilestoneTerminal
        /\ i = cur => ms[i].status \notin MilestoneTerminal
        /\ i > cur => ms[i].status = "Pending"
OrderInv ==
    status \in {"Created", "Funded"} /\ ~Single => InOrder(milestones, currentMilestone)

\* A current milestone that stays unfinished keeps the order.
LEMMA ReplaceKeepsOrder ==
    ASSUME ControlTypeOK, InOrder(milestones, currentMilestone),
           NEW m \in Milestone, m.status \notin MilestoneTerminal,
           milestones' = [milestones EXCEPT ![currentMilestone] = m],
           currentMilestone' = currentMilestone
    PROVE  OrderInv'
<1>1. \A i \in Indices : milestones'[i] = IF i = currentMilestone THEN m ELSE milestones[i]
  BY DEF ControlTypeOK
<1> QED
  BY <1>1, IndicesRange DEF OrderInv, InOrder, ControlTypeOK

\* Finishing the current milestone moves on, or closes the escrow.
LEMMA AdvanceKeepsOrder ==
    ASSUME ControlTypeOK, InOrder(milestones, currentMilestone), NEW ms,
           \A i \in Indices : i # currentMilestone => ms[i] = milestones[i],
           ms[currentMilestone].status \in MilestoneTerminal,
           NEW w, NEW b, NEW t, AdvanceMilestone(ms, w, b, t)
    PROVE  OrderInv'
<1>1. /\ milestones' = ms /\ currentMilestone' = NextMilestone
      /\ AllTerminal(ms) => status' = "Settled"
  BY DEF AdvanceMilestone
<1>2. currentMilestone \in Indices
  BY DEF ControlTypeOK
<1>3. CASE currentMilestone < MilestoneCount
  <2>1. currentMilestone' = currentMilestone + 1
    BY <1>1, <1>3 DEF NextMilestone
  <2> QED
    BY <1>1, <1>2, <2>1, IndicesRange DEF OrderInv, InOrder, MilestoneTerminal
<1>4. CASE ~(currentMilestone < MilestoneCount)
  <2>1. AllTerminal(ms)
    BY <1>2, <1>4, IndicesRange DEF AllTerminal, InOrder
  <2> QED
    BY <1>1, <2>1 DEF OrderInv
<1> QED
  BY <1>3, <1>4

LEMMA WithStatusOnlyCurrent ==
    ASSUME ControlTypeOK, NEW s
    PROVE  /\ \A i \in Indices : i # currentMilestone => WithStatus(s)[i] = milestones[i]
           /\ WithStatus(s)[currentMilestone].status = s
  BY DEF ControlTypeOK, WithStatus, Milestone

LEMMA InitOrder == Init => OrderInv
<1> SUFFICES ASSUME Init PROVE OrderInv
  OBVIOUS
<1>1. currentMilestone = 1 /\ \A i \in Indices : milestones[i].status = "Pending"
  BY DEF Init
<1> QED
  BY <1>1, IndicesRange DEF OrderInv, InOrder, MilestoneTerminal

LEMMA OrderStep == OrderInv /\ ControlTypeOK /\ [Next]_vars => OrderInv'
<1> SUFFICES ASSUME OrderInv, ControlTypeOK, [Next]_vars PROVE OrderInv'
  OBVIOUS
<1>1. ASSUME status' \notin {"Created", "Funded"} PROVE OrderInv'
  BY <1>1 DEF OrderInv
<1>2. ASSUME UNCHANGED <<status, milestones, currentMilestone>> PROVE OrderInv'
  BY <1>2 DEF OrderInv
<1>3. CASE UNCHANGED vars
  BY <1>2, <1>3 DEF vars
<1>4. CASE CommonNext
  <2>1. CASE AcceptFunding
    BY <2>1 DEF AcceptFunding, msVars, OrderInv
  <2>2. CASE CancelBeforeFunding
    BY <1>1, <2>2 DEF CancelBeforeFunding
  <2>3. CASE DepositStake
    BY <1>2, <2>3 DEF DepositStake, msVars
  <2>4. ASSUME NEW v \in Verifiers, DepositVerifierStake(v) PROVE OrderInv'
    BY <1>2, <2>4 DEF DepositVerifierStake, msVars
  <2>5. ASSUME NEW c \in Claimants, WithdrawStake(c) PROVE OrderInv'
    BY <1>2, <2>5 DEF WithdrawStake, msVars
  <2>6. CASE ClaimTimeoutRefund
    BY <1>1, <2>6 DEF ClaimTimeoutRefund, RefundInFull
  <2>7. CASE ActivateBackup
    <3>1. CASE Single
      BY <3>1 DEF OrderInv
    <3>2. CASE ~Single
      <4>1. /\ status = "Funded" /\ Current.status = "Pending"
            /\ currentMilestone' = currentMilestone
            /\ milestones' = [milestones EXCEPT
                 ![currentMilestone].deadline = @ + BackupExtension]
        BY <2>7, <3>2 DEF ActivateBackup
      <4>2. \A i \in Indices : milestones'[i].status = milestones[i].status
        BY <4>1 DEF ControlTypeOK, Milestone
      <4> QED
        BY <3>2, <4>1, <4>2 DEF OrderInv, InOrder
    <3> QED
      BY <3>1, <3>2
  <2>8. CASE SetFrozen
    BY <1>2, <2>8 DEF SetFrozen, msVars
  <2>9. ASSUME NEW bps \in Awards, EmergencyResolve(bps) PROVE OrderInv'
    BY <1>1, <2>9
    DEF EmergencyResolve, EmergencyCancel, EmergencySettle, SettleWithAward,
        EmergencySettleMilestones
  <2>10. CASE Tick
    BY <1>2, <2>10 DEF Tick, msVars
  <2> QED
    BY <1>4, <2>1, <2>2, <2>3, <2>4, <2>5, <2>6, <2>7, <2>8, <2>9, <2>10
    DEF CommonNext, Fund, FundWithAuthorization
<1>5. CASE SingleShotNext
  <2>1. ASSUME NEW v \in Verifiers, NEW vote, CastSingleVote(v, vote) PROVE OrderInv'
    <3>1. CASE VoteOnly(v, vote)
      BY <1>2, <3>1 DEF VoteOnly, msVars
    <3> QED
      BY <1>1, <2>1, <3>1
      DEF CastSingleVote, QuorumApprove, QuorumReject, Approve, SetSingleDisputed
  <2>2. ASSUME NEW proof, Submit(proof) PROVE OrderInv'
    BY <1>1, <2>2 DEF Submit
  <2>3. ASSUME NEW bps \in Awards, ResolveDispute(bps) PROVE OrderInv'
    BY <1>1, <2>3 DEF ResolveDispute, SettleWithAward
  <2> QED
    BY <1>1, <1>5, <2>1, <2>2, <2>3
    DEF SingleShotNext, CastVerifierVote, VerifyAndApprove, ApproveByBuyer, Dispute,
        EscalateSilence, ExpireNoQuorum, ClaimArbitratorTimeout, RefundInFull, Approve,
        SetSingleDisputed
<1>6. CASE MilestoneNext
  <2>1. status = "Funded" /\ ~Single
    BY <1>6
    DEF MilestoneNext, CastMilestoneVerifierVote, VerifyAndApproveMilestone,
        CastMilestoneVote, ApproveMilestoneByBuyer, DisputeMilestone,
        EscalateMilestoneSilence, ExpireMilestoneNoQuorum, ClaimMilestoneTimeoutRefund,
        ClaimMilestoneArbitratorTimeout, AbortRemainingMilestones, SubmitMilestone,
        ResolveMilestoneDispute, MilestoneInReview, MultiFunded
  <2>2. InOrder(milestones, currentMilestone) /\ milestones[currentMilestone] \in Milestone
    BY <2>1 DEF OrderInv, ControlTypeOK
  <2>3. ASSUME NEW proof \in BOOLEAN, SubmitMilestone(proof) PROVE OrderInv'
    <3> DEFINE m == [milestones[currentMilestone] EXCEPT !.submittedAt = now,
                       !.proofHash = proof, !.status = "Submitted"]
    <3>1. m \in Milestone
      BY <2>2, NowIsNat, MilestoneSubmitted
    <3>2. m.status = "Submitted"
      BY <2>2 DEF Milestone
    <3>3. milestones' = [milestones EXCEPT ![currentMilestone] = m]
          /\ currentMilestone' = currentMilestone
      BY <2>3 DEF SubmitMilestone
    <3> HIDE DEF m
    <3> QED
      BY <2>2, <3>1, <3>2, <3>3, ReplaceKeepsOrder DEF MilestoneTerminal
  <2>4. ASSUME SetMilestoneDisputed PROVE OrderInv'
    <3> DEFINE m == [milestones[currentMilestone] EXCEPT !.disputedAt = now,
                       !.status = "Disputed"]
    <3>1. m \in Milestone
      BY <2>2, NowIsNat, MilestoneDisputed
    <3>2. m.status = "Disputed"
      BY <2>2 DEF Milestone
    <3>3. milestones' = [milestones EXCEPT ![currentMilestone] = m]
          /\ currentMilestone' = currentMilestone
      BY <2>4 DEF SetMilestoneDisputed
    <3> HIDE DEF m
    <3> QED
      BY <2>2, <3>1, <3>2, <3>3, ReplaceKeepsOrder DEF MilestoneTerminal
  <2>5. ASSUME ApproveMilestone PROVE OrderInv'
    BY <2>2, <2>5, WithStatusOnlyCurrent, AdvanceKeepsOrder
    DEF ApproveMilestone, MilestoneTerminal
  <2>6. ASSUME CancelCurrentMilestone PROVE OrderInv'
    BY <2>2, <2>6, WithStatusOnlyCurrent, AdvanceKeepsOrder
    DEF CancelCurrentMilestone, MilestoneTerminal
  <2>7. ASSUME NEW bps \in Awards, ResolveMilestoneDispute(bps) PROVE OrderInv'
    <3> DEFINE ms == [WithStatus("Resolved") EXCEPT ![currentMilestone].awardBps = bps]
    <3>1. WithStatus("Resolved") \in [Indices -> Milestone] /\ currentMilestone \in Indices
      BY WithStatusType DEF MilestoneStatus, ControlTypeOK
    <3>2. /\ \A i \in Indices : i # currentMilestone => ms[i] = milestones[i]
          /\ ms[currentMilestone].status = "Resolved"
      BY <3>1, WithStatusOnlyCurrent DEF Milestone
    <3>3. PICK w, b, t : AdvanceMilestone(ms, w, b, t)
      BY <2>7 DEF ResolveMilestoneDispute
    <3> HIDE DEF ms
    <3> QED
      BY <2>2, <3>2, <3>3, AdvanceKeepsOrder DEF MilestoneTerminal
  <2>8. ASSUME NEW v, NEW vote, CastMilestoneVote(v, vote) PROVE OrderInv'
    <3>1. CASE VoteOnly(v, vote)
      BY <1>2, <3>1 DEF VoteOnly, msVars
    <3> QED
      BY <2>4, <2>5, <2>8, <3>1 DEF CastMilestoneVote
  <2>9. CASE AbortRemainingMilestones
    BY <1>1, <2>9 DEF AbortRemainingMilestones
  <2> QED
    BY <1>6, <2>3, <2>4, <2>5, <2>6, <2>7, <2>8, <2>9
    DEF MilestoneNext, CastMilestoneVerifierVote, VerifyAndApproveMilestone,
        ApproveMilestoneByBuyer, DisputeMilestone, EscalateMilestoneSilence,
        ExpireMilestoneNoQuorum, ClaimMilestoneTimeoutRefund,
        ClaimMilestoneArbitratorTimeout
<1> QED
  BY <1>3, <1>4, <1>5, <1>6 DEF Next

\* Milestones finish one after the other: the current one is unfinished and
\* the later ones untouched, whatever mix of approvals, disputes, timeouts
\* and emergency steps came before.
THEOREM MilestonesAlwaysInOrder == Spec => []MilestonesInOrder
<1>1. OrderInv => MilestonesInOrder
  BY DEF OrderInv, MilestonesInOrder, InOrder
<1> QED
  BY <1>1, InitOrder, OrderStep, ControlTypeCorrect, PTL DEF Spec

-----------------------------------------------------------------------------
(* Step properties.                                                        *)

LEMMA ClosedStep ==
    ASSUME status \in Terminal, [Next]_vars
    PROVE  UNCHANGED <<status, milestones, outcomes, paid, activeWorker, workerStaked>>
<1>1. CASE UNCHANGED vars
  BY <1>1 DEF vars
<1>2. CASE CommonNext
  <2>1. ASSUME NEW c \in Claimants, WithdrawStake(c)
        PROVE  UNCHANGED <<status, milestones, outcomes, paid, activeWorker, workerStaked>>
    BY <2>1 DEF WithdrawStake, msVars, workerVars
  <2>2. CASE SetFrozen \/ Tick
    BY <2>2 DEF SetFrozen, Tick, msVars, workerVars, fundVars
  <2> QED
    BY <1>2, <2>1, <2>2
    DEF CommonNext, Fund, FundWithAuthorization, AcceptFunding, CancelBeforeFunding,
        DepositStake, DepositVerifierStake, StakingOpen, ClaimTimeoutRefund,
        ActivateBackup, EmergencyResolve, EmergencyCancel, EmergencySettle,
        EmergencySettleMilestones, MultiFunded, Terminal
<1>3. CASE SingleShotNext
  BY <1>3
  DEF SingleShotNext, Submit, CastVerifierVote, VerifyAndApprove, CastSingleVote,
      ResolveDispute, ApproveByBuyer, Dispute, EscalateSilence, ExpireNoQuorum,
      ClaimArbitratorTimeout, Terminal
<1>4. CASE MilestoneNext
  BY <1>4
  DEF MilestoneNext, CastMilestoneVerifierVote, VerifyAndApproveMilestone,
      CastMilestoneVote, ApproveMilestoneByBuyer, DisputeMilestone,
      EscalateMilestoneSilence, ExpireMilestoneNoQuorum, ClaimMilestoneTimeoutRefund,
      ClaimMilestoneArbitratorTimeout, AbortRemainingMilestones, SubmitMilestone,
      ResolveMilestoneDispute, MilestoneInReview, MultiFunded, Terminal
<1> QED
  BY <1>1, <1>2, <1>3, <1>4 DEF Next

\* A settled, refunded or cancelled escrow never leaves that state, keeps its
\* one outcome and pays nobody out of the principal or the bond again.
THEOREM ClosedStaysClosed == Spec => ClosedForGood
<1>1. [Next]_vars => [(status \in Terminal) =>
        UNCHANGED <<status, milestones, outcomes, paid, activeWorker, workerStaked>>]_vars
  BY ClosedStep
<1> QED
  BY <1>1, PTL DEF Spec, ClosedForGood

\* A milestone becomes approved only by the buyer, outside the high-assurance
\* tier, or by the vote that completes the quorum.
ApprovedNow == \E i \in Indices : milestones[i].status # "Approved"
                                    /\ milestones'[i].status = "Approved"

LEMMA SyncApproves ==
    ASSUME ControlTypeOK, NEW m \in Milestone, m.status # "Approved",
           milestones' = SyncMilestone(m)
    PROVE  ~ApprovedNow
  BY IndicesRange DEF SyncMilestone, ApprovedNow, ControlTypeOK

LEMMA SyncStatusApproves ==
    ASSUME ControlTypeOK, NEW s \in MilestoneStatus \ {"Approved"},
           milestones' = SyncMilestone([milestones[1] EXCEPT !.status = s])
    PROVE  ~ApprovedNow
<1> DEFINE m == [milestones[1] EXCEPT !.status = s]
<1>1. m \in Milestone /\ m.status = s
  BY IndicesRange, MilestoneWithStatus DEF ControlTypeOK, Milestone
<1> HIDE DEF m
<1> QED
  BY <1>1, SyncApproves DEF m

LEMMA SingleDisputedApproves ==
    ASSUME ControlTypeOK, SetSingleDisputed
    PROVE  ~ApprovedNow
<1> DEFINE m == [milestones[1] EXCEPT !.disputedAt = now, !.status = "Disputed"]
<1>1. m \in Milestone
  BY NowIsNat, IndicesRange, MilestoneDisputed DEF ControlTypeOK
<1>2. m.status = "Disputed"
  BY IndicesRange DEF ControlTypeOK, Milestone
<1>3. milestones' = SyncMilestone(m)
  BY DEF SetSingleDisputed
<1> HIDE DEF m
<1> QED
  BY <1>1, <1>2, <1>3, SyncApproves

LEMMA MilestoneStepApproves ==
    ASSUME ControlTypeOK, NEW s \in MilestoneStatus \ {"Approved"}, NEW ms,
           milestones' = ms,
           \A i \in Indices : i # currentMilestone => ms[i] = milestones[i],
           ms[currentMilestone].status = s
    PROVE  ~ApprovedNow
  BY DEF ApprovedNow

LEMMA ApprovalStep ==
    ASSUME ControlTypeOK, QuorumTypeOK, HighAssurance, [Next]_vars, ApprovedNow
    PROVE  quorumApproveCount + 1 >= QuorumThreshold
<1> DEFINE Goal == quorumApproveCount + 1 >= QuorumThreshold
<1>1. ASSUME milestones' = milestones PROVE Goal
  BY <1>1 DEF ApprovedNow
<1>2. ASSUME NEW vote, QuorumApproves(vote) PROVE Goal
  BY <1>2, Thresholds DEF QuorumApproves, ApprovalsWith, QuorumTypeOK
<1>3. CASE UNCHANGED vars
  BY <1>1, <1>3 DEF vars
<1>4. CASE CommonNext
  <2>1. ASSUME NEW bps \in Awards, EmergencyResolve(bps) PROVE Goal
    <3>1. CASE EmergencySettleMilestones(bps)
      <4>1. \A i \in Indices : \/ milestones'[i] = milestones[i]
                               \/ milestones'[i].status = "Resolved"
        BY <3>1 DEF EmergencySettleMilestones, ControlTypeOK, Milestone
      <4> QED
        BY <4>1 DEF ApprovedNow
    <3> QED
      BY <1>1, <2>1, <3>1
      DEF EmergencyResolve, EmergencyCancel, EmergencySettle, msVars
  <2>2. CASE ActivateBackup
    <3>1. milestones' = milestones \/ milestones' = [milestones EXCEPT
                 ![currentMilestone].deadline = @ + BackupExtension]
      BY <2>2 DEF ActivateBackup
    <3>2. \A i \in Indices : milestones'[i].status = milestones[i].status
      BY <3>1 DEF ControlTypeOK, Milestone
    <3> QED
      BY <3>2 DEF ApprovedNow
  <2>3. CASE ClaimTimeoutRefund
    BY <2>3, SyncStatusApproves DEF ClaimTimeoutRefund, RefundInFull, MilestoneStatus
  <2> QED
    BY <1>1, <1>4, <2>1, <2>2, <2>3
    DEF CommonNext, Fund, FundWithAuthorization, AcceptFunding, CancelBeforeFunding,
        DepositStake, DepositVerifierStake, WithdrawStake, SetFrozen, Tick, msVars
<1>5. CASE SingleShotNext
  <2>1. ASSUME NEW proof \in BOOLEAN, Submit(proof) PROVE Goal
    <3> DEFINE m == [milestones[1] EXCEPT !.submittedAt = now, !.proofHash = proof,
                                          !.status = "Submitted"]
    <3>1. m \in Milestone
      BY NowIsNat, IndicesRange, MilestoneSubmitted DEF ControlTypeOK
    <3>2. m.status = "Submitted"
      BY IndicesRange DEF ControlTypeOK, Milestone
    <3>3. milestones' = SyncMilestone(m)
      BY <2>1 DEF Submit
    <3> HIDE DEF m
    <3> QED
      BY <3>1, <3>2, <3>3, SyncApproves
  <2>2. ASSUME NEW v, NEW vote, CastSingleVote(v, vote) PROVE Goal
    BY <1>1, <1>2, <2>2, SingleDisputedApproves
    DEF CastSingleVote, QuorumApprove, QuorumReject, VoteOnly, msVars
  <2>3. ASSUME NEW bps \in Awards, ResolveDispute(bps) PROVE Goal
    BY <2>3, SyncStatusApproves DEF ResolveDispute, MilestoneStatus
  <2>4. CASE ClaimArbitratorTimeout
    BY <2>4, SyncStatusApproves DEF ClaimArbitratorTimeout, RefundInFull, MilestoneStatus
  <2> QED
    BY <1>5, <2>1, <2>2, <2>3, <2>4, SingleDisputedApproves
    DEF SingleShotNext, CastVerifierVote, VerifyAndApprove, ApproveByBuyer, Dispute,
        EscalateSilence, ExpireNoQuorum
<1>6. CASE MilestoneNext
  <2>1. ASSUME NEW proof \in BOOLEAN, SubmitMilestone(proof) PROVE Goal
    <3>1. \A i \in Indices : \/ milestones'[i] = milestones[i]
                             \/ milestones'[i].status = "Submitted"
      BY <2>1 DEF SubmitMilestone, ControlTypeOK, Milestone
    <3> QED
      BY <3>1 DEF ApprovedNow
  <2>2. ASSUME SetMilestoneDisputed PROVE Goal
    <3>1. \A i \in Indices : \/ milestones'[i] = milestones[i]
                             \/ milestones'[i].status = "Disputed"
      BY <2>2 DEF SetMilestoneDisputed, ControlTypeOK, Milestone
    <3> QED
      BY <3>1 DEF ApprovedNow
  <2>3. ASSUME CancelCurrentMilestone PROVE Goal
    BY <2>3, WithStatusOnlyCurrent, MilestoneStepApproves
    DEF CancelCurrentMilestone, AdvanceMilestone, MilestoneStatus
  <2>4. ASSUME NEW bps \in Awards, ResolveMilestoneDispute(bps) PROVE Goal
    <3> DEFINE ms == [WithStatus("Resolved") EXCEPT ![currentMilestone].awardBps = bps]
    <3>1. WithStatus("Resolved") \in [Indices -> Milestone] /\ currentMilestone \in Indices
      BY WithStatusType DEF MilestoneStatus, ControlTypeOK
    <3>2. /\ \A i \in Indices : i # currentMilestone => ms[i] = milestones[i]
          /\ ms[currentMilestone].status = "Resolved"
      BY <3>1, WithStatusOnlyCurrent DEF Milestone
    <3>3. milestones' = ms
      BY <2>4 DEF ResolveMilestoneDispute, AdvanceMilestone
    <3> HIDE DEF ms
    <3> QED
      BY <3>2, <3>3, MilestoneStepApproves DEF MilestoneStatus
  <2>5. ASSUME NEW v, NEW vote, CastMilestoneVote(v, vote) PROVE Goal
    BY <1>1, <1>2, <2>2, <2>5 DEF CastMilestoneVote, VoteOnly, msVars
  <2>6. CASE AbortRemainingMilestones
    <3>1. \A i \in Indices : \/ milestones'[i] = milestones[i]
                             \/ milestones'[i].status = "Cancelled"
      BY <2>6 DEF AbortRemainingMilestones, ControlTypeOK, Milestone
    <3> QED
      BY <3>1 DEF ApprovedNow
  <2> QED
    BY <1>6, <2>1, <2>2, <2>3, <2>4, <2>5, <2>6
    DEF MilestoneNext, CastMilestoneVerifierVote, VerifyAndApproveMilestone,
        ApproveMilestoneByBuyer, DisputeMilestone, EscalateMilestoneSilence,
        ExpireMilestoneNoQuorum, ClaimMilestoneTimeoutRefund,
        ClaimMilestoneArbitratorTimeout
<1> QED
  BY <1>3, <1>4, <1>5, <1>6 DEF Next

\* In the high-assurance tier nothing becomes approved, in either mode,
\* without the vote that completes the quorum.
THEOREM ApprovalNeedsQuorum == Spec => HighAssuranceNeedsQuorum
<1>1. ControlTypeOK /\ QuorumTypeOK /\ [Next]_vars =>
        [\A i \in Indices :
           HighAssurance /\ milestones[i].status # "Approved"
                         /\ milestones'[i].status = "Approved"
             => quorumApproveCount + 1 >= QuorumThreshold]_vars
  BY ApprovalStep DEF ApprovedNow
<1>2. VoteInv => QuorumTypeOK
  BY DEF VoteInv
<1> QED
  BY <1>1, <1>2, ControlTypeCorrect, VoteInvCorrect, PTL DEF Spec, HighAssuranceNeedsQuorum

-----------------------------------------------------------------------------
(* The settlement arithmetic.                                              *)

\* A rate of at most 10_000 takes no more than there is.
LEMMA BpsOfBound ==
    ASSUME NEW x \in Nat, NEW bps \in 0..BPS
    PROVE  BpsOf(x, bps) \in 0..x
<1>1. x * bps \in Nat
  BY DEF BPS
<1>2. x * bps <= x * BPS
  BY DEF BPS
<1> DEFINE y == x * bps
<1> HIDE DEF y
<1>3. y \in Nat /\ y <= x * 10000
  BY <1>1, <1>2 DEF y, BPS
<1>4. y \div 10000 \in 0..x
  BY <1>3
<1> QED
  BY <1>4 DEF BpsOf, y, BPS

\* An approval hands out the amount: fee and net, nothing lost or made up.
LEMMA SettleApprovedSum ==
    ASSUME NEW a \in Nat, NEW fee \in 0..BPS
    PROVE  LET s == SettleApproved(a, fee)
           IN  s.workerNet \in Nat /\ s.fee \in Nat /\ s.workerNet + s.fee = a
  BY BpsOfBound DEF SettleApproved

\* So does an award, and the fee is a part of what the worker earned.
LEMMA SettleResolvedSum ==
    ASSUME NEW a \in Nat, NEW bps \in 0..BPS, NEW fee \in 0..BPS
    PROVE  LET s == SettleResolved(a, bps, fee)
           IN  /\ s.workerNet \in Nat /\ s.buyerRefund \in Nat /\ s.fee \in Nat
               /\ s.workerNet + s.buyerRefund + s.fee = a
               /\ s.fee <= a - s.buyerRefund
<1> DEFINE g == BpsOf(a, bps)
<1>1. g \in Nat /\ g <= a
  BY BpsOfBound
<1>2. BpsOf(g, fee) \in Nat /\ BpsOf(g, fee) <= g
  BY <1>1, BpsOfBound
<1> HIDE DEF g
<1> QED
  BY <1>1, <1>2 DEF SettleResolved, g

LEMMA StakeReturnBound ==
    ASSUME NEW a \in Nat, NEW bps \in 0..BPS
    PROVE  StakeReturn(a, bps) \in Nat /\ StakeReturn(a, bps) <= a
  BY BpsOfBound DEF StakeReturn

-----------------------------------------------------------------------------
(* Sums over finite sets of indices.                                       *)

\* What the fold of a sum over S computes for every part of S.
SumRule(g, f, S) ==
    g = [s \in SUBSET S |-> IF s = {} THEN 0
                            ELSE f[CHOOSE x \in s : TRUE] + g[s \ {CHOOSE x \in s : TRUE}]]
First(s) == CHOOSE x \in s : TRUE

LEMMA SumIsFold ==
    ASSUME NEW f, NEW S
    PROVE  SumFunctionOnSet(f, S) = (CHOOSE g : SumRule(g, f, S))[S]
  BY DEF SumFunctionOnSet, FoldFunctionOnSet, MapThenFoldSet, SumRule

\* A set of numbers that holds 0 and each successor is all of them.
LEMMA Rising ==
    ASSUME NEW P \in SUBSET Nat, 0 \in P, \A n \in P : n + 1 \in P
    PROVE  P = Nat
<1> DEFINE T == Nat \ P
<1> SUFFICES ASSUME T # {} PROVE FALSE
  OBVIOUS
<1>1. PICK x \in T : \A y \in T : ~ (<<y, x>> \in OpToRel(<, Nat))
  BY NatLessThanWellFounded, WFMin, Zenon
<1>2. \A y \in T : ~ (y < x)
  BY <1>1 DEF OpToRel
<1>3. x # 0 /\ x - 1 \in Nat /\ x - 1 < x /\ (x - 1) + 1 = x
  OBVIOUS
<1>4. x - 1 \in P
  BY <1>2, <1>3
<1> QED
  BY <1>3, <1>4

LEMMA FirstIn == ASSUME NEW s, s # {} PROVE First(s) \in s
  BY DEF First

LEMMA Removed ==
    ASSUME NEW s, IsFiniteSet(s), NEW x \in s
    PROVE  /\ IsFiniteSet(s \ {x}) /\ Cardinality(s) \in Nat /\ Cardinality(s \ {x}) \in Nat
           /\ Cardinality(s) = Cardinality(s \ {x}) + 1
<1> DEFINE r == s \ {x}
<1>1. IsFiniteSet(r) /\ Cardinality(r) = Cardinality(s) - 1 /\ Cardinality(s) \in Nat
  BY FS_RemoveElement, FS_CardinalityType
<1>2. Cardinality(r) \in Nat
  BY <1>1, FS_CardinalityType
<1> HIDE DEF r
<1>3. IsFiniteSet(r) /\ Cardinality(s) \in Nat /\ Cardinality(r) \in Nat /\ Cardinality(s) = Cardinality(r) + 1
  BY <1>1, <1>2
<1> QED
  BY <1>3 DEF r

\* There is such a function.
LEMMA SumExists ==
    ASSUME NEW S, IsFiniteSet(S), NEW f
    PROVE  \E g : SumRule(g, f, S)
<1> DEFINE Small(n) == {s \in SUBSET S : Cardinality(s) <= n}
           Rule(g, n) == g = [s \in Small(n) |-> IF s = {} THEN 0 ELSE f[First(s)] + g[s \ {First(s)}]]
           P == {n \in Nat : \E g : Rule(g, n)}
<1>1. \A s \in SUBSET S : IsFiniteSet(s) /\ Cardinality(s) \in Nat /\ Cardinality(s) <= Cardinality(S)
  BY FS_Subset, FS_CardinalityType
<1>2. 0 \in P
  <2>1. \A s \in Small(0) : s = {}
    BY <1>1, FS_EmptySet
  <2>2. Rule([s \in Small(0) |-> 0], 0)
    BY <2>1
  <2> QED
    BY <2>2
<1>3. ASSUME NEW n \in P PROVE n + 1 \in P
  <2>1. PICK g : Rule(g, n)
    OBVIOUS
  <2> DEFINE h == [s \in Small(n + 1) |-> IF s = {} THEN 0 ELSE f[First(s)] + g[s \ {First(s)}]]
  <2>2. \A s \in Small(n + 1) : s # {} => s \ {First(s)} \in Small(n)
    <3> SUFFICES ASSUME NEW s \in Small(n + 1), s # {} PROVE s \ {First(s)} \in Small(n)
      OBVIOUS
    <3>1. First(s) \in s /\ IsFiniteSet(s)
      BY <1>1, FirstIn
    <3>2. Cardinality(s) = Cardinality(s \ {First(s)}) + 1 /\ Cardinality(s \ {First(s)}) \in Nat
      BY <3>1, Removed
    <3> QED
      BY <3>2
  <2>3. \A s \in Small(n) : s \in Small(n + 1)
    BY <1>1
  <2>4. \A s \in Small(n) : h[s] = g[s]
    <3> SUFFICES ASSUME NEW s \in Small(n) PROVE h[s] = g[s]
      OBVIOUS
    <3>1. h[s] = IF s = {} THEN 0 ELSE f[First(s)] + g[s \ {First(s)}]
      BY <2>3
    <3>2. g[s] = IF s = {} THEN 0 ELSE f[First(s)] + g[s \ {First(s)}]
      BY <2>1
    <3> QED
      BY <3>1, <3>2
  <2>5. \A s \in Small(n + 1) : s # {} => h[s \ {First(s)}] = g[s \ {First(s)}]
    BY <2>2, <2>4
  <2> DEFINE k == [s \in Small(n + 1) |-> IF s = {} THEN 0 ELSE f[First(s)] + h[s \ {First(s)}]]
  <2>6. h = k
    BY <2>5
  <2>7. Rule(h, n + 1)
    BY <2>6
  <2>8. \E r : Rule(r, n + 1)
    BY <2>7
  <2>9. n + 1 \in Nat
    OBVIOUS
  <2> HIDE DEF Rule
  <2> QED
    BY <2>8, <2>9
<1>4. Cardinality(S) \in P
  BY <1>2, <1>3, Rising, FS_CardinalityType
<1>5. Small(Cardinality(S)) = SUBSET S
  BY <1>1
<1>6. PICK g : Rule(g, Cardinality(S))
  BY <1>4
<1>7. SumRule(g, f, S)
  BY <1>5, <1>6 DEF SumRule, First
<1> QED
  BY <1>7

\* It is one, and its values are numbers.
LEMMA SumUnique ==
    ASSUME NEW S, IsFiniteSet(S), NEW T, T \subseteq S, NEW f, \A i \in T : f[i] \in Int,
           NEW g, SumRule(g, f, S), NEW h, SumRule(h, f, T)
    PROVE  \A s \in SUBSET T : g[s] = h[s] /\ h[s] \in Int
<1> DEFINE P == {n \in Nat : \A s \in SUBSET T : Cardinality(s) = n => g[s] = h[s] /\ h[s] \in Int}
<1>1. \A s \in SUBSET T : IsFiniteSet(s) /\ Cardinality(s) \in Nat
  BY FS_Subset, FS_CardinalityType
<1>2. \A s \in SUBSET T : /\ g[s] = IF s = {} THEN 0 ELSE f[First(s)] + g[s \ {First(s)}]
                          /\ h[s] = IF s = {} THEN 0 ELSE f[First(s)] + h[s \ {First(s)}]
  BY DEF SumRule, First
<1>3. 0 \in P
  <2>1. \A s \in SUBSET T : Cardinality(s) = 0 => s = {}
    BY <1>1, FS_EmptySet
  <2>2. g[{}] = 0 /\ h[{}] = 0
    <3>1. {} \in SUBSET T
      OBVIOUS
    <3> QED
      BY <1>2, <3>1
  <2>3. \A s \in SUBSET T : Cardinality(s) = 0 => g[s] = h[s] /\ h[s] \in Int
    BY <2>1, <2>2
  <2> QED
    BY <2>3
<1>4. ASSUME NEW n \in P PROVE n + 1 \in P
  <2> SUFFICES ASSUME NEW s \in SUBSET T, Cardinality(s) = n + 1
               PROVE  g[s] = h[s] /\ h[s] \in Int
    OBVIOUS
  <2>1. s # {}
    <3>1. Cardinality(s) # 0
      OBVIOUS
    <3> QED
      BY <3>1, FS_EmptySet
  <2>2. First(s) \in s /\ f[First(s)] \in Int
    BY <2>1, FirstIn
  <2>3. Cardinality(s \ {First(s)}) = n
    BY <1>1, <2>2, Removed
  <2>4. g[s \ {First(s)}] = h[s \ {First(s)}] /\ h[s \ {First(s)}] \in Int
    BY <2>3
  <2> QED
    BY <1>2, <2>1, <2>2, <2>4
<1>5. P = Nat
  BY <1>3, <1>4, Rising
<1> QED
  BY <1>1, <1>5

\* The sum over no index, and one index after another.
LEMMA SumByFirst ==
    ASSUME NEW S, IsFiniteSet(S), NEW f, \A i \in S : f[i] \in Int
    PROVE  /\ SumFunctionOnSet(f, S) \in Int
           /\ S = {} => SumFunctionOnSet(f, S) = 0
           /\ S # {} => SumFunctionOnSet(f, S) = f[First(S)] + SumFunctionOnSet(f, S \ {First(S)})
<1> DEFINE g == CHOOSE g : SumRule(g, f, S)
           R == S \ {First(S)}
           h == CHOOSE h : SumRule(h, f, R)
<1>1. SumRule(g, f, S)
  BY SumExists
<1>2. IsFiniteSet(R) /\ R \subseteq S
  BY FS_Subset
<1>3. SumRule(h, f, R)
  BY <1>2, SumExists
<1>4. SumFunctionOnSet(f, S) = g[S] /\ SumFunctionOnSet(f, R) = h[R]
  BY SumIsFold
<1> HIDE DEF g, h
<1>5. g[S] \in Int
  BY <1>1, SumUnique
<1>6. g[R] = h[R]
  <2> HIDE DEF R
  <2> QED
    BY <1>1, <1>2, <1>3, SumUnique
<1>7. g[S] = IF S = {} THEN 0 ELSE f[First(S)] + g[R]
  BY <1>1 DEF SumRule, First
<1> QED
  BY <1>4, <1>5, <1>6, <1>7

\* What holds of no index, and of one more when it holds of some, holds of all.
LEMMA OneByOne ==
    ASSUME NEW S, IsFiniteSet(S), NEW P \in SUBSET (SUBSET S), {} \in P,
           \A T \in P : \A x \in S \ T : T \cup {x} \in P
    PROVE  S \in P
<1> DEFINE N == {n \in Nat : \A T \in SUBSET S : Cardinality(T) = n => T \in P}
<1>1. \A s \in SUBSET S : IsFiniteSet(s) /\ Cardinality(s) \in Nat
  BY FS_Subset, FS_CardinalityType
<1>2. 0 \in N
  <2>1. \A s \in SUBSET S : Cardinality(s) = 0 => s = {}
    BY <1>1, FS_EmptySet
  <2> QED
    BY <2>1
<1>3. ASSUME NEW n \in N PROVE n + 1 \in N
  <2> SUFFICES ASSUME NEW T \in SUBSET S, Cardinality(T) = n + 1 PROVE T \in P
    OBVIOUS
  <2>1. T # {}
    <3>1. Cardinality(T) # 0
      OBVIOUS
    <3> QED
      BY <3>1, FS_EmptySet
  <2>2. PICK x \in T : TRUE
    BY <2>1
  <2> DEFINE R == T \ {x}
  <2>3. Cardinality(R) = n
    BY <1>1, Removed
  <2>4. R \in SUBSET S /\ x \in S \ R /\ T = R \cup {x}
    OBVIOUS
  <2> HIDE DEF R
  <2>5. R \in P
    BY <2>3, <2>4
  <2> QED
    BY <2>4, <2>5
<1>4. N = Nat
  <2> HIDE DEF N
  <2>1. N \in SUBSET Nat
    BY DEF N
  <2> QED
    BY <1>2, <1>3, <2>1, Rising
<1> QED
  BY <1>1, <1>4

\* The order in which the fold takes the indices does not matter.
LEMMA SumWithout ==
    ASSUME NEW S, IsFiniteSet(S), NEW f, \A i \in S : f[i] \in Int, NEW x \in S
    PROVE  SumFunctionOnSet(f, S) = f[x] + SumFunctionOnSet(f, S \ {x})
<1> DEFINE N == {n \in Nat : \A T \in SUBSET S : Cardinality(T) = n =>
                   \A y \in T : SumFunctionOnSet(f, T) = f[y] + SumFunctionOnSet(f, T \ {y})}
<1>1. \A s \in SUBSET S : IsFiniteSet(s) /\ Cardinality(s) \in Nat
  BY FS_Subset, FS_CardinalityType
<1>2. 0 \in N
  <2>1. \A s \in SUBSET S : Cardinality(s) = 0 => s = {}
    BY <1>1, FS_EmptySet
  <2> QED
    BY <2>1
<1>3. ASSUME NEW n \in N PROVE n + 1 \in N
  <2> SUFFICES ASSUME NEW T \in SUBSET S, Cardinality(T) = n + 1, NEW y \in T
               PROVE  SumFunctionOnSet(f, T) = f[y] + SumFunctionOnSet(f, T \ {y})
    OBVIOUS
  <2> DEFINE c == First(T)
             U == T \ {y}
             W == T \ {c}
             V == T \ {c, y}
  <2>0. c \in T
    BY FirstIn
  <2>1. SumFunctionOnSet(f, T) = f[c] + SumFunctionOnSet(f, W)
    BY <1>1, SumByFirst
  <2>2. CASE c = y
    BY <2>1, <2>2
  <2>3. CASE c # y
    <3>1. Cardinality(U) = n /\ Cardinality(W) = n
      BY <1>1, <2>0, Removed
    <3>2. U \ {c} = V /\ W \ {y} = V /\ y \in W /\ c \in U
      BY <2>0, <2>3
    <3>3. SumFunctionOnSet(f, W) = f[y] + SumFunctionOnSet(f, V) /\ SumFunctionOnSet(f, U) = f[c] + SumFunctionOnSet(f, V)
      BY <3>1, <3>2
    <3>4. SumFunctionOnSet(f, V) \in Int
      <4>1. IsFiniteSet(V) /\ V \subseteq T
        BY <1>1, FS_Subset
      <4> HIDE DEF V
      <4> QED
        BY <4>1, SumByFirst
    <3>5. f[c] \in Int /\ f[y] \in Int
      BY <2>0
    <3> HIDE DEF c, U, V, W
    <3>6. SumFunctionOnSet(f, T) = f[y] + SumFunctionOnSet(f, U)
      BY <2>1, <3>3, <3>4, <3>5
    <3> QED
      BY <3>6 DEF U
  <2> QED
    BY <2>2, <2>3
<1>4. N = Nat
  <2> HIDE DEF N
  <2>1. N \in SUBSET Nat
    BY DEF N
  <2> QED
    BY <1>2, <1>3, <2>1, Rising
<1> QED
  BY <1>1, <1>4

\* The sum over nothing, and over one index more.
LEMMA SumOne ==
    ASSUME NEW S, IsFiniteSet(S), NEW f, NEW x, x \notin S, \A i \in S \cup {x} : f[i] \in Int
    PROVE  /\ SumFunctionOnSet(f, S) \in Int
           /\ SumFunctionOnSet(f, S \cup {x}) = f[x] + SumFunctionOnSet(f, S)
<1> DEFINE T == S \cup {x}
<1>1. IsFiniteSet(T) /\ x \in T /\ T \ {x} = S
  BY FS_AddElement
<1>2. SumFunctionOnSet(f, S) \in Int
  BY SumByFirst
<1> HIDE DEF T
<1>3. \A i \in T : f[i] \in Int
  BY DEF T
<1>4. SumFunctionOnSet(f, T) = f[x] + SumFunctionOnSet(f, T \ {x})
  BY <1>1, <1>3, SumWithout
<1> QED
  BY <1>1, <1>2, <1>4 DEF T

\* The sum over no index is nothing.
LEMMA SumNone == \A f : SumFunctionOnSet(f, {}) = 0
<1> DEFINE Z == {}
<1>1. IsFiniteSet(Z) /\ Z = {}
  BY FS_EmptySet
<1> HIDE DEF Z
<1>2. \A f : SumFunctionOnSet(f, Z) = 0
  BY <1>1, SumByFirst
<1> QED
  BY <1>1, <1>2

\* Sums are added index by index.
LEMMA SumAdds ==
    ASSUME NEW S, IsFiniteSet(S), NEW f, NEW g, NEW h,
           \A i \in S : f[i] \in Int /\ g[i] \in Int /\ h[i] = f[i] + g[i]
    PROVE  /\ SumFunctionOnSet(f, S) \in Int /\ SumFunctionOnSet(g, S) \in Int
           /\ SumFunctionOnSet(h, S) = SumFunctionOnSet(f, S) + SumFunctionOnSet(g, S)
<1> DEFINE Q(T) == /\ SumFunctionOnSet(f, T) \in Int /\ SumFunctionOnSet(g, T) \in Int
                   /\ SumFunctionOnSet(h, T) = SumFunctionOnSet(f, T) + SumFunctionOnSet(g, T)
           P == {T \in SUBSET S : Q(T)}
<1>1. {} \in P
  BY SumNone
<1>2. ASSUME NEW T \in P, NEW x \in S \ T PROVE T \cup {x} \in P
  <2>1. /\ SumFunctionOnSet(f, T \cup {x}) = f[x] + SumFunctionOnSet(f, T)
        /\ SumFunctionOnSet(g, T \cup {x}) = g[x] + SumFunctionOnSet(g, T)
        /\ SumFunctionOnSet(h, T \cup {x}) = h[x] + SumFunctionOnSet(h, T)
    <3>1. IsFiniteSet(T) /\ T \subseteq S
      BY FS_Subset
    <3>2. \A i \in T \cup {x} : f[i] \in Int /\ g[i] \in Int /\ h[i] \in Int
      BY <3>1
    <3> QED
      BY <3>1, <3>2, SumOne
  <2>2. f[x] \in Int /\ g[x] \in Int /\ h[x] = f[x] + g[x]
    OBVIOUS
  <2>3. Q(T)
    OBVIOUS
  <2> DEFINE A == SumFunctionOnSet(f, T)
             B == SumFunctionOnSet(g, T)
             C == SumFunctionOnSet(h, T)
  <2>4. A \in Int /\ B \in Int /\ C = A + B
    BY <2>3
  <2> HIDE DEF A, B, C
  <2>5. f[x] + A \in Int /\ g[x] + B \in Int /\ h[x] + C = (f[x] + A) + (g[x] + B)
    BY <2>2, <2>4
  <2>6. Q(T \cup {x})
    BY <2>1, <2>5 DEF A, B, C
  <2> QED
    BY <2>6
<1> HIDE DEF P
<1>3. P \in SUBSET (SUBSET S)
  BY DEF P
<1>4. S \in P
  BY <1>1, <1>2, <1>3, OneByOne
<1> QED
  BY <1>4 DEF P

\* Smaller summands have the smaller sum.
LEMMA SumBounds ==
    ASSUME NEW S, IsFiniteSet(S), NEW f, NEW g,
           \A i \in S : f[i] \in Nat /\ g[i] \in Nat /\ f[i] <= g[i]
    PROVE  SumFunctionOnSet(f, S) \in Nat /\ SumFunctionOnSet(g, S) \in Nat /\ SumFunctionOnSet(f, S) <= SumFunctionOnSet(g, S)
<1> DEFINE Q(T) == SumFunctionOnSet(f, T) \in Nat /\ SumFunctionOnSet(g, T) \in Nat /\ SumFunctionOnSet(f, T) <= SumFunctionOnSet(g, T)
           P == {T \in SUBSET S : Q(T)}
<1>1. {} \in P
  BY SumNone
<1>2. ASSUME NEW T \in P, NEW x \in S \ T PROVE T \cup {x} \in P
  <2>1. /\ SumFunctionOnSet(f, T \cup {x}) = f[x] + SumFunctionOnSet(f, T)
        /\ SumFunctionOnSet(g, T \cup {x}) = g[x] + SumFunctionOnSet(g, T)
    <3>1. IsFiniteSet(T) /\ T \subseteq S
      BY FS_Subset
    <3>2. \A i \in T \cup {x} : f[i] \in Int /\ g[i] \in Int
      BY <3>1
    <3> QED
      BY <3>1, <3>2, SumOne
  <2>2. f[x] \in Nat /\ g[x] \in Nat /\ f[x] <= g[x]
    OBVIOUS
  <2> DEFINE A == SumFunctionOnSet(f, T)
             B == SumFunctionOnSet(g, T)
  <2>4. A \in Nat /\ B \in Nat /\ A <= B
    OBVIOUS
  <2> HIDE DEF A, B
  <2>5. f[x] + A \in Nat /\ g[x] + B \in Nat /\ f[x] + A <= g[x] + B
    BY <2>2, <2>4
  <2>6. Q(T \cup {x})
    BY <2>1, <2>5 DEF A, B
  <2> QED
    BY <2>6
<1> HIDE DEF P
<1>3. P \in SUBSET (SUBSET S)
  BY DEF P
<1>4. S \in P
  BY <1>1, <1>2, <1>3, OneByOne
<1> QED
  BY <1>4 DEF P

\* The same summand for some of the indices, and nothing for the others.
LEMMA SumOfSame ==
    ASSUME NEW S, IsFiniteSet(S), NEW f, NEW A \in SUBSET S, NEW k \in Int,
           \A i \in S : f[i] = IF i \in A THEN k ELSE 0
    PROVE  SumFunctionOnSet(f, S) = Cardinality(A) * k
<1> DEFINE Q(T) == SumFunctionOnSet(f, T) \in Int /\ SumFunctionOnSet(f, T) = Cardinality(A \cap T) * k
           P == {T \in SUBSET S : Q(T)}
<1>0. \A T \in SUBSET S : IsFiniteSet(T) /\ IsFiniteSet(A \cap T) /\ Cardinality(A \cap T) \in Nat
  BY FS_Subset, FS_CardinalityType
<1>1. {} \in P
  <2>1. A \cap {} = {} /\ Cardinality({}) = 0 /\ 0 * k = 0
    BY FS_EmptySet
  <2> QED
    BY <2>1, SumNone
<1>2. ASSUME NEW T \in P, NEW x \in S \ T PROVE T \cup {x} \in P
  <2>0. T \subseteq S /\ IsFiniteSet(T)
    BY <1>0
  <2>1. SumFunctionOnSet(f, T \cup {x}) = f[x] + SumFunctionOnSet(f, T)
    <3>1. \A i \in T \cup {x} : f[i] \in Int
      BY <2>0
    <3> QED
      BY <2>0, <3>1, SumOne
  <2> DEFINE m == Cardinality(A \cap T)
  <2>2. SumFunctionOnSet(f, T) = m * k /\ m \in Nat
    BY <1>0, <2>0
  <2>3. CASE x \in A
    <3>1. A \cap (T \cup {x}) = (A \cap T) \cup {x} /\ x \notin A \cap T /\ f[x] = k
      BY <2>3
    <3>2. Cardinality(A \cap (T \cup {x})) = m + 1
      BY <1>0, <2>0, <3>1, FS_AddElement
    <3> HIDE DEF m
    <3>3. k + m * k = (m + 1) * k /\ k + m * k \in Int
      BY <2>2
    <3>4. Q(T \cup {x})
      BY <2>1, <2>2, <3>1, <3>2, <3>3
    <3> QED
      BY <2>0, <3>4
  <2>4. CASE x \notin A
    <3>1. A \cap (T \cup {x}) = A \cap T /\ f[x] = 0
      BY <2>4
    <3>2. Cardinality(A \cap (T \cup {x})) = m
      BY <3>1
    <3> HIDE DEF m
    <3>3. 0 + m * k = m * k /\ m * k \in Int
      BY <2>2
    <3>4. Q(T \cup {x})
      BY <2>1, <2>2, <3>1, <3>2, <3>3
    <3> QED
      BY <2>0, <3>4
  <2> QED
    BY <2>3, <2>4
<1> HIDE DEF P
<1>3. P \in SUBSET (SUBSET S)
  BY DEF P
<1>4. S \in P
  BY <1>1, <1>2, <1>3, OneByOne
<1>5. A \cap S = A
  OBVIOUS
<1> QED
  BY <1>4, <1>5 DEF P
-----------------------------------------------------------------------------
(* The accounts, in both modes.                                            *)

\* Every payment leaves the balance what is not paid.
LEMMA PayType ==
    ASSUME FundsTypeOK, NEW w \in Nat, NEW b \in Nat, NEW t \in Nat, Pay(w, b, t)
    PROVE  FundsTypeOK' /\ balance' = balance - (w + b + t)
<1>1. balance' = balance - (w + b + t) /\ w + b + t <= balance
  BY DEF Pay
<1>2. \A p \in Payees : paid[p] \in Nat
  BY DEF FundsTypeOK
<1>3. paid' \in [Payees -> Nat]
  BY <1>2 DEF Pay
<1> QED
  BY <1>1, <1>3 DEF FundsTypeOK

LEMMA HeldStakeNat == HeldStake \in Nat
  BY AmountAssumption DEF HeldStake

\* The amounts of some of the milestones, and of all of them.
LEMMA AmountsSum ==
    /\ IsFiniteSet(Indices)
    /\ \A i \in Indices : MilestoneAmounts[i] \in Nat
    /\ \A T \in SUBSET Indices : IsFiniteSet(T) /\ SumFunctionOnSet(MilestoneAmounts, T) \in Nat
    /\ SumFunctionOnSet(MilestoneAmounts, Indices) = Amount
<1>1. IsFiniteSet(Indices) /\ Indices = 1..Len(MilestoneAmounts)
  <2>1. IsFiniteSet(1..MilestoneCount)
    BY IndicesRange, FS_Interval
  <2> QED
    BY <2>1 DEF Indices, MilestoneCount
<1>2. \A i \in Indices : MilestoneAmounts[i] \in Nat
  BY <1>1, MilestoneAssumption
<1>3. \A T \in SUBSET Indices : IsFiniteSet(T) /\ SumFunctionOnSet(MilestoneAmounts, T) \in Nat
  <2> SUFFICES ASSUME NEW T \in SUBSET Indices
               PROVE  IsFiniteSet(T) /\ SumFunctionOnSet(MilestoneAmounts, T) \in Nat
    OBVIOUS
  <2>1. IsFiniteSet(T)
    BY <1>1, FS_Subset
  <2>2. \A i \in T : MilestoneAmounts[i] \in Nat /\ MilestoneAmounts[i] <= MilestoneAmounts[i]
    BY <1>2
  <2> QED
    BY <2>1, <2>2, SumBounds
<1>4. SumFunctionOnSet(MilestoneAmounts, Indices) = Amount
  BY <1>1, MilestonesAddUp
<1> QED
  BY <1>1, <1>2, <1>3, <1>4

\* The part of a bond that goes with a part of the amount.
LEMMA ShareBound ==
    ASSUME NEW h \in Nat, NEW a \in Nat, NEW n \in Nat \ {0}, a <= n
    PROVE  (h * a) \div n \in 0..h
<1> DEFINE x == h * a
           q == x \div n
<1>1. x \in Nat /\ x <= h * n
  <2>1. h * n - h * a = h * (n - a)
    OBVIOUS
  <2>2. h * (n - a) \in Nat /\ h * n \in Nat /\ h * a \in Nat
    OBVIOUS
  <2> QED
    BY <2>1, <2>2
<1> HIDE DEF x
<1>2. q \in Int /\ n * q <= x /\ x < n * q + n
  BY <1>1
<1>3. q >= 0
  <2> SUFFICES ASSUME q < 0 PROVE FALSE
    BY <1>2
  <2>1. n * q <= n * (-1)
    BY <1>2
  <2> QED
    BY <1>1, <1>2, <2>1
<1>4. q <= h
  <2> SUFFICES ASSUME q >= h + 1 PROVE FALSE
    BY <1>2
  <2>1. n * q >= n * (h + 1)
    BY <1>2
  <2>2. n * (h + 1) = h * n + n
    OBVIOUS
  <2> QED
    BY <1>1, <1>2, <2>1, <2>2
<1> QED
  BY <1>2, <1>3, <1>4 DEF x

\* What the worker has earned is part of the amount, and what returns of the
\* bond is part of the bond; a worker who has earned nothing loses it all.
Earned(ms) == [i \in Indices |->
        CASE ms[i].status = "Approved" -> MilestoneAmounts[i]
          [] ms[i].status = "Resolved" -> BpsOf(MilestoneAmounts[i], ms[i].awardBps)
          [] OTHER -> 0]
Unearned(ms) == \A i \in Indices : ms[i].status \notin {"Approved", "Resolved"}

LEMMA ReturnBound ==
    ASSUME NEW ms, \A i \in Indices : ms[i].awardBps \in 0..BPS
    PROVE  /\ WorkerStakeReturn(ms) \in Nat /\ WorkerStakeReturn(ms) <= HeldStake
           /\ Unearned(ms) => WorkerStakeReturn(ms) = 0
<1> DEFINE E == Earned(ms)
           a == SumFunctionOnSet(E, Indices)
<1>1. WorkerAwarded(ms) = a
  <2>1. DOMAIN E = Indices
    BY DEF Earned
  <2>2. WorkerAwarded(ms) = SumFunctionOnSet(E, DOMAIN E)
    BY DEF WorkerAwarded, SumFunction, Earned
  <2> QED
    BY <2>1, <2>2
<1>2. \A i \in Indices : E[i] \in Nat /\ E[i] <= MilestoneAmounts[i]
  <2> SUFFICES ASSUME NEW i \in Indices PROVE E[i] \in Nat /\ E[i] <= MilestoneAmounts[i]
    OBVIOUS
  <2>1. MilestoneAmounts[i] \in Nat
    BY AmountsSum
  <2>2. BpsOf(MilestoneAmounts[i], ms[i].awardBps) \in 0..MilestoneAmounts[i]
    BY <2>1, BpsOfBound
  <2>3. E[i] = CASE ms[i].status = "Approved" -> MilestoneAmounts[i]
                 [] ms[i].status = "Resolved" -> BpsOf(MilestoneAmounts[i], ms[i].awardBps)
                 [] OTHER -> 0
    BY DEF Earned
  <2> QED
    BY <2>1, <2>2, <2>3
<1> HIDE DEF E
<1>3. a \in Nat /\ a <= Amount
  <2>1. \A i \in Indices : E[i] \in Nat /\ MilestoneAmounts[i] \in Nat /\ E[i] <= MilestoneAmounts[i]
    BY <1>2, AmountsSum
  <2> QED
    BY <2>1, AmountsSum, SumBounds
<1>4. Unearned(ms) => a = 0
  <2> SUFFICES ASSUME Unearned(ms) PROVE a = 0
    OBVIOUS
  <2>1. \A i \in Indices : E[i] = IF i \in {} THEN 0 ELSE 0
    BY DEF E, Earned, Unearned
  <2>2. a = Cardinality({}) * 0
    <3> DEFINE Z == {}
    <3>1. Z \in SUBSET Indices
      OBVIOUS
    <3>2. \A i \in Indices : E[i] = IF i \in Z THEN 0 ELSE 0
      BY <2>1
    <3> HIDE DEF Z
    <3>3. a = Cardinality(Z) * 0
      BY <3>1, <3>2, AmountsSum, SumOfSame
    <3> QED
      BY <3>3 DEF Z
  <2> QED
    BY <2>2, FS_EmptySet
<1> HIDE DEF a
<1>5. (HeldStake * a) \div Amount \in 0..HeldStake
  BY <1>3, HeldStakeNat, AmountAssumption, ShareBound
<1>6. WorkerStakeReturn(ms) = IF a = Amount THEN HeldStake ELSE (HeldStake * a) \div Amount
  BY <1>1 DEF WorkerStakeReturn
<1>7. a = 0 => (HeldStake * a) \div Amount = 0 /\ a # Amount
  BY HeldStakeNat, AmountAssumption
<1> QED
  BY <1>4, <1>5, <1>6, <1>7, HeldStakeNat

\* Moving stakes to their claimants moves nothing out of the contract.
LEMMA RefundPreserves ==
    ASSUME VoteInv, RefundUnsettledVerifierStakes
    PROVE  quorumStakeCount' * VerifierStake + owed'
             = quorumStakeCount * VerifierStake + owed
<1>1. CASE VerifierStake = 0 \/ quorumStakeCount = 0
  BY <1>1 DEF RefundUnsettledVerifierStakes, stakeVars
<1>2. CASE ~(VerifierStake = 0 \/ quorumStakeCount = 0)
  <2>1. /\ owed' = owed + Cardinality(Staked) * VerifierStake
        /\ quorumStakeCount = Cardinality(Staked) /\ owed \in Int
    BY <1>2 DEF RefundUnsettledVerifierStakes, VoteInv, CountersAgree, QuorumTypeOK
  <2>2. quorumStakeCount' = 0
    BY RefundClears DEF VoteInv, StakesCleared
  <2>3. Cardinality(Staked) * VerifierStake \in Int /\ 0 * VerifierStake = 0
    BY StakedFinite, Thresholds
  <2> QED
    BY <2>1, <2>2, <2>3
<1> QED
  BY <1>1, <1>2

LEMMA SettlePreserves ==
    ASSUME VoteInv, NEW votes, NEW winner, SettleVerifierStakes(votes, winner)
    PROVE  quorumStakeCount' * VerifierStake + owed'
             = quorumStakeCount * VerifierStake + owed
<1>1. CASE VerifierStake = 0
  BY <1>1 DEF SettleVerifierStakes, stakeVars
<1>2. CASE VerifierStake # 0
  <2>1. /\ owed' = owed + Cardinality(Staked) * VerifierStake
        /\ quorumStakeCount = Cardinality(Staked) /\ owed \in Int
    BY <1>2 DEF SettleVerifierStakes, VoteInv, CountersAgree, QuorumTypeOK
  <2>2. quorumStakeCount' = 0
    BY SettleClears DEF VoteInv, StakesCleared
  <2>3. Cardinality(Staked) * VerifierStake \in Int /\ 0 * VerifierStake = 0
    BY StakedFinite, Thresholds
  <2> QED
    BY <2>1, <2>2, <2>3
<1> QED
  BY <1>1, <1>2

\* What is owed is what can be withdrawn, claimant by claimant.
LEMMA ClaimantsFinite == IsFiniteSet(Claimants) /\ "buyer" \in Claimants /\ Verifiers \subseteq Claimants
  BY QuorumAssumption, FS_AddElement DEF Claimants

LEMMA OwedSum ==
    ASSUME QuorumTypeOK
    PROVE  /\ OwedIsWithdrawable <=> owed = SumFunctionOnSet(withdrawable, Claimants)
           /\ SumFunctionOnSet(withdrawable, Claimants) \in Int
<1>1. DOMAIN withdrawable = Claimants /\ \A c \in Claimants : withdrawable[c] \in Int
  BY DEF QuorumTypeOK
<1>2. SumFunctionOnSet(withdrawable, Claimants) \in Int
  BY <1>1, ClaimantsFinite, SumByFirst
<1> QED
  BY <1>1, <1>2 DEF OwedIsWithdrawable, SumFunction

\* More may be withdrawn, and as much more is owed.
LEMMA MoreIsOwed ==
    ASSUME QuorumTypeOK, QuorumTypeOK', OwedIsWithdrawable, NEW more,
           \A c \in Claimants : more[c] \in Int /\ withdrawable'[c] = withdrawable[c] + more[c],
           owed' = owed + SumFunctionOnSet(more, Claimants)
    PROVE  OwedIsWithdrawable'
<1> DEFINE w == withdrawable
           v == withdrawable'
<1>1. \A c \in Claimants : w[c] \in Int /\ more[c] \in Int /\ v[c] = w[c] + more[c]
  BY DEF QuorumTypeOK
<1>2. DOMAIN v = Claimants
  BY DEF QuorumTypeOK
<1>3. owed = SumFunctionOnSet(w, Claimants)
  BY OwedSum
<1> HIDE DEF w, v
<1>4. SumFunctionOnSet(v, Claimants) = SumFunctionOnSet(w, Claimants) + SumFunctionOnSet(more, Claimants)
  BY <1>1, ClaimantsFinite, SumAdds
<1>5. owed' = SumFunctionOnSet(v, Claimants)
  BY <1>3, <1>4
<1> QED
  BY <1>2, <1>5 DEF OwedIsWithdrawable, SumFunction, v

LEMMA RefundOwes ==
    ASSUME VoteInv, QuorumTypeOK', OwedIsWithdrawable, RefundUnsettledVerifierStakes
    PROVE  OwedIsWithdrawable'
<1>1. CASE VerifierStake = 0 \/ quorumStakeCount = 0
  BY <1>1 DEF RefundUnsettledVerifierStakes, stakeVars, OwedIsWithdrawable
<1>2. CASE ~(VerifierStake = 0 \/ quorumStakeCount = 0)
  <2> DEFINE more == [c \in Claimants |-> IF c \in Staked THEN VerifierStake ELSE 0]
  <2>1. /\ withdrawable' = [c \in Claimants |-> withdrawable[c] + (IF c \in Staked THEN VerifierStake ELSE 0)]
        /\ owed' = owed + Cardinality(Staked) * VerifierStake
    BY <1>2 DEF RefundUnsettledVerifierStakes
  <2>2. \A c \in Claimants : more[c] \in Int /\ withdrawable'[c] = withdrawable[c] + more[c]
    BY <2>1, Thresholds
  <2>3. Staked \in SUBSET Claimants
    BY ClaimantsFinite DEF Staked
  <2>4. \A c \in Claimants : more[c] = IF c \in Staked THEN VerifierStake ELSE 0
    OBVIOUS
  <2> HIDE DEF more
  <2>5. SumFunctionOnSet(more, Claimants) = Cardinality(Staked) * VerifierStake
    BY <2>3, <2>4, ClaimantsFinite, Thresholds, SumOfSame
  <2>6. QuorumTypeOK
    BY DEF VoteInv
  <2> QED
    BY <2>1, <2>2, <2>5, <2>6, MoreIsOwed
<1> QED
  BY <1>1, <1>2

LEMMA SettleOwes ==
    ASSUME VoteInv, QuorumTypeOK', OwedIsWithdrawable, NEW votes, NEW winner,
           SettleVerifierStakes(votes, winner)
    PROVE  OwedIsWithdrawable'
<1>1. CASE VerifierStake = 0
  BY <1>1 DEF SettleVerifierStakes, stakeVars, OwedIsWithdrawable
<1>2. CASE VerifierStake # 0
  <2> DEFINE slashed == Staked \cap Minority(votes, winner)
             kept == Staked \ slashed
             back == [c \in Claimants |-> IF c \in kept THEN VerifierStake ELSE 0]
             lost == Cardinality(slashed) * VerifierStake
             prize == [c \in Claimants |-> IF c \in {"buyer"} THEN lost ELSE 0]
             more == [c \in Claimants |-> back[c] + prize[c]]
  <2>1. /\ withdrawable' = [c \in Claimants |->
                withdrawable[c] + (IF c \in kept THEN VerifierStake ELSE 0)
                  + (IF c = "buyer" THEN lost ELSE 0)]
        /\ owed' = owed + Cardinality(Staked) * VerifierStake
    BY <1>2 DEF SettleVerifierStakes
  <2>2. /\ Cardinality(slashed) \in Nat /\ Cardinality(kept) \in Nat
        /\ Cardinality(Staked) = Cardinality(kept) + Cardinality(slashed)
    <3>1. IsFiniteSet(Staked) /\ Cardinality(Staked) \in Nat /\ Staked \subseteq Verifiers
      BY StakedFinite DEF Staked
    <3>2. Cardinality(slashed) \in Nat /\ Cardinality(kept) \in Nat
      BY <3>1, PanelFinite
    <3>3. Staked \cap slashed = slashed
      OBVIOUS
    <3>4. Cardinality(kept) = Cardinality(Staked) - Cardinality(Staked \cap slashed)
      <4> HIDE DEF slashed
      <4> QED
        BY <3>1, FS_Difference
    <3> QED
      BY <3>1, <3>2, <3>3, <3>4
  <2>3. /\ kept \in SUBSET Claimants
        /\ \A c \in Claimants : back[c] = IF c \in kept THEN VerifierStake ELSE 0
    BY ClaimantsFinite DEF Staked
  <2>4. \A c \in Claimants : prize[c] = IF c \in {"buyer"} THEN lost ELSE 0
    OBVIOUS
  <2>5. lost \in Int
    BY <2>2, Thresholds
  <2>6. \A c \in Claimants : more[c] = back[c] + prize[c]
    OBVIOUS
  <2> HIDE DEF slashed, lost
  <2>7. \A c \in Claimants : /\ back[c] \in Int /\ prize[c] \in Int /\ more[c] \in Int
                             /\ withdrawable[c] \in Nat
    BY <2>5, Thresholds DEF VoteInv, QuorumTypeOK
  <2>8. \A c \in Claimants : withdrawable'[c] = withdrawable[c] + more[c]
    BY <2>1, <2>5, <2>7, Thresholds
  <2> HIDE DEF back, prize, more, kept
  <2>9. SumFunctionOnSet(back, Claimants) = Cardinality(kept) * VerifierStake
    BY <2>3, ClaimantsFinite, Thresholds, SumOfSame
  <2>10. SumFunctionOnSet(prize, Claimants) = lost
    <3> DEFINE B == {"buyer"}
    <3>1. B \in SUBSET Claimants /\ \A c \in Claimants : prize[c] = IF c \in B THEN lost ELSE 0
      BY <2>4, ClaimantsFinite
    <3>2. Cardinality(B) = 1
      BY FS_Singleton
    <3> HIDE DEF B
    <3>3. SumFunctionOnSet(prize, Claimants) = Cardinality(B) * lost
      BY <2>5, <3>1, ClaimantsFinite, SumOfSame
    <3> QED
      BY <2>5, <3>2, <3>3
  <2>11. SumFunctionOnSet(more, Claimants)
           = SumFunctionOnSet(back, Claimants) + SumFunctionOnSet(prize, Claimants)
    BY <2>6, <2>7, ClaimantsFinite, SumAdds
  <2>12. (Cardinality(kept) + Cardinality(slashed)) * VerifierStake
           = Cardinality(kept) * VerifierStake + Cardinality(slashed) * VerifierStake
    BY <2>2, Thresholds
  <2>13. SumFunctionOnSet(more, Claimants) = Cardinality(Staked) * VerifierStake
    BY <2>2, <2>9, <2>10, <2>11, <2>12 DEF lost
  <2>14. owed' = owed + SumFunctionOnSet(more, Claimants)
    BY <2>1, <2>13
  <2>15. QuorumTypeOK
    BY DEF VoteInv
  <2> QED
    BY <2>7, <2>8, <2>14, <2>15, MoreIsOwed
<1> QED
  BY <1>1, <1>2

LEMMA WithdrawOwes ==
    ASSUME VoteInv, QuorumTypeOK', OwedIsWithdrawable, NEW c \in Claimants, WithdrawStake(c)
    PROVE  OwedIsWithdrawable'
<1> DEFINE more == [d \in Claimants |-> IF d \in {c} THEN -withdrawable[c] ELSE 0]
           B == {c}
<1>1. /\ withdrawable' = [withdrawable EXCEPT ![c] = 0] /\ owed' = owed - withdrawable[c]
      /\ withdrawable \in [Claimants -> Nat] /\ QuorumTypeOK /\ owed \in Int
  BY DEF WithdrawStake, VoteInv, QuorumTypeOK
<1>2. \A d \in Claimants : more[d] \in Int /\ withdrawable'[d] = withdrawable[d] + more[d]
  BY <1>1
<1>3. B \in SUBSET Claimants /\ \A d \in Claimants : more[d] = IF d \in B THEN -withdrawable[c] ELSE 0
  OBVIOUS
<1>4. -withdrawable[c] \in Int /\ withdrawable[c] \in Nat
  BY <1>1
<1>5. Cardinality(B) = 1
  BY FS_Singleton
<1> HIDE DEF more, B
<1>6. SumFunctionOnSet(more, Claimants) = Cardinality(B) * (-withdrawable[c])
  BY <1>3, <1>4, ClaimantsFinite, SumOfSame
<1>7. owed' = owed + SumFunctionOnSet(more, Claimants)
  BY <1>1, <1>4, <1>5, <1>6
<1> QED
  BY <1>1, <1>2, <1>7, MoreIsOwed

LEMMA OwedStep ==
    ASSUME VoteInv, QuorumTypeOK', OwedIsWithdrawable, [Next]_vars
    PROVE  OwedIsWithdrawable'
<1>1. ASSUME UNCHANGED <<withdrawable, owed>> PROVE OwedIsWithdrawable'
  BY <1>1 DEF OwedIsWithdrawable
<1>2. CASE RefundUnsettledVerifierStakes
  BY <1>2, RefundOwes
<1>3. ASSUME NEW v, NEW vote, CastSingleVote(v, vote) PROVE OwedIsWithdrawable'
  BY <1>1, <1>3, SettleOwes
  DEF CastSingleVote, QuorumApprove, QuorumReject, VoteOnly, stakeVars
<1>4. ASSUME NEW v, NEW vote, CastMilestoneVote(v, vote) PROVE OwedIsWithdrawable'
  BY <1>1, <1>4, SettleOwes DEF CastMilestoneVote, VoteOnly, stakeVars
<1>5. CASE CommonNext
  BY <1>1, <1>2, <1>5, WithdrawOwes
  DEF CommonNext, Fund, FundWithAuthorization, AcceptFunding, CancelBeforeFunding,
      DepositStake, DepositVerifierStake, ClaimTimeoutRefund, RefundInFull, ActivateBackup,
      SetFrozen, EmergencyResolve, EmergencyCancel, EmergencySettle, SettleWithAward,
      EmergencySettleMilestones, Tick, stakeVars
<1>6. CASE SingleShotNext
  BY <1>1, <1>2, <1>3, <1>6
  DEF SingleShotNext, Submit, CastVerifierVote, VerifyAndApprove, ResolveDispute,
      SettleWithAward, ApproveByBuyer, Dispute, EscalateSilence, ExpireNoQuorum,
      ExitReviewWithoutQuorum, ClaimArbitratorTimeout, RefundInFull, stakeVars
<1>7. CASE MilestoneNext
  BY <1>1, <1>2, <1>4, <1>7
  DEF MilestoneNext, SubmitMilestone, CastMilestoneVerifierVote,
      VerifyAndApproveMilestone, ResolveMilestoneDispute, ApproveMilestoneByBuyer,
      DisputeMilestone, EscalateMilestoneSilence, ExpireMilestoneNoQuorum,
      ExitReviewWithoutQuorum, ClaimMilestoneTimeoutRefund,
      ClaimMilestoneArbitratorTimeout, CancelCurrentMilestone,
      AbortRemainingMilestones, stakeVars
<1>8. CASE UNCHANGED vars
  BY <1>1, <1>8 DEF vars
<1> QED
  BY <1>5, <1>6, <1>7, <1>8 DEF Next

LEMMA InitOwed == Init => OwedIsWithdrawable
<1> SUFFICES ASSUME Init PROVE OwedIsWithdrawable
  OBVIOUS
<1> DEFINE Z == {}
<1>1. /\ DOMAIN withdrawable = Claimants /\ owed = 0 /\ Z \in SUBSET Claimants
      /\ \A c \in Claimants : withdrawable[c] = IF c \in Z THEN 0 ELSE 0
  BY DEF Init
<1>2. Cardinality(Z) = 0
  BY FS_EmptySet
<1> HIDE DEF Z
<1>3. SumFunctionOnSet(withdrawable, Claimants) = Cardinality(Z) * 0
  BY <1>1, ClaimantsFinite, SumOfSame
<1> QED
  BY <1>1, <1>2, <1>3 DEF OwedIsWithdrawable, SumFunction

\* Whatever was withdrawn, what is owed is the sum of what can be.
LEMMA OwedCorrect == Spec => []OwedIsWithdrawable
<1>1. VoteInv => QuorumTypeOK
  BY DEF VoteInv
<1>2. VoteInv /\ QuorumTypeOK' /\ OwedIsWithdrawable /\ [Next]_vars => OwedIsWithdrawable'
  BY OwedStep
<1> QED
  BY <1>1, <1>2, InitOwed, VoteInvCorrect, PTL DEF Spec

\* What the contract should hold besides the verifiers' money.
Unfinished(ms) == {i \in Indices : ms[i].status \notin MilestoneTerminal}
Remaining == IF Single THEN Amount ELSE Undistributed
Deposit == IF Open THEN Remaining + HeldStake ELSE 0
StakeSum == quorumStakeCount * VerifierStake + owed
NothingDoneBeforeFunding ==
    status = "Created" => ~workerStaked /\ \A i \in Indices : milestones[i].status = "Pending"
ReviewsApart == ~Single => status \notin {"Submitted", "Disputed"}
AccountInv ==
    /\ FundsTypeOK
    /\ ~LumpRefund => balance = Deposit + StakeSum
    /\ NothingDoneBeforeFunding
    /\ ReviewsApart

LEMMA StakeSumInt == VoteInv => StakeSum \in Int
  BY Thresholds DEF VoteInv, QuorumTypeOK, StakeSum

LEMMA RemainingNat == Remaining \in Nat
<1>1. Unfinished(milestones) \in SUBSET Indices
  BY DEF Unfinished
<1>2. Undistributed = SumFunctionOnSet(MilestoneAmounts, Unfinished(milestones))
  BY DEF Undistributed, Unfinished
<1> QED
  BY <1>1, <1>2, AmountsSum, AmountAssumption DEF Remaining

\* An open escrow has not been emptied by claimTimeoutRefund.
LEMMA OpenIsWhole ==
    ASSUME AccountInv, Open \/ status = "Created"
    PROVE  ~LumpRefund /\ balance = Deposit + StakeSum
  BY DEF AccountInv, LumpRefund, Open

\* A step that moves neither principal nor bond.
LEMMA NoPayKeeps ==
    ASSUME AccountInv, VoteInv, UNCHANGED fundVars, UNCHANGED workerStaked, Open, Open',
           Remaining' = Remaining, ReviewsApart', StakeSum' = StakeSum
    PROVE  AccountInv'
<1>1. balance = Deposit + StakeSum
  BY OpenIsWhole
<1>2. Deposit' = Deposit
  BY DEF Deposit, HeldStake
<1>3. NothingDoneBeforeFunding'
  BY DEF NothingDoneBeforeFunding, Open
<1> QED
  BY <1>1, <1>2, <1>3 DEF AccountInv, FundsTypeOK, fundVars

\* A step that changes nothing the accounts speak of.
LEMMA SameKeeps ==
    ASSUME AccountInv, UNCHANGED fundVars, UNCHANGED <<status, milestones, workerStaked>>,
           StakeSum' = StakeSum
    PROVE  AccountInv'
<1>1. Deposit' = Deposit /\ LumpRefund' = LumpRefund
  BY DEF Deposit, HeldStake, Open, Remaining, Undistributed, LumpRefund, AllTerminal
<1> QED
  BY <1>1 DEF AccountInv, FundsTypeOK, NothingDoneBeforeFunding, ReviewsApart, fundVars

\* A step that pays principal and bond out and closes.
LEMMA CloseKeeps ==
    ASSUME AccountInv, VoteInv, Open, status' \in {"Settled", "Refunded"},
           NEW w \in Nat, NEW b \in Nat, NEW t \in Nat, Pay(w, b, t),
           w + b + t = Remaining + HeldStake, StakeSum' = StakeSum
    PROVE  AccountInv'
<1>1. FundsTypeOK' /\ balance' = balance - (Remaining + HeldStake)
  BY PayType DEF AccountInv
<1>2. balance = Remaining + HeldStake + StakeSum /\ StakeSum \in Int
  BY OpenIsWhole, StakeSumInt DEF Deposit
<1>3. balance' = StakeSum'
  BY <1>1, <1>2, HeldStakeNat, RemainingNat
<1>4. Deposit' = 0 /\ NothingDoneBeforeFunding' /\ ReviewsApart' /\ StakeSum' \in Int
  BY <1>2 DEF Deposit, NothingDoneBeforeFunding, ReviewsApart, Open
<1> QED
  BY <1>1, <1>3, <1>4 DEF AccountInv

\* In milestone mode claimTimeoutRefund pays more than what is left.
LEMMA RefundInFullKeeps ==
    ASSUME AccountInv, VoteInv, Open, ~Single => ~AllTerminal(milestones), NEW o, RefundInFull(o)
    PROVE  AccountInv'
<1>1. StakeSum' = StakeSum
  BY RefundPreserves DEF RefundInFull, StakeSum
<1>2. Pay(0, Amount + HeldStake, 0) /\ status' = "Refunded"
  BY DEF RefundInFull
<1>3. CASE Single
  BY <1>1, <1>2, <1>3, HeldStakeNat, AmountAssumption, CloseKeeps DEF Remaining
<1>4. CASE ~Single
  <2>1. milestones' = milestones
    BY <1>4 DEF RefundInFull, SyncMilestone
  <2>2. LumpRefund'
    BY <1>2, <1>4, <2>1 DEF LumpRefund, AllTerminal
  <2>3. FundsTypeOK'
    BY <1>2, HeldStakeNat, AmountAssumption, PayType DEF AccountInv
  <2> QED
    BY <1>2, <2>2, <2>3 DEF AccountInv, NothingDoneBeforeFunding, ReviewsApart
<1> QED
  BY <1>3, <1>4

LEMMA AwardKeeps ==
    ASSUME AccountInv, VoteInv, Open, Single, NEW bps \in Awards, SettleWithAward(bps)
    PROVE  AccountInv'
<1> DEFINE s == SettleResolved(Amount, bps, FeeBps)
           r == StakeReturn(HeldStake, bps)
<1>1. StakeSum' = StakeSum
  BY RefundPreserves DEF SettleWithAward, StakeSum
<1>2. /\ s.workerNet \in Nat /\ s.buyerRefund \in Nat /\ s.fee \in Nat
      /\ s.workerNet + s.buyerRefund + s.fee = Remaining
  BY SettleResolvedSum, AmountAssumption DEF Remaining
<1>3. r \in Nat /\ r <= HeldStake
  BY StakeReturnBound, HeldStakeNat, AmountAssumption
<1>4. Pay(s.workerNet + r, s.buyerRefund + (HeldStake - r), s.fee) /\ status' = "Settled"
  BY DEF SettleWithAward
<1> HIDE DEF s, r
<1> QED
  BY <1>1, <1>2, <1>3, <1>4, HeldStakeNat, CloseKeeps

LEMMA ApproveKeeps ==
    ASSUME AccountInv, VoteInv, Open, Single, Approve, StakeSum' = StakeSum
    PROVE  AccountInv'
<1> DEFINE s == SettleApproved(Amount, FeeBps)
<1>1. s.workerNet \in Nat /\ s.fee \in Nat /\ s.workerNet + s.fee = Remaining
  BY SettleApprovedSum, AmountAssumption DEF Remaining
<1>2. Pay(s.workerNet + HeldStake, 0, s.fee) /\ status' = "Settled"
  BY DEF Approve
<1> HIDE DEF s
<1> QED
  BY <1>1, <1>2, HeldStakeNat, CloseKeeps

\* Receiving a deposit.
LEMMA ReceiveType ==
    ASSUME FundsTypeOK, NEW x \in Nat, Receive(x)
    PROVE  FundsTypeOK' /\ balance' = balance + x
  BY DEF FundsTypeOK, Receive

\* As long as no milestone is finished, the whole amount is left.
LEMMA AllIsLeft ==
    ASSUME \A i \in Indices : milestones[i].status = "Pending"
    PROVE  Remaining = Amount
<1>1. Unfinished(milestones) = Indices
  BY DEF Unfinished, MilestoneTerminal
<1>2. Undistributed = SumFunctionOnSet(MilestoneAmounts, Unfinished(milestones))
  BY DEF Undistributed, Unfinished
<1> QED
  BY <1>1, <1>2, AmountsSum DEF Remaining

\* What is left depends on which milestones are finished, and on nothing else.
LEMMA SameLeft ==
    ASSUME \A i \in Indices : milestones'[i].status \in MilestoneTerminal
                                <=> milestones[i].status \in MilestoneTerminal
    PROVE  Remaining' = Remaining
<1> DEFINE A == Unfinished(milestones)
           B == Unfinished(milestones')
<1>1. A = B
  BY DEF Unfinished
<1>2. Undistributed = SumFunctionOnSet(MilestoneAmounts, A)
  BY DEF Undistributed, Unfinished
<1>3. Undistributed' = SumFunctionOnSet(MilestoneAmounts, B)
  BY DEF Undistributed, Unfinished
<1> QED
  BY <1>1, <1>2, <1>3 DEF Remaining

\* Finishing the current milestone takes its amount from what is left.
LEMMA LessLeft ==
    ASSUME NEW ms, NEW cur \in Indices, milestones[cur].status \notin MilestoneTerminal,
           \A i \in Indices : i # cur => ms[i] = milestones[i],
           ms[cur].status \in MilestoneTerminal
    PROVE  SumFunctionOnSet(MilestoneAmounts, Unfinished(milestones))
             = MilestoneAmounts[cur] + SumFunctionOnSet(MilestoneAmounts, Unfinished(ms))
<1> DEFINE A == Unfinished(milestones)
           B == Unfinished(ms)
<1>1. B = A \ {cur} /\ cur \in A /\ A \in SUBSET Indices
  BY DEF Unfinished
<1> HIDE DEF A, B
<1>2. IsFiniteSet(A) /\ \A i \in A : MilestoneAmounts[i] \in Int
  BY <1>1, AmountsSum
<1>3. SumFunctionOnSet(MilestoneAmounts, A)
        = MilestoneAmounts[cur] + SumFunctionOnSet(MilestoneAmounts, A \ {cur})
  BY <1>1, <1>2, SumWithout
<1> QED
  BY <1>1, <1>3 DEF A, B

\* When all are finished nothing is left.
LEMMA NothingLeft ==
    ASSUME NEW ms, AllTerminal(ms)
    PROVE  SumFunctionOnSet(MilestoneAmounts, Unfinished(ms)) = 0
<1>1. Unfinished(ms) = {}
  BY DEF Unfinished, AllTerminal
<1> QED
  BY <1>1, SumNone

\* A payment that finishes the current milestone (_advanceMilestone).
LEMMA AdvanceKeeps ==
    ASSUME AccountInv, VoteInv, ControlTypeOK, OrderInv, MultiFunded,
           NEW ms \in [Indices -> Milestone],
           \A i \in Indices : i # currentMilestone => ms[i] = milestones[i],
           ms[currentMilestone].status \in MilestoneTerminal,
           NEW w \in Nat, NEW b \in Nat, NEW t \in Nat,
           w + b + t = MilestoneAmounts[currentMilestone],
           AdvanceMilestone(ms, w, b, t), StakeSum' = StakeSum
    PROVE  AccountInv'
<1> DEFINE left == SumFunctionOnSet(MilestoneAmounts, Unfinished(ms))
           amount == MilestoneAmounts[currentMilestone]
<1>1. /\ status = "Funded" /\ ~Single /\ Open /\ currentMilestone \in Indices
      /\ milestones[currentMilestone].status \notin MilestoneTerminal
  BY DEF MultiFunded, OrderInv, InOrder, ControlTypeOK, Open
<1>2. Remaining = amount + left
  BY <1>1, LessLeft DEF Remaining, Undistributed, Unfinished
<1>3. left \in Nat /\ amount \in Nat
  <2>1. Unfinished(ms) \in SUBSET Indices
    BY DEF Unfinished
  <2> QED
    BY <1>1, <2>1, AmountsSum
<1>4. milestones' = ms /\ UNCHANGED workerStaked
  BY DEF AdvanceMilestone, workerVars
<1>5. CASE AllTerminal(ms)
  <2> DEFINE r == WorkerStakeReturn(ms)
  <2>1. r \in Nat /\ r <= HeldStake
    <3>1. \A i \in Indices : ms[i].awardBps \in 0..BPS
      BY DEF Milestone
    <3> QED
      BY <3>1, ReturnBound
  <2>2. Pay(w + r, b + (HeldStake - r), t) /\ status' = "Settled"
    BY <1>5 DEF AdvanceMilestone
  <2>3. left = 0
    BY <1>5, NothingLeft
  <2> HIDE DEF r, left, amount
  <2>4. /\ w + r \in Nat /\ b + (HeldStake - r) \in Nat
        /\ (w + r) + (b + (HeldStake - r)) + t = Remaining + HeldStake
    BY <1>2, <1>3, <2>1, <2>3, HeldStakeNat DEF amount
  <2> QED
    BY <1>1, <2>2, <2>4, CloseKeeps
<1>6. CASE ~AllTerminal(ms)
  <2>1. Pay(w, b, t) /\ UNCHANGED status
    BY <1>6 DEF AdvanceMilestone
  <2>2. FundsTypeOK' /\ balance' = balance - amount
    BY <2>1, PayType DEF AccountInv
  <2>3. balance = Remaining + HeldStake + StakeSum /\ StakeSum \in Int
    BY <1>1, OpenIsWhole, StakeSumInt DEF Deposit
  <2>4. Remaining' = left
    BY <1>1, <1>4 DEF Remaining, Undistributed, Unfinished
  <2>5. HeldStake' = HeldStake /\ Open'
    BY <1>1, <1>4, <2>1 DEF HeldStake, Open
  <2> HIDE DEF left, amount
  <2>6. balance' = Deposit' + StakeSum'
    BY <1>2, <1>3, <2>2, <2>3, <2>4, <2>5, HeldStakeNat DEF Deposit
  <2>7. NothingDoneBeforeFunding' /\ ReviewsApart'
    BY <1>1, <2>1 DEF NothingDoneBeforeFunding, ReviewsApart
  <2> QED
    BY <2>2, <2>6, <2>7 DEF AccountInv
<1> QED
  BY <1>5, <1>6

\* The emergency resolution pays every unfinished milestone by one award.
LEMMA EmergencyMilestonesKeep ==
    ASSUME AccountInv, VoteInv, ControlTypeOK, NEW bps \in Awards,
           EmergencySettleMilestones(bps)
    PROVE  AccountInv'
<1> DEFINE open == {i \in Indices : milestones[i].status \notin MilestoneTerminal}
           ms == [i \in Indices |-> IF i \in open
                   THEN [milestones[i] EXCEPT !.status = "Resolved", !.awardBps = bps]
                   ELSE milestones[i]]
           s(i) == SettleResolved(MilestoneAmounts[i], bps, FeeBps)
           net == [i \in open |-> s(i).workerNet]
           back == [i \in open |-> s(i).buyerRefund]
           fee == [i \in open |-> s(i).fee]
           both == [i \in open |-> net[i] + back[i]]
           r == WorkerStakeReturn(ms)
<1>1. /\ MultiFunded /\ status' = "Settled" /\ StakeSum' = StakeSum
      /\ Pay(SumFunction(net) + r, SumFunction(back) + (HeldStake - r), SumFunction(fee))
  BY RefundPreserves DEF EmergencySettleMilestones, StakeSum
<1>2. /\ SumFunction(net) = SumFunctionOnSet(net, open)
      /\ SumFunction(back) = SumFunctionOnSet(back, open)
      /\ SumFunction(fee) = SumFunctionOnSet(fee, open)
  <2>1. DOMAIN net = open /\ DOMAIN back = open /\ DOMAIN fee = open
    OBVIOUS
  <2> HIDE DEF net, back, fee
  <2> QED
    BY <2>1 DEF SumFunction
<1>3. IsFiniteSet(open) /\ open \in SUBSET Indices
  BY AmountsSum
<1>4. bps \in 0..BPS /\ FeeBps \in 0..BPS
  BY AmountAssumption
<1>5. \A i \in open : /\ net[i] \in Nat /\ back[i] \in Nat /\ fee[i] \in Nat
                      /\ net[i] + back[i] + fee[i] = MilestoneAmounts[i]
  <2> SUFFICES ASSUME NEW i \in open
               PROVE  /\ net[i] \in Nat /\ back[i] \in Nat /\ fee[i] \in Nat
                      /\ net[i] + back[i] + fee[i] = MilestoneAmounts[i]
    OBVIOUS
  <2>1. MilestoneAmounts[i] \in Nat
    BY AmountsSum
  <2>2. /\ s(i).workerNet \in Nat /\ s(i).buyerRefund \in Nat /\ s(i).fee \in Nat
        /\ s(i).workerNet + s(i).buyerRefund + s(i).fee = MilestoneAmounts[i]
    BY <1>4, <2>1, SettleResolvedSum
  <2>3. net[i] = s(i).workerNet /\ back[i] = s(i).buyerRefund /\ fee[i] = s(i).fee
    OBVIOUS
  <2> HIDE DEF s, net, back, fee
  <2> QED
    BY <2>2, <2>3
<1>6. r \in Nat /\ r <= HeldStake
  <2>1. \A i \in Indices : ms[i].awardBps \in 0..BPS
    <3> SUFFICES ASSUME NEW i \in Indices PROVE ms[i].awardBps \in 0..BPS
      OBVIOUS
    <3>1. milestones[i] \in Milestone
      BY DEF ControlTypeOK
    <3>2. CASE i \in open
      <4>1. ms[i] = [milestones[i] EXCEPT !.status = "Resolved", !.awardBps = bps]
        BY <3>2
      <4> HIDE DEF ms
      <4> QED
        BY <1>4, <3>1, <4>1 DEF Milestone
    <3>3. CASE i \notin open
      <4>1. ms[i] = milestones[i]
        BY <3>3
      <4> HIDE DEF ms
      <4> QED
        BY <3>1, <4>1 DEF Milestone
    <3> QED
      BY <3>2, <3>3
  <2> HIDE DEF ms
  <2> QED
    BY <2>1, ReturnBound
<1>7. \A i \in open : both[i] = net[i] + back[i]
  OBVIOUS
<1>8. Remaining = SumFunctionOnSet(MilestoneAmounts, open) /\ Open
  BY <1>1 DEF Remaining, Undistributed, MultiFunded, Open
<1> HIDE DEF open, ms, s, net, back, fee, both, r
<1>9. /\ SumFunctionOnSet(both, open) = SumFunctionOnSet(net, open) + SumFunctionOnSet(back, open)
      /\ \A i \in open : both[i] \in Int /\ fee[i] \in Int
  <2>1. \A i \in open : net[i] \in Int /\ back[i] \in Int /\ both[i] = net[i] + back[i]
    BY <1>5, <1>7
  <2> QED
    BY <1>3, <1>5, <2>1, SumAdds
<1>10. SumFunctionOnSet(MilestoneAmounts, open)
         = SumFunctionOnSet(both, open) + SumFunctionOnSet(fee, open)
  <2>1. \A i \in open : both[i] \in Int /\ fee[i] \in Int /\ MilestoneAmounts[i] = both[i] + fee[i]
    BY <1>5, <1>7, <1>9
  <2> QED
    BY <1>3, <2>1, SumAdds
<1>11. /\ SumFunctionOnSet(net, open) \in Nat /\ SumFunctionOnSet(back, open) \in Nat
       /\ SumFunctionOnSet(fee, open) \in Nat
  <2>1. \A i \in open : net[i] \in Nat /\ net[i] <= net[i]
    BY <1>5
  <2>2. \A i \in open : back[i] \in Nat /\ back[i] <= back[i]
    BY <1>5
  <2>3. \A i \in open : fee[i] \in Nat /\ fee[i] <= fee[i]
    BY <1>5
  <2> QED
    BY <1>3, <2>1, <2>2, <2>3, SumBounds
<1> DEFINE n == SumFunctionOnSet(net, open)
           m == SumFunctionOnSet(back, open)
           f == SumFunctionOnSet(fee, open)
<1>12. n \in Nat /\ m \in Nat /\ f \in Nat /\ Remaining = (n + m) + f
  BY <1>8, <1>9, <1>10, <1>11
<1>13. Pay(n + r, m + (HeldStake - r), f)
  BY <1>1, <1>2
<1> HIDE DEF n, m, f
<1>14. /\ n + r \in Nat /\ m + (HeldStake - r) \in Nat
       /\ (n + r) + (m + (HeldStake - r)) + f = Remaining + HeldStake
  BY <1>6, <1>12, HeldStakeNat
<1> QED
  BY <1>1, <1>8, <1>12, <1>13, <1>14, CloseKeeps

\* The abort pays back every milestone that is left; were one of them not
\* pending, the factory would refuse the outcome.
LEMMA AbortKeeps ==
    ASSUME AccountInv, VoteInv, ControlTypeOK, AbortRemainingMilestones
    PROVE  AccountInv'
<1> DEFINE open == {i \in Indices : i >= currentMilestone /\ milestones[i].status = "Pending"}
           ms == [i \in Indices |-> IF i \in open
                   THEN [milestones[i] EXCEPT !.status = "Cancelled"]
                   ELSE milestones[i]]
           r == WorkerStakeReturn(ms)
           back == SumFunctionOnSet(MilestoneAmounts, open)
<1>1. /\ MultiFunded /\ status' = "Refunded" /\ StakeSum' = StakeSum
      /\ Pay(r, back + (HeldStake - r), 0)
      /\ RecordOutcome(FinalOutcome(ms))
  BY RefundPreserves DEF AbortRemainingMilestones, StakeSum
<1>2. AllTerminal(ms)
  <2> HIDE DEF ms
  <2> QED
    BY <1>1 DEF RecordOutcome, FinalOutcome, Outcome
<1>3. Unfinished(milestones) = open
  <2>1. \A i \in Indices : i \in open => milestones[i].status \notin MilestoneTerminal
    BY DEF MilestoneTerminal
  <2>2. \A i \in Indices : i \notin open => ms[i] = milestones[i]
    OBVIOUS
  <2>3. \A i \in Indices : i \notin open => milestones[i].status \in MilestoneTerminal
    BY <1>2, <2>2 DEF AllTerminal
  <2> QED
    BY <2>1, <2>3 DEF Unfinished
<1>4. Remaining = back /\ Open
  BY <1>1, <1>3 DEF Remaining, Undistributed, Unfinished, MultiFunded, Open
<1>5. r \in Nat /\ r <= HeldStake
  <2>1. \A i \in Indices : ms[i].awardBps \in 0..BPS
    <3> SUFFICES ASSUME NEW i \in Indices PROVE ms[i].awardBps \in 0..BPS
      OBVIOUS
    <3>1. milestones[i] \in Milestone
      BY DEF ControlTypeOK
    <3>2. ms[i].awardBps = milestones[i].awardBps
      BY <3>1 DEF Milestone
    <3> QED
      BY <3>1, <3>2 DEF Milestone
  <2> HIDE DEF ms
  <2> QED
    BY <2>1, ReturnBound
<1> HIDE DEF r, back
<1>6. /\ back + (HeldStake - r) \in Nat
      /\ r + (back + (HeldStake - r)) + 0 = Remaining + HeldStake
  BY <1>4, <1>5, RemainingNat, HeldStakeNat
<1> QED
  BY <1>1, <1>4, <1>5, <1>6, CloseKeeps

\* Activating the backup moves a deadline, and no milestone on.
LEMMA BackupKeepsStatuses ==
    ASSUME ControlTypeOK, ActivateBackup
    PROVE  \A i \in Indices : milestones'[i].status = milestones[i].status
<1>1. CASE Single
  <2>1. milestones' = milestones
    BY <1>1 DEF ActivateBackup
  <2> QED
    BY <2>1
<1>2. CASE ~Single
  <2>1. milestones' = [milestones EXCEPT ![currentMilestone].deadline = @ + BackupExtension]
    BY <1>2 DEF ActivateBackup
  <2> QED
    BY <2>1 DEF ControlTypeOK, Milestone
<1> QED
  BY <1>1, <1>2

LEMMA CommonAccounts ==
    ASSUME AccountInv, VoteInv, ControlTypeOK, OrderInv, CommonNext
    PROVE  AccountInv'
<1>0. StakeSum \in Int /\ FundsTypeOK /\ NothingDoneBeforeFunding /\ ReviewsApart
  BY StakeSumInt DEF AccountInv
<1>1. CASE AcceptFunding
  <2>1. /\ status = "Created" /\ status' = "Funded" /\ StakeSum' = StakeSum
        /\ UNCHANGED <<workerStaked, milestones>>
    BY <1>1 DEF AcceptFunding, StakeSum, stakeVars, workerVars, msVars
  <2>2. FundsTypeOK' /\ balance' = balance + Amount
    BY <1>0, <1>1, AmountAssumption, ReceiveType DEF AcceptFunding
  <2>3. Remaining = Amount /\ Remaining' = Remaining
    BY <1>0, <2>1, AllIsLeft, SameLeft DEF NothingDoneBeforeFunding
  <2>4. HeldStake' = 0 /\ Deposit = 0 /\ Deposit' = Amount
    BY <1>0, <2>1, <2>3, AmountAssumption DEF HeldStake, NothingDoneBeforeFunding, Deposit, Open
  <2>5. balance = Deposit + StakeSum
    BY <2>1, OpenIsWhole
  <2> QED
    BY <1>0, <2>1, <2>2, <2>4, <2>5, AmountAssumption
    DEF AccountInv, NothingDoneBeforeFunding, ReviewsApart
<1>2. ASSUME status = "Created", status' = "Cancelled", UNCHANGED fundVars,
             UNCHANGED workerVars, UNCHANGED stakeVars
      PROVE  AccountInv'
  <2>1. Deposit = 0 /\ Deposit' = 0 /\ StakeSum' = StakeSum
    BY <1>2 DEF Deposit, Open, StakeSum, stakeVars
  <2>2. balance = Deposit + StakeSum
    BY <1>2, OpenIsWhole
  <2>3. FundsTypeOK' /\ balance' = balance
    BY <1>0, <1>2 DEF FundsTypeOK, fundVars
  <2> QED
    BY <1>0, <1>2, <2>1, <2>2, <2>3
    DEF AccountInv, NothingDoneBeforeFunding, ReviewsApart
<1>3. CASE DepositStake
  <2>1. /\ status = "Funded" /\ UNCHANGED <<status, milestones>> /\ ~workerStaked
        /\ workerStaked' /\ StakeSum' = StakeSum
    BY <1>3 DEF DepositStake, StakeSum, stakeVars, msVars
  <2>2. FundsTypeOK' /\ balance' = balance + WorkerStake
    BY <1>0, <1>3, AmountAssumption, ReceiveType DEF DepositStake
  <2>3. Remaining' = Remaining /\ Remaining \in Nat
    BY <2>1, SameLeft, RemainingNat
  <2>4. Deposit = Remaining /\ Deposit' = Remaining + WorkerStake
    BY <2>1, <2>3, AmountAssumption DEF Deposit, HeldStake, Open
  <2>5. balance = Deposit + StakeSum
    BY <2>1, OpenIsWhole DEF Open
  <2> QED
    BY <1>0, <2>1, <2>2, <2>3, <2>4, <2>5, AmountAssumption
    DEF AccountInv, NothingDoneBeforeFunding, ReviewsApart
<1>4. ASSUME NEW v \in Verifiers, DepositVerifierStake(v) PROVE AccountInv'
  <2>1. /\ UNCHANGED <<status, workerStaked, milestones, owed>>
        /\ quorumStakeCount' = quorumStakeCount + 1 /\ status \in {"Funded", "Submitted"}
    BY <1>4 DEF DepositVerifierStake, StakingOpen, workerVars, msVars
  <2>2. FundsTypeOK' /\ balance' = balance + VerifierStake
    BY <1>0, <1>4, Thresholds, ReceiveType DEF DepositVerifierStake
  <2>3. StakeSum' = StakeSum + VerifierStake
    <3>1. (quorumStakeCount + 1) * VerifierStake = quorumStakeCount * VerifierStake + VerifierStake
      BY Thresholds DEF VoteInv, QuorumTypeOK
    <3>2. quorumStakeCount * VerifierStake \in Int /\ owed \in Int
      BY Thresholds DEF VoteInv, QuorumTypeOK
    <3> QED
      BY <2>1, <3>1, <3>2, Thresholds DEF StakeSum
  <2>4. Remaining' = Remaining
    BY <2>1, SameLeft
  <2>5. Deposit' = Deposit /\ Deposit \in Int
    BY <2>1, <2>4, HeldStakeNat, RemainingNat DEF Deposit, HeldStake, Open
  <2>6. balance = Deposit + StakeSum
    BY <2>1, OpenIsWhole DEF Open
  <2> QED
    BY <1>0, <2>1, <2>2, <2>3, <2>5, <2>6, Thresholds
    DEF AccountInv, NothingDoneBeforeFunding, ReviewsApart
<1>5. ASSUME NEW c \in Claimants, WithdrawStake(c) PROVE AccountInv'
  <2>1. /\ UNCHANGED <<status, workerStaked, milestones, paid, quorumStakeCount>>
        /\ owed' = owed - withdrawable[c] /\ balance' = balance - withdrawable[c]
        /\ withdrawable[c] <= balance
    BY <1>5 DEF WithdrawStake, workerVars, msVars
  <2>2. withdrawable[c] \in Nat /\ owed \in Int /\ quorumStakeCount * VerifierStake \in Int
    BY Thresholds DEF VoteInv, QuorumTypeOK
  <2>3. StakeSum' = StakeSum - withdrawable[c]
    BY <2>1, <2>2 DEF StakeSum
  <2>4. Remaining' = Remaining
    BY <2>1, SameLeft
  <2>5. Deposit' = Deposit /\ Deposit \in Int
    BY <2>1, <2>4, HeldStakeNat, RemainingNat DEF Deposit, HeldStake, Open
  <2>6. LumpRefund' = LumpRefund
    BY <2>1 DEF LumpRefund, AllTerminal
  <2>7. FundsTypeOK'
    BY <1>0, <2>1, <2>2 DEF FundsTypeOK
  <2> QED
    BY <1>0, <2>1, <2>2, <2>3, <2>5, <2>6, <2>7
    DEF AccountInv, NothingDoneBeforeFunding, ReviewsApart
<1>6. CASE ClaimTimeoutRefund
  <2>1. Open /\ status = "Funded"
    BY <1>6 DEF ClaimTimeoutRefund, Open
  <2>2. ~Single => ~AllTerminal(milestones)
    BY <2>1 DEF OrderInv, InOrder, AllTerminal, ControlTypeOK
  <2> QED
    BY <1>6, <2>1, <2>2, RefundInFullKeeps DEF ClaimTimeoutRefund
<1>7. CASE ActivateBackup
  <2>1. /\ status = "Funded" /\ UNCHANGED status /\ workerStaked' = FALSE
        /\ StakeSum' = StakeSum /\ Pay(0, HeldStake, 0)
    BY <1>7 DEF ActivateBackup, StakeSum, stakeVars
  <2>2. FundsTypeOK' /\ balance' = balance - (0 + HeldStake + 0)
    BY <1>0, <2>1, HeldStakeNat, PayType
  <2>3. \A i \in Indices : milestones'[i].status = milestones[i].status
    BY <1>7, BackupKeepsStatuses
  <2>4. Remaining' = Remaining /\ Remaining \in Nat
    BY <2>3, SameLeft, RemainingNat
  <2>5. Deposit = Remaining + HeldStake /\ Deposit' = Remaining
    BY <2>1, <2>4 DEF Deposit, HeldStake, Open
  <2>6. balance = Deposit + StakeSum
    BY <2>1, OpenIsWhole DEF Open
  <2> QED
    BY <1>0, <2>1, <2>2, <2>4, <2>5, <2>6, HeldStakeNat
    DEF AccountInv, NothingDoneBeforeFunding, ReviewsApart
<1>8. CASE SetFrozen
  BY <1>8, SameKeeps DEF SetFrozen, workerVars, msVars, StakeSum, stakeVars
<1>9. ASSUME NEW bps \in Awards, EmergencyResolve(bps) PROVE AccountInv'
  <2>1. CASE EmergencyCancel
    BY <1>2, <2>1 DEF EmergencyCancel
  <2>2. CASE EmergencySettle(bps)
    BY <2>2, AwardKeeps DEF EmergencySettle, Open
  <2>3. CASE EmergencySettleMilestones(bps)
    BY <2>3, EmergencyMilestonesKeep
  <2> QED
    BY <1>9, <2>1, <2>2, <2>3 DEF EmergencyResolve
<1>10. CASE Tick
  BY <1>10, SameKeeps DEF Tick, workerVars, msVars, StakeSum, stakeVars
<1> QED
  BY <1>1, <1>2, <1>3, <1>4, <1>5, <1>6, <1>7, <1>8, <1>9, <1>10
  DEF CommonNext, Fund, FundWithAuthorization, CancelBeforeFunding

\* A milestone escrow is never in the states of a single-shot review.
LEMMA OnlySingleShot ==
    ASSUME AccountInv, SingleShotNext
    PROVE  Single
  BY DEF AccountInv, ReviewsApart, SingleShotNext, Submit, CastVerifierVote, VerifyAndApprove,
      CastSingleVote, ResolveDispute, ApproveByBuyer, Dispute, EscalateSilence, ExpireNoQuorum,
      ClaimArbitratorTimeout

LEMMA SingleShotAccounts ==
    ASSUME AccountInv, VoteInv, SingleShotNext
    PROVE  AccountInv'
<1>0. Single
  BY OnlySingleShot
<1>1. ASSUME Open, Open', UNCHANGED fundVars, UNCHANGED workerVars, StakeSum' = StakeSum
      PROVE  AccountInv'
  BY <1>0, <1>1, NoPayKeeps DEF workerVars, Remaining, ReviewsApart
<1>2. ASSUME NEW proof, Submit(proof) PROVE AccountInv'
  BY <1>1, <1>2 DEF Submit, Open, StakeSum, stakeVars
<1>3. ASSUME ExitReviewWithoutQuorum PROVE StakeSum' = StakeSum
  BY <1>3, RefundPreserves DEF ExitReviewWithoutQuorum, StakeSum
<1>4. ASSUME NEW v, NEW vote, CastSingleVote(v, vote) PROVE AccountInv'
  <2>1. CASE QuorumApprove(v, vote)
    <3>1. StakeSum' = StakeSum
      BY <2>1, SettlePreserves DEF QuorumApprove, StakeSum
    <3> QED
      BY <1>0, <1>4, <2>1, <3>1, ApproveKeeps DEF CastSingleVote, QuorumApprove, Open
  <2>2. CASE QuorumReject(v, vote)
    <3>1. StakeSum' = StakeSum
      BY <2>2, SettlePreserves DEF QuorumReject, StakeSum
    <3> QED
      BY <1>1, <1>4, <2>2, <3>1 DEF CastSingleVote, QuorumReject, SetSingleDisputed, Open
  <2>3. CASE VoteOnly(v, vote)
    BY <1>1, <1>4, <2>3 DEF CastSingleVote, VoteOnly, Open, StakeSum, stakeVars
  <2> QED
    BY <1>4, <2>1, <2>2, <2>3 DEF CastSingleVote
<1>5. ASSUME NEW bps \in Awards, ResolveDispute(bps) PROVE AccountInv'
  BY <1>0, <1>5, AwardKeeps DEF ResolveDispute, Open
<1>6. CASE ApproveByBuyer
  BY <1>0, <1>3, <1>6, ApproveKeeps DEF ApproveByBuyer, Open
<1>7. ASSUME status = "Submitted", ExitReviewWithoutQuorum, SetSingleDisputed,
             UNCHANGED workerVars
      PROVE  AccountInv'
  BY <1>1, <1>3, <1>7 DEF SetSingleDisputed, Open
<1>8. CASE ClaimArbitratorTimeout
  BY <1>0, <1>8, RefundInFullKeeps DEF ClaimArbitratorTimeout, Open
<1> QED
  BY <1>2, <1>4, <1>5, <1>6, <1>7, <1>8
  DEF SingleShotNext, CastVerifierVote, VerifyAndApprove, Dispute, EscalateSilence,
      ExpireNoQuorum

LEMMA MilestoneAccounts ==
    ASSUME AccountInv, VoteInv, ControlTypeOK, OrderInv, MilestoneNext
    PROVE  AccountInv'
<1>0. /\ MultiFunded /\ currentMilestone \in Indices
      /\ milestones[currentMilestone] \in Milestone
      /\ milestones[currentMilestone].status \notin MilestoneTerminal
  <2>1. MultiFunded
    BY DEF MilestoneNext, CastMilestoneVerifierVote, VerifyAndApproveMilestone,
        CastMilestoneVote, ApproveMilestoneByBuyer, DisputeMilestone,
        EscalateMilestoneSilence, ExpireMilestoneNoQuorum, ClaimMilestoneTimeoutRefund,
        ClaimMilestoneArbitratorTimeout, AbortRemainingMilestones, SubmitMilestone,
        ResolveMilestoneDispute, MilestoneInReview
  <2> QED
    BY <2>1 DEF MultiFunded, OrderInv, InOrder, ControlTypeOK
<1>1. ASSUME UNCHANGED <<status, fundVars, workerVars>>, StakeSum' = StakeSum,
             \A i \in Indices : milestones'[i].status \in MilestoneTerminal
                                <=> milestones[i].status \in MilestoneTerminal
      PROVE  AccountInv'
  <2>1. Remaining' = Remaining
    BY <1>1, SameLeft
  <2>2. Open /\ Open' /\ ReviewsApart' /\ UNCHANGED fundVars /\ UNCHANGED workerStaked
    BY <1>0, <1>1 DEF Open, MultiFunded, ReviewsApart, workerVars
  <2> QED
    BY <1>1, <2>1, <2>2, NoPayKeeps
<1>2. ASSUME ExitReviewWithoutQuorum PROVE StakeSum' = StakeSum
  BY <1>2, RefundPreserves DEF ExitReviewWithoutQuorum, StakeSum
<1>3. ASSUME NEW m, m.status \notin MilestoneTerminal,
             milestones' = [milestones EXCEPT ![currentMilestone] = m],
             UNCHANGED <<status, fundVars, workerVars>>, StakeSum' = StakeSum
      PROVE  AccountInv'
  <2>1. \A i \in Indices : milestones'[i].status \in MilestoneTerminal
                                <=> milestones[i].status \in MilestoneTerminal
    BY <1>0, <1>3 DEF ControlTypeOK
  <2> QED
    BY <1>1, <1>3, <2>1
<1>4. ASSUME NEW proof \in BOOLEAN, SubmitMilestone(proof) PROVE AccountInv'
  <2> DEFINE m == [milestones[currentMilestone] EXCEPT !.submittedAt = now,
                     !.proofHash = proof, !.status = "Submitted"]
  <2>1. m.status \notin MilestoneTerminal
    BY <1>0 DEF Milestone, MilestoneTerminal
  <2>2. /\ milestones' = [milestones EXCEPT ![currentMilestone] = m]
        /\ UNCHANGED <<status, fundVars, workerVars>> /\ StakeSum' = StakeSum
    BY <1>4 DEF SubmitMilestone, StakeSum, stakeVars
  <2> HIDE DEF m
  <2> QED
    BY <1>3, <2>1, <2>2
<1>5. ASSUME SetMilestoneDisputed, StakeSum' = StakeSum PROVE AccountInv'
  <2> DEFINE m == [milestones[currentMilestone] EXCEPT !.disputedAt = now,
                     !.status = "Disputed"]
  <2>1. m.status \notin MilestoneTerminal
    BY <1>0 DEF Milestone, MilestoneTerminal
  <2>2. /\ milestones' = [milestones EXCEPT ![currentMilestone] = m]
        /\ UNCHANGED <<status, fundVars, workerVars>>
    BY <1>5 DEF SetMilestoneDisputed
  <2> HIDE DEF m
  <2> QED
    BY <1>3, <1>5, <2>1, <2>2
<1>6. MilestoneAmounts[currentMilestone] \in Nat /\ FeeBps \in 0..BPS /\ Awards \subseteq 0..BPS
  BY <1>0, AmountsSum, AmountAssumption
<1>7. \A s \in MilestoneTerminal :
         /\ WithStatus(s) \in [Indices -> Milestone]
         /\ \A i \in Indices : i # currentMilestone => WithStatus(s)[i] = milestones[i]
         /\ WithStatus(s)[currentMilestone].status \in MilestoneTerminal
  BY WithStatusType, WithStatusOnlyCurrent DEF MilestoneStatus, MilestoneTerminal
<1>8. ASSUME ApproveMilestone, StakeSum' = StakeSum PROVE AccountInv'
  <2> DEFINE s == SettleApproved(MilestoneAmounts[currentMilestone], FeeBps)
             ms == WithStatus("Approved")
  <2>1. s.workerNet \in Nat /\ s.fee \in Nat
        /\ s.workerNet + s.fee = MilestoneAmounts[currentMilestone]
    BY <1>6, SettleApprovedSum
  <2>2. AdvanceMilestone(ms, s.workerNet, 0, s.fee)
    BY <1>8 DEF ApproveMilestone
  <2>3. /\ ms \in [Indices -> Milestone]
        /\ \A i \in Indices : i # currentMilestone => ms[i] = milestones[i]
        /\ ms[currentMilestone].status \in MilestoneTerminal
    BY <1>7 DEF MilestoneTerminal
  <2> DEFINE w == s.workerNet
             t == s.fee
  <2>4. w \in Nat /\ t \in Nat /\ w + 0 + t = MilestoneAmounts[currentMilestone] /\ 0 \in Nat
    BY <2>1
  <2>5. AdvanceMilestone(ms, w, 0, t)
    BY <2>2
  <2> HIDE DEF s, ms, w, t
  <2> QED
    BY <1>0, <1>8, <2>3, <2>4, <2>5, AdvanceKeeps
<1>9. ASSUME CancelCurrentMilestone PROVE AccountInv'
  <2> DEFINE ms == WithStatus("Cancelled")
             b == MilestoneAmounts[currentMilestone]
  <2>1. AdvanceMilestone(ms, 0, b, 0) /\ StakeSum' = StakeSum
    BY <1>9, RefundPreserves DEF CancelCurrentMilestone, StakeSum
  <2>2. /\ ms \in [Indices -> Milestone]
        /\ \A i \in Indices : i # currentMilestone => ms[i] = milestones[i]
        /\ ms[currentMilestone].status \in MilestoneTerminal
    BY <1>7 DEF MilestoneTerminal
  <2>3. b \in Nat /\ 0 \in Nat /\ 0 + b + 0 = MilestoneAmounts[currentMilestone]
    BY <1>6
  <2> HIDE DEF ms, b
  <2> QED
    BY <1>0, <2>1, <2>2, <2>3, AdvanceKeeps
<1>10. ASSUME NEW bps \in Awards, ResolveMilestoneDispute(bps) PROVE AccountInv'
  <2> DEFINE s == SettleResolved(MilestoneAmounts[currentMilestone], bps, FeeBps)
             ws == WithStatus("Resolved")
             ms == [ws EXCEPT ![currentMilestone].awardBps = bps]
  <2>1. AdvanceMilestone(ms, s.workerNet, s.buyerRefund, s.fee) /\ StakeSum' = StakeSum
    BY <1>10, RefundPreserves DEF ResolveMilestoneDispute, StakeSum
  <2>2. /\ s.workerNet \in Nat /\ s.buyerRefund \in Nat /\ s.fee \in Nat
        /\ s.workerNet + s.buyerRefund + s.fee = MilestoneAmounts[currentMilestone]
    BY <1>6, SettleResolvedSum
  <2>3. /\ ws \in [Indices -> Milestone]
        /\ \A i \in Indices : i # currentMilestone => ws[i] = milestones[i]
        /\ ws[currentMilestone].status \in MilestoneTerminal
    BY <1>7 DEF MilestoneTerminal
  <2>4. /\ ms \in [Indices -> Milestone]
        /\ \A i \in Indices : i # currentMilestone => ms[i] = milestones[i]
        /\ ms[currentMilestone].status \in MilestoneTerminal
    <3> HIDE DEF ws
    <3> DEFINE m == [ws[currentMilestone] EXCEPT !.awardBps = bps]
    <3>1. bps \in 0..BPS /\ ws[currentMilestone] \in Milestone
      BY <1>0, <1>6, <2>3
    <3>2. m \in Milestone /\ m.status = ws[currentMilestone].status
      BY <3>1 DEF Milestone
    <3>3. ms = [ws EXCEPT ![currentMilestone] = m]
      BY <2>3
    <3> HIDE DEF m, ms
    <3> QED
      BY <1>0, <2>3, <3>2, <3>3
  <2> DEFINE w == s.workerNet
             b == s.buyerRefund
             t == s.fee
  <2>5. /\ w \in Nat /\ b \in Nat /\ t \in Nat
        /\ w + b + t = MilestoneAmounts[currentMilestone]
    BY <2>2
  <2>6. AdvanceMilestone(ms, w, b, t)
    BY <2>1
  <2> HIDE DEF s, ms, ws, w, b, t
  <2> QED
    BY <1>0, <2>1, <2>4, <2>5, <2>6, AdvanceKeeps
<1>11. ASSUME NEW v, NEW vote, CastMilestoneVote(v, vote) PROVE AccountInv'
  <2>1. ASSUME NEW winner, SettleVerifierStakes(VotesWith(v, vote), winner)
        PROVE  StakeSum' = StakeSum
    BY <2>1, SettlePreserves DEF StakeSum
  <2>2. CASE VoteOnly(v, vote)
    <3>1. /\ UNCHANGED <<status, fundVars, workerVars>> /\ StakeSum' = StakeSum
          /\ milestones' = milestones
      BY <1>0, <1>11, <2>2 DEF CastMilestoneVote, VoteOnly, StakeSum, stakeVars, msVars,
         QuorumApproves, QuorumRejects, ApproveMilestone, SetMilestoneDisputed
    <3> QED
      BY <1>1, <3>1
  <2> QED
    BY <1>5, <1>8, <1>11, <2>1, <2>2 DEF CastMilestoneVote
<1> QED
  BY <1>2, <1>4, <1>5, <1>8, <1>9, <1>10, <1>11, AbortKeeps
  DEF MilestoneNext, CastMilestoneVerifierVote, VerifyAndApproveMilestone,
      ApproveMilestoneByBuyer, DisputeMilestone, EscalateMilestoneSilence,
      ExpireMilestoneNoQuorum, ClaimMilestoneTimeoutRefund,
      ClaimMilestoneArbitratorTimeout

LEMMA InitAccounts == Init => AccountInv
<1> SUFFICES ASSUME Init PROVE AccountInv
  OBVIOUS
<1>1. Deposit = 0 /\ StakeSum = 0
  BY Thresholds DEF Init, Deposit, Open, StakeSum
<1>2. NothingDoneBeforeFunding /\ ReviewsApart /\ FundsTypeOK
  BY DEF Init, NothingDoneBeforeFunding, ReviewsApart, FundsTypeOK
<1> QED
  BY <1>1, <1>2 DEF Init, AccountInv

LEMMA AccountStep ==
    VoteInv /\ ControlTypeOK /\ OrderInv /\ AccountInv /\ [Next]_vars => AccountInv'
<1>1. ASSUME AccountInv, UNCHANGED vars PROVE AccountInv'
  BY <1>1, SameKeeps DEF vars, fundVars, StakeSum
<1> QED
  BY <1>1, CommonAccounts, SingleShotAccounts, MilestoneAccounts DEF Next

LEMMA OrderInvCorrect == Spec => []OrderInv
  BY InitOrder, OrderStep, ControlTypeCorrect, PTL DEF Spec

LEMMA AccountInvCorrect == Spec => []AccountInv
<1>1. VoteInv /\ ControlTypeOK /\ OrderInv /\ AccountInv /\ [Next]_vars => AccountInv'
  BY AccountStep
<1> QED
  BY <1>1, InitAccounts, VoteInvCorrect, ControlTypeCorrect, OrderInvCorrect, PTL DEF Spec

\* Type correctness: in either mode no balance and no account ever goes below
\* zero, whatever the amounts, the fee and the awards.
THEOREM TypeCorrect == Spec => []TypeOK
<1>1. ControlTypeOK /\ VoteInv /\ AccountInv => TypeOK
  BY DEF VoteInv, AccountInv, TypeOK
<1> QED
  BY <1>1, ControlTypeCorrect, VoteInvCorrect, AccountInvCorrect, PTL

\* The accounts of an escrow that claimTimeoutRefund has not emptied.
LEMMA Accounted ==
    ASSUME VoteInv, AccountInv, ~LumpRefund
    PROVE  BalanceAccounted
<1>1. quorumStakeCount * VerifierStake \in Int /\ owed \in Int
  BY Thresholds DEF VoteInv, QuorumTypeOK
<1>2. Principal = IF Open THEN Remaining ELSE 0
  BY DEF Principal, Remaining
<1> QED
  BY <1>1, <1>2, HeldStakeNat, RemainingNat
  DEF AccountInv, Deposit, StakeSum, BalanceAccounted

\* A single-shot escrow holds exactly the principal and the bond until it
\* closes, the stakes under way and what is left to withdraw, whatever the
\* amount, the fee, the award and the rounding.
THEOREM BalanceAlwaysAccounted == ASSUME Single PROVE Spec => []BalanceAccounted
<1>1. ~LumpRefund
  BY DEF LumpRefund
<1>2. VoteInv /\ AccountInv => BalanceAccounted
  BY <1>1, Accounted
<1> QED
  BY <1>2, VoteInvCorrect, AccountInvCorrect, PTL

\* Section 6, invariants 1, 3, 8 and 9: in either mode, for every schedule,
\* panel, fee and award, the contract holds exactly the amounts of the
\* unfinished milestones, the bond, the verifiers' stakes and what they can
\* still withdraw, unless claimTimeoutRefund took the whole of a milestone
\* escrow.
THEOREM FundsAlwaysConserved == Spec => []Conservation
<1>1. VoteInv /\ AccountInv /\ OwedIsWithdrawable => Conservation
  BY Accounted DEF Conservation
<1> QED
  BY <1>1, VoteInvCorrect, AccountInvCorrect, OwedCorrect, PTL

-----------------------------------------------------------------------------
(* Who may lose a stake.                                                   *)

LEMMA VerifierClaims ==
    ASSUME QuorumTypeOK, VerifierStake > 0, NEW v \in Verifiers
    PROVE  /\ v \in Claimants /\ v # "buyer"
           /\ withdrawable[v] \in Nat
           /\ withdrawable[v] + VerifierStake # withdrawable[v]
  BY Thresholds, QuorumAssumption DEF QuorumTypeOK, Claimants

\* A verifier whose stake is gone and who cannot withdraw it.
Forfeits(v) == quorumStaked[v] /\ ~quorumStaked'[v] /\ withdrawable'[v] = withdrawable[v]
Outvoted(v) ==
    \/ quorumVote[v] = "reject" /\ quorumApproveCount + 1 >= QuorumThreshold
    \/ quorumVote[v] = "approve" /\ quorumRejectCount + 1 >= QuorumRejectThreshold

LEMMA RefundForfeitsNothing ==
    ASSUME VoteInv, RefundUnsettledVerifierStakes, NEW v \in Verifiers
    PROVE  ~Forfeits(v)
<1>1. CASE VerifierStake = 0 \/ quorumStakeCount = 0
  BY <1>1 DEF RefundUnsettledVerifierStakes, stakeVars, Forfeits
<1>2. CASE ~(VerifierStake = 0 \/ quorumStakeCount = 0)
  <2>1. VerifierStake > 0
    BY <1>2, Thresholds
  <2>2. quorumStaked[v] => withdrawable'[v] = withdrawable[v] + VerifierStake
    BY <1>2, <2>1, VerifierClaims DEF RefundUnsettledVerifierStakes, Staked, VoteInv
  <2> QED
    BY <2>1, <2>2, VerifierClaims DEF Forfeits, VoteInv
<1> QED
  BY <1>1, <1>2

\* A settlement takes the stakes of those who voted the other way; the last
\* voter is not among them, since the quorum was not there before that vote.
LEMMA SettleForfeitsMinority ==
    ASSUME VoteInv, InReview, NEW u \in Verifiers, MayVote(u),
           NEW vote \in {"approve", "reject"}, NEW winner \in {"approve", "reject"},
           winner = "approve" => QuorumApproves(vote),
           winner = "reject" => QuorumRejects(vote),
           SettleVerifierStakes(VotesWith(u, vote), winner),
           NEW v \in Verifiers, Forfeits(v)
    PROVE  Outvoted(v)
<1> DEFINE votes == VotesWith(u, vote)
<1>1. QuorumTypeOK
  BY DEF VoteInv
<1>2. VerifierStake > 0
  BY Thresholds DEF SettleVerifierStakes, stakeVars, Forfeits
<1>3. v \in Staked
  BY DEF Forfeits, Staked
<1>4. v \in Minority(votes, winner)
  <2>1. SUFFICES ASSUME v \notin Minority(votes, winner) PROVE FALSE
    OBVIOUS
  <2>2. withdrawable'[v] = withdrawable[v] + VerifierStake
    <3> DEFINE slashed == Staked \cap Minority(votes, winner)
               more(c) == IF c = "buyer" THEN Cardinality(slashed) * VerifierStake ELSE 0
    <3>1. withdrawable' = [c \in Claimants |-> withdrawable[c]
               + (IF c \in Staked \ slashed THEN VerifierStake ELSE 0) + more(c)]
      BY <1>2 DEF SettleVerifierStakes
    <3>2. v \in Staked \ slashed
      BY <1>3, <2>1
    <3>3. more(v) = 0 /\ v \in Claimants /\ withdrawable[v] \in Nat
      BY <1>1, <1>2, VerifierClaims
    <3> HIDE DEF slashed, more
    <3>4. withdrawable'[v] = withdrawable[v] + VerifierStake + 0
      BY <3>1, <3>2, <3>3
    <3> QED
      BY <3>3, <3>4, Thresholds
  <2> QED
    BY <1>1, <1>2, <2>2, VerifierClaims DEF Forfeits
<1>5. votes[v] \in {"approve", "reject"} /\ votes[v] # winner
  <2>1. votes \in [Verifiers -> Vote]
    BY VoteCounted
  <2> QED
    BY <1>4, <2>1 DEF Minority, Vote
<1>6. /\ quorumApproveCount \in Nat /\ quorumRejectCount \in Nat
      /\ quorumApproveCount < QuorumThreshold /\ quorumRejectCount < QuorumRejectThreshold
  BY DEF VoteInv, QuorumTypeOK, VotesBelongToReview
<1>7. CASE winner = "approve"
  <2>1. vote = "approve"
    BY <1>6, <1>7, Thresholds DEF QuorumApproves, ApprovalsWith
  <2>2. v # u /\ quorumVote[v] = "reject"
    BY <1>1, <1>5, <1>7, <2>1 DEF VotesWith, QuorumTypeOK
  <2>3. quorumApproveCount + 1 >= QuorumThreshold
    BY <1>7, <2>1 DEF QuorumApproves, ApprovalsWith
  <2> QED
    BY <2>2, <2>3 DEF Outvoted
<1>8. CASE winner = "reject"
  <2>1. vote = "reject"
    BY <1>6, <1>8, Thresholds DEF QuorumRejects, RejectionsWith
  <2>2. v # u /\ quorumVote[v] = "approve"
    BY <1>1, <1>5, <1>8, <2>1 DEF VotesWith, QuorumTypeOK
  <2>3. quorumRejectCount + 1 >= QuorumRejectThreshold
    BY <1>8, <2>1 DEF QuorumRejects, RejectionsWith
  <2> QED
    BY <2>2, <2>3 DEF Outvoted
<1> QED
  BY <1>7, <1>8

LEMMA ForfeitStep ==
    ASSUME VoteInv, [Next]_vars, NEW v \in Verifiers, Forfeits(v)
    PROVE  Outvoted(v)
<1>1. quorumStaked' # quorumStaked
  BY DEF Forfeits
<1>2. CASE RefundUnsettledVerifierStakes
  BY <1>2, RefundForfeitsNothing
<1>3. ASSUME NEW u \in Verifiers, NEW vote \in {"approve", "reject"}, CastSingleVote(u, vote)
      PROVE  Outvoted(v)
  <2>1. InReview /\ MayVote(u)
    BY <1>3 DEF CastSingleVote, InReview
  <2>2. CASE QuorumApprove(u, vote)
    BY <2>1, <2>2, SettleForfeitsMinority DEF QuorumApprove
  <2>3. CASE QuorumReject(u, vote)
    BY <2>1, <2>3, SettleForfeitsMinority DEF QuorumReject
  <2> QED
    BY <1>1, <1>3, <2>2, <2>3 DEF CastSingleVote, VoteOnly, stakeVars
<1>4. ASSUME NEW u \in Verifiers, NEW vote \in {"approve", "reject"},
             CastMilestoneVote(u, vote)
      PROVE  Outvoted(v)
  <2>1. InReview /\ MayVote(u)
    BY <1>4 DEF CastMilestoneVote, InReview
  <2>2. CASE QuorumApproves(vote) /\ SettleVerifierStakes(VotesWith(u, vote), "approve")
    BY <2>1, <2>2, SettleForfeitsMinority
  <2>3. CASE QuorumRejects(vote) /\ SettleVerifierStakes(VotesWith(u, vote), "reject")
    BY <2>1, <2>3, SettleForfeitsMinority
  <2> QED
    BY <1>1, <1>4, <2>2, <2>3 DEF CastMilestoneVote, VoteOnly, stakeVars
<1>5. ASSUME NEW u \in Verifiers, DepositVerifierStake(u) PROVE FALSE
  <2>1. quorumStaked' = [quorumStaked EXCEPT ![u] = TRUE]
    BY <1>5 DEF DepositVerifierStake
  <2>2. quorumStaked \in [Verifiers -> BOOLEAN]
    BY DEF VoteInv, QuorumTypeOK
  <2> QED
    BY <2>1, <2>2 DEF Forfeits
<1>6. CASE CommonNext
  BY <1>1, <1>2, <1>5, <1>6
  DEF CommonNext, Fund, FundWithAuthorization, AcceptFunding, CancelBeforeFunding,
      DepositStake, WithdrawStake, ClaimTimeoutRefund, RefundInFull, ActivateBackup,
      SetFrozen, EmergencyResolve, EmergencyCancel, EmergencySettle, SettleWithAward,
      EmergencySettleMilestones, Tick, stakeVars
<1>7. CASE SingleShotNext
  BY <1>1, <1>2, <1>3, <1>7
  DEF SingleShotNext, Submit, CastVerifierVote, VerifyAndApprove, ResolveDispute,
      SettleWithAward, ApproveByBuyer, Dispute, EscalateSilence, ExpireNoQuorum,
      ExitReviewWithoutQuorum, ClaimArbitratorTimeout, RefundInFull, stakeVars
<1>8. CASE MilestoneNext
  BY <1>1, <1>2, <1>4, <1>8
  DEF MilestoneNext, SubmitMilestone, CastMilestoneVerifierVote,
      VerifyAndApproveMilestone, ResolveMilestoneDispute, ApproveMilestoneByBuyer,
      DisputeMilestone, EscalateMilestoneSilence, ExpireMilestoneNoQuorum,
      ExitReviewWithoutQuorum, ClaimMilestoneTimeoutRefund,
      ClaimMilestoneArbitratorTimeout, CancelCurrentMilestone,
      AbortRemainingMilestones, stakeVars
<1>9. ~UNCHANGED vars
  BY <1>1 DEF vars
<1> QED
  BY <1>6, <1>7, <1>8, <1>9 DEF Next

\* Section 5: in either mode, with any panel and threshold, a verifier loses a
\* stake only to a quorum that went against the vote it cast; one who
\* abstained, or voted in a review that found no quorum, gets it back.
THEOREM OnlyOutvotedForfeit == Spec => ForfeitOnlyWhenOutvoted
<1>1. VoteInv /\ [Next]_vars =>
        [\A v \in Verifiers :
           quorumStaked[v] /\ ~quorumStaked'[v] /\ withdrawable'[v] = withdrawable[v] =>
             \/ quorumVote[v] = "reject" /\ quorumApproveCount + 1 >= QuorumThreshold
             \/ quorumVote[v] = "approve"
                  /\ quorumRejectCount + 1 >= QuorumRejectThreshold]_vars
  BY ForfeitStep DEF Forfeits, Outvoted
<1> QED
  BY <1>1, VoteInvCorrect, PTL DEF Spec, ForfeitOnlyWhenOutvoted

-----------------------------------------------------------------------------
(* A freeze, and the recorded outcome, in both modes.                      *)

\* What was paid to others than the buyer.
OthersKept == \A p \in Payees \ {"buyer"} : paid'[p] = paid[p]
OthersUnpaid == \A p \in Payees \ {"buyer"} : paid[p] = 0

LEMMA PaysBuyer ==
    ASSUME FundsTypeOK, NEW b, Pay(0, b, 0)
    PROVE  OthersKept
<1>1. \A p \in Payees : paid[p] \in Nat
  BY DEF FundsTypeOK
<1> QED
  BY <1>1 DEF Pay, OthersKept

LEMMA RefundPaysBuyer ==
    ASSUME FundsTypeOK, NEW o, RefundInFull(o)
    PROVE  OthersKept
<1>1. Pay(0, Amount + HeldStake, 0)
  BY DEF RefundInFull
<1> QED
  BY <1>1, PaysBuyer

\* What a recorded outcome says of the milestones.
LEMMA OutcomeSays ==
    ASSUME NEW ms, FinalOutcome(ms) \in Outcome
    PROVE  /\ AllTerminal(ms)
           /\ FinalOutcome(ms) = "completed" => \A i \in Indices : ms[i].status = "Approved"
           /\ FinalOutcome(ms) = "failed" => \A i \in Indices : ms[i].status = "Cancelled"
<1> DEFINE seen == {ms[i].status : i \in Indices}
<1>1. \A i \in Indices : ms[i].status \in seen
  OBVIOUS
<1>2. FinalOutcome(ms) = IF ~AllTerminal(ms) THEN "none"
        ELSE IF seen = {"Approved"} THEN "completed"
        ELSE IF seen = {"Cancelled"} THEN "failed" ELSE "disputed"
  BY DEF FinalOutcome
<1> HIDE DEF seen
<1>3. FinalOutcome(ms) = "completed" => seen = {"Approved"}
  BY <1>2
<1>4. FinalOutcome(ms) = "failed" => seen = {"Cancelled"}
  BY <1>2
<1>5. AllTerminal(ms)
  BY <1>2 DEF Outcome
<1> QED
  BY <1>1, <1>3, <1>4, <1>5

\* A failed milestone escrow returns no part of the bond to the worker.
LEMMA FailedEarnsNothing ==
    ASSUME NEW ms, \A i \in Indices : ms[i].awardBps \in 0..BPS,
           FinalOutcome(ms) \in Outcome, FinalOutcome(ms) = "failed"
    PROVE  Unearned(ms) /\ WorkerStakeReturn(ms) = 0
<1>1. Unearned(ms)
  BY OutcomeSays DEF Unearned
<1> QED
  BY <1>1, ReturnBound

\* Cancelling the current milestone pays the buyer, and the worker's side only
\* if an earlier milestone earned it a part of the bond.
LEMMA CancelPaysBuyer ==
    ASSUME FundsTypeOK, ControlTypeOK, CancelCurrentMilestone,
           outcomes' # Append(outcomes, "disputed")
    PROVE  OthersKept
<1> DEFINE ms == WithStatus("Cancelled")
           b == MilestoneAmounts[currentMilestone]
           r == WorkerStakeReturn(ms)
<1>1. AdvanceMilestone(ms, 0, b, 0)
  BY DEF CancelCurrentMilestone
<1>2. ms \in [Indices -> Milestone] /\ currentMilestone \in Indices
  BY WithStatusType DEF MilestoneStatus, ControlTypeOK
<1>3. ms[currentMilestone].status = "Cancelled"
  BY WithStatusOnlyCurrent
<1> HIDE DEF ms
<1>4. CASE AllTerminal(ms)
  <2>1. Pay(0 + r, b + (HeldStake - r), 0) /\ RecordOutcome(FinalOutcome(ms))
    BY <1>1, <1>4 DEF AdvanceMilestone
  <2>2. FinalOutcome(ms) \in Outcome /\ FinalOutcome(ms) # "disputed"
    BY <2>1 DEF RecordOutcome
  <2>3. FinalOutcome(ms) # "completed"
    BY <1>2, <1>3, <2>2, OutcomeSays
  <2>4. FinalOutcome(ms) = "failed"
    BY <2>2, <2>3 DEF Outcome
  <2>5. \A i \in Indices : ms[i].awardBps \in 0..BPS
    BY <1>2 DEF Milestone
  <2>6. r = 0
    BY <2>2, <2>4, <2>5, FailedEarnsNothing
  <2> HIDE DEF r, b
  <2>7. Pay(0, b + (HeldStake - r), 0)
    BY <2>1, <2>6
  <2> QED
    BY <2>7, PaysBuyer
<1>5. CASE ~AllTerminal(ms)
  <2>1. Pay(0, b, 0)
    BY <1>1, <1>5 DEF AdvanceMilestone
  <2> HIDE DEF b
  <2> QED
    BY <2>1, PaysBuyer
<1> QED
  BY <1>4, <1>5

LEMMA FrozenStep ==
    ASSUME ControlTypeOK, FundsTypeOK, [Next]_vars, frozen,
           outcomes' # Append(outcomes, "disputed")
    PROVE  OthersKept
<1>1. CASE UNCHANGED paid
  BY <1>1 DEF OthersKept
<1>2. CASE CommonNext
  BY <1>1, <1>2, RefundPaysBuyer
  DEF CommonNext, Fund, FundWithAuthorization, AcceptFunding, CancelBeforeFunding,
      DepositStake, DepositVerifierStake, WithdrawStake, ClaimTimeoutRefund,
      ActivateBackup, SetFrozen, EmergencyResolve, EmergencyCancel, EmergencySettle,
      SettleWithAward, EmergencySettleMilestones, RecordOutcome, MultiFunded, Tick,
      fundVars
<1>3. CASE SingleShotNext
  BY <1>3, RefundPaysBuyer
  DEF SingleShotNext, Submit, CastVerifierVote, VerifyAndApprove, CastSingleVote,
      ResolveDispute, ApproveByBuyer, Dispute, EscalateSilence, ExpireNoQuorum,
      ClaimArbitratorTimeout
<1>4. CASE MilestoneNext
  <2>1. CancelCurrentMilestone
    BY <1>4
    DEF MilestoneNext, CastMilestoneVerifierVote, VerifyAndApproveMilestone,
        CastMilestoneVote, ApproveMilestoneByBuyer, DisputeMilestone,
        EscalateMilestoneSilence, ExpireMilestoneNoQuorum, ClaimMilestoneTimeoutRefund,
        ClaimMilestoneArbitratorTimeout, AbortRemainingMilestones, SubmitMilestone,
        ResolveMilestoneDispute
  <2> QED
    BY <2>1, CancelPaysBuyer
<1>5. CASE UNCHANGED vars
  BY <1>1, <1>5 DEF vars
<1> QED
  BY <1>2, <1>3, <1>4, <1>5 DEF Next

\* Section 7: whoever acts on a frozen escrow, in either mode and in whatever
\* order, only the buyer is paid, until the owner resolves or a last timeout
\* claim closes a partly paid escrow with a dispute.
THEOREM FreezePaysOnlyBuyer == Spec => FrozenPaysOnlyBuyer
<1>1. ControlTypeOK /\ AccountInv /\ [Next]_vars =>
        [frozen /\ outcomes' # Append(outcomes, "disputed") =>
           \A p \in Payees \ {"buyer"} : paid'[p] = paid[p]]_vars
  BY FrozenStep DEF AccountInv, OthersKept
<1> QED
  BY <1>1, ControlTypeCorrect, AccountInvCorrect, PTL DEF Spec, FrozenPaysOnlyBuyer

\* Nothing is recorded before the end, and nobody but the buyer was paid before
\* a milestone is approved or resolved.
OutcomeInv ==
    /\ OutcomeTruthful
    /\ status \notin {"Settled", "Refunded"} =>
         /\ outcomes = <<>>
         /\ Single \/ Unearned(milestones) => OthersUnpaid

\* A step that leaves the escrow unsettled.
LEMMA UnsettledKeeps ==
    ASSUME OutcomeInv, outcomes' = <<>>, status' \notin {"Settled", "Refunded"},
           Single \/ Unearned(milestones') => OthersUnpaid'
    PROVE  OutcomeInv'
  BY DEF OutcomeInv, OutcomeTruthful

\* A step that settles it with a dispute, or refunds it.
LEMMA DisputedKeeps ==
    ASSUME OutcomeInv, outcomes = <<>>, status' \in {"Settled", "Refunded"},
           NEW o \in {"disputed", "failed"}, RecordOutcome(o),
           o = "failed" => OthersUnpaid' \/ LumpRefund'
    PROVE  OutcomeInv'
<1>1. outcomes' = <<o>>
  BY DEF RecordOutcome
<1>2. Len(outcomes') = 1 /\ outcomes' # <<"completed">>
  BY <1>1
<1>3. outcomes' = <<"failed">> => o = "failed"
  BY <1>1
<1> QED
  BY <1>2, <1>3 DEF OutcomeInv, OutcomeTruthful, OthersUnpaid

\* A step that settles it in favour of the worker.
LEMMA CompletedKeeps ==
    ASSUME OutcomeInv, outcomes = <<>>, status' \in {"Settled", "Refunded"},
           RecordOutcome("completed"), \A i \in Indices : milestones'[i].status = "Approved"
    PROVE  OutcomeInv'
<1>1. outcomes' = <<"completed">>
  BY DEF RecordOutcome
<1>2. Len(outcomes') = 1 /\ outcomes' # <<"failed">>
  BY <1>1
<1> QED
  BY <1>1, <1>2 DEF OutcomeInv, OutcomeTruthful

\* A step that records what the finished milestones amount to.
LEMMA FinalKeeps ==
    ASSUME OutcomeInv, outcomes = <<>>, status' \in {"Settled", "Refunded"},
           NEW ms, milestones' = ms, RecordOutcome(FinalOutcome(ms)),
           FinalOutcome(ms) = "failed" => OthersUnpaid'
    PROVE  OutcomeInv'
<1>1. FinalOutcome(ms) \in Outcome
  BY DEF RecordOutcome
<1>2. CASE FinalOutcome(ms) = "completed"
  <2>1. \A i \in Indices : milestones'[i].status = "Approved"
    BY <1>1, <1>2, OutcomeSays
  <2> QED
    BY <1>2, <2>1, CompletedKeeps
<1>3. CASE FinalOutcome(ms) \in {"disputed", "failed"}
  <2> DEFINE o == FinalOutcome(ms)
  <2>1. o \in {"disputed", "failed"} /\ RecordOutcome(o) /\ (o = "failed" => OthersUnpaid')
    BY <1>3
  <2> HIDE DEF o
  <2> QED
    BY <2>1, DisputedKeeps
<1> QED
  BY <1>1, <1>2, <1>3 DEF Outcome

LEMMA ApprovedKeeps ==
    ASSUME Single, ControlTypeOK, OutcomeInv, outcomes = <<>>, Approve
    PROVE  OutcomeInv'
<1>1. RecordOutcome("completed") /\ status' = "Settled"
  BY DEF Approve
<1>2. Indices = {1} /\ milestones \in [Indices -> Milestone]
  BY IndicesRange DEF Indices, Single, ControlTypeOK
<1>3. milestones' = [milestones EXCEPT ![1] = [milestones[1] EXCEPT !.status = "Approved"]]
  BY DEF Approve, SyncMilestone
<1>4. \A i \in Indices : milestones'[i].status = "Approved"
  BY <1>2, <1>3 DEF Milestone
<1> QED
  BY <1>1, <1>4, CompletedKeeps

\* A milestone that is not finished has earned nothing yet.
LEMMA StillUnearned ==
    ASSUME NEW ms, milestones[currentMilestone].status \notin MilestoneTerminal,
           \A i \in Indices : i # currentMilestone => ms[i] = milestones[i],
           Unearned(ms)
    PROVE  Unearned(milestones)
  BY DEF Unearned, MilestoneTerminal

\* Paying the current milestone out: to the buyer alone, if it was cancelled.
LEMMA AdvanceOutcome ==
    ASSUME FundsTypeOK, ControlTypeOK, OutcomeInv, OrderInv, MultiFunded,
           NEW ms \in [Indices -> Milestone],
           \A i \in Indices : i # currentMilestone => ms[i] = milestones[i],
           ms[currentMilestone].status \in MilestoneTerminal,
           NEW w, NEW b, NEW t,
           ms[currentMilestone].status = "Cancelled" => w = 0 /\ t = 0,
           AdvanceMilestone(ms, w, b, t)
    PROVE  OutcomeInv'
<1>1. /\ status = "Funded" /\ ~Single /\ currentMilestone \in Indices
      /\ milestones[currentMilestone].status \notin MilestoneTerminal
      /\ outcomes = <<>> /\ milestones' = ms
  BY DEF MultiFunded, OrderInv, InOrder, ControlTypeOK, OutcomeInv, AdvanceMilestone
<1>2. ASSUME Unearned(ms) PROVE w = 0 /\ t = 0 /\ OthersUnpaid
  <2>1. Unearned(milestones)
    BY <1>1, <1>2, StillUnearned
  <2>2. ms[currentMilestone].status = "Cancelled"
    BY <1>1, <1>2 DEF Unearned, MilestoneTerminal
  <2> QED
    BY <1>1, <2>1, <2>2 DEF OutcomeInv
<1>3. CASE AllTerminal(ms)
  <2> DEFINE r == WorkerStakeReturn(ms)
  <2>1. /\ Pay(w + r, b + (HeldStake - r), t) /\ status' = "Settled"
        /\ RecordOutcome(FinalOutcome(ms))
    BY <1>3 DEF AdvanceMilestone
  <2>2. ASSUME FinalOutcome(ms) = "failed" PROVE OthersUnpaid'
    <3>1. \A i \in Indices : ms[i].awardBps \in 0..BPS
      BY DEF Milestone
    <3>2. Unearned(ms) /\ r = 0
      BY <2>1, <2>2, <3>1, FailedEarnsNothing DEF RecordOutcome
    <3>3. w = 0 /\ t = 0 /\ OthersUnpaid
      BY <1>2, <3>2
    <3> HIDE DEF r
    <3>4. Pay(0, b + (HeldStake - r), 0)
      BY <2>1, <3>2, <3>3
    <3>5. OthersKept
      BY <3>4, PaysBuyer
    <3> QED
      BY <3>3, <3>5 DEF OthersKept, OthersUnpaid
  <2> QED
    BY <1>1, <2>1, <2>2, FinalKeeps
<1>4. CASE ~AllTerminal(ms)
  <2>1. Pay(w, b, t) /\ UNCHANGED <<status, outcomes>>
    BY <1>4 DEF AdvanceMilestone
  <2>2. ASSUME Unearned(ms) PROVE OthersUnpaid'
    <3>1. w = 0 /\ t = 0 /\ OthersUnpaid
      BY <1>2, <2>2
    <3>2. OthersKept
      BY <2>1, <3>1, PaysBuyer
    <3> QED
      BY <3>1, <3>2 DEF OthersKept, OthersUnpaid
  <2> QED
    BY <1>1, <2>1, <2>2, UnsettledKeeps
<1> QED
  BY <1>3, <1>4

LEMMA AbortOutcome ==
    ASSUME FundsTypeOK, ControlTypeOK, OutcomeInv, AbortRemainingMilestones
    PROVE  OutcomeInv'
<1> DEFINE open == {i \in Indices : i >= currentMilestone /\ milestones[i].status = "Pending"}
           ms == [i \in Indices |-> IF i \in open
                   THEN [milestones[i] EXCEPT !.status = "Cancelled"]
                   ELSE milestones[i]]
           r == WorkerStakeReturn(ms)
           b == SumFunctionOnSet(MilestoneAmounts, open) + (HeldStake - r)
<1>1. /\ MultiFunded /\ status' = "Refunded" /\ milestones' = ms
      /\ Pay(r, b, 0) /\ RecordOutcome(FinalOutcome(ms))
  BY DEF AbortRemainingMilestones
<1>2. outcomes = <<>> /\ (Unearned(milestones) => OthersUnpaid)
  BY <1>1 DEF OutcomeInv, MultiFunded
<1>3. \A i \in Indices : ms[i].awardBps \in 0..BPS
  <2> SUFFICES ASSUME NEW i \in Indices PROVE ms[i].awardBps \in 0..BPS
    OBVIOUS
  <2>1. milestones[i] \in Milestone
    BY DEF ControlTypeOK
  <2>2. ms[i].awardBps = milestones[i].awardBps
    BY <2>1 DEF Milestone
  <2> QED
    BY <2>1, <2>2 DEF Milestone
<1>4. Unearned(ms) => Unearned(milestones)
  <2>1. \A i \in Indices : i \in open => milestones[i].status = "Pending"
    OBVIOUS
  <2>2. \A i \in Indices : i \notin open => ms[i] = milestones[i]
    OBVIOUS
  <2> HIDE DEF open, ms
  <2> QED
    BY <2>1, <2>2 DEF Unearned
<1> HIDE DEF open, ms, b
<1>5. ASSUME FinalOutcome(ms) = "failed" PROVE OthersUnpaid'
  <2>1. Unearned(ms) /\ r = 0
    BY <1>1, <1>3, <1>5, FailedEarnsNothing DEF RecordOutcome
  <2> HIDE DEF r
  <2>2. Pay(0, b, 0)
    BY <1>1, <2>1
  <2>3. OthersKept
    BY <2>2, PaysBuyer
  <2> QED
    BY <1>2, <1>4, <2>1, <2>3 DEF OthersKept, OthersUnpaid
<1> QED
  BY <1>1, <1>2, <1>5, FinalKeeps

\* The steps of both modes, from an escrow that has not ended.
LEMMA CommonOutcome ==
    ASSUME ControlTypeOK, FundsTypeOK, OrderInv, OutcomeInv, CommonNext,
           status \notin Terminal
    PROVE  OutcomeInv'
<1>1. outcomes = <<>> /\ (Single \/ Unearned(milestones) => OthersUnpaid)
  BY DEF OutcomeInv, Terminal
<1>2. ASSUME UNCHANGED <<paid, outcomes, milestones>>, status' \notin {"Settled", "Refunded"}
      PROVE  OutcomeInv'
  BY <1>1, <1>2, UnsettledKeeps DEF OthersUnpaid, Unearned
<1>3. CASE ClaimTimeoutRefund
  <2>1. status = "Funded" /\ RefundInFull("failed") /\ status' = "Refunded"
    BY <1>3 DEF ClaimTimeoutRefund, RefundInFull
  <2>2. CASE Single
    <3>1. OthersUnpaid'
      BY <1>1, <2>1, <2>2, RefundPaysBuyer DEF OthersKept, OthersUnpaid
    <3> QED
      BY <1>1, <2>1, <3>1, DisputedKeeps DEF RefundInFull
  <2>3. CASE ~Single
    <3>1. milestones' = milestones
      BY <2>1, <2>3 DEF RefundInFull, SyncMilestone
    <3>2. ~AllTerminal(milestones)
      BY <2>1, <2>3 DEF OrderInv, InOrder, AllTerminal, ControlTypeOK
    <3>3. LumpRefund'
      BY <2>1, <2>3, <3>1, <3>2 DEF LumpRefund, AllTerminal
    <3> QED
      BY <1>1, <2>1, <3>3, DisputedKeeps DEF RefundInFull
  <2> QED
    BY <2>2, <2>3
<1>4. CASE ActivateBackup
  <2>1. Pay(0, HeldStake, 0) /\ UNCHANGED <<status, outcomes>>
    BY <1>4 DEF ActivateBackup
  <2>2. OthersKept
    BY <2>1, PaysBuyer
  <2>3. \A i \in Indices : milestones'[i].status = milestones[i].status
    BY <1>4, BackupKeepsStatuses
  <2>4. Single \/ Unearned(milestones') => OthersUnpaid'
    BY <1>1, <2>2, <2>3 DEF Unearned, OthersKept, OthersUnpaid
  <2> QED
    BY <1>1, <2>1, <2>4, UnsettledKeeps DEF Terminal
<1>5. ASSUME NEW bps \in Awards, EmergencyResolve(bps) PROVE OutcomeInv'
  <2>1. CASE EmergencyCancel
    BY <1>2, <2>1 DEF EmergencyCancel, msVars, fundVars
  <2>2. CASE EmergencySettle(bps)
    <3>1. status' = "Settled" /\ RecordOutcome("disputed")
      BY <2>2 DEF EmergencySettle, SettleWithAward
    <3> QED
      BY <1>1, <3>1, DisputedKeeps
  <2>3. CASE EmergencySettleMilestones(bps)
    <3>1. status' = "Settled" /\ RecordOutcome("disputed")
      BY <2>3 DEF EmergencySettleMilestones
    <3> QED
      BY <1>1, <3>1, DisputedKeeps
  <2> QED
    BY <1>5, <2>1, <2>2, <2>3 DEF EmergencyResolve
<1> QED
  BY <1>2, <1>3, <1>4, <1>5
  DEF CommonNext, Fund, FundWithAuthorization, AcceptFunding, CancelBeforeFunding,
      Receive, DepositStake, DepositVerifierStake, WithdrawStake, SetFrozen, Tick,
      fundVars, msVars, Terminal

LEMMA SingleShotOutcome ==
    ASSUME Single, ControlTypeOK, FundsTypeOK, OutcomeInv, SingleShotNext,
           status \notin Terminal
    PROVE  OutcomeInv'
<1>1. outcomes = <<>> /\ OthersUnpaid
  BY DEF OutcomeInv, Terminal
<1>2. ASSUME UNCHANGED paid, UNCHANGED outcomes, status' \notin {"Settled", "Refunded"}
      PROVE  OutcomeInv'
  BY <1>1, <1>2, UnsettledKeeps DEF OthersUnpaid
<1>3. ASSUME SetSingleDisputed PROVE OutcomeInv'
  BY <1>2, <1>3 DEF SetSingleDisputed, fundVars
<1>4. CASE Approve
  BY <1>1, <1>4, ApprovedKeeps
<1>5. ASSUME NEW v, NEW vote, CastSingleVote(v, vote) PROVE OutcomeInv'
  BY <1>2, <1>3, <1>4, <1>5
  DEF CastSingleVote, QuorumApprove, QuorumReject, VoteOnly, fundVars, Terminal
<1>6. ASSUME NEW bps, ResolveDispute(bps) PROVE OutcomeInv'
  <2>1. status' = "Settled" /\ RecordOutcome("disputed")
    BY <1>6 DEF ResolveDispute, SettleWithAward
  <2> QED
    BY <1>1, <2>1, DisputedKeeps
<1>7. CASE ClaimArbitratorTimeout
  <2>1. status' = "Refunded" /\ RecordOutcome("disputed")
    BY <1>7 DEF ClaimArbitratorTimeout, RefundInFull
  <2> QED
    BY <1>1, <2>1, DisputedKeeps
<1> QED
  BY <1>2, <1>3, <1>4, <1>5, <1>6, <1>7
  DEF SingleShotNext, Submit, CastVerifierVote, VerifyAndApprove, ApproveByBuyer,
      Dispute, EscalateSilence, ExpireNoQuorum, fundVars

LEMMA MilestoneOutcome ==
    ASSUME ControlTypeOK, FundsTypeOK, OrderInv, OutcomeInv, MilestoneNext
    PROVE  OutcomeInv'
<1>0. /\ MultiFunded /\ currentMilestone \in Indices
      /\ milestones[currentMilestone] \in Milestone
      /\ milestones[currentMilestone].status \notin MilestoneTerminal
      /\ outcomes = <<>> /\ (Unearned(milestones) => OthersUnpaid)
  <2>1. MultiFunded
    BY DEF MilestoneNext, CastMilestoneVerifierVote, VerifyAndApproveMilestone,
        CastMilestoneVote, ApproveMilestoneByBuyer, DisputeMilestone,
        EscalateMilestoneSilence, ExpireMilestoneNoQuorum, ClaimMilestoneTimeoutRefund,
        ClaimMilestoneArbitratorTimeout, AbortRemainingMilestones, SubmitMilestone,
        ResolveMilestoneDispute, MilestoneInReview
  <2> QED
    BY <2>1 DEF MultiFunded, OrderInv, InOrder, ControlTypeOK, OutcomeInv
<1>1. ASSUME UNCHANGED <<status, outcomes, paid>>,
             \A i \in Indices : i # currentMilestone => milestones'[i] = milestones[i]
      PROVE  OutcomeInv'
  <2> DEFINE ms == milestones'
  <2>1. \A i \in Indices : i # currentMilestone => ms[i] = milestones[i]
    BY <1>1
  <2> HIDE DEF ms
  <2>2. Unearned(ms) => OthersUnpaid
    BY <1>0, <2>1, StillUnearned
  <2>3. Single \/ Unearned(milestones') => OthersUnpaid'
    BY <1>0, <1>1, <2>2 DEF ms, OthersUnpaid, MultiFunded
  <2> QED
    BY <1>0, <1>1, <2>3, UnsettledKeeps DEF MultiFunded
<1>2. ASSUME NEW m, milestones' = [milestones EXCEPT ![currentMilestone] = m],
             UNCHANGED <<status, outcomes, paid>>
      PROVE  OutcomeInv'
  <2>1. \A i \in Indices : i # currentMilestone => milestones'[i] = milestones[i]
    BY <1>2 DEF ControlTypeOK
  <2> QED
    BY <1>1, <1>2, <2>1
<1>3. ASSUME NEW proof, SubmitMilestone(proof) PROVE OutcomeInv'
  <2> DEFINE m == [milestones[currentMilestone] EXCEPT !.submittedAt = now,
                     !.proofHash = proof, !.status = "Submitted"]
  <2>1. /\ milestones' = [milestones EXCEPT ![currentMilestone] = m]
        /\ UNCHANGED <<status, outcomes, paid>>
    BY <1>3 DEF SubmitMilestone, fundVars
  <2> HIDE DEF m
  <2> QED
    BY <1>2, <2>1
<1>4. ASSUME SetMilestoneDisputed PROVE OutcomeInv'
  <2> DEFINE m == [milestones[currentMilestone] EXCEPT !.disputedAt = now,
                     !.status = "Disputed"]
  <2>1. /\ milestones' = [milestones EXCEPT ![currentMilestone] = m]
        /\ UNCHANGED <<status, outcomes, paid>>
    BY <1>4 DEF SetMilestoneDisputed, fundVars
  <2> HIDE DEF m
  <2> QED
    BY <1>2, <2>1
<1>5. \A s \in MilestoneTerminal :
         /\ WithStatus(s) \in [Indices -> Milestone]
         /\ \A i \in Indices : i # currentMilestone => WithStatus(s)[i] = milestones[i]
         /\ WithStatus(s)[currentMilestone].status = s
  BY WithStatusType, WithStatusOnlyCurrent DEF MilestoneStatus, MilestoneTerminal
<1>6. ASSUME ApproveMilestone PROVE OutcomeInv'
  <2> DEFINE s == SettleApproved(MilestoneAmounts[currentMilestone], FeeBps)
             ms == WithStatus("Approved")
             w == s.workerNet
             t == s.fee
  <2>1. AdvanceMilestone(ms, w, 0, t)
    BY <1>6 DEF ApproveMilestone
  <2>2. /\ ms \in [Indices -> Milestone]
        /\ \A i \in Indices : i # currentMilestone => ms[i] = milestones[i]
        /\ ms[currentMilestone].status = "Approved"
    BY <1>5 DEF MilestoneTerminal
  <2>3. /\ ms[currentMilestone].status \in MilestoneTerminal
        /\ ms[currentMilestone].status = "Cancelled" => w = 0 /\ t = 0
    BY <2>2 DEF MilestoneTerminal
  <2> HIDE DEF s, ms, w, t
  <2> QED
    BY <1>0, <2>1, <2>2, <2>3, AdvanceOutcome
<1>7. ASSUME CancelCurrentMilestone PROVE OutcomeInv'
  <2> DEFINE ms == WithStatus("Cancelled")
             b == MilestoneAmounts[currentMilestone]
  <2>1. AdvanceMilestone(ms, 0, b, 0)
    BY <1>7 DEF CancelCurrentMilestone
  <2>2. /\ ms \in [Indices -> Milestone]
        /\ \A i \in Indices : i # currentMilestone => ms[i] = milestones[i]
        /\ ms[currentMilestone].status \in MilestoneTerminal
    BY <1>5 DEF MilestoneTerminal
  <2> HIDE DEF ms, b
  <2> QED
    BY <1>0, <2>1, <2>2, AdvanceOutcome
<1>8. ASSUME NEW bps \in Awards, ResolveMilestoneDispute(bps) PROVE OutcomeInv'
  <2> DEFINE s == SettleResolved(MilestoneAmounts[currentMilestone], bps, FeeBps)
             ws == WithStatus("Resolved")
             ms == [ws EXCEPT ![currentMilestone].awardBps = bps]
             w == s.workerNet
             b == s.buyerRefund
             t == s.fee
  <2>1. AdvanceMilestone(ms, w, b, t)
    BY <1>8 DEF ResolveMilestoneDispute
  <2>2. /\ ws \in [Indices -> Milestone]
        /\ \A i \in Indices : i # currentMilestone => ws[i] = milestones[i]
        /\ ws[currentMilestone].status = "Resolved"
    BY <1>5 DEF MilestoneTerminal
  <2>3. /\ ms \in [Indices -> Milestone]
        /\ \A i \in Indices : i # currentMilestone => ms[i] = milestones[i]
        /\ ms[currentMilestone].status = "Resolved"
    <3> HIDE DEF ws
    <3> DEFINE m == [ws[currentMilestone] EXCEPT !.awardBps = bps]
    <3>1. bps \in 0..BPS /\ ws[currentMilestone] \in Milestone
      BY <1>0, <2>2, AmountAssumption
    <3>2. m \in Milestone /\ m.status = "Resolved"
      BY <2>2, <3>1 DEF Milestone
    <3>3. ms = [ws EXCEPT ![currentMilestone] = m]
      BY <2>2
    <3> HIDE DEF m, ms
    <3> QED
      BY <1>0, <2>2, <3>2, <3>3
  <2>4. /\ ms[currentMilestone].status \in MilestoneTerminal
        /\ ms[currentMilestone].status = "Cancelled" => w = 0 /\ t = 0
    BY <2>3 DEF MilestoneTerminal
  <2> HIDE DEF s, ms, ws, w, b, t
  <2> QED
    BY <1>0, <2>1, <2>3, <2>4, AdvanceOutcome
<1>9. ASSUME NEW v, NEW vote, CastMilestoneVote(v, vote) PROVE OutcomeInv'
  <2>1. CASE VoteOnly(v, vote)
    <3>1. UNCHANGED <<status, outcomes, paid>> /\ milestones' = milestones
      BY <2>1 DEF VoteOnly, msVars, fundVars
    <3> QED
      BY <1>1, <3>1
  <2> QED
    BY <1>4, <1>6, <1>9, <2>1 DEF CastMilestoneVote
<1> QED
  BY <1>3, <1>4, <1>6, <1>7, <1>8, <1>9, AbortOutcome
  DEF MilestoneNext, CastMilestoneVerifierVote, VerifyAndApproveMilestone,
      ApproveMilestoneByBuyer, DisputeMilestone, EscalateMilestoneSilence,
      ExpireMilestoneNoQuorum, ClaimMilestoneTimeoutRefund,
      ClaimMilestoneArbitratorTimeout

LEMMA OutcomeStep ==
    ASSUME ControlTypeOK, AccountInv, OrderInv, OutcomeInv, [Next]_vars
    PROVE  OutcomeInv'
<1>1. CASE status \in Terminal
  <2>1. UNCHANGED <<status, milestones, outcomes, paid>>
    BY <1>1, ClosedStep
  <2> QED
    BY <2>1 DEF OutcomeInv, OutcomeTruthful, OthersUnpaid, LumpRefund, AllTerminal, Unearned
<1>2. CASE status \notin Terminal
  <2>1. CASE CommonNext
    BY <1>2, <2>1, CommonOutcome DEF AccountInv
  <2>2. CASE SingleShotNext
    <3>1. Single
      BY <2>2, OnlySingleShot
    <3> QED
      BY <1>2, <2>2, <3>1, SingleShotOutcome DEF AccountInv
  <2>3. CASE MilestoneNext
    BY <2>3, MilestoneOutcome DEF AccountInv
  <2>4. CASE UNCHANGED vars
    BY <2>4
    DEF vars, OutcomeInv, OutcomeTruthful, OthersUnpaid, LumpRefund, AllTerminal, Unearned
  <2> QED
    BY <2>1, <2>2, <2>3, <2>4 DEF Next
<1> QED
  BY <1>1, <1>2

\* Section 8: in either mode an escrow records one outcome when it closes after
\* it was funded, "completed" only if every milestone was approved and "failed"
\* only if nobody but the buyer was paid.
THEOREM OutcomeAlwaysTruthful == Spec => []OutcomeTruthful
<1>1. Init => OutcomeInv
  BY DEF Init, OutcomeInv, OutcomeTruthful, OthersUnpaid
<1>2. ControlTypeOK /\ AccountInv /\ OrderInv /\ OutcomeInv /\ [Next]_vars => OutcomeInv'
  BY OutcomeStep
<1>3. OutcomeInv => OutcomeTruthful
  BY DEF OutcomeInv
<1> QED
  BY <1>1, <1>2, <1>3, ControlTypeCorrect, AccountInvCorrect, OrderInvCorrect, PTL DEF Spec

-----------------------------------------------------------------------------
(* The contract implements EscrowLifecycle, for every value of the         *)
(* constants and in both modes.                                            *)

\* What the mapping needs besides the types: nothing is recorded before the
\* escrow closes.
LifeInv == status = "Created" \/ Open => outcomes = <<>>

\* The two ways a step can relate to the abstract lifecycle: within the
\* open phase nothing the factory sees changes, or the escrow closes.
Stays == /\ (Open <=> Open') /\ (status = "Created" <=> status' = "Created")
         /\ UNCHANGED <<frozen, backupActivated, outcomes>>
Closes(o) ==
    /\ Open
    /\ status' \in {"Settled", "Refunded"}
    /\ RecordOutcome(o)
    /\ frozen => o # "completed"
    /\ UNCHANGED <<frozen, backupActivated>>
ClosesAsSome == \E o \in Outcome : Closes(o)

LEMMA StaysIsStutter == Stays => LifeNow' = LifeNow /\ (LifeInv => LifeInv')
  BY DEF Stays, LifeNow, LifeInv

LEMMA ClosesIsClosing ==
    ASSUME LifeInv, NEW o \in Outcome, Closes(o)
    PROVE  Lifecycle!Closing(LifeNow, LifeNow') /\ LifeInv'
<1>1. outcomes = <<>> /\ outcomes' = <<o>> /\ outcomes' # <<>> /\ outcomes'[1] = o
  BY DEF LifeInv, Closes, RecordOutcome
<1>2. LifeNow = [phase |-> "Open", frozen |-> frozen, backup |-> backupActivated,
                 outcome |-> "none"]
  BY <1>1 DEF LifeNow, Closes, Open
<1>3. LifeNow' = [phase |-> "Closed", frozen |-> frozen, backup |-> backupActivated,
                  outcome |-> o]
  BY <1>1 DEF LifeNow, Closes, Open
<1>4. LifeNow' = [LifeNow EXCEPT !.phase = "Closed", !.outcome = o]
  <2> DEFINE m == [LifeNow EXCEPT !.phase = "Closed"]
  <2>1. m = [phase |-> "Closed", frozen |-> frozen, backup |-> backupActivated,
             outcome |-> "none"]
    BY <1>2
  <2>2. [LifeNow EXCEPT !.phase = "Closed", !.outcome = o] = [m EXCEPT !.outcome = o]
    OBVIOUS
  <2> HIDE DEF m
  <2>3. LifeNow' = [m EXCEPT !.outcome = o]
    BY <2>1, <1>3
  <2> QED
    BY <2>2, <2>3
<1>5. o \in Lifecycle!Outcome
  BY DEF Outcome, Lifecycle!Outcome
<1>6. LifeNow.frozen => o # "completed"
  BY <1>2 DEF Closes
<1>7. LifeNow.phase = "Open"
  BY <1>2
<1>8. LifeInv'
  BY DEF LifeInv, Closes, Open
<1> QED
  BY <1>4, <1>5, <1>6, <1>7, <1>8 DEF Lifecycle!Closing

\* A cancelled milestone rules "completed" out.
LEMMA CancelledIsNoSuccess ==
    ASSUME NEW ms, NEW i \in Indices, ms[i].status = "Cancelled"
    PROVE  FinalOutcome(ms) # "completed"
<1> DEFINE seen == {ms[j].status : j \in Indices}
<1>1. "Cancelled" \in seen
  BY DEF seen
<1>2. seen # {"Approved"}
  BY <1>1
<1>3. FinalOutcome(ms) = IF ~AllTerminal(ms) THEN "none"
                         ELSE IF seen = {"Cancelled"} THEN "failed" ELSE "disputed"
  BY <1>2 DEF FinalOutcome, seen
<1> QED
  BY <1>2, <1>3

LEMMA AdvanceLife ==
    ASSUME NEW ms, NEW w, NEW b, NEW t, AdvanceMilestone(ms, w, b, t), MultiFunded,
           frozen => FinalOutcome(ms) # "completed"
    PROVE  Stays \/ ClosesAsSome
<1>1. CASE AllTerminal(ms)
  <2>1. Closes(FinalOutcome(ms)) /\ FinalOutcome(ms) \in Outcome
    BY <1>1 DEF AdvanceMilestone, MultiFunded, Closes, Open, workerVars, RecordOutcome
  <2> QED
    BY <2>1 DEF ClosesAsSome
<1>2. CASE ~AllTerminal(ms)
  BY <1>2 DEF AdvanceMilestone, Stays, Open, workerVars
<1> QED
  BY <1>1, <1>2

LEMMA CancelLife ==
    ASSUME ControlTypeOK, CancelCurrentMilestone, MultiFunded
    PROVE  Stays \/ ClosesAsSome
<1> DEFINE ms == WithStatus("Cancelled")
<1>1. currentMilestone \in Indices /\ ms[currentMilestone].status = "Cancelled"
  BY DEF ControlTypeOK, WithStatus, Milestone
<1>2. AdvanceMilestone(ms, 0, MilestoneAmounts[currentMilestone], 0)
  BY DEF CancelCurrentMilestone
<1> HIDE DEF ms
<1>3. FinalOutcome(ms) # "completed"
  BY <1>1, CancelledIsNoSuccess
<1> QED
  BY <1>2, <1>3, AdvanceLife

LEMMA RefundLife ==
    ASSUME NEW o \in Outcome, Open, RefundInFull(o), o # "completed"
    PROVE  ClosesAsSome
<1>1. Closes(o)
  BY DEF RefundInFull, Closes, workerVars
<1> QED
  BY <1>1 DEF ClosesAsSome

LEMMA AwardLife ==
    ASSUME NEW bps, Open, SettleWithAward(bps), UNCHANGED <<frozen, backupActivated>>
    PROVE  ClosesAsSome
<1>1. Closes("disputed")
  BY DEF SettleWithAward, Closes
<1> QED
  BY <1>1 DEF ClosesAsSome, Outcome

LEMMA ApproveLife ==
    ASSUME Open, ~frozen, Approve, UNCHANGED <<frozen, backupActivated>>
    PROVE  ClosesAsSome
<1>1. Closes("completed")
  BY DEF Approve, Closes
<1> QED
  BY <1>1 DEF ClosesAsSome, Outcome

LEMMA SingleDisputedLife ==
    ASSUME status = "Submitted", SetSingleDisputed, UNCHANGED <<frozen, backupActivated>>
    PROVE  Stays
  BY DEF SetSingleDisputed, Stays, Open

\* Every single-shot action stays within the open phase or closes.
LEMMA SingleShotLife == SingleShotNext => Stays \/ ClosesAsSome
<1> SUFFICES ASSUME SingleShotNext PROVE Stays \/ ClosesAsSome
  OBVIOUS
<1> USE DEF workerVars
<1>1. ASSUME NEW proof \in BOOLEAN, Submit(proof) PROVE Stays
  BY <1>1 DEF Submit, Stays, Open
<1>2. ASSUME NEW v \in Verifiers, NEW vote, CastSingleVote(v, vote)
      PROVE  Stays \/ ClosesAsSome
  <2>1. status = "Submitted" /\ Open /\ ~frozen /\ UNCHANGED <<frozen, backupActivated>>
    BY <1>2 DEF CastSingleVote, Open
  <2>2. CASE QuorumApprove(v, vote)
    BY <2>1, <2>2, ApproveLife DEF QuorumApprove
  <2>3. CASE QuorumReject(v, vote)
    BY <2>1, <2>3, SingleDisputedLife DEF QuorumReject
  <2>4. CASE VoteOnly(v, vote)
    BY <2>1, <2>4 DEF VoteOnly, Stays, Open
  <2> QED
    BY <1>2, <2>2, <2>3, <2>4 DEF CastSingleVote
<1>3. ASSUME NEW v \in Verifiers, CastVerifierVote(v) \/ VerifyAndApprove(v)
      PROVE  Stays \/ ClosesAsSome
  BY <1>2, <1>3 DEF CastVerifierVote, VerifyAndApprove
<1>4. ASSUME NEW bps \in Awards, ResolveDispute(bps) PROVE ClosesAsSome
  BY <1>4, AwardLife DEF ResolveDispute, Open
<1>5. CASE ApproveByBuyer
  BY <1>5, ApproveLife DEF ApproveByBuyer, Open
<1>6. CASE Dispute \/ EscalateSilence \/ ExpireNoQuorum
  BY <1>6, SingleDisputedLife DEF Dispute, EscalateSilence, ExpireNoQuorum
<1>7. CASE ClaimArbitratorTimeout
  BY <1>7, RefundLife DEF ClaimArbitratorTimeout, Open, Outcome
<1> QED
  BY <1>1, <1>3, <1>4, <1>5, <1>6, <1>7 DEF SingleShotNext

\* So does every milestone action.
LEMMA MilestoneLife == ControlTypeOK /\ MilestoneNext => Stays \/ ClosesAsSome
<1> SUFFICES ASSUME ControlTypeOK, MilestoneNext PROVE Stays \/ ClosesAsSome
  OBVIOUS
<1> USE DEF workerVars
<1>1. ASSUME NEW proof \in BOOLEAN, SubmitMilestone(proof) PROVE Stays
  BY <1>1 DEF SubmitMilestone, Stays, Open
<1>2. ASSUME SetMilestoneDisputed PROVE Stays
  BY <1>2 DEF SetMilestoneDisputed, Stays, Open
<1>3. ASSUME ~frozen, MultiFunded, ApproveMilestone PROVE Stays \/ ClosesAsSome
  BY <1>3, AdvanceLife DEF ApproveMilestone
<1>4. ASSUME NEW v \in Verifiers, NEW vote, CastMilestoneVote(v, vote)
      PROVE  Stays \/ ClosesAsSome
  <2>1. CASE VoteOnly(v, vote) /\ UNCHANGED <<now, frozen>> /\ UNCHANGED workerVars
    BY <2>1 DEF VoteOnly, Stays, Open
  <2> QED
    BY <1>2, <1>3, <1>4, <2>1 DEF CastMilestoneVote, MilestoneInReview
<1>5. ASSUME NEW v \in Verifiers,
             CastMilestoneVerifierVote(v) \/ VerifyAndApproveMilestone(v)
      PROVE  Stays \/ ClosesAsSome
  BY <1>4, <1>5 DEF CastMilestoneVerifierVote, VerifyAndApproveMilestone
<1>6. ASSUME NEW bps \in Awards, ResolveMilestoneDispute(bps)
      PROVE  Stays \/ ClosesAsSome
  BY <1>6, AdvanceLife DEF ResolveMilestoneDispute
<1>7. CASE ApproveMilestoneByBuyer
  BY <1>3, <1>7 DEF ApproveMilestoneByBuyer, MilestoneInReview
<1>8. CASE DisputeMilestone \/ EscalateMilestoneSilence \/ ExpireMilestoneNoQuorum
  BY <1>2, <1>8 DEF DisputeMilestone, EscalateMilestoneSilence, ExpireMilestoneNoQuorum
<1>9. CASE ClaimMilestoneTimeoutRefund \/ ClaimMilestoneArbitratorTimeout
  BY <1>9, CancelLife DEF ClaimMilestoneTimeoutRefund, ClaimMilestoneArbitratorTimeout
<1>10. CASE AbortRemainingMilestones
  <2>1. \E o : /\ RecordOutcome(o) /\ ~frozen /\ MultiFunded
               /\ status' = "Refunded" /\ UNCHANGED <<frozen, backupActivated>>
    BY <1>10 DEF AbortRemainingMilestones
  <2>2. ClosesAsSome
    BY <2>1 DEF ClosesAsSome, Closes, RecordOutcome, MultiFunded, Open
  <2> QED
    BY <2>2
<1> QED
  BY <1>1, <1>5, <1>6, <1>7, <1>8, <1>9, <1>10 DEF MilestoneNext

\* Setting the backup field of a life record.
LEMMA BackupField ==
    ASSUME NEW f, NEW b, NEW r, NEW new
    PROVE  [[phase |-> "Open", frozen |-> f, backup |-> b, outcome |-> r]
              EXCEPT !.backup = new]
             = [phase |-> "Open", frozen |-> f, backup |-> new, outcome |-> r]
  OBVIOUS

\* The remaining actions: funding, cancelling, backing up and freezing are
\* steps of the lifecycle of their own.
LEMMA CommonLife ==
    ASSUME LifeInv, ControlTypeOK, CommonNext
    PROVE  (Lifecycle!Next /\ LifeInv') \/ Stays \/ ClosesAsSome
<1> USE DEF workerVars
<1>1. ASSUME AcceptFunding PROVE Lifecycle!Next /\ LifeInv'
  <2>1. LifeNow' = [LifeNow EXCEPT !.phase = "Open"]
    BY <1>1 DEF AcceptFunding, LifeNow, Open
  <2>2. LifeNow.phase = "Created" /\ ~LifeNow.frozen
    BY <1>1 DEF AcceptFunding, LifeNow
  <2>3. LifeInv'
    BY <1>1 DEF AcceptFunding, LifeInv
  <2> QED
    BY <2>1, <2>2, <2>3 DEF Lifecycle!Next, Lifecycle!Funding
<1>2. ASSUME status = "Created", status' = "Cancelled",
             UNCHANGED <<frozen, outcomes>>, UNCHANGED workerVars
      PROVE  Lifecycle!Next /\ LifeInv'
  <2>1. LifeNow' = [LifeNow EXCEPT !.phase = "Closed"]
    BY <1>2 DEF LifeNow, Open
  <2> QED
    BY <1>2, <2>1 DEF LifeNow, LifeInv, Open, Lifecycle!Next, Lifecycle!Cancellation
<1>3. CASE Fund \/ FundWithAuthorization
  BY <1>1, <1>3 DEF Fund, FundWithAuthorization
<1>4. CASE CancelBeforeFunding
  BY <1>2, <1>4 DEF CancelBeforeFunding
<1>5. CASE DepositStake
  BY <1>5 DEF DepositStake, Stays, Open
<1>6. ASSUME NEW v \in Verifiers, DepositVerifierStake(v) PROVE Stays
  BY <1>6 DEF DepositVerifierStake, Stays, Open
<1>7. ASSUME NEW c \in Claimants, WithdrawStake(c) PROVE Stays
  BY <1>7 DEF WithdrawStake, Stays, Open
<1>8. CASE ClaimTimeoutRefund
  BY <1>8, RefundLife DEF ClaimTimeoutRefund, Open, Outcome
<1>9. CASE ActivateBackup
  <2>1. /\ status = "Funded" /\ status' = "Funded" /\ ~frozen /\ ~backupActivated
        /\ backupActivated' = TRUE /\ UNCHANGED <<frozen, outcomes>>
    BY <1>9 DEF ActivateBackup
  <2> DEFINE recorded == IF outcomes = <<>> THEN "none" ELSE outcomes[1]
  <2>2. LifeNow = [phase |-> "Open", frozen |-> frozen, backup |-> backupActivated,
                   outcome |-> recorded]
    BY <2>1 DEF LifeNow, Open
  <2>3. recorded' = recorded
    BY <2>1
  <2>4. LifeNow' = [phase |-> "Open", frozen |-> frozen', backup |-> backupActivated',
                    outcome |-> recorded']
    BY <2>1 DEF LifeNow, Open
  <2>5. LifeNow' = [phase |-> "Open", frozen |-> frozen, backup |-> TRUE,
                    outcome |-> recorded]
    BY <2>1, <2>3, <2>4, Zenon
  <2> HIDE DEF recorded
  <2>6. LifeNow' = [LifeNow EXCEPT !.backup = TRUE]
    <3> DEFINE before == [phase |-> "Open", frozen |-> frozen, backup |-> backupActivated,
                          outcome |-> recorded]
    <3>1. [before EXCEPT !.backup = TRUE]
            = [phase |-> "Open", frozen |-> frozen, backup |-> TRUE, outcome |-> recorded]
      BY BackupField, Zenon
    <3>2. LifeNow = before
      BY <2>2
    <3> HIDE DEF before
    <3> QED
      BY <2>5, <3>1, <3>2, Zenon
  <2>7. LifeNow.phase = "Open" /\ ~LifeNow.frozen /\ ~LifeNow.backup
    BY <2>1 DEF LifeNow, Open
  <2>8. LifeInv'
    BY <2>1 DEF LifeInv, Open
  <2> QED
    BY <2>6, <2>7, <2>8 DEF Lifecycle!Next, Lifecycle!BackupActivation
<1>10. CASE SetFrozen
  <2>1. LifeNow' = [LifeNow EXCEPT !.frozen = ~LifeNow.frozen]
    BY <1>10 DEF SetFrozen, LifeNow, Open
  <2> QED
    BY <1>10, <2>1 DEF SetFrozen, LifeInv, Open, Lifecycle!Next, Lifecycle!Freezing
<1>11. ASSUME NEW bps \in Awards, EmergencyResolve(bps)
       PROVE  (Lifecycle!Next /\ LifeInv') \/ ClosesAsSome
  <2>1. CASE EmergencyCancel
    BY <1>2, <2>1 DEF EmergencyCancel
  <2>2. CASE EmergencySettle(bps)
    BY <2>2, AwardLife DEF EmergencySettle, Open
  <2>3. CASE EmergencySettleMilestones(bps)
    <3>1. Closes("disputed")
      BY <2>3 DEF EmergencySettleMilestones, Closes, MultiFunded, Open
    <3> QED
      BY <3>1 DEF ClosesAsSome, Outcome
  <2> QED
    BY <1>11, <2>1, <2>2, <2>3 DEF EmergencyResolve
<1>12. CASE Tick
  BY <1>12 DEF Tick, Stays, Open
<1> QED
  BY <1>3, <1>4, <1>5, <1>6, <1>7, <1>8, <1>9, <1>10, <1>11, <1>12 DEF CommonNext

LEMMA LifeStep ==
    LifeInv /\ ControlTypeOK /\ [Next]_vars => LifeInv' /\ [Lifecycle!Next]_LifeNow
<1> SUFFICES ASSUME LifeInv, ControlTypeOK, [Next]_vars
             PROVE  LifeInv' /\ [Lifecycle!Next]_LifeNow
  OBVIOUS
<1>1. ASSUME Stays PROVE LifeInv' /\ LifeNow' = LifeNow
  BY <1>1, StaysIsStutter
<1>2. ASSUME ClosesAsSome PROVE LifeInv' /\ Lifecycle!Next
  BY <1>2, ClosesIsClosing DEF ClosesAsSome, Lifecycle!Next
<1>3. CASE CommonNext
  BY <1>1, <1>2, <1>3, CommonLife
<1>4. CASE SingleShotNext
  BY <1>1, <1>2, <1>4, SingleShotLife
<1>5. CASE MilestoneNext
  BY <1>1, <1>2, <1>5, MilestoneLife
<1>6. CASE UNCHANGED vars
  BY <1>6 DEF vars, LifeInv, LifeNow, Open
<1> QED
  BY <1>3, <1>4, <1>5, <1>6 DEF Next

LEMMA InitLife == Init => LifeInv /\ Lifecycle!Init
  BY DEF Init, LifeInv, LifeNow, Open, Lifecycle!Init, Lifecycle!Deployed

\* Sections 3, 6 and 8: the contract implements the lifecycle its factory
\* relies on: it closes once, with one recorded outcome, never as a success
\* while frozen, and replaces its worker at most once.
THEOREM EscrowImplementsLifecycle == Spec => ImplementsLifecycle
<1>1. Init => ControlTypeOK /\ LifeInv /\ Lifecycle!Init
  BY InitControlType, InitLife
<1>2. (ControlTypeOK /\ LifeInv) /\ [Next]_vars
        => (ControlTypeOK /\ LifeInv)' /\ [Lifecycle!Next]_LifeNow
  BY ControlTypeStep, LifeStep
<1> QED
  BY <1>1, <1>2, PTL DEF Spec, ImplementsLifecycle, Lifecycle!Spec
=============================================================================

