----------------------------- MODULE TaskEscrow -----------------------------
(***************************************************************************)
(* One escrow contract, src/src/TaskEscrow.sol, as the factory deploys it. *)
(* Every external function is one action: a transaction is atomic and one  *)
(* that reverts changes nothing, so a require/revert is a guard.  A        *)
(* contract with one milestone is single-shot; with several it is in       *)
(* milestone mode, where status stays Funded until the last milestone.     *)
(* Milestones are numbered from 1 (the code counts from 0), and a call's   *)
(* milestoneIndex argument, which must equal currentMilestone, is left out.*)
(***************************************************************************)
EXTENDS MilestoneLib, FiniteSets, Sequences, FiniteSetsExt

CONSTANTS
    Verifiers,             \* the verifier panel
    QuorumThreshold,       \* approvals that finalise a review
    VerifierStake,         \* verifierStakePerVerifier
    MilestoneAmounts,      \* the amount of each milestone
    MilestoneDeadlines,    \* the submission deadline of each milestone
    Amount,                \* the escrowed principal
    WorkerStake,           \* the worker's bond, 0 when none is required
    SubmissionDeadline,    \* the deadline of the escrow as a whole
    ReviewPeriod, DisputePeriod, ArbitratorTimeout,
    BackupExtension,       \* backupDeadlineExtension
    HasBackup,             \* backupWorker # address(0)
    HighAssurance,         \* serviceTier = TIER_HIGH_ASSURANCE
    HasZKVerifier,         \* zkVerifier # address(0)
    IsToken,               \* token # address(0)
    FeeBps,                \* protocolFeeBpsSnapshot
    Awards,                \* the workerAwardBps an arbitrator may choose
    Rejecting,             \* payees whose incoming transfers revert
    MaxTime                \* bound on block.timestamp

VARIABLES
    now,                   \* block.timestamp, 0 at deployment
    status, frozen,
    activeWorker, backupActivated, deadlineExtensionApplied, workerStaked,
    quorumVote, quorumApproveCount, quorumRejectCount,
    quorumStaked, quorumStakeCount, withdrawable,
    owed,                  \* the sum of withdrawable (auxiliary)
    submittedAt, disputedAt, proofHash,
    milestones, currentMilestone,
    balance,               \* the contract's balance of its token
    paid,                  \* what it has sent from principal and bonds (auxiliary)
    outcomes               \* the outcomes recorded at the factory

clockVars  == <<now>>
voteVars   == <<quorumVote, quorumApproveCount, quorumRejectCount>>
stakeVars  == <<quorumStaked, quorumStakeCount, withdrawable, owed>>
workerVars == <<activeWorker, backupActivated, deadlineExtensionApplied, workerStaked>>
singleVars == <<submittedAt, disputedAt, proofHash>>
msVars     == <<milestones, currentMilestone>>
fundVars   == <<balance, paid>>
vars == <<now, status, frozen, activeWorker, backupActivated,
          deadlineExtensionApplied, workerStaked, quorumVote,
          quorumApproveCount, quorumRejectCount, quorumStaked,
          quorumStakeCount, withdrawable, owed, submittedAt, disputedAt,
          proofHash, milestones, currentMilestone, balance, paid, outcomes>>

MilestoneCount == Len(MilestoneAmounts)
Indices  == 1..MilestoneCount
Single   == MilestoneCount = 1
Payees   == {"buyer", "worker", "backup", "treasury"}
Claimants == Verifiers \cup {"buyer"}
Status   == {"Created", "Funded", "Submitted", "Disputed",
             "Settled", "Refunded", "Cancelled"}
Terminal == {"Settled", "Refunded", "Cancelled"}
MilestoneStatus == {"Pending", "Submitted", "Approved", "Disputed",
                    "Resolved", "Cancelled"}
MilestoneTerminal == {"Approved", "Resolved", "Cancelled"}
Outcome  == {"completed", "disputed", "failed"}
Vote     == {"none", "approve", "reject"}
Milestone == [deadline : Nat, submittedAt : Nat, disputedAt : Nat,
              status : MilestoneStatus, awardBps : 0..BPS, proofHash : BOOLEAN]

\* What the constructor and createEscrow require of a quorum.
ASSUME QuorumAssumption ==
    /\ IsFiniteSet(Verifiers)
    /\ Cardinality(Verifiers) <= 7
    /\ "buyer" \notin Verifiers
    /\ QuorumThreshold \in 1..Cardinality(Verifiers)
    /\ VerifierStake \in Nat

\* What they require of the amounts, the fee and the awards.
ASSUME AmountAssumption ==
    /\ Amount \in Nat \ {0}
    /\ WorkerStake \in Nat
    /\ FeeBps \in 0..BPS
    /\ Awards \subseteq 0..BPS
    /\ Rejecting \subseteq Payees \cup Verifiers

\* What _initMilestones requires: at most 16 milestones, with deadlines in
\* the future and increasing, that add up to the amount; a single-shot
\* escrow's only milestone carries the escrow's own amount.
ASSUME MilestoneAssumption ==
    /\ MilestoneAmounts \in Seq(Nat)
    /\ Len(MilestoneAmounts) \in 1..16
    /\ MilestoneDeadlines \in Seq(Nat)
    /\ Len(MilestoneDeadlines) = Len(MilestoneAmounts)
    /\ \A i \in 1..Len(MilestoneAmounts) :
         /\ MilestoneDeadlines[i] > 0
         /\ i > 1 => MilestoneDeadlines[i] > MilestoneDeadlines[i - 1]
    /\ Len(MilestoneAmounts) = 1 => MilestoneAmounts[1] = Amount

ASSUME MilestonesAddUp ==
    SumFunctionOnSet(MilestoneAmounts, 1..Len(MilestoneAmounts)) = Amount

\* The periods are whole seconds; block.timestamp precedes the deadline.
ASSUME TimeAssumption ==
    /\ SubmissionDeadline \in Nat \ {0}
    /\ ReviewPeriod \in Nat /\ DisputePeriod \in Nat
    /\ ArbitratorTimeout \in Nat /\ BackupExtension \in Nat
    /\ MaxTime \in Nat

\* The creation-time switches.
ASSUME SwitchAssumption ==
    /\ HasBackup \in BOOLEAN /\ HighAssurance \in BOOLEAN
    /\ HasZKVerifier \in BOOLEAN /\ IsToken \in BOOLEAN

Init ==
    /\ now = 0
    /\ status = "Created"
    /\ frozen = FALSE
    /\ activeWorker = "worker"
    /\ backupActivated = FALSE
    /\ deadlineExtensionApplied = 0
    /\ workerStaked = FALSE
    /\ quorumVote = [v \in Verifiers |-> "none"]
    /\ quorumApproveCount = 0
    /\ quorumRejectCount = 0
    /\ quorumStaked = [v \in Verifiers |-> FALSE]
    /\ quorumStakeCount = 0
    /\ withdrawable = [c \in Claimants |-> 0]
    /\ owed = 0
    /\ submittedAt = 0
    /\ disputedAt = 0
    /\ proofHash = FALSE
    /\ milestones = [i \in Indices |->
                       [deadline |-> MilestoneDeadlines[i], submittedAt |-> 0,
                        disputedAt |-> 0, status |-> "Pending", awardBps |-> 0,
                        proofHash |-> FALSE]]
    /\ currentMilestone = 1
    /\ balance = 0
    /\ paid = [p \in Payees |-> 0]
    /\ outcomes = <<>>

-----------------------------------------------------------------------------
(* Helpers on the contract's state.                                        *)

MultiFunded == status = "Funded" /\ ~Single
Current == milestones[currentMilestone]
Staked == {v \in Verifiers : quorumStaked[v]}
EffectiveDeadline == SubmissionDeadline + deadlineExtensionApplied
HeldStake == IF workerStaked THEN WorkerStake ELSE 0
QuorumRejectThreshold == Cardinality(Verifiers) - QuorumThreshold + 1

ReviewEnds(at)  == at + ReviewPeriod
DisputeEnds(at) == at + ReviewPeriod + DisputePeriod

\* TransferLib.send to the active worker, the buyer and the treasury.  A
\* transfer the payee rejects, or the balance cannot cover, reverts the call.
Accepts(payee) == payee \notin Rejecting
Pay(toWorker, toBuyer, toTreasury) ==
    /\ toWorker > 0 => Accepts(activeWorker)
    /\ toBuyer > 0 => Accepts("buyer")
    /\ toTreasury > 0 => Accepts("treasury")
    /\ toWorker + toBuyer + toTreasury <= balance
    /\ balance' = balance - (toWorker + toBuyer + toTreasury)
    /\ paid' = [p \in Payees |-> paid[p]
                  + (IF p = activeWorker THEN toWorker ELSE 0)
                  + (IF p = "buyer" THEN toBuyer ELSE 0)
                  + (IF p = "treasury" THEN toTreasury ELSE 0)]

Receive(value) == balance' = balance + value /\ paid' = paid

\* The factory callback, which reverts on anything but the three outcomes.
RecordOutcome(outcome) ==
    /\ outcome \in Outcome
    /\ outcomes' = Append(outcomes, outcome)

\* _resetQuorumVoteState: every vote of the cycle is cleared.
ResetQuorumVoteState ==
    /\ quorumVote' = [v \in Verifiers |-> "none"]
    /\ quorumApproveCount' = 0
    /\ quorumRejectCount' = 0

\* k decrements of a uint8 counter, each skipped at zero.
CountDown(n, k) == IF k <= n THEN n - k ELSE 0

\* _refundUnsettledVerifierStakes: each stake still held becomes
\* withdrawable by the verifier who deposited it.
RefundUnsettledVerifierStakes ==
    IF VerifierStake = 0 \/ quorumStakeCount = 0
    THEN UNCHANGED stakeVars
    ELSE /\ withdrawable' = [c \in Claimants |-> withdrawable[c]
                               + (IF c \in Staked THEN VerifierStake ELSE 0)]
         /\ owed' = owed + Cardinality(Staked) * VerifierStake
         /\ quorumStaked' = [v \in Verifiers |-> FALSE]
         /\ quorumStakeCount' = CountDown(quorumStakeCount, Cardinality(Staked))

\* The verifiers whose vote in votes goes against the winning side; those
\* who abstained are not among them.
BuggyMinority(votes, winner) == {v \in Verifiers : votes[v] # winner}
Minority(votes, winner) ==
    {v \in Verifiers : votes[v] \notin {"none", winner}}

\* _settleVerifierStakes: the majority and the abstainers get their stakes
\* back, the stakes of the minority go to the buyer.
BuggySettleVerifierStakes(votes, winner) ==
    /\ withdrawable' = [c \in Claimants |-> withdrawable[c]
          + (IF c \in Staked \ Minority(votes, winner) THEN VerifierStake ELSE 0)]
    /\ owed' = owed + Cardinality(Staked \ Minority(votes, winner)) * VerifierStake
    /\ quorumStaked' = [v \in Verifiers |-> FALSE]
    /\ quorumStakeCount' = 0
SettleVerifierStakes(votes, winner) ==
    LET slashed == Staked \cap Minority(votes, winner)
    IN  IF VerifierStake = 0
        THEN UNCHANGED stakeVars
        ELSE /\ withdrawable' = [c \in Claimants |-> withdrawable[c]
                  + (IF c \in Staked \ slashed THEN VerifierStake ELSE 0)
                  + (IF c = "buyer" THEN Cardinality(slashed) * VerifierStake ELSE 0)]
             /\ owed' = owed + Cardinality(Staked) * VerifierStake
             /\ quorumStaked' = [v \in Verifiers |-> FALSE]
             /\ quorumStakeCount' = CountDown(quorumStakeCount, Cardinality(Staked))

\* Every path that leaves a review without a quorum refunds the stakes and
\* clears the votes.
BuggyExitReviewWithoutQuorum == RefundUnsettledVerifierStakes /\ UNCHANGED voteVars
ExitReviewWithoutQuorum == RefundUnsettledVerifierStakes /\ ResetQuorumVoteState

\* In single-shot mode milestone 1 follows the escrow (_syncMs0Submit and
\* its like); in milestone mode the escrow-level functions leave it alone.
SyncMilestone(m) == IF Single THEN [milestones EXCEPT ![1] = m] ELSE milestones

-----------------------------------------------------------------------------
(* Funding and stakes.                                                     *)

\* Both ways of funding; the token path reverts on a short receipt.
AcceptFunding ==
    /\ ~frozen
    /\ status = "Created"
    /\ status' = "Funded"
    /\ Receive(Amount)
    /\ UNCHANGED <<now, frozen, outcomes>>
    /\ UNCHANGED <<voteVars, stakeVars, workerVars, singleVars, msVars>>

Fund == AcceptFunding

\* A signed EIP-3009 authorisation of the buyer, submitted by anybody.
FundWithAuthorization == IsToken /\ AcceptFunding

CancelBeforeFunding ==
    /\ status = "Created"
    /\ status' = "Cancelled"
    /\ UNCHANGED <<now, frozen, outcomes>>
    /\ UNCHANGED <<voteVars, stakeVars, workerVars, singleVars, msVars, fundVars>>

DepositStake ==
    /\ ~frozen
    /\ status = "Funded"
    /\ WorkerStake > 0
    /\ ~workerStaked
    /\ workerStaked' = TRUE
    /\ Receive(WorkerStake)
    /\ UNCHANGED <<now, status, frozen, outcomes, activeWorker, backupActivated,
                   deadlineExtensionApplied>>
    /\ UNCHANGED <<voteVars, stakeVars, singleVars, msVars>>

\* Verifiers may stake from funding until the review ends.
BuggyStakingOpen == status # "Created"
StakingOpen == status \in {"Funded", "Submitted"}

DepositVerifierStake(v) ==
    /\ ~frozen
    /\ VerifierStake > 0
    /\ ~quorumStaked[v]
    /\ StakingOpen
    /\ quorumStaked' = [quorumStaked EXCEPT ![v] = TRUE]
    /\ quorumStakeCount' = quorumStakeCount + 1
    /\ Receive(VerifierStake)
    /\ UNCHANGED <<now, status, frozen, outcomes, withdrawable, owed>>
    /\ UNCHANGED <<voteVars, workerVars, singleVars, msVars>>

\* withdrawStake: open to every claimant in every state, frozen or not.
WithdrawStake(c) ==
    /\ withdrawable[c] > 0
    /\ Accepts(c)
    /\ withdrawable[c] <= balance
    /\ withdrawable' = [withdrawable EXCEPT ![c] = 0]
    /\ owed' = owed - withdrawable[c]
    /\ balance' = balance - withdrawable[c]
    /\ UNCHANGED <<now, status, frozen, outcomes, paid, quorumStaked, quorumStakeCount>>
    /\ UNCHANGED <<voteVars, workerVars, singleVars, msVars>>

-----------------------------------------------------------------------------
(* The single-shot lifecycle.                                              *)

\* The worker's bond, when one is required, must be in.
BondInPlace == WorkerStake > 0 => workerStaked

Submit(proof) ==
    /\ ~frozen
    /\ status = "Funded"
    /\ Single
    /\ now <= EffectiveDeadline
    /\ BondInPlace
    /\ status' = "Submitted"
    /\ submittedAt' = now
    /\ proofHash' = proof
    /\ milestones' = SyncMilestone([milestones[1] EXCEPT
                       !.submittedAt = now, !.proofHash = proof, !.status = "Submitted"])
    /\ UNCHANGED <<now, frozen, outcomes, disputedAt, currentMilestone>>
    /\ UNCHANGED <<voteVars, stakeVars, workerVars, fundVars>>

\* _setSingleDisputed.
SetSingleDisputed ==
    /\ status' = "Disputed"
    /\ disputedAt' = now
    /\ milestones' = SyncMilestone([milestones[1] EXCEPT
                       !.disputedAt = now, !.status = "Disputed"])
    /\ UNCHANGED <<submittedAt, proofHash, currentMilestone, outcomes>>
    /\ UNCHANGED fundVars

\* _approve and _settleApproved: pay the worker and the treasury and close.
Approve ==
    /\ Accepts(activeWorker)                  \* sent its net even when that is 0
    /\ now <= ReviewEnds(submittedAt)
    /\ status' = "Settled"
    /\ milestones' = SyncMilestone([milestones[1] EXCEPT !.status = "Approved"])
    /\ LET s == SettleApproved(Amount, FeeBps)
       IN  Pay(s.workerNet + HeldStake, 0, s.fee)
    /\ RecordOutcome("completed")
    /\ UNCHANGED <<singleVars, currentMilestone>>

\* _settleResolved: the award splits the amount and the bond alike.
SettleWithAward(bps) ==
    LET s == SettleResolved(Amount, bps, FeeBps)
        r == StakeReturn(HeldStake, bps)
    IN  /\ status' = "Settled"
        /\ RefundUnsettledVerifierStakes
        /\ Pay(s.workerNet + r, s.buyerRefund + (HeldStake - r), s.fee)
        /\ RecordOutcome("disputed")

ApproveByBuyer ==
    /\ ~frozen
    /\ ~HighAssurance
    /\ status = "Submitted"
    /\ ExitReviewWithoutQuorum
    /\ Approve
    /\ UNCHANGED <<now, frozen>> /\ UNCHANGED workerVars

\* The buyer objects within the review and dispute windows.
Dispute ==
    /\ ~frozen
    /\ status = "Submitted"
    /\ now <= DisputeEnds(submittedAt)
    /\ ExitReviewWithoutQuorum
    /\ SetSingleDisputed
    /\ UNCHANGED <<now, frozen>> /\ UNCHANGED workerVars

\* The worker escalates once the review window has passed in silence.
EscalateSilence ==
    /\ ~frozen
    /\ status = "Submitted"
    /\ now > ReviewEnds(submittedAt)
    /\ now <= DisputeEnds(submittedAt)
    /\ ExitReviewWithoutQuorum
    /\ SetSingleDisputed
    /\ UNCHANGED <<now, frozen>> /\ UNCHANGED workerVars

\* Buyer, active worker or a verifier moves a stale review on.
ExpireNoQuorum ==
    /\ ~frozen
    /\ status = "Submitted"
    /\ now > DisputeEnds(submittedAt)
    /\ ExitReviewWithoutQuorum
    /\ SetSingleDisputed
    /\ UNCHANGED <<now, frozen>> /\ UNCHANGED workerVars

ResolveDispute(bps) ==
    /\ ~frozen
    /\ status = "Disputed"
    /\ milestones' = SyncMilestone([milestones[1] EXCEPT !.status = "Resolved"])
    /\ SettleWithAward(bps)
    /\ UNCHANGED <<now, frozen, currentMilestone>>
    /\ UNCHANGED <<voteVars, workerVars, singleVars>>

\* The whole amount and the bond go back to the buyer.
RefundInFull(outcome) ==
    /\ status' = "Refunded"
    /\ RefundUnsettledVerifierStakes
    /\ milestones' = SyncMilestone([milestones[1] EXCEPT !.status = "Cancelled"])
    /\ Pay(0, Amount + HeldStake, 0)
    /\ RecordOutcome(outcome)
    /\ UNCHANGED <<now, frozen, currentMilestone>>
    /\ UNCHANGED <<voteVars, workerVars, singleVars>>

\* Not blocked by a freeze, and not restricted to single-shot mode: the only
\* conditions are the escrow's status and its own deadline.
ClaimTimeoutRefund ==
    /\ status = "Funded"
    /\ now > EffectiveDeadline
    /\ RefundInFull("failed")

BuggyClaimArbitratorTimeout ==
    /\ ~frozen
    /\ status = "Disputed"
    /\ now > disputedAt + ArbitratorTimeout
    /\ RefundInFull("disputed")
ClaimArbitratorTimeout ==
    /\ status = "Disputed"
    /\ now > disputedAt + ArbitratorTimeout
    /\ RefundInFull("disputed")

BuggyActivateBackup ==  \* the modifier is missing
    /\ status = "Funded"
    /\ HasBackup
    /\ ~backupActivated
    /\ IF Single THEN now > EffectiveDeadline
       ELSE Current.status = "Pending" /\ now > Current.deadline
    /\ Pay(0, HeldStake, 0)
    /\ workerStaked' = FALSE
    /\ activeWorker' = "backup"
    /\ backupActivated' = TRUE
    /\ IF Single
       THEN /\ deadlineExtensionApplied' = deadlineExtensionApplied + BackupExtension
            /\ UNCHANGED milestones
       ELSE /\ milestones' = [milestones EXCEPT
                 ![currentMilestone].deadline = @ + BackupExtension]
            /\ UNCHANGED deadlineExtensionApplied
    /\ UNCHANGED <<now, status, frozen, outcomes, currentMilestone>>
    /\ UNCHANGED <<voteVars, stakeVars, singleVars>>

\* The buyer replaces a worker who missed the deadline: the bond is
\* forfeited and the deadline moves, that of the current milestone only.
ActivateBackup ==
    /\ ~frozen
    /\ status = "Funded"
    /\ HasBackup
    /\ ~backupActivated
    /\ IF Single THEN now > EffectiveDeadline
       ELSE Current.status = "Pending" /\ now > Current.deadline
    /\ Pay(0, HeldStake, 0)
    /\ workerStaked' = FALSE
    /\ activeWorker' = "backup"
    /\ backupActivated' = TRUE
    /\ IF Single
       THEN /\ deadlineExtensionApplied' = deadlineExtensionApplied + BackupExtension
            /\ UNCHANGED milestones
       ELSE /\ milestones' = [milestones EXCEPT
                 ![currentMilestone].deadline = @ + BackupExtension]
            /\ UNCHANGED deadlineExtensionApplied
    /\ UNCHANGED <<now, status, frozen, outcomes, currentMilestone>>
    /\ UNCHANGED <<voteVars, stakeVars, singleVars>>

-----------------------------------------------------------------------------
(* Verifier votes.                                                         *)

\* The eligibility half of _recordQuorumVote.
MayVote(v) ==
    /\ quorumVote[v] = "none"
    /\ VerifierStake > 0 => quorumStaked[v]

\* The votes and the two counts once v has voted.
VotesWith(v, vote) == [quorumVote EXCEPT ![v] = vote]
ApprovalsWith(vote) == quorumApproveCount + (IF vote = "approve" THEN 1 ELSE 0)
RejectionsWith(vote) == quorumRejectCount + (IF vote = "reject" THEN 1 ELSE 0)

RecordVote(v, vote) ==
    /\ quorumVote' = VotesWith(v, vote)
    /\ quorumApproveCount' = ApprovalsWith(vote)
    /\ quorumRejectCount' = RejectionsWith(vote)

\* Whether this vote reaches a threshold; approval is tested first.
QuorumApproves(vote) == ApprovalsWith(vote) >= QuorumThreshold
QuorumRejects(vote)  == /\ ~QuorumApproves(vote)
                        /\ RejectionsWith(vote) >= QuorumRejectThreshold

\* The vote that reaches the approval threshold settles the escrow.  No
\* stake is left for _settleApproved's own refund to move.
QuorumApprove(v, vote) ==
    /\ QuorumApproves(vote)
    /\ RecordVote(v, vote)
    /\ SettleVerifierStakes(VotesWith(v, vote), "approve")
    /\ Approve

\* The vote that makes an approval impossible opens a dispute.
QuorumReject(v, vote) ==
    /\ QuorumRejects(vote)
    /\ SettleVerifierStakes(VotesWith(v, vote), "reject")
    /\ SetSingleDisputed
    /\ ResetQuorumVoteState

VoteOnly(v, vote) ==
    /\ ~QuorumApproves(vote) /\ ~QuorumRejects(vote)
    /\ RecordVote(v, vote)
    /\ UNCHANGED <<status, outcomes>>
    /\ UNCHANGED <<stakeVars, singleVars, msVars, fundVars>>

CastSingleVote(v, vote) ==
    /\ ~frozen
    /\ status = "Submitted"
    /\ now <= ReviewEnds(submittedAt)
    /\ MayVote(v)
    /\ QuorumApprove(v, vote) \/ QuorumReject(v, vote) \/ VoteOnly(v, vote)
    /\ UNCHANGED <<now, frozen>> /\ UNCHANGED workerVars

CastVerifierVote(v) == \E vote \in {"approve", "reject"} : CastSingleVote(v, vote)

\* An approval backed by a proof that matches the submission's commitment
\* and that the verifier contract accepts.
VerifyAndApprove(v) ==
    /\ HasZKVerifier
    /\ proofHash
    /\ CastSingleVote(v, "approve")

-----------------------------------------------------------------------------
(* Milestone mode.                                                         *)

\* The milestones once the current one is in the given status.
WithStatus(s) == [milestones EXCEPT ![currentMilestone].status = s]

\* What the worker has earned of all the milestones, for the bond's split.
WorkerAwarded(ms) ==
    SumFunction([i \in Indices |->
        CASE ms[i].status = "Approved" -> MilestoneAmounts[i]
          [] ms[i].status = "Resolved" -> BpsOf(MilestoneAmounts[i], ms[i].awardBps)
          [] OTHER -> 0])

\* _settleWorkerStake: the part of the bond that returns to the worker.
WorkerStakeReturn(ms) ==
    IF WorkerAwarded(ms) = Amount THEN HeldStake
    ELSE (HeldStake * WorkerAwarded(ms)) \div Amount

\* _checkMilestonesTerminal, where "none" stands for the outcome 0.
AllTerminal(ms) == \A i \in Indices : ms[i].status \in MilestoneTerminal
BuggyFinalOutcome(ms) ==
    LET seen == {ms[i].status : i \in Indices}
    IN  CASE ~AllTerminal(ms)   -> "none"
          [] "Approved" \in seen -> "completed"
          [] OTHER               -> "failed"
FinalOutcome(ms) ==
    LET seen == {ms[i].status : i \in Indices}
    IN  IF ~AllTerminal(ms) THEN "none"
        ELSE IF seen = {"Approved"} THEN "completed"
        ELSE IF seen = {"Cancelled"} THEN "failed" ELSE "disputed"

\* _advanceCurrentMilestone: the first milestone at or after the current one
\* that is still open, or their number.
NextMilestone == IF currentMilestone < MilestoneCount
                 THEN currentMilestone + 1 ELSE currentMilestone

\* Pay the current milestone out and, in ms, move on to the next one
\* (_advanceMilestone); the last one settles the bond and the escrow.
AdvanceMilestone(ms, toWorker, toBuyer, toTreasury) ==
    /\ milestones' = ms
    /\ currentMilestone' = NextMilestone
    /\ IF AllTerminal(ms)
       THEN /\ Pay(toWorker + WorkerStakeReturn(ms),
                   toBuyer + (HeldStake - WorkerStakeReturn(ms)), toTreasury)
            /\ status' = "Settled"
            /\ RecordOutcome(FinalOutcome(ms))
       ELSE /\ Pay(toWorker, toBuyer, toTreasury)
            /\ UNCHANGED <<status, outcomes>>
    /\ UNCHANGED <<now, frozen>> /\ UNCHANGED <<workerVars, singleVars>>

SubmitMilestone(proof) ==
    /\ ~frozen
    /\ MultiFunded
    /\ BondInPlace
    /\ Current.status = "Pending"
    /\ now <= Current.deadline
    /\ milestones' = [milestones EXCEPT ![currentMilestone] =
                        [@ EXCEPT !.submittedAt = now, !.proofHash = proof,
                                  !.status = "Submitted"]]
    /\ UNCHANGED <<now, status, frozen, outcomes, currentMilestone>>
    /\ UNCHANGED <<voteVars, stakeVars, workerVars, singleVars, fundVars>>

\* The current milestone is under review.
MilestoneInReview == MultiFunded /\ Current.status = "Submitted"

\* _setMilestoneDisputed.
SetMilestoneDisputed ==
    /\ milestones' = [milestones EXCEPT ![currentMilestone] =
                        [@ EXCEPT !.disputedAt = now, !.status = "Disputed"]]
    /\ UNCHANGED <<now, status, frozen, outcomes, currentMilestone>>
    /\ UNCHANGED <<workerVars, singleVars, fundVars>>

\* _approveMilestone, _doMsApprovedSettle and _advanceMilestone.
ApproveMilestone ==
    /\ Accepts(activeWorker)
    /\ now <= ReviewEnds(Current.submittedAt)
    /\ LET s == SettleApproved(MilestoneAmounts[currentMilestone], FeeBps)
       IN  AdvanceMilestone(WithStatus("Approved"), s.workerNet, 0, s.fee)

BuggyApproveMilestoneAnyTier ==
    /\ ~frozen
    /\ MilestoneInReview
    /\ ExitReviewWithoutQuorum
    /\ ApproveMilestone
ApproveMilestoneByBuyer ==
    /\ ~frozen
    /\ ~HighAssurance
    /\ MilestoneInReview
    /\ ExitReviewWithoutQuorum
    /\ ApproveMilestone

DisputeMilestone ==
    /\ ~frozen
    /\ MilestoneInReview
    /\ now <= DisputeEnds(Current.submittedAt)
    /\ ExitReviewWithoutQuorum
    /\ SetMilestoneDisputed

EscalateMilestoneSilence ==
    /\ ~frozen
    /\ MilestoneInReview
    /\ now > ReviewEnds(Current.submittedAt)
    /\ now <= DisputeEnds(Current.submittedAt)
    /\ ExitReviewWithoutQuorum
    /\ SetMilestoneDisputed

BuggyExpireMilestoneNoQuorum ==
    /\ ~frozen
    /\ MilestoneInReview
    /\ quorumApproveCount + quorumRejectCount > 0
    /\ now > DisputeEnds(Current.submittedAt)
    /\ ExitReviewWithoutQuorum
    /\ SetMilestoneDisputed
ExpireMilestoneNoQuorum ==
    /\ ~frozen
    /\ MilestoneInReview
    /\ now > DisputeEnds(Current.submittedAt)
    /\ ExitReviewWithoutQuorum
    /\ SetMilestoneDisputed

\* _castMilestoneVote: the votes are cleared whenever the cycle ends.
CastMilestoneVote(v, vote) ==
    /\ ~frozen
    /\ MilestoneInReview
    /\ now <= ReviewEnds(Current.submittedAt)
    /\ MayVote(v)
    /\ \/ /\ QuorumApproves(vote)
          /\ SettleVerifierStakes(VotesWith(v, vote), "approve")
          /\ ApproveMilestone
          /\ ResetQuorumVoteState
       \/ /\ QuorumRejects(vote)
          /\ SettleVerifierStakes(VotesWith(v, vote), "reject")
          /\ SetMilestoneDisputed
          /\ ResetQuorumVoteState
       \/ /\ VoteOnly(v, vote)
          /\ UNCHANGED <<now, frozen>> /\ UNCHANGED workerVars

CastMilestoneVerifierVote(v) ==
    \E vote \in {"approve", "reject"} : CastMilestoneVote(v, vote)

VerifyAndApproveMilestone(v) ==
    /\ HasZKVerifier
    /\ Current.proofHash
    /\ CastMilestoneVote(v, "approve")

BuggyResolveMilestoneDispute(bps) ==  \* the modifier is missing
    /\ MultiFunded
    /\ Current.status = "Disputed"
    /\ RefundUnsettledVerifierStakes
    /\ LET s == SettleResolved(MilestoneAmounts[currentMilestone], bps, FeeBps)
       IN  AdvanceMilestone([WithStatus("Resolved") EXCEPT
                               ![currentMilestone].awardBps = bps],
                            s.workerNet, s.buyerRefund, s.fee)
    /\ UNCHANGED voteVars
\* resolveMilestoneDispute.
ResolveMilestoneDispute(bps) ==
    /\ ~frozen
    /\ MultiFunded
    /\ Current.status = "Disputed"
    /\ RefundUnsettledVerifierStakes
    /\ LET s == SettleResolved(MilestoneAmounts[currentMilestone], bps, FeeBps)
       IN  AdvanceMilestone([WithStatus("Resolved") EXCEPT
                               ![currentMilestone].awardBps = bps],
                            s.workerNet, s.buyerRefund, s.fee)
    /\ UNCHANGED voteVars

\* Both timeout claims cancel the current milestone, frozen or not.
CancelCurrentMilestone ==
    /\ Accepts("buyer")
    /\ RefundUnsettledVerifierStakes
    /\ AdvanceMilestone(WithStatus("Cancelled"), 0,
                        MilestoneAmounts[currentMilestone], 0)
    /\ UNCHANGED voteVars

ClaimMilestoneTimeoutRefund ==
    /\ MultiFunded
    /\ Current.status = "Pending"
    /\ now > Current.deadline
    /\ CancelCurrentMilestone

ClaimMilestoneArbitratorTimeout ==
    /\ MultiFunded
    /\ Current.status = "Disputed"
    /\ now > Current.disputedAt + ArbitratorTimeout
    /\ CancelCurrentMilestone

\* abortRemainingMilestones: after a failed milestone the buyer takes back
\* the pending ones.  If the current one is under review or in dispute the
\* outcome is none of the three, and the factory's refusal reverts the call.
AbortRemainingMilestones ==
    LET open == {i \in Indices : i >= currentMilestone /\ milestones[i].status = "Pending"}
        ms   == [i \in Indices |-> IF i \in open
                   THEN [milestones[i] EXCEPT !.status = "Cancelled"]
                   ELSE milestones[i]]
    IN  /\ ~frozen
        /\ MultiFunded
        /\ \E i \in {currentMilestone - 1, currentMilestone} \cap Indices :
              milestones[i].status \in {"Resolved", "Cancelled"}
        /\ milestones' = ms
        /\ RefundUnsettledVerifierStakes
        /\ Pay(WorkerStakeReturn(ms),
               SumFunctionOnSet(MilestoneAmounts, open)
                 + (HeldStake - WorkerStakeReturn(ms)), 0)
        /\ status' = "Refunded"
        /\ RecordOutcome(FinalOutcome(ms))
        /\ UNCHANGED <<now, frozen, currentMilestone>>
        /\ UNCHANGED <<voteVars, workerVars, singleVars>>

-----------------------------------------------------------------------------
(* Emergency control, through the factory's owner.                         *)

SetFrozen ==
    /\ frozen' = ~frozen
    /\ UNCHANGED <<now, status, outcomes>>
    /\ UNCHANGED <<voteVars, stakeVars, workerVars, singleVars, msVars, fundVars>>

EmergencyCancel ==
    /\ status = "Created"
    /\ status' = "Cancelled"
    /\ UNCHANGED <<now, frozen, outcomes>>
    /\ UNCHANGED <<voteVars, stakeVars, workerVars, singleVars, msVars, fundVars>>

\* A single-shot escrow settles like a dispute; milestone 1 is not synced.
EmergencySettle(bps) ==
    /\ Single
    /\ status \in {"Funded", "Submitted", "Disputed"}
    /\ SettleWithAward(bps)
    /\ UNCHANGED <<now, frozen>>
    /\ UNCHANGED <<voteVars, workerVars, singleVars, msVars>>

\* _emergencySettleMilestones: every open milestone is resolved at bps.
EmergencySettleMilestones(bps) ==
    LET open == {i \in Indices : milestones[i].status \notin MilestoneTerminal}
        ms   == [i \in Indices |-> IF i \in open
                   THEN [milestones[i] EXCEPT !.status = "Resolved", !.awardBps = bps]
                   ELSE milestones[i]]
        s(i) == SettleResolved(MilestoneAmounts[i], bps, FeeBps)
    IN  /\ MultiFunded
        /\ RefundUnsettledVerifierStakes
        /\ milestones' = ms
        /\ Pay(SumFunction([i \in open |-> s(i).workerNet]) + WorkerStakeReturn(ms),
               SumFunction([i \in open |-> s(i).buyerRefund])
                 + (HeldStake - WorkerStakeReturn(ms)),
               SumFunction([i \in open |-> s(i).fee]))
        /\ status' = "Settled"
        /\ RecordOutcome("disputed")
        /\ UNCHANGED <<now, frozen, currentMilestone>>
        /\ UNCHANGED <<voteVars, workerVars, singleVars>>

\* The factory forwards an emergency resolve only to a frozen escrow.
EmergencyResolve(bps) ==
    /\ frozen
    /\ EmergencyCancel \/ EmergencySettle(bps) \/ EmergencySettleMilestones(bps)

-----------------------------------------------------------------------------
(* Time and the specification.                                             *)

Tick ==
    /\ now < MaxTime
    /\ now' = now + 1
    /\ UNCHANGED <<status, frozen, outcomes>>
    /\ UNCHANGED <<voteVars, stakeVars, workerVars, singleVars, msVars, fundVars>>

SingleShotNext ==
    \/ \E proof \in BOOLEAN : Submit(proof)
    \/ \E v \in Verifiers : CastVerifierVote(v) \/ VerifyAndApprove(v)
    \/ \E bps \in Awards : ResolveDispute(bps)
    \/ ApproveByBuyer
    \/ Dispute
    \/ EscalateSilence
    \/ ExpireNoQuorum
    \/ ClaimArbitratorTimeout

MilestoneNext ==
    \/ \E proof \in BOOLEAN : SubmitMilestone(proof)
    \/ \E v \in Verifiers : CastMilestoneVerifierVote(v) \/ VerifyAndApproveMilestone(v)
    \/ \E bps \in Awards : ResolveMilestoneDispute(bps)
    \/ ApproveMilestoneByBuyer
    \/ DisputeMilestone
    \/ EscalateMilestoneSilence
    \/ ExpireMilestoneNoQuorum
    \/ ClaimMilestoneTimeoutRefund
    \/ ClaimMilestoneArbitratorTimeout
    \/ AbortRemainingMilestones

CommonNext ==
    \/ Fund
    \/ FundWithAuthorization
    \/ CancelBeforeFunding
    \/ DepositStake
    \/ \E v \in Verifiers : DepositVerifierStake(v)
    \/ \E c \in Claimants : WithdrawStake(c)
    \/ ClaimTimeoutRefund
    \/ ActivateBackup
    \/ SetFrozen
    \/ \E bps \in Awards : EmergencyResolve(bps)
    \/ Tick

Next == CommonNext \/ SingleShotNext \/ MilestoneNext

Spec == Init /\ [][Next]_vars

-----------------------------------------------------------------------------
(* What is promised.  Section numbers are those of src/docs/SPEC.md.       *)

Open == status \in {"Funded", "Submitted", "Disputed"}
InReview == status = "Submitted" \/ MilestoneInReview
Voters == {v \in Verifiers : quorumVote[v] # "none"}

\* The principal nobody has received yet.
Undistributed ==
    SumFunctionOnSet(MilestoneAmounts,
          {i \in Indices : milestones[i].status \notin MilestoneTerminal})
Principal == IF Open THEN IF Single THEN Amount ELSE Undistributed ELSE 0

\* A milestone escrow ended by claimTimeoutRefund, which ignores milestones.
LumpRefund == ~Single /\ status = "Refunded" /\ ~AllTerminal(milestones)

\* Every variable stays in its range (types of the storage fields).
ControlTypeOK ==
    /\ now \in 0..MaxTime
    /\ status \in Status
    /\ frozen \in BOOLEAN
    /\ activeWorker \in {"worker", "backup"}
    /\ backupActivated \in BOOLEAN
    /\ deadlineExtensionApplied \in Nat
    /\ workerStaked \in BOOLEAN
    /\ submittedAt \in Nat
    /\ disputedAt \in Nat
    /\ proofHash \in BOOLEAN
    /\ milestones \in [Indices -> Milestone]
    /\ currentMilestone \in Indices
    /\ outcomes \in Seq(Outcome)
QuorumTypeOK ==
    /\ quorumVote \in [Verifiers -> Vote]
    /\ quorumApproveCount \in Nat
    /\ quorumRejectCount \in Nat
    /\ quorumStaked \in [Verifiers -> BOOLEAN]
    /\ quorumStakeCount \in Nat
    /\ withdrawable \in [Claimants -> Nat]
    /\ owed \in Int
FundsTypeOK ==
    /\ balance \in Nat
    /\ paid \in [Payees -> Nat]
TypeOK == ControlTypeOK /\ QuorumTypeOK /\ FundsTypeOK

\* What the contract holds, and for whom.
BalanceAccounted ==
    balance = Principal + (IF Open THEN HeldStake ELSE 0)
                + quorumStakeCount * VerifierStake + owed
OwedIsWithdrawable == owed = SumFunction(withdrawable)

\* Section 6, invariants 1, 3, 8 and 9: the contract holds exactly the
\* undistributed principal, the worker's bond, the verifier stakes and what
\* is still to be withdrawn, so no path pays anything twice or strands it.
Conservation == ~LumpRefund => BalanceAccounted /\ OwedIsWithdrawable

\* The counters the thresholds are tested on agree with the votes and the
\* stakes they summarise, through every reset and settlement.
CountersAgree ==
    /\ quorumApproveCount = Cardinality({v \in Verifiers : quorumVote[v] = "approve"})
    /\ quorumRejectCount = Cardinality({v \in Verifiers : quorumVote[v] = "reject"})
    /\ quorumStakeCount = Cardinality(Staked)

\* Votes belong to one review: outside a review an open escrow has none, so
\* none leaks into the next milestone's review; within one, neither
\* threshold has been reached without the escrow acting on it.
VotesBelongToReview ==
    /\ Open /\ ~InReview => Voters = {}
    /\ InReview => /\ quorumApproveCount < QuorumThreshold
                   /\ quorumRejectCount < QuorumRejectThreshold

\* While a review is undecided every vote has its stake behind it.
VotersAreStaked == InReview /\ VerifierStake > 0 => Voters \subseteq Staked

\* A vote counts only in the review it was cast in, and only with a stake that
\* its verifier may lose (_recordQuorumVote, _resetQuorumVoteState).
VotesInForce == VotesBelongToReview /\ VotersAreStaked

\* Section 6, invariant 9: no verifier stake is left inside a closed escrow.
NoStrandedStake == status \in Terminal => Staked = {} /\ quorumStakeCount = 0

\* Section 6, invariant 7: milestones finish in order, the current one is
\* never finished, and later ones are untouched.
MilestonesInOrder ==
    status = "Funded" /\ ~Single =>
        \A i \in Indices :
            /\ i < currentMilestone => milestones[i].status \in MilestoneTerminal
            /\ i = currentMilestone => milestones[i].status \notin MilestoneTerminal
            /\ i > currentMilestone => milestones[i].status = "Pending"

\* Section 8: one outcome is recorded for an escrow that closes after it was
\* funded, none otherwise; "completed" means every milestone was approved
\* and "failed" that the worker's side was paid nothing.
OutcomeTruthful ==
    /\ Len(outcomes) = (IF status \in {"Settled", "Refunded"} THEN 1 ELSE 0)
    /\ outcomes = <<"completed">> => \A i \in Indices : milestones[i].status = "Approved"
    /\ outcomes = <<"failed">> /\ ~LumpRefund =>
         \A p \in Payees \ {"buyer"} : paid[p] = 0

\* Section 6, invariant 2: a closed escrow stays closed, its record stays
\* what it was, and neither the principal nor a bond is paid again.
ClosedForGood ==
    [][(status \in Terminal) =>
         UNCHANGED <<status, milestones, outcomes, paid, activeWorker, workerStaked>>]_vars

\* Section 7: while frozen nothing reaches the worker's side or the treasury,
\* except at a closing that records a dispute: the emergency resolution, or
\* the last timeout claim of a partly paid escrow, which settles the bond.
FrozenPaysOnlyBuyer ==
    [][frozen /\ outcomes' # Append(outcomes, "disputed") =>
         \A p \in Payees \ {"buyer"} : paid'[p] = paid[p]]_vars

\* Section 9a: in the high-assurance tier only the vote that completes the
\* quorum approves anything.
HighAssuranceNeedsQuorum ==
    [][\A i \in Indices :
         HighAssurance /\ milestones[i].status # "Approved"
                       /\ milestones'[i].status = "Approved"
           => quorumApproveCount + 1 >= QuorumThreshold]_vars

\* Section 5: a verifier whose stake leaves the contract's hold without
\* becoming withdrawable voted, and the quorum went the other way.
ForfeitOnlyWhenOutvoted ==
    [][\A v \in Verifiers :
         quorumStaked[v] /\ ~quorumStaked'[v] /\ withdrawable'[v] = withdrawable[v] =>
           \/ quorumVote[v] = "reject" /\ quorumApproveCount + 1 >= QuorumThreshold
           \/ quorumVote[v] = "approve"
                /\ quorumRejectCount + 1 >= QuorumRejectThreshold]_vars

\* The life of the contract as the factory sees it.
LifeNow ==
    [phase   |-> IF status = "Created" THEN "Created" ELSE IF Open THEN "Open" ELSE "Closed",
     frozen  |-> frozen,
     backup  |-> backupActivated,
     outcome |-> IF outcomes = <<>> THEN "none" ELSE outcomes[1]]

Lifecycle == INSTANCE EscrowLifecycle WITH life <- LifeNow

\* Sections 3, 6 and 8: every step of the contract is a step of the abstract
\* lifecycle or leaves it alone: no closing without exactly one outcome, no
\* success while frozen, no second backup, no life after the end.
ImplementsLifecycle == Lifecycle!Spec

\* Section 6, invariant 3, as documented: what leaves the principal and the
\* bonds is bounded by what went in.  claimTimeoutRefund breaks it.
PaidWithinDeposit == SumFunction(paid) <= Amount + WorkerStake

\* The exits that need nobody but the buyer, once a deadline has passed.
BuyerExits ==
    \/ ClaimTimeoutRefund \/ ExpireNoQuorum \/ ClaimArbitratorTimeout
    \/ ClaimMilestoneTimeoutRefund \/ ExpireMilestoneNoQuorum
    \/ ClaimMilestoneArbitratorTimeout

\* A buyer who uses an exit before more time passes, and no thawing.  The
\* other parties act or not, as they like.
DiligentNext ==
    \/ SingleShotNext \/ MilestoneNext
    \/ CommonNext /\ (frozen => frozen') /\ (now' # now => ~ENABLED BuyerExits)

DiligentSpec ==
    /\ Init /\ [][DiligentNext]_vars
    /\ WF_vars(Tick /\ ~ENABLED BuyerExits)
    /\ WF_vars(BuyerExits)

\* Sections 2 and 10: silence of worker, verifiers and arbitrator never
\* locks the funds of a diligent buyer; only a freeze can hold them.
BuyerRecovers == Open ~> (~Open \/ frozen)

\* Section 7: a freeze does not take the timeout claims away.
FrozenBuyerRecovers ==
    (frozen /\ Open /\ ~InReview) ~> ~Open
=============================================================================
