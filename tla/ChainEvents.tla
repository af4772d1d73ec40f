---------------------------- MODULE ChainEvents ----------------------------
\* The logs one escrow and its factory leave on the chain, transaction by
\* transaction: what the server's indexer has to go by.  The contracts
\* themselves are TaskEscrow and TaskEscrowFactory; here a transaction is its
\* effect on the little of their state the database projects, and the events it
\* emits, in the order of the emit statements.  One transaction fills a block.
EXTENDS Naturals, Sequences, SequencesExt

CONSTANTS
    Transactions,   \* the kinds of transaction that are sent, a subset of TxKinds
    MilestoneCounts, \* how many milestones the escrow may have, 1 for single-shot
    MaxBlocks        \* bound: blocks mined

TxKinds == {"create", "fund", "stake", "cancel", "submit", "approve", "dispute",
            "silence", "resolve", "timeout", "backup", "freeze", "unfreeze",
            "emergency", "abort", "idle", "bar", "unbar"}

ASSUME ChainAssumption == /\ Transactions \subseteq TxKinds
                          /\ MilestoneCounts \subseteq Nat \ {0}
                          /\ MaxBlocks \in Nat

VARIABLES
    onchain,   \* the escrow: status, frozen, staked, backup, number of milestones,
               \* the current one and its status, whether the one before failed;
               \* and whether the watched address is frozen at the factory
    log,       \* every log so far; a log's place in it stands for its
               \* transaction hash and log index
    head       \* the number of the newest block

chainVars == <<onchain, log, head>>

Closed == {"settled", "refunded", "cancelled"}

Escrow(name, arg)  == [from |-> "escrow", name |-> name, arg |-> arg]
Factory(name, arg) == [from |-> "factory", name |-> name, arg |-> arg]

\* recordOutcome reports the worker, the buyer, and a worker who was replaced.
Outcome == <<Factory("OutcomeRecorded", "worker"), Factory("OutcomeRecorded", "buyer")>>
             \o IF onchain.backup THEN <<Factory("OutcomeRecorded", "replaced")>> ELSE <<>>

ChainInit ==
    /\ onchain = [status |-> "none", frozen |-> FALSE, staked |-> FALSE, backup |-> FALSE,
                  count |-> 0, ms |-> 0, msStatus |-> "pending", failed |-> FALSE, barred |-> FALSE]
    /\ log = <<>>
    /\ head = 0

\* A transaction of kind t is mined: its events enter the log, in a new block.
Mined(t, events, after) ==
    /\ t \in Transactions
    /\ head < MaxBlocks
    /\ head' = head + 1
    /\ log' = log \o [i \in 1..Len(events) |->
                        [block |-> head + 1, from |-> events[i].from,
                         name |-> events[i].name, arg |-> events[i].arg]]
    /\ onchain' = after

To(status) == [onchain EXCEPT !.status = status]

Create ==
    /\ onchain.status = "none"
    /\ \E n \in MilestoneCounts :
          Mined("create", <<Factory("EscrowCreated", "")>>,
                [onchain EXCEPT !.status = "created", !.count = n])

Fund ==
    /\ onchain.status = "created" /\ ~onchain.frozen
    /\ Mined("fund", <<Escrow("EscrowFunded", "")>>, To("funded"))

Cancel ==
    /\ onchain.status = "created"
    /\ Mined("cancel", <<Escrow("Cancelled", "")>>, To("cancelled"))

DepositStake ==
    /\ onchain.status = "funded" /\ ~onchain.frozen /\ ~onchain.staked
    /\ Mined("stake", <<Escrow("WorkerStakeDeposited", "")>>, [onchain EXCEPT !.staked = TRUE])

\* The stake of the worker who is replaced goes to the buyer.
ActivateBackup ==
    /\ onchain.status = "funded" /\ onchain.msStatus = "pending"
    /\ ~onchain.frozen /\ ~onchain.backup
    /\ Mined("backup", <<Escrow("BackupActivated", "")>>,
             [onchain EXCEPT !.backup = TRUE, !.staked = FALSE])

-----------------------------------------------------------------------------
\* The single-shot lifecycle.

Submit ==
    /\ onchain.count = 1 /\ onchain.status = "funded" /\ ~onchain.frozen
    /\ Mined("submit", <<Escrow("SubmissionMade", "")>>, To("submitted"))

Approve ==
    /\ onchain.count = 1 /\ onchain.status = "submitted" /\ ~onchain.frozen
    /\ Mined("approve", <<Escrow("Approved", ""), Escrow("Settled", "")>> \o Outcome, To("settled"))

Dispute ==
    /\ onchain.count = 1 /\ onchain.status = "submitted" /\ ~onchain.frozen
    /\ Mined("dispute", <<Escrow("Disputed", "")>>, To("disputed"))

\* escalateSilence reports the silence and the dispute it opens.
EscalateSilence ==
    /\ onchain.count = 1 /\ onchain.status = "submitted" /\ ~onchain.frozen
    /\ Mined("silence", <<Escrow("SilenceEscalated", ""), Escrow("Disputed", "")>>, To("disputed"))

Resolve ==
    /\ onchain.count = 1 /\ onchain.status = "disputed" /\ ~onchain.frozen
    /\ Mined("resolve", <<Escrow("DisputeResolved", ""), Escrow("Settled", "")>> \o Outcome, To("settled"))

\* The timeout claims are open to a frozen escrow; the first asks for no
\* particular number of milestones.
ClaimTimeoutRefund ==
    /\ onchain.status = "funded"
    /\ Mined("timeout", <<Escrow("Refunded", "")>> \o Outcome, To("refunded"))

ClaimArbitratorTimeout ==
    /\ onchain.status = "disputed"
    /\ Mined("idle", <<Escrow("ArbitratorTimeoutClaimed", ""), Escrow("Refunded", "")>> \o Outcome,
             To("refunded"))

-----------------------------------------------------------------------------
\* The lifecycle of one milestone after another.

\* _settleWorkerStake emits Settled only where a stake was deposited.
StakeSettled == IF onchain.staked THEN <<Escrow("Settled", 0)>> ELSE <<>>

MilestoneTo(status) == [onchain EXCEPT !.msStatus = status]

\* A milestone closes; _advanceMilestone moves on, and closes the escrow with
\* the last one.
Advanced(t, events, failed) ==
    LET events2 == events \o <<Escrow("MilestoneSettled", onchain.ms)>>
    IN  IF onchain.ms + 1 < onchain.count
        THEN Mined(t, events2, [onchain EXCEPT !.ms = @ + 1, !.msStatus = "pending", !.failed = failed])
        ELSE Mined(t, events2 \o StakeSettled \o Outcome, To("settled"))

SubmitMilestone ==
    /\ onchain.count > 1 /\ onchain.status = "funded" /\ onchain.msStatus = "pending" /\ ~onchain.frozen
    /\ Mined("submit", <<Escrow("MilestoneSubmitted", onchain.ms)>>, MilestoneTo("submitted"))

ApproveMilestone ==
    /\ onchain.status = "funded" /\ onchain.msStatus = "submitted" /\ ~onchain.frozen
    /\ Advanced("approve", <<Escrow("MilestoneApproved", onchain.ms)>>, FALSE)

DisputeMilestone ==
    /\ onchain.status = "funded" /\ onchain.msStatus = "submitted" /\ ~onchain.frozen
    /\ Mined("dispute", <<Escrow("MilestoneDisputed", onchain.ms)>>, MilestoneTo("disputed"))

ResolveMilestone ==
    /\ onchain.status = "funded" /\ onchain.msStatus = "disputed" /\ ~onchain.frozen
    /\ Advanced("resolve", <<Escrow("MilestoneDisputeResolved", onchain.ms)>>, TRUE)

\* The current milestone was not submitted in time, or not decided in time.
ClaimMilestoneTimeout ==
    /\ onchain.count > 1 /\ onchain.status = "funded"
    /\ onchain.msStatus \in {"pending", "disputed"}
    /\ Advanced("idle", <<Escrow("MilestoneCancelled", onchain.ms)>>, TRUE)

\* The buyer takes back what is left after a milestone failed.
AbortRemainingMilestones ==
    /\ onchain.status = "funded" /\ onchain.failed /\ onchain.msStatus = "pending" /\ ~onchain.frozen
    /\ LET left == onchain.count - onchain.ms
       IN  Mined("abort", [i \in 1..left |-> Escrow("MilestoneCancelled", onchain.ms + i - 1)]
                          \o <<Escrow("RemainingMilestonesAborted", onchain.ms)>>
                          \o StakeSettled \o Outcome,
                 To("refunded"))

-----------------------------------------------------------------------------
\* The owner's emergency powers.

Freeze ==
    /\ onchain.status # "none" /\ ~onchain.frozen
    /\ Mined("freeze", <<Escrow("EmergencyFrozen", ""), Factory("EscrowFrozen", "")>>,
             [onchain EXCEPT !.frozen = TRUE])

Unfreeze ==
    /\ onchain.frozen
    /\ Mined("unfreeze", <<Escrow("EmergencyUnfrozen", ""), Factory("EscrowUnfrozen", "")>>,
             [onchain EXCEPT !.frozen = FALSE])

\* _emergencySettleMilestones: the milestones that are still open, and the stake.
MilestonesSettled ==
    [i \in 1..onchain.count - onchain.ms |-> Escrow("MilestoneSettled", onchain.ms + i - 1)] \o StakeSettled

EmergencyResolve ==
    /\ onchain.frozen /\ onchain.status \notin Closed
    /\ \/ /\ onchain.status = "created"
          /\ Mined("emergency", <<Escrow("Cancelled", ""), Factory("EmergencyResolved", "")>>, To("cancelled"))
       \/ /\ onchain.status # "created"
          /\ Mined("emergency",
                   <<Escrow("EmergencyResolved", "")>>
                      \o (IF onchain.count = 1 THEN <<Escrow("Settled", "")>> ELSE MilestonesSettled)
                      \o Outcome \o <<Factory("EmergencyResolved", "")>>,
                   To("settled"))

FreezeAddress ==
    /\ ~onchain.barred
    /\ Mined("bar", <<Factory("AddressFrozen", "")>>, [onchain EXCEPT !.barred = TRUE])

UnfreezeAddress ==
    /\ onchain.barred
    /\ Mined("unbar", <<Factory("AddressUnfrozen", "")>>, [onchain EXCEPT !.barred = FALSE])

Mine ==
    \/ Create \/ Fund \/ Cancel \/ DepositStake \/ ActivateBackup
    \/ Submit \/ Approve \/ Dispute \/ EscalateSilence \/ Resolve
    \/ ClaimTimeoutRefund \/ ClaimArbitratorTimeout \/ ClaimMilestoneTimeout
    \/ SubmitMilestone \/ ApproveMilestone \/ DisputeMilestone \/ ResolveMilestone
    \/ AbortRemainingMilestones
    \/ Freeze \/ Unfreeze \/ EmergencyResolve \/ FreezeAddress \/ UnfreezeAddress
=============================================================================
