------------------------- MODULE TaskEscrowFactory -------------------------
(***************************************************************************)
(* The factory, src/src/TaskEscrowFactory.sol, with the escrows it has     *)
(* deployed.  Each external function is one action; a guard is a check     *)
(* whose failure reverts the call.  Of an escrow only its life is kept     *)
(* (EscrowLife), and its own steps are interleaved with the factory's; the *)
(* step that closes it calls recordOutcome in the same transaction.        *)
(***************************************************************************)
EXTENDS EscrowLife, FiniteSets, Sequences, Integers, FiniteSetsExt

CONSTANTS
    Addresses,       \* the accounts, address(0) excluded
    Nobody,          \* address(0)
    Deployer,        \* the owner and treasury the factory is constructed with
    Casts,           \* the role assignments callers of createEscrow name
    Suspects,        \* the accounts the owner may freeze
    Heirs,           \* the accounts an owner may name owner or treasury
    TierChoices,     \* the service tiers they name
    Amounts,         \* the amounts they name, and the floors the owner sets
    FeeChoices,      \* the basis points the owner chooses from
    Windows,         \* the redelegation windows the owner chooses from
    MaxStreak,       \* type(uint16).max
    MaxEscrows,      \* bound on nextEscrowId
    Moving,          \* the escrows that take steps of their own
    MaxTime          \* bound on block.timestamp

VARIABLES
    now,                                    \* block.timestamp
    owner, pendingOwner, paused, treasury,
    protocolFeeBps, highAssuranceFeeBps, complexityFloor,
    redelegationSurchargeStepBps, redelegationMaxSurchargeBps,
    redelegationFrequencyWindowSeconds,
    frozenAddresses,
    escrows,              \* the registered escrows, escrow i of id i - 1
    redelegationFeeState, \* of each escrow: lastRedelegationAt and streak
    workerReputation, buyerReputation

ownerVars  == <<owner, pendingOwner, paused, treasury>>
feeVars    == <<protocolFeeBps, highAssuranceFeeBps>>
policyVars == <<redelegationSurchargeStepBps, redelegationMaxSurchargeBps,
                redelegationFrequencyWindowSeconds>>
repVars    == <<workerReputation, buyerReputation>>
vars == <<now, owner, pendingOwner, paused, treasury, protocolFeeBps,
          highAssuranceFeeBps, complexityFloor, redelegationSurchargeStepBps,
          redelegationMaxSurchargeBps, redelegationFrequencyWindowSeconds,
          frozenAddresses, escrows, redelegationFeeState, workerReputation,
          buyerReputation>>

BPS == 10000
Ids == 1..MaxEscrows
Tiers == {0, 1}                  \* TIER_LOW_ASSURANCE, TIER_HIGH_ASSURANCE
Cast == [buyer : Addresses, worker : Addresses, backup : Addresses \cup {Nobody},
         staff : SUBSET Addresses]      \* the arbitrator and the panel
Reputation == [Outcome -> Nat]
Escrow == [cast : Cast, tier : Tiers, feeBps : 0..BPS, parent : {0} \cup Ids, life : Life]

ASSUME AccountAssumption ==
    /\ Nobody \notin Addresses
    /\ Deployer \in Addresses
    /\ Casts \subseteq Cast
    /\ TierChoices \subseteq Nat
    /\ Suspects \subseteq Addresses
    /\ Heirs \subseteq Addresses
ASSUME ChoiceAssumption ==
    /\ Amounts \subseteq Nat
    /\ FeeChoices \subseteq Nat
    /\ Windows \subseteq Nat
ASSUME BoundAssumption ==
    /\ MaxStreak \in Nat \ {0}
    /\ MaxEscrows \in Nat
    /\ Moving \subseteq 1..MaxEscrows
    /\ MaxTime \in Nat \ {0}

Init ==
    /\ now = 1
    /\ owner = Deployer
    /\ pendingOwner = Nobody
    /\ paused = FALSE
    /\ treasury = Deployer
    /\ protocolFeeBps \in FeeChoices
    /\ highAssuranceFeeBps \in FeeChoices
    /\ highAssuranceFeeBps <= BPS
    /\ highAssuranceFeeBps >= protocolFeeBps
    /\ complexityFloor = 0
    /\ redelegationSurchargeStepBps = 0
    /\ redelegationMaxSurchargeBps = 0
    /\ redelegationFrequencyWindowSeconds = 0
    /\ frozenAddresses = {}
    /\ escrows = <<>>
    /\ redelegationFeeState = [i \in Ids |-> [last |-> 0, streak |-> 0]]
    /\ workerReputation = [a \in Addresses |-> [o \in Outcome |-> 0]]
    /\ buyerReputation = [a \in Addresses |-> [o \in Outcome |-> 0]]

Registered == 1..Len(escrows)

\* activeWorker() of a deployed escrow.
ActiveWorker(e) == IF e.life.backup THEN e.cast.backup ELSE e.cast.worker

-----------------------------------------------------------------------------
(* Creation.                                                               *)

\* FactoryLib.rolesCollide, negated.  Panel members are distinct by staff
\* being a set.
RolesDistinct(c) ==
    /\ c.buyer # c.worker
    /\ c.backup \notin {c.buyer, c.worker}
    /\ {c.buyer, c.worker, c.backup} \cap c.staff = {}

AnyFrozen(c) == ({c.buyer, c.worker, c.backup} \cup c.staff) \cap frozenAddresses # {}

\* A redelegation is frequent when it follows the parent's last one within
\* the window; a timestamp of 0 means there was none.
IsFrequent(parent) ==
    LET last == redelegationFeeState[parent].last
    IN  /\ last # 0
        /\ redelegationFrequencyWindowSeconds > 0
        /\ now <= last + redelegationFrequencyWindowSeconds

\* The streak, saturating at the width of its field.
BuggyNextStreak(parent) ==
    IF IsFrequent(parent) THEN (redelegationFeeState[parent].streak + 1) % (MaxStreak + 1)
    ELSE 0
NextStreak(parent) ==
    LET streak == redelegationFeeState[parent].streak
    IN  IF ~IsFrequent(parent) THEN 0
        ELSE IF streak < MaxStreak THEN streak + 1 ELSE MaxStreak

\* _computeRedelegationSurcharge applies to a child escrow under a policy
\* whose step and cap are both set; otherwise the parent's record stays.
PolicyOn == redelegationSurchargeStepBps # 0 /\ redelegationMaxSurchargeBps # 0
Surcharge(parent) ==
    IF parent = 0 \/ ~PolicyOn THEN 0
    ELSE LET raw == NextStreak(parent) * redelegationSurchargeStepBps
         IN  IF raw > redelegationMaxSurchargeBps THEN redelegationMaxSurchargeBps ELSE raw
NoteRedelegation(parent) ==
    IF parent = 0 \/ ~PolicyOn THEN UNCHANGED redelegationFeeState
    ELSE redelegationFeeState' = [redelegationFeeState EXCEPT
             ![parent] = [last |-> now, streak |-> NextStreak(parent)]]

BaseFee(tier) == IF tier = 1 THEN highAssuranceFeeBps ELSE protocolFeeBps
FeeSnapshot(tier, parent) == BaseFee(tier) + Surcharge(parent)

\* A child's buyer must be the one who is working on its parent.
MayDelegate(buyer, parent) ==
    parent # 0 => parent \in Registered /\ buyer = ActiveWorker(escrows[parent])

CreateEscrow(cast, amount, tier, parent) ==
    /\ Len(escrows) < MaxEscrows
    /\ ~paused
    /\ amount # 0
    /\ complexityFloor > 0 => amount >= complexityFloor
    /\ tier \in Tiers
    /\ ~AnyFrozen(cast)
    /\ RolesDistinct(cast)
    /\ MayDelegate(cast.buyer, parent)
    /\ FeeSnapshot(tier, parent) <= BPS
    /\ escrows' = Append(escrows, [cast |-> cast, tier |-> tier,
                    feeBps |-> FeeSnapshot(tier, parent), parent |-> parent,
                    life |-> Deployed])
    /\ NoteRedelegation(parent)
    /\ UNCHANGED <<now, complexityFloor, frozenAddresses>>
    /\ UNCHANGED <<ownerVars, feeVars, policyVars, repVars>>

-----------------------------------------------------------------------------
(* The owner's settings.                                                   *)

SetProtocolFeeBps(fee) ==
    /\ fee <= highAssuranceFeeBps
    /\ fee + redelegationMaxSurchargeBps <= BPS
    /\ protocolFeeBps' = fee
    /\ UNCHANGED <<now, highAssuranceFeeBps, complexityFloor, frozenAddresses,
                   escrows, redelegationFeeState>>
    /\ UNCHANGED <<ownerVars, policyVars, repVars>>

SetHighAssuranceFeeBps(fee) ==
    /\ fee >= protocolFeeBps
    /\ fee + redelegationMaxSurchargeBps <= BPS
    /\ highAssuranceFeeBps' = fee
    /\ UNCHANGED <<now, protocolFeeBps, complexityFloor, frozenAddresses,
                   escrows, redelegationFeeState>>
    /\ UNCHANGED <<ownerVars, policyVars, repVars>>

BuggySetRedelegationSurchargePolicy(step, max, window) ==  \* the lower fee is compared
    /\ step <= BPS
    /\ protocolFeeBps + max <= BPS
    /\ window = 0 => step = 0 /\ max = 0
    /\ redelegationSurchargeStepBps' = step
    /\ redelegationMaxSurchargeBps' = max
    /\ redelegationFrequencyWindowSeconds' = window
    /\ UNCHANGED <<now, complexityFloor, frozenAddresses, escrows, redelegationFeeState>>
    /\ UNCHANGED <<ownerVars, feeVars, repVars>>
SetRedelegationSurchargePolicy(step, max, window) ==
    /\ step <= BPS
    /\ highAssuranceFeeBps + max <= BPS
    /\ window = 0 => step = 0 /\ max = 0
    /\ redelegationSurchargeStepBps' = step
    /\ redelegationMaxSurchargeBps' = max
    /\ redelegationFrequencyWindowSeconds' = window
    /\ UNCHANGED <<now, complexityFloor, frozenAddresses, escrows, redelegationFeeState>>
    /\ UNCHANGED <<ownerVars, feeVars, repVars>>

SetComplexityFloor(floor) ==
    /\ complexityFloor' = floor
    /\ UNCHANGED <<now, frozenAddresses, escrows, redelegationFeeState>>
    /\ UNCHANGED <<ownerVars, feeVars, policyVars, repVars>>

SetPaused ==
    /\ paused' = ~paused
    /\ UNCHANGED <<now, owner, pendingOwner, treasury, complexityFloor, frozenAddresses,
                   escrows, redelegationFeeState>>
    /\ UNCHANGED <<feeVars, policyVars, repVars>>

SetTreasury(a) ==
    /\ treasury' = a
    /\ UNCHANGED <<now, owner, pendingOwner, paused, complexityFloor, frozenAddresses,
                   escrows, redelegationFeeState>>
    /\ UNCHANGED <<feeVars, policyVars, repVars>>

\* freezeAddress and unfreezeAddress.
FreezeAddress(a) ==
    /\ frozenAddresses' = (frozenAddresses \cup {a}) \ (frozenAddresses \cap {a})
    /\ UNCHANGED <<now, complexityFloor, escrows, redelegationFeeState>>
    /\ UNCHANGED <<ownerVars, feeVars, policyVars, repVars>>

TransferOwnership(a) ==
    /\ pendingOwner' = a
    /\ UNCHANGED <<now, owner, paused, treasury, complexityFloor, frozenAddresses,
                   escrows, redelegationFeeState>>
    /\ UNCHANGED <<feeVars, policyVars, repVars>>

\* Only the account named last may take over; a sender is never address(0).
AcceptOwnership ==
    /\ pendingOwner # Nobody
    /\ owner' = pendingOwner
    /\ pendingOwner' = Nobody
    /\ UNCHANGED <<now, paused, treasury, complexityFloor, frozenAddresses,
                   escrows, redelegationFeeState>>
    /\ UNCHANGED <<feeVars, policyVars, repVars>>

-----------------------------------------------------------------------------
(* The escrows' own steps, and the calls between them and the factory.     *)

Credit(rep, a, o) == [rep EXCEPT ![a][o] = @ + 1]

\* recordOutcome: the active worker and the buyer are credited, and a
\* worker who was replaced gets a failure of its own.
BuggyRecordOutcome(e, o) ==
    /\ workerReputation' = Credit(workerReputation, e.cast.worker, o)
    /\ buyerReputation' = Credit(buyerReputation, e.cast.buyer, o)
RecordOutcome(e, o) ==
    LET credited == Credit(workerReputation, ActiveWorker(e), o)
    IN  /\ workerReputation' = IF ActiveWorker(e) # e.cast.worker
                               THEN Credit(credited, e.cast.worker, "failed")
                               ELSE credited
        /\ buyerReputation' = Credit(buyerReputation, e.cast.buyer, o)

\* Escrow i takes the step Step from its life to m; the one that closes it
\* with an outcome records it.
EscrowStep(i, m) ==
    /\ escrows' = [escrows EXCEPT ![i].life = m]
    /\ IF m.outcome # escrows[i].life.outcome
       THEN RecordOutcome(escrows[i], m.outcome)
       ELSE UNCHANGED repVars
    /\ UNCHANGED <<now, complexityFloor, frozenAddresses, redelegationFeeState>>
    /\ UNCHANGED <<ownerVars, feeVars, policyVars>>

\* What the parties of an escrow do to it (TaskEscrow); an escrow without a
\* backup worker never activates one.
EscrowActs(i) ==
    \E m \in Life :
        /\ \/ Funding(escrows[i].life, m)
           \/ Cancellation(escrows[i].life, m)
           \/ escrows[i].cast.backup # Nobody /\ BackupActivation(escrows[i].life, m)
           \/ Closing(escrows[i].life, m)
        /\ EscrowStep(i, m)

\* freezeEscrow and unfreezeEscrow.
FreezeEscrow(i) ==
    \E m \in Life : Freezing(escrows[i].life, m) /\ EscrowStep(i, m)

EmergencyResolve(i) ==
    \E m \in Life : EmergencyResolution(escrows[i].life, m) /\ EscrowStep(i, m)

Tick ==
    /\ now < MaxTime
    /\ now' = now + 1
    /\ UNCHANGED <<complexityFloor, frozenAddresses, escrows, redelegationFeeState>>
    /\ UNCHANGED <<ownerVars, feeVars, policyVars, repVars>>

OwnerNext ==
    \/ \E fee \in FeeChoices : SetProtocolFeeBps(fee) \/ SetHighAssuranceFeeBps(fee)
    \/ \E step, max \in FeeChoices, window \in Windows :
          SetRedelegationSurchargePolicy(step, max, window)
    \/ \E floor \in Amounts : SetComplexityFloor(floor)
    \/ SetPaused
    \/ \E a \in Suspects : FreezeAddress(a)
    \/ \E a \in Heirs : TransferOwnership(a) \/ SetTreasury(a)
    \/ AcceptOwnership
    \/ \E i \in Registered \cap Moving : FreezeEscrow(i) \/ EmergencyResolve(i)

Next ==
    \/ \E cast \in Casts, amount \in Amounts, tier \in TierChoices, parent \in {0} \cup Ids :
          CreateEscrow(cast, amount, tier, parent)
    \/ \E i \in Registered \cap Moving : EscrowActs(i)
    \/ OwnerNext
    \/ Tick

Spec == Init /\ [][Next]_vars

-----------------------------------------------------------------------------
(* What is promised.  Section numbers are those of src/docs/SPEC.md.       *)

TypeOK ==
    /\ now \in 1..MaxTime
    /\ owner \in Addresses
    /\ pendingOwner \in Addresses \cup {Nobody}
    /\ paused \in BOOLEAN
    /\ treasury \in Addresses
    /\ protocolFeeBps \in 0..BPS
    /\ highAssuranceFeeBps \in 0..BPS
    /\ complexityFloor \in Nat
    /\ redelegationSurchargeStepBps \in 0..BPS
    /\ redelegationMaxSurchargeBps \in 0..BPS
    /\ redelegationFrequencyWindowSeconds \in Nat
    /\ frozenAddresses \subseteq Addresses
    /\ escrows \in Seq(Escrow)
    /\ Len(escrows) <= MaxEscrows
    /\ redelegationFeeState \in [Ids -> [last : 0..MaxTime, streak : 0..MaxStreak]]
    /\ workerReputation \in [Addresses -> Reputation]
    /\ buyerReputation \in [Addresses -> Reputation]

\* Section 9a: however the three setters are interleaved, the tiers keep
\* their order and no tier's fee and surcharge together pass 100%, so the
\* overflow check of _computeFeeSnapshot never reverts a creation.
FeePolicyConsistent ==
    /\ protocolFeeBps <= highAssuranceFeeBps
    /\ highAssuranceFeeBps + redelegationMaxSurchargeBps <= BPS
    /\ \A tier \in Tiers, parent \in {0} \cup Registered : FeeSnapshot(tier, parent) <= BPS

\* Section 8: the counters are exactly the outcomes of the closed escrows,
\* counted for whoever was working at the end, plus one failure for each
\* worker a backup replaced.
Recorded(o) == {i \in Registered : escrows[i].life.outcome = o}
Defaulted(a) == {i \in Registered : /\ escrows[i].life.outcome # "none"
                                    /\ escrows[i].life.backup
                                    /\ escrows[i].cast.worker = a}
ReputationMatchesOutcomes ==
    \A a \in Addresses, o \in Outcome :
        /\ workerReputation[a][o] =
              Cardinality({i \in Recorded(o) : ActiveWorker(escrows[i]) = a})
                + (IF o = "failed" THEN Cardinality(Defaulted(a)) ELSE 0)
        /\ buyerReputation[a][o] =
              Cardinality({i \in Recorded(o) : escrows[i].cast.buyer = a})

\* Section 9: a child belongs to an older escrow of this factory, and its
\* buyer is or was that escrow's active worker.
DelegationChained ==
    \A i \in Registered :
        LET p == escrows[i].parent
        IN  p # 0 => /\ p < i
                     /\ \/ escrows[i].cast.buyer = escrows[p].cast.worker
                        \/ /\ escrows[p].life.backup
                           /\ escrows[i].cast.buyer = escrows[p].cast.backup

\* A redelegation within the window never gets cheaper for being one more:
\* at the limit of its field the streak stays where it is.
BurstNeverForgotten ==
    [][\A p \in Registered :
         /\ redelegationFeeState'[p] # redelegationFeeState[p]
         /\ IsFrequent(p)
         => redelegationFeeState'[p].streak >= redelegationFeeState[p].streak]_vars

=============================================================================
