---------------------- MODULE TaskEscrowFactoryProofs ----------------------
(***************************************************************************)
(* What holds of the factory for every set of accounts, fees, windows and  *)
(* any number of escrows.                                                  *)
(***************************************************************************)
EXTENDS TaskEscrowFactory, FiniteSetTheorems, TLAPS

-----------------------------------------------------------------------------
(* Types, and the bound on every fee snapshot.                             *)

LEMMA BPSNat == BPS \in Nat
  BY DEF BPS

LEMMA NatProduct == ASSUME NEW a \in Nat, NEW b \in Nat PROVE a * b \in Nat
  OBVIOUS

LEMMA StreakType ==
    ASSUME TypeOK, NEW p \in Ids
    PROVE  NextStreak(p) \in 0..MaxStreak /\ NextStreak(p) \in Nat
  BY BoundAssumption DEF TypeOK, NextStreak

\* The surcharge is capped by the policy's maximum.
LEMMA SurchargeBound ==
    ASSUME TypeOK, NEW p \in {0} \cup Ids
    PROVE  Surcharge(p) \in Nat /\ Surcharge(p) <= redelegationMaxSurchargeBps
<1>1. redelegationSurchargeStepBps \in Nat /\ redelegationMaxSurchargeBps \in Nat
  BY DEF TypeOK, BPS
<1>2. CASE p = 0 \/ ~PolicyOn
  BY <1>1, <1>2 DEF Surcharge
<1>3. CASE p # 0 /\ PolicyOn
  <2> DEFINE raw == NextStreak(p) * redelegationSurchargeStepBps
  <2>1. raw \in Nat
    BY <1>1, <1>3, StreakType, NatProduct
  <2>2. Surcharge(p) = IF raw > redelegationMaxSurchargeBps
                       THEN redelegationMaxSurchargeBps ELSE raw
    BY <1>3 DEF Surcharge
  <2> HIDE DEF raw
  <2> QED
    BY <1>1, <2>1, <2>2
<1> QED
  BY <1>2, <1>3

LEMMA SnapshotNat ==
    ASSUME TypeOK, NEW tier, NEW p \in {0} \cup Ids
    PROVE  FeeSnapshot(tier, p) \in Nat
<1>1. BaseFee(tier) \in Nat
  BY DEF TypeOK, BaseFee, BPS
<1>2. Surcharge(p) \in Nat
  BY SurchargeBound
<1> QED
  BY <1>1, <1>2 DEF FeeSnapshot

LEMMA RegisteredIds == TypeOK => Registered \subseteq Ids /\ Len(escrows) \in Nat
  BY BoundAssumption DEF TypeOK, Registered, Ids

LEMMA InitType == Init => TypeOK
<1> SUFFICES ASSUME Init PROVE TypeOK
  OBVIOUS
<1>1. protocolFeeBps \in 0..BPS /\ highAssuranceFeeBps \in 0..BPS
  <2>1. protocolFeeBps \in Nat /\ highAssuranceFeeBps \in Nat
    BY ChoiceAssumption DEF Init
  <2>2. protocolFeeBps <= highAssuranceFeeBps /\ highAssuranceFeeBps <= BPS
    BY DEF Init
  <2> QED
    BY <2>1, <2>2, BPSNat
<1>2. redelegationFeeState \in [Ids -> [last : 0..MaxTime, streak : 0..MaxStreak]]
  BY BoundAssumption DEF Init
<1>3. escrows \in Seq(Escrow) /\ Len(escrows) <= MaxEscrows
  BY BoundAssumption DEF Init
<1>4. /\ workerReputation \in [Addresses -> Reputation]
      /\ buyerReputation \in [Addresses -> Reputation]
  BY DEF Init, Reputation
<1>5. now \in 1..MaxTime
  BY BoundAssumption DEF Init
<1>6. /\ redelegationSurchargeStepBps \in 0..BPS
      /\ redelegationMaxSurchargeBps \in 0..BPS
      /\ redelegationFrequencyWindowSeconds \in Nat /\ complexityFloor \in Nat
  BY DEF Init, BPS
<1>7. /\ owner \in Addresses /\ treasury \in Addresses
      /\ pendingOwner \in Addresses \cup {Nobody}
      /\ paused \in BOOLEAN /\ frozenAddresses \subseteq Addresses
  BY AccountAssumption DEF Init
<1> QED
  BY <1>1, <1>2, <1>3, <1>4, <1>5, <1>6, <1>7 DEF TypeOK

LEMMA CreditType ==
    ASSUME NEW rep \in [Addresses -> Reputation], NEW a \in Addresses, NEW o \in Outcome
    PROVE  Credit(rep, a, o) \in [Addresses -> Reputation]
<1>1. rep[a] \in Reputation /\ rep[a][o] + 1 \in Nat
  BY DEF Reputation
<1>2. [rep[a] EXCEPT ![o] = @ + 1] \in Reputation
  BY <1>1 DEF Reputation
<1> QED
  BY <1>2 DEF Credit

LEMMA DeployedType == Deployed \in Life
  BY DEF Deployed, Life

LEMMA CreateType ==
    ASSUME TypeOK, NEW cast \in Casts, NEW amount, NEW tier,
           NEW parent \in {0} \cup Ids, CreateEscrow(cast, amount, tier, parent)
    PROVE  TypeOK'
<1> DEFINE e == [cast |-> cast, tier |-> tier, feeBps |-> FeeSnapshot(tier, parent),
                 parent |-> parent, life |-> Deployed]
<1>1. e \in Escrow
  <2>1. FeeSnapshot(tier, parent) \in 0..BPS
    <3>1. FeeSnapshot(tier, parent) \in Nat
      BY SnapshotNat
    <3>2. FeeSnapshot(tier, parent) <= BPS
      BY DEF CreateEscrow
    <3> QED
      BY <3>1, <3>2, BPSNat
  <2> QED
    BY <2>1, DeployedType, AccountAssumption DEF CreateEscrow, Escrow
<1>2. escrows' = Append(escrows, e)
  BY DEF CreateEscrow
<1> HIDE DEF e
<1>3. escrows' \in Seq(Escrow) /\ Len(escrows') <= MaxEscrows
  BY <1>1, <1>2, BoundAssumption DEF TypeOK, CreateEscrow
<1>4. redelegationFeeState' \in [Ids -> [last : 0..MaxTime, streak : 0..MaxStreak]]
  <2>1. CASE parent = 0 \/ ~PolicyOn
    BY <2>1 DEF TypeOK, CreateEscrow, NoteRedelegation
  <2>2. CASE parent # 0 /\ PolicyOn
    <3>1. NextStreak(parent) \in 0..MaxStreak /\ now \in 0..MaxTime
      BY <2>2, StreakType, BoundAssumption DEF TypeOK
    <3>2. [last |-> now, streak |-> NextStreak(parent)]
             \in [last : 0..MaxTime, streak : 0..MaxStreak]
      BY <3>1
    <3>3. redelegationFeeState' = [redelegationFeeState EXCEPT
             ![parent] = [last |-> now, streak |-> NextStreak(parent)]]
      BY <2>2 DEF CreateEscrow, NoteRedelegation
    <3> QED
      BY <3>2, <3>3 DEF TypeOK
  <2> QED
    BY <2>1, <2>2
<1> QED
  BY <1>3, <1>4
     DEF TypeOK, CreateEscrow, ownerVars, feeVars, policyVars, repVars

\* An active backup has been named.
BackupNamed == \A i \in Registered : escrows[i].life.backup => escrows[i].cast.backup # Nobody

\* The lives an escrow can move to, as far as the factory's records care.
Follows(l, m) ==
    /\ m \in Life
    /\ m.outcome = l.outcome \/ m.outcome \in Outcome
    /\ l.backup => m.backup
    /\ l.phase = "Closed" => m = l \/ m = [l EXCEPT !.frozen = ~l.frozen]

LEMMA StepsFollow ==
    ASSUME NEW l \in Life, NEW m \in Life,
           \/ Funding(l, m) \/ Cancellation(l, m) \/ BackupActivation(l, m)
           \/ Closing(l, m) \/ Freezing(l, m) \/ EmergencyResolution(l, m)
    PROVE  Follows(l, m) /\ (m.backup => l.backup \/ BackupActivation(l, m))
  BY DEF Follows, Life, Funding, Cancellation, BackupActivation, Closing, Freezing,
         EmergencyResolution

LEMMA ActiveWorkerType ==
    ASSUME TypeOK, BackupNamed, NEW i \in Registered
    PROVE  ActiveWorker(escrows[i]) \in Addresses
<1>1. escrows[i] \in Escrow
  BY DEF TypeOK, Registered
<1> QED
  BY <1>1 DEF Escrow, Cast, ActiveWorker, BackupNamed

LEMMA EscrowStepType ==
    ASSUME TypeOK, BackupNamed, NEW i \in Registered, NEW m,
           Follows(escrows[i].life, m), EscrowStep(i, m)
    PROVE  TypeOK'
<1>1. escrows[i] \in Escrow /\ m \in Life
  BY DEF TypeOK, Registered, Follows
<1>2. [escrows[i] EXCEPT !.life = m] \in Escrow
  BY <1>1 DEF Escrow
<1>3. escrows' \in Seq(Escrow) /\ Len(escrows') <= MaxEscrows
  BY <1>2 DEF TypeOK, EscrowStep, Registered
<1>4. /\ workerReputation' \in [Addresses -> Reputation]
      /\ buyerReputation' \in [Addresses -> Reputation]
  <2> DEFINE e == escrows[i]
  <2>1. /\ ActiveWorker(e) \in Addresses /\ e.cast.worker \in Addresses
        /\ e.cast.buyer \in Addresses
    BY <1>1, ActiveWorkerType DEF Escrow, Cast
  <2>2. /\ workerReputation \in [Addresses -> Reputation]
        /\ buyerReputation \in [Addresses -> Reputation]
    BY DEF TypeOK
  <2>3. CASE m.outcome = e.life.outcome
    BY <2>2, <2>3 DEF EscrowStep, repVars
  <2>4. CASE m.outcome # e.life.outcome
    <3>1. RecordOutcome(e, m.outcome) /\ m.outcome \in Outcome
      BY <2>4 DEF EscrowStep, Follows
    <3>2. Credit(workerReputation, ActiveWorker(e), m.outcome) \in [Addresses -> Reputation]
      BY <2>1, <2>2, <3>1, CreditType
    <3>3. Credit(Credit(workerReputation, ActiveWorker(e), m.outcome), e.cast.worker, "failed")
            \in [Addresses -> Reputation]
      BY <2>1, <3>2, CreditType DEF Outcome
    <3>4. Credit(buyerReputation, e.cast.buyer, m.outcome) \in [Addresses -> Reputation]
      BY <2>1, <2>2, <3>1, CreditType
    <3> QED
      BY <3>1, <3>2, <3>3, <3>4 DEF RecordOutcome
  <2> QED
    BY <2>3, <2>4
<1> QED
  BY <1>3, <1>4 DEF TypeOK, EscrowStep, ownerVars, feeVars, policyVars

LEMMA FeeSettingType ==
    ASSUME TypeOK, NEW fee \in FeeChoices, SetProtocolFeeBps(fee) \/ SetHighAssuranceFeeBps(fee)
    PROVE  TypeOK' /\ escrows' = escrows
<1>1. fee \in 0..BPS
  BY ChoiceAssumption, BPSNat DEF SetProtocolFeeBps, SetHighAssuranceFeeBps, TypeOK
<1> QED
  BY <1>1 DEF SetProtocolFeeBps, SetHighAssuranceFeeBps, TypeOK, ownerVars, policyVars, repVars

LEMMA PolicyType ==
    ASSUME TypeOK, NEW step \in FeeChoices, NEW max \in FeeChoices, NEW window \in Windows,
           SetRedelegationSurchargePolicy(step, max, window)
    PROVE  TypeOK' /\ escrows' = escrows
<1>1. step \in 0..BPS /\ max \in 0..BPS /\ window \in Nat
  BY ChoiceAssumption, BPSNat DEF SetRedelegationSurchargePolicy, TypeOK
<1> QED
  BY <1>1 DEF SetRedelegationSurchargePolicy, TypeOK, ownerVars, feeVars, repVars

LEMMA FloorType ==
    ASSUME TypeOK, NEW floor \in Amounts, SetComplexityFloor(floor)
    PROVE  TypeOK' /\ escrows' = escrows
  BY ChoiceAssumption
     DEF SetComplexityFloor, TypeOK, ownerVars, feeVars, policyVars, repVars

LEMMA AccountsType ==
    ASSUME TypeOK, NEW a \in Addresses,
           \/ FreezeAddress(a) \/ TransferOwnership(a) \/ SetTreasury(a)
           \/ AcceptOwnership \/ SetPaused \/ Tick
    PROVE  TypeOK' /\ escrows' = escrows
<1> USE DEF ownerVars, feeVars, policyVars, repVars
<1>1. CASE FreezeAddress(a)
  BY <1>1 DEF FreezeAddress, TypeOK
<1>2. CASE TransferOwnership(a) \/ SetTreasury(a)
  BY <1>2 DEF TransferOwnership, SetTreasury, TypeOK
<1>3. CASE AcceptOwnership
  BY <1>3 DEF AcceptOwnership, TypeOK
<1>4. CASE SetPaused
  BY <1>4 DEF SetPaused, TypeOK
<1>5. CASE Tick
  BY <1>5, BoundAssumption DEF Tick, TypeOK
<1> QED
  BY <1>1, <1>2, <1>3, <1>4, <1>5

\* Every step keeps the types and the backups named, and either leaves the
\* escrows alone, adds one, or moves the life of one.
StepShape ==
    \/ escrows' = escrows
    \/ \E e \in Escrow : /\ escrows' = Append(escrows, e)
                         /\ e.life = Deployed
                         /\ MayDelegate(e.cast.buyer, e.parent)
    \/ \E i \in Registered, m \in Life :
          /\ escrows' = [escrows EXCEPT ![i].life = m]
          /\ Follows(escrows[i].life, m)
          /\ m.backup => escrows[i].cast.backup # Nobody

LEMMA SomeLife ==
    ASSUME TypeOK, BackupNamed, NEW i \in Registered, NEW m \in Life, EscrowStep(i, m),
           Follows(escrows[i].life, m),
           m.backup => escrows[i].life.backup \/ escrows[i].cast.backup # Nobody
    PROVE  TypeOK' /\ StepShape
<1>1. escrows[i].life.backup => escrows[i].cast.backup # Nobody
  BY DEF BackupNamed
<1> QED
  BY <1>1, EscrowStepType DEF EscrowStep, StepShape

LEMMA StepTypes == TypeOK /\ BackupNamed /\ [Next]_vars => TypeOK' /\ StepShape
<1> SUFFICES ASSUME TypeOK, BackupNamed, [Next]_vars PROVE TypeOK' /\ StepShape
  OBVIOUS
<1>1. ASSUME NEW cast \in Casts, NEW amount \in Amounts, NEW tier \in TierChoices,
             NEW parent \in {0} \cup Ids, CreateEscrow(cast, amount, tier, parent)
      PROVE  TypeOK' /\ StepShape
  <2> DEFINE e == [cast |-> cast, tier |-> tier, feeBps |-> FeeSnapshot(tier, parent),
                   parent |-> parent, life |-> Deployed]
  <2>1. TypeOK'
    BY <1>1, CreateType
  <2>2. escrows' = Append(escrows, e) /\ MayDelegate(e.cast.buyer, e.parent)
    BY <1>1 DEF CreateEscrow
  <2>3. e \in Escrow
    <3>1. FeeSnapshot(tier, parent) \in 0..BPS /\ tier \in Tiers
      BY <1>1, SnapshotNat, BPSNat DEF CreateEscrow
    <3> QED
      BY <3>1, DeployedType, AccountAssumption DEF Escrow
  <2> QED
    BY <2>1, <2>2, <2>3 DEF StepShape
<1>2. ASSUME NEW i \in Registered, EscrowActs(i) PROVE TypeOK' /\ StepShape
  <2>1. PICK m \in Life :
          /\ \/ Funding(escrows[i].life, m)
             \/ Cancellation(escrows[i].life, m)
             \/ escrows[i].cast.backup # Nobody /\ BackupActivation(escrows[i].life, m)
             \/ Closing(escrows[i].life, m)
          /\ EscrowStep(i, m)
    BY <1>2 DEF EscrowActs
  <2>2. escrows[i].life \in Life
    <3>1. escrows[i] \in Escrow
      BY DEF TypeOK, Registered
    <3> QED
      BY <3>1 DEF Escrow
  <2>3. Follows(escrows[i].life, m)
    BY <2>1, <2>2, StepsFollow
  <2>4. m.backup => escrows[i].life.backup \/ escrows[i].cast.backup # Nobody
    BY <2>1, <2>2 DEF Life, Funding, Cancellation, BackupActivation, Closing
  <2> QED
    BY <2>1, <2>3, <2>4, SomeLife
<1>3. ASSUME NEW i \in Registered, FreezeEscrow(i) \/ EmergencyResolve(i)
      PROVE  TypeOK' /\ StepShape
  <2>1. PICK m \in Life : /\ \/ Freezing(escrows[i].life, m)
                             \/ EmergencyResolution(escrows[i].life, m)
                          /\ EscrowStep(i, m)
    BY <1>3 DEF FreezeEscrow, EmergencyResolve
  <2>2. escrows[i].life \in Life
    <3>1. escrows[i] \in Escrow
      BY DEF TypeOK, Registered
    <3> QED
      BY <3>1 DEF Escrow
  <2>3. Follows(escrows[i].life, m)
    BY <2>1, <2>2, StepsFollow
  <2>4. m.backup => escrows[i].life.backup
    BY <2>1, <2>2 DEF Life, Freezing, EmergencyResolution, Cancellation, Closing
  <2> QED
    BY <2>1, <2>3, <2>4, SomeLife
<1>4. ASSUME TypeOK' /\ escrows' = escrows PROVE TypeOK' /\ StepShape
  BY <1>4 DEF StepShape
<1>5. CASE OwnerNext
  <2>1. ASSUME NEW fee \in FeeChoices, SetProtocolFeeBps(fee) \/ SetHighAssuranceFeeBps(fee)
        PROVE  TypeOK' /\ StepShape
    BY <1>4, <2>1, FeeSettingType
  <2>2. ASSUME NEW step \in FeeChoices, NEW max \in FeeChoices, NEW window \in Windows,
               SetRedelegationSurchargePolicy(step, max, window)
        PROVE  TypeOK' /\ StepShape
    BY <1>4, <2>2, PolicyType
  <2>3. ASSUME NEW floor \in Amounts, SetComplexityFloor(floor) PROVE TypeOK' /\ StepShape
    BY <1>4, <2>3, FloorType
  <2>4. ASSUME NEW a \in Suspects, FreezeAddress(a) PROVE TypeOK' /\ StepShape
    BY <1>4, <2>4, AccountsType, AccountAssumption
  <2>5. ASSUME NEW a \in Heirs, TransferOwnership(a) \/ SetTreasury(a)
        PROVE  TypeOK' /\ StepShape
    BY <1>4, <2>5, AccountsType, AccountAssumption
  <2>6. CASE SetPaused \/ AcceptOwnership
    BY <1>4, <2>6, AccountsType, AccountAssumption
  <2> QED
    BY <1>3, <1>5, <2>1, <2>2, <2>3, <2>4, <2>5, <2>6 DEF OwnerNext
<1>6. CASE Tick
  BY <1>4, <1>6, AccountsType, AccountAssumption
<1>7. CASE UNCHANGED vars
  BY <1>7 DEF vars, TypeOK, StepShape
<1> QED
  BY <1>1, <1>2, <1>5, <1>6, <1>7 DEF Next

\* The shape of a step preserves facts about each escrow's cast and life.
Grows ==
    /\ Registered \subseteq Registered'
    /\ \A i \in Registered :
          /\ escrows'[i].cast = escrows[i].cast
          /\ escrows'[i].parent = escrows[i].parent
          /\ escrows[i].life.backup => escrows'[i].life.backup
          /\ escrows'[i].life.backup =>
                escrows[i].life.backup \/ escrows[i].cast.backup # Nobody
    /\ \A i \in Registered' \ Registered :
          /\ i = Len(escrows) + 1
          /\ ~escrows'[i].life.backup
          /\ MayDelegate(escrows'[i].cast.buyer, escrows'[i].parent)

LEMMA ShapeGrows ==
    ASSUME TypeOK, StepShape
    PROVE  Grows
<1>1. CASE escrows' = escrows
  BY <1>1 DEF Registered, Grows
<1>2. ASSUME NEW e \in Escrow, escrows' = Append(escrows, e), e.life = Deployed,
             MayDelegate(e.cast.buyer, e.parent)
      PROVE  Grows
  BY <1>2 DEF TypeOK, Registered, Deployed, Grows
<1>3. ASSUME NEW i \in Registered, NEW m \in Life,
             escrows' = [escrows EXCEPT ![i].life = m], Follows(escrows[i].life, m),
             m.backup => escrows[i].cast.backup # Nobody
      PROVE  Grows
  BY <1>3 DEF TypeOK, Registered, Follows, Grows
<1> QED
  BY <1>1, <1>2, <1>3 DEF StepShape

LEMMA InitEmpty == Init => BackupNamed /\ DelegationChained
<1> SUFFICES ASSUME Init PROVE BackupNamed /\ DelegationChained
  OBVIOUS
<1>1. Registered = {}
  BY DEF Init, Registered
<1> QED
  BY <1>1 DEF BackupNamed, DelegationChained

LEMMA GrowsKeepsNames == ASSUME BackupNamed, Grows PROVE BackupNamed'
  BY DEF BackupNamed, Grows

\* An older escrow keeps its place, and whoever was its worker still is or
\* has been.
LEMMA GrowsKeepsChains ==
    ASSUME TypeOK, TypeOK', DelegationChained, Grows
    PROVE  DelegationChained'
<1> SUFFICES ASSUME NEW i \in Registered', escrows'[i].parent # 0
             PROVE  LET p == escrows'[i].parent
                    IN  /\ p < i
                        /\ \/ escrows'[i].cast.buyer = escrows'[p].cast.worker
                           \/ /\ escrows'[p].life.backup
                              /\ escrows'[i].cast.buyer = escrows'[p].cast.backup
  BY DEF DelegationChained
<1> DEFINE p == escrows'[i].parent
<1>0. escrows \in Seq(Escrow) /\ escrows' \in Seq(Escrow)
  BY DEF TypeOK
<1>1. i \in Nat /\ Len(escrows) \in Nat /\ \A k \in Registered : k \in Nat /\ k <= Len(escrows)
  BY <1>0 DEF Registered
<1>2. CASE i \in Registered
  <2>1. /\ p = escrows[i].parent /\ p < i
        /\ escrows'[i].cast = escrows[i].cast
        /\ \/ escrows[i].cast.buyer = escrows[p].cast.worker
           \/ escrows[p].life.backup /\ escrows[i].cast.buyer = escrows[p].cast.backup
    BY <1>2 DEF Grows, DelegationChained
  <2>2. p \in Registered
    <3>1. escrows[i] \in Escrow
      BY <1>0, <1>2 DEF Registered
    <3>2. p \in {0} \cup Ids
      BY <2>1, <3>1 DEF Escrow
    <3> QED
      BY <1>1, <1>2, <2>1, <3>2, BoundAssumption DEF Registered, Ids
  <2> QED
    BY <2>1, <2>2 DEF Grows
<1>3. CASE i \notin Registered
  <2>1. /\ i = Len(escrows) + 1
        /\ p \in Registered
        /\ escrows'[i].cast.buyer = ActiveWorker(escrows[p])
    BY <1>3 DEF Grows, MayDelegate
  <2>2. p < i
    BY <1>1, <2>1
  <2>3. /\ escrows'[p].cast = escrows[p].cast
        /\ escrows[p].life.backup => escrows'[p].life.backup
    BY <2>1 DEF Grows
  <2> QED
    BY <2>1, <2>2, <2>3 DEF ActiveWorker
<1> QED
  BY <1>2, <1>3

FactoryInv == TypeOK /\ BackupNamed /\ DelegationChained

LEMMA FactoryInvCorrect == Spec => []FactoryInv
<1>1. Init => FactoryInv
  BY InitType, InitEmpty DEF FactoryInv
<1>2. FactoryInv /\ [Next]_vars => FactoryInv'
  BY StepTypes, ShapeGrows, GrowsKeepsNames, GrowsKeepsChains DEF FactoryInv
<1> QED
  BY <1>1, <1>2, PTL DEF Spec

\* Every storage field keeps its type; in particular no fee snapshot of any
\* escrow passes 100%.
THEOREM FactoryTypeCorrect == Spec => []TypeOK
  BY FactoryInvCorrect, PTL DEF FactoryInv

\* Section 9: a child escrow hangs off an older escrow of the same factory,
\* and its buyer is or was that escrow's active worker: delegation chains
\* never loop.
THEOREM DelegationAlwaysChained == Spec => []DelegationChained
  BY FactoryInvCorrect, PTL DEF FactoryInv

-----------------------------------------------------------------------------
(* The fee policy.                                                         *)

\* The part of FeePolicyConsistent the setters keep.
FeeOrder ==
    /\ protocolFeeBps <= highAssuranceFeeBps
    /\ highAssuranceFeeBps + redelegationMaxSurchargeBps <= BPS

LEMMA FeeOrderStep == TypeOK /\ FeeOrder /\ [Next]_vars => FeeOrder'
<1> SUFFICES ASSUME TypeOK, FeeOrder, [Next]_vars PROVE FeeOrder'
  OBVIOUS
<1>1. ASSUME UNCHANGED feeVars, UNCHANGED policyVars PROVE FeeOrder'
  BY <1>1 DEF feeVars, policyVars, FeeOrder
<1>2. ASSUME NEW cast \in Casts, NEW amount \in Amounts, NEW tier \in TierChoices,
             NEW parent \in {0} \cup Ids, CreateEscrow(cast, amount, tier, parent)
      PROVE  FeeOrder'
  BY <1>1, <1>2 DEF CreateEscrow
<1>3. ASSUME NEW i, NEW m, EscrowStep(i, m) PROVE FeeOrder'
  BY <1>1, <1>3 DEF EscrowStep
<1>4. ASSUME NEW i \in Registered, EscrowActs(i) \/ FreezeEscrow(i) \/ EmergencyResolve(i)
      PROVE  FeeOrder'
  BY <1>3, <1>4 DEF EscrowActs, FreezeEscrow, EmergencyResolve
<1>5. ASSUME NEW fee \in FeeChoices, SetProtocolFeeBps(fee) PROVE FeeOrder'
  BY <1>5 DEF SetProtocolFeeBps, FeeOrder, policyVars
<1>6. ASSUME NEW fee \in FeeChoices, SetHighAssuranceFeeBps(fee) PROVE FeeOrder'
  BY <1>6 DEF SetHighAssuranceFeeBps, FeeOrder, policyVars
<1>7. ASSUME NEW step \in FeeChoices, NEW max \in FeeChoices, NEW window \in Windows,
             SetRedelegationSurchargePolicy(step, max, window)
      PROVE  FeeOrder'
  BY <1>7 DEF SetRedelegationSurchargePolicy, FeeOrder, feeVars
<1>8. ASSUME NEW a, NEW floor,
             \/ FreezeAddress(a) \/ TransferOwnership(a) \/ SetTreasury(a)
             \/ SetComplexityFloor(floor)
      PROVE  FeeOrder'
  BY <1>1, <1>8 DEF FreezeAddress, TransferOwnership, SetTreasury, SetComplexityFloor
<1>9. CASE SetPaused \/ AcceptOwnership \/ Tick
  BY <1>1, <1>9 DEF SetPaused, AcceptOwnership, Tick
<1>10. CASE UNCHANGED vars
  BY <1>1, <1>10 DEF vars, feeVars, policyVars
<1> QED
  BY <1>2, <1>4, <1>5, <1>6, <1>7, <1>8, <1>9, <1>10 DEF Next, OwnerNext

LEMMA FeeOrderBoundsSnapshots == TypeOK /\ FeeOrder => FeePolicyConsistent
<1> SUFFICES ASSUME TypeOK, FeeOrder, NEW tier \in Tiers, NEW p \in {0} \cup Registered
             PROVE  FeeSnapshot(tier, p) <= BPS
  BY DEF FeePolicyConsistent, FeeOrder
<1>1. p \in {0} \cup Ids
  BY RegisteredIds
<1>2. Surcharge(p) \in Nat /\ Surcharge(p) <= redelegationMaxSurchargeBps
  BY <1>1, SurchargeBound
<1>3. /\ protocolFeeBps \in Nat /\ highAssuranceFeeBps \in Nat
      /\ redelegationMaxSurchargeBps \in Nat
  BY BPSNat DEF TypeOK
<1>4. BaseFee(tier) \in Nat /\ BaseFee(tier) <= highAssuranceFeeBps
  BY <1>3 DEF BaseFee, FeeOrder
<1> QED
  BY <1>2, <1>3, <1>4, BPSNat DEF FeeSnapshot, FeeOrder

\* Section 9a: whatever the owner sets in whatever order, the tiers keep
\* their order and no snapshot can pass 100%, so _computeFeeSnapshot's own
\* check never reverts a creation.
THEOREM FeePolicyAlwaysConsistent == Spec => []FeePolicyConsistent
<1>1. Init => TypeOK /\ FeeOrder
  <2>1. Init => FeeOrder
    BY InitType, BPSNat DEF Init, FeeOrder, TypeOK
  <2> QED
    BY <2>1, InitType
<1>2. TypeOK /\ FeeOrder /\ [Next]_vars => FeeOrder'
  BY FeeOrderStep
<1> QED
  BY <1>1, <1>2, FactoryTypeCorrect, FeeOrderBoundsSnapshots, PTL DEF Spec
-----------------------------------------------------------------------------
(* Reputations.                                                            *)

\* The escrows that count for an account, by what they count as.
Done(a, o)  == {i \in Recorded(o) : ActiveWorker(escrows[i]) = a}
Hired(a, o) == {i \in Recorded(o) : escrows[i].cast.buyer = a}

\* Only a closed escrow has an outcome, and no one is his own backup: the
\* first makes each escrow count once, the second makes "was replaced" and
\* "is not the one who is credited" the same.
OutcomeClosed == \A i \in Registered : escrows[i].life.outcome # "none"
                                          => escrows[i].life.phase = "Closed"
BackupDistinct == \A i \in Registered : escrows[i].cast.backup # escrows[i].cast.worker

\* What a step does to the escrows and to the records.  Either nobody's
\* record changes, nor the outcome of any escrow, nor the worker of one that
\* has an outcome; or one escrow gets its outcome and is recorded.
Quiet ==
    /\ UNCHANGED repVars
    /\ Registered \subseteq Registered'
    /\ \A i \in Registered :
          /\ escrows'[i].cast = escrows[i].cast
          /\ escrows'[i].life.outcome = escrows[i].life.outcome
          /\ escrows[i].life.outcome # "none" =>
                /\ escrows'[i].life.backup = escrows[i].life.backup
                /\ escrows'[i].life.phase = escrows[i].life.phase
    /\ \A i \in Registered' \ Registered : escrows'[i].life.outcome = "none"
    /\ \A i \in Registered' : escrows'[i].cast.backup # escrows'[i].cast.worker
Records(i, o) ==
    /\ escrows[i].life.outcome = "none"
    /\ Registered' = Registered
    /\ escrows'[i].cast = escrows[i].cast
    /\ escrows'[i].life.backup = escrows[i].life.backup
    /\ escrows'[i].life.phase = "Closed"
    /\ escrows'[i].life.outcome = o
    /\ \A j \in Registered \ {i} : escrows'[j] = escrows[j]
    /\ RecordOutcome(escrows[i], o)
RecordShape == Quiet \/ \E i \in Registered, o \in Outcome : Records(i, o)

LEMMA LifeRecords ==
    ASSUME TypeOK, BackupDistinct, OutcomeClosed,
           NEW i \in Registered, NEW m, EscrowStep(i, m),
           \/ Funding(escrows[i].life, m) \/ Cancellation(escrows[i].life, m)
           \/ BackupActivation(escrows[i].life, m) \/ Closing(escrows[i].life, m)
           \/ Freezing(escrows[i].life, m) \/ EmergencyResolution(escrows[i].life, m)
    PROVE  RecordShape
<1> DEFINE l == escrows[i].life
<1>1. escrows[i] \in Escrow /\ l \in Life /\ escrows \in Seq(Escrow)
  <2>1. escrows \in Seq(Escrow) /\ escrows[i] \in Escrow
    BY DEF TypeOK, Registered
  <2> QED
    BY <2>1 DEF Escrow
<1>2. \/ /\ m.outcome = l.outcome
         /\ l.outcome # "none" => m.backup = l.backup /\ m.phase = l.phase
      \/ /\ l.outcome = "none" /\ m.outcome \in Outcome
         /\ m.backup = l.backup /\ m.phase = "Closed"
  BY <1>1 DEF OutcomeClosed, Life, Funding, Cancellation, BackupActivation, Closing,
              Freezing, EmergencyResolution
<1>3. /\ Registered' = Registered
      /\ escrows'[i] = [escrows[i] EXCEPT !.life = m]
      /\ \A j \in Registered \ {i} : escrows'[j] = escrows[j]
  BY <1>1 DEF EscrowStep, Registered
<1>4. escrows'[i].cast = escrows[i].cast /\ escrows'[i].life = m
  BY <1>1, <1>3 DEF Escrow
<1>5. CASE m.outcome = l.outcome
  <2>1. UNCHANGED repVars
    BY <1>5 DEF EscrowStep
  <2>2. \A j \in Registered : /\ escrows'[j].cast = escrows[j].cast
                              /\ escrows'[j].life.outcome = escrows[j].life.outcome
    BY <1>3, <1>4, <1>5
  <2>3. l.outcome # "none" => m.backup = l.backup /\ m.phase = l.phase
    BY <1>2, <1>5
  <2>4. \A j \in Registered : escrows[j].life.outcome # "none" =>
            /\ escrows'[j].life.backup = escrows[j].life.backup
            /\ escrows'[j].life.phase = escrows[j].life.phase
    BY <1>3, <1>4, <2>3
  <2> QED
    BY <1>3, <2>1, <2>2, <2>4 DEF RecordShape, Quiet, BackupDistinct
<1>6. CASE m.outcome # l.outcome
  <2>1. /\ l.outcome = "none" /\ m.outcome \in Outcome
        /\ m.backup = l.backup /\ m.phase = "Closed"
    BY <1>2, <1>6
  <2>2. RecordOutcome(escrows[i], m.outcome)
    BY <1>6 DEF EscrowStep
  <2> QED
    BY <1>3, <1>4, <2>1, <2>2 DEF RecordShape, Records
<1> QED
  BY <1>5, <1>6

LEMMA StepRecords ==
    ASSUME TypeOK, BackupDistinct, OutcomeClosed, [Next]_vars
    PROVE  RecordShape
<1>1. ASSUME UNCHANGED escrows, UNCHANGED repVars PROVE RecordShape
  BY <1>1 DEF RecordShape, Quiet, Registered, BackupDistinct
<1>2. ASSUME NEW cast \in Casts, NEW amount, NEW tier, NEW parent,
             CreateEscrow(cast, amount, tier, parent)
      PROVE  RecordShape
  <2> DEFINE e == [cast |-> cast, tier |-> tier, feeBps |-> FeeSnapshot(tier, parent),
                   parent |-> parent, life |-> Deployed]
  <2>1. escrows' = Append(escrows, e) /\ UNCHANGED repVars
    BY <1>2 DEF CreateEscrow
  <2>2. e.cast.backup # e.cast.worker /\ e.life.outcome = "none"
    BY <1>2 DEF CreateEscrow, RolesDistinct, Deployed
  <2> HIDE DEF e
  <2>3. escrows \in Seq(Escrow)
    BY DEF TypeOK
  <2>4. /\ Registered' = Registered \cup {Len(escrows) + 1}
        /\ escrows'[Len(escrows) + 1] = e
        /\ \A i \in Registered : escrows'[i] = escrows[i]
    BY <2>1, <2>3 DEF Registered
  <2> QED
    BY <2>1, <2>2, <2>4 DEF RecordShape, Quiet, BackupDistinct
<1>3. ASSUME NEW i \in Registered, EscrowActs(i) \/ FreezeEscrow(i) \/ EmergencyResolve(i)
      PROVE  RecordShape
  <2>1. PICK m : /\ \/ Funding(escrows[i].life, m) \/ Cancellation(escrows[i].life, m)
                    \/ BackupActivation(escrows[i].life, m) \/ Closing(escrows[i].life, m)
                    \/ Freezing(escrows[i].life, m)
                    \/ EmergencyResolution(escrows[i].life, m)
                 /\ EscrowStep(i, m)
    BY <1>3 DEF EscrowActs, FreezeEscrow, EmergencyResolve
  <2> QED
    BY <2>1, LifeRecords
<1>4. ASSUME NEW fee, SetProtocolFeeBps(fee) \/ SetHighAssuranceFeeBps(fee)
      PROVE  RecordShape
  BY <1>1, <1>4 DEF SetProtocolFeeBps, SetHighAssuranceFeeBps
<1>5. ASSUME NEW step, NEW max, NEW window, SetRedelegationSurchargePolicy(step, max, window)
      PROVE  RecordShape
  BY <1>1, <1>5 DEF SetRedelegationSurchargePolicy
<1>6. ASSUME NEW a, \/ FreezeAddress(a) \/ TransferOwnership(a) \/ SetTreasury(a)
                    \/ SetComplexityFloor(a)
      PROVE  RecordShape
  BY <1>1, <1>6 DEF FreezeAddress, TransferOwnership, SetTreasury, SetComplexityFloor
<1>7. CASE SetPaused \/ AcceptOwnership \/ Tick
  BY <1>1, <1>7 DEF SetPaused, AcceptOwnership, Tick
<1>8. CASE UNCHANGED vars
  BY <1>1, <1>8 DEF vars, repVars
<1> QED
  BY <1>2, <1>3, <1>4, <1>5, <1>6, <1>7, <1>8 DEF Next, OwnerNext

\* Sets of escrows are finite, and one more member counts one more.
LEMMA OneMore ==
    ASSUME TypeOK, NEW S \in SUBSET Registered, NEW i \in Registered, i \notin S
    PROVE  Cardinality(S \cup {i}) = Cardinality(S) + 1 /\ Cardinality(S) \in Nat
<1>1. IsFiniteSet(Registered)
  <2>1. Len(escrows) \in Nat
    BY DEF TypeOK
  <2> QED
    BY <2>1, FS_Interval DEF Registered
<1> QED
  BY <1>1, FS_Subset, FS_AddElement, FS_CardinalityType

\* One credit, as the counters see it.
LEMMA CreditCounts ==
    ASSUME NEW rep \in [Addresses -> Reputation], NEW a \in Addresses, NEW o \in Outcome
    PROVE  \A b \in Addresses, p \in Outcome :
              Credit(rep, a, o)[b][p]
                = IF b = a /\ p = o THEN rep[b][p] + 1 ELSE rep[b][p]
  BY DEF Credit, Reputation

LEMMA QuietKeeps ==
    ASSUME TypeOK, ReputationMatchesOutcomes, OutcomeClosed, Quiet
    PROVE  ReputationMatchesOutcomes' /\ OutcomeClosed' /\ BackupDistinct'
<1>1. \A o \in Outcome : Recorded(o)' = Recorded(o)
  BY DEF Quiet, Recorded, Outcome
<1>2. \A i \in Registered : escrows[i].life.outcome # "none" =>
          ActiveWorker(escrows'[i]) = ActiveWorker(escrows[i])
  BY DEF Quiet, ActiveWorker
<1>3. \A a \in Addresses, o \in Outcome :
          /\ {i \in Recorded(o)' : ActiveWorker(escrows'[i]) = a} = Done(a, o)
          /\ {i \in Recorded(o)' : escrows'[i].cast.buyer = a} = Hired(a, o)
  BY <1>1, <1>2 DEF Done, Hired, Recorded, Outcome, Quiet
<1>4. \A a \in Addresses : Defaulted(a)' = Defaulted(a)
  BY DEF Quiet, Defaulted
<1>5. ReputationMatchesOutcomes'
  BY <1>3, <1>4 DEF ReputationMatchesOutcomes, Done, Hired, Quiet, repVars
<1>6. OutcomeClosed' /\ BackupDistinct'
  BY DEF Quiet, OutcomeClosed, BackupDistinct
<1> QED
  BY <1>5, <1>6

LEMMA RecordKeeps ==
    ASSUME TypeOK, BackupNamed, BackupDistinct, ReputationMatchesOutcomes, OutcomeClosed,
           NEW i \in Registered, NEW o \in Outcome, Records(i, o)
    PROVE  ReputationMatchesOutcomes' /\ OutcomeClosed' /\ BackupDistinct'
<1> DEFINE e == escrows[i]
           w == ActiveWorker(escrows[i])
<1>1. /\ escrows[i] \in Escrow /\ w \in Addresses
      /\ e.cast.worker \in Addresses /\ e.cast.buyer \in Addresses
  <2>1. escrows[i] \in Escrow
    BY DEF TypeOK, Registered
  <2> QED
    BY <2>1, ActiveWorkerType DEF Escrow, Cast
<1>2. OutcomeClosed' /\ BackupDistinct'
  BY DEF Records, OutcomeClosed, BackupDistinct
<1>3. \A p \in Outcome : Recorded(p)' = IF p = o THEN Recorded(p) \cup {i} ELSE Recorded(p)
  BY DEF Records, Recorded, Outcome
<1>4. i \notin Recorded(o) /\ \A a : i \notin Defaulted(a)
  BY DEF Records, Recorded, Defaulted, Outcome
<1>5. \A j \in Registered : /\ ActiveWorker(escrows'[j]) = ActiveWorker(escrows[j])
                            /\ escrows'[j].cast = escrows[j].cast
                            /\ escrows'[j].life.backup = escrows[j].life.backup
  BY DEF Records, ActiveWorker
<1>6. e.life.backup <=> w # e.cast.worker
  BY DEF ActiveWorker, BackupDistinct
<1>7. \A a \in Addresses, p \in Outcome :
        /\ {j \in Recorded(p)' : ActiveWorker(escrows'[j]) = a}
             = IF p = o /\ a = w THEN Done(a, p) \cup {i} ELSE Done(a, p)
        /\ {j \in Recorded(p)' : escrows'[j].cast.buyer = a}
             = IF p = o /\ a = e.cast.buyer THEN Hired(a, p) \cup {i} ELSE Hired(a, p)
  BY <1>3, <1>5 DEF Done, Hired, Recorded
<1>8. \A a \in Addresses :
        Defaulted(a)' = IF w # e.cast.worker /\ a = e.cast.worker
                        THEN Defaulted(a) \cup {i} ELSE Defaulted(a)
  BY <1>5, <1>6 DEF Defaulted, Records, Outcome
<1>9. \A a \in Addresses, p \in Outcome :
        /\ Done(a, p) \subseteq Registered /\ Hired(a, p) \subseteq Registered
        /\ Defaulted(a) \subseteq Registered
        /\ p = o => i \notin Done(a, p) /\ i \notin Hired(a, p)
        /\ i \notin Defaulted(a)
  BY <1>4 DEF Done, Hired, Defaulted, Recorded
<1>10. \A a \in Addresses, p \in Outcome :
        /\ Cardinality({j \in Recorded(p)' : ActiveWorker(escrows'[j]) = a})
             = Cardinality(Done(a, p)) + (IF p = o /\ a = w THEN 1 ELSE 0)
        /\ Cardinality({j \in Recorded(p)' : escrows'[j].cast.buyer = a})
             = Cardinality(Hired(a, p)) + (IF p = o /\ a = e.cast.buyer THEN 1 ELSE 0)
        /\ Cardinality(Defaulted(a)')
             = Cardinality(Defaulted(a))
                 + (IF w # e.cast.worker /\ a = e.cast.worker THEN 1 ELSE 0)
  <2> TAKE a \in Addresses, p \in Outcome
  <2>1. /\ Cardinality(Done(a, p)) \in Nat /\ Cardinality(Hired(a, p)) \in Nat
        /\ Cardinality(Defaulted(a)) \in Nat
    <3>1. IsFiniteSet(Registered)
      <4>1. Len(escrows) \in Nat
        BY DEF TypeOK
      <4> QED
        BY <4>1, FS_Interval DEF Registered
    <3> QED
      BY <1>9, <3>1, FS_Subset, FS_CardinalityType
  <2>2. /\ p = o => Cardinality(Done(a, p) \cup {i}) = Cardinality(Done(a, p)) + 1
        /\ p = o => Cardinality(Hired(a, p) \cup {i}) = Cardinality(Hired(a, p)) + 1
        /\ Cardinality(Defaulted(a) \cup {i}) = Cardinality(Defaulted(a)) + 1
    BY <1>9, OneMore
  <2>3. Cardinality({j \in Recorded(p)' : ActiveWorker(escrows'[j]) = a})
          = Cardinality(Done(a, p)) + (IF p = o /\ a = w THEN 1 ELSE 0)
    <3>1. CASE p = o /\ a = w
      BY <1>7, <2>2, <3>1
    <3>2. CASE ~(p = o /\ a = w)
      <4>1. {j \in Recorded(p)' : ActiveWorker(escrows'[j]) = a} = Done(a, p)
        BY <1>7, <3>2
      <4> QED
        BY <2>1, <3>2, <4>1
    <3> QED
      BY <3>1, <3>2
  <2>4. Cardinality({j \in Recorded(p)' : escrows'[j].cast.buyer = a})
          = Cardinality(Hired(a, p)) + (IF p = o /\ a = e.cast.buyer THEN 1 ELSE 0)
    <3>1. CASE p = o /\ a = e.cast.buyer
      <4>1. {j \in Recorded(p)' : escrows'[j].cast.buyer = a} = Hired(a, p) \cup {i}
        BY <1>7, <3>1
      <4> QED
        BY <2>2, <3>1, <4>1
    <3>2. CASE ~(p = o /\ a = e.cast.buyer)
      <4>1. {j \in Recorded(p)' : escrows'[j].cast.buyer = a} = Hired(a, p)
        BY <1>7, <3>2
      <4>2. (IF p = o /\ a = e.cast.buyer THEN 1 ELSE 0) = 0
        BY <3>2
      <4>3. Cardinality({j \in Recorded(p)' : escrows'[j].cast.buyer = a})
              = Cardinality(Hired(a, p))
        BY <4>1
      <4>4. Cardinality(Hired(a, p)) + 0 = Cardinality(Hired(a, p))
        BY <2>1
      <4> QED
        BY <4>2, <4>3, <4>4
    <3> QED
      BY <3>1, <3>2
  <2>5. Cardinality(Defaulted(a)') = Cardinality(Defaulted(a))
          + (IF w # e.cast.worker /\ a = e.cast.worker THEN 1 ELSE 0)
    <3>1. CASE w # e.cast.worker /\ a = e.cast.worker
      BY <1>8, <2>2, <3>1
    <3>2. CASE ~(w # e.cast.worker /\ a = e.cast.worker)
      <4>1. Defaulted(a)' = Defaulted(a)
        BY <1>8, <3>2
      <4> QED
        BY <2>1, <3>2, <4>1
    <3> QED
      BY <3>1, <3>2
  <2> QED
    BY <2>3, <2>4, <2>5
<1>11. /\ workerReputation \in [Addresses -> Reputation]
       /\ buyerReputation \in [Addresses -> Reputation]
  BY DEF TypeOK
<1>12. \A a \in Addresses, p \in Outcome :
         buyerReputation'[a][p]
           = buyerReputation[a][p] + (IF p = o /\ a = e.cast.buyer THEN 1 ELSE 0)
  <2>1. buyerReputation' = Credit(buyerReputation, e.cast.buyer, o)
    BY DEF Records, RecordOutcome
  <2> QED
    BY <1>1, <1>11, <2>1, CreditCounts DEF Reputation
<1>13. \A a \in Addresses, p \in Outcome :
         workerReputation'[a][p]
           = workerReputation[a][p] + (IF p = o /\ a = w THEN 1 ELSE 0)
               + (IF p = "failed" /\ w # e.cast.worker /\ a = e.cast.worker THEN 1 ELSE 0)
  <2> DEFINE once == Credit(workerReputation, w, o)
             twice == Credit(once, e.cast.worker, "failed")
  <2>1. workerReputation' = IF w # e.cast.worker THEN twice ELSE once
    BY DEF Records, RecordOutcome
  <2>2. once \in [Addresses -> Reputation] /\ "failed" \in Outcome
    BY <1>1, <1>11, CreditType DEF Outcome
  <2>3. \A a \in Addresses, p \in Outcome :
          once[a][p] = IF a = w /\ p = o THEN workerReputation[a][p] + 1
                       ELSE workerReputation[a][p]
    BY <1>1, <1>11, CreditCounts
  <2>4. \A a \in Addresses, p \in Outcome :
          twice[a][p] = IF a = e.cast.worker /\ p = "failed" THEN once[a][p] + 1
                        ELSE once[a][p]
    BY <1>1, <2>2, CreditCounts
  <2>5. \A a \in Addresses, p \in Outcome : workerReputation[a][p] \in Nat
    BY <1>11 DEF Reputation
  <2> HIDE DEF once, twice
  <2> QED
    BY <2>1, <2>3, <2>4, <2>5
<1>14. ReputationMatchesOutcomes'
  <2> SUFFICES ASSUME NEW a \in Addresses, NEW p \in Outcome
      PROVE /\ workerReputation'[a][p] =
                  Cardinality({j \in Recorded(p)' : ActiveWorker(escrows'[j]) = a})
                    + (IF p = "failed" THEN Cardinality(Defaulted(a)') ELSE 0)
            /\ buyerReputation'[a][p] =
                  Cardinality({j \in Recorded(p)' : escrows'[j].cast.buyer = a})
    BY DEF ReputationMatchesOutcomes
  <2>1. /\ workerReputation[a][p] = Cardinality(Done(a, p))
              + (IF p = "failed" THEN Cardinality(Defaulted(a)) ELSE 0)
        /\ buyerReputation[a][p] = Cardinality(Hired(a, p))
    BY DEF ReputationMatchesOutcomes, Done, Hired
  <2>2. /\ Cardinality(Done(a, p)) \in Nat /\ Cardinality(Hired(a, p)) \in Nat
        /\ Cardinality(Defaulted(a)) \in Nat
    <3>1. IsFiniteSet(Registered)
      <4>1. Len(escrows) \in Nat
        BY DEF TypeOK
      <4> QED
        BY <4>1, FS_Interval DEF Registered
    <3> QED
      BY <1>9, <3>1, FS_Subset, FS_CardinalityType
  <2> DEFINE done == Cardinality({j \in Recorded(p)' : ActiveWorker(escrows'[j]) = a})
             hired == Cardinality({j \in Recorded(p)' : escrows'[j].cast.buyer = a})
             gone == Cardinality(Defaulted(a)')
  <2>3. /\ done = Cardinality(Done(a, p)) + (IF p = o /\ a = w THEN 1 ELSE 0)
        /\ hired = Cardinality(Hired(a, p)) + (IF p = o /\ a = e.cast.buyer THEN 1 ELSE 0)
        /\ gone = Cardinality(Defaulted(a))
                    + (IF w # e.cast.worker /\ a = e.cast.worker THEN 1 ELSE 0)
    BY <1>10
  <2>4. buyerReputation'[a][p]
           = buyerReputation[a][p] + (IF p = o /\ a = e.cast.buyer THEN 1 ELSE 0)
    BY <1>12
  <2>5. workerReputation'[a][p]
           = workerReputation[a][p] + (IF p = o /\ a = w THEN 1 ELSE 0)
               + (IF p = "failed" /\ w # e.cast.worker /\ a = e.cast.worker THEN 1 ELSE 0)
    BY <1>13
  <2> HIDE DEF done, hired, gone, e, w
  <2>6. /\ workerReputation'[a][p] = done + (IF p = "failed" THEN gone ELSE 0)
        /\ buyerReputation'[a][p] = hired
    BY <2>1, <2>2, <2>3, <2>4, <2>5
  <2> QED
    BY <2>6 DEF done, hired, gone
<1> QED
  BY <1>2, <1>14

RecordInv == ReputationMatchesOutcomes /\ OutcomeClosed /\ BackupDistinct

LEMMA InitRecords == Init => RecordInv
<1> SUFFICES ASSUME Init PROVE RecordInv
  OBVIOUS
<1>1. Registered = {}
  BY DEF Init, Registered
<1>2. \A a \in Addresses, o \in Outcome :
         /\ {i \in Recorded(o) : ActiveWorker(escrows[i]) = a} = {}
         /\ {i \in Recorded(o) : escrows[i].cast.buyer = a} = {}
         /\ Defaulted(a) = {}
  BY <1>1 DEF Recorded, Defaulted
<1>3. Cardinality({}) = 0
  BY FS_EmptySet
<1>4. \A a \in Addresses, o \in Outcome : workerReputation[a][o] = 0
                                           /\ buyerReputation[a][o] = 0
  BY DEF Init
<1>5. ReputationMatchesOutcomes
  BY <1>2, <1>3, <1>4 DEF ReputationMatchesOutcomes
<1> QED
  BY <1>1, <1>5 DEF RecordInv, OutcomeClosed, BackupDistinct

\* Section 8: an account's counters are the outcomes of the closed escrows it
\* bought or finished, and one failure for each it was replaced in, for any
\* number of accounts and escrows in whatever order they close.
THEOREM ReputationAlwaysMatches == Spec => []ReputationMatchesOutcomes
<1>1. FactoryInv /\ RecordInv /\ [Next]_vars => RecordInv'
  BY StepRecords, QuietKeeps, RecordKeeps DEF FactoryInv, RecordInv, RecordShape
<1>2. RecordInv => ReputationMatchesOutcomes
  BY DEF RecordInv
<1> QED
  BY <1>1, <1>2, InitRecords, FactoryInvCorrect, PTL DEF Spec

-----------------------------------------------------------------------------
(* The redelegation streak.                                                *)

LEMMA StreakStep ==
    ASSUME TypeOK, [Next]_vars, NEW p \in Registered,
           redelegationFeeState'[p] # redelegationFeeState[p], IsFrequent(p)
    PROVE  redelegationFeeState'[p].streak >= redelegationFeeState[p].streak
<1>1. PICK cast \in Casts, amount \in Amounts, tier \in TierChoices, parent \in {0} \cup Ids :
        CreateEscrow(cast, amount, tier, parent)
  BY DEF Next, OwnerNext, EscrowActs, FreezeEscrow, EmergencyResolve, EscrowStep,
         SetProtocolFeeBps, SetHighAssuranceFeeBps, SetRedelegationSurchargePolicy,
         SetComplexityFloor, SetPaused, SetTreasury, FreezeAddress, TransferOwnership,
         AcceptOwnership, Tick, vars
<1>2. /\ p \in Ids /\ redelegationFeeState[p] \in [last : 0..MaxTime, streak : 0..MaxStreak]
      /\ redelegationFeeState \in [Ids -> [last : 0..MaxTime, streak : 0..MaxStreak]]
  BY RegisteredIds DEF TypeOK
<1>3. p = parent /\ redelegationFeeState'
        = [redelegationFeeState EXCEPT ![parent] = [last |-> now, streak |-> NextStreak(parent)]]
  <2>1. parent # 0 /\ PolicyOn
    BY <1>1 DEF CreateEscrow, NoteRedelegation
  <2>2. redelegationFeeState'
          = [redelegationFeeState EXCEPT ![parent] = [last |-> now, streak |-> NextStreak(parent)]]
    BY <1>1, <2>1 DEF CreateEscrow, NoteRedelegation
  <2> QED
    BY <1>2, <2>2
<1>4. redelegationFeeState'[p].streak = NextStreak(p)
  BY <1>2, <1>3
<1> QED
  BY <1>2, <1>4, BoundAssumption DEF NextStreak

\* Section 9: a redelegation inside the window never lowers the streak, at
\* the limit of the field as below it, whatever the window and the limit.
THEOREM BurstsNeverForgotten == Spec => BurstNeverForgotten
<1>1. TypeOK /\ [Next]_vars =>
        [\A p \in Registered :
           /\ redelegationFeeState'[p] # redelegationFeeState[p]
           /\ IsFrequent(p)
           => redelegationFeeState'[p].streak >= redelegationFeeState[p].streak]_vars
  BY StreakStep
<1> QED
  BY <1>1, FactoryTypeCorrect, PTL DEF Spec, BurstNeverForgotten
=============================================================================
