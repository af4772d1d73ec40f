--------------------------- MODULE IndexerProofs ---------------------------
\* What holds of the indexer for any number of passes, webhook requests and
\* blocks: the theorems of Indexer and their proofs.
EXTENDS Indexer, FiniteSetTheorems, SequenceTheorems, WellFoundedInduction, TLAPS

-----------------------------------------------------------------------------
\* The chain.

Statuses == {"none", "created", "funded", "submitted", "disputed"} \cup Closed

\* Events by what they say of the escrow: some change nothing about its end;
\* one of the others is the first of those that the closing transaction emits.
Arguments == Nat \cup {"", "worker", "buyer", "replaced"}
PlainNames == {"EscrowFunded", "WorkerStakeDeposited", "BackupActivated", "SubmissionMade", "Approved",
               "Disputed", "SilenceEscalated", "DisputeResolved", "MilestoneSubmitted",
               "MilestoneApproved", "MilestoneDisputed", "MilestoneDisputeResolved",
               "MilestoneSettled", "MilestoneCancelled", "EmergencyFrozen", "EmergencyUnfrozen"}
EndingNames == {"Settled", "Refunded", "Cancelled", "ArbitratorTimeoutClaimed",
                "EmergencyResolved", "RemainingMilestonesAborted"}
LateNames == {"Settled", "Refunded"}
BarNames == {"AddressFrozen", "AddressUnfrozen"}
OwnerNames == {"EscrowFrozen", "EscrowUnfrozen"} \cup BarNames
AllNames == PlainNames \cup EndingNames \cup OwnerNames \cup {"EscrowCreated", "OutcomeRecorded"}

Events(from, names) == [from : {from}, name : names, arg : Arguments]
Plain == Events("escrow", PlainNames)
Owned == Events("factory", OwnerNames)
Ending == Events("escrow", EndingNames)
Reports == [from : {"factory"}, name : {"OutcomeRecorded"}, arg : {"worker", "buyer", "replaced"}]
Late == Plain \cup Events("escrow", LateNames) \cup Reports \cup Events("factory", {"EmergencyResolved"})
Births == Events("factory", {"EscrowCreated"})
AllEvents == Plain \cup Owned \cup Ending \cup Late \cup Births

Logs == [block : Nat, from : {"escrow", "factory"}, name : AllNames, arg : Arguments]

\* A block with these events.
Adds(events) ==
    /\ head < MaxBlocks /\ head' = head + 1
    /\ log' = log \o [i \in 1..Len(events) |->
                        [block |-> head + 1, from |-> events[i].from,
                         name |-> events[i].name, arg |-> events[i].arg]]

OnchainOK ==
    onchain \in [status : Statuses, frozen : BOOLEAN, staked : BOOLEAN, backup : BOOLEAN,
                 count : Nat, ms : Nat, msStatus : {"pending", "submitted", "disputed"},
                 failed : BOOLEAN, barred : BOOLEAN]

\* The kinds of transaction.
Births1 == onchain.status = "none" /\ onchain'.status = "created" /\ Adds(<<Factory("EscrowCreated", "")>>)
Barring ==
    /\ onchain'.status = onchain.status /\ onchain'.frozen = onchain.frozen
    /\ \E events \in Seq(Events("factory", BarNames)) : Adds(events)
Moving ==
    /\ onchain.status # "none" /\ onchain'.status # "none"
    /\ onchain.status \in Closed <=> onchain'.status \in Closed
    /\ \E events \in Seq(Plain \cup Owned) : Adds(events)
EndsAt(events, k) ==
    /\ events \in Seq(AllEvents) /\ k \in 1..Len(events)
    /\ events[k] \in Ending
    /\ \A i \in 1..Len(events) : (i < k => events[i] \in Plain) /\ (i > k => events[i] \in Late)
Ends ==
    /\ onchain.status \notin Closed \cup {"none"} /\ onchain'.status \in Closed
    /\ \/ \E events \in Seq(Plain \cup Reports) : Adds(events)
       \/ \E events, k : EndsAt(events, k) /\ Adds(events)

LEMMA EventSets ==
    /\ Plain \subseteq AllEvents /\ Owned \subseteq AllEvents /\ Ending \subseteq AllEvents
    /\ Reports \subseteq AllEvents /\ Late \subseteq AllEvents /\ Births \subseteq AllEvents
    /\ Events("factory", BarNames) \subseteq Owned
    /\ \A e \in AllEvents : e.from \in {"escrow", "factory"} /\ e.name \in AllNames /\ e.arg \in Arguments
<1>1. /\ Plain \subseteq AllEvents /\ Owned \subseteq AllEvents /\ Ending \subseteq AllEvents
      /\ Reports \subseteq AllEvents /\ Late \subseteq AllEvents /\ Births \subseteq AllEvents
  BY DEF AllEvents, Late
<1>2. Events("factory", BarNames) \subseteq Owned
  BY DEF Owned, Events, OwnerNames
<1>3. \A e \in Plain \cup Owned \cup Ending \cup Births :
         e.from \in {"escrow", "factory"} /\ e.name \in AllNames /\ e.arg \in Arguments
  BY DEF Plain, Owned, Ending, Births, Events, AllNames
<1>4. \A e \in Reports : e.from = "factory" /\ e.name \in AllNames /\ e.arg \in Arguments
  BY DEF Reports, Arguments, AllNames
<1>5. \A e \in Events("escrow", LateNames) \cup Events("factory", {"EmergencyResolved"}) :
         e.from \in {"escrow", "factory"} /\ e.name \in AllNames /\ e.arg \in Arguments
  BY DEF Events, LateNames, AllNames, EndingNames
<1> QED
  BY <1>1, <1>2, <1>3, <1>4, <1>5 DEF AllEvents, Late

LEMMA LogGrows ==
    ASSUME log \in Seq(Logs), head \in Nat, NEW events \in Seq(AllEvents), Adds(events)
    PROVE  /\ log' \in Seq(Logs) /\ Len(log') = Len(log) + Len(events)
           /\ Len(log) \in Nat /\ Len(events) \in Nat
           /\ \A l \in 1..Len(log) : log'[l] = log[l]
           /\ \A i \in 1..Len(events) :
                 log'[Len(log) + i] = [block |-> head + 1, from |-> events[i].from,
                                       name |-> events[i].name, arg |-> events[i].arg]
<1> DEFINE new == [i \in 1..Len(events) |-> [block |-> head + 1, from |-> events[i].from,
                                             name |-> events[i].name, arg |-> events[i].arg]]
<1>1. Len(events) \in Nat /\ \A i \in 1..Len(events) : events[i] \in AllEvents
  OBVIOUS
<1>2. \A i \in 1..Len(events) : new[i] \in Logs
  BY <1>1, EventSets DEF Logs
<1>3. new \in Seq(Logs) /\ Len(new) = Len(events)
  BY <1>1, <1>2
<1>4. log' = log \o new
  BY DEF Adds
<1>5. \A i \in 1..Len(events) : new[i] = [block |-> head + 1, from |-> events[i].from,
                                          name |-> events[i].name, arg |-> events[i].arg]
  OBVIOUS
<1> HIDE DEF new
<1>6. /\ log \o new \in Seq(Logs) /\ Len(log \o new) = Len(log) + Len(new)
      /\ \A i \in 1..Len(log) + Len(new) : (log \o new)[i] = IF i <= Len(log) THEN log[i] ELSE new[i - Len(log)]
  BY <1>3, ConcatProperties
<1>7. Len(log) \in Nat
  OBVIOUS
<1>8. \A l \in 1..Len(log) : log'[l] = log[l]
  BY <1>1, <1>3, <1>4, <1>6, <1>7
<1>9. \A i \in 1..Len(events) : log'[Len(log) + i] = new[i]
  BY <1>1, <1>3, <1>4, <1>6, <1>7
<1> QED
  BY <1>1, <1>3, <1>4, <1>5, <1>6, <1>7, <1>8, <1>9

LEMMA MinedAdds ==
    ASSUME NEW t, NEW events, NEW after, Mined(t, events, after)
    PROVE  Adds(events) /\ onchain' = after
  BY DEF Mined, Adds

LEMMA EscrowEvents ==
    /\ \A name \in PlainNames, arg \in Arguments : Escrow(name, arg) \in Plain
    /\ \A name \in EndingNames, arg \in Arguments : Escrow(name, arg) \in Ending
    /\ \A name \in OwnerNames, arg \in Arguments : Factory(name, arg) \in Owned
    /\ \A name \in BarNames, arg \in Arguments : Factory(name, arg) \in Events("factory", BarNames)
    /\ Escrow("Settled", "") \in Late /\ Escrow("Refunded", "") \in Late
    /\ Factory("EmergencyResolved", "") \in Late /\ Factory("EscrowCreated", "") \in Births
    /\ "" \in Arguments /\ Nat \subseteq Arguments
  BY DEF Escrow, Factory, Plain, Ending, Owned, Late, Births, Events, Arguments, LateNames

\* Short sequences of a set.
LEMMA Short ==
    ASSUME NEW S
    PROVE  /\ <<>> \in Seq(S)
           /\ \A a \in S : <<a>> \in Seq(S)
           /\ \A a, b \in S : <<a, b>> \in Seq(S)
  OBVIOUS

LEMMA OutcomeReports == OnchainOK => Outcome \in Seq(Reports)
<1>1. /\ Factory("OutcomeRecorded", "worker") \in Reports /\ Factory("OutcomeRecorded", "buyer") \in Reports
      /\ Factory("OutcomeRecorded", "replaced") \in Reports
  BY DEF Factory, Reports
<1>2. <<Factory("OutcomeRecorded", "worker"), Factory("OutcomeRecorded", "buyer")>> \in Seq(Reports)
  BY <1>1
<1>3. (IF onchain.backup THEN <<Factory("OutcomeRecorded", "replaced")>> ELSE <<>>) \in Seq(Reports)
  BY <1>1
<1> QED
  BY <1>2, <1>3, ConcatProperties DEF Outcome

LEMMA StakeLate == StakeSettled \in Seq(Events("escrow", {"Settled"}))
<1>1. Escrow("Settled", 0) \in Events("escrow", {"Settled"})
  BY DEF Escrow, Events, Arguments
<1> QED
  BY <1>1, Short DEF StakeSettled

\* Two parts of a set's sequences make a sequence of the set.
LEMMA Joined ==
    ASSUME NEW S, NEW A, NEW B, NEW a \in Seq(A), NEW b \in Seq(B), A \subseteq S, B \subseteq S
    PROVE  a \o b \in Seq(S)
<1>1. a \in Seq(S) /\ b \in Seq(S)
  BY SeqMonotonic
<1> QED
  BY <1>1, ConcatProperties

\* The steps that leave the escrow open.
LEMMA MovingSteps ==
    ASSUME OnchainOK, \/ Fund \/ DepositStake \/ ActivateBackup \/ Submit \/ Dispute \/ EscalateSilence
                      \/ SubmitMilestone \/ DisputeMilestone
    PROVE  Moving /\ OnchainOK'
<1>1. \A e \in Plain : <<e>> \in Seq(Plain \cup Owned)
  OBVIOUS
<1>2. CASE Fund
  <2>1. Adds(<<Escrow("EscrowFunded", "")>>) /\ onchain' = To("funded") /\ onchain.status = "created"
    BY <1>2, MinedAdds DEF Fund
  <2>2. <<Escrow("EscrowFunded", "")>> \in Seq(Plain \cup Owned)
    BY <1>1, EscrowEvents DEF PlainNames
  <2> QED
    BY <2>1, <2>2 DEF Moving, OnchainOK, Statuses, Closed, To
<1>3. CASE DepositStake
  <2>1. Adds(<<Escrow("WorkerStakeDeposited", "")>>) /\ onchain' = [onchain EXCEPT !.staked = TRUE]
        /\ onchain.status = "funded"
    BY <1>3, MinedAdds DEF DepositStake
  <2>2. <<Escrow("WorkerStakeDeposited", "")>> \in Seq(Plain \cup Owned)
    BY <1>1, EscrowEvents DEF PlainNames
  <2> QED
    BY <2>1, <2>2 DEF Moving, OnchainOK, Closed
<1>4. CASE ActivateBackup
  <2>1. Adds(<<Escrow("BackupActivated", "")>>) /\ onchain' = [onchain EXCEPT !.backup = TRUE, !.staked = FALSE]
        /\ onchain.status = "funded"
    BY <1>4, MinedAdds DEF ActivateBackup
  <2>2. <<Escrow("BackupActivated", "")>> \in Seq(Plain \cup Owned)
    BY <1>1, EscrowEvents DEF PlainNames
  <2> QED
    BY <2>1, <2>2 DEF Moving, OnchainOK, Closed
<1>5. CASE Submit
  <2>1. Adds(<<Escrow("SubmissionMade", "")>>) /\ onchain' = To("submitted") /\ onchain.status = "funded"
    BY <1>5, MinedAdds DEF Submit
  <2>2. <<Escrow("SubmissionMade", "")>> \in Seq(Plain \cup Owned)
    BY <1>1, EscrowEvents DEF PlainNames
  <2> QED
    BY <2>1, <2>2 DEF Moving, OnchainOK, Statuses, Closed, To
<1>6. CASE Dispute
  <2>1. Adds(<<Escrow("Disputed", "")>>) /\ onchain' = To("disputed") /\ onchain.status = "submitted"
    BY <1>6, MinedAdds DEF Dispute
  <2>2. <<Escrow("Disputed", "")>> \in Seq(Plain \cup Owned)
    BY <1>1, EscrowEvents DEF PlainNames
  <2> QED
    BY <2>1, <2>2 DEF Moving, OnchainOK, Statuses, Closed, To
<1>7. CASE EscalateSilence
  <2>1. Adds(<<Escrow("SilenceEscalated", ""), Escrow("Disputed", "")>>) /\ onchain' = To("disputed")
        /\ onchain.status = "submitted"
    BY <1>7, MinedAdds DEF EscalateSilence
  <2>2. Escrow("SilenceEscalated", "") \in Plain \cup Owned /\ Escrow("Disputed", "") \in Plain \cup Owned
    BY EscrowEvents DEF PlainNames
  <2>3. <<Escrow("SilenceEscalated", ""), Escrow("Disputed", "")>> \in Seq(Plain \cup Owned)
    BY <2>2, Short
  <2> QED
    BY <2>1, <2>3 DEF Moving, OnchainOK, Statuses, Closed, To
<1>8. CASE SubmitMilestone
  <2>1. Adds(<<Escrow("MilestoneSubmitted", onchain.ms)>>) /\ onchain' = MilestoneTo("submitted")
        /\ onchain.status = "funded"
    BY <1>8, MinedAdds DEF SubmitMilestone
  <2>2. <<Escrow("MilestoneSubmitted", onchain.ms)>> \in Seq(Plain \cup Owned)
    BY <1>1, EscrowEvents DEF PlainNames, OnchainOK
  <2> QED
    BY <2>1, <2>2 DEF Moving, OnchainOK, Closed, MilestoneTo
<1>9. CASE DisputeMilestone
  <2>1. Adds(<<Escrow("MilestoneDisputed", onchain.ms)>>) /\ onchain' = MilestoneTo("disputed")
        /\ onchain.status = "funded"
    BY <1>9, MinedAdds DEF DisputeMilestone
  <2>2. <<Escrow("MilestoneDisputed", onchain.ms)>> \in Seq(Plain \cup Owned)
    BY <1>1, EscrowEvents DEF PlainNames, OnchainOK
  <2> QED
    BY <2>1, <2>2 DEF Moving, OnchainOK, Closed, MilestoneTo
<1> QED
  BY <1>2, <1>3, <1>4, <1>5, <1>6, <1>7, <1>8, <1>9

\* The owner's steps.
LEMMA OwnerSteps ==
    ASSUME OnchainOK, Freeze \/ Unfreeze, onchain.frozen = TRUE => onchain.status # "none"
    PROVE  Moving /\ OnchainOK'
<1> DEFINE two(n, m) == <<Escrow(n, ""), Factory(m, "")>>
<1>1. \A n \in PlainNames, m \in OwnerNames : two(n, m) \in Seq(Plain \cup Owned)
  <2> SUFFICES ASSUME NEW n \in PlainNames, NEW m \in OwnerNames
               PROVE  two(n, m) \in Seq(Plain \cup Owned)
    OBVIOUS
  <2>1. Escrow(n, "") \in Plain \cup Owned /\ Factory(m, "") \in Plain \cup Owned
    BY EscrowEvents
  <2> QED
    BY <2>1, Short
<1>2. CASE Freeze
  <2>1. Adds(two("EmergencyFrozen", "EscrowFrozen")) /\ onchain' = [onchain EXCEPT !.frozen = TRUE]
        /\ onchain.status # "none"
    BY <1>2, MinedAdds DEF Freeze
  <2>2. two("EmergencyFrozen", "EscrowFrozen") \in Seq(Plain \cup Owned)
    BY <1>1 DEF PlainNames, OwnerNames
  <2> HIDE DEF two
  <2> QED
    BY <2>1, <2>2 DEF Moving, OnchainOK, Closed
<1>3. CASE Unfreeze
  <2>1. Adds(two("EmergencyUnfrozen", "EscrowUnfrozen")) /\ onchain' = [onchain EXCEPT !.frozen = FALSE]
        /\ onchain.status # "none"
    BY <1>3, MinedAdds DEF Unfreeze
  <2>2. two("EmergencyUnfrozen", "EscrowUnfrozen") \in Seq(Plain \cup Owned)
    BY <1>1 DEF PlainNames, OwnerNames
  <2> HIDE DEF two
  <2> QED
    BY <2>1, <2>2 DEF Moving, OnchainOK, Closed
<1> QED
  BY <1>2, <1>3

LEMMA BarringSteps ==
    ASSUME OnchainOK, FreezeAddress \/ UnfreezeAddress
    PROVE  Barring /\ OnchainOK'
<1>1. CASE FreezeAddress
  <2>1. Adds(<<Factory("AddressFrozen", "")>>) /\ onchain' = [onchain EXCEPT !.barred = TRUE]
    BY <1>1, MinedAdds DEF FreezeAddress
  <2>2. <<Factory("AddressFrozen", "")>> \in Seq(Events("factory", BarNames))
    BY EscrowEvents, Short DEF BarNames
  <2> QED
    BY <2>1, <2>2 DEF Barring, OnchainOK
<1>2. CASE UnfreezeAddress
  <2>1. Adds(<<Factory("AddressUnfrozen", "")>>) /\ onchain' = [onchain EXCEPT !.barred = FALSE]
    BY <1>2, MinedAdds DEF UnfreezeAddress
  <2>2. <<Factory("AddressUnfrozen", "")>> \in Seq(Events("factory", BarNames))
    BY EscrowEvents, Short DEF BarNames
  <2> QED
    BY <2>1, <2>2 DEF Barring, OnchainOK
<1> QED
  BY <1>1, <1>2

LEMMA CreateStep ==
    ASSUME OnchainOK, Create
    PROVE  Births1 /\ OnchainOK'
<1>1. PICK n \in MilestoneCounts : Mined("create", <<Factory("EscrowCreated", "")>>,
                                         [onchain EXCEPT !.status = "created", !.count = n])
  BY DEF Create
<1>2. Adds(<<Factory("EscrowCreated", "")>>) /\ onchain' = [onchain EXCEPT !.status = "created", !.count = n]
      /\ onchain.status = "none" /\ n \in Nat
  BY <1>1, MinedAdds, ChainAssumption DEF Create
<1> QED
  BY <1>2 DEF Births1, OnchainOK, Statuses

\* A closing transaction's events, part by part.
LEMMA EndsFirst ==
    ASSUME NEW a \in Seq(Plain), NEW e \in Ending
    PROVE  EndsAt(a \o <<e>>, Len(a) + 1)
<1>1. a \in Seq(AllEvents) /\ <<e>> \in Seq(AllEvents) /\ Len(a) \in Nat
  BY EventSets, SeqMonotonic, Short
<1>2. /\ a \o <<e>> \in Seq(AllEvents) /\ Len(a \o <<e>>) = Len(a) + 1
      /\ \A i \in 1..Len(a) + 1 : (a \o <<e>>)[i] = IF i <= Len(a) THEN a[i] ELSE <<e>>[i - Len(a)]
  BY <1>1, ConcatProperties
<1>3. (a \o <<e>>)[Len(a) + 1] = e
  BY <1>1, <1>2
<1> QED
  BY <1>1, <1>2, <1>3 DEF EndsAt

LEMMA EndsThen ==
    ASSUME NEW a, NEW k, EndsAt(a, k), NEW b \in Seq(Late)
    PROVE  EndsAt(a \o b, k)
<1>1. b \in Seq(AllEvents) /\ Len(b) \in Nat /\ a \in Seq(AllEvents) /\ Len(a) \in Nat /\ k \in 1..Len(a)
  BY EventSets, SeqMonotonic DEF EndsAt
<1>2. /\ a \o b \in Seq(AllEvents) /\ Len(a \o b) = Len(a) + Len(b)
      /\ \A i \in 1..Len(a) + Len(b) : (a \o b)[i] = IF i <= Len(a) THEN a[i] ELSE b[i - Len(a)]
  BY <1>1, ConcatProperties
<1>3. \A j \in 1..Len(b) : b[j] \in Late
  OBVIOUS
<1>4. ASSUME NEW i \in 1..Len(a) + Len(b)
      PROVE  (i < k => (a \o b)[i] \in Plain) /\ (i > k => (a \o b)[i] \in Late)
  <2>1. CASE i <= Len(a)
    BY <1>1, <1>2, <2>1 DEF EndsAt
  <2>2. CASE i > Len(a)
    <3>1. i - Len(a) \in 1..Len(b) /\ i > k /\ (a \o b)[i] = b[i - Len(a)]
      BY <1>1, <1>2, <2>2
    <3> QED
      BY <1>1, <1>3, <3>1
  <2> QED
    BY <1>1, <2>1, <2>2
<1>5. (a \o b)[k] = a[k] /\ k \in 1..Len(a) + Len(b)
  BY <1>1, <1>2
<1> QED
  BY <1>2, <1>4, <1>5 DEF EndsAt

LEMMA EndsAlone ==
    ASSUME NEW e \in Ending
    PROVE  /\ EndsAt(<<e>>, 1)
           /\ \A p \in Plain : EndsAt(<<p, e>>, 2)
           /\ \A l \in Late : EndsAt(<<e, l>>, 1)
<1>1. \A f \in Plain \cup Late \cup Ending : f \in AllEvents
  BY EventSets
<1> QED
  BY <1>1 DEF EndsAt

LEMMA ReportsLate ==
    /\ Reports \subseteq Late /\ Events("escrow", {"Settled"}) \subseteq Late /\ Plain \subseteq Late
    /\ OnchainOK => Outcome \in Seq(Late)
    /\ StakeSettled \in Seq(Late)
<1>1. Reports \subseteq Late /\ Events("escrow", {"Settled"}) \subseteq Late /\ Plain \subseteq Late
  BY DEF Late, Events, LateNames
<1> QED
  BY <1>1, OutcomeReports, StakeLate, SeqMonotonic

\* Whatever the events, the escrow is closed.
LEMMA EndsTo ==
    ASSUME OnchainOK, NEW s \in Closed, NEW events, NEW k, EndsAt(events, k), Adds(events),
           onchain.status \notin Closed \cup {"none"}, onchain' = To(s)
    PROVE  Ends /\ OnchainOK'
<1>1. onchain'.status = s /\ OnchainOK'
  BY DEF OnchainOK, To, Statuses
<1> QED
  BY <1>1 DEF Ends

LEMMA EndSteps ==
    ASSUME OnchainOK, Cancel \/ Approve \/ Resolve \/ ClaimTimeoutRefund \/ ClaimArbitratorTimeout
    PROVE  Ends /\ OnchainOK'
<1>1. \A n \in EndingNames : Escrow(n, "") \in Ending
  BY EscrowEvents
<1>2. Outcome \in Seq(Late)
  BY ReportsLate
<1>3. CASE Cancel
  <2>1. Adds(<<Escrow("Cancelled", "")>>) /\ onchain' = To("cancelled") /\ onchain.status = "created"
    BY <1>3, MinedAdds DEF Cancel
  <2>2. EndsAt(<<Escrow("Cancelled", "")>>, 1)
    BY <1>1, EndsAlone DEF EndingNames
  <2> QED
    BY <2>1, <2>2, EndsTo DEF Closed
<1>4. CASE Approve
  <2> DEFINE first == <<Escrow("Approved", ""), Escrow("Settled", "")>>
  <2>1. Adds(first \o Outcome) /\ onchain' = To("settled") /\ onchain.status = "submitted"
    BY <1>4, MinedAdds DEF Approve
  <2>2. EndsAt(first, 2)
    BY <1>1, EndsAlone, EscrowEvents DEF EndingNames, PlainNames
  <2> HIDE DEF first
  <2>3. EndsAt(first \o Outcome, 2)
    BY <1>2, <2>2, EndsThen
  <2> QED
    BY <2>1, <2>3, EndsTo DEF Closed
<1>5. CASE Resolve
  <2> DEFINE first == <<Escrow("DisputeResolved", ""), Escrow("Settled", "")>>
  <2>1. Adds(first \o Outcome) /\ onchain' = To("settled") /\ onchain.status = "disputed"
    BY <1>5, MinedAdds DEF Resolve
  <2>2. EndsAt(first, 2)
    BY <1>1, EndsAlone, EscrowEvents DEF EndingNames, PlainNames
  <2> HIDE DEF first
  <2>3. EndsAt(first \o Outcome, 2)
    BY <1>2, <2>2, EndsThen
  <2> QED
    BY <2>1, <2>3, EndsTo DEF Closed
<1>6. CASE ClaimTimeoutRefund
  <2> DEFINE first == <<Escrow("Refunded", "")>>
  <2>1. Adds(first \o Outcome) /\ onchain' = To("refunded") /\ onchain.status = "funded"
    BY <1>6, MinedAdds DEF ClaimTimeoutRefund
  <2>2. EndsAt(first, 1)
    BY <1>1, EndsAlone DEF EndingNames
  <2> HIDE DEF first
  <2>3. EndsAt(first \o Outcome, 1)
    BY <1>2, <2>2, EndsThen
  <2> QED
    BY <2>1, <2>3, EndsTo DEF Closed
<1>7. CASE ClaimArbitratorTimeout
  <2> DEFINE first == <<Escrow("ArbitratorTimeoutClaimed", ""), Escrow("Refunded", "")>>
  <2>1. Adds(first \o Outcome) /\ onchain' = To("refunded") /\ onchain.status = "disputed"
    BY <1>7, MinedAdds DEF ClaimArbitratorTimeout
  <2>2. EndsAt(first, 1)
    BY <1>1, EndsAlone, EscrowEvents DEF EndingNames
  <2> HIDE DEF first
  <2>3. EndsAt(first \o Outcome, 1)
    BY <1>2, <2>2, EndsThen
  <2> QED
    BY <2>1, <2>3, EndsTo DEF Closed
<1> QED
  BY <1>3, <1>4, <1>5, <1>6, <1>7

\* A milestone closes, and perhaps the escrow with it.
LEMMA AdvancedEnds ==
    ASSUME OnchainOK, onchain.status = "funded", NEW t, NEW name \in PlainNames, NEW failed \in BOOLEAN,
           Advanced(t, <<Escrow(name, onchain.ms)>>, failed)
    PROVE  (Moving \/ Ends) /\ OnchainOK'
<1> DEFINE two == <<Escrow(name, onchain.ms)>> \o <<Escrow("MilestoneSettled", onchain.ms)>>
<1>1. onchain.ms \in Nat /\ onchain.count \in Nat
  BY DEF OnchainOK
<1>2. Escrow(name, onchain.ms) \in Plain /\ Escrow("MilestoneSettled", onchain.ms) \in Plain
  BY <1>1, EscrowEvents DEF PlainNames
<1>3. two \in Seq(Plain)
  BY <1>2, Short, ConcatProperties
<1>4. CASE onchain.ms + 1 < onchain.count
  <2>1. Adds(two) /\ onchain' = [onchain EXCEPT !.ms = @ + 1, !.msStatus = "pending", !.failed = failed]
    BY <1>4, MinedAdds DEF Advanced
  <2>2. two \in Seq(Plain \cup Owned)
    BY <1>3, SeqMonotonic
  <2>3. onchain'.status = "funded" /\ OnchainOK'
    <3>1. onchain.ms + 1 \in Nat
      BY <1>1
    <3> DEFINE next == onchain.ms + 1
    <3>2. onchain' = [onchain EXCEPT !.ms = next, !.msStatus = "pending", !.failed = failed]
      BY <2>1
    <3> HIDE DEF next
    <3> QED
      BY <3>1, <3>2 DEF OnchainOK, next
  <2> HIDE DEF two
  <2> QED
    BY <2>1, <2>2, <2>3 DEF Moving, Closed
<1>5. CASE ~(onchain.ms + 1 < onchain.count)
  <2>1. Adds(two \o StakeSettled \o Outcome) /\ onchain' = To("settled")
    BY <1>5, MinedAdds DEF Advanced
  <2> HIDE DEF two
  <2>2. CASE onchain.staked
    <3>1. StakeSettled = <<Escrow("Settled", 0)>> /\ Escrow("Settled", 0) \in Ending
      BY <2>2, EscrowEvents DEF StakeSettled, EndingNames
    <3>2. EndsAt(two \o StakeSettled, Len(two) + 1)
      BY <1>3, <3>1, EndsFirst
    <3>3. EndsAt(two \o StakeSettled \o Outcome, Len(two) + 1)
      BY <3>2, ReportsLate, EndsThen
    <3> QED
      BY <2>1, <3>3, EndsTo DEF Closed
  <2>3. CASE ~onchain.staked
    <3>1. StakeSettled = <<>>
      BY <2>3 DEF StakeSettled
    <3>2. two \o StakeSettled = two
      BY <1>3, <3>1, ConcatEmptySeq
    <3>3. two \o StakeSettled \o Outcome \in Seq(Plain \cup Reports)
      BY <1>3, <3>2, OutcomeReports, Joined
    <3>4. onchain'.status = "settled" /\ OnchainOK'
      BY <2>1 DEF OnchainOK, To, Statuses, Closed
    <3> QED
      BY <2>1, <3>3, <3>4 DEF Ends, Closed
  <2> QED
    BY <2>2, <2>3
<1> QED
  BY <1>4, <1>5

LEMMA MilestoneSteps ==
    ASSUME OnchainOK, ClaimMilestoneTimeout \/ ApproveMilestone \/ ResolveMilestone
    PROVE  (Moving \/ Ends) /\ OnchainOK'
<1>1. CASE ClaimMilestoneTimeout
  BY <1>1, AdvancedEnds DEF ClaimMilestoneTimeout, PlainNames
<1>2. CASE ApproveMilestone
  BY <1>2, AdvancedEnds DEF ApproveMilestone, PlainNames
<1>3. CASE ResolveMilestone
  BY <1>3, AdvancedEnds DEF ResolveMilestone, PlainNames
<1> QED
  BY <1>1, <1>2, <1>3

\* Some milestones in a row.
LEMMA InARow ==
    ASSUME NEW n \in Int, NEW ms \in Nat, NEW name \in PlainNames
    PROVE  [i \in 1..n |-> Escrow(name, ms + i - 1)] \in Seq(Plain)
<1>1. \A i \in 1..n : Escrow(name, ms + i - 1) \in Plain
  <2> SUFFICES ASSUME NEW i \in 1..n PROVE Escrow(name, ms + i - 1) \in Plain
    OBVIOUS
  <2>1. ms + i - 1 \in Nat
    OBVIOUS
  <2> QED
    BY <2>1, EscrowEvents
<1>2. CASE n \in Nat
  BY <1>1, <1>2
<1>3. CASE n \notin Nat
  <2>1. 1..n = 1..0
    BY <1>3
  <2> QED
    BY <1>1, <2>1
<1> QED
  BY <1>2, <1>3

LEMMA AbortStep ==
    ASSUME OnchainOK, AbortRemainingMilestones
    PROVE  Ends /\ OnchainOK'
<1> DEFINE left == onchain.count - onchain.ms
           cancels == [i \in 1..left |-> Escrow("MilestoneCancelled", onchain.ms + i - 1)]
           aborted == Escrow("RemainingMilestonesAborted", onchain.ms)
<1>1. Adds(cancels \o <<aborted>> \o StakeSettled \o Outcome) /\ onchain' = To("refunded")
      /\ onchain.status = "funded"
  BY MinedAdds DEF AbortRemainingMilestones
<1>2. cancels \in Seq(Plain)
  <2>1. left \in Int /\ onchain.ms \in Nat /\ "MilestoneCancelled" \in PlainNames
    BY DEF OnchainOK, PlainNames
  <2> HIDE DEF left
  <2> QED
    BY <2>1, InARow
<1>3. aborted \in Ending
  BY EscrowEvents DEF OnchainOK, EndingNames
<1> HIDE DEF cancels, aborted
<1>4. EndsAt(cancels \o <<aborted>>, Len(cancels) + 1)
  BY <1>2, <1>3, EndsFirst
<1>5. EndsAt(cancels \o <<aborted>> \o StakeSettled, Len(cancels) + 1)
  BY <1>4, ReportsLate, EndsThen
<1>6. EndsAt(cancels \o <<aborted>> \o StakeSettled \o Outcome, Len(cancels) + 1)
  BY <1>5, ReportsLate, EndsThen
<1> QED
  BY <1>1, <1>6, EndsTo DEF Closed

LEMMA EmergencyStep ==
    ASSUME OnchainOK, EmergencyResolve, onchain.frozen = TRUE => onchain.status # "none"
    PROVE  Ends /\ OnchainOK'
<1>1. onchain.status \notin Closed \cup {"none"}
  BY DEF EmergencyResolve, OnchainOK
<1> DEFINE told == Escrow("EmergencyResolved", "")
           middle == IF onchain.count = 1 THEN <<Escrow("Settled", "")>> ELSE MilestonesSettled
           last == Factory("EmergencyResolved", "")
<1>2. told \in Ending /\ last \in Late /\ Escrow("Cancelled", "") \in Ending
  BY EscrowEvents DEF EndingNames
<1>3. CASE onchain' = To("cancelled") /\ Adds(<<Escrow("Cancelled", ""), last>>)
  <2>1. EndsAt(<<Escrow("Cancelled", ""), last>>, 1)
    BY <1>2, EndsAlone
  <2> HIDE DEF last
  <2> QED
    BY <1>1, <1>3, <2>1, EndsTo DEF Closed
<1>4. CASE onchain' = To("settled") /\ Adds(<<told>> \o middle \o Outcome \o <<last>>)
  <2>1. middle \in Seq(Late)
    <3>1. CASE onchain.count = 1
      BY <3>1, EscrowEvents, Short
    <3>2. CASE onchain.count # 1
      <4>1. [i \in 1..onchain.count - onchain.ms |-> Escrow("MilestoneSettled", onchain.ms + i - 1)] \in Seq(Plain)
        <5>1. onchain.count - onchain.ms \in Int /\ onchain.ms \in Nat /\ "MilestoneSettled" \in PlainNames
          BY DEF OnchainOK, PlainNames
        <5> DEFINE n == onchain.count - onchain.ms
        <5> HIDE DEF n
        <5>2. [i \in 1..n |-> Escrow("MilestoneSettled", onchain.ms + i - 1)] \in Seq(Plain)
          BY <5>1, InARow DEF n
        <5> QED
          BY <5>2 DEF n
      <4> QED
        BY <3>2, <4>1, ReportsLate, Joined DEF MilestonesSettled
    <3> QED
      BY <3>1, <3>2
  <2> HIDE DEF told, middle, last
  <2>2. EndsAt(<<told>>, 1)
    BY <1>2, EndsAlone
  <2>3. EndsAt(<<told>> \o middle, 1)
    BY <2>1, <2>2, EndsThen
  <2>4. EndsAt(<<told>> \o middle \o Outcome, 1)
    BY <2>3, ReportsLate, EndsThen
  <2>5. EndsAt(<<told>> \o middle \o Outcome \o <<last>>, 1)
    BY <1>2, <2>4, Short, EndsThen
  <2> QED
    BY <1>1, <1>4, <2>5, EndsTo DEF Closed
<1>5. \/ onchain' = To("cancelled") /\ Adds(<<Escrow("Cancelled", ""), last>>)
      \/ onchain' = To("settled") /\ Adds(<<told>> \o middle \o Outcome \o <<last>>)
  BY MinedAdds DEF EmergencyResolve
<1> QED
  BY <1>3, <1>4, <1>5

\* Every transaction is of one of these kinds.
LEMMA Kinds ==
    ASSUME OnchainOK, Mine, onchain.frozen = TRUE => onchain.status # "none"
    PROVE  (Births1 \/ Barring \/ Moving \/ Ends) /\ OnchainOK'
  BY CreateStep, BarringSteps, MovingSteps, OwnerSteps, EndSteps, MilestoneSteps, AbortStep, EmergencyStep DEF Mine

-----------------------------------------------------------------------------
\* What holds of every chain.

Places == 1..Len(log)
Told(l) == [from |-> log[l].from, name |-> log[l].name, arg |-> log[l].arg]
LastWords == {"EmergencyResolved", "RemainingMilestonesAborted"}

\* Blocks are filled in order; nothing is said of an escrow before it is created,
\* nothing of its end before it ends, and the two events that the database takes
\* for an end by themselves come no later than the others.
LogOK ==
    /\ log \in Seq(Logs)
    /\ \A l \in Places : log[l].block \in 1..head /\ Told(l) \in AllEvents
    /\ \A l, m \in Places : l <= m => log[l].block <= log[m].block
BornOK ==
    /\ onchain.status # "none" => \E k \in Places : log[k].name = "EscrowCreated"
    /\ \A l \in Places : log[l].from = "escrow" => \E k \in Places : k < l /\ log[k].name = "EscrowCreated"
EndsOK ==
    /\ onchain.status \notin Closed => \A l \in Places : log[l].name \notin EndingNames
    /\ \A l, m \in Places :
          (log[l].name \in LastWords /\ log[m].name \in EndingNames /\ log[m].from = "escrow") =>
             IF log[l].from = "escrow" THEN l <= m ELSE log[l].block <= log[m].block
ChainInv ==
    /\ OnchainOK /\ (onchain.frozen = TRUE => onchain.status # "none")
    /\ head \in Nat /\ head <= MaxBlocks
    /\ LogOK /\ BornOK /\ EndsOK

\* The new logs.
New == Places' \ Places
Says(l, e) == log'[l].from = e.from /\ log'[l].name = e.name /\ log'[l].arg = e.arg

LEMMA LogStep ==
    ASSUME ChainInv, NEW events \in Seq(AllEvents), Adds(events)
    PROVE  /\ LogOK' /\ head' = head + 1 /\ head' \in Nat /\ head' <= MaxBlocks
           /\ Places \subseteq Places' /\ \A l \in Places : log'[l] = log[l]
           /\ \A l \in Places, m \in New : l < m
           /\ \A l \in New : l - Len(log) \in 1..Len(events) /\ Says(l, events[l - Len(log)])
           /\ \A l \in New : log'[l].block = head + 1
           /\ \A i \in 1..Len(events) : Len(log) + i \in New
           /\ Len(log) \in Nat
<1>1. log \in Seq(Logs) /\ head \in Nat /\ head <= MaxBlocks
  BY DEF ChainInv, LogOK
<1>2. /\ log' \in Seq(Logs) /\ Len(log') = Len(log) + Len(events)
      /\ Len(log) \in Nat /\ Len(events) \in Nat
      /\ \A l \in 1..Len(log) : log'[l] = log[l]
      /\ \A i \in 1..Len(events) :
            log'[Len(log) + i] = [block |-> head + 1, from |-> events[i].from,
                                  name |-> events[i].name, arg |-> events[i].arg]
  BY <1>1, LogGrows
<1>3. head' = head + 1 /\ head < MaxBlocks
  BY DEF Adds
<1>4. Places \subseteq Places' /\ \A l \in Places : log'[l] = log[l]
  BY <1>2 DEF Places
<1>5. /\ \A l \in Places, m \in New : l < m
      /\ \A l \in New : l - Len(log) \in 1..Len(events) /\ l = Len(log) + (l - Len(log))
      /\ \A i \in 1..Len(events) : Len(log) + i \in New
  BY <1>2 DEF Places, New
<1>6. \A i \in 1..Len(events) : events[i] = [from |-> events[i].from, name |-> events[i].name, arg |-> events[i].arg]
                                /\ events[i] \in AllEvents
  BY DEF AllEvents, Plain, Owned, Ending, Late, Reports, Births, Events
<1>7. \A l \in New : log'[l].block = head + 1 /\ Says(l, events[l - Len(log)])
  <2> SUFFICES ASSUME NEW l \in New
               PROVE  log'[l].block = head + 1 /\ Says(l, events[l - Len(log)])
    OBVIOUS
  <2> DEFINE i == l - Len(log)
  <2>1. i \in 1..Len(events) /\ l = Len(log) + i
    BY <1>5
  <2>2. log'[l] = [block |-> head + 1, from |-> events[i].from, name |-> events[i].name, arg |-> events[i].arg]
    BY <1>2, <2>1
  <2> QED
    BY <1>6, <2>1, <2>2 DEF Says
<1>8. \A l \in Places : log'[l].block \in 1..head + 1
                       /\ [from |-> log'[l].from, name |-> log'[l].name, arg |-> log'[l].arg] \in AllEvents
  BY <1>1, <1>4 DEF ChainInv, LogOK, Told
<1>11. \A l \in New : [from |-> log'[l].from, name |-> log'[l].name, arg |-> log'[l].arg] \in AllEvents
  BY <1>5, <1>6, <1>7 DEF Says
<1>9. \A l, m \in Places' : l <= m => log'[l].block <= log'[m].block
  <2> SUFFICES ASSUME NEW l \in Places', NEW m \in Places', l <= m
               PROVE  log'[l].block <= log'[m].block
    OBVIOUS
  <2>1. CASE l \in Places /\ m \in Places
    BY <1>4, <2>1 DEF ChainInv, LogOK
  <2>2. CASE l \in Places /\ m \in New
    <3>1. log'[m].block = head + 1 /\ log'[l].block = log[l].block /\ log[l].block \in 1..head
      BY <1>4, <1>7, <2>2 DEF ChainInv, LogOK
    <3> QED
      BY <1>1, <3>1
  <2>3. CASE l \in New /\ m \in New
    BY <1>1, <1>7, <2>3
  <2>4. ~(l \in New /\ m \in Places)
    BY <1>2, <1>5 DEF Places
  <2> QED
    BY <2>1, <2>2, <2>3, <2>4 DEF New
<1>10. LogOK'
  <2>1. \A l \in Places' : log'[l].block \in 1..head'
                            /\ [from |-> log'[l].from, name |-> log'[l].name, arg |-> log'[l].arg] \in AllEvents
    <3>1. head + 1 \in 1..head + 1
      BY <1>1
    <3> QED
      BY <1>3, <1>7, <1>8, <1>11, <3>1 DEF New
  <2> QED
    BY <1>2, <1>9, <2>1 DEF LogOK, Told
<1>12. head' \in Nat /\ head' <= MaxBlocks
  BY <1>1, <1>3, ChainAssumption
<1> QED
  BY <1>2, <1>3, <1>4, <1>5, <1>7, <1>10, <1>12

LEMMA BornStep ==
    ASSUME ChainInv, Births1 \/ Barring \/ Moving \/ Ends, NEW events \in Seq(AllEvents), Adds(events),
           \/ onchain.status # "none"
           \/ \A i \in 1..Len(events) : events[i].from = "factory"
           , onchain.status # "none" \/ onchain'.status = "none"
             \/ \E i \in 1..Len(events) : events[i].name = "EscrowCreated"
    PROVE  BornOK'
<1>1. /\ Places \subseteq Places' /\ \A l \in Places : log'[l] = log[l]
      /\ \A l \in Places, m \in New : l < m
      /\ \A l \in New : l - Len(log) \in 1..Len(events) /\ Says(l, events[l - Len(log)])
      /\ \A i \in 1..Len(events) : Len(log) + i \in New
      /\ Len(log) \in Nat
  BY LogStep
<1>2. onchain'.status # "none" => \E k \in Places' : log'[k].name = "EscrowCreated"
  <2>1. CASE onchain.status # "none"
    BY <1>1, <2>1 DEF ChainInv, BornOK
  <2>2. CASE \E i \in 1..Len(events) : events[i].name = "EscrowCreated"
    <3>1. PICK i \in 1..Len(events) : events[i].name = "EscrowCreated"
      BY <2>2
    <3>2. Len(log) + i \in New /\ (Len(log) + i) - Len(log) = i
      BY <1>1
    <3>3. Says(Len(log) + i, events[i])
      BY <1>1, <3>2
    <3> QED
      BY <3>1, <3>2, <3>3 DEF New, Says
  <2> QED
    BY <2>1, <2>2
<1>3. ASSUME NEW l \in Places', log'[l].from = "escrow"
      PROVE  \E k \in Places' : k < l /\ log'[k].name = "EscrowCreated"
  <2>1. CASE l \in Places
    BY <1>1, <1>3, <2>1 DEF ChainInv, BornOK
  <2>2. CASE l \in New
    <3>1. events[l - Len(log)].from = "escrow" /\ l - Len(log) \in 1..Len(events)
      BY <1>1, <1>3, <2>2 DEF Says
    <3>2. onchain.status # "none"
      BY <3>1
    <3> QED
      BY <1>1, <2>2, <3>2 DEF ChainInv, BornOK
  <2> QED
    BY <2>1, <2>2 DEF New
<1> QED
  BY <1>2, <1>3 DEF BornOK

\* Nothing is said of the end.
LEMMA EndsKeep ==
    ASSUME ChainInv, NEW events \in Seq(AllEvents), Adds(events),
           \A i \in 1..Len(events) : events[i].name \notin EndingNames,
           onchain'.status \notin Closed => onchain.status \notin Closed
    PROVE  EndsOK'
<1>1. /\ Places \subseteq Places' /\ \A l \in Places : log'[l] = log[l]
      /\ \A l \in New : log'[l].name \notin EndingNames
  <2>1. \A l \in New : log'[l].name = events[l - Len(log)].name /\ l - Len(log) \in 1..Len(events)
    BY LogStep DEF Says
  <2> QED
    BY <2>1, LogStep
<1>2. LastWords \subseteq EndingNames
  BY DEF LastWords, EndingNames
<1> QED
  BY <1>1, <1>2 DEF ChainInv, EndsOK, New

LEMMA EndsSaid ==
    ASSUME ChainInv, NEW events, NEW k, EndsAt(events, k), Adds(events),
           onchain.status \notin Closed, onchain'.status \in Closed
    PROVE  EndsOK'
<1>1. events \in Seq(AllEvents) /\ k \in 1..Len(events) /\ Len(events) \in Nat
  BY DEF EndsAt
<1>2. /\ Places \subseteq Places' /\ \A l \in Places : log'[l] = log[l] /\ log[l].name \notin EndingNames
      /\ \A l \in New : log'[l].block = head + 1
      /\ \A l \in New : l - Len(log) \in 1..Len(events) /\ Says(l, events[l - Len(log)])
      /\ Len(log) \in Nat
  BY <1>1, LogStep DEF ChainInv, EndsOK
<1>3. LastWords \subseteq EndingNames /\ PlainNames \cap EndingNames = {}
  BY DEF LastWords, EndingNames, PlainNames
<1>4. ASSUME NEW l \in Places', NEW m \in Places', log'[l].name \in LastWords, log'[m].name \in EndingNames,
             log'[m].from = "escrow"
      PROVE  IF log'[l].from = "escrow" THEN l <= m ELSE log'[l].block <= log'[m].block
  <2>1. l \in New /\ m \in New
    BY <1>2, <1>3, <1>4 DEF New
  <2>2. log'[l].block = log'[m].block /\ log'[l].block \in Nat
    BY <1>2, <2>1 DEF ChainInv
  <2>3. CASE log'[l].from = "escrow"
    <3> DEFINE i == l - Len(log)
               j == m - Len(log)
    <3>1. i \in 1..Len(events) /\ j \in 1..Len(events) /\ l = Len(log) + i /\ m = Len(log) + j
      BY <1>2, <2>1 DEF Places, New
    <3>2. events[i].from = "escrow" /\ events[i].name \in LastWords /\ events[j].name \in EndingNames
          /\ events[j].from = "escrow"
      BY <1>2, <1>4, <2>1, <2>3 DEF Says
    <3>3. \A e \in Plain : e.name \in PlainNames
      BY DEF Plain, Events
    <3>4. \A e \in Late : e.from = "escrow" => e.name \notin LastWords
      BY DEF Late, Plain, Events, LateNames, Reports, LastWords, PlainNames
    <3>5. ~(i > k)
      BY <3>1, <3>2, <3>4 DEF EndsAt
    <3>6. ~(j < k)
      BY <1>3, <3>1, <3>2, <3>3 DEF EndsAt
    <3> QED
      BY <1>1, <1>2, <2>3, <3>1, <3>5, <3>6
  <2> QED
    BY <2>2, <2>3
<1> QED
  BY <1>4 DEF EndsOK

LEMMA BirthEvents ==
    ASSUME Births1
    PROVE  \E events \in Seq(Births) : Adds(events) /\ Len(events) = 1 /\ events[1].name = "EscrowCreated"
<1>1. Factory("EscrowCreated", "") \in Births /\ Factory("EscrowCreated", "").name = "EscrowCreated"
  BY EscrowEvents DEF Factory
<1>2. <<Factory("EscrowCreated", "")>> \in Seq(Births)
  BY <1>1, Short
<1>3. Len(<<Factory("EscrowCreated", "")>>) = 1
      /\ <<Factory("EscrowCreated", "")>>[1] = Factory("EscrowCreated", "")
  OBVIOUS
<1> QED
  BY <1>1, <1>2, <1>3 DEF Births1

LEMMA ChainStep == ASSUME ChainInv, Mine PROVE ChainInv'
<1>1. (Births1 \/ Barring \/ Moving \/ Ends) /\ OnchainOK'
  BY Kinds DEF ChainInv
<1>2. \A e \in Plain \cup Owned \cup Reports \cup Births : e.name \notin EndingNames
  BY DEF Plain, Owned, Reports, Births, Events, PlainNames, EndingNames, OwnerNames, BarNames
<1>3. CASE Births1
  <2>1. PICK events \in Seq(Births) : Adds(events) /\ Len(events) = 1
                                      /\ events[1].name = "EscrowCreated"
    BY <1>3, BirthEvents
  <2>2. events \in Seq(AllEvents) /\ \A i \in 1..Len(events) : events[i] \in Births /\ events[i].from = "factory"
    <3>1. \A e \in Births : e.from = "factory"
      BY DEF Births, Events
    <3> QED
      BY <3>1, EventSets, SeqMonotonic, ElementOfSeq
  <2>3. LogOK' /\ head' \in Nat /\ head' <= MaxBlocks
    BY <2>1, <2>2, LogStep
  <2>4. BornOK'
    <3>1. 1 \in 1..Len(events)
      BY <2>1
    <3> QED
      BY <1>3, <2>1, <2>2, <3>1, BornStep
  <2>5. EndsOK'
    BY <1>2, <1>3, <2>1, <2>2, EndsKeep DEF Births1, Closed
  <2> QED
    BY <1>1, <1>3, <2>3, <2>4, <2>5 DEF ChainInv, Births1
<1>4. CASE Barring
  <2>1. PICK events \in Seq(Events("factory", BarNames)) : Adds(events)
    BY <1>4 DEF Barring
  <2>2. events \in Seq(AllEvents) /\ \A i \in 1..Len(events) : events[i] \in Owned /\ events[i].from = "factory"
    <3>1. Events("factory", BarNames) \subseteq Owned /\ \A e \in Events("factory", BarNames) : e.from = "factory"
      BY EventSets DEF Events
    <3> QED
      BY <3>1, EventSets, SeqMonotonic, ElementOfSeq
  <2>3. LogOK' /\ head' \in Nat /\ head' <= MaxBlocks
    BY <2>1, <2>2, LogStep
  <2>4. BornOK'
    BY <1>4, <2>1, <2>2, BornStep DEF Barring
  <2>5. EndsOK'
    BY <1>2, <1>4, <2>1, <2>2, EndsKeep DEF Barring
  <2> QED
    BY <1>1, <1>4, <2>3, <2>4, <2>5 DEF ChainInv, Barring
<1>5. CASE Moving
  <2>1. PICK events \in Seq(Plain \cup Owned) : Adds(events)
    BY <1>5 DEF Moving
  <2>2. events \in Seq(AllEvents) /\ \A i \in 1..Len(events) : events[i] \in Plain \cup Owned
    BY EventSets, SeqMonotonic, ElementOfSeq
  <2>3. LogOK' /\ head' \in Nat /\ head' <= MaxBlocks
    BY <2>1, <2>2, LogStep
  <2>4. BornOK'
    BY <1>5, <2>1, <2>2, BornStep DEF Moving
  <2>5. EndsOK'
    BY <1>2, <1>5, <2>1, <2>2, EndsKeep DEF Moving
  <2> QED
    BY <1>1, <1>5, <2>3, <2>4, <2>5 DEF ChainInv, Moving
<1>6. CASE Ends
  <2>1. CASE \E events \in Seq(Plain \cup Reports) : Adds(events)
    <3>1. PICK events \in Seq(Plain \cup Reports) : Adds(events)
      BY <2>1
    <3>2. events \in Seq(AllEvents) /\ \A i \in 1..Len(events) : events[i] \in Plain \cup Reports
      BY EventSets, SeqMonotonic, ElementOfSeq
    <3>3. LogOK' /\ head' \in Nat /\ head' <= MaxBlocks
      BY <3>1, <3>2, LogStep
    <3>4. BornOK'
      BY <1>6, <3>1, <3>2, BornStep DEF Ends
    <3>5. EndsOK'
      BY <1>2, <1>6, <3>1, <3>2, EndsKeep DEF Ends
    <3> QED
      BY <1>1, <1>6, <3>3, <3>4, <3>5 DEF ChainInv, Ends, Closed
  <2>2. CASE \E events, k : EndsAt(events, k) /\ Adds(events)
    <3>1. PICK events, k : EndsAt(events, k) /\ Adds(events)
      BY <2>2
    <3>2. events \in Seq(AllEvents)
      BY <3>1 DEF EndsAt
    <3>3. LogOK' /\ head' \in Nat /\ head' <= MaxBlocks
      BY <3>1, <3>2, LogStep
    <3>4. BornOK'
      BY <1>6, <3>1, <3>2, BornStep DEF Ends
    <3>5. EndsOK'
      BY <1>6, <3>1, EndsSaid DEF Ends
    <3> QED
      BY <1>1, <1>6, <3>3, <3>4, <3>5 DEF ChainInv, Ends, Closed
  <2> QED
    BY <1>6, <2>1, <2>2 DEF Ends
<1> QED
  BY <1>1, <1>3, <1>4, <1>5, <1>6

LEMMA ChainRests == ASSUME ChainInv, UNCHANGED chainVars PROVE ChainInv'
<1>1. onchain' = onchain /\ log' = log /\ head' = head
  BY DEF chainVars
<1> QED
  BY <1>1 DEF ChainInv, OnchainOK, LogOK, BornOK, EndsOK, Places, Told

LEMMA ChainStarts == ChainInit => ChainInv
<1> SUFFICES ASSUME ChainInit PROVE ChainInv
  OBVIOUS
<1>1. OnchainOK /\ onchain.frozen = FALSE
  BY DEF ChainInit, OnchainOK, Statuses
<1>2. log \in Seq(Logs) /\ Places = {}
  BY DEF ChainInit, Places
<1> QED
  BY <1>1, <1>2, ChainAssumption DEF ChainInit, ChainInv, LogOK, BornOK, EndsOK

-----------------------------------------------------------------------------
\* What holds of every pass and every webhook call.

\* After a log is recorded, and from the moment it is found not to be.
Beyond == {"status", "write", "revoke", "milestone", "handle", "insert", "revokeResolved"}
AtLog == Beyond \cup {"record"}

Whole(r) == r = [pc |-> r.pc, from |-> r.from, to |-> r.to, part |-> r.part, todo |-> r.todo]

Span(p) == pass[p].from..pass[p].to

\* Each point of a log's turn is for the logs of some events.
ForLog(pc, e) ==
    /\ pc \in {"status", "write", "revoke"} => e.from = "escrow" /\ e.name \in DOMAIN EventStatus
    /\ pc = "milestone" => e.name \in DOMAIN MilestoneEventStatus
    /\ pc = "insert" => e.name = "EscrowCreated"
    /\ pc = "revokeResolved" => e.name = "EmergencyResolved"
PointOK(p, pc) == ForLog(pc, Event(p))

PassOK(p) ==
    /\ Whole(pass[p])
    /\ pass[p].pc \in AtLog \cup {"idle", "cursor", "next"}
    /\ pass[p].from \in Nat /\ pass[p].to \in 0..head /\ pass[p].part \in {"factory", "escrow"}
    /\ pass[p].todo \subseteq FilterLogs(pass[p].part, pass[p].from, pass[p].to)
    /\ pass[p].pc \in AtLog => pass[p].todo # {}
    /\ pass[p].pc \in {"idle", "cursor"} => pass[p].todo = {} /\ pass[p].part = "factory"
    /\ PointOK(p, pass[p].pc)

HookOK(h) ==
    /\ hook[h] = [pc |-> hook[h].pc, l |-> hook[h].l]
    /\ hook[h].pc \in {"idle", "check", "handle", "insert", "record"}
    /\ ~HookAt(h, "idle") => hook[h].l \in Places /\ log[hook[h].l].from = "factory"
    /\ HookAt(h, "insert") => log[hook[h].l].name = "EscrowCreated"

WholeRow(r) ==
    r = [by |-> r.by, status |-> r.status, frozen |-> r.frozen, backup |-> r.backup, current |-> r.current,
         milestones |-> r.milestones, submissions |-> r.submissions, disputes |-> r.disputes,
         tokens |-> r.tokens, barred |-> r.barred]

PassesOK == pass = [p \in Passes |-> pass[p]] /\ \A p \in Passes : PassOK(p)
HooksOK == hook = [h \in Hooks |-> hook[h]] /\ \A h \in Hooks : HookOK(h)
TablesOK ==
    /\ cursor \in 0..head /\ chainLogs \subseteq Places /\ outcomes \subseteq Places
    /\ WholeRow(db)
    /\ suffered \in [Disruption -> Nat]
TypeInv == ChainInv /\ PassesOK /\ HooksOK /\ TablesOK

\* Of some places one is the least.
LEMMA LeastPlace ==
    ASSUME NEW T \in SUBSET Nat, T # {}
    PROVE  Min(T) \in T /\ \A m \in T : Min(T) <= m
<1>1. PICK x \in T : \A y \in T : ~ (<<y, x>> \in OpToRel(<, Nat))
  BY NatLessThanWellFounded, WFMin, Zenon
<1>2. \A y \in T : ~ (y < x)
  BY <1>1 DEF OpToRel
<1>3. \A y \in T : x <= y
  BY <1>2
<1> QED
  BY <1>3 DEF Min

LEMMA PlacesNat == ASSUME ChainInv PROVE Places \subseteq Nat /\ DOMAIN log = Places /\ Len(log) \in Nat
  BY DEF ChainInv, LogOK, Places

\* A pass is at the first of the logs it has left.
LEMMA CurrentFirst ==
    ASSUME ChainInv, NEW p, PassOK(p), pass[p].todo # {}
    PROVE  /\ Current(p) \in pass[p].todo /\ Current(p) \in Places
           /\ \A m \in pass[p].todo : Current(p) <= m
           /\ log[Current(p)].from = pass[p].part /\ log[Current(p)].block \in Span(p)
<1>1. pass[p].todo \subseteq Places /\ pass[p].todo \subseteq Nat
  BY PlacesNat DEF PassOK, FilterLogs
<1>2. Current(p) \in pass[p].todo /\ \A m \in pass[p].todo : Current(p) <= m
  BY <1>1, LeastPlace DEF Current
<1> QED
  BY <1>1, <1>2 DEF PassOK, FilterLogs, Span

-----------------------------------------------------------------------------
\* The ways a pass moves.

Rest(p) == \A o \in Passes : o # p => pass'[o] = pass[o]

\* It goes on with its log, or is done with it.
Continues(p) ==
    /\ pass[p].pc \in Beyond /\ \E pc \in Beyond : Goto(p, pc) /\ PointOK(p, pc)
    /\ Event(p).name # "OutcomeRecorded"
    /\ UNCHANGED <<chainLogs, cursor, reputation, outcomes, stream>>
Finishes(p) ==
    /\ pass[p].pc \in Beyond /\ NextLog(p)
    /\ UNCHANGED <<chainLogs, cursor>>
    /\ stream' = stream \/ Publish(Current(p))
    /\ \/ Event(p).name = "OutcomeRecorded" /\ Recorded(Current(p))
       \/ Event(p).name # "OutcomeRecorded" /\ UNCHANGED <<reputation, outcomes>>
    /\ Event(p).name = "EscrowCreated" => HasRow'
Works(p) == (Continues(p) \/ Finishes(p)) /\ Elsewhere

\* A row that is there stays.
RowStays == WholeRow(db)' /\ (HasRow => HasRow')

\* Any field of the row but the one that says who entered it is written alone.
LEMMA RowWritten ==
    ASSUME NEW r, WholeRow(r), NEW x
    PROVE  /\ [r EXCEPT !.status = x].by = r.by /\ WholeRow([r EXCEPT !.status = x])
           /\ [r EXCEPT !.tokens = x].by = r.by /\ WholeRow([r EXCEPT !.tokens = x])
           /\ [r EXCEPT !.submissions = x].by = r.by /\ WholeRow([r EXCEPT !.submissions = x])
           /\ [r EXCEPT !.disputes = x].by = r.by /\ WholeRow([r EXCEPT !.disputes = x])
           /\ [r EXCEPT !.backup = x].by = r.by /\ WholeRow([r EXCEPT !.backup = x])
           /\ [r EXCEPT !.frozen = x].by = r.by /\ WholeRow([r EXCEPT !.frozen = x])
           /\ [r EXCEPT !.barred = x].by = r.by /\ WholeRow([r EXCEPT !.barred = x])
           /\ [r EXCEPT !.milestones = x].by = r.by /\ WholeRow([r EXCEPT !.milestones = x])
           /\ [r EXCEPT !.current = x].by = r.by /\ WholeRow([r EXCEPT !.current = x])
<1>1. [r EXCEPT !.status = x].by = r.by /\ WholeRow([r EXCEPT !.status = x])
  BY DEF WholeRow
<1>2. [r EXCEPT !.tokens = x].by = r.by /\ WholeRow([r EXCEPT !.tokens = x])
  BY DEF WholeRow
<1>3. [r EXCEPT !.submissions = x].by = r.by /\ WholeRow([r EXCEPT !.submissions = x])
  BY DEF WholeRow
<1>4. [r EXCEPT !.disputes = x].by = r.by /\ WholeRow([r EXCEPT !.disputes = x])
  BY DEF WholeRow
<1>5. [r EXCEPT !.backup = x].by = r.by /\ WholeRow([r EXCEPT !.backup = x])
  BY DEF WholeRow
<1>6. [r EXCEPT !.frozen = x].by = r.by /\ WholeRow([r EXCEPT !.frozen = x])
  BY DEF WholeRow
<1>7. [r EXCEPT !.barred = x].by = r.by /\ WholeRow([r EXCEPT !.barred = x])
  BY DEF WholeRow
<1>8. [r EXCEPT !.milestones = x].by = r.by /\ WholeRow([r EXCEPT !.milestones = x])
  BY DEF WholeRow
<1>9. [r EXCEPT !.current = x].by = r.by /\ WholeRow([r EXCEPT !.current = x])
  BY DEF WholeRow
<1> QED
  BY <1>1, <1>2, <1>3, <1>4, <1>5, <1>6, <1>7, <1>8, <1>9

LEMMA RowsWritten ==
    ASSUME NEW r, WholeRow(r), NEW x, NEW y
    PROVE  /\ [[r EXCEPT !.milestones = x] EXCEPT !.current = y].by = r.by
           /\ WholeRow([[r EXCEPT !.milestones = x] EXCEPT !.current = y])
           /\ [[r EXCEPT !.status = x] EXCEPT !.milestones = y].by = r.by
           /\ WholeRow([[r EXCEPT !.status = x] EXCEPT !.milestones = y])
<1> DEFINE a == [r EXCEPT !.milestones = x]
           b == [r EXCEPT !.status = x]
<1>1. a.by = r.by /\ WholeRow(a) /\ b.by = r.by /\ WholeRow(b)
  BY RowWritten
<1> HIDE DEF a, b
<1>2. /\ [a EXCEPT !.current = y].by = a.by /\ WholeRow([a EXCEPT !.current = y])
      /\ [b EXCEPT !.milestones = y].by = b.by /\ WholeRow([b EXCEPT !.milestones = y])
  BY <1>1, RowWritten
<1> QED
  BY <1>1, <1>2 DEF a, b

LEMMA MilestoneWritten ==
    ASSUME NEW e, WholeRow(db)
    PROVE  WithMilestone(e).by = db.by /\ WholeRow(WithMilestone(e))
<1> DEFINE x == MilestoneEventStatus[e.name]
           y == IF x \in PastMilestone THEN e.arg + 1 ELSE db.current
           m == [db.milestones EXCEPT ![e.arg] = x]
<1>1. WithMilestone(e) = [[db EXCEPT !.milestones = m] EXCEPT !.current = y] \/ WithMilestone(e) = db
  BY DEF WithMilestone
<1> HIDE DEF m, y
<1>2. /\ [[db EXCEPT !.milestones = m] EXCEPT !.current = y].by = db.by
      /\ WholeRow([[db EXCEPT !.milestones = m] EXCEPT !.current = y])
  BY RowsWritten
<1> QED
  BY <1>1, <1>2

LEMMA RowEntered ==
    ASSUME NEW creator, NEW milestones
    PROVE  WholeRow(Inserted(creator, milestones)) /\ Inserted(creator, milestones).by = creator
           /\ (creator # "nobody" => Inserted(creator, milestones).status = "created")
<1>1. WholeRow(Row(creator, milestones)) /\ Row(creator, milestones).by = creator
      /\ (creator # "nobody" => Row(creator, milestones).status = "created")
  BY DEF Row, WholeRow
<1> DEFINE r == Row(creator, milestones)
<1> HIDE DEF r
<1>2. [r EXCEPT !.barred = db.barred].status = r.status
  BY <1>1 DEF WholeRow, r
<1> QED
  BY <1>1, <1>2, RowWritten DEF Inserted, r

LEMMA WritesFinish ==
    ASSUME NEW p \in Passes, NEW after, pass[p].pc \in Beyond, Writes(p, after), WholeRow(after),
           HasRow => after.by # "nobody",
           Event(p).name # "OutcomeRecorded", Event(p).name = "EscrowCreated" => after.by # "nobody"
    PROVE  Works(p) /\ RowStays
<1>1. db' = after /\ NextLog(p) /\ Publish(Current(p)) /\ UNCHANGED <<chainLogs, cursor, reputation, outcomes>>
      /\ Elsewhere
  BY DEF Writes, Done
<1>2. WholeRow(db)' /\ (HasRow => HasRow') /\ (Event(p).name = "EscrowCreated" => HasRow')
  BY <1>1 DEF HasRow, WholeRow
<1> QED
  BY <1>1, <1>2 DEF Works, Finishes, RowStays

LEMMA GivingUp ==
    ASSUME NEW p \in Passes, pass[p].pc \in Beyond, GivesUp(p), WholeRow(db),
           Event(p).name # "OutcomeRecorded", Event(p).name = "EscrowCreated" => HasRow
    PROVE  Works(p) /\ RowStays
<1>1. db' = db /\ NextLog(p) /\ UNCHANGED <<chainLogs, cursor, reputation, outcomes, stream>> /\ Elsewhere
  BY DEF GivesUp, tables
<1>2. WholeRow(db)' /\ (HasRow => HasRow') /\ (Event(p).name = "EscrowCreated" => HasRow')
  BY <1>1 DEF HasRow, WholeRow
<1> QED
  BY <1>1, <1>2 DEF Works, Finishes, RowStays

LEMMA GoingOn ==
    ASSUME NEW p \in Passes, NEW pc \in Beyond, pass[p].pc \in Beyond, Goto(p, pc), PointOK(p, pc),
           Event(p).name # "OutcomeRecorded",
           WholeRow(db)', HasRow => db'.by # "nobody",
           UNCHANGED <<chainLogs, cursor, reputation, outcomes, stream>>, Elsewhere
    PROVE  Works(p) /\ RowStays
<1>1. HasRow => HasRow'
  BY DEF HasRow
<1> QED
  BY <1>1 DEF Works, Continues, RowStays

EscrowNames == DOMAIN EventStatus \cup {"MilestoneSubmitted", "MilestoneApproved", "MilestoneDisputed",
                   "MilestoneDisputeResolved", "MilestoneSettled", "MilestoneCancelled"}

LEMMA NamesApart ==
    /\ "OutcomeRecorded" \notin DOMAIN EventStatus /\ "EscrowCreated" \notin DOMAIN EventStatus
    /\ "OutcomeRecorded" \notin DOMAIN MilestoneEventStatus /\ "EscrowCreated" \notin DOMAIN MilestoneEventStatus
  BY DEF EventStatus, MilestoneEventStatus

\* What a pass does to a log that it recorded.
LEMMA StatusWorks ==
    ASSUME NEW p \in Passes, PassOK(p), WholeRow(db),
           ReadStatus(p) \/ WriteStatus(p) \/ RevokeTokens(p) \/ WriteMilestone(p)
    PROVE  Works(p) /\ RowStays
<1>1. {"status", "write", "revoke", "milestone", "handle"} \subseteq Beyond
  BY DEF Beyond
<1>2. PointOK(p, "handle")
  BY DEF PointOK, ForLog
<1>3. CASE ReadStatus(p)
  <2>1. PointOK(p, "write") /\ Event(p).name # "OutcomeRecorded" /\ pass[p].pc \in Beyond
    BY <1>1, <1>3, NamesApart DEF PassOK, PointOK, ForLog, ReadStatus, At
  <2>2. db' = db /\ UNCHANGED <<chainLogs, cursor, reputation, outcomes, stream>> /\ Elsewhere
    BY <1>3 DEF ReadStatus, tables
  <2>3. WholeRow(db)' /\ (HasRow => db'.by # "nobody")
    BY <2>2 DEF HasRow, WholeRow
  <2>4. Goto(p, "handle") \/ Goto(p, "write")
    BY <1>3 DEF ReadStatus
  <2> QED
    BY <1>1, <1>2, <2>1, <2>2, <2>3, <2>4, GoingOn
<1>4. CASE WriteStatus(p)
  <2>1. PointOK(p, "revoke") /\ Event(p).name # "OutcomeRecorded" /\ pass[p].pc \in Beyond
    BY <1>1, <1>4, NamesApart DEF PassOK, PointOK, ForLog, WriteStatus, At
  <2>2. UNCHANGED <<chainLogs, cursor, reputation, outcomes, stream>> /\ Elsewhere
        /\ db' = [db EXCEPT !.status = EventStatus[Event(p).name]]
    BY <1>4 DEF WriteStatus
  <2>3. WholeRow(db)' /\ (HasRow => db'.by # "nobody")
    BY <2>2, RowWritten DEF HasRow, WholeRow
  <2>4. Goto(p, "handle") \/ Goto(p, "revoke")
    BY <1>4 DEF WriteStatus
  <2> QED
    BY <1>1, <1>2, <2>1, <2>2, <2>3, <2>4, GoingOn
<1>5. CASE RevokeTokens(p)
  <2>1. Event(p).name # "OutcomeRecorded" /\ pass[p].pc \in Beyond
    BY <1>1, <1>5, NamesApart DEF PassOK, PointOK, ForLog, RevokeTokens, At
  <2>2. UNCHANGED <<chainLogs, cursor, reputation, outcomes, stream>> /\ Elsewhere
        /\ db' = [db EXCEPT !.tokens = {}] /\ Goto(p, "handle")
    BY <1>5 DEF RevokeTokens
  <2>3. WholeRow(db)' /\ (HasRow => db'.by # "nobody")
    BY <2>2, RowWritten DEF HasRow, WholeRow
  <2> QED
    BY <1>1, <1>2, <2>1, <2>2, <2>3, GoingOn
<1>6. CASE WriteMilestone(p)
  <2>1. Event(p).name # "OutcomeRecorded" /\ pass[p].pc \in Beyond
    BY <1>1, <1>6, NamesApart DEF PassOK, PointOK, ForLog, WriteMilestone, At
  <2>2. UNCHANGED <<chainLogs, cursor, reputation, outcomes, stream>> /\ Elsewhere
        /\ db' = WithMilestone(Event(p)) /\ Goto(p, "handle")
    BY <1>6 DEF WriteMilestone
  <2>3. WithMilestone(Event(p)).by = db.by /\ WholeRow(WithMilestone(Event(p)))
    BY MilestoneWritten
  <2>4. WholeRow(db)' /\ (HasRow => db'.by # "nobody")
    BY <2>2, <2>3 DEF HasRow, WholeRow
  <2> QED
    BY <1>1, <1>2, <2>1, <2>2, <2>4, GoingOn
<1> QED
  BY <1>3, <1>4, <1>5, <1>6

\* The handlers that write one field of the row.
PlainHandlers(p) ==
    \/ HandleSubmission(p) \/ HandleDispute(p) \/ HandleMilestoneDispute(p) \/ HandleDisputeResolved(p)
    \/ HandleMilestoneDisputeResolved(p) \/ HandleBackupActivated(p) \/ HandleEscrowFrozenEscrow(p)
    \/ HandleAddressFrozen(p) \/ HandleOther(p)

LEMMA PlainWorks ==
    ASSUME NEW p \in Passes, WholeRow(db), PlainHandlers(p)
    PROVE  Works(p) /\ RowStays
<1>1. \E after : Writes(p, after) /\ WholeRow(after) /\ after.by = db.by
  <2>1. CASE HandleSubmission(p)
    <3> DEFINE x == db.submissions + 1
    <3>2. WholeRow([db EXCEPT !.submissions = x]) /\ [db EXCEPT !.submissions = x].by = db.by
      BY RowWritten
    <3>1. Writes(p, [db EXCEPT !.submissions = x])
      BY <2>1 DEF HandleSubmission
    <3> HIDE DEF x
    <3> QED
      BY <3>1, <3>2, Zenon
  <2>2. CASE HandleDispute(p) \/ HandleMilestoneDispute(p)
    <3> DEFINE x == Append(db.disputes, "open")
    <3>2. WholeRow([db EXCEPT !.disputes = x]) /\ [db EXCEPT !.disputes = x].by = db.by
      BY RowWritten
    <3>1. Writes(p, [db EXCEPT !.disputes = x])
      BY <2>2 DEF HandleDispute, HandleMilestoneDispute
    <3> HIDE DEF x
    <3> QED
      BY <3>1, <3>2, Zenon
  <2>3. CASE HandleDisputeResolved(p) \/ HandleMilestoneDisputeResolved(p)
    <3> DEFINE x == DisputeClosed(db.disputes)
    <3>2. WholeRow([db EXCEPT !.disputes = x]) /\ [db EXCEPT !.disputes = x].by = db.by
      BY RowWritten
    <3>1. Writes(p, [db EXCEPT !.disputes = x])
      BY <2>3 DEF HandleDisputeResolved, HandleMilestoneDisputeResolved
    <3> HIDE DEF x
    <3> QED
      BY <3>1, <3>2, Zenon
  <2>4. CASE HandleBackupActivated(p)
    <3> DEFINE x == TRUE
    <3>1. Writes(p, [db EXCEPT !.backup = x])
      BY <2>4 DEF HandleBackupActivated
    <3> HIDE DEF x
    <3>2. WholeRow([db EXCEPT !.backup = x]) /\ [db EXCEPT !.backup = x].by = db.by
      BY RowWritten
    <3> QED
      BY <3>1, <3>2, Zenon
  <2>5. CASE HandleEscrowFrozenEscrow(p)
    <3> DEFINE x == Event(p).name = "EmergencyFrozen"
    <3>1. Writes(p, [db EXCEPT !.frozen = x])
      BY <2>5 DEF HandleEscrowFrozenEscrow
    <3> HIDE DEF x
    <3>2. WholeRow([db EXCEPT !.frozen = x]) /\ [db EXCEPT !.frozen = x].by = db.by
      BY RowWritten
    <3> QED
      BY <3>1, <3>2, Zenon
  <2>6. CASE HandleAddressFrozen(p)
    <3> DEFINE x == Event(p).name = "AddressFrozen"
    <3>1. Writes(p, [db EXCEPT !.barred = x])
      BY <2>6 DEF HandleAddressFrozen
    <3> HIDE DEF x
    <3>2. WholeRow([db EXCEPT !.barred = x]) /\ [db EXCEPT !.barred = x].by = db.by
      BY RowWritten
    <3> QED
      BY <3>1, <3>2, Zenon
  <2>7. CASE HandleOther(p)
    BY <2>7 DEF HandleOther
  <2> QED
    BY <2>1, <2>2, <2>3, <2>4, <2>5, <2>6, <2>7 DEF PlainHandlers
<1>2. At(p, "handle") /\ Event(p).name \notin {"OutcomeRecorded", "EscrowCreated"}
  BY DEF PlainHandlers, Handling, HandleSubmission, HandleDispute, HandleMilestoneDispute, HandleDisputeResolved,
         HandleMilestoneDisputeResolved, HandleBackupActivated, HandleEscrowFrozenEscrow, HandleAddressFrozen,
         HandleOther
<1>3. pass[p].pc \in Beyond
  BY <1>2 DEF At, Beyond
<1> QED
  BY <1>1, <1>2, <1>3, WritesFinish DEF HasRow

OtherHandlers(p) ==
    \/ HandleMilestoneSubmission(p) \/ HandleRemainingMilestonesAborted(p) \/ HandleEscrowFrozenFactory(p)
    \/ HandleEmergencyResolved(p) \/ RevokeResolved(p)
    \/ HandleOutcomeRecorded(p) \/ HandleEscrowCreated(p) \/ InsertEscrow(p)

LEMMA HandlerWorks ==
    ASSUME NEW p \in Passes, PassOK(p), WholeRow(db), OtherHandlers(p)
    PROVE  Works(p) /\ RowStays
<1>1. pass[p].pc \in Beyond
  BY DEF OtherHandlers, Handling, HandleMilestoneSubmission, HandleRemainingMilestonesAborted, HandleEscrowFrozenFactory,
         HandleEmergencyResolved, RevokeResolved, HandleOutcomeRecorded, HandleEscrowCreated, InsertEscrow, At, Beyond
<1>2. CASE HandleMilestoneSubmission(p)
  <2>1. Event(p).name \notin {"OutcomeRecorded", "EscrowCreated"}
    BY <1>2 DEF HandleMilestoneSubmission, Handling
  <2> DEFINE m == [db.milestones EXCEPT ![Event(p).arg] = "submitted"]
  <2>2. Writes(p, [db EXCEPT !.milestones = m]) \/ GivesUp(p)
    BY <1>2 DEF HandleMilestoneSubmission
  <2> HIDE DEF m
  <2> DEFINE after == [db EXCEPT !.milestones = m]
  <2>3. WholeRow(after) /\ after.by = db.by
    BY RowWritten
  <2> HIDE DEF after
  <2>4. CASE Writes(p, after)
    BY <1>1, <2>1, <2>3, <2>4, WritesFinish DEF HasRow
  <2>5. CASE GivesUp(p)
    BY <1>1, <2>1, <2>5, GivingUp
  <2> QED
    BY <2>2, <2>4, <2>5 DEF after
<1>3. CASE HandleRemainingMilestonesAborted(p)
  <2>1. Event(p).name \notin {"OutcomeRecorded", "EscrowCreated"}
    BY <1>3 DEF HandleRemainingMilestonesAborted, Handling
  <2> DEFINE m == [i \in DOMAIN db.milestones |-> IF i >= Event(p).arg THEN "cancelled" ELSE db.milestones[i]]
             after == [[db EXCEPT !.status = "refunded"] EXCEPT !.milestones = m]
  <2>2. Writes(p, after)
    BY <1>3 DEF HandleRemainingMilestonesAborted
  <2> HIDE DEF m
  <2>3. WholeRow(after) /\ after.by = db.by
    BY RowsWritten
  <2> HIDE DEF after
  <2> QED
    BY <1>1, <2>1, <2>2, <2>3, WritesFinish DEF HasRow
<1>4. CASE HandleEscrowFrozenFactory(p)
  <2>1. Event(p).name \notin {"OutcomeRecorded", "EscrowCreated"}
    BY <1>4 DEF HandleEscrowFrozenFactory, Handling
  <2> DEFINE x == Event(p).name = "EscrowFrozen"
  <2>2. Writes(p, [db EXCEPT !.frozen = x]) \/ GivesUp(p)
    BY <1>4 DEF HandleEscrowFrozenFactory
  <2> HIDE DEF x
  <2> DEFINE after == [db EXCEPT !.frozen = x]
  <2>3. WholeRow(after) /\ after.by = db.by
    BY RowWritten
  <2> HIDE DEF after
  <2>4. CASE Writes(p, after)
    BY <1>1, <2>1, <2>3, <2>4, WritesFinish DEF HasRow
  <2>5. CASE GivesUp(p)
    BY <1>1, <2>1, <2>5, GivingUp
  <2> QED
    BY <2>2, <2>4, <2>5 DEF after
<1>5. CASE HandleEmergencyResolved(p)
  <2>1. Event(p).name = "EmergencyResolved"
    BY <1>5 DEF HandleEmergencyResolved
  <2>2. CASE GivesUp(p)
    BY <1>1, <2>1, <2>2, GivingUp
  <2>3. CASE ~GivesUp(p)
    <3>1. /\ UNCHANGED <<chainLogs, cursor, reputation, outcomes, stream>> /\ Elsewhere
          /\ db' = [db EXCEPT !.status = "resolved"] /\ Goto(p, "revokeResolved")
      BY <1>5, <2>3 DEF HandleEmergencyResolved
    <3>2. WholeRow(db)' /\ (HasRow => db'.by # "nobody")
      BY <3>1, RowWritten DEF HasRow, WholeRow
    <3>3. PointOK(p, "revokeResolved") /\ "revokeResolved" \in Beyond
      BY <2>1 DEF PointOK, ForLog, Beyond
    <3> QED
      BY <1>1, <2>1, <3>1, <3>2, <3>3, GoingOn
  <2> QED
    BY <2>2, <2>3
<1>6. CASE RevokeResolved(p)
  <2>1. Event(p).name = "EmergencyResolved"
    BY <1>6 DEF RevokeResolved, PassOK, PointOK, ForLog, At
  <2>2. Writes(p, [db EXCEPT !.tokens = {}])
    BY <1>6 DEF RevokeResolved
  <2> QED
    BY <1>1, <2>1, <2>2, RowWritten, WritesFinish DEF HasRow
<1>7. CASE HandleOutcomeRecorded(p)
  <2>1. Event(p).name = "OutcomeRecorded" /\ Recorded(Current(p)) /\ NextLog(p) /\ Publish(Current(p))
        /\ UNCHANGED <<chainLogs, cursor, db>> /\ Elsewhere
    BY <1>7 DEF HandleOutcomeRecorded, Handling, Done
  <2>2. RowStays
    BY <2>1 DEF RowStays, HasRow, WholeRow
  <2> QED
    BY <1>1, <2>1, <2>2 DEF Works, Finishes
<1>8. CASE HandleEscrowCreated(p)
  <2>1. Event(p).name = "EscrowCreated"
    BY <1>8 DEF HandleEscrowCreated, Handling
  <2>2. CASE HasRow
    <3>1. Writes(p, db)
      BY <1>8, <2>2 DEF HandleEscrowCreated
    <3> QED
      BY <1>1, <2>1, <2>2, <3>1, WritesFinish DEF HasRow
  <2>3. CASE ~HasRow
    <3>1. Goto(p, "insert") /\ UNCHANGED <<tables, stream, failures>> /\ Elsewhere
      BY <1>8, <2>3 DEF HandleEscrowCreated
    <3>2. WholeRow(db)' /\ UNCHANGED <<chainLogs, cursor, reputation, outcomes, stream>>
      BY <3>1 DEF tables, WholeRow
    <3>3. PointOK(p, "insert") /\ "insert" \in Beyond
      BY <2>1 DEF PointOK, ForLog, Beyond
    <3> QED
      BY <1>1, <2>1, <2>3, <3>1, <3>2, <3>3, GoingOn
  <2> QED
    BY <2>2, <2>3
<1>9. CASE InsertEscrow(p)
  <2>1. Event(p).name = "EscrowCreated"
    BY <1>9 DEF InsertEscrow, PassOK, PointOK, ForLog, At
  <2>2. CASE HasRow
    BY <1>1, <1>9, <2>1, <2>2, GivingUp DEF InsertEscrow
  <2>3. CASE ~HasRow
    <3>1. Writes(p, Inserted("indexer", NoMilestones))
      BY <1>9, <2>3 DEF InsertEscrow
    <3> QED
      BY <1>1, <2>1, <2>3, <3>1, RowEntered, WritesFinish
  <2> QED
    BY <2>2, <2>3
<1> QED
  BY <1>2, <1>3, <1>4, <1>5, <1>6, <1>7, <1>8, <1>9 DEF OtherHandlers

\* A step of a pass is a move between logs, or work on one.
LEMMA PassSteps ==
    ASSUME NEW p \in Passes, PassOK(p), WholeRow(db), Step(p)
    PROVE  \/ Tick(p) \/ ReadCursor(p) \/ NothingNew(p) \/ ListEscrows(p) \/ SaveCursor(p)
           \/ CheckLog(p) \/ RecordLog(p)
           \/ Works(p) /\ RowStays
  BY StatusWorks, PlainWorks, HandlerWorks DEF Step, PlainHandlers, OtherHandlers

-----------------------------------------------------------------------------
\* The types are kept.

Spot(pc, from, to, part, todo) == [pc |-> pc, from |-> from, to |-> to, part |-> part, todo |-> todo]

\* One pass moves to a spot, the others stay.
Put(p, spot) == pass' = [q \in Passes |-> pass'[q]] /\ Rest(p) /\ pass'[p] = spot

LEMMA SpotFields ==
    ASSUME NEW pc, NEW from, NEW to, NEW part, NEW todo
    PROVE  LET s == Spot(pc, from, to, part, todo)
           IN  Whole(s) /\ s.pc = pc /\ s.from = from /\ s.to = to /\ s.part = part /\ s.todo = todo
  BY DEF Spot, Whole

LEMMA SpotEdits ==
    ASSUME NEW r, Whole(r), NEW x
    PROVE  /\ [r EXCEPT !.pc = x] = Spot(x, r.from, r.to, r.part, r.todo)
           /\ [r EXCEPT !.from = x] = Spot(r.pc, x, r.to, r.part, r.todo)
           /\ [r EXCEPT !.to = x] = Spot(r.pc, r.from, x, r.part, r.todo)
           /\ [r EXCEPT !.part = x] = Spot(r.pc, r.from, r.to, x, r.todo)
           /\ [r EXCEPT !.todo = x] = Spot(r.pc, r.from, r.to, r.part, x)
<1>1. [r EXCEPT !.pc = x] = Spot(x, r.from, r.to, r.part, r.todo)
  BY DEF Whole, Spot
<1>2. [r EXCEPT !.from = x] = Spot(r.pc, x, r.to, r.part, r.todo)
  BY DEF Whole, Spot
<1>3. [r EXCEPT !.to = x] = Spot(r.pc, r.from, x, r.part, r.todo)
  BY DEF Whole, Spot
<1>4. [r EXCEPT !.part = x] = Spot(r.pc, r.from, r.to, x, r.todo)
  BY DEF Whole, Spot
<1>5. [r EXCEPT !.todo = x] = Spot(r.pc, r.from, r.to, r.part, x)
  BY DEF Whole, Spot
<1> QED
  BY <1>1, <1>2, <1>3, <1>4, <1>5

\* Fields of a spot that are written one after the other.
NextTodo(r, y) == [[r EXCEPT !.pc = "next"] EXCEPT !.todo = y]
CursorTo(r, y) == [[r EXCEPT !.pc = "cursor"] EXCEPT !.to = y]
NextFrom(r, x, y) == [[[r EXCEPT !.pc = "next"] EXCEPT !.from = x] EXCEPT !.todo = y]
EscrowTodo(r, y) == [[r EXCEPT !.part = "escrow"] EXCEPT !.todo = y]

LEMMA SpotTwice ==
    ASSUME NEW r, Whole(r), NEW x, NEW y
    PROVE  /\ NextTodo(r, y) = Spot("next", r.from, r.to, r.part, y)
           /\ CursorTo(r, y) = Spot("cursor", r.from, y, r.part, r.todo)
           /\ NextFrom(r, x, y) = Spot("next", x, r.to, r.part, y)
           /\ EscrowTodo(r, y) = Spot(r.pc, r.from, r.to, "escrow", y)
<1> DEFINE a == [r EXCEPT !.pc = "next"]
           b == [r EXCEPT !.part = "escrow"]
           c == [r EXCEPT !.pc = "cursor"]
<1>1. /\ Whole(a) /\ a.pc = "next" /\ a.from = r.from /\ a.to = r.to /\ a.part = r.part /\ a.todo = r.todo
      /\ Whole(b) /\ b.pc = r.pc /\ b.from = r.from /\ b.to = r.to /\ b.part = "escrow" /\ b.todo = r.todo
      /\ Whole(c) /\ c.pc = "cursor" /\ c.from = r.from /\ c.to = r.to /\ c.part = r.part /\ c.todo = r.todo
  <2>1. a = Spot("next", r.from, r.to, r.part, r.todo) /\ b = Spot(r.pc, r.from, r.to, "escrow", r.todo)
        /\ c = Spot("cursor", r.from, r.to, r.part, r.todo)
    BY SpotEdits
  <2> HIDE DEF a, b, c
  <2> QED
    BY <2>1 DEF Spot, Whole
<1> HIDE DEF a, b, c
<1> DEFINE d == [a EXCEPT !.from = x]
<1>2. /\ [a EXCEPT !.todo = y] = Spot(a.pc, a.from, a.to, a.part, y)
      /\ [c EXCEPT !.to = y] = Spot(c.pc, c.from, y, c.part, c.todo)
      /\ [b EXCEPT !.todo = y] = Spot(b.pc, b.from, b.to, b.part, y)
      /\ d = Spot(a.pc, x, a.to, a.part, a.todo)
  BY <1>1, SpotEdits
<1> HIDE DEF d
<1>3. Whole(d) /\ d.pc = a.pc /\ d.from = x /\ d.to = a.to /\ d.part = a.part
  BY <1>2 DEF Spot, Whole
<1>4. [d EXCEPT !.todo = y] = Spot(d.pc, d.from, d.to, d.part, y)
  BY <1>3, SpotEdits
<1> QED
  BY <1>1, <1>2, <1>3, <1>4 DEF a, b, c, d, NextTodo, CursorTo, NextFrom, EscrowTodo

LEMMA Goes ==
    ASSUME PassesOK, NEW p \in Passes, NEW pc, Goto(p, pc)
    PROVE  Put(p, Spot(pc, pass[p].from, pass[p].to, pass[p].part, pass[p].todo))
<1>1. pass = [q \in Passes |-> pass[q]] /\ Whole(pass[p])
  BY DEF PassesOK, PassOK
<1>2. pass' = [q \in Passes |-> pass'[q]] /\ Rest(p) /\ pass'[p] = [pass[p] EXCEPT !.pc = pc]
  BY <1>1 DEF Goto, Rest
<1>3. [pass[p] EXCEPT !.pc = pc] = Spot(pc, pass[p].from, pass[p].to, pass[p].part, pass[p].todo)
  BY <1>1 DEF Whole, Spot
<1> QED
  BY <1>2, <1>3 DEF Put

LEMMA Lands ==
    ASSUME NEW p, NEW pc, NEW from, NEW to, NEW part, NEW todo, Put(p, Spot(pc, from, to, part, todo))
    PROVE  /\ pass'[p].pc = pc /\ pass'[p].from = from /\ pass'[p].to = to
           /\ pass'[p].part = part /\ pass'[p].todo = todo
  BY SpotFields DEF Put

LEMMA GoesOn ==
    ASSUME PassesOK, NEW p \in Passes, NEW pc, Goto(p, pc)
    PROVE  /\ pass'[p].pc = pc /\ pass'[p].from = pass[p].from /\ pass'[p].to = pass[p].to
           /\ pass'[p].part = pass[p].part /\ pass'[p].todo = pass[p].todo
  BY Goes, Lands

LEMMA NextLogPuts ==
    ASSUME PassesOK, NEW p \in Passes, NextLog(p)
    PROVE  Put(p, Spot("next", pass[p].from, pass[p].to, pass[p].part, pass[p].todo \ {Current(p)}))
<1>1. pass = [q \in Passes |-> pass[q]] /\ Whole(pass[p])
  BY DEF PassesOK, PassOK
<1> DEFINE left == pass[p].todo \ {Current(p)}
<1>2. pass' = [pass EXCEPT ![p] = NextTodo(pass[p], left)]
  BY <1>1 DEF NextLog, NextTodo
<1> HIDE DEF left
<1>3. PICK r : r = pass[p] /\ Whole(r)
  BY <1>1
<1>4. NextTodo(r, left) = Spot("next", r.from, r.to, r.part, left)
  BY <1>3, SpotTwice
<1>5. pass' = [pass EXCEPT ![p] = Spot("next", pass[p].from, pass[p].to, pass[p].part, left)]
  BY <1>2, <1>3, <1>4
<1>6. pass' = [q \in Passes |-> pass'[q]] /\ Rest(p)
      /\ pass'[p] = Spot("next", pass[p].from, pass[p].to, pass[p].part, left)
  BY <1>1, <1>5 DEF Rest
<1> QED
  BY <1>6 DEF Put, left

LEMMA GoesNext ==
    ASSUME PassesOK, NEW p \in Passes, NextLog(p)
    PROVE  /\ pass'[p].pc = "next" /\ pass'[p].from = pass[p].from /\ pass'[p].to = pass[p].to
           /\ pass'[p].part = pass[p].part /\ pass'[p].todo = pass[p].todo \ {Current(p)}
<1> DEFINE left == pass[p].todo \ {Current(p)}
<1>1. Put(p, Spot("next", pass[p].from, pass[p].to, pass[p].part, left))
  BY NextLogPuts
<1> HIDE DEF left
<1>2. /\ pass'[p].pc = "next" /\ pass'[p].from = pass[p].from /\ pass'[p].to = pass[p].to
      /\ pass'[p].part = pass[p].part /\ pass'[p].todo = left
  BY <1>1, Lands
<1> QED
  BY <1>2 DEF left

LEMMA IdlePuts ==
    ASSUME PassesOK, NEW p \in Passes, pass' = [pass EXCEPT ![p] = Idle]
    PROVE  Put(p, Spot("idle", 0, 0, "factory", {}))
<1>1. pass = [q \in Passes |-> pass[q]]
  BY DEF PassesOK
<1>2. pass' = [q \in Passes |-> pass'[q]] /\ Rest(p) /\ pass'[p] = Idle
  BY <1>1 DEF Rest
<1> QED
  BY <1>2 DEF Put, Idle, Spot

LEMMA TickPuts ==
    ASSUME PassesOK, NEW p \in Passes, Tick(p)
    PROVE  Put(p, Spot("cursor", 0, head, "factory", {}))
<1>1. pass = [q \in Passes |-> pass[q]]
  BY DEF PassesOK
<1>2. Whole(Idle) /\ Idle.from = 0 /\ Idle.part = "factory" /\ Idle.todo = {}
  BY DEF Idle, Whole
<1>3. pass' = [pass EXCEPT ![p] = Spot("cursor", 0, head, "factory", {})]
  <2>1. pass' = [pass EXCEPT ![p] = CursorTo(Idle, head)]
    BY DEF Tick, CursorTo
  <2> QED
    BY <1>2, <2>1, SpotTwice
<1> QED
  BY <1>1, <1>3 DEF Put, Rest

LEMMA ReadCursorPuts ==
    ASSUME PassesOK, NEW p \in Passes, ReadCursor(p)
    PROVE  LET from == NextBlock(pass[p].to)
           IN  Put(p, Spot("next", from, pass[p].to, "factory", FilterLogs("factory", from, pass[p].to)))
<1>1. pass = [q \in Passes |-> pass[q]] /\ Whole(pass[p]) /\ pass[p].part = "factory"
  BY DEF PassesOK, PassOK, ReadCursor, At
<1> DEFINE from == NextBlock(pass[p].to)
           todo == FilterLogs("factory", from, pass[p].to)
<1>2. pass' = [pass EXCEPT ![p] = NextFrom(pass[p], from, todo)]
  BY <1>1 DEF ReadCursor, NextFrom
<1> HIDE DEF from, todo
<1>3. PICK r : r = pass[p] /\ Whole(r) /\ r.part = "factory"
  BY <1>1
<1>4. NextFrom(r, from, todo) = Spot("next", from, r.to, "factory", todo)
  BY <1>3, SpotTwice
<1>5. pass' = [pass EXCEPT ![p] = Spot("next", from, pass[p].to, "factory", todo)]
  BY <1>2, <1>3, <1>4
<1>6. Put(p, Spot("next", from, pass[p].to, "factory", todo))
  BY <1>1, <1>5 DEF Put, Rest
<1> QED
  BY <1>6 DEF from, todo

LEMMA EscrowPartPuts ==
    ASSUME PassesOK, NEW p \in Passes, ListEscrows(p) \/ EscrowSkipped(p)
    PROVE  \E todo : /\ Put(p, Spot("next", pass[p].from, pass[p].to, "escrow", todo))
                     /\ todo = {} \/ (HasRow /\ todo = FilterLogs("escrow", pass[p].from, pass[p].to))
                     /\ (ListEscrows(p) /\ HasRow) => todo = FilterLogs("escrow", pass[p].from, pass[p].to)
<1>1. pass = [q \in Passes |-> pass[q]] /\ Whole(pass[p]) /\ At(p, "next") /\ pass[p].todo = {}
  BY DEF PassesOK, PassOK, ListEscrows, EscrowSkipped, PartDone
<1>2. PICK r : r = pass[p] /\ Whole(r) /\ r.pc = "next" /\ r.todo = {}
  BY <1>1 DEF At
<1>3. CASE ListEscrows(p)
  <2> DEFINE todo == IF HasRow THEN FilterLogs("escrow", pass[p].from, pass[p].to) ELSE {}
  <2>1. pass' = [pass EXCEPT ![p] = EscrowTodo(pass[p], todo)]
    BY <1>1, <1>3 DEF ListEscrows, EscrowTodo
  <2>2. todo = {} \/ (HasRow /\ todo = FilterLogs("escrow", pass[p].from, pass[p].to))
    OBVIOUS
  <2>3. HasRow => todo = FilterLogs("escrow", pass[p].from, pass[p].to)
    OBVIOUS
  <2> HIDE DEF todo
  <2>4. EscrowTodo(r, todo) = Spot("next", r.from, r.to, "escrow", todo)
    BY <1>2, SpotTwice
  <2>5. pass' = [pass EXCEPT ![p] = Spot("next", pass[p].from, pass[p].to, "escrow", todo)]
    BY <1>2, <2>1, <2>4
  <2>6. Put(p, Spot("next", pass[p].from, pass[p].to, "escrow", todo))
    BY <1>1, <2>5 DEF Put, Rest
  <2> QED
    BY <2>2, <2>3, <2>6
<1>4. CASE ~ListEscrows(p)
  <2>1. pass' = [pass EXCEPT ![p] = [pass[p] EXCEPT !.part = "escrow"]]
    BY <1>1, <1>4 DEF EscrowSkipped
  <2>2. [r EXCEPT !.part = "escrow"] = Spot("next", r.from, r.to, "escrow", {})
    BY <1>2 DEF Whole, Spot
  <2>3. pass' = [pass EXCEPT ![p] = Spot("next", pass[p].from, pass[p].to, "escrow", {})]
    BY <1>2, <2>1, <2>2
  <2>4. Put(p, Spot("next", pass[p].from, pass[p].to, "escrow", {}))
    BY <1>1, <2>3 DEF Put, Rest
  <2> QED
    BY <1>4, <2>4
<1> QED
  BY <1>3, <1>4

LEMMA PassRests ==
    ASSUME UNCHANGED chainVars, NEW o, PassOK(o), pass'[o] = pass[o]
    PROVE  PassOK(o)'
<1>1. log' = log /\ head' = head
  BY DEF chainVars
<1> QED
  BY <1>1 DEF PassOK, Whole, PointOK, ForLog, Event, Current, FilterLogs

LEMMA PassPut ==
    ASSUME PassesOK, UNCHANGED chainVars, NEW p \in Passes,
           NEW pc \in AtLog \cup {"idle", "cursor", "next"}, NEW from \in Nat, NEW to \in 0..head,
           NEW part \in {"factory", "escrow"}, NEW todo, todo \subseteq FilterLogs(part, from, to),
           Put(p, Spot(pc, from, to, part, todo)),
           pc \in AtLog => todo # {}, pc \in {"idle", "cursor"} => todo = {} /\ part = "factory",
           ForLog(pc, log[Min(todo)])
    PROVE  PassesOK'
<1>1. log' = log /\ head' = head
  BY DEF chainVars
<1>2. pass' = [q \in Passes |-> pass'[q]] /\ Rest(p) /\ pass'[p] = Spot(pc, from, to, part, todo)
  BY DEF Put
<1>3. /\ Whole(pass'[p]) /\ pass'[p].pc = pc /\ pass'[p].from = from /\ pass'[p].to = to
      /\ pass'[p].part = part /\ pass'[p].todo = todo
  BY <1>2 DEF Spot, Whole
<1>4. PassOK(p)'
  <2>1. pass'[p].todo \subseteq {l \in DOMAIN log' : log'[l].from = part /\ log'[l].block \in from..to}
    BY <1>1, <1>3 DEF FilterLogs
  <2>2. ForLog(pc, log'[Min(pass'[p].todo)])
    BY <1>1, <1>3
  <2> QED
    BY <1>1, <1>3, <2>1, <2>2 DEF PassOK, Whole, PointOK, ForLog, Event, Current, FilterLogs
<1>5. \A o \in Passes : o # p => PassOK(o)'
  BY <1>2, PassRests DEF Rest, PassesOK
<1> QED
  BY <1>2, <1>4, <1>5 DEF PassesOK

LEMMA PassesRest ==
    ASSUME PassesOK, UNCHANGED chainVars, UNCHANGED pass
    PROVE  PassesOK'
<1>1. \A o \in Passes : PassOK(o)'
  BY PassRests DEF PassesOK
<1> QED
  BY <1>1 DEF PassesOK

LEMMA HookRests ==
    ASSUME UNCHANGED chainVars, NEW h, HookOK(h), hook'[h] = hook[h]
    PROVE  HookOK(h)'
  BY DEF HookOK, HookAt, Places, chainVars

LEMMA HooksRest ==
    ASSUME HooksOK, UNCHANGED chainVars, UNCHANGED hook
    PROVE  HooksOK'
<1>1. \A h \in Hooks : HookOK(h)'
  BY HookRests DEF HooksOK
<1> QED
  BY <1>1 DEF HooksOK

\* A pass is at a log until it is done with it.
LEMMA NextKeeps ==
    ASSUME PassesOK, UNCHANGED chainVars, NEW p \in Passes, pass[p].pc \in AtLog \cup {"next"}, NextLog(p)
    PROVE  PassesOK'
<1> DEFINE todo == pass[p].todo \ {Current(p)}
<1>1. Put(p, Spot("next", pass[p].from, pass[p].to, pass[p].part, todo))
  BY NextLogPuts
<1>2. todo \subseteq FilterLogs(pass[p].part, pass[p].from, pass[p].to)
      /\ pass[p].from \in Nat /\ pass[p].to \in 0..head /\ pass[p].part \in {"factory", "escrow"}
  BY DEF PassesOK, PassOK
<1>3. "next" \notin AtLog /\ ForLog("next", log[Min(todo)])
  BY DEF AtLog, Beyond, ForLog
<1> HIDE DEF todo
<1> QED
  BY <1>1, <1>2, <1>3, PassPut

LEMMA GoKeeps ==
    ASSUME PassesOK, UNCHANGED chainVars, NEW p \in Passes, NEW pc \in AtLog, pass[p].todo # {},
           Goto(p, pc), PointOK(p, pc)
    PROVE  PassesOK'
<1>1. Put(p, Spot(pc, pass[p].from, pass[p].to, pass[p].part, pass[p].todo))
  BY Goes
<1>2. pass[p].todo \subseteq FilterLogs(pass[p].part, pass[p].from, pass[p].to)
      /\ pass[p].from \in Nat /\ pass[p].to \in 0..head /\ pass[p].part \in {"factory", "escrow"}
  BY DEF PassesOK, PassOK
<1>3. pc \notin {"idle", "cursor"} /\ ForLog(pc, log[Min(pass[p].todo)])
  BY DEF AtLog, Beyond, PointOK, Event, Current
<1> QED
  BY <1>1, <1>2, <1>3, PassPut

LEMMA IdleKeeps ==
    ASSUME PassesOK, ChainInv, UNCHANGED chainVars, NEW p \in Passes, pass' = [pass EXCEPT ![p] = Idle]
    PROVE  PassesOK'
<1>1. Put(p, Spot("idle", 0, 0, "factory", {}))
  BY IdlePuts
<1>2. "idle" \notin AtLog /\ ForLog("idle", log[Min({})]) /\ 0 \in 0..head
  BY DEF AtLog, Beyond, ForLog, ChainInv
<1> QED
  BY <1>1, <1>2, PassPut

LEMMA FirstBlockNat ==
    ASSUME NEW to \in Nat
    PROVE  FirstBlock(to) \in Nat /\ (cursor \in Nat => NextBlock(to) \in Nat)
  BY IndexerAssumption DEF FirstBlock, NextBlock

\* Every step of a pass, and every error, keeps the passes in order.
LEMMA StepKeeps ==
    ASSUME TypeInv, NEW p \in Passes, Step(p)
    PROVE  PassesOK'
<1>1. PassesOK /\ ChainInv /\ PassOK(p) /\ WholeRow(db) /\ cursor \in Nat /\ head \in Nat
  BY DEF TypeInv, PassesOK, TablesOK, ChainInv
<1>2. CASE Tick(p)
  <2>1. UNCHANGED chainVars /\ Put(p, Spot("cursor", 0, head, "factory", {}))
    BY <1>1, <1>2, TickPuts DEF Tick
  <2>2. "cursor" \notin AtLog /\ ForLog("cursor", log[Min({})]) /\ head \in 0..head
    BY <1>1 DEF AtLog, Beyond, ForLog
  <2> QED
    BY <1>1, <2>1, <2>2, PassPut
<1>3. CASE ReadCursor(p)
  <2> DEFINE from == NextBlock(pass[p].to)
             todo == FilterLogs("factory", from, pass[p].to)
  <2>1. UNCHANGED chainVars /\ Put(p, Spot("next", from, pass[p].to, "factory", todo))
    BY <1>1, <1>3, ReadCursorPuts DEF ReadCursor, Elsewhere
  <2>2. "next" \notin AtLog /\ ForLog("next", log[Min(todo)])
    BY DEF AtLog, Beyond, ForLog
  <2>3. from \in Nat /\ pass[p].to \in 0..head
    BY <1>1, FirstBlockNat DEF PassOK
  <2>4. todo \subseteq FilterLogs("factory", from, pass[p].to)
    OBVIOUS
  <2> HIDE DEF from, todo
  <2> QED
    BY <1>1, <2>1, <2>2, <2>3, <2>4, PassPut
<1>4. CASE NothingNew(p) \/ SaveCursor(p)
  <2>1. UNCHANGED chainVars /\ pass' = [pass EXCEPT ![p] = Idle]
    BY <1>4 DEF NothingNew, SaveCursor, Elsewhere
  <2> QED
    BY <1>1, <2>1, IdleKeeps
<1>5. CASE ListEscrows(p)
  <2>1. PICK todo : /\ Put(p, Spot("next", pass[p].from, pass[p].to, "escrow", todo))
                    /\ todo = {} \/ (HasRow /\ todo = FilterLogs("escrow", pass[p].from, pass[p].to))
    BY <1>1, <1>5, EscrowPartPuts
  <2>2. UNCHANGED chainVars /\ pass[p].from \in Nat /\ pass[p].to \in 0..head
    BY <1>1, <1>5 DEF ListEscrows, Elsewhere, PassOK
  <2>3. "next" \notin AtLog /\ ForLog("next", log[Min(todo)])
    BY DEF AtLog, Beyond, ForLog
  <2> QED
    BY <1>1, <2>1, <2>2, <2>3, PassPut
<1>6. CASE CheckLog(p)
  <2>1. UNCHANGED chainVars /\ pass[p].todo # {} /\ pass[p].pc = "next" /\ (NextLog(p) \/ Goto(p, "record"))
    BY <1>6 DEF CheckLog, Elsewhere, At
  <2>2. "record" \in AtLog /\ PointOK(p, "record")
    BY DEF AtLog, PointOK, ForLog
  <2> QED
    BY <1>1, <2>1, <2>2, NextKeeps, GoKeeps
<1>7. CASE RecordLog(p)
  <2>1. UNCHANGED chainVars /\ pass[p].todo # {} /\ Goto(p, FirstStep(Event(p)))
    BY <1>1, <1>7 DEF RecordLog, Elsewhere, At, PassOK, AtLog
  <2>2. FirstStep(Event(p)) \in AtLog /\ PointOK(p, FirstStep(Event(p)))
    BY DEF FirstStep, AtLog, Beyond, PointOK, ForLog
  <2> QED
    BY <1>1, <2>1, <2>2, GoKeeps
<1>8. CASE Works(p)
  <2>1. UNCHANGED chainVars /\ pass[p].todo # {} /\ pass[p].pc \in AtLog /\ Beyond \subseteq AtLog
        /\ (NextLog(p) \/ \E pc \in Beyond : Goto(p, pc) /\ PointOK(p, pc))
    BY <1>1, <1>8 DEF Works, Elsewhere, PassOK, AtLog, Continues, Finishes
  <2> QED
    BY <1>1, <2>1, NextKeeps, GoKeeps
<1> QED
  BY <1>1, <1>2, <1>3, <1>4, <1>5, <1>6, <1>7, <1>8, PassSteps

LEMMA FaultKeeps ==
    ASSUME TypeInv, NEW p \in Passes, PassFails(p) \/ EscrowSkipped(p) \/ LogSkipped(p) \/ ReadFails(p)
    PROVE  PassesOK' /\ UNCHANGED <<chainVars, tables, stream, hook>>
<1>1. PassesOK /\ ChainInv /\ PassOK(p) /\ UNCHANGED <<chainVars, tables, stream, hook>>
  BY DEF TypeInv, PassesOK, PassFails, EscrowSkipped, LogSkipped, ReadFails, Fault
<1>2. CASE PassFails(p)
  BY <1>1, <1>2, IdleKeeps DEF PassFails
<1>3. CASE EscrowSkipped(p)
  <2>1. PICK todo : /\ Put(p, Spot("next", pass[p].from, pass[p].to, "escrow", todo))
                    /\ todo = {} \/ (HasRow /\ todo = FilterLogs("escrow", pass[p].from, pass[p].to))
    BY <1>1, <1>3, EscrowPartPuts
  <2>2. pass[p].from \in Nat /\ pass[p].to \in 0..head
    BY <1>1 DEF PassOK
  <2>3. "next" \notin AtLog /\ ForLog("next", log[Min(todo)])
    BY DEF AtLog, Beyond, ForLog
  <2> QED
    BY <1>1, <2>1, <2>2, <2>3, PassPut
<1>4. CASE LogSkipped(p)
  <2>1. pass[p].pc \in AtLog \cup {"next"} /\ NextLog(p)
    BY <1>4 DEF LogSkipped, At, AtLog, Beyond
  <2> QED
    BY <1>1, <2>1, NextKeeps
<1>5. CASE ReadFails(p)
  <2>1. \E pc \in {"write", "handle"} : Goto(p, pc) /\ PointOK(p, pc) /\ pass[p].todo # {}
    BY <1>1, <1>5 DEF ReadFails, At, PassOK, PointOK, ForLog, AtLog, Beyond
  <2>2. {"write", "handle"} \subseteq AtLog
    BY DEF AtLog, Beyond
  <2> QED
    BY <1>1, <2>1, <2>2, GoKeeps
<1> QED
  BY <1>1, <1>2, <1>3, <1>4, <1>5

\* A block is added, and what was there stays.
Grows ==
    /\ head' = head + 1 /\ Places \subseteq Places' /\ Len(log) \in Nat
    /\ \A l \in Places : log'[l] = log[l]
    /\ \A l \in Places, m \in New : l < m
    /\ \A l \in New : log'[l].block = head + 1

LEMMA MineGrows == ASSUME ChainInv, Mine PROVE ChainInv' /\ Grows
<1>1. \E events \in Seq(AllEvents) : Adds(events)
  <2>1. (Births1 \/ Barring \/ Moving \/ Ends)
    BY Kinds DEF ChainInv
  <2>2. Births \subseteq AllEvents /\ Plain \cup Owned \subseteq AllEvents /\ Plain \cup Reports \subseteq AllEvents
        /\ Events("factory", BarNames) \subseteq AllEvents
    BY EventSets
  <2>3. Seq(Births) \subseteq Seq(AllEvents) /\ Seq(Plain \cup Owned) \subseteq Seq(AllEvents)
        /\ Seq(Plain \cup Reports) \subseteq Seq(AllEvents) /\ Seq(Events("factory", BarNames)) \subseteq Seq(AllEvents)
    BY <2>2, SeqMonotonic
  <2>4. CASE Births1
    BY <2>3, <2>4, BirthEvents
  <2>5. CASE Barring
    BY <2>3, <2>5 DEF Barring
  <2>6. CASE Moving
    BY <2>3, <2>6 DEF Moving
  <2>7. CASE Ends
    BY <2>3, <2>7 DEF Ends, EndsAt
  <2> QED
    BY <2>1, <2>4, <2>5, <2>6, <2>7
<1> QED
  BY <1>1, ChainStep, LogStep DEF Grows

\* The logs of a range that the chain has reached stay the same.
LEMMA SameLogs ==
    ASSUME ChainInv, ChainInv', Grows, NEW part, NEW from, NEW to \in 0..head
    PROVE  {l \in DOMAIN log' : log'[l].from = part /\ log'[l].block \in from..to} = FilterLogs(part, from, to)
<1>1. DOMAIN log = Places /\ DOMAIN log' = Places' /\ head \in Nat
  BY PlacesNat DEF ChainInv, LogOK, Places
<1>2. \A l \in New : log'[l].block \notin from..to
  BY <1>1 DEF Grows
<1> QED
  BY <1>1, <1>2 DEF Grows, FilterLogs, New

LEMMA MiningKeeps == ASSUME TypeInv, Mining PROVE TypeInv'
<1>1. ChainInv /\ ChainInv' /\ Grows /\ UNCHANGED serverVars
  BY MineGrows DEF TypeInv, Mining
<1>2. DOMAIN log = Places /\ head \in Nat /\ 0..head \subseteq 0..head' /\ pass' = pass /\ hook' = hook
  <2>1. DOMAIN log = Places /\ head \in Nat /\ head' = head + 1
    BY <1>1, PlacesNat DEF ChainInv, Grows
  <2>2. pass' = pass /\ hook' = hook
    BY <1>1 DEF serverVars, control
  <2> QED
    BY <2>1, <2>2
<1>3. PassesOK'
  <2>1. ASSUME NEW p \in Passes PROVE PassOK(p)'
    <3>1. PassOK(p) /\ pass'[p] = pass[p]
      BY <1>2 DEF TypeInv, PassesOK
    <3>2. pass'[p].todo \subseteq {l \in DOMAIN log' : log'[l].from = pass[p].part
                                                       /\ log'[l].block \in pass[p].from..pass[p].to}
      BY <1>1, <3>1, SameLogs DEF PassOK
    <3>3. pass[p].todo # {} => log'[Current(p)] = log[Current(p)]
      BY <1>1, <3>1, CurrentFirst DEF Grows
    <3>4. PointOK(p, pass[p].pc)'
      <4>1. pass[p].pc \notin AtLog => PointOK(p, pass[p].pc)'
        BY <3>1 DEF PointOK, ForLog, AtLog, Beyond
      <4>2. ASSUME pass[p].pc \in AtLog PROVE PointOK(p, pass[p].pc)'
        <5>1. log'[Min(pass'[p].todo)] = log[Min(pass[p].todo)]
          BY <3>1, <3>3, <4>2 DEF PassOK, Current
        <5> QED
          BY <3>1, <5>1 DEF PassOK, PointOK, ForLog, Event, Current
      <4> QED
        BY <4>1, <4>2
    <3> QED
      BY <1>2, <3>1, <3>2, <3>4 DEF PassOK, Whole, FilterLogs, At
  <2> QED
    BY <1>2, <2>1 DEF TypeInv, PassesOK
<1>4. HooksOK'
  <2>1. ASSUME NEW h \in Hooks PROVE HookOK(h)'
    <3>1. HookOK(h)
      BY DEF TypeInv, HooksOK
    <3> QED
      BY <1>1, <1>2, <3>1 DEF HookOK, HookAt, Grows
  <2> QED
    BY <1>2, <2>1 DEF TypeInv, HooksOK
<1>5. TablesOK'
  BY <1>1, <1>2 DEF TypeInv, TablesOK, Grows, serverVars, tables, control, WholeRow
<1> QED
  BY <1>1, <1>3, <1>4, <1>5 DEF TypeInv

\* A webhook call moves, and the others stay.
LEMMA HookSteps ==
    ASSUME TypeInv, NEW h \in Hooks, HookStep(h)
    PROVE  /\ HooksOK' /\ UNCHANGED <<chainVars, cursor, pass, failures>>
           /\ RowStays /\ \A o \in Hooks : o # h => hook'[o] = hook[o]
           /\ \/ UNCHANGED <<chainLogs, reputation, outcomes, stream>>
              \/ /\ HookAt(h, "handle") /\ Hooked(h).name = "OutcomeRecorded"
                 /\ Recorded(hook[h].l) /\ UNCHANGED <<chainLogs, stream>>
              \/ /\ HookAt(h, "record") /\ chainLogs' = chainLogs \cup {hook[h].l} /\ Publish(hook[h].l)
                 /\ UNCHANGED <<reputation, outcomes>>
           /\ hook'[h].pc = "record" =>
                 /\ hook'[h].l = hook[h].l
                 /\ \/ UNCHANGED hook
                    \/ HookAt(h, "handle") /\ Hooked(h).name \notin {"EscrowCreated", "OutcomeRecorded"}
                    \/ Hooked(h).name = "EscrowCreated" /\ HasRow'
                    \/ HookAt(h, "handle") /\ Hooked(h).name = "OutcomeRecorded" /\ Recorded(hook[h].l)
           /\ suffered' = suffered \/ Suffer("delivery")
<1>1. hook = [o \in Hooks |-> hook[o]] /\ HookOK(h) /\ WholeRow(db) /\ HooksOK /\ ChainInv
  BY DEF TypeInv, HooksOK, TablesOK
<1>2. UNCHANGED <<chainVars, cursor, pass, failures>>
  BY DEF HookStep, Deliver, HookFails, HookChecks, HookEscrowCreated, HookInserts, HookOutcomeRecorded, HookIgnores,
         HookRecords, HookOnly
<1> DEFINE Call(pc, l) == hook' = [hook EXCEPT ![h] = [pc |-> pc, l |-> l]]
<1>3. ASSUME NEW pc \in {"idle", "check", "handle", "insert", "record"}, NEW l, Call(pc, l),
             pc # "idle" => l \in Places /\ log[l].from = "factory",
             pc = "insert" => log[l].name = "EscrowCreated"
      PROVE  HooksOK' /\ hook'[h].pc = pc /\ hook'[h].l = l /\ \A o \in Hooks : o # h => hook'[o] = hook[o]
  <2>1. hook' = [o \in Hooks |-> hook'[o]] /\ hook'[h] = [pc |-> pc, l |-> l]
        /\ \A o \in Hooks : o # h => hook'[o] = hook[o]
    BY <1>1, <1>3
  <2>2. HookOK(h)'
    BY <1>2, <1>3, <2>1 DEF HookOK, HookAt, Places, chainVars
  <2>3. \A o \in Hooks : o # h => HookOK(o)'
    BY <1>1, <1>2, <2>1, HookRests DEF HooksOK
  <2> QED
    BY <2>1, <2>2, <2>3 DEF HooksOK
<1>4. \A pc : HookGoto(h, pc) => Call(pc, hook[h].l)
  <2>1. hook[h] = [pc |-> hook[h].pc, l |-> hook[h].l]
    BY <1>1 DEF HookOK
  <2>2. \A pc : [hook[h] EXCEPT !.pc = pc] = [pc |-> pc, l |-> hook[h].l]
    BY <2>1
  <2> QED
    BY <1>1, <2>2 DEF HookGoto
<1> HIDE DEF Call
<1>5. ~HookAt(h, "idle") => hook[h].l \in Places /\ log[hook[h].l].from = "factory"
  BY <1>1 DEF HookOK
<1>6. CASE Deliver(h)
  <2>1. \E l \in DOMAIN log : log[l].from = "factory" /\ Call("check", l)
    BY <1>6 DEF Deliver, Call
  <2>2. HooksOK' /\ hook'[h].pc = "check" /\ \A o \in Hooks : o # h => hook'[o] = hook[o]
    BY <1>1, <1>3, <2>1, PlacesNat
  <2>3. UNCHANGED <<chainLogs, db, reputation, outcomes, stream>> /\ Suffer("delivery")
    BY <1>6 DEF Deliver
  <2>4. RowStays
    BY <1>1, <2>3 DEF RowStays, HasRow, WholeRow
  <2> QED
    BY <1>2, <2>2, <2>3, <2>4
<1>7. CASE HookFails(h) \/ HookChecks(h)
  <2>1. Call("idle", hook[h].l) \/ Call("handle", hook[h].l)
    BY <1>4, <1>7 DEF HookFails, HookChecks
  <2>2. HooksOK' /\ hook'[h].pc \in {"idle", "handle"} /\ \A o \in Hooks : o # h => hook'[o] = hook[o]
    <3>1. ~HookAt(h, "idle")
      BY <1>7 DEF HookFails, HookChecks, HookAt
    <3> QED
      BY <1>3, <1>5, <2>1, <3>1
  <2>3. UNCHANGED <<chainLogs, db, reputation, outcomes, stream, suffered>>
    BY <1>7 DEF HookFails, HookChecks
  <2>4. RowStays
    BY <1>1, <2>3 DEF RowStays, HasRow, WholeRow
  <2> QED
    BY <1>2, <2>2, <2>3, <2>4
<1>8. CASE HookEscrowCreated(h)
  <2>1. /\ Hooked(h).name = "EscrowCreated" /\ ~HookAt(h, "idle")
        /\ \/ Call("record", hook[h].l) /\ HasRow
           \/ Call("insert", hook[h].l)
           \/ Call("idle", hook[h].l)
    BY <1>4, <1>8 DEF HookEscrowCreated, HookAt
  <2>2. /\ HooksOK' /\ (hook'[h].pc = "record" => HasRow) /\ hook'[h].l = hook[h].l
        /\ \A o \in Hooks : o # h => hook'[o] = hook[o]
    BY <1>3, <1>5, <2>1 DEF Hooked
  <2>3. UNCHANGED <<chainLogs, db, reputation, outcomes, stream, suffered>>
    BY <1>8 DEF HookEscrowCreated
  <2>4. RowStays
    BY <1>1, <2>3 DEF RowStays, HasRow, WholeRow
  <2> QED
    BY <1>2, <2>1, <2>2, <2>3, <2>4 DEF RowStays
<1>9. CASE HookInserts(h)
  <2>1. Hooked(h).name = "EscrowCreated" /\ ~HookAt(h, "idle")
    BY <1>1, <1>9 DEF HookInserts, HookOK, Hooked, HookAt
  <2>2. UNCHANGED <<chainLogs, reputation, outcomes, stream, suffered>>
    BY <1>9 DEF HookInserts
  <2>3. \/ Call("idle", hook[h].l) /\ db' = db
        \/ Call("record", hook[h].l) /\ ~HasRow /\ db' = Inserted("webhook", NoMilestones)
    BY <1>4, <1>9 DEF HookInserts
  <2>4. RowStays /\ (Call("record", hook[h].l) /\ db' # db => HasRow')
    BY <1>1, <2>3, RowEntered DEF RowStays, HasRow, WholeRow
  <2>5. /\ HooksOK' /\ (hook'[h].pc = "record" => HasRow') /\ hook'[h].l = hook[h].l
        /\ \A o \in Hooks : o # h => hook'[o] = hook[o]
    <3>1. CASE Call("idle", hook[h].l)
      BY <1>3, <1>5, <2>1, <3>1
    <3>2. CASE Call("record", hook[h].l) /\ db' = Inserted("webhook", NoMilestones)
      <4>1. HasRow'
        BY <3>2, RowEntered DEF HasRow
      <4> QED
        BY <1>3, <1>5, <2>1, <3>2, <4>1
    <3> QED
      BY <2>3, <3>1, <3>2
  <2> QED
    BY <1>2, <2>1, <2>2, <2>4, <2>5
<1>10. CASE HookOutcomeRecorded(h) \/ HookIgnores(h)
  <2>1. HookAt(h, "handle") /\ Call("record", hook[h].l) /\ UNCHANGED <<chainLogs, db, stream, suffered>>
    BY <1>4, <1>10 DEF HookOutcomeRecorded, HookIgnores
  <2>2. \/ Hooked(h).name = "OutcomeRecorded" /\ Recorded(hook[h].l)
        \/ Hooked(h).name \notin {"EscrowCreated", "OutcomeRecorded"} /\ UNCHANGED <<reputation, outcomes>>
    BY <1>10 DEF HookOutcomeRecorded, HookIgnores
  <2>3. HooksOK' /\ hook'[h].l = hook[h].l /\ \A o \in Hooks : o # h => hook'[o] = hook[o]
    BY <1>3, <1>5, <2>1 DEF HookAt
  <2>4. RowStays
    BY <1>1, <2>1 DEF RowStays, HasRow, WholeRow
  <2> QED
    BY <1>2, <2>1, <2>2, <2>3, <2>4
<1>11. CASE HookRecords(h)
  <2>1. HookAt(h, "record") /\ Call("idle", hook[h].l) /\ UNCHANGED <<db, reputation, outcomes, suffered>>
        /\ chainLogs' = chainLogs \cup {hook[h].l} /\ Publish(hook[h].l)
    BY <1>4, <1>11 DEF HookRecords
  <2>2. HooksOK' /\ hook'[h].pc = "idle" /\ \A o \in Hooks : o # h => hook'[o] = hook[o]
    BY <1>3, <2>1
  <2>3. RowStays
    BY <1>1, <2>1 DEF RowStays, HasRow, WholeRow
  <2> QED
    BY <1>2, <2>1, <2>2, <2>3
<1> QED
  BY <1>6, <1>7, <1>8, <1>9, <1>10, <1>11 DEF HookStep

LEMMA SufferKeeps ==
    ASSUME suffered \in [Disruption -> Nat], NEW d \in Disruption, Suffer(d)
    PROVE  suffered' \in [Disruption -> Nat] /\ suffered'[d] # 0
           /\ \A o \in Disruption : suffered[o] <= suffered'[o]
<1>1. suffered' = [suffered EXCEPT ![d] = suffered[d] + 1]
  BY DEF Suffer
<1> QED
  BY <1>1

\* A request for a token.
ApiTokens == \E m \in Minters : ApiReadsForMint(m) \/ ApiMints(m)

LEMMA TokensOnly == ASSUME ApiTokens PROVE db' = db \/ \E x : db' = [db EXCEPT !.tokens = x]
<1>1. PICK m \in Minters : ApiReadsForMint(m) \/ ApiMints(m)
  BY DEF ApiTokens
<1>2. CASE ApiReadsForMint(m)
  BY <1>2 DEF ApiReadsForMint
<1>3. CASE ApiMints(m)
  <2> DEFINE x == db.tokens \cup {IF db.status \in TerminalStatuses THEN "closed" ELSE "open"}
  <2>1. db' = db \/ db' = [db EXCEPT !.tokens = x]
    BY <1>3 DEF ApiMints
  <2> HIDE DEF x
  <2> QED
    BY <2>1
<1> QED
  BY <1>1, <1>2, <1>3

LEMMA DbWhole ==
    ASSUME WholeRow(db), ApiFinalizes \/ ApiTokens
    PROVE  RowStays
<1>1. CASE ApiFinalizes
  <2>1. PICK m : db' = Inserted("api", m)
    BY <1>1 DEF ApiFinalizes
  <2> QED
    BY <2>1, RowEntered DEF RowStays, HasRow, WholeRow
<1>2. CASE ApiTokens
  <2>1. db' = db \/ \E x : db' = [db EXCEPT !.tokens = x]
    BY <1>2, TokensOnly
  <2> QED
    BY <2>1, RowWritten DEF RowStays, HasRow, WholeRow
<1> QED
  BY <1>1, <1>2

\* What the tables need of a step that leaves the chain alone.
LEMMA TablesStep ==
    ASSUME TypeInv, UNCHANGED chainVars, RowStays,
           cursor' \in 0..head, chainLogs' \subseteq Places, outcomes' \subseteq Places,
           suffered' \in [Disruption -> Nat]
    PROVE  TablesOK'
  BY DEF TypeInv, TablesOK, RowStays, Places, chainVars, WholeRow

LEMMA RowKept == ASSUME WholeRow(db), db' = db PROVE RowStays
  BY DEF RowStays, HasRow, WholeRow

LEMMA StepTables ==
    ASSUME TypeInv, NEW p \in Passes, Step(p)
    PROVE  TablesOK' /\ UNCHANGED <<chainVars, hook>> /\ RowStays
<1>1. PassOK(p) /\ ChainInv /\ WholeRow(db) /\ cursor \in 0..head /\ chainLogs \subseteq Places /\ outcomes \subseteq Places
      /\ suffered \in [Disruption -> Nat]
  BY DEF TypeInv, PassesOK, TablesOK
<1>2. CASE Tick(p)
  <2>1. UNCHANGED <<chainVars, tables, hook>> /\ (suffered' = suffered \/ Suffer("request"))
    BY <1>2 DEF Tick
  <2>2. "request" \in Disruption
    BY DEF Disruption
  <2>3. suffered' \in [Disruption -> Nat]
    BY <1>1, <2>1, <2>2, SufferKeeps
  <2>4. RowStays
    BY <1>1, <2>1, RowKept DEF tables
  <2> QED
    BY <1>1, <2>1, <2>3, <2>4, TablesStep DEF tables
<1>3. CASE ReadCursor(p) \/ NothingNew(p) \/ ListEscrows(p) \/ CheckLog(p)
  <2>1. UNCHANGED <<tables, suffered>> /\ UNCHANGED <<chainVars, hook>>
    BY <1>3 DEF ReadCursor, NothingNew, ListEscrows, CheckLog, Elsewhere
  <2>2. RowStays
    BY <1>1, <2>1, RowKept DEF tables
  <2> QED
    BY <1>1, <2>1, <2>2, TablesStep DEF tables
<1>4. CASE SaveCursor(p)
  <2>1. cursor' = pass[p].to /\ UNCHANGED <<chainLogs, db, outcomes, suffered>> /\ UNCHANGED <<chainVars, hook>>
    BY <1>4 DEF SaveCursor, Elsewhere
  <2>2. RowStays
    BY <1>1, <2>1, RowKept
  <2>3. cursor' \in 0..head
    BY <1>1, <2>1 DEF PassOK
  <2> QED
    BY <1>1, <2>1, <2>2, <2>3, TablesStep
<1>5. CASE RecordLog(p)
  <2>1. chainLogs' = chainLogs \cup {Current(p)} /\ UNCHANGED <<cursor, db, outcomes, suffered>>
        /\ UNCHANGED <<chainVars, hook>>
    BY <1>5 DEF RecordLog, Elsewhere
  <2>2. Current(p) \in Places
    BY <1>1, <1>5, CurrentFirst DEF RecordLog, PassOK, At, AtLog
  <2>3. RowStays
    BY <1>1, <2>1, RowKept
  <2> QED
    BY <1>1, <2>1, <2>2, <2>3, TablesStep
<1>6. CASE Works(p) /\ RowStays
  <2>1. UNCHANGED <<chainLogs, cursor, suffered>> /\ UNCHANGED <<chainVars, hook>>
        /\ (outcomes' = outcomes \/ outcomes' = outcomes \cup {Current(p)}) /\ pass[p].todo # {}
    BY <1>1, <1>6 DEF Works, Continues, Finishes, Elsewhere, Recorded, PassOK, AtLog
  <2>2. Current(p) \in Places
    BY <1>1, <2>1, CurrentFirst
  <2> QED
    BY <1>1, <1>6, <2>1, <2>2, TablesStep
<1> QED
  BY <1>1, <1>2, <1>3, <1>4, <1>5, <1>6, PassSteps

LEMMA FaultTables ==
    ASSUME TypeInv, NEW p \in Passes, PassFails(p) \/ EscrowSkipped(p) \/ LogSkipped(p) \/ ReadFails(p)
    PROVE  TablesOK' /\ suffered'["fault"] # 0
<1>1. UNCHANGED <<chainVars, tables, stream, hook>> /\ Suffer("fault")
  BY DEF PassFails, EscrowSkipped, LogSkipped, ReadFails, Fault
<1>2. "fault" \in Disruption
  BY DEF Disruption
<1>3. suffered' \in [Disruption -> Nat] /\ suffered'["fault"] # 0
  BY <1>1, <1>2, SufferKeeps DEF TypeInv, TablesOK
<1>4. RowStays
  BY <1>1, RowKept DEF TypeInv, TablesOK, tables
<1> QED
  BY <1>1, <1>3, <1>4, TablesStep DEF TypeInv, TablesOK, tables

LEMMA HookTables ==
    ASSUME TypeInv, NEW h \in Hooks, HookStep(h)
    PROVE  TablesOK'
<1>1. hook[h].pc \in {"handle", "record"} => hook[h].l \in Places
  BY DEF TypeInv, HooksOK, HookOK, HookAt
<1>2. chainLogs' \subseteq Places /\ outcomes' \subseteq Places
  BY <1>1, HookSteps DEF TypeInv, TablesOK, Recorded, HookAt
<1>3. suffered' \in [Disruption -> Nat]
  <2>1. "delivery" \in Disruption
    BY DEF Disruption
  <2> QED
    BY <2>1, HookSteps, SufferKeeps DEF TypeInv, TablesOK
<1>4. UNCHANGED <<chainVars, cursor>> /\ RowStays
  BY HookSteps
<1> QED
  BY <1>2, <1>3, <1>4, TablesStep DEF TypeInv, TablesOK

LEMMA RestartKeeps ==
    ASSUME TypeInv, Restart
    PROVE  TypeInv'
<1>1. UNCHANGED <<chainVars, tables, stream>> /\ Suffer("crash") /\ pass' = [p \in Passes |-> Idle]
      /\ hook' = [h \in Hooks |-> [pc |-> "idle", l |-> 1]]
  BY DEF Restart
<1>2. ChainInv'
  BY <1>1, ChainRests DEF TypeInv
<1>3. PassesOK'
  <2>1. 0 \in 0..head'
    BY <1>2 DEF ChainInv
  <2> QED
    BY <1>1, <2>1 DEF PassesOK, PassOK, Idle, Whole, AtLog, Beyond, PointOK, ForLog, At
<1>4. HooksOK'
  BY <1>1 DEF HooksOK, HookOK, HookAt
<1>5. TablesOK'
  <2>1. "crash" \in Disruption
    BY DEF Disruption
  <2>2. suffered' \in [Disruption -> Nat]
    BY <1>1, <2>1, SufferKeeps DEF TypeInv, TablesOK
  <2>3. RowStays
    BY <1>1, RowKept DEF TypeInv, TablesOK, tables
  <2> QED
    BY <1>1, <2>2, <2>3, TablesStep DEF TypeInv, TablesOK, tables
<1> QED
  BY <1>2, <1>3, <1>4, <1>5 DEF TypeInv

LEMMA ApiKeeps ==
    ASSUME TypeInv, ApiFinalizes \/ ApiTokens
    PROVE  TypeInv' /\ RowStays
<1>1. UNCHANGED <<chainVars, chainLogs, cursor, reputation, outcomes, stream, control>>
  BY DEF ApiFinalizes, ApiTokens, ApiReadsForMint, ApiMints, ApiOnly
<1>2. RowStays
  BY DbWhole DEF TypeInv, TablesOK
<1>3. ChainInv'
  BY <1>1, ChainRests DEF TypeInv
<1>4. PassesOK' /\ HooksOK'
  BY <1>1, PassesRest, HooksRest DEF TypeInv, control
<1>5. TablesOK'
  BY <1>1, <1>2, TablesStep DEF TypeInv, TablesOK, control
<1> QED
  BY <1>2, <1>3, <1>4, <1>5 DEF TypeInv

LEMMA TypeStarts == ASSUME Init PROVE TypeInv
<1>1. ChainInv
  BY ChainStarts DEF Init
<1>2. PassesOK
  <2>1. 0 \in 0..head
    BY <1>1 DEF ChainInv
  <2> QED
    BY <2>1 DEF Init, PassesOK, PassOK, Idle, Whole, AtLog, Beyond, PointOK, ForLog, At
<1>3. HooksOK
  BY DEF Init, HooksOK, HookOK, HookAt
<1>4. TablesOK
  <2>1. WholeRow(db)
    BY DEF Init, Row, WholeRow
  <2>2. 0 \in 0..head
    BY <1>1 DEF ChainInv
  <2> QED
    BY <2>1, <2>2 DEF Init, TablesOK
<1> QED
  BY <1>1, <1>2, <1>3, <1>4 DEF TypeInv

LEMMA TypeKept == ASSUME TypeInv, [Next]_vars PROVE TypeInv'
<1>1. CASE UNCHANGED vars
  <2>1. UNCHANGED <<chainVars, serverVars>> /\ UNCHANGED <<tables, control>>
    BY <1>1 DEF vars, serverVars
  <2>2. RowStays
    BY <2>1, RowKept DEF TypeInv, TablesOK, tables
  <2>3. TablesOK'
    BY <2>1, <2>2, TablesStep DEF TypeInv, TablesOK, tables, control
  <2> QED
    BY <2>1, <2>3, ChainRests, PassesRest, HooksRest DEF TypeInv, control
<1>2. CASE Mining
  BY <1>2, MiningKeeps
<1>3. ASSUME NEW p \in Passes, Step(p) PROVE TypeInv'
  <2>1. TablesOK' /\ UNCHANGED <<chainVars, hook>>
    BY <1>3, StepTables
  <2> QED
    BY <1>3, <2>1, StepKeeps, ChainRests, HooksRest DEF TypeInv
<1>4. ASSUME NEW p \in Passes, PassFails(p) \/ EscrowSkipped(p) \/ LogSkipped(p) \/ ReadFails(p) PROVE TypeInv'
  <2>1. TablesOK' /\ PassesOK' /\ UNCHANGED <<chainVars, tables, stream, hook>>
    BY <1>4, FaultTables, FaultKeeps
  <2> QED
    BY <2>1, ChainRests, HooksRest DEF TypeInv
<1>5. ASSUME NEW h \in Hooks, HookStep(h) PROVE TypeInv'
  <2>1. HooksOK' /\ UNCHANGED <<chainVars, cursor, pass, failures>> /\ TablesOK'
    BY <1>5, HookSteps, HookTables
  <2> QED
    BY <2>1, ChainRests, PassesRest DEF TypeInv
<1>6. CASE ApiFinalizes \/ ApiTokens
  BY <1>6, ApiKeeps
<1>7. CASE Restart
  BY <1>7, RestartKeeps
<1> QED
  BY <1>1, <1>2, <1>3, <1>4, <1>5, <1>6, <1>7 DEF Next, ApiTokens

\* The chain as the server reads it: blocks in order, no event of an escrow
\* before its creation, no end before it ends; every pass and every webhook
\* call at a log of its own range and kind (internal/indexer/indexer.go).
THEOREM WellFormed == Spec => []TypeInv
<1>1. Init => TypeInv
  BY TypeStarts
<1>2. TypeInv /\ [Next]_vars => TypeInv'
  BY TypeKept
<1> QED
  BY <1>1, <1>2, PTL DEF Spec

-----------------------------------------------------------------------------
\* What is disturbed stays so, and an error is one of the disturbances.
LEMMA Calmer ==
    ASSUME TypeInv, [Next]_vars
    PROVE  \A d \in Disruption : suffered'[d] = 0 => suffered[d] = 0
<1>1. suffered' = suffered \/ \E d \in Disruption : Suffer(d)
  <2>1. {"request", "delivery", "fault", "crash"} \subseteq Disruption
    BY DEF Disruption
  <2>2. ASSUME NEW p \in Passes, Step(p) PROVE suffered' = suffered \/ Suffer("request")
    <3>1. PassOK(p) /\ WholeRow(db)
      BY DEF TypeInv, PassesOK, TablesOK
    <3> QED
      BY <2>2, <3>1, PassSteps DEF Tick, ReadCursor, NothingNew, ListEscrows, SaveCursor, CheckLog, RecordLog,
                                   Works, Elsewhere
  <2>3. ASSUME NEW p \in Passes, PassFails(p) \/ EscrowSkipped(p) \/ LogSkipped(p) \/ ReadFails(p) PROVE Suffer("fault")
    BY <2>3 DEF PassFails, EscrowSkipped, LogSkipped, ReadFails, Fault
  <2>4. ASSUME NEW h \in Hooks, HookStep(h) PROVE suffered' = suffered \/ Suffer("delivery")
    BY <2>4, HookSteps
  <2>5. Restart => Suffer("crash")
    BY DEF Restart
  <2>6. Mining \/ ApiFinalizes \/ ApiTokens \/ UNCHANGED vars => suffered' = suffered
    BY DEF Mining, ApiFinalizes, ApiTokens, ApiReadsForMint, ApiMints, ApiOnly, vars, serverVars, control
  <2> QED
    BY <2>1, <2>2, <2>3, <2>4, <2>5, <2>6 DEF Next, ApiTokens
<1>2. suffered \in [Disruption -> Nat] /\ suffered' \in [Disruption -> Nat]
  BY TypeKept DEF TypeInv, TablesOK
<1> QED
  BY <1>1, <1>2, SufferKeeps

\* The steps that are no error.
Course ==
    \/ UNCHANGED vars \/ Mining
    \/ \E p \in Passes : Step(p)
    \/ \E h \in Hooks : HookStep(h)
    \/ ApiFinalizes \/ ApiTokens
    \/ Restart

LEMMA FaultFree == ASSUME TypeInv, [Next]_vars, suffered'["fault"] = 0 PROVE Course
  BY FaultTables DEF Next, ApiTokens, Course

\* Only the poller runs while no request does.
OthersIdle == suffered["request"] = 0 => \A p \in Passes : p # Poller => At(p, "idle")
\* No webhook call is under way where none was made.
HooksIdle == suffered["delivery"] = 0 => \A h \in Hooks : HookAt(h, "idle")

LEMMA OthersIdleStep ==
    ASSUME TypeInv, OthersIdle, [Next]_vars
    PROVE  OthersIdle'
<1> SUFFICES ASSUME suffered'["request"] = 0, NEW p \in Passes, p # Poller PROVE At(p, "idle")'
  BY DEF OthersIdle
<1>1. "request" \in Disruption
  BY DEF Disruption
<1>2. At(p, "idle") /\ suffered["request"] = 0
  BY <1>1, Calmer DEF OthersIdle
<1>3. pass'[p] = pass[p] \/ pass'[p].pc = "idle"
  <2>1. ASSUME NEW q \in Passes, Step(q) PROVE pass'[p] = pass[p]
    <3>1. CASE q = p
      <4>1. Tick(p)
        <5>1. PassOK(p) /\ WholeRow(db) /\ Step(p)
          BY <2>1, <3>1 DEF TypeInv, PassesOK, TablesOK
        <5> QED
          BY <1>2, <5>1, PassSteps DEF ReadCursor, NothingNew, ListEscrows, SaveCursor, CheckLog, RecordLog, PartDone,
               Works, Continues, Finishes, At, Beyond
      <4>2. Suffer("request")
        BY <4>1 DEF Tick
      <4> QED
        BY <1>1, <4>2, SufferKeeps DEF TypeInv, TablesOK
    <3>2. CASE q # p
      <4>1. pass = [o \in Passes |-> pass[o]]
        BY DEF TypeInv, PassesOK
      <4>2. \E r : pass' = [pass EXCEPT ![q] = r]
        <5>1. PassOK(q) /\ WholeRow(db)
          BY DEF TypeInv, PassesOK, TablesOK
        <5> QED
          BY <2>1, <5>1, PassSteps DEF Tick, ReadCursor, NothingNew, ListEscrows, SaveCursor, CheckLog, RecordLog,
               Works, Continues, Finishes, NextLog, Goto
      <4> QED
        BY <3>2, <4>1, <4>2
    <3> QED
      BY <3>1, <3>2
  <2>2. ASSUME NEW q \in Passes, PassFails(q) \/ EscrowSkipped(q) \/ LogSkipped(q) \/ ReadFails(q)
        PROVE  pass'[p] = pass[p] \/ pass'[p].pc = "idle"
    <3>1. pass = [o \in Passes |-> pass[o]]
      BY DEF TypeInv, PassesOK
    <3>2. CASE q # p
      BY <2>2, <3>1, <3>2 DEF PassFails, EscrowSkipped, LogSkipped, ReadFails, NextLog, Goto
    <3>3. CASE q = p
      <4>1. PassFails(p)
        BY <1>2, <2>2, <3>3 DEF PassFails, EscrowSkipped, LogSkipped, ReadFails, At, PartDone
      <4> QED
        BY <3>1, <4>1 DEF PassFails, Idle
    <3> QED
      BY <3>2, <3>3
  <2>3. ASSUME NEW h \in Hooks, HookStep(h) PROVE pass' = pass
    BY <2>3, HookSteps
  <2>4. Restart => pass'[p].pc = "idle"
    BY DEF Restart, Idle
  <2>5. Mining \/ ApiFinalizes \/ ApiTokens \/ UNCHANGED vars => pass' = pass
    BY DEF Mining, ApiFinalizes, ApiTokens, ApiReadsForMint, ApiMints, ApiOnly, vars, serverVars, control
  <2> QED
    BY <2>1, <2>2, <2>3, <2>4, <2>5 DEF Next, ApiTokens
<1> QED
  BY <1>2, <1>3 DEF At

LEMMA HooksIdleStep ==
    ASSUME TypeInv, HooksIdle, [Next]_vars
    PROVE  HooksIdle'
<1> SUFFICES ASSUME suffered'["delivery"] = 0, NEW h \in Hooks PROVE HookAt(h, "idle")'
  BY DEF HooksIdle
<1>1. "delivery" \in Disruption
  BY DEF Disruption
<1>2. HookAt(h, "idle") /\ suffered["delivery"] = 0
  BY <1>1, Calmer DEF HooksIdle
<1>3. hook'[h] = hook[h] \/ hook'[h].pc = "idle"
  <2>1. ASSUME NEW g \in Hooks, HookStep(g) PROVE hook'[h] = hook[h]
    <3>1. g # h => hook'[h] = hook[h]
      BY <2>1, HookSteps
    <3>2. CASE g = h
      <4>1. Deliver(h)
        BY <1>2, <2>1, <3>2 DEF HookStep, Deliver, HookFails, HookChecks, HookEscrowCreated, HookInserts,
             HookOutcomeRecorded, HookIgnores, HookRecords, HookAt
      <4>2. Suffer("delivery")
        BY <4>1 DEF Deliver
      <4> QED
        BY <1>1, <4>2, SufferKeeps DEF TypeInv, TablesOK
    <3> QED
      BY <3>1, <3>2
  <2>2. ASSUME NEW q \in Passes, Step(q) PROVE hook' = hook
    BY <2>2, StepTables
  <2>3. ASSUME NEW q \in Passes, PassFails(q) \/ EscrowSkipped(q) \/ LogSkipped(q) \/ ReadFails(q) PROVE hook' = hook
    BY <2>3, FaultKeeps
  <2>4. Restart => hook'[h].pc = "idle"
    BY DEF Restart
  <2>5. Mining \/ ApiFinalizes \/ ApiTokens \/ UNCHANGED vars => hook' = hook
    BY DEF Mining, ApiFinalizes, ApiTokens, ApiReadsForMint, ApiMints, ApiOnly, vars, serverVars, control
  <2> QED
    BY <2>1, <2>2, <2>3, <2>4, <2>5 DEF Next, ApiTokens
<1> QED
  BY <1>2, <1>3 DEF HookAt

-----------------------------------------------------------------------------
\* No step forgets a log, or takes the row away.
Kept == chainLogs \subseteq chainLogs' /\ (HasRow => HasRow')

LEMMA NothingForgotten ==
    ASSUME TypeInv, [Next]_vars
    PROVE  Kept
<1>1. ASSUME NEW p \in Passes, Step(p) PROVE Kept
  <2>1. PassOK(p) /\ WholeRow(db) /\ RowStays
    BY <1>1, StepTables DEF TypeInv, PassesOK, TablesOK
  <2>2. chainLogs \subseteq chainLogs'
    BY <1>1, <2>1, PassSteps DEF Tick, ReadCursor, NothingNew, ListEscrows, SaveCursor, CheckLog, RecordLog,
       Works, Continues, Finishes, tables
  <2> QED
    BY <2>1, <2>2 DEF Kept, RowStays
<1>2. ASSUME NEW p \in Passes, PassFails(p) \/ EscrowSkipped(p) \/ LogSkipped(p) \/ ReadFails(p) PROVE Kept
  BY <1>2, FaultKeeps DEF tables, Kept, HasRow
<1>3. ASSUME NEW h \in Hooks, HookStep(h) PROVE Kept
  BY <1>3, HookSteps DEF RowStays, Kept
<1>4. ApiFinalizes \/ ApiTokens => Kept
  BY ApiKeeps DEF ApiFinalizes, ApiTokens, ApiReadsForMint, ApiMints, ApiOnly, RowStays, Kept
<1>5. Restart \/ Mining \/ UNCHANGED vars => Kept
  BY DEF Restart, Mining, vars, serverVars, tables, Kept, HasRow
<1> QED
  BY <1>1, <1>2, <1>3, <1>4, <1>5 DEF Next, ApiTokens

-----------------------------------------------------------------------------
\* A pass leaves nothing out on its way: what it has passed is recorded, but for
\* the logs of an escrow that has no row yet.

Past(p) == ~At(p, "idle") /\ ~At(p, "cursor")

WalkOK(p) ==
    Past(p) =>
      /\ pass[p].from <= pass[p].to
      /\ \A l \in FilterLogs("factory", pass[p].from, pass[p].to) :
            l \in chainLogs \/ (pass[p].part = "factory" /\ l \in pass[p].todo)
      /\ \A l \in FilterLogs("escrow", pass[p].from, pass[p].to) :
            l \in chainLogs \/ pass[p].part = "factory" \/ pass[p].todo = {} \/ l \in pass[p].todo
      /\ pass[p].pc \in Beyond => Current(p) \in chainLogs
      /\ pass[p].part = "escrow" /\ pass[p].todo # {} => HasRow
WalkInv == \A p \in Passes : WalkOK(p)

LEMMA WalkRests ==
    ASSUME UNCHANGED chainVars, Kept, NEW o, WalkOK(o), pass'[o] = pass[o]
    PROVE  WalkOK(o)'
<1>1. log' = log
  BY DEF chainVars
<1>2. \A c, f, t : FilterLogs(c, f, t) = {l \in DOMAIN log' : log'[l].from = c /\ log'[l].block \in f..t}
  BY <1>1 DEF FilterLogs
<1>3. \A c : FilterLogs(c, pass[o].from, pass[o].to)
               = {l \in DOMAIN log' : log'[l].from = c /\ log'[l].block \in pass'[o].from..pass'[o].to}
  BY <1>2
<1> QED
  BY <1>3 DEF WalkOK, Past, At, Current, FilterLogs, Kept

LEMMA WalkPut ==
    ASSUME WalkInv, UNCHANGED chainVars, Kept, NEW p \in Passes,
           NEW pc, NEW from, NEW to, NEW part, NEW todo, Put(p, Spot(pc, from, to, part, todo)),
           pc \notin {"idle", "cursor"} =>
              /\ from <= to
              /\ \A l \in FilterLogs("factory", from, to) : l \in chainLogs' \/ (part = "factory" /\ l \in todo)
              /\ \A l \in FilterLogs("escrow", from, to) :
                    l \in chainLogs' \/ part = "factory" \/ todo = {} \/ l \in todo
              /\ pc \in Beyond => Min(todo) \in chainLogs'
              /\ part = "escrow" /\ todo # {} => HasRow'
    PROVE  WalkInv'
<1>1. log' = log
  BY DEF chainVars
<1>2. /\ pass'[p].pc = pc /\ pass'[p].from = from /\ pass'[p].to = to
      /\ pass'[p].part = part /\ pass'[p].todo = todo
  BY DEF Put, Spot
<1>3. WalkOK(p)'
  <2>1. \A c : FilterLogs(c, from, to)
               = {l \in DOMAIN log' : log'[l].from = c /\ log'[l].block \in pass'[p].from..pass'[p].to}
    BY <1>1, <1>2 DEF FilterLogs
  <2> QED
    BY <1>2, <2>1 DEF WalkOK, Past, At, Current, FilterLogs
<1>4. \A o \in Passes : o # p => WalkOK(o)'
  BY WalkRests DEF Put, Rest, WalkInv
<1> QED
  BY <1>3, <1>4 DEF WalkInv

LEMMA WalkGoes ==
    ASSUME TypeInv, WalkInv, UNCHANGED chainVars, Kept, NEW p \in Passes, NEW pc, Past(p), Goto(p, pc),
           pc \in Beyond => Current(p) \in chainLogs'
    PROVE  WalkInv'
<1>1. Put(p, Spot(pc, pass[p].from, pass[p].to, pass[p].part, pass[p].todo))
  BY Goes DEF TypeInv
<1>2. WalkOK(p)
  BY DEF WalkInv
<1> QED
  BY <1>1, <1>2, WalkPut DEF WalkOK, Current, Kept

LEMMA WalkNext ==
    ASSUME TypeInv, WalkInv, UNCHANGED chainVars, Kept, NEW p \in Passes, Past(p), pass[p].todo # {},
           NextLog(p), Current(p) \in chainLogs
    PROVE  WalkInv'
<1> DEFINE todo == pass[p].todo \ {Current(p)}
<1>1. Put(p, Spot("next", pass[p].from, pass[p].to, pass[p].part, todo))
  BY NextLogPuts DEF TypeInv
<1>2. WalkOK(p)
  BY DEF WalkInv
<1>3. "next" \notin Beyond
  BY DEF Beyond
<1>4. /\ \A l \in FilterLogs("factory", pass[p].from, pass[p].to) :
            l \in chainLogs' \/ (pass[p].part = "factory" /\ l \in todo)
      /\ \A l \in FilterLogs("escrow", pass[p].from, pass[p].to) :
            l \in chainLogs' \/ pass[p].part = "factory" \/ todo = {} \/ l \in todo
      /\ pass[p].part = "escrow" /\ todo # {} => HasRow'
      /\ pass[p].from <= pass[p].to
  BY <1>2 DEF WalkOK, Kept
<1> HIDE DEF todo
<1> QED
  BY <1>1, <1>3, <1>4, WalkPut

LEMMA WalkStarts == ASSUME Init PROVE WalkInv
  BY DEF Init, WalkInv, WalkOK, Past, At, Idle

LEMMA WalkStep ==
    ASSUME TypeInv, WalkInv, Course, [Next]_vars
    PROVE  WalkInv'
<1>1. Kept /\ PassesOK /\ ChainInv /\ HasRow \in BOOLEAN
  BY NothingForgotten DEF TypeInv, HasRow
<1>2. ASSUME NEW p \in Passes, Step(p) PROVE WalkInv'
  <2>1. PassOK(p) /\ WholeRow(db) /\ WalkOK(p) /\ UNCHANGED chainVars
    BY <1>2, StepTables DEF TypeInv, PassesOK, TablesOK, WalkInv
  <2>2. CASE Tick(p)
    <3>1. Put(p, Spot("cursor", 0, head, "factory", {}))
      BY <1>1, <2>2, TickPuts
    <3> QED
      BY <1>1, <2>1, <3>1, WalkPut
  <2>3. CASE ReadCursor(p)
    <3> DEFINE from == NextBlock(pass[p].to)
               todo == FilterLogs("factory", from, pass[p].to)
    <3>1. Put(p, Spot("next", from, pass[p].to, "factory", todo)) /\ from <= pass[p].to
      BY <1>1, <2>3, ReadCursorPuts DEF ReadCursor
    <3>2. "next" \notin Beyond
      BY DEF Beyond
    <3>3. \A l \in FilterLogs("factory", from, pass[p].to) : l \in todo
      OBVIOUS
    <3> HIDE DEF from, todo
    <3> QED
      BY <1>1, <2>1, <3>1, <3>2, <3>3, WalkPut
  <2>4. CASE NothingNew(p) \/ SaveCursor(p)
    <3>1. Put(p, Spot("idle", 0, 0, "factory", {}))
      BY <1>1, <2>4, IdlePuts DEF NothingNew, SaveCursor
    <3> QED
      BY <1>1, <2>1, <3>1, WalkPut
  <2>5. CASE ListEscrows(p)
    <3>1. PICK todo : /\ Put(p, Spot("next", pass[p].from, pass[p].to, "escrow", todo))
                      /\ todo = {} \/ (HasRow /\ todo = FilterLogs("escrow", pass[p].from, pass[p].to))
      BY <1>1, <2>5, EscrowPartPuts
    <3>2. "next" \notin Beyond /\ Past(p) /\ pass[p].todo = {}
      BY <2>5 DEF Beyond, ListEscrows, PartDone, Past, At
    <3> QED
      BY <1>1, <2>1, <3>1, <3>2, WalkPut DEF WalkOK, Kept
  <2>6. CASE CheckLog(p)
    <3>1. Past(p) /\ pass[p].todo # {} /\ ((NextLog(p) /\ Current(p) \in chainLogs) \/ Goto(p, "record"))
          /\ "record" \notin Beyond
      BY <2>6 DEF CheckLog, Past, At, Beyond
    <3> QED
      BY <1>1, <2>1, <3>1, WalkNext, WalkGoes
  <2>7. CASE RecordLog(p)
    <3>1. Past(p) /\ Goto(p, FirstStep(Event(p))) /\ Current(p) \in chainLogs'
      BY <2>7 DEF RecordLog, Past, At
    <3> QED
      BY <1>1, <2>1, <3>1, WalkGoes
  <2>8. CASE Works(p)
    <3>1. Past(p) /\ pass[p].todo # {} /\ Current(p) \in chainLogs /\ (NextLog(p) \/ \E pc : Goto(p, pc))
      BY <2>1, <2>8 DEF Works, Continues, Finishes, Past, At, AtLog, Beyond, PassOK, WalkOK
    <3>2. Current(p) \in chainLogs'
      BY <1>1, <3>1 DEF Kept
    <3> QED
      BY <1>1, <2>1, <3>1, <3>2, WalkNext, WalkGoes
  <2> QED
    BY <1>2, <2>1, <2>2, <2>3, <2>4, <2>5, <2>6, <2>7, <2>8, PassSteps
<1>3. CASE Restart
  <2>1. \A p \in Passes : pass'[p].pc = "idle"
    BY <1>3 DEF Restart, Idle
  <2> QED
    BY <2>1 DEF WalkInv, WalkOK, Past, At
<1>4. CASE Mining
  <2>1. Grows /\ ChainInv' /\ UNCHANGED serverVars
    BY <1>4, MineGrows DEF TypeInv, Mining
  <2>2. ASSUME NEW p \in Passes PROVE WalkOK(p)'
    <3>1. PassOK(p) /\ WalkOK(p) /\ pass'[p] = pass[p] /\ chainLogs' = chainLogs /\ db' = db
      BY <2>1 DEF TypeInv, PassesOK, WalkInv, serverVars, control, tables
    <3>2. \A c : FilterLogs(c, pass[p].from, pass[p].to)
               = {l \in DOMAIN log' : log'[l].from = c /\ log'[l].block \in pass'[p].from..pass'[p].to}
      BY <1>1, <2>1, <3>1, SameLogs DEF PassOK
    <3> QED
      BY <3>1, <3>2 DEF WalkOK, Past, At, Current, FilterLogs, HasRow
  <2> QED
    BY <2>2 DEF WalkInv
<1>5. CASE pass' = pass /\ UNCHANGED chainVars
  <2>1. \A p \in Passes : WalkOK(p)'
    BY <1>1, <1>5, WalkRests DEF WalkInv
  <2> QED
    BY <2>1 DEF WalkInv
<1>6. ASSUME NEW h \in Hooks, HookStep(h) PROVE pass' = pass /\ UNCHANGED chainVars
  BY <1>6, HookSteps
<1>7. ApiFinalizes \/ ApiTokens \/ UNCHANGED vars => pass' = pass /\ UNCHANGED chainVars
  BY DEF ApiFinalizes, ApiTokens, ApiReadsForMint, ApiMints, ApiOnly, vars, serverVars, control
<1> QED
  BY <1>2, <1>3, <1>4, <1>5, <1>6, <1>7 DEF Course

-----------------------------------------------------------------------------
\* The factory's logs behind the cursor are recorded, whoever runs and whatever
\* restarts, where the first block does not depend on when the server first ran.

\* A first block is configured, or the chain is no longer than the look back.
FixedStart == StartBlock > 0 \/ MaxBlocks <= Lookback

LEMMA SameStart ==
    ASSUME FixedStart, ChainInv, NEW to \in 0..head
    PROVE  FirstBlock(to) = FirstBlock(0) /\ FirstBlock(0) \in Nat
  BY IndexerAssumption, ChainAssumption DEF FixedStart, FirstBlock, ChainInv

RecordedUpTo(n) ==
    \A l \in DOMAIN log :
        (log[l].from = "factory" /\ log[l].block \in FirstBlock(0)..n) => l \in chainLogs

CoverInv == RecordedUpTo(cursor) /\ \A p \in Passes : Past(p) => RecordedUpTo(pass[p].from - 1)

LEMMA UpToKept ==
    ASSUME UNCHANGED chainVars, Kept, NEW n, RecordedUpTo(n)
    PROVE  \A l \in DOMAIN log' :
              (log'[l].from = "factory" /\ log'[l].block \in FirstBlock(0)..n) => l \in chainLogs'
  BY DEF chainVars, Kept, RecordedUpTo

\* A pass is where it was, or at the start of its range, or no longer under way.
LEMMA Moves ==
    ASSUME TypeInv, NEW p \in Passes, Step(p)
    PROVE  /\ \A o \in Passes : o # p => pass'[o] = pass[o]
           /\ \/ ReadCursor(p) /\ pass'[p].from = NextBlock(pass[p].to) /\ pass'[p].to = pass[p].to
              \/ pass'[p].pc \in {"idle", "cursor"}
              \/ Past(p) /\ pass'[p].from = pass[p].from /\ pass'[p].to = pass[p].to
           /\ cursor' = cursor \/ (SaveCursor(p) /\ cursor' = pass[p].to)
<1>1. PassOK(p) /\ WholeRow(db) /\ PassesOK
  BY DEF TypeInv, PassesOK, TablesOK
<1>2. CASE Tick(p)
  <2>1. Put(p, Spot("cursor", 0, head, "factory", {}))
    BY <1>1, <1>2, TickPuts
  <2> QED
    BY <1>2, <2>1 DEF Put, Rest, Spot, Tick, tables
<1>3. CASE ReadCursor(p)
  <2> DEFINE todo == FilterLogs("factory", NextBlock(pass[p].to), pass[p].to)
  <2>1. Put(p, Spot("next", NextBlock(pass[p].to), pass[p].to, "factory", todo))
    BY <1>1, <1>3, ReadCursorPuts
  <2> HIDE DEF todo
  <2>2. cursor' = cursor
    BY <1>3 DEF ReadCursor, tables
  <2> QED
    BY <1>3, <2>1, <2>2 DEF Put, Rest, Spot
<1>4. CASE NothingNew(p) \/ SaveCursor(p)
  <2>1. Put(p, Spot("idle", 0, 0, "factory", {}))
    BY <1>1, <1>4, IdlePuts DEF NothingNew, SaveCursor
  <2>2. cursor' = cursor \/ (SaveCursor(p) /\ cursor' = pass[p].to)
    BY <1>4 DEF NothingNew, SaveCursor, tables
  <2> QED
    BY <2>1, <2>2 DEF Put, Rest, Spot
<1>5. CASE ListEscrows(p)
  <2>1. PICK todo : Put(p, Spot("next", pass[p].from, pass[p].to, "escrow", todo))
    BY <1>1, <1>5, EscrowPartPuts
  <2>2. Past(p) /\ cursor' = cursor
    BY <1>5 DEF ListEscrows, PartDone, Past, At, tables
  <2> QED
    BY <2>1, <2>2 DEF Put, Rest, Spot
<1>6. CASE CheckLog(p) \/ RecordLog(p) \/ Works(p)
  <2>1. NextLog(p) \/ \E pc : Goto(p, pc)
    BY <1>6 DEF CheckLog, RecordLog, Works, Continues, Finishes
  <2>2. Past(p) /\ cursor' = cursor
    BY <1>6 DEF CheckLog, RecordLog, Works, Continues, Finishes, Past, At, Beyond, tables
  <2>3. \E pc, todo : Put(p, Spot(pc, pass[p].from, pass[p].to, pass[p].part, todo))
    BY <1>1, <2>1, NextLogPuts, Goes
  <2>4. PICK pc, todo : Put(p, Spot(pc, pass[p].from, pass[p].to, pass[p].part, todo))
    BY <2>3
  <2> QED
    BY <2>2, <2>4 DEF Put, Rest, Spot
<1> QED
  BY <1>1, <1>2, <1>3, <1>4, <1>5, <1>6, PassSteps

\* Between the start of a range and its end nothing of the factory is left out.
LEMMA WholeRange ==
    ASSUME ChainInv, NEW p, WalkOK(p), PassOK(p), PartDone(p, "escrow"), RecordedUpTo(pass[p].from - 1)
    PROVE  RecordedUpTo(pass[p].to)
<1>1. /\ pass[p].from \in Nat /\ pass[p].to \in Nat /\ pass[p].part = "escrow" /\ pass[p].todo = {} /\ Past(p)
      /\ \A l \in DOMAIN log : log[l].block \in Nat
  BY DEF PassOK, PartDone, Past, At, ChainInv, LogOK, Places
<1>2. ASSUME NEW l \in DOMAIN log, log[l].from = "factory", log[l].block \in FirstBlock(0)..pass[p].to
      PROVE  l \in chainLogs
  <2>1. CASE log[l].block < pass[p].from
    BY <1>1, <1>2, <2>1, FirstBlockNat DEF RecordedUpTo
  <2>2. CASE ~(log[l].block < pass[p].from)
    <3>1. l \in FilterLogs("factory", pass[p].from, pass[p].to)
      BY <1>1, <1>2, <2>2, FirstBlockNat DEF FilterLogs
    <3> QED
      BY <1>1, <3>1 DEF WalkOK
  <2> QED
    BY <2>1, <2>2
<1> QED
  BY <1>2 DEF RecordedUpTo

LEMMA CoverStarts == ASSUME Init PROVE CoverInv
  BY DEF Init, ChainInit, CoverInv, RecordedUpTo, Past, At, Idle

LEMMA CoverStep ==
    ASSUME FixedStart, TypeInv, WalkInv, CoverInv, Course, [Next]_vars
    PROVE  CoverInv'
<1>1. Kept /\ PassesOK /\ ChainInv /\ cursor \in 0..head /\ FirstBlock(0) \in Nat
  BY NothingForgotten, FirstBlockNat DEF TypeInv, TablesOK
<1>2. ASSUME NEW p \in Passes, Step(p) PROVE CoverInv'
  <2>1. UNCHANGED chainVars
    BY <1>2, StepTables
  <2>2. RecordedUpTo(cursor)'
    <3>1. RecordedUpTo(cursor')
      <4>1. CASE cursor' = cursor
        BY <4>1 DEF CoverInv
      <4>2. CASE SaveCursor(p) /\ cursor' = pass[p].to
        <5>1. PartDone(p, "escrow") /\ Past(p) /\ WalkOK(p) /\ PassOK(p)
          BY <1>1, <4>2 DEF SaveCursor, PartDone, Past, At, WalkInv, PassesOK
        <5> QED
          BY <1>1, <4>2, <5>1, WholeRange DEF CoverInv
      <4> QED
        BY <1>2, <4>1, <4>2, Moves
    <3> QED
      BY <1>1, <2>1, <3>1, UpToKept DEF RecordedUpTo, FirstBlock
  <2>3. ASSUME NEW o \in Passes, Past(o)' PROVE RecordedUpTo(pass[o].from - 1)'
    <3>1. RecordedUpTo(pass'[o].from - 1)
      <4>1. CASE pass'[o] = pass[o] \/ (Past(o) /\ pass'[o].from = pass[o].from)
        BY <2>3, <4>1 DEF CoverInv, Past, At
      <4>2. CASE ReadCursor(o) /\ pass'[o].from = NextBlock(pass[o].to)
        <5>1. FirstBlock(pass[o].to) = FirstBlock(0)
          BY <1>1, SameStart DEF PassesOK, PassOK
        <5>2. CASE cursor = 0
          BY <1>1, <4>2, <5>1, <5>2 DEF RecordedUpTo, NextBlock
        <5>3. CASE cursor # 0
          <6>1. pass'[o].from - 1 = cursor
            BY <1>1, <4>2, <5>3 DEF NextBlock
          <6> QED
            BY <6>1 DEF CoverInv
        <5> QED
          BY <5>2, <5>3
      <4> QED
        BY <1>2, <2>3, <4>1, <4>2, Moves DEF Past, At
    <3> QED
      BY <1>1, <2>1, <3>1, UpToKept DEF RecordedUpTo, FirstBlock
  <2> QED
    BY <2>2, <2>3 DEF CoverInv
<1>3. CASE Restart
  <2>1. \A p \in Passes : pass'[p].pc = "idle"
    BY <1>3 DEF Restart, Idle
  <2>2. UNCHANGED chainVars /\ cursor' = cursor /\ chainLogs' = chainLogs
    BY <1>3 DEF Restart, tables
  <2> QED
    BY <2>1, <2>2 DEF CoverInv, RecordedUpTo, Past, At, chainVars, FirstBlock
<1>4. CASE Mining
  <2>1. Grows /\ ChainInv' /\ UNCHANGED serverVars /\ DOMAIN log = Places /\ DOMAIN log' = Places'
    <3>1. Grows /\ ChainInv' /\ UNCHANGED serverVars /\ DOMAIN log = Places
      BY <1>4, MineGrows, PlacesNat DEF TypeInv, Mining
    <3>2. DOMAIN log' = Places'
      BY <3>1 DEF ChainInv, LogOK, Places
    <3> QED
      BY <3>1, <3>2
  <2>2. cursor' = cursor /\ pass' = pass /\ chainLogs' = chainLogs
    BY <2>1 DEF serverVars, tables, control
  <2>3. \A l \in DOMAIN log' : (l \in DOMAIN log /\ log'[l] = log[l]) \/ log'[l].block = head + 1
    BY <2>1 DEF Grows, New
  <2>4. ASSUME NEW n \in Int, n <= head, RecordedUpTo(n)
        PROVE  \A l \in DOMAIN log' :
                  (log'[l].from = "factory" /\ log'[l].block \in FirstBlock(0)..n) => l \in chainLogs'
    <3>1. head + 1 \notin FirstBlock(0)..n
      BY <1>1, <2>4 DEF ChainInv
    <3> QED
      BY <2>2, <2>3, <2>4, <3>1 DEF RecordedUpTo
  <2>5. RecordedUpTo(cursor)'
    BY <1>1, <2>2, <2>4 DEF RecordedUpTo, CoverInv, FirstBlock, ChainInv
  <2>6. ASSUME NEW o \in Passes, Past(o)' PROVE RecordedUpTo(pass[o].from - 1)'
    <3>1. Past(o) /\ pass[o].from - 1 \in Int /\ pass[o].from - 1 <= head /\ pass'[o] = pass[o]
      BY <1>1, <2>2, <2>6 DEF Past, At, PassesOK, PassOK, WalkInv, WalkOK, ChainInv
    <3>2. RecordedUpTo(pass[o].from - 1)
      BY <3>1 DEF CoverInv
    <3> QED
      BY <2>4, <3>1, <3>2 DEF RecordedUpTo, FirstBlock
  <2> QED
    BY <2>5, <2>6 DEF CoverInv
<1>5. CASE UNCHANGED pass /\ UNCHANGED <<chainVars, cursor>>
  <2>1. \A n : RecordedUpTo(n) => \A l \in DOMAIN log' :
              (log'[l].from = "factory" /\ log'[l].block \in FirstBlock(0)..n) => l \in chainLogs'
    BY <1>1, <1>5, UpToKept
  <2> QED
    BY <1>5, <2>1 DEF CoverInv, RecordedUpTo, Past, At, FirstBlock
<1>6. ASSUME NEW h \in Hooks, HookStep(h) PROVE UNCHANGED pass /\ UNCHANGED <<chainVars, cursor>>
  BY <1>6, HookSteps
<1>7. ApiFinalizes \/ ApiTokens \/ UNCHANGED vars => UNCHANGED pass /\ UNCHANGED <<chainVars, cursor>>
  BY DEF ApiFinalizes, ApiTokens, ApiReadsForMint, ApiMints, ApiOnly, vars, serverVars, control, tables
<1> QED
  BY <1>2, <1>3, <1>4, <1>5, <1>6, <1>7 DEF Course

\* The invariant behind FactoryCovered.
FactoryInv == TypeInv /\ (suffered["fault"] = 0 => WalkInv /\ CoverInv)

LEMMA FactoryStep ==
    ASSUME FixedStart, FactoryInv, [Next]_vars
    PROVE  FactoryInv'
<1>1. TypeInv /\ TypeInv'
  BY TypeKept DEF FactoryInv
<1>2. ASSUME suffered'["fault"] = 0 PROVE WalkInv' /\ CoverInv'
  <2>1. "fault" \in Disruption
    BY DEF Disruption
  <2>2. Course /\ WalkInv /\ CoverInv
    BY <1>1, <1>2, <2>1, FaultFree, Calmer DEF FactoryInv
  <2> QED
    BY <1>1, <2>2, WalkStep, CoverStep
<1> QED
  BY <1>1, <1>2 DEF FactoryInv

\* No factory log behind the cursor was left unrecorded: not by a pass that a
\* request runs beside the poller's, not by a webhook call, not by a restart
\* (RunOnce saves the cursor after the logs of its range).
THEOREM PollerCoversFactory ==
    ASSUME FixedStart
    PROVE  Spec => []FactoryCovered
<1>1. Init => FactoryInv
  BY TypeStarts, WalkStarts, CoverStarts DEF FactoryInv
<1>2. FactoryInv /\ [Next]_vars => FactoryInv'
  BY FactoryStep
<1>3. FactoryInv => FactoryCovered
  <2>1. "fault" \in Disruption
    BY DEF Disruption
  <2> QED
    BY <2>1 DEF FactoryInv, CoverInv, RecordedUpTo, FactoryCovered, Undisturbed
<1> QED
  BY <1>1, <1>2, <1>3, PTL DEF Spec

-----------------------------------------------------------------------------
\* An outcome is counted once, and a recorded outcome or creation has been dealt
\* with, or is being dealt with.

Roles == {"worker", "buyer", "replaced"}
Told3(l) == log[l].name = "OutcomeRecorded" /\ log[l].arg \in Roles

LEMMA OutcomeLogs ==
    ASSUME ChainInv, NEW l \in Places, log[l].name = "OutcomeRecorded"
    PROVE  log[l].from = "factory" /\ Told3(l)
<1>1. Told(l) \in AllEvents /\ Told(l).name = "OutcomeRecorded" /\ Told(l).from = log[l].from /\ Told(l).arg = log[l].arg
  BY DEF ChainInv, LogOK, Told
<1>2. \A e \in AllEvents : e.name = "OutcomeRecorded" => e \in Reports
  <2>1. \A from, names : \A e \in Events(from, names) : e.name \in names
    BY DEF Events
  <2>2. "OutcomeRecorded" \notin PlainNames \cup EndingNames \cup OwnerNames \cup LateNames
    BY DEF PlainNames, EndingNames, OwnerNames, LateNames, BarNames
  <2> QED
    BY <2>1, <2>2 DEF AllEvents, Plain, Owned, Ending, Late, Births
<1>3. Told(l) \in Reports
  BY <1>1, <1>2
<1>4. Told(l).from = "factory" /\ Told(l).arg \in {"worker", "buyer", "replaced"}
  BY <1>3 DEF Reports
<1> QED
  BY <1>1, <1>4 DEF Told3, Roles

Counted(role) == {l \in outcomes : log[l].arg = role}
CountInv ==
    /\ IsFiniteSet(outcomes) /\ \A l \in outcomes : Told3(l)
    /\ reputation \in [Roles -> Nat]
    /\ \A role \in Roles : reputation[role] = Cardinality(Counted(role))

LEMMA CountsOnce ==
    ASSUME TypeInv, CountInv, UNCHANGED chainVars, NEW l \in Places, log[l].name = "OutcomeRecorded", Recorded(l)
    PROVE  CountInv'
<1>1. log' = log /\ Told3(l) /\ outcomes' = outcomes \cup {l}
  BY OutcomeLogs DEF chainVars, TypeInv, Recorded
<1>2. IsFiniteSet(outcomes') /\ \A k \in outcomes' : Told3(k)'
  BY <1>1, FS_AddElement DEF CountInv, Told3
<1>3. CASE l \in outcomes
  BY <1>1, <1>2, <1>3 DEF CountInv, Recorded, Counted
<1>4. CASE l \notin outcomes
  <2> DEFINE arg == log[l].arg
  <2>1. reputation' = [reputation EXCEPT ![arg] = @ + 1] /\ arg \in Roles
    BY <1>1, <1>4 DEF Recorded, Told3
  <2>2. reputation' \in [Roles -> Nat] /\ reputation'[arg] = reputation[arg] + 1
        /\ \A role \in Roles : role # arg => reputation'[role] = reputation[role]
    BY <2>1 DEF CountInv
  <2>3. ASSUME NEW role \in Roles PROVE reputation'[role] = Cardinality({k \in outcomes' : log'[k].arg = role})
    <3>1. IsFiniteSet(Counted(role)) /\ l \notin Counted(role)
      <4>1. Counted(role) \subseteq outcomes
        BY DEF Counted
      <4> QED
        BY <1>4, <4>1, FS_Subset DEF CountInv
    <3>2. CASE role = arg
      <4>1. {k \in outcomes' : log'[k].arg = role} = Counted(role) \cup {l}
        BY <1>1, <3>2 DEF Counted
      <4>2. Cardinality(Counted(role) \cup {l}) = Cardinality(Counted(role)) + 1
        BY <3>1, FS_AddElement
      <4>3. reputation[arg] = Cardinality(Counted(role))
        BY <3>2 DEF CountInv
      <4> QED
        BY <2>2, <3>2, <4>1, <4>2, <4>3
    <3>3. CASE role # arg
      <4>1. {k \in outcomes' : log'[k].arg = role} = Counted(role)
        BY <1>1, <3>3 DEF Counted
      <4> QED
        BY <2>2, <3>3, <4>1 DEF CountInv
    <3> QED
      BY <3>2, <3>3
  <2> QED
    BY <1>2, <2>2, <2>3 DEF CountInv, Counted
<1> QED
  BY <1>3, <1>4

LEMMA CountStarts == ASSUME Init PROVE CountInv
<1>1. outcomes = {} /\ reputation = [worker |-> 0, buyer |-> 0, replaced |-> 0]
  BY DEF Init
<1>2. IsFiniteSet(outcomes) /\ Cardinality(outcomes) = 0 /\ \A role : Counted(role) = outcomes
  BY <1>1, FS_EmptySet DEF Counted
<1>3. reputation \in [Roles -> Nat] /\ \A role \in Roles : reputation[role] = 0
  BY <1>1 DEF Roles
<1> QED
  BY <1>1, <1>2, <1>3 DEF CountInv

LEMMA CountStep ==
    ASSUME TypeInv, CountInv, [Next]_vars
    PROVE  CountInv'
<1>1. CASE UNCHANGED <<chainVars, reputation, outcomes>>
  BY <1>1 DEF CountInv, Counted, Told3, chainVars
<1>2. ASSUME NEW p \in Passes, Step(p) PROVE CountInv'
  <2>1. PassOK(p) /\ WholeRow(db) /\ ChainInv /\ UNCHANGED chainVars
    BY <1>2, StepTables DEF TypeInv, PassesOK, TablesOK
  <2>2. \/ UNCHANGED <<reputation, outcomes>>
        \/ Event(p).name = "OutcomeRecorded" /\ Recorded(Current(p)) /\ pass[p].todo # {}
    BY <1>2, <2>1, PassSteps DEF Tick, ReadCursor, NothingNew, ListEscrows, SaveCursor, CheckLog, RecordLog,
       Works, Continues, Finishes, tables, PassOK, AtLog
  <2>3. CASE Event(p).name = "OutcomeRecorded" /\ Recorded(Current(p)) /\ pass[p].todo # {}
    BY <2>1, <2>3, CurrentFirst, CountsOnce DEF Event
  <2> QED
    BY <1>1, <2>1, <2>2, <2>3
<1>3. ASSUME NEW p \in Passes, PassFails(p) \/ EscrowSkipped(p) \/ LogSkipped(p) \/ ReadFails(p) PROVE CountInv'
  BY <1>1, <1>3, FaultKeeps DEF tables
<1>4. ASSUME NEW h \in Hooks, HookStep(h) PROVE CountInv'
  <2>1. CASE HookAt(h, "handle") /\ Hooked(h).name = "OutcomeRecorded" /\ Recorded(hook[h].l)
    <3>1. hook[h].l \in Places
      BY <2>1 DEF TypeInv, HooksOK, HookOK, HookAt
    <3> QED
      BY <1>4, <2>1, <3>1, CountsOnce, HookSteps DEF Hooked
  <2> QED
    BY <1>1, <1>4, <2>1, HookSteps
<1>5. CASE Mining
  <2>1. Grows /\ UNCHANGED serverVars /\ outcomes \subseteq Places
    BY <1>5, MineGrows DEF TypeInv, Mining, TablesOK
  <2>2. outcomes' = outcomes /\ reputation' = reputation /\ \A l \in outcomes : log'[l] = log[l]
    BY <2>1 DEF serverVars, tables, Grows
  <2>3. \A role : Counted(role)' = Counted(role)
    BY <2>2 DEF Counted
  <2> QED
    BY <2>2, <2>3 DEF CountInv, Told3
<1>6. ApiFinalizes \/ ApiTokens \/ Restart \/ UNCHANGED vars => UNCHANGED <<chainVars, reputation, outcomes>>
  BY DEF ApiFinalizes, ApiTokens, ApiReadsForMint, ApiMints, ApiOnly, Restart, vars, serverVars, tables
<1> QED
  BY <1>1, <1>2, <1>3, <1>4, <1>5, <1>6 DEF Next, ApiTokens

-----------------------------------------------------------------------------
OnIt(l) == \E p \in Passes : pass[p].pc \in Beyond /\ Current(p) = l

\* A recorded outcome is counted, a recorded creation has its row, or a pass is
\* on it still.
DealtWith(l) ==
    /\ log[l].name = "OutcomeRecorded" => l \in outcomes \/ OnIt(l)
    /\ log[l].name = "EscrowCreated" => HasRow \/ OnIt(l)
HandledInv == \A l \in chainLogs : DealtWith(l)

HooksHandled ==
    \A h \in Hooks : HookAt(h, "record") =>
        /\ Hooked(h).name = "OutcomeRecorded" => hook[h].l \in outcomes
        /\ Hooked(h).name = "EscrowCreated" => HasRow

LEMMA OutcomesKept ==
    ASSUME TypeInv, [Next]_vars
    PROVE  outcomes \subseteq outcomes'
<1>1. ASSUME NEW p \in Passes, Step(p) PROVE outcomes \subseteq outcomes'
  <2>1. PassOK(p) /\ WholeRow(db)
    BY DEF TypeInv, PassesOK, TablesOK
  <2> QED
    BY <1>1, <2>1, PassSteps DEF Tick, ReadCursor, NothingNew, ListEscrows, SaveCursor, CheckLog, RecordLog,
       Works, Continues, Finishes, tables, Recorded
<1>2. ASSUME NEW p \in Passes, PassFails(p) \/ EscrowSkipped(p) \/ LogSkipped(p) \/ ReadFails(p) PROVE outcomes' = outcomes
  BY <1>2, FaultKeeps DEF tables
<1>3. ASSUME NEW h \in Hooks, HookStep(h) PROVE outcomes \subseteq outcomes'
  BY <1>3, HookSteps DEF Recorded
<1>4. Mining \/ ApiFinalizes \/ ApiTokens \/ Restart \/ UNCHANGED vars => outcomes' = outcomes
  BY DEF Mining, ApiFinalizes, ApiTokens, ApiReadsForMint, ApiMints, ApiOnly, Restart, vars, serverVars, tables
<1> QED
  BY <1>1, <1>2, <1>3, <1>4 DEF Next, ApiTokens

\* The logs that are recorded mean what they did.
LEMMA PlacesKept ==
    ASSUME TypeInv, [Next]_vars
    PROVE  Places \subseteq Places' /\ \A l \in Places : log'[l] = log[l]
<1>1. CASE UNCHANGED chainVars
  BY <1>1 DEF chainVars, Places
<1>2. CASE Mining
  BY <1>2, MineGrows DEF TypeInv, Mining, Grows
<1>3. ASSUME NEW p \in Passes, Step(p) PROVE UNCHANGED chainVars
  BY <1>3, StepTables
<1>4. ASSUME NEW p \in Passes, PassFails(p) \/ EscrowSkipped(p) \/ LogSkipped(p) \/ ReadFails(p) PROVE UNCHANGED chainVars
  BY <1>4, FaultKeeps
<1>5. ASSUME NEW h \in Hooks, HookStep(h) PROVE UNCHANGED chainVars
  BY <1>5, HookSteps
<1>6. ApiFinalizes \/ ApiTokens \/ Restart \/ UNCHANGED vars => UNCHANGED chainVars
  BY DEF ApiFinalizes, ApiTokens, ApiReadsForMint, ApiMints, ApiOnly, Restart, vars
<1> QED
  BY <1>1, <1>2, <1>3, <1>4, <1>5, <1>6 DEF Next, ApiTokens

LEMMA HooksHandledStep ==
    ASSUME TypeInv, HooksHandled, [Next]_vars
    PROVE  HooksHandled'
<1>1. Kept /\ outcomes \subseteq outcomes' /\ \A l \in Places : log'[l] = log[l]
  BY NothingForgotten, OutcomesKept, PlacesKept
<1>2. ASSUME NEW h \in Hooks, hook'[h] = hook[h], HookAt(h, "record")'
      PROVE  /\ log'[hook'[h].l].name = "OutcomeRecorded" => hook'[h].l \in outcomes'
             /\ log'[hook'[h].l].name = "EscrowCreated" => HasRow'
  <2>1. hook[h].l \in Places /\ HookAt(h, "record")
    BY <1>2 DEF TypeInv, HooksOK, HookOK, HookAt
  <2> QED
    BY <1>1, <1>2, <2>1 DEF HooksHandled, Hooked, Kept
<1>3. CASE UNCHANGED hook
  BY <1>2, <1>3 DEF HooksHandled, Hooked
<1>4. ASSUME NEW h \in Hooks, HookStep(h) PROVE HooksHandled'
  <2>1. ASSUME NEW g \in Hooks, HookAt(g, "record")'
        PROVE  /\ log'[hook'[g].l].name = "OutcomeRecorded" => hook'[g].l \in outcomes'
               /\ log'[hook'[g].l].name = "EscrowCreated" => HasRow'
    <3>1. CASE hook'[g] = hook[g]
      BY <1>2, <2>1, <3>1
    <3>2. CASE hook'[g] # hook[g]
      <4>1. g = h /\ ~UNCHANGED hook
        BY <1>4, <3>2, HookSteps
      <4>2. hook'[h].pc = "record"
        BY <2>1, <4>1 DEF HookAt
      <4>3. /\ hook'[h].l = hook[h].l /\ log' = log
            /\ \/ Hooked(h).name \notin {"EscrowCreated", "OutcomeRecorded"}
               \/ Hooked(h).name = "EscrowCreated" /\ HasRow'
               \/ Hooked(h).name = "OutcomeRecorded" /\ Recorded(hook[h].l)
        BY <1>4, <4>1, <4>2, HookSteps DEF chainVars
      <4> QED
        BY <4>1, <4>3 DEF Hooked, Recorded
    <3> QED
      BY <3>1, <3>2
  <2> QED
    BY <2>1 DEF HooksHandled, Hooked
<1>5. CASE Restart
  BY <1>5 DEF Restart, HooksHandled, HookAt
<1>6. ASSUME NEW q \in Passes, Step(q) PROVE hook' = hook
  BY <1>6, StepTables
<1>7. ASSUME NEW q \in Passes, PassFails(q) \/ EscrowSkipped(q) \/ LogSkipped(q) \/ ReadFails(q) PROVE hook' = hook
  BY <1>7, FaultKeeps
<1>8. Mining \/ ApiFinalizes \/ ApiTokens \/ UNCHANGED vars => hook' = hook
  BY DEF Mining, ApiFinalizes, ApiTokens, ApiReadsForMint, ApiMints, ApiOnly, vars, serverVars, control
<1> QED
  BY <1>3, <1>4, <1>5, <1>6, <1>7, <1>8 DEF Next, ApiTokens

LEMMA OnItStep ==
    ASSUME TypeInv, Course, ~Restart, NEW l \in Places, OnIt(l)
    PROVE  \/ OnIt(l)'
           \/ /\ log[l].name = "OutcomeRecorded" => l \in outcomes'
              /\ log[l].name = "EscrowCreated" => HasRow'
<1>1. PICK p \in Passes : pass[p].pc \in Beyond /\ Current(p) = l
  BY DEF OnIt
<1>2. CASE pass'[p] = pass[p]
  BY <1>1, <1>2 DEF OnIt, Current
<1>3. ASSUME NEW q \in Passes, q # p, Step(q) PROVE pass'[p] = pass[p]
  BY <1>3, Moves
<1>4. CASE Step(p)
  <2>1. PassOK(p) /\ WholeRow(db) /\ PassesOK
    BY DEF TypeInv, PassesOK, TablesOK
  <2>2. Works(p)
    BY <1>1, <1>4, <2>1, PassSteps DEF Tick, ReadCursor, NothingNew, ListEscrows, SaveCursor, CheckLog, RecordLog,
       PartDone, At, Beyond
  <2>3. CASE Finishes(p)
    BY <1>1, <2>3 DEF Finishes, Event, Recorded
  <2>4. CASE Continues(p)
    <3>1. PICK pc \in Beyond : Goto(p, pc)
      BY <2>4 DEF Continues
    <3>2. pass'[p] = Spot(pc, pass[p].from, pass[p].to, pass[p].part, pass[p].todo)
      BY <2>1, <3>1, Goes DEF Put
    <3>3. pass'[p].pc \in Beyond /\ Min(pass'[p].todo) = l
      BY <1>1, <3>2 DEF Spot, Current
    <3> QED
      BY <3>3 DEF OnIt, Current
  <2> QED
    BY <2>2, <2>3, <2>4 DEF Works
<1>5. ASSUME NEW h \in Hooks, HookStep(h) PROVE pass' = pass
  BY <1>5, HookSteps
<1>6. Mining \/ ApiFinalizes \/ ApiTokens \/ UNCHANGED vars => pass' = pass
  BY DEF Mining, ApiFinalizes, ApiTokens, ApiReadsForMint, ApiMints, ApiOnly, vars, serverVars, control
<1> QED
  BY <1>2, <1>3, <1>4, <1>5, <1>6 DEF Course

\* Where a recorded log comes from.
LEMMA Recording ==
    ASSUME TypeInv, Course, NEW l \in chainLogs', l \notin chainLogs
    PROVE  \/ \E p \in Passes : RecordLog(p) /\ l = Current(p)
           \/ \E h \in Hooks : HookStep(h) /\ HookAt(h, "record") /\ l = hook[h].l
<1>1. ASSUME NEW p \in Passes, Step(p) PROVE RecordLog(p) /\ l = Current(p)
  <2>1. PassOK(p) /\ WholeRow(db)
    BY DEF TypeInv, PassesOK, TablesOK
  <2> QED
    BY <1>1, <2>1, PassSteps DEF Tick, ReadCursor, NothingNew, ListEscrows, SaveCursor, CheckLog, RecordLog,
       Works, Continues, Finishes, tables
<1>2. ASSUME NEW h \in Hooks, HookStep(h) PROVE HookAt(h, "record") /\ l = hook[h].l
  BY <1>2, HookSteps
<1>3. ~(Mining \/ ApiFinalizes \/ ApiTokens \/ Restart \/ UNCHANGED vars)
  BY DEF Mining, ApiFinalizes, ApiTokens, ApiReadsForMint, ApiMints, ApiOnly, Restart, vars, serverVars, tables
<1> QED
  BY <1>1, <1>2, <1>3 DEF Course

LEMMA HandledStep ==
    ASSUME TypeInv, HandledInv, HooksHandled, Course, ~Restart, [Next]_vars
    PROVE  HandledInv'
<1>1. Kept /\ outcomes \subseteq outcomes' /\ (\A l \in Places : log'[l] = log[l]) /\ chainLogs \subseteq Places
  BY NothingForgotten, OutcomesKept, PlacesKept DEF TypeInv, TablesOK
<1>2. ASSUME NEW l \in chainLogs PROVE DealtWith(l)'
  <2>1. l \in Places /\ DealtWith(l) /\ log'[l] = log[l]
    BY <1>1 DEF HandledInv
  <2>2. OnIt(l) => OnIt(l)' \/ (/\ log[l].name = "OutcomeRecorded" => l \in outcomes'
                                /\ log[l].name = "EscrowCreated" => HasRow')
    BY <2>1, OnItStep
  <2> QED
    BY <1>1, <2>1, <2>2 DEF DealtWith, Kept
<1>3. ASSUME NEW l \in chainLogs', l \notin chainLogs PROVE DealtWith(l)'
  <2>1. CASE \E p \in Passes : RecordLog(p) /\ l = Current(p)
    <3>1. PICK p \in Passes : RecordLog(p) /\ l = Current(p)
      BY <2>1
    <3>2. pass'[p] = Spot(FirstStep(Event(p)), pass[p].from, pass[p].to, pass[p].part, pass[p].todo)
      BY <3>1, Goes DEF RecordLog, Put, TypeInv
    <3>3. FirstStep(Event(p)) \in Beyond
      BY DEF FirstStep, Beyond
    <3>4. pass'[p].pc \in Beyond /\ Min(pass'[p].todo) = l
      BY <3>1, <3>2, <3>3 DEF Spot, Current
    <3>5. OnIt(l)'
      BY <3>4 DEF OnIt, Current
    <3> QED
      BY <3>5 DEF DealtWith
  <2>2. CASE \E h \in Hooks : HookStep(h) /\ HookAt(h, "record") /\ l = hook[h].l
    <3>1. PICK h \in Hooks : HookStep(h) /\ HookAt(h, "record") /\ l = hook[h].l
      BY <2>2
    <3>2. l \in Places
      BY <3>1 DEF TypeInv, HooksOK, HookOK, HookAt
    <3> QED
      BY <1>1, <3>1, <3>2 DEF HooksHandled, Hooked, DealtWith, Kept
  <2> QED
    BY <1>3, <2>1, <2>2, Recording
<1>4. \A l \in chainLogs' : DealtWith(l)'
  BY <1>2, <1>3
<1> QED
  BY <1>4 DEF HandledInv

\* The invariant behind OutcomesCounted.
OutcomesInv ==
    /\ FactoryInv /\ CountInv /\ HooksHandled
    /\ suffered["fault"] = 0 /\ suffered["crash"] = 0 => HandledInv

LEMMA OutcomesStep ==
    ASSUME FixedStart, OutcomesInv, [Next]_vars
    PROVE  OutcomesInv'
<1>1. TypeInv /\ FactoryInv' /\ CountInv' /\ HooksHandled'
  BY FactoryStep, CountStep, HooksHandledStep DEF OutcomesInv, FactoryInv
<1>2. ASSUME suffered'["fault"] = 0, suffered'["crash"] = 0 PROVE HandledInv'
  <2>1. {"fault", "crash"} \subseteq Disruption
    BY DEF Disruption
  <2>2. Course /\ HandledInv
    BY <1>1, <1>2, <2>1, FaultFree, Calmer DEF OutcomesInv
  <2>3. ~Restart
    <3>1. Restart => Suffer("crash")
      BY DEF Restart
    <3> QED
      BY <1>1, <1>2, <2>1, <3>1, SufferKeeps DEF TypeInv, TablesOK
  <2> QED
    BY <1>1, <2>2, <2>3, HandledStep DEF OutcomesInv
<1> QED
  BY <1>1, <1>2 DEF OutcomesInv

\* The indexer begins at the first block there is.
FromTheStart == FixedStart /\ FirstBlock(0) <= 1

LEMMA CountedAll ==
    ASSUME FromTheStart, OutcomesInv
    PROVE  OutcomesCounted
<1>1. DOMAIN reputation = Roles /\ (\A role \in Roles : reputation[role] = Cardinality({l \in outcomes : log[l].arg = role}))
  BY DEF OutcomesInv, CountInv, Counted
<1>2. ReputationOnce
  BY <1>1 DEF ReputationOnce
<1>3. ASSUME Quiet, Undisturbed({"fault", "crash"})
      PROVE  outcomes = {l \in DOMAIN log : log[l].name = "OutcomeRecorded"}
  <2>1. TypeInv /\ WalkInv /\ CoverInv /\ HandledInv /\ CountInv
    BY <1>3 DEF OutcomesInv, FactoryInv, Undisturbed
  <2>2. DOMAIN log = Places /\ ChainInv /\ outcomes \subseteq Places /\ FirstBlock(0) \in Nat
    BY <2>1, PlacesNat, FirstBlockNat DEF TypeInv, TablesOK
  <2>3. ASSUME NEW l \in Places, log[l].name = "OutcomeRecorded" PROVE l \in outcomes
    <3>1. log[l].from = "factory" /\ log[l].block \in 1..head
      BY <2>2, <2>3, OutcomeLogs DEF ChainInv, LogOK
    <3>2. log[l].block \in FirstBlock(0)..cursor
      BY <1>3, <2>2, <3>1 DEF Quiet, FromTheStart, ChainInv
    <3>3. l \in chainLogs
      BY <2>1, <2>2, <3>1, <3>2 DEF CoverInv, RecordedUpTo
    <3>4. ~OnIt(l)
      BY <1>3 DEF OnIt, Quiet, At, Beyond
    <3> QED
      BY <2>1, <2>3, <3>3, <3>4 DEF HandledInv, DealtWith
  <2> QED
    BY <2>1, <2>2, <2>3 DEF CountInv, Told3
<1> QED
  BY <1>2, <1>3 DEF OutcomesCounted

\* Every outcome on the chain is counted, and counted once, however the passes
\* and the webhook overlap (RecordReputationOutcome).
THEOREM OutcomesOnce ==
    ASSUME FromTheStart
    PROVE  Spec => []OutcomesCounted
<1>1. Init => OutcomesInv
  BY TypeStarts, WalkStarts, CoverStarts, CountStarts
     DEF OutcomesInv, FactoryInv, Init, HooksHandled, HookAt, HandledInv
<1>2. OutcomesInv /\ [Next]_vars => OutcomesInv'
  BY OutcomesStep DEF FromTheStart
<1>3. OutcomesInv => OutcomesCounted
  BY CountedAll
<1> QED
  BY <1>1, <1>2, <1>3, PTL DEF Spec

-----------------------------------------------------------------------------
\* One pass at a time records the logs in the order of the chain: what it passes
\* by it never goes back to.

Precedes(kinds, t, m) ==
    \/ log[t].from = log[m].from /\ log[t].from \in kinds /\ t < m
    \/ log[t].from = "factory" /\ log[m].from = "escrow" /\ log[t].block <= log[m].block

\* The block that the poller's next log is not before.
Start == IF Past(Poller) THEN pass[Poller].from
         ELSE IF At(Poller, "cursor") THEN NextBlock(pass[Poller].to) ELSE NextBlock(head)

OrderInv(kinds) ==
    /\ Past(Poller) => pass[Poller].from = NextBlock(pass[Poller].to)
    /\ \A t, m \in Places :
          (Precedes(kinds, t, m) /\ m \in chainLogs /\ t \notin chainLogs) => log[t].block < Start
    /\ pass[Poller].pc \in AtLog => \A m \in chainLogs : ~Precedes(kinds, Current(Poller), m)

LEMMA NextBlockUp ==
    ASSUME NEW n \in Nat, NEW m \in Nat, n <= m, cursor \in Nat
    PROVE  NextBlock(n) <= NextBlock(m) /\ NextBlock(n) \in Nat /\ NextBlock(m) \in Nat
  BY IndexerAssumption DEF NextBlock, FirstBlock

LEMMA OnlyPoller ==
    ASSUME TypeInv, OthersIdle, OthersIdle', suffered'["request"] = 0, NEW q \in Passes, Step(q)
    PROVE  q = Poller
<1> SUFFICES ASSUME q # Poller PROVE FALSE
  OBVIOUS
<1>1. "request" \in Disruption
  BY DEF Disruption
<1>2. pass'[q].pc = "idle" /\ PassOK(q) /\ WholeRow(db) /\ PassesOK
  BY DEF OthersIdle, At, TypeInv, PassesOK, TablesOK
<1>3. suffered["request"] = 0
  <2>1. suffered' = suffered \/ Suffer("request")
    BY <1>2, PassSteps DEF Tick, ReadCursor, NothingNew, ListEscrows, SaveCursor, CheckLog, RecordLog, Works, Elsewhere
  <2> QED
    BY <1>1, <2>1, SufferKeeps DEF TypeInv, TablesOK
<1>4. At(q, "idle")
  BY <1>3 DEF OthersIdle
<1>5. Tick(q)
  BY <1>2, <1>4, PassSteps DEF ReadCursor, NothingNew, ListEscrows, SaveCursor, CheckLog, RecordLog, PartDone,
     Works, Continues, Finishes, At, Beyond
<1>6. pass'[q].pc = "cursor"
  BY <1>2, <1>5, TickPuts DEF Put, Spot
<1> QED
  BY <1>2, <1>6

LEMMA BlocksNat ==
    ASSUME ChainInv
    PROVE  \A t \in Places : log[t].block \in Nat /\ t \in Nat
                            /\ \A m \in Places : t <= m => log[t].block <= log[m].block
<1>1. \A t \in Places : log[t].block \in 1..head /\ t \in Nat
  BY PlacesNat DEF ChainInv, LogOK
<1>2. head \in Nat
  BY DEF ChainInv
<1> QED
  BY <1>1, <1>2 DEF ChainInv, LogOK

LEMMA StartNat ==
    ASSUME TypeInv, NEW kinds, OrderInv(kinds)
    PROVE  Start \in Nat /\ Start <= NextBlock(head) /\ NextBlock(head) \in Nat
<1>1. PassOK(Poller) /\ cursor \in Nat /\ head \in Nat
  BY IndexerAssumption DEF TypeInv, PassesOK, TablesOK, ChainInv
<1>2. pass[Poller].from \in Nat /\ pass[Poller].to \in Nat /\ pass[Poller].to <= head
  BY <1>1 DEF PassOK
<1> QED
  BY <1>1, <1>2, NextBlockUp DEF Start, OrderInv

\* What the order needs of a step that leaves the chain alone.
LEMMA OrderSet ==
    ASSUME TypeInv, NEW kinds, OrderInv(kinds), UNCHANGED chainVars, Kept,
           Start' \in Nat, Start <= Start',
           Past(Poller)' => (pass[Poller].from = NextBlock(pass[Poller].to))',
           \A t \in Places, m \in chainLogs' :
              (m \notin chainLogs /\ Precedes(kinds, t, m) /\ t \notin chainLogs') => log[t].block < Start',
           pass'[Poller].pc \in AtLog => \A m \in chainLogs' : ~Precedes(kinds, Min(pass'[Poller].todo), m)
    PROVE  OrderInv(kinds)'
<1> DEFINE After(t, m) ==
              \/ log'[t].from = log'[m].from /\ log'[t].from \in kinds /\ t < m
              \/ log'[t].from = "factory" /\ log'[m].from = "escrow" /\ log'[t].block <= log'[m].block
<1>0. ChainInv /\ chainLogs \subseteq Places /\ log' = log
  BY DEF chainVars, TypeInv, TablesOK
<1>1. log' = log /\ Start \in Nat /\ (\A t \in Places : log[t].block \in Nat) /\ chainLogs \subseteq Places
  BY <1>0, StartNat, BlocksNat
<1>2. \A t, m : After(t, m) <=> Precedes(kinds, t, m)
  BY <1>1 DEF Precedes
<1>3. ASSUME NEW t \in Places, NEW m \in Places, Precedes(kinds, t, m), m \in chainLogs', t \notin chainLogs'
      PROVE  log[t].block < Start'
  <2>1. CASE m \in chainLogs
    <3>1. log[t].block < Start
      BY <1>3, <2>1 DEF OrderInv, Kept
    <3> QED
      BY <1>1, <3>1
  <2> QED
    BY <1>3, <2>1
<1>4. Places' = Places
  BY <1>1 DEF Places
<1>5. \A t, m \in Places' : (After(t, m) /\ m \in chainLogs' /\ t \notin chainLogs') => log'[t].block < Start'
  BY <1>1, <1>2, <1>3, <1>4
<1>6. pass'[Poller].pc \in AtLog => \A m \in chainLogs' : ~After(Min(pass'[Poller].todo), m)
  BY <1>2
<1> QED
  BY <1>5, <1>6 DEF OrderInv, Current, Precedes

LEMMA OrderPoller ==
    ASSUME TypeInv, TypeInv', WalkInv, NEW kinds, kinds \subseteq {"factory", "escrow"}, OrderInv(kinds), Kept,
           Step(Poller)
    PROVE  OrderInv(kinds)'
<1> DEFINE p == Poller
<1>1. p \in Passes /\ PassesOK /\ PassOK(p) /\ WholeRow(db) /\ WalkOK(p) /\ UNCHANGED chainVars /\ cursor \in Nat
      /\ head \in Nat /\ head' = head /\ ChainInv
  <2>1. p \in Passes /\ PassesOK /\ ChainInv /\ WholeRow(db) /\ cursor \in 0..head
    BY IndexerAssumption DEF TypeInv, TablesOK
  <2>2. UNCHANGED chainVars /\ head' = head
    BY <2>1, StepTables DEF chainVars
  <2>3. PassOK(p) /\ WalkOK(p) /\ head \in Nat /\ cursor \in Nat
    BY <2>1 DEF PassesOK, WalkInv, ChainInv
  <2> QED
    BY <2>1, <2>2, <2>3
<1>2. Start \in Nat /\ Start <= NextBlock(head) /\ NextBlock(head) \in Nat
  BY StartNat
<1>3. pass[p].from \in Nat /\ pass[p].to \in Nat /\ pass[p].to <= head
  BY <1>1 DEF PassOK
<1>4. CASE Tick(p)
  <2>1. pass'[p] = Spot("cursor", 0, head, "factory", {}) /\ cursor' = cursor /\ chainLogs' = chainLogs
    BY <1>1, <1>4, TickPuts DEF Put, Tick, tables
  <2>2. pass'[p].pc = "cursor" /\ pass'[p].to = head
    BY <2>1 DEF Spot
  <2>3. Start' = NextBlock(head)
    BY <2>1, <2>2 DEF Start, Past, At, NextBlock, FirstBlock
  <2>4. ~Past(Poller)' /\ pass'[Poller].pc \notin AtLog
    BY <2>2 DEF Past, At, AtLog, Beyond
  <2> QED
    BY <1>1, <1>2, <2>1, <2>3, <2>4, OrderSet
<1>5. CASE ReadCursor(p)
  <2> DEFINE from == NextBlock(pass[p].to)
             todo == FilterLogs("factory", from, pass[p].to)
  <2>1. pass'[p] = Spot("next", from, pass[p].to, "factory", todo) /\ cursor' = cursor /\ chainLogs' = chainLogs
    BY <1>1, <1>5, ReadCursorPuts DEF Put, ReadCursor, tables
  <2>2. pass'[p].pc = "next" /\ pass'[p].from = from /\ pass'[p].to = pass[p].to
    BY <2>1 DEF Spot
  <2>3. Start = from
    BY <1>5 DEF Start, Past, At, ReadCursor
  <2>4. Start' = from /\ (pass[Poller].from = NextBlock(pass[Poller].to))'
    BY <2>1, <2>2 DEF Start, Past, At, NextBlock, FirstBlock
  <2>5. pass'[Poller].pc \notin AtLog
    BY <2>2 DEF AtLog, Beyond
  <2> HIDE DEF from, todo
  <2> QED
    BY <1>1, <1>2, <2>1, <2>3, <2>4, <2>5, OrderSet
<1>6. CASE NothingNew(p)
  <2>1. pass'[p] = Spot("idle", 0, 0, "factory", {}) /\ cursor' = cursor /\ chainLogs' = chainLogs
    BY <1>1, <1>6, IdlePuts DEF Put, NothingNew, tables
  <2>2. pass'[p].pc = "idle"
    BY <2>1 DEF Spot
  <2>3. Start' = NextBlock(head)
    BY <1>1, <2>1, <2>2 DEF Start, Past, At, NextBlock, FirstBlock
  <2>4. ~Past(Poller)' /\ pass'[Poller].pc \notin AtLog
    BY <2>2 DEF Past, At, AtLog, Beyond
  <2> QED
    BY <1>1, <1>2, <2>1, <2>3, <2>4, OrderSet
<1>7. CASE SaveCursor(p)
  <2>1. pass'[p] = Spot("idle", 0, 0, "factory", {}) /\ cursor' = pass[p].to /\ chainLogs' = chainLogs
    BY <1>1, <1>7, IdlePuts DEF Put, SaveCursor
  <2>2. pass'[p].pc = "idle"
    BY <2>1 DEF Spot
  <2>3. Past(p) /\ pass[p].from <= pass[p].to /\ pass[p].from = NextBlock(pass[p].to) /\ Start = pass[p].from
    BY <1>1, <1>7 DEF SaveCursor, PartDone, Past, At, WalkOK, OrderInv, Start
  <2>4. Start' = IF pass[p].to = 0 THEN FirstBlock(head) ELSE pass[p].to + 1
    BY <1>1, <2>1, <2>2 DEF Start, Past, At, NextBlock, FirstBlock
  <2>5. pass[p].to = 0 => cursor = 0
    BY <1>1, <1>3, <2>3 DEF NextBlock
  <2>6. pass[p].to = 0 => Start <= FirstBlock(head) /\ FirstBlock(head) \in Nat
    <3>1. cursor = 0 => NextBlock(head) = FirstBlock(head)
      BY DEF NextBlock
    <3> QED
      BY <1>2, <2>5, <3>1
  <2>7. Start' \in Nat /\ Start <= Start'
    BY <1>3, <2>3, <2>4, <2>6
  <2>8. ~Past(Poller)' /\ pass'[Poller].pc \notin AtLog
    BY <2>2 DEF Past, At, AtLog, Beyond
  <2> QED
    BY <1>1, <2>1, <2>7, <2>8, OrderSet
<1>8. ASSUME Past(p), NEW pc, NEW part, NEW todo, pc \notin {"idle", "cursor"},
             pass'[p] = Spot(pc, pass[p].from, pass[p].to, part, todo), cursor' = cursor
      PROVE  /\ Start = pass[p].from /\ Start' = pass[p].from
             /\ (Past(Poller)' => (pass[Poller].from = NextBlock(pass[Poller].to))')
             /\ pass'[p].pc = pc /\ pass'[p].todo = todo
  BY <1>1, <1>8 DEF Spot, Start, Past, At, OrderInv, NextBlock, FirstBlock
<1>9. CASE ListEscrows(p)
  <2>1. PICK todo : Put(p, Spot("next", pass[p].from, pass[p].to, "escrow", todo))
    BY <1>1, <1>9, EscrowPartPuts
  <2>2. Past(p) /\ cursor' = cursor /\ chainLogs' = chainLogs /\ "next" \notin AtLog
    BY <1>9 DEF ListEscrows, PartDone, Past, At, tables, AtLog, Beyond
  <2>3. pass'[p] = Spot("next", pass[p].from, pass[p].to, "escrow", todo)
    BY <2>1 DEF Put
  <2> QED
    BY <1>1, <1>2, <1>8, <2>2, <2>3, OrderSet
<1>10. CASE CheckLog(p)
  <2>1. Past(p) /\ cursor' = cursor /\ chainLogs' = chainLogs /\ pass[p].todo # {}
        /\ ((NextLog(p) /\ Current(p) \in chainLogs) \/ (Goto(p, "record") /\ Current(p) \notin chainLogs))
    BY <1>10 DEF CheckLog, Past, At, tables
  <2>2. CASE NextLog(p)
    <3>1. pass'[p] = Spot("next", pass[p].from, pass[p].to, pass[p].part, pass[p].todo \ {Current(p)})
          /\ "next" \notin AtLog
      BY <1>1, <2>2, NextLogPuts DEF Put, AtLog, Beyond
    <3> QED
      BY <1>1, <1>2, <1>8, <2>1, <3>1, OrderSet
  <2>3. CASE Goto(p, "record") /\ Current(p) \notin chainLogs
    <3>1. pass'[p] = Spot("record", pass[p].from, pass[p].to, pass[p].part, pass[p].todo)
      BY <1>1, <2>3, Goes DEF Put
    <3>2. Start = pass[p].from /\ pass'[p].todo = pass[p].todo
      BY <1>8, <2>1, <3>1
    <3>3. Current(p) \in Places /\ log[Current(p)].block >= pass[p].from /\ log[Current(p)].block \in Nat
      <4>1. Current(p) \in Places /\ log[Current(p)].block \in Span(p)
        BY <1>1, <2>1, CurrentFirst
      <4> QED
        BY <1>1, <1>3, <4>1, BlocksNat DEF Span
    <3>4. \A m \in chainLogs : ~Precedes(kinds, Current(p), m)
      BY <1>3, <2>3, <3>2, <3>3 DEF OrderInv, TypeInv, TablesOK
    <3> QED
      BY <1>1, <1>2, <1>8, <2>1, <3>1, <3>2, <3>4, OrderSet DEF Current
  <2> QED
    BY <2>1, <2>2, <2>3
<1>11. CASE RecordLog(p)
  <2> DEFINE pc == FirstStep(Event(p))
             m == Current(p)
  <2>1. Past(p) /\ cursor' = cursor /\ chainLogs' = chainLogs \cup {m} /\ pass[p].todo # {} /\ pass[p].pc \in AtLog
    BY <1>1, <1>11 DEF RecordLog, Past, At, PassOK, AtLog
  <2>2. pass'[p] = Spot(pc, pass[p].from, pass[p].to, pass[p].part, pass[p].todo) /\ pc \notin {"idle", "cursor"}
    BY <1>1, <1>11, Goes DEF RecordLog, Put, FirstStep
  <2>3. Start' = pass[p].from /\ pass'[p].todo = pass[p].todo
    <3> HIDE DEF pc
    <3> QED
      BY <1>8, <2>1, <2>2
  <2>4. /\ m \in Places /\ log[m].from = pass[p].part /\ log[m].block <= pass[p].to /\ log[m].block \in Nat
        /\ m \in Nat /\ \A t \in pass[p].todo : m <= t
    <3>1. /\ m \in Places /\ log[m].from = pass[p].part /\ log[m].block \in Span(p)
          /\ \A t \in pass[p].todo : m <= t
      BY <1>1, <2>1, CurrentFirst
    <3> HIDE DEF m
    <3> QED
      BY <1>1, <1>3, <3>1, BlocksNat DEF Span
  <2>5. ASSUME NEW t \in Places, Precedes(kinds, t, m), t \notin chainLogs', ~(log[t].block < pass[p].from)
        PROVE  FALSE
    <3>1. log[t].block <= log[m].block /\ log[t].block \in Nat /\ t \in Nat
      <4>1. t < m \/ log[t].block <= log[m].block
        BY <2>5 DEF Precedes
      <4>2. t \in Nat /\ log[t].block \in Nat /\ (t <= m => log[t].block <= log[m].block)
        BY <1>1, <2>4, <2>5, BlocksNat
      <4> HIDE DEF m
      <4> QED
        BY <2>4, <4>1, <4>2
    <3>2. t \in FilterLogs(log[t].from, pass[p].from, pass[p].to)
      BY <1>1, <1>3, <2>4, <2>5, <3>1, PlacesNat DEF FilterLogs
    <3>3. CASE log[t].from = log[m].from /\ t < m
      <4>1. t \in pass[p].todo
        BY <1>1, <2>1, <2>4, <2>5, <3>2, <3>3 DEF WalkOK, PassOK
      <4> QED
        BY <2>4, <3>1, <3>3, <4>1
    <3>4. CASE log[t].from = "factory" /\ log[m].from = "escrow"
      BY <1>1, <2>1, <2>4, <2>5, <3>2, <3>4 DEF WalkOK
    <3> QED
      BY <2>5, <3>3, <3>4 DEF Precedes
  <2>6. ~Precedes(kinds, m, m)
    BY <2>4 DEF Precedes
  <2>7. \A l \in chainLogs' : ~Precedes(kinds, m, l)
    BY <2>1, <2>6 DEF OrderInv
  <2>8. Start' \in Nat /\ Start <= Start' /\ (Past(Poller)' => (pass[Poller].from = NextBlock(pass[Poller].to))')
    <3> HIDE DEF pc
    <3> QED
      BY <1>3, <1>8, <2>1, <2>2
  <2>9. \A t \in Places, l \in chainLogs' :
              (l \notin chainLogs /\ Precedes(kinds, t, l) /\ t \notin chainLogs') => log[t].block < Start'
    BY <2>1, <2>3, <2>5
  <2>10. \A l \in chainLogs' : ~Precedes(kinds, Min(pass'[Poller].todo), l)
    BY <2>3, <2>7 DEF Current
  <2> HIDE DEF pc, m
  <2> QED
    BY <1>1, <2>8, <2>9, <2>10, OrderSet
<1>12. CASE Works(p)
  <2>1. Past(p) /\ cursor' = cursor /\ chainLogs' = chainLogs /\ pass[p].pc \in AtLog
    BY <1>12 DEF Works, Continues, Finishes, Past, At, AtLog, Beyond
  <2>2. CASE Finishes(p)
    <3>1. pass'[p] = Spot("next", pass[p].from, pass[p].to, pass[p].part, pass[p].todo \ {Current(p)})
          /\ "next" \notin AtLog
      BY <1>1, <2>2, NextLogPuts DEF Put, AtLog, Beyond, Finishes
    <3> QED
      BY <1>1, <1>2, <1>8, <2>1, <3>1, OrderSet
  <2>3. CASE Continues(p)
    <3>1. PICK pc \in Beyond : Goto(p, pc)
      BY <2>3 DEF Continues
    <3>2. pass'[p] = Spot(pc, pass[p].from, pass[p].to, pass[p].part, pass[p].todo) /\ pc \notin {"idle", "cursor"}
      BY <1>1, <3>1, Goes DEF Put, Beyond
    <3>3. \A m \in chainLogs' : ~Precedes(kinds, Current(p), m)
      BY <2>1 DEF OrderInv
    <3> QED
      BY <1>1, <1>2, <1>8, <2>1, <3>2, <3>3, OrderSet DEF Current
  <2> QED
    BY <1>12, <2>2, <2>3 DEF Works
<1> QED
  BY <1>1, <1>4, <1>5, <1>6, <1>7, <1>9, <1>10, <1>11, <1>12, PassSteps

LEMMA OrderStarts == ASSUME Init, NEW kinds PROVE OrderInv(kinds)
<1>1. chainLogs = {} /\ pass[Poller].pc = "idle"
  BY IndexerAssumption DEF Init, Idle
<1> QED
  BY <1>1 DEF OrderInv, Past, At, AtLog, Beyond

LEMMA OrderStep ==
    ASSUME TypeInv, TypeInv', WalkInv, OthersIdle, OthersIdle', HooksIdle, suffered'["request"] = 0,
           NEW kinds, kinds \subseteq {"factory", "escrow"}, "factory" \in kinds => suffered["delivery"] = 0,
           OrderInv(kinds), Course, [Next]_vars
    PROVE  OrderInv(kinds)'
<1>1. Kept /\ ChainInv /\ Start \in Nat /\ Start <= NextBlock(head) /\ NextBlock(head) \in Nat
      /\ chainLogs \subseteq Places /\ cursor \in Nat /\ head \in Nat /\ Poller \in Passes
  <2>1. Kept
    BY NothingForgotten
  <2>2. ChainInv /\ chainLogs \subseteq Places /\ cursor \in 0..head
    BY DEF TypeInv, TablesOK
  <2>3. head \in Nat
    BY <2>2 DEF ChainInv
  <2>4. Start \in Nat /\ Start <= NextBlock(head) /\ NextBlock(head) \in Nat
    BY StartNat
  <2> QED
    BY <2>1, <2>2, <2>3, <2>4, IndexerAssumption
<1>2. ASSUME NEW q \in Passes, Step(q) PROVE OrderInv(kinds)'
  BY <1>1, <1>2, OnlyPoller, OrderPoller
<1>3. CASE UNCHANGED <<chainVars, pass, cursor>>
  <2>1. Start' = Start
    BY <1>3 DEF Start, Past, At, NextBlock, FirstBlock, chainVars
  <2>2. Past(Poller)' => (pass[Poller].from = NextBlock(pass[Poller].to))'
    BY <1>3 DEF OrderInv, Past, At, NextBlock, FirstBlock
  <2>3. ASSUME \A l \in chainLogs' : l \in chainLogs \/ (log[l].from = "factory" /\ "factory" \notin kinds)
        PROVE  OrderInv(kinds)'
    <3>1. \A m \in chainLogs' : m \notin chainLogs => \A t : ~Precedes(kinds, t, m)
      BY <2>3 DEF Precedes
    <3>2. pass'[Poller].pc \in AtLog => \A m \in chainLogs' : ~Precedes(kinds, Min(pass'[Poller].todo), m)
      BY <1>3, <3>1 DEF OrderInv, Current
    <3> QED
      BY <1>1, <1>3, <2>1, <2>2, <3>1, <3>2, OrderSet
  <2>4. ASSUME NEW h \in Hooks, HookStep(h) PROVE OrderInv(kinds)'
    <3>1. CASE HookAt(h, "record") /\ chainLogs' = chainLogs \cup {hook[h].l}
      <4>1. log[hook[h].l].from = "factory"
        BY <3>1 DEF TypeInv, HooksOK, HookOK, HookAt
      <4>2. "factory" \notin kinds
        BY <3>1 DEF HooksIdle, HookAt
      <4> QED
        BY <2>3, <3>1, <4>1, <4>2
    <3>2. CASE chainLogs' = chainLogs
      BY <2>3, <3>2
    <3> QED
      BY <2>4, <3>1, <3>2, HookSteps
  <2>5. ApiFinalizes \/ ApiTokens \/ UNCHANGED vars => chainLogs' = chainLogs
    BY DEF ApiFinalizes, ApiTokens, ApiReadsForMint, ApiMints, ApiOnly, vars, serverVars, tables
  <2>6. CASE Mining \/ Restart
    <3>1. chainLogs' = chainLogs
      BY <2>6 DEF Mining, Restart, serverVars, tables
    <3> QED
      BY <2>3, <3>1
  <2> QED
    BY <1>2, <2>3, <2>4, <2>5, <2>6 DEF Course
<1>4. CASE Restart
  <2>1. UNCHANGED <<chainVars, chainLogs, cursor>> /\ pass'[Poller].pc = "idle"
    BY <1>1, <1>4 DEF Restart, Idle, tables
  <2>2. Start' = NextBlock(head) /\ ~Past(Poller)' /\ pass'[Poller].pc \notin AtLog
    BY <2>1 DEF Start, Past, At, NextBlock, FirstBlock, chainVars, AtLog, Beyond
  <2> QED
    BY <1>1, <2>1, <2>2, OrderSet
<1>5. CASE Mining
  <2>1. Grows /\ ChainInv' /\ UNCHANGED serverVars
    BY <1>1, <1>5, MineGrows DEF Mining
  <2>2. pass' = pass /\ cursor' = cursor /\ chainLogs' = chainLogs /\ head' = head + 1
    BY <2>1 DEF serverVars, tables, control, Grows
  <2>3. NextBlock(head) <= (NextBlock(head))' /\ (NextBlock(head))' \in Nat
    <3>1. (NextBlock(head))' = NextBlock(head + 1)
      BY <2>2 DEF NextBlock, FirstBlock
    <3> QED
      BY <1>1, <3>1, NextBlockUp
  <2>4. Start <= Start' /\ Start' \in Nat
    <3>1. CASE At(Poller, "idle")
      <4>1. Start' = (NextBlock(head))'
        BY <2>2, <3>1 DEF Start, Past, At
      <4> QED
        BY <1>1, <2>3, <4>1
    <3>2. CASE ~At(Poller, "idle")
      <4>1. Start' = Start
        BY <2>2, <3>2 DEF Start, Past, At, NextBlock, FirstBlock
      <4> QED
        BY <1>1, <4>1
    <3> QED
      BY <3>1, <3>2
  <2> DEFINE After(t, m) ==
                \/ log'[t].from = log'[m].from /\ log'[t].from \in kinds /\ t < m
                \/ log'[t].from = "factory" /\ log'[m].from = "escrow" /\ log'[t].block <= log'[m].block
  <2>5. \A t, m \in Places : After(t, m) <=> Precedes(kinds, t, m)
    BY <2>1 DEF Precedes, Grows
  <2>6. ASSUME NEW t \in New, NEW m \in Places PROVE ~After(t, m)
    <3>1. t \in Nat /\ m \in Nat /\ m < t
      BY <2>1, PlacesNat DEF Grows, New, ChainInv, LogOK, Places
    <3>2. log'[t].block = head + 1 /\ log'[m].block <= head /\ log'[m].block \in Nat
      BY <1>1, <2>1, BlocksNat DEF Grows, ChainInv, LogOK
    <3> QED
      BY <1>1, <3>1, <3>2
  <2>7. ASSUME NEW t \in Places', NEW m \in Places', After(t, m), m \in chainLogs', t \notin chainLogs'
        PROVE  log'[t].block < Start'
    <3>1. m \in Places /\ t \in Places /\ log'[t] = log[t] /\ log[t].block \in Nat
      BY <1>1, <2>1, <2>2, <2>6, <2>7, BlocksNat DEF New, Grows
    <3>2. log[t].block < Start
      BY <2>2, <2>5, <2>7, <3>1 DEF OrderInv
    <3> QED
      BY <1>1, <2>4, <3>1, <3>2
  <2>8. ASSUME pass'[Poller].pc \in AtLog, NEW m \in chainLogs' PROVE ~After(Min(pass'[Poller].todo), m)
    <3>1. PassOK(Poller) /\ pass[Poller].todo # {} /\ pass[Poller].pc \in AtLog
      BY <1>1, <2>2, <2>8 DEF TypeInv, PassesOK, PassOK
    <3>2. Current(Poller) \in Places /\ m \in Places
      BY <1>1, <2>2, <2>8, <3>1, CurrentFirst
    <3>3. ~Precedes(kinds, Current(Poller), m)
      BY <2>2, <2>8, <3>1 DEF OrderInv
    <3> QED
      BY <2>2, <2>5, <3>2, <3>3 DEF Current
  <2>9. Past(Poller)' => (pass[Poller].from = NextBlock(pass[Poller].to))'
    BY <2>2 DEF OrderInv, Past, At, NextBlock, FirstBlock
  <2> QED
    BY <2>7, <2>8, <2>9 DEF OrderInv, Current, Precedes
<1>6. ASSUME NEW h \in Hooks, HookStep(h) PROVE UNCHANGED <<chainVars, pass, cursor>>
  BY <1>6, HookSteps
<1>7. ApiFinalizes \/ ApiTokens \/ UNCHANGED vars => UNCHANGED <<chainVars, pass, cursor>>
  BY DEF ApiFinalizes, ApiTokens, ApiReadsForMint, ApiMints, ApiOnly, vars, serverVars, control, tables
<1> QED
  BY <1>2, <1>3, <1>4, <1>5, <1>6, <1>7 DEF Course


-----------------------------------------------------------------------------
\* The stream.

BothContracts == {"factory", "escrow"}
Published(l) == \E i \in DOMAIN stream : stream[i] = l
InOrder ==
    \A i, j \in DOMAIN stream : (i < j /\ log[stream[i]].from = log[stream[j]].from) => stream[i] < stream[j]

\* Only what is recorded is published, and a pass is at a log that was not.
StreamInv ==
    /\ stream \in Seq(Places) /\ (\A i \in DOMAIN stream : stream[i] \in chainLogs) /\ InOrder
    /\ pass[Poller].pc \in AtLog => ~Published(Current(Poller))

\* Nothing is published.
LEMMA StreamKept ==
    ASSUME StreamInv, TypeInv, stream' = stream, Kept, Places \subseteq Places',
           \A l \in Places : log'[l] = log[l],
           pass'[Poller].pc \in AtLog => ~Published(Min(pass'[Poller].todo))
    PROVE  StreamInv'
<1>1. \A i \in DOMAIN stream : stream[i] \in Places
  BY DEF StreamInv
<1>2. stream \in Seq(Places')
  BY SeqMonotonic DEF StreamInv
<1>3. \A i \in DOMAIN stream : stream[i] \in chainLogs'
  BY DEF StreamInv, Kept
<1>4. \A i, j \in DOMAIN stream : (i < j /\ log'[stream[i]].from = log'[stream[j]].from) => stream[i] < stream[j]
  BY <1>1 DEF StreamInv, InOrder
<1>5. pass'[Poller].pc \in AtLog => \A i \in DOMAIN stream : stream[i] # Min(pass'[Poller].todo)
  BY DEF Published
<1> QED
  BY <1>2, <1>3, <1>4, <1>5 DEF StreamInv, InOrder, Published, Current

\* The log that the poller is at is published, and left.
LEMMA StreamGrows ==
    ASSUME StreamInv, TypeInv, OrderInv(BothContracts), chainLogs \subseteq Places, Kept, UNCHANGED chainVars,
           pass[Poller].pc \in AtLog, Current(Poller) \in chainLogs, Publish(Current(Poller)),
           pass'[Poller].pc \notin AtLog
    PROVE  StreamInv'
<1> DEFINE c == Current(Poller)
<1>1. log' = log /\ Places' = Places /\ c \in Places /\ stream \in Seq(Places) /\ stream' = Append(stream, c)
  BY DEF chainVars, Places, Publish, StreamInv
<1>2. \A m \in Places : m \in Nat /\ log[m].from \in BothContracts
  <2>1. log \in Seq(Logs) /\ Places \subseteq Nat /\ DOMAIN log = Places
    BY PlacesNat DEF TypeInv, ChainInv, LogOK
  <2>2. \A m \in Places : log[m] \in Logs
    BY <2>1
  <2> QED
    BY <2>1, <2>2 DEF Logs, BothContracts
<1>3. \A i \in DOMAIN stream : stream[i] # c /\ stream[i] \in chainLogs /\ stream[i] \in Places
  BY DEF StreamInv, Published
<1>4. ASSUME NEW i \in DOMAIN stream, log[stream[i]].from = log[c].from
      PROVE  stream[i] < c
  <2>1. ~Precedes(BothContracts, c, stream[i])
    BY <1>3 DEF OrderInv
  <2>2. ~(c < stream[i])
    BY <1>1, <1>2, <1>4, <2>1 DEF Precedes
  <2> QED
    BY <1>1, <1>2, <1>3, <2>2
<1> HIDE DEF c
<1>5. stream' \in Seq(Places) /\ Len(stream') = Len(stream) + 1 /\ Len(stream) \in Nat
      /\ DOMAIN stream = 1..Len(stream) /\ DOMAIN stream' = 1..Len(stream) + 1
      /\ stream'[Len(stream) + 1] = c /\ \A i \in DOMAIN stream : stream'[i] = stream[i]
  BY <1>1
<1>6. \A i \in DOMAIN stream' : stream'[i] \in chainLogs'
  BY <1>3, <1>5 DEF Kept, c
<1>7. \A i, j \in DOMAIN stream' : (i < j /\ log[stream'[i]].from = log[stream'[j]].from) => stream'[i] < stream'[j]
  <2> SUFFICES ASSUME NEW i \in DOMAIN stream', NEW j \in DOMAIN stream', i < j,
                      log[stream'[i]].from = log[stream'[j]].from
               PROVE  stream'[i] < stream'[j]
    OBVIOUS
  <2>1. i \in DOMAIN stream
    BY <1>5
  <2>2. CASE j \in DOMAIN stream
    BY <1>5, <2>1, <2>2 DEF StreamInv, InOrder
  <2>3. CASE j = Len(stream) + 1
    BY <1>4, <1>5, <2>1, <2>3
  <2> QED
    BY <1>5, <2>2, <2>3
<1> QED
  BY <1>1, <1>5, <1>6, <1>7 DEF StreamInv, InOrder

LEMMA BetweenLogs ==
    ASSUME PassesOK, NEW p \in Passes,
           Tick(p) \/ ReadCursor(p) \/ NothingNew(p) \/ ListEscrows(p) \/ SaveCursor(p)
    PROVE  pass'[p].pc \in {"idle", "cursor", "next"}
<1>1. CASE Tick(p)
  BY <1>1, TickPuts, Lands
<1>2. CASE ReadCursor(p)
  <2> DEFINE from == NextBlock(pass[p].to)
             todo == FilterLogs("factory", from, pass[p].to)
  <2>1. Put(p, Spot("next", from, pass[p].to, "factory", todo))
    BY <1>2, ReadCursorPuts
  <2> HIDE DEF from, todo
  <2> QED
    BY <2>1, Lands
<1>3. CASE NothingNew(p) \/ SaveCursor(p)
  BY <1>3, IdlePuts, Lands DEF NothingNew, SaveCursor
<1>4. CASE ListEscrows(p)
  BY <1>4, EscrowPartPuts, Lands
<1> QED
  BY <1>1, <1>2, <1>3, <1>4

LEMMA StreamStep ==
    ASSUME TypeInv, TypeInv', WalkInv, OthersIdle, OthersIdle', HooksIdle, OrderInv(BothContracts), StreamInv,
           suffered'["request"] = 0, suffered["delivery"] = 0, Course, [Next]_vars
    PROVE  StreamInv'
<1> DEFINE p == Poller
<1>1. p \in Passes /\ PassesOK /\ PassOK(p) /\ WholeRow(db) /\ WalkOK(p) /\ chainLogs \subseteq Places
  BY IndexerAssumption DEF TypeInv, TablesOK, PassesOK, WalkInv
<1>2. Kept
  BY NothingForgotten
<1>3. Places \subseteq Places' /\ \A l \in Places : log'[l] = log[l]
  BY PlacesKept
<1>4. ASSUME stream' = stream, pass'[p] = pass[p] PROVE StreamInv'
  <2>1. pass'[p].pc \in AtLog => ~Published(Min(pass'[p].todo))
    BY <1>4 DEF StreamInv, Current
  <2> QED
    BY <1>2, <1>3, <1>4, <2>1, StreamKept
<1>5. ASSUME stream' = stream, pass'[p].pc \notin AtLog PROVE StreamInv'
  BY <1>2, <1>3, <1>5, StreamKept
<1>6. ASSUME Step(p) PROVE StreamInv'
  <2>1. CASE Tick(p) \/ ReadCursor(p) \/ NothingNew(p) \/ ListEscrows(p) \/ SaveCursor(p)
    <3>1. stream' = stream
      BY <2>1 DEF Tick, ReadCursor, NothingNew, ListEscrows, SaveCursor
    <3>2. pass'[p].pc \in {"idle", "cursor", "next"}
      BY <1>1, <2>1, BetweenLogs
    <3>3. pass'[p].pc \notin AtLog
      BY <3>2 DEF AtLog, Beyond
    <3> QED
      BY <1>5, <3>1, <3>3
  <2>2. CASE CheckLog(p)
    <3>1. stream' = stream /\ pass[p].todo # {}
          /\ ((NextLog(p) /\ Current(p) \in chainLogs) \/ (Goto(p, "record") /\ Current(p) \notin chainLogs))
      BY <2>2 DEF CheckLog
    <3>2. CASE NextLog(p)
      <4>1. pass'[p].pc = "next"
        BY <1>1, <3>2, GoesNext
      <4> QED
        BY <1>5, <3>1, <4>1 DEF AtLog, Beyond
    <3>3. CASE Goto(p, "record") /\ Current(p) \notin chainLogs
      <4>1. pass'[p].todo = pass[p].todo
        BY <1>1, <3>3, GoesOn
      <4>2. ~Published(Min(pass'[p].todo))
        BY <3>3, <4>1 DEF Published, StreamInv, Current
      <4> QED
        BY <1>2, <1>3, <3>1, <4>2, StreamKept
    <3> QED
      BY <3>1, <3>2, <3>3
  <2>3. CASE RecordLog(p)
    <3>1. stream' = stream /\ pass[p].pc \in AtLog
      BY <2>3 DEF RecordLog, At, AtLog
    <3>2. pass'[p].todo = pass[p].todo
      BY <1>1, <2>3, GoesOn DEF RecordLog
    <3>3. ~Published(Min(pass'[p].todo))
      BY <3>1, <3>2 DEF StreamInv, Current
    <3> QED
      BY <1>2, <1>3, <3>1, <3>3, StreamKept
  <2>4. CASE Works(p)
    <3>1. CASE Continues(p)
      <4>1. stream' = stream /\ pass[p].pc \in AtLog /\ \E pc \in Beyond : Goto(p, pc)
        BY <3>1 DEF Continues, AtLog
      <4>2. pass'[p].todo = pass[p].todo
        BY <1>1, <4>1, GoesOn
      <4>3. ~Published(Min(pass'[p].todo))
        BY <4>1, <4>2 DEF StreamInv, Current
      <4> QED
        BY <1>2, <1>3, <4>1, <4>3, StreamKept
    <3>2. CASE Finishes(p)
      <4>1. pass[p].pc \in Beyond /\ NextLog(p) /\ (stream' = stream \/ Publish(Current(p)))
        BY <3>2 DEF Finishes
      <4>2. pass'[p].pc = "next"
        BY <1>1, <4>1, GoesNext
      <4>3. pass'[p].pc \notin AtLog /\ pass[p].pc \in AtLog /\ Current(p) \in chainLogs
        BY <1>1, <4>1, <4>2 DEF AtLog, Beyond, WalkOK, Past, At
      <4>4. UNCHANGED chainVars
        BY <2>4 DEF Works, Elsewhere
      <4> QED
        BY <1>1, <1>2, <1>5, <4>1, <4>3, <4>4, StreamGrows
    <3> QED
      BY <2>4, <3>1, <3>2 DEF Works
  <2> QED
    BY <1>1, <1>6, <2>1, <2>2, <2>3, <2>4, PassSteps
<1>7. ASSUME NEW q \in Passes, Step(q) PROVE StreamInv'
  BY <1>6, <1>7, OnlyPoller
<1>8. ASSUME NEW h \in Hooks, HookStep(h) PROVE StreamInv'
  <2>1. stream' = stream /\ pass' = pass
    BY <1>8, HookSteps DEF HooksIdle, HookAt
  <2> QED
    BY <1>4, <2>1
<1>9. Restart => stream' = stream /\ pass'[p].pc \notin AtLog
  BY <1>1 DEF Restart, Idle, AtLog, Beyond
<1>10. Mining \/ ApiFinalizes \/ ApiTokens \/ UNCHANGED vars => stream' = stream /\ pass' = pass
  BY DEF Mining, ApiFinalizes, ApiTokens, ApiReadsForMint, ApiMints, ApiOnly, vars, serverVars, control
<1> QED
  BY <1>4, <1>5, <1>7, <1>8, <1>9, <1>10 DEF Course

\* What holds while nothing but crashes disturbs the poller.
SteadyInv ==
    /\ TypeInv /\ OthersIdle /\ HooksIdle
    /\ suffered["fault"] = 0 => WalkInv
    /\ suffered["request"] = 0 /\ suffered["delivery"] = 0 /\ suffered["fault"] = 0 =>
          OrderInv(BothContracts) /\ StreamInv

LEMMA SteadyStep ==
    ASSUME SteadyInv, [Next]_vars
    PROVE  SteadyInv'
<1>1. TypeInv /\ TypeInv' /\ OthersIdle /\ OthersIdle' /\ HooksIdle /\ HooksIdle'
  BY TypeKept, OthersIdleStep, HooksIdleStep DEF SteadyInv
<1>2. {"fault", "request", "delivery"} \subseteq Disruption
  BY DEF Disruption
<1>3. ASSUME suffered'["fault"] = 0 PROVE WalkInv' /\ WalkInv /\ Course
  <2>1. Course /\ WalkInv
    BY <1>1, <1>2, <1>3, FaultFree, Calmer DEF SteadyInv
  <2> QED
    BY <1>1, <2>1, WalkStep
<1>4. ASSUME suffered'["request"] = 0, suffered'["delivery"] = 0, suffered'["fault"] = 0
      PROVE  OrderInv(BothContracts)' /\ StreamInv'
  <2>1. WalkInv /\ Course
    BY <1>3, <1>4
  <2>2. suffered["delivery"] = 0 /\ OrderInv(BothContracts) /\ StreamInv
    BY <1>1, <1>2, <1>4, Calmer DEF SteadyInv
  <2>3. OrderInv(BothContracts)'
    BY <1>1, <1>4, <2>1, <2>2, OrderStep DEF BothContracts
  <2> QED
    BY <1>1, <1>4, <2>1, <2>2, <2>3, StreamStep
<1> QED
  BY <1>1, <1>3, <1>4 DEF SteadyInv

\* The stream's clients see the events of each contract in the order of the
\* chain, though the server may stop and start at any point of any pass (RunOnce
\* and Bus.Publish).
THEOREM StreamOrdered == Spec => []StreamInOrder
<1>1. Init => SteadyInv
  <2> SUFFICES ASSUME Init PROVE SteadyInv
    OBVIOUS
  <2>1. TypeInv /\ WalkInv /\ OrderInv(BothContracts)
    BY TypeStarts, WalkStarts, OrderStarts
  <2>2. \A p \in Passes : pass[p].pc = "idle"
    BY DEF Init, Idle
  <2>3. \A h \in Hooks : hook[h].pc = "idle"
    BY DEF Init
  <2>4. stream = <<>> /\ pass[Poller].pc = "idle"
    BY <2>2, IndexerAssumption DEF Init
  <2>5. StreamInv
    BY <2>4 DEF StreamInv, InOrder, Published, AtLog, Beyond
  <2> QED
    BY <2>1, <2>2, <2>3, <2>5 DEF SteadyInv, OthersIdle, HooksIdle, At, HookAt
<1>2. SteadyInv /\ [Next]_vars => SteadyInv'
  BY SteadyStep
<1>3. SteadyInv => StreamInOrder
  BY DEF SteadyInv, StreamInv, InOrder, StreamInOrder, Undisturbed
<1> QED
  BY <1>1, <1>2, <1>3, PTL DEF Spec


-----------------------------------------------------------------------------
\* The escrow's logs behind the cursor are recorded too, where one pass runs at
\* a time and finishes what it began: its creation comes before them, and the
\* pass enters the row before it asks for them.

EscrowUpTo(n) ==
    \A l \in DOMAIN log :
        (log[l].from = "escrow" /\ log[l].block \in FirstBlock(0)..n) => l \in chainLogs
EscrowInv ==
    /\ EscrowUpTo(cursor)
    /\ Past(Poller) => EscrowUpTo(pass[Poller].from - 1)
    /\ (Past(Poller) /\ pass[Poller].part = "escrow") =>
          \A l \in FilterLogs("escrow", pass[Poller].from, pass[Poller].to) :
             l \in chainLogs \/ l \in pass[Poller].todo

LEMMA CreationLogs ==
    ASSUME ChainInv, NEW k \in Places, log[k].name = "EscrowCreated"
    PROVE  log[k].from = "factory"
<1>1. Told(k) \in AllEvents /\ Told(k).name = "EscrowCreated" /\ Told(k).from = log[k].from
  BY DEF ChainInv, LogOK, Told
<1>2. \A e \in AllEvents : e.name = "EscrowCreated" => e \in Births
  <2>1. \A from, names : \A e \in Events(from, names) : e.name \in names
    BY DEF Events
  <2>2. "EscrowCreated" \notin PlainNames \cup EndingNames \cup OwnerNames \cup LateNames
    BY DEF PlainNames, EndingNames, OwnerNames, LateNames, BarNames
  <2>3. \A e \in Reports : e.name # "EscrowCreated"
    BY DEF Reports
  <2> QED
    BY <2>1, <2>2, <2>3 DEF AllEvents, Plain, Owned, Ending, Late, Births
<1> QED
  BY <1>1, <1>2 DEF Births, Events

\* When the escrow's logs are asked for, it has its row.
LEMMA RowComesFirst ==
    ASSUME FromTheStart, TypeInv, WalkInv, CoverInv, HandledInv, OthersIdle, suffered["request"] = 0,
           PartDone(Poller, "factory"),
           NEW l \in FilterLogs("escrow", pass[Poller].from, pass[Poller].to)
    PROVE  HasRow
<1>1. Poller \in Passes /\ ChainInv /\ PassOK(Poller) /\ WalkOK(Poller) /\ DOMAIN log = Places
  BY IndexerAssumption, PlacesNat DEF TypeInv, PassesOK, WalkInv
<1>2. l \in Places /\ log[l].from = "escrow" /\ log[l].block <= pass[Poller].to /\ log[l].block \in Nat
      /\ pass[Poller].to \in Nat /\ pass[Poller].from \in Nat
  BY <1>1, BlocksNat DEF FilterLogs, PassOK
<1>3. PICK k \in Places : k < l /\ log[k].name = "EscrowCreated"
  BY <1>1, <1>2 DEF ChainInv, BornOK
<1>4. log[k].from = "factory" /\ log[k].block \in Nat /\ log[k].block <= log[l].block /\ log[k].block >= 1
  <2>1. k \in Nat /\ l \in Nat /\ log[k].block \in Nat /\ (k <= l => log[k].block <= log[l].block)
    BY <1>1, <1>2, <1>3, BlocksNat
  <2>2. log[k].block \in 1..head /\ head \in Nat
    BY <1>1 DEF ChainInv, LogOK
  <2> QED
    BY <1>1, <1>3, <2>1, <2>2, CreationLogs
<1>5. k \in chainLogs
  <2>1. Past(Poller) /\ pass[Poller].todo = {}
    BY DEF PartDone, Past, At
  <2>2. CASE log[k].block < pass[Poller].from
    <3>1. FirstBlock(0) \in Nat /\ FirstBlock(0) <= 1
      BY FirstBlockNat DEF FromTheStart
    <3>2. log[k].block \in FirstBlock(0)..pass[Poller].from - 1
      BY <1>2, <1>4, <2>2, <3>1
    <3> QED
      BY <1>1, <1>4, <2>1, <3>2 DEF CoverInv, RecordedUpTo
  <2>3. CASE ~(log[k].block < pass[Poller].from)
    <3>1. k \in FilterLogs("factory", pass[Poller].from, pass[Poller].to)
      BY <1>1, <1>2, <1>4, <2>3 DEF FilterLogs
    <3> QED
      BY <1>1, <2>1, <3>1 DEF WalkOK
  <2> QED
    BY <2>2, <2>3
<1>6. ~OnIt(k)
  BY DEF OthersIdle, OnIt, PartDone, At, Beyond
<1> QED
  BY <1>3, <1>5, <1>6 DEF HandledInv, DealtWith

LEMMA EscrowKept ==
    ASSUME UNCHANGED chainVars, Kept, NEW n, EscrowUpTo(n)
    PROVE  \A l \in DOMAIN log' :
              (log'[l].from = "escrow" /\ log'[l].block \in FirstBlock(0)..n) => l \in chainLogs'
  BY DEF chainVars, Kept, EscrowUpTo

LEMMA EscrowRange ==
    ASSUME ChainInv, EscrowInv, PassOK(Poller), WalkOK(Poller), PartDone(Poller, "escrow")
    PROVE  EscrowUpTo(pass[Poller].to)
<1>1. /\ pass[Poller].from \in Nat /\ pass[Poller].to \in Nat /\ pass[Poller].todo = {} /\ Past(Poller)
      /\ pass[Poller].part = "escrow"
      /\ \A l \in DOMAIN log : log[l].block \in Nat
  BY DEF PassOK, PartDone, Past, At, ChainInv, LogOK, Places
<1>2. ASSUME NEW l \in DOMAIN log, log[l].from = "escrow", log[l].block \in FirstBlock(0)..pass[Poller].to
      PROVE  l \in chainLogs
  <2>1. CASE log[l].block < pass[Poller].from
    BY <1>1, <1>2, <2>1, FirstBlockNat DEF EscrowUpTo, EscrowInv
  <2>2. CASE ~(log[l].block < pass[Poller].from)
    <3>1. l \in FilterLogs("escrow", pass[Poller].from, pass[Poller].to)
      BY <1>1, <1>2, <2>2, FirstBlockNat DEF FilterLogs
    <3> QED
      BY <1>1, <3>1 DEF EscrowInv
  <2> QED
    BY <2>1, <2>2
<1> QED
  BY <1>2 DEF EscrowUpTo

\* The poller's walk over the escrow's part.
LEMMA EscrowWalk ==
    ASSUME FromTheStart, TypeInv, WalkInv, CoverInv, HandledInv, EscrowInv, OthersIdle, suffered["request"] = 0,
           Kept, Step(Poller), pass'[Poller].pc \notin {"idle", "cursor"}, pass'[Poller].part = "escrow"
    PROVE  \A l \in FilterLogs("escrow", pass'[Poller].from, pass'[Poller].to) :
              l \in chainLogs' \/ l \in pass'[Poller].todo
<1> DEFINE p == Poller
           all == FilterLogs("escrow", pass[p].from, pass[p].to)
<1>1. p \in Passes /\ PassesOK /\ PassOK(p) /\ WholeRow(db) /\ WalkOK(p)
  BY IndexerAssumption DEF TypeInv, TablesOK, PassesOK, WalkInv
<1>2. CASE Tick(p) \/ NothingNew(p) \/ SaveCursor(p)
  <2>1. pass'[p].pc \in {"idle", "cursor"}
    BY <1>1, <1>2, TickPuts, IdlePuts, Lands DEF NothingNew, SaveCursor
  <2> QED
    BY <2>1
<1>3. CASE ReadCursor(p)
  <2> DEFINE from == NextBlock(pass[p].to)
             todo == FilterLogs("factory", from, pass[p].to)
  <2>1. Put(p, Spot("next", from, pass[p].to, "factory", todo))
    BY <1>1, <1>3, ReadCursorPuts
  <2> HIDE DEF from, todo
  <2>2. pass'[p].part = "factory"
    BY <2>1, Lands
  <2> QED
    BY <2>2
<1>4. CASE ListEscrows(p)
  <2>1. PICK todo : /\ Put(p, Spot("next", pass[p].from, pass[p].to, "escrow", todo))
                    /\ HasRow => todo = all
    BY <1>1, <1>4, EscrowPartPuts
  <2>2. pass'[p].todo = todo /\ pass'[p].from = pass[p].from /\ pass'[p].to = pass[p].to
    BY <2>1, Lands
  <2>3. PartDone(p, "factory")
    BY <1>4 DEF ListEscrows
  <2>4. \A l \in all : HasRow
    BY <2>3, RowComesFirst
  <2> HIDE DEF all
  <2>5. \A l \in all : l \in pass'[p].todo
    BY <2>1, <2>2, <2>4
  <2> QED
    BY <2>2, <2>5 DEF all
<1>5. ASSUME Past(p), pass'[p].from = pass[p].from, pass'[p].to = pass[p].to, pass'[p].part = pass[p].part,
             pass[p].todo \subseteq pass'[p].todo \cup chainLogs'
      PROVE  \A l \in all : l \in chainLogs' \/ l \in pass'[p].todo
  <2>1. \A l \in all : l \in chainLogs \/ l \in pass[p].todo
    BY <1>5 DEF EscrowInv
  <2> HIDE DEF all
  <2> QED
    BY <1>5, <2>1 DEF Kept
<1>6. CASE CheckLog(p) \/ RecordLog(p) \/ Works(p)
  <2>1. Past(p)
    BY <1>6 DEF CheckLog, RecordLog, Works, Continues, Finishes, Past, At, Beyond
  <2>2. (\E pc : Goto(p, pc)) \/ (NextLog(p) /\ Current(p) \in chainLogs)
    BY <1>1, <1>6, <2>1 DEF CheckLog, RecordLog, Works, Continues, Finishes, WalkOK
  <2>3. CASE \E pc : Goto(p, pc)
    <3>1. PICK pc : Goto(p, pc)
      BY <2>3
    <3>2. /\ pass'[p].from = pass[p].from /\ pass'[p].to = pass[p].to
          /\ pass'[p].part = pass[p].part /\ pass'[p].todo = pass[p].todo
      BY <1>1, <3>1, GoesOn
    <3> HIDE DEF all
    <3>3. \A l \in all : l \in chainLogs' \/ l \in pass'[p].todo
      BY <1>5, <2>1, <3>2
    <3> QED
      BY <3>2, <3>3 DEF all
  <2>4. CASE NextLog(p) /\ Current(p) \in chainLogs
    <3>1. /\ pass'[p].from = pass[p].from /\ pass'[p].to = pass[p].to
          /\ pass'[p].part = pass[p].part /\ pass'[p].todo = pass[p].todo \ {Current(p)}
      BY <1>1, <2>4, GoesNext
    <3>2. pass[p].todo \subseteq pass'[p].todo \cup chainLogs'
      BY <2>4, <3>1 DEF Kept
    <3> HIDE DEF all
    <3>3. \A l \in all : l \in chainLogs' \/ l \in pass'[p].todo
      BY <1>5, <2>1, <3>1, <3>2
    <3> QED
      BY <3>1, <3>3 DEF all
  <2> QED
    BY <2>2, <2>3, <2>4
<1> QED
  BY <1>1, <1>2, <1>3, <1>4, <1>6, PassSteps

LEMMA EscrowStep ==
    ASSUME FromTheStart, TypeInv, TypeInv', WalkInv, CoverInv, HandledInv, EscrowInv, OthersIdle, OthersIdle',
           suffered["request"] = 0, suffered'["request"] = 0, Course, ~Restart, [Next]_vars
    PROVE  EscrowInv'
<1> DEFINE p == Poller
<1>1. p \in Passes /\ PassesOK /\ PassOK(p) /\ WalkOK(p) /\ ChainInv /\ cursor \in 0..head /\ FirstBlock(0) \in Nat
      /\ head \in Nat
  BY IndexerAssumption, FirstBlockNat DEF TypeInv, TablesOK, PassesOK, WalkInv, ChainInv
<1>2. Kept
  BY NothingForgotten
<1>3. CASE Step(p)
  <2>1. UNCHANGED chainVars
    BY <1>1, <1>3, StepTables
  <2>2. EscrowUpTo(cursor')
    <3>1. CASE cursor' = cursor
      BY <3>1 DEF EscrowInv
    <3>2. CASE SaveCursor(p) /\ cursor' = pass[p].to
      BY <1>1, <3>2, EscrowRange DEF SaveCursor
    <3> QED
      BY <1>1, <1>3, <3>1, <3>2, Moves
  <2>3. EscrowUpTo(cursor)'
    BY <1>2, <2>1, <2>2, EscrowKept DEF EscrowUpTo, FirstBlock
  <2>4. ASSUME Past(p)' PROVE EscrowUpTo(pass[p].from - 1)'
    <3>1. CASE Past(p) /\ pass'[p].from = pass[p].from
      <4>1. EscrowUpTo(pass'[p].from - 1)
        BY <3>1 DEF EscrowInv
      <4> QED
        BY <1>2, <2>1, <4>1, EscrowKept DEF EscrowUpTo, FirstBlock
    <3>2. CASE ReadCursor(p) /\ pass'[p].from = NextBlock(pass[p].to)
      <4>1. FirstBlock(pass[p].to) = FirstBlock(0)
        BY <1>1, SameStart DEF FromTheStart, PassOK
      <4>2. EscrowUpTo(pass'[p].from - 1)
        <5>1. CASE cursor = 0
          BY <1>1, <3>2, <4>1, <5>1 DEF EscrowUpTo, NextBlock
        <5>2. CASE cursor # 0
          <6>1. pass'[p].from - 1 = cursor
            BY <1>1, <3>2, <5>2 DEF NextBlock
          <6> QED
            BY <6>1 DEF EscrowInv
        <5> QED
          BY <5>1, <5>2
      <4> QED
        BY <1>2, <2>1, <4>2, EscrowKept DEF EscrowUpTo, FirstBlock
    <3> QED
      BY <1>1, <1>3, <2>4, <3>1, <3>2, Moves DEF Past, At
  <2>5. ASSUME Past(p)', pass'[p].part = "escrow"
        PROVE  \A l \in FilterLogs("escrow", pass'[p].from, pass'[p].to) : l \in chainLogs' \/ l \in pass'[p].todo
    BY <1>2, <1>3, <2>5, EscrowWalk DEF Past, At
  <2>6. (Past(p) /\ pass[p].part = "escrow")' =>
           \A l \in {m \in DOMAIN log' : log'[m].from = "escrow" /\ log'[m].block \in pass'[p].from..pass'[p].to} :
              l \in chainLogs' \/ l \in pass'[p].todo
    BY <2>1, <2>5 DEF FilterLogs, chainVars
  <2> QED
    BY <2>3, <2>4, <2>6 DEF EscrowInv, FilterLogs
<1>4. CASE UNCHANGED pass /\ UNCHANGED <<chainVars, cursor>>
  <2>1. \A n : EscrowUpTo(n) => \A l \in DOMAIN log' :
              (log'[l].from = "escrow" /\ log'[l].block \in FirstBlock(0)..n) => l \in chainLogs'
    BY <1>2, <1>4, EscrowKept
  <2>2. log' = log
    BY <1>4 DEF chainVars
  <2> QED
    BY <1>2, <1>4, <2>1, <2>2 DEF EscrowInv, EscrowUpTo, Past, At, FirstBlock, FilterLogs, Kept
<1>5. CASE Mining
  <2>1. Grows /\ ChainInv' /\ UNCHANGED serverVars /\ DOMAIN log = Places /\ DOMAIN log' = Places'
    <3>1. Grows /\ ChainInv' /\ UNCHANGED serverVars /\ DOMAIN log = Places
      BY <1>5, MineGrows, PlacesNat DEF TypeInv, Mining
    <3>2. DOMAIN log' = Places'
      BY <3>1 DEF ChainInv, LogOK, Places
    <3> QED
      BY <3>1, <3>2
  <2>2. cursor' = cursor /\ pass' = pass /\ chainLogs' = chainLogs
    BY <2>1 DEF serverVars, tables, control
  <2>3. \A l \in DOMAIN log' : (l \in DOMAIN log /\ log'[l] = log[l]) \/ log'[l].block = head + 1
    BY <2>1 DEF Grows, New
  <2>4. ASSUME NEW n \in Int, n <= head, EscrowUpTo(n)
        PROVE  \A l \in DOMAIN log' :
                  (log'[l].from = "escrow" /\ log'[l].block \in FirstBlock(0)..n) => l \in chainLogs'
    <3>1. head + 1 \notin FirstBlock(0)..n
      BY <1>1, <2>4
    <3> QED
      BY <2>2, <2>3, <2>4, <3>1 DEF EscrowUpTo
  <2>5. EscrowUpTo(cursor)'
    BY <1>1, <2>2, <2>4 DEF EscrowUpTo, EscrowInv, FirstBlock
  <2>6. ASSUME Past(p)' PROVE EscrowUpTo(pass[p].from - 1)'
    <3>1. Past(p) /\ pass[p].from - 1 \in Int /\ pass[p].from - 1 <= head /\ pass'[p] = pass[p]
      BY <1>1, <2>2, <2>6 DEF Past, At, PassOK, WalkOK
    <3>2. EscrowUpTo(pass[p].from - 1)
      BY <3>1 DEF EscrowInv
    <3> QED
      BY <2>4, <3>1, <3>2 DEF EscrowUpTo, FirstBlock
  <2>7. {l \in DOMAIN log' : log'[l].from = "escrow" /\ log'[l].block \in pass[p].from..pass[p].to}
           = FilterLogs("escrow", pass[p].from, pass[p].to)
    BY <1>1, <2>1, SameLogs DEF PassOK
  <2>8. (Past(p) /\ pass[p].part = "escrow") =>
          \A l \in {m \in DOMAIN log' : log'[m].from = "escrow" /\ log'[m].block \in pass[p].from..pass[p].to} :
             l \in chainLogs \/ l \in pass[p].todo
    BY <2>7 DEF EscrowInv
  <2> QED
    BY <2>2, <2>5, <2>6, <2>8 DEF EscrowInv, FilterLogs, Past, At
<1>6. ASSUME NEW h \in Hooks, HookStep(h) PROVE UNCHANGED pass /\ UNCHANGED <<chainVars, cursor>>
  BY <1>6, HookSteps
<1>7. ApiFinalizes \/ ApiTokens \/ UNCHANGED vars => UNCHANGED pass /\ UNCHANGED <<chainVars, cursor>>
  BY DEF ApiFinalizes, ApiTokens, ApiReadsForMint, ApiMints, ApiOnly, vars, serverVars, control, tables
<1>8. ASSUME NEW q \in Passes, Step(q) PROVE EscrowInv'
  BY <1>3, <1>8, OnlyPoller
<1> QED
  BY <1>4, <1>5, <1>6, <1>7, <1>8 DEF Course

\* The invariant behind CursorCovers.
CursorInv ==
    /\ OutcomesInv /\ OthersIdle
    /\ suffered["request"] = 0 /\ suffered["fault"] = 0 /\ suffered["crash"] = 0 => EscrowInv

LEMMA CursorStep ==
    ASSUME FromTheStart, CursorInv, [Next]_vars
    PROVE  CursorInv'
<1>1. OutcomesInv' /\ TypeInv /\ TypeInv' /\ OthersIdle /\ OthersIdle'
  BY OutcomesStep, OthersIdleStep, TypeKept DEF FromTheStart, CursorInv, OutcomesInv, FactoryInv
<1>2. ASSUME suffered'["request"] = 0, suffered'["fault"] = 0, suffered'["crash"] = 0 PROVE EscrowInv'
  <2>1. {"request", "fault", "crash"} \subseteq Disruption
    BY DEF Disruption
  <2>2. suffered["request"] = 0 /\ suffered["fault"] = 0 /\ suffered["crash"] = 0
    BY <1>1, <1>2, <2>1, Calmer
  <2>3. Course /\ WalkInv /\ CoverInv /\ HandledInv /\ EscrowInv
    BY <1>1, <1>2, <2>2, FaultFree DEF CursorInv, OutcomesInv, FactoryInv
  <2>4. ~Restart
    <3>1. Restart => Suffer("crash")
      BY DEF Restart
    <3> QED
      BY <1>1, <1>2, <2>1, <3>1, SufferKeeps DEF TypeInv, TablesOK
  <2> QED
    BY <1>1, <1>2, <2>2, <2>3, <2>4, EscrowStep
<1> QED
  BY <1>1, <1>2 DEF CursorInv

\* Nothing of the chain is behind the cursor and not recorded: the poller enters
\* an escrow before it asks for its logs, and saves the cursor after them
\* (RunOnce, ListEscrowsByChainID and SetCursor).
THEOREM CursorIsSafe ==
    ASSUME FromTheStart
    PROVE  Spec => []CursorCovers
<1>1. Init => CursorInv
  <2> SUFFICES ASSUME Init PROVE CursorInv
    OBVIOUS
  <2>1. OutcomesInv
    BY TypeStarts, WalkStarts, CoverStarts, CountStarts
       DEF OutcomesInv, FactoryInv, Init, HooksHandled, HookAt, HandledInv
  <2>2. \A p \in Passes : pass[p].pc = "idle"
    BY DEF Init, Idle
  <2>3. EscrowInv
    <3>1. DOMAIN log = {} /\ pass[Poller].pc = "idle"
      BY <2>2, IndexerAssumption DEF Init, ChainInit
    <3> QED
      BY <3>1 DEF EscrowInv, EscrowUpTo, Past, At
  <2> QED
    BY <2>1, <2>2, <2>3 DEF CursorInv, OthersIdle, At
<1>2. CursorInv /\ [Next]_vars => CursorInv'
  BY CursorStep
<1>3. CursorInv => CursorCovers
  <2> SUFFICES ASSUME CursorInv, Undisturbed({"request", "fault", "crash"}), NEW l \in DOMAIN log,
                      log[l].block \in FirstBlock(0)..cursor
               PROVE  l \in chainLogs
    BY DEF CursorCovers
  <2>1. suffered["request"] = 0 /\ suffered["fault"] = 0 /\ suffered["crash"] = 0
    BY DEF Undisturbed
  <2>2. ChainInv /\ CoverInv /\ EscrowInv
    BY <2>1 DEF CursorInv, OutcomesInv, FactoryInv, TypeInv
  <2>3. log[l].from \in {"factory", "escrow"}
    <3>1. log \in Seq(Logs) /\ l \in DOMAIN log
      BY <2>2 DEF ChainInv, LogOK
    <3>2. log[l] \in Logs
      BY <3>1
    <3> QED
      BY <3>2 DEF Logs
  <2> QED
    BY <2>2, <2>3 DEF CoverInv, RecordedUpTo, EscrowInv, EscrowUpTo
<1> QED
  BY <1>1, <1>2, <1>3, PTL DEF Spec


-----------------------------------------------------------------------------
\* The status of the row.

LEMMA StatusApart ==
    ASSUME NEW r, WholeRow(r), NEW x
    PROVE  /\ [r EXCEPT !.tokens = x].status = r.status /\ [r EXCEPT !.submissions = x].status = r.status
           /\ [r EXCEPT !.disputes = x].status = r.status /\ [r EXCEPT !.backup = x].status = r.status
           /\ [r EXCEPT !.frozen = x].status = r.status /\ [r EXCEPT !.barred = x].status = r.status
           /\ [r EXCEPT !.milestones = x].status = r.status /\ [r EXCEPT !.current = x].status = r.status
           /\ [r EXCEPT !.status = x].status = x
<1>1. [r EXCEPT !.tokens = x].status = r.status /\ [r EXCEPT !.submissions = x].status = r.status
  BY DEF WholeRow
<1>2. [r EXCEPT !.disputes = x].status = r.status /\ [r EXCEPT !.backup = x].status = r.status
  BY DEF WholeRow
<1>3. [r EXCEPT !.frozen = x].status = r.status /\ [r EXCEPT !.barred = x].status = r.status
  BY DEF WholeRow
<1>4. [r EXCEPT !.milestones = x].status = r.status /\ [r EXCEPT !.current = x].status = r.status
  BY DEF WholeRow
<1>5. [r EXCEPT !.status = x].status = x
  BY DEF WholeRow
<1> QED
  BY <1>1, <1>2, <1>3, <1>4, <1>5

LEMMA MilestoneApart ==
    ASSUME NEW e, WholeRow(db)
    PROVE  WithMilestone(e).status = db.status
<1> DEFINE x == MilestoneEventStatus[e.name]
           y == IF x \in PastMilestone THEN e.arg + 1 ELSE db.current
           m == [db.milestones EXCEPT ![e.arg] = x]
           a == [db EXCEPT !.milestones = m]
<1>1. WithMilestone(e) = [a EXCEPT !.current = y] \/ WithMilestone(e) = db
  BY DEF WithMilestone
<1> HIDE DEF m, y
<1>2. WholeRow(a) /\ a.status = db.status
  BY RowWritten, StatusApart
<1> HIDE DEF a
<1>3. [a EXCEPT !.current = y].status = a.status
  BY <1>2, StatusApart
<1> QED
  BY <1>1, <1>2, <1>3

\* The steps of a pass that write the status.
WritesStatus(p) ==
    \/ WriteStatus(p) \/ HandleRemainingMilestonesAborted(p)
    \/ HandleEmergencyResolved(p) /\ HasRow
    \/ InsertEscrow(p) /\ ~HasRow

LEMMA StatusMoves ==
    ASSUME NEW p \in Passes, WholeRow(db), Step(p)
    PROVE  db'.status = db.status \/ WritesStatus(p)
<1>1. Tick(p) \/ ReadCursor(p) \/ NothingNew(p) \/ ListEscrows(p) \/ SaveCursor(p) \/ CheckLog(p) \/ RecordLog(p)
        \/ ReadStatus(p) => db' = db
  BY DEF Tick, ReadCursor, NothingNew, ListEscrows, SaveCursor, CheckLog, RecordLog, ReadStatus, tables
<1>2. CASE RevokeTokens(p) \/ RevokeResolved(p)
  <2> DEFINE x == {}
  <2>1. db' = [db EXCEPT !.tokens = x]
    BY <1>2 DEF RevokeTokens, RevokeResolved, Writes
  <2> HIDE DEF x
  <2> QED
    BY <2>1, StatusApart
<1>3. WriteMilestone(p) => db'.status = db.status
  BY MilestoneApart DEF WriteMilestone
<1>4. CASE HandleSubmission(p)
  <2> DEFINE x == db.submissions + 1
  <2>1. db' = [db EXCEPT !.submissions = x]
    BY <1>4 DEF HandleSubmission, Writes
  <2> HIDE DEF x
  <2> QED
    BY <2>1, StatusApart
<1>5. CASE HandleDispute(p) \/ HandleMilestoneDispute(p)
  <2> DEFINE x == Append(db.disputes, "open")
  <2>1. db' = [db EXCEPT !.disputes = x]
    BY <1>5 DEF HandleDispute, HandleMilestoneDispute, Writes
  <2> HIDE DEF x
  <2> QED
    BY <2>1, StatusApart
<1>6. CASE HandleDisputeResolved(p) \/ HandleMilestoneDisputeResolved(p)
  <2> DEFINE x == DisputeClosed(db.disputes)
  <2>1. db' = [db EXCEPT !.disputes = x]
    BY <1>6 DEF HandleDisputeResolved, HandleMilestoneDisputeResolved, Writes
  <2> HIDE DEF x
  <2> QED
    BY <2>1, StatusApart
<1>7. CASE HandleMilestoneSubmission(p)
  <2> DEFINE x == [db.milestones EXCEPT ![Event(p).arg] = "submitted"]
  <2>1. db' = [db EXCEPT !.milestones = x] \/ db' = db
    BY <1>7 DEF HandleMilestoneSubmission, Writes, GivesUp, tables
  <2> HIDE DEF x
  <2>2. [db EXCEPT !.milestones = x].status = db.status
    BY StatusApart
  <2> QED
    BY <2>1, <2>2, Zenon
<1>8. CASE HandleBackupActivated(p)
  <2> DEFINE x == TRUE
  <2>1. db' = [db EXCEPT !.backup = x]
    BY <1>8 DEF HandleBackupActivated, Writes
  <2> HIDE DEF x
  <2> QED
    BY <2>1, StatusApart
<1>9. CASE HandleEscrowFrozenEscrow(p)
  <2> DEFINE x == Event(p).name = "EmergencyFrozen"
  <2>1. db' = [db EXCEPT !.frozen = x]
    BY <1>9 DEF HandleEscrowFrozenEscrow, Writes
  <2> HIDE DEF x
  <2> QED
    BY <2>1, StatusApart
<1>10. CASE HandleEscrowFrozenFactory(p)
  <2> DEFINE x == Event(p).name = "EscrowFrozen"
  <2>1. db' = [db EXCEPT !.frozen = x] \/ db' = db
    BY <1>10 DEF HandleEscrowFrozenFactory, Writes, GivesUp, tables
  <2> HIDE DEF x
  <2>2. [db EXCEPT !.frozen = x].status = db.status
    BY StatusApart
  <2> QED
    BY <2>1, <2>2, Zenon
<1>11. CASE HandleAddressFrozen(p)
  <2> DEFINE x == Event(p).name = "AddressFrozen"
  <2>1. db' = [db EXCEPT !.barred = x]
    BY <1>11 DEF HandleAddressFrozen, Writes
  <2> HIDE DEF x
  <2> QED
    BY <2>1, StatusApart
<1>12. HandleOther(p) \/ HandleOutcomeRecorded(p) \/ HandleEscrowCreated(p) => db' = db
  BY DEF HandleOther, HandleOutcomeRecorded, HandleEscrowCreated, Writes, tables
<1>13. HandleEmergencyResolved(p) /\ ~HasRow => db' = db
  BY DEF HandleEmergencyResolved, GivesUp, tables
<1>14. InsertEscrow(p) /\ HasRow => db' = db
  BY DEF InsertEscrow, GivesUp, tables
<1> QED
  BY <1>1, <1>2, <1>3, <1>4, <1>5, <1>6, <1>7, <1>8, <1>9, <1>10, <1>11, <1>12, <1>13, <1>14 DEF Step, WritesStatus

\* What they write.
LEMMA StatusSet ==
    ASSUME NEW p \in Passes, PassOK(p), WholeRow(db), WritesStatus(p)
    PROVE  \/ WriteStatus(p) /\ db'.status = EventStatus[Event(p).name]
           \/ HandleRemainingMilestonesAborted(p) /\ db'.status = "refunded" /\ NextLog(p)
           \/ HandleEmergencyResolved(p) /\ HasRow /\ db'.status = "resolved"
           \/ InsertEscrow(p) /\ ~HasRow /\ db'.status = "created"
<1>1. WriteStatus(p) => db'.status = EventStatus[Event(p).name]
  BY StatusApart DEF WriteStatus
<1>2. HandleRemainingMilestonesAborted(p) => db'.status = "refunded" /\ NextLog(p)
  <2> DEFINE m == [i \in DOMAIN db.milestones |-> IF i >= Event(p).arg THEN "cancelled" ELSE db.milestones[i]]
             a == [db EXCEPT !.status = "refunded"]
  <2>1. WholeRow(a) /\ a.status = "refunded"
    BY RowWritten, StatusApart
  <2>2. HandleRemainingMilestonesAborted(p) => db' = [a EXCEPT !.milestones = m] /\ NextLog(p)
    BY DEF HandleRemainingMilestonesAborted, Writes, Done
  <2> HIDE DEF m, a
  <2>3. [a EXCEPT !.milestones = m].status = a.status
    BY <2>1, StatusApart
  <2> QED
    BY <2>1, <2>2, <2>3
<1>3. HandleEmergencyResolved(p) /\ HasRow => db'.status = "resolved"
  <2> DEFINE x == "resolved"
  <2>1. HandleEmergencyResolved(p) /\ HasRow => db' = [db EXCEPT !.status = x]
    BY DEF HandleEmergencyResolved
  <2> HIDE DEF x
  <2>2. [db EXCEPT !.status = x].status = x
    BY StatusApart
  <2>3. HandleEmergencyResolved(p) /\ HasRow => db'.status = x
    BY <2>1, <2>2, Zenon
  <2> QED
    BY <2>3 DEF x
<1>4. InsertEscrow(p) /\ ~HasRow => db'.status = "created"
  <2>1. InsertEscrow(p) /\ ~HasRow => db' = Inserted("indexer", NoMilestones)
    BY DEF InsertEscrow, Writes
  <2> QED
    BY <2>1, RowEntered
<1> QED
  BY <1>1, <1>2, <1>3, <1>4 DEF WritesStatus

\* Only a status that is not terminal is written over.
LEMMA ToWrite ==
    ASSUME TypeInv, NEW p \in Passes, Step(p), pass'[p].pc = "write"
    PROVE  db' = db /\ db.status \notin TerminalStatuses
<1>1. PassesOK /\ PassOK(p) /\ WholeRow(db)
  BY DEF TypeInv, PassesOK, TablesOK
<1>2. ~(Tick(p) \/ ReadCursor(p) \/ NothingNew(p) \/ ListEscrows(p) \/ SaveCursor(p))
  BY <1>1, BetweenLogs
<1>3. ~NextLog(p)
  BY <1>1, GoesNext
<1>4. \A pc : Goto(p, pc) => pc = "write"
  BY <1>1, GoesOn
<1>5. ~CheckLog(p)
  BY <1>3, <1>4 DEF CheckLog
<1>6. ~RecordLog(p)
  BY <1>4 DEF RecordLog, FirstStep
<1>7. ~(WriteStatus(p) \/ RevokeTokens(p) \/ WriteMilestone(p))
  BY <1>4 DEF WriteStatus, RevokeTokens, WriteMilestone
<1>8. \A after : ~Writes(p, after)
  BY <1>3 DEF Writes, Done
<1>9. ~GivesUp(p)
  BY <1>3 DEF GivesUp
<1>10. ~(HandleSubmission(p) \/ HandleDispute(p) \/ HandleDisputeResolved(p)
           \/ HandleMilestoneDispute(p) \/ HandleMilestoneDisputeResolved(p)
           \/ HandleMilestoneSubmission(p) \/ HandleRemainingMilestonesAborted(p)
           \/ HandleBackupActivated(p) \/ HandleEscrowFrozenEscrow(p) \/ HandleEscrowFrozenFactory(p)
           \/ HandleAddressFrozen(p) \/ RevokeResolved(p) \/ HandleOther(p) \/ InsertEscrow(p))
  BY <1>8, <1>9 DEF HandleSubmission, HandleDispute, HandleDisputeResolved,
       HandleMilestoneDispute, HandleMilestoneDisputeResolved, HandleMilestoneSubmission,
       HandleRemainingMilestonesAborted, HandleBackupActivated, HandleEscrowFrozenEscrow,
       HandleEscrowFrozenFactory, HandleAddressFrozen, RevokeResolved, HandleOther, InsertEscrow
<1>11. ~(HandleEmergencyResolved(p) \/ HandleEscrowCreated(p) \/ HandleOutcomeRecorded(p))
  BY <1>3, <1>4, <1>8, <1>9 DEF HandleEmergencyResolved, HandleEscrowCreated, HandleOutcomeRecorded, Done
<1>12. ReadStatus(p)
  BY <1>2, <1>5, <1>6, <1>7, <1>10, <1>11 DEF Step
<1> QED
  BY <1>4, <1>12 DEF ReadStatus, tables


\* Events that end the escrow.
Ended(m) == log[m].from = "escrow" /\ log[m].name \in EndingNames

EndSeen ==
    \E m \in chainLogs : /\ Ended(m)
                         /\ (pass[Poller].pc \in AtLog /\ Current(Poller) = m) => log[m].name \notin LastWords

\* A row that is not there has no status; a pass writes only over a status that
\* is not terminal; and a terminal status is from a recorded event, which the
\* poller is done with or which is none of the two that write without looking.
StatusInv ==
    /\ HasRow \/ db.status = "none"
    /\ At(Poller, "write") => db.status \notin TerminalStatuses
    /\ db.status \in TerminalStatuses => EndSeen

LEMMA EndingStatus ==
    ASSUME NEW name \in DOMAIN EventStatus, EventStatus[name] \in TerminalStatuses
    PROVE  name \in EndingNames /\ name \notin LastWords
  BY DEF EventStatus, TerminalStatuses, EndingNames, LastWords

\* A pass that reads the escrow's logs has found its row.
LEMMA EscrowRow ==
    ASSUME NEW p, PassOK(p), WalkOK(p), pass[p].pc \in Beyond, ChainInv, Event(p).from = "escrow"
    PROVE  HasRow
<1>1. pass[p].todo # {} /\ Past(p)
  BY DEF PassOK, AtLog, Beyond, Past, At
<1>2. pass[p].part = "escrow"
  BY <1>1, CurrentFirst DEF Event
<1> QED
  BY <1>1, <1>2 DEF WalkOK

LEMMA RowSteps ==
    ASSUME TypeInv, [Next]_vars,
           ~\E p \in Passes : Step(p)
    PROVE  \/ db'.status = db.status
           \/ ~HasRow /\ HasRow' /\ db'.status = "created"
<1>1. WholeRow(db)
  BY DEF TypeInv, TablesOK
<1>2. ASSUME NEW p \in Passes, PassFails(p) \/ EscrowSkipped(p) \/ LogSkipped(p) \/ ReadFails(p) PROVE db' = db
  BY <1>2 DEF PassFails, EscrowSkipped, LogSkipped, ReadFails, Fault, tables
<1>3. ASSUME NEW h \in Hooks, HookStep(h)
      PROVE  db' = db \/ (~HasRow /\ db' = Inserted("webhook", NoMilestones))
  BY <1>3 DEF HookStep, Deliver, HookFails, HookChecks, HookEscrowCreated, HookInserts, HookOutcomeRecorded, HookIgnores,
         HookRecords
<1>4. CASE ApiFinalizes
  <2>1. PICK m : db' = Inserted("api", m)
    BY <1>4 DEF ApiFinalizes
  <2>2. ~HasRow
    BY <1>4 DEF ApiFinalizes
  <2> QED
    BY <2>1, <2>2, RowEntered DEF HasRow
<1>5. CASE ApiTokens
  <2>1. ASSUME NEW x, db' = [db EXCEPT !.tokens = x] PROVE db'.status = db.status
    BY <1>1, <2>1, StatusApart
  <2> QED
    BY <1>5, <2>1, TokensOnly
<1>6. Mining \/ Restart \/ UNCHANGED vars => db' = db
  BY DEF Mining, Restart, vars, serverVars, tables
<1>7. ASSUME ~HasRow, db' = Inserted("webhook", NoMilestones) PROVE HasRow' /\ db'.status = "created"
  BY <1>7, RowEntered DEF HasRow
<1> QED
  BY <1>2, <1>3, <1>4, <1>5, <1>6, <1>7 DEF Next, ApiTokens

\* A terminal status is never written over.
LEMMA TerminalStays ==
    ASSUME TypeInv, WalkInv, OthersIdle, OthersIdle', suffered'["request"] = 0, OrderInv({"escrow"}), StatusInv,
           [Next]_vars, db.status \in TerminalStatuses
    PROVE  db'.status = db.status
<1> DEFINE p == Poller
<1>1. p \in Passes /\ PassesOK /\ PassOK(p) /\ WholeRow(db) /\ WalkOK(p) /\ ChainInv /\ chainLogs \subseteq Places
  BY IndexerAssumption DEF TypeInv, TablesOK, PassesOK, WalkInv
<1>2. HasRow
  BY DEF StatusInv, TerminalStatuses
<1>3. PICK m \in chainLogs : /\ Ended(m)
                             /\ (pass[p].pc \in AtLog /\ Current(p) = m) => log[m].name \notin LastWords
  BY DEF StatusInv, EndSeen
<1>4. ASSUME Step(p), db'.status # db.status PROVE FALSE
  <2>1. WritesStatus(p)
    BY <1>1, <1>4, StatusMoves
  <2>2. CASE WriteStatus(p)
    BY <2>2 DEF StatusInv, WriteStatus
  <2>3. CASE InsertEscrow(p) /\ ~HasRow
    BY <1>2, <2>3
  <2>4. CASE HandleRemainingMilestonesAborted(p) \/ HandleEmergencyResolved(p)
    <3> DEFINE c == Current(p)
    <3>1. pass[p].pc \in AtLog /\ log[c].name \in LastWords
      BY <2>4 DEF HandleRemainingMilestonesAborted, HandleEmergencyResolved, Handling, At, AtLog, Beyond, Event, LastWords
    <3>2. c \in Places /\ pass[p].todo # {}
      BY <1>1, <3>1, CurrentFirst DEF PassOK
    <3>3. IF log[c].from = "escrow" THEN c <= m ELSE log[c].block <= log[m].block
      BY <1>1, <1>3, <3>1, <3>2 DEF ChainInv, EndsOK, Ended
    <3>4. ~Precedes({"escrow"}, c, m)
      BY <1>3, <3>1 DEF OrderInv
    <3>5. log[c].from \in {"factory", "escrow"}
      BY <1>1, <3>1, <3>2, CurrentFirst DEF PassOK
    <3>6. c \in Nat /\ m \in Nat
      BY <1>1, <1>3, <3>2, PlacesNat
    <3>7. CASE log[c].from = "escrow"
      <4>1. c = m
        BY <1>3, <3>3, <3>4, <3>6, <3>7 DEF Precedes, Ended
      <4> QED
        BY <1>3, <3>1, <4>1
    <3>8. CASE log[c].from = "factory"
      BY <1>3, <3>3, <3>4, <3>8 DEF Precedes, Ended
    <3> QED
      BY <3>5, <3>7, <3>8
  <2> QED
    BY <2>1, <2>2, <2>3, <2>4 DEF WritesStatus
<1>5. ASSUME NEW q \in Passes, Step(q), db'.status # db.status PROVE FALSE
  BY <1>4, <1>5, OnlyPoller
<1> QED
  BY <1>2, <1>5, RowSteps

LEMMA StatusStep ==
    ASSUME TypeInv, TypeInv', WalkInv, OthersIdle, OthersIdle', suffered'["request"] = 0, StatusInv,
           Course, [Next]_vars
    PROVE  StatusInv'
<1> DEFINE p == Poller
<1>1. p \in Passes /\ PassesOK /\ PassOK(p) /\ WholeRow(db) /\ WalkOK(p) /\ ChainInv /\ chainLogs \subseteq Places
  BY IndexerAssumption DEF TypeInv, TablesOK, PassesOK, WalkInv
<1>2. Kept /\ \A l \in Places : log'[l] = log[l]
  BY NothingForgotten, PlacesKept
<1>3. \A m \in chainLogs : Ended(m) => log'[m].from = "escrow" /\ log'[m].name \in EndingNames
                                      /\ (log'[m].name \in LastWords <=> log[m].name \in LastWords) /\ m \in chainLogs'
  BY <1>1, <1>2 DEF Ended, Kept
<1>4. ASSUME NEW m \in chainLogs, Ended(m),
             (pass'[p].pc \in AtLog /\ Min(pass'[p].todo) = m) => log[m].name \notin LastWords
      PROVE  EndSeen'
  BY <1>3, <1>4 DEF Ended, Current, EndSeen
<1>5. ASSUME Step(p) PROVE StatusInv'
  <2>1. (HasRow \/ db.status = "none")'
    <3>1. CASE db'.status = db.status
      BY <1>2, <3>1 DEF StatusInv, Kept
    <3>2. CASE WritesStatus(p)
      <4>1. CASE WriteStatus(p) \/ HandleRemainingMilestonesAborted(p)
        <5>1. pass[p].pc \in Beyond
          BY <4>1 DEF WriteStatus, HandleRemainingMilestonesAborted, Handling, At, Beyond
        <5>2. Event(p).from = "escrow"
          BY <1>1, <4>1 DEF WriteStatus, HandleRemainingMilestonesAborted, Handling, At, PassOK, PointOK, ForLog
        <5> QED
          BY <1>1, <1>2, <5>1, <5>2, EscrowRow DEF Kept
      <4>2. CASE HandleEmergencyResolved(p) /\ HasRow
        BY <1>2, <4>2 DEF Kept
      <4>3. CASE InsertEscrow(p) /\ ~HasRow
        <5>1. db' = Inserted("indexer", NoMilestones)
          BY <4>3 DEF InsertEscrow, Writes
        <5> QED
          BY <5>1, RowEntered DEF HasRow
      <4> QED
        BY <3>2, <4>1, <4>2, <4>3 DEF WritesStatus
    <3> QED
      BY <1>1, <1>5, <3>1, <3>2, StatusMoves
  <2>2. (At(p, "write") => db.status \notin TerminalStatuses)'
    <3>1. pass'[p].pc = "write" => db' = db /\ db.status \notin TerminalStatuses
      BY <1>1, <1>5, ToWrite
    <3> QED
      BY <3>1 DEF At
  <2>3. ASSUME pass'[p].pc \in AtLog, NEW m \in chainLogs, Min(pass'[p].todo) = m
        PROVE  pass[p].pc \in AtLog /\ Current(p) = m
    <3>1. ~(Tick(p) \/ ReadCursor(p) \/ NothingNew(p) \/ ListEscrows(p) \/ SaveCursor(p))
      BY <1>1, <2>3, BetweenLogs DEF AtLog, Beyond
    <3>2. ~NextLog(p)
      BY <1>1, <2>3, GoesNext DEF AtLog, Beyond
    <3>3. CheckLog(p) => Goto(p, "record") /\ Current(p) \notin chainLogs
      BY <3>2 DEF CheckLog
    <3>4. RecordLog(p) \/ Works(p) => pass[p].pc \in AtLog /\ \E pc : Goto(p, pc)
      BY <3>2 DEF RecordLog, Works, Continues, Finishes, At, AtLog
    <3>5. (\E pc : Goto(p, pc)) => Current(p) = m
      BY <1>1, <2>3, GoesOn DEF Current
    <3> QED
      BY <1>1, <1>5, <3>1, <3>3, <3>4, <3>5, PassSteps
  <2>4. ASSUME db'.status \in TerminalStatuses
        PROVE  \E m \in chainLogs :
                  Ended(m) /\ ((pass'[p].pc \in AtLog /\ Min(pass'[p].todo) = m) => log[m].name \notin LastWords)
    <3>1. CASE db'.status = db.status
      <4>1. PICK m \in chainLogs : /\ Ended(m)
                                   /\ (pass[p].pc \in AtLog /\ Current(p) = m) => log[m].name \notin LastWords
        BY <2>4, <3>1 DEF StatusInv, EndSeen
      <4>2. (pass'[p].pc \in AtLog /\ Min(pass'[p].todo) = m) => log[m].name \notin LastWords
        BY <2>3, <4>1
      <4> QED
        BY <4>1, <4>2
    <3>2. CASE WritesStatus(p)
      <4>1. \/ WriteStatus(p) /\ db'.status = EventStatus[Event(p).name]
            \/ HandleRemainingMilestonesAborted(p) /\ NextLog(p)
        <5>1. "resolved" \notin TerminalStatuses /\ "created" \notin TerminalStatuses
          BY DEF TerminalStatuses
        <5> QED
          BY <1>1, <2>4, <3>2, <5>1, StatusSet
      <4>2. pass[p].pc \in Beyond
        BY <4>1 DEF WriteStatus, HandleRemainingMilestonesAborted, Handling, At, Beyond
      <4>3. Event(p).from = "escrow" /\ Current(p) \in chainLogs
        BY <1>1, <4>1, <4>2 DEF WriteStatus, HandleRemainingMilestonesAborted, Handling, At, PassOK, PointOK, ForLog,
           WalkOK, Past, Beyond
      <4>4. CASE WriteStatus(p) /\ db'.status = EventStatus[Event(p).name]
        <5>1. Event(p).name \in DOMAIN EventStatus
          BY <1>1, <4>4 DEF WriteStatus, At, PassOK, PointOK, ForLog
        <5>2. Event(p).name \in EndingNames /\ Event(p).name \notin LastWords
          BY <2>4, <4>4, <5>1, EndingStatus
        <5> QED
          BY <4>3, <5>2 DEF Ended, Event
      <4>5. CASE HandleRemainingMilestonesAborted(p) /\ NextLog(p)
        <5>1. pass'[p].pc \notin AtLog
          BY <1>1, <4>5, GoesNext DEF AtLog, Beyond
        <5>2. Event(p).name \in EndingNames
          BY <4>5 DEF HandleRemainingMilestonesAborted, Handling, EndingNames
        <5> QED
          BY <4>3, <5>1, <5>2 DEF Ended, Event
      <4> QED
        BY <4>1, <4>4, <4>5
    <3> QED
      BY <1>1, <1>5, <3>1, <3>2, StatusMoves
  <2>5. db'.status \in TerminalStatuses => EndSeen'
    BY <1>4, <2>4
  <2> QED
    BY <2>1, <2>2, <2>5 DEF StatusInv
<1>6. ASSUME NEW q \in Passes, Step(q) PROVE StatusInv'
  BY <1>5, <1>6, OnlyPoller
<1>7. ASSUME ~\E q \in Passes : Step(q), pass'[p] = pass[p] \/ pass'[p].pc = "idle" PROVE StatusInv'
  <2>1. db'.status = db.status \/ (~HasRow /\ HasRow' /\ db'.status = "created")
    BY <1>7, RowSteps
  <2>2. "created" \notin TerminalStatuses
    BY DEF TerminalStatuses
  <2>3. (HasRow \/ db.status = "none")'
    BY <1>2, <2>1 DEF StatusInv, Kept
  <2>4. (At(p, "write") => db.status \notin TerminalStatuses)'
    BY <1>7, <2>1, <2>2 DEF StatusInv, At
  <2>5. ASSUME db'.status \in TerminalStatuses
        PROVE  \E m \in chainLogs :
                  Ended(m) /\ ((pass'[p].pc \in AtLog /\ Min(pass'[p].todo) = m) => log[m].name \notin LastWords)
    <3>1. "idle" \notin AtLog
      BY DEF AtLog, Beyond
    <3>2. PICK m \in chainLogs : /\ Ended(m)
                                 /\ (pass[p].pc \in AtLog /\ Current(p) = m) => log[m].name \notin LastWords
      BY <2>1, <2>2, <2>5 DEF StatusInv, EndSeen
    <3> QED
      BY <1>7, <3>1, <3>2 DEF Current
  <2>6. db'.status \in TerminalStatuses => EndSeen'
    BY <1>4, <2>5
  <2> QED
    BY <2>3, <2>4, <2>6 DEF StatusInv
<1>8. ASSUME NEW h \in Hooks, HookStep(h) PROVE pass' = pass
  BY <1>8, HookSteps
<1>9. Mining \/ ApiFinalizes \/ ApiTokens \/ UNCHANGED vars => pass' = pass
  BY DEF Mining, ApiFinalizes, ApiTokens, ApiReadsForMint, ApiMints, ApiOnly, vars, serverVars, control
<1>10. Restart => pass'[p].pc = "idle"
  BY <1>1 DEF Restart, Idle
<1> QED
  BY <1>6, <1>7, <1>8, <1>9, <1>10 DEF Course

\* No request runs a pass beside the poller's, and no error cuts a pass short.
NoOverlap == {"request", "fault"} \cap Disruptions = {}

TerminalInv ==
    /\ TypeInv /\ OthersIdle /\ HooksIdle /\ WalkInv /\ OrderInv({"escrow"}) /\ StatusInv
    /\ suffered["request"] = 0 /\ suffered["fault"] = 0

LEMMA TerminalStep ==
    ASSUME NoOverlap, TerminalInv, [Next]_vars
    PROVE  TerminalInv' /\ (db.status \in TerminalStatuses => db'.status = db.status)
<1>1. TypeInv' /\ OthersIdle' /\ HooksIdle'
  BY TypeKept, OthersIdleStep, HooksIdleStep DEF TerminalInv
<1>2. suffered'["request"] = 0 /\ suffered'["fault"] = 0
  <2>1. suffered' = suffered \/ \E d \in Disruption \ {"request", "fault"} : Suffer(d)
    <3>1. {"request", "delivery", "fault", "crash"} \subseteq Disruption
      BY DEF Disruption
    <3>2. ~Suffer("request") /\ ~Suffer("fault")
      BY DEF NoOverlap, Suffer
    <3>3. ASSUME NEW q \in Passes, Step(q) PROVE suffered' = suffered \/ Suffer("request")
      <4>1. PassOK(q) /\ WholeRow(db)
        BY DEF TerminalInv, TypeInv, PassesOK, TablesOK
      <4> QED
        BY <3>3, <4>1, PassSteps DEF Tick, ReadCursor, NothingNew, ListEscrows, SaveCursor, CheckLog, RecordLog,
                                     Works, Elsewhere
    <3>4. ASSUME NEW q \in Passes, PassFails(q) \/ EscrowSkipped(q) \/ LogSkipped(q) \/ ReadFails(q)
          PROVE  Suffer("fault")
      BY <3>4 DEF PassFails, EscrowSkipped, LogSkipped, ReadFails, Fault
    <3>5. ASSUME NEW h \in Hooks, HookStep(h) PROVE suffered' = suffered \/ Suffer("delivery")
      BY <3>5, HookSteps DEF TerminalInv
    <3>6. Restart => Suffer("crash")
      BY DEF Restart
    <3>7. Mining \/ ApiFinalizes \/ ApiTokens \/ UNCHANGED vars => suffered' = suffered
      BY DEF Mining, ApiFinalizes, ApiTokens, ApiReadsForMint, ApiMints, ApiOnly, vars, serverVars, control
    <3> QED
      BY <3>1, <3>2, <3>3, <3>4, <3>5, <3>6, <3>7 DEF Next, ApiTokens
  <2> QED
    BY <2>1 DEF Suffer, TerminalInv, TypeInv, TablesOK, Disruption
<1>3. Course
  BY <1>2, FaultFree DEF TerminalInv
<1>4. WalkInv'
  BY <1>3, WalkStep DEF TerminalInv
<1>5. OrderInv({"escrow"})'
  BY <1>1, <1>2, <1>3, OrderStep DEF TerminalInv
<1>6. StatusInv'
  BY <1>1, <1>2, <1>3, StatusStep DEF TerminalInv
<1>7. db.status \in TerminalStatuses => db'.status = db.status
  BY <1>1, <1>2, TerminalStays DEF TerminalInv
<1> QED
  BY <1>1, <1>2, <1>4, <1>5, <1>6, <1>7 DEF TerminalInv

\* Once the database has an escrow as settled, refunded or cancelled it keeps
\* that status, whatever the webhook does and wherever the server stops, as long
\* as one pass runs at a time and sees its errors through (isTerminalStatus,
\* handleEmergencyResolved and handleRemainingMilestonesAborted, the last two of
\* which write without looking).
THEOREM TerminalForGood ==
    ASSUME NoOverlap
    PROVE  Spec => TerminalKept
<1>1. Init => TerminalInv
  <2> SUFFICES ASSUME Init PROVE TerminalInv
    OBVIOUS
  <2>1. TypeInv /\ WalkInv /\ OrderInv({"escrow"})
    BY TypeStarts, WalkStarts, OrderStarts
  <2>2. \A p \in Passes : pass[p].pc = "idle"
    BY DEF Init, Idle
  <2>3. \A h \in Hooks : hook[h].pc = "idle"
    BY DEF Init
  <2>4. suffered["request"] = 0 /\ suffered["fault"] = 0
    BY DEF Init, Disruption
  <2>5. db.status = "none"
    BY DEF Init, Row
  <2>6. StatusInv
    BY <2>2, <2>5, IndexerAssumption DEF StatusInv, TerminalStatuses, At
  <2> QED
    BY <2>1, <2>2, <2>3, <2>4, <2>6 DEF TerminalInv, OthersIdle, HooksIdle, At, HookAt
<1>2. TerminalInv /\ [Next]_vars => TerminalInv' /\ [db.status \in TerminalStatuses => db'.status = db.status]_db
  BY TerminalStep
<1> QED
  BY <1>1, <1>2, PTL DEF Spec, TerminalKept
=============================================================================
