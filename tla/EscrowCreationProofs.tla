------------------------ MODULE EscrowCreationProofs ------------------------
\* Theorems about EscrowCreation, for any number of callers, hashes, nonces and
\* stops.
EXTENDS EscrowCreation, TLAPS

\* A createEscrow transaction the node holds and nobody was told has failed.
Live(t) == Sent(t) /\ t \notin misreported

\* Callers between TransitionEscrowStatus and the statement that undoes or
\* completes it.
Owners == {"send", "reset", "persist"}

\* A hash is at one nonce; what waits at or above the client's nonce was
\* reported as failed, so that taking the nonce replaces nothing that counts.
SlotInv ==
    /\ \A m, n \in Nonces : slot[m] \in Creates /\ slot[m] = slot[n] => m = n
    /\ \A n \in Nonces : n > pending => slot[n] = NoTx
    /\ \A t \in misreported : Sent(t)
    /\ nonce <= pending + 1
    /\ nonce # 0 => \A n \in Nonces : n >= nonce => slot[n] \in misreported \cup {Other, NoTx}

\* One caller owns a row that is being submitted.
OwnerInv ==
    /\ \A c \in Callers : caller[c].pc \in Owners => record.status = "submitting"
    /\ \A c, d \in Callers : caller[c].pc \in Owners /\ caller[d].pc \in Owners => c = d

RowInv ==
    /\ record.status \in {"none", "pending", "submitting"} <=> record.tx = NoTx
    /\ record.status \in Final =>
          record.address = record.tx /\ Mined(record.tx) /\ record.tx \notin reverted \cup indexed

CallerInv ==
    \A c \in Callers :
        /\ caller[c].pc \in {"wait", "finalize"} => caller[c].tx = record.tx /\ record.tx # NoTx
        /\ caller[c].pc = "finalize" => Mined(caller[c].tx) /\ caller[c].tx \notin reverted
        /\ caller[c].pc = "persist" => caller[c].tx \in Creates /\ Live(caller[c].tx)
        /\ caller[c].answer # NoTx => record.status \in Final /\ caller[c].answer = record.tx

\* At most one transaction counts, and none while another may be sent.
LiveInv ==
    /\ \A t, u \in Creates : Live(t) /\ Live(u) => t = u
    /\ record.tx # NoTx => Live(record.tx)
    /\ \A t \in Creates : Live(t) =>
          /\ record.status \notin {"none", "pending"}
          /\ \A c \in Callers : caller[c].pc \notin {"send", "reset"}

IInv == TypeOK /\ SlotInv /\ OwnerInv /\ RowInv /\ CallerInv /\ LiveInv

-----------------------------------------------------------------------------
\* The node and the nonce.

\* The nonce a transaction is sent with holds nothing that is mined or counts.
LEMMA SendNonceFree ==
    ASSUME TypeOK, SlotInv, SendNonce \in Nonces
    PROVE  /\ SendNonce > mined
           /\ SendNonce <= pending + 1
           /\ \A n \in Nonces : n >= SendNonce => slot[n] \in misreported \cup {Other, NoTx}
  <1>1. CASE nonce = 0 \/ nonce <= mined
    <2>1. SendNonce = pending + 1
      BY <1>1 DEF SendNonce
    <2>2. /\ \A n \in Nonces : n >= SendNonce => slot[n] = NoTx
          /\ SendNonce > mined
      BY <2>1, CreationAssumption DEF TypeOK, SlotInv, Nonces
    <2> QED BY <2>1, <2>2, CreationAssumption DEF TypeOK, Nonces
  <1>2. CASE ~(nonce = 0 \/ nonce <= mined)
    <2>1. SendNonce = nonce
      BY <1>2 DEF SendNonce
    <2> QED BY <1>2, <2>1, CreationAssumption DEF TypeOK, SlotInv, Nonces
  <1> QED BY <1>1, <1>2

\* Sending t takes away no other transaction that counts, and none that is mined.
LEMMA TakenKeeps ==
    ASSUME TypeOK, SlotInv, NEW t \in Creates \cup {Other}, Taken(t), mined' = mined,
           nonce' \in {SendNonce, SendNonce + 1},
           \/ misreported' = misreported \ {slot[SendNonce]} /\ (t = Other \/ nonce' = SendNonce + 1)
           \/ misreported' = (misreported \ {slot[SendNonce]}) \cup {t} /\ t \in Creates
    PROVE  /\ SlotInv'
           /\ \A u \in Creates : u # t => (Live(u)' <=> Live(u))
           /\ \A u \in Creates : u # t => (Mined(u)' <=> Mined(u))
           /\ \A u \in Creates : Mined(u) => Mined(u)'
           /\ t \in Creates => (Sent(t)' /\ ~Sent(t))
  <1> DEFINE k == SendNonce
  <1>1. k \in Nonces /\ k > mined /\ k <= pending + 1
        /\ \A n \in Nonces : n >= k => slot[n] \in misreported \cup {Other, NoTx}
    BY SendNonceFree DEF Taken
  <1>2. /\ slot' = [slot EXCEPT ![k] = t]
        /\ pending' = IF k > pending THEN k ELSE pending
        /\ t \in Creates => ~Sent(t)
    BY DEF Taken
  <1>3. /\ slot \in [Nonces -> Creates \cup {Other, NoTx}]
        /\ mined \in Nat /\ pending \in Nat /\ nonce \in Nat /\ k \in Nat
        /\ Nonces \subseteq Nat
    BY <1>1, CreationAssumption DEF TypeOK, Nonces
  <1> HIDE DEF k
  <1>4. \A n \in Nonces : slot'[n] = IF n = k THEN t ELSE slot[n]
    BY <1>1, <1>2, <1>3
  <1>5. \A u \in Creates : u # t => (u \in misreported' <=> (u \in misreported /\ u # slot[k]))
    BY DEF k
  <1>6. ASSUME NEW u \in Creates, u # t
        PROVE  Live(u)' <=> Live(u)
    <2>1. CASE slot[k] = u
      <3>1. u \in misreported
        BY <1>1, <1>3, <2>1, CreationAssumption
      <3>2. \A n \in Nonces : slot'[n] # u
        BY <1>1, <1>4, <1>6, <2>1 DEF SlotInv
      <3> QED BY <3>1, <3>2 DEF Live, Sent
    <2>2. CASE slot[k] # u
      <3>1. Sent(u)' <=> Sent(u)
        BY <1>4, <1>6, <2>2 DEF Sent
      <3> QED BY <1>5, <1>6, <2>2, <3>1 DEF Live
    <2> QED BY <2>1, <2>2
  <1>7. \A n \in Nonces : n <= mined => slot'[n] = slot[n]
    BY <1>1, <1>3, <1>4
  <1>8. /\ \A u \in Creates : u # t => (Mined(u)' <=> Mined(u))
        /\ \A u \in Creates : Mined(u) => Mined(u)'
    BY <1>7 DEF Mined
  <1>9. t \in Creates => (Sent(t)' /\ ~Sent(t))
    BY <1>1, <1>2, <1>4 DEF Sent
  <1>10. SlotInv'
    <2>1. \A m, n \in Nonces : slot'[m] \in Creates /\ slot'[m] = slot'[n] => m = n
      BY <1>2, <1>4 DEF SlotInv, Sent
    <2>2. \A n \in Nonces : n > pending' => slot'[n] = NoTx
      BY <1>1, <1>2, <1>3, <1>4 DEF SlotInv
    <2>3. nonce' <= pending' + 1
      BY <1>1, <1>2, <1>3 DEF k
    <2>4. ASSUME NEW n \in Nonces, n >= nonce'
          PROVE  slot'[n] \in misreported' \cup {Other, NoTx}
      <3>1. n >= k
        BY <1>3, <2>4 DEF k
      <3>2. CASE n = k
        <4>1. nonce' = k
          BY <1>3, <2>4, <3>2 DEF k
        <4>2. t = Other \/ t \in misreported'
          BY <1>3, <4>1 DEF k
        <4> QED BY <1>4, <3>2, <4>2
      <3>3. CASE n # k
        <4>1. slot'[n] = slot[n] /\ slot[n] \in misreported \cup {Other, NoTx}
          BY <1>1, <1>4, <3>1, <3>3
        <4>2. CASE slot[n] \in Creates
          <5>1. slot[n] # slot[k]
            BY <1>1, <3>3, <4>2 DEF SlotInv
          <5> QED BY <4>1, <5>1, <4>2, CreationAssumption DEF k
        <4>3. CASE slot[n] \notin Creates
          BY <1>3, <4>1, <4>3
        <4> QED BY <4>2, <4>3
      <3> QED BY <3>2, <3>3
    <2>5. ASSUME NEW u \in misreported'
          PROVE  Sent(u)'
      <3>1. CASE u = t
        BY <1>1, <1>4, <3>1 DEF Sent
      <3>2. CASE u # t
        <4>1. u # slot[k] /\ Sent(u)
          BY <2>5, <3>2 DEF k, SlotInv
        <4> QED BY <1>4, <4>1 DEF Sent
      <3> QED BY <3>1, <3>2
    <2> QED BY <2>1, <2>2, <2>3, <2>4, <2>5 DEF SlotInv
  <1> QED BY <1>6, <1>8, <1>9, <1>10

-----------------------------------------------------------------------------
\* Every variable keeps its type.

\* Where the nonce may go.
LEMMA NonceType ==
    ASSUME TypeOK, SendNonce \in Nonces
    PROVE  SendNonce \in 0..MaxNonce + 1 /\ SendNonce + 1 \in 0..MaxNonce + 1
  BY CreationAssumption DEF TypeOK, Nonces

\* What sending does to the variables of the node.
LEMMA TakenType ==
    ASSUME TypeOK, NEW t \in Creates \cup {Other}, Taken(t)
    PROVE  /\ slot' \in [Nonces -> Creates \cup {Other, NoTx}]
           /\ pending' \in 0..MaxNonce
           /\ mined \in 0..pending'
  BY CreationAssumption DEF TypeOK, Taken, Nonces

PCs == {"idle", "insert", "submit", "conflict", "send", "reset", "persist", "wait",
        "finalize", "reload"}

\* Every step a caller takes leaves its record of the right type.
LEMMA CallerType ==
    ASSUME TypeOK, NEW c \in Callers
    PROVE  /\ \A pc \in PCs, t \in Creates \cup {NoTx} :
                 Goto(c, pc, t) => caller' \in [Callers -> [pc : PCs, tx : Creates \cup {NoTx},
                                                            answer : Creates \cup {NoTx}]]
           /\ \A t \in Creates \cup {NoTx} :
                 Answers(c, t) => caller' \in [Callers -> [pc : PCs, tx : Creates \cup {NoTx},
                                                           answer : Creates \cup {NoTx}]]
           /\ Fails(c) => caller' \in [Callers -> [pc : PCs, tx : Creates \cup {NoTx},
                                                   answer : Creates \cup {NoTx}]]
  <1>1. caller \in [Callers -> [pc : PCs, tx : Creates \cup {NoTx}, answer : Creates \cup {NoTx}]]
    BY DEF TypeOK, PCs
  <1>2. "idle" \in PCs
    BY DEF PCs
  <1> QED BY <1>1, <1>2 DEF Goto, Answers, Fails

\* A step of the protocol keeps the types (TypeOK).
LEMMA TypeStep == TypeOK /\ [Next]_vars => TypeOK'
  <1> SUFFICES ASSUME TypeOK, [Next]_vars PROVE TypeOK'
    OBVIOUS
  <1> DEFINE CallerOK == caller' \in [Callers -> [pc : PCs, tx : Creates \cup {NoTx},
                                                  answer : Creates \cup {NoTx}]]
             RecordOK == record' \in [status : Statuses, tx : Creates \cup {NoTx},
                                      address : Creates \cup {NoTx}]
  <1>0. /\ record \in [status : Statuses, tx : Creates \cup {NoTx}, address : Creates \cup {NoTx}]
        /\ {"pending", "submitting", "pending_confirmation", "created", "later"} \subseteq Statuses
        /\ {"idle", "insert", "submit", "conflict", "send", "reset", "persist", "wait",
            "finalize", "reload"} \subseteq PCs
        /\ \A c \in Callers : caller[c].tx \in Creates \cup {NoTx}
    BY DEF TypeOK, Statuses, PCs
  <1>A. ASSUME ServiceOnly, CallerOK, RecordOK
        PROVE  TypeOK'
    BY <1>A DEF TypeOK, ServiceOnly, nodeVars, PCs
  <1>1. ASSUME NEW c \in Callers, Step(c) \/ GivesUp(c)
        PROVE  TypeOK'
    <2>0. /\ Continue(c) => CallerOK
          /\ record.address \in Creates \cup {NoTx}
      BY <1>0, CallerType DEF Continue
    <2>1. CASE Lookup(c)
      <3>1. CallerOK
        BY <1>0, <2>0, <2>1, CallerType DEF Lookup
      <3>2. RecordOK
        BY <1>0, <2>1 DEF Lookup
      <3> QED BY <1>A, <2>1, <3>1, <3>2 DEF Lookup
    <2>2. CASE Insert(c)
      <3>1. CallerOK
        BY <1>0, <2>2, CallerType DEF Insert
      <3>2. RecordOK
        BY <1>0, <2>2 DEF Insert, NoRecord
      <3> QED BY <1>A, <2>2, <3>1, <3>2 DEF Insert
    <2>3. CASE Submit(c)
      <3>1. CallerOK
        BY <1>0, <2>3, CallerType DEF Submit
      <3>2. RecordOK
        BY <1>0, <2>3 DEF Submit
      <3> QED BY <1>A, <2>3, <3>1, <3>2 DEF Submit
    <2>4. CASE Conflict(c)
      <3>1. CallerOK
        BY <1>0, <2>4, CallerType DEF Conflict
      <3>2. RecordOK
        BY <1>0, <2>4 DEF Conflict
      <3> QED BY <1>A, <2>4, <3>1, <3>2 DEF Conflict
    <2>5. CASE Send(c)
      <3>1. PICK t \in Creates :
              /\ \/ Taken(t) /\ misreported' = misreported \ {slot[SendNonce]}
                 \/ AlreadyKnown(t) /\ UNCHANGED <<slot, pending>> /\ misreported' = misreported \ {t}
              /\ nonce' = SendNonce + 1
              /\ Goto(c, "persist", t)
              /\ UNCHANGED <<record, indexed, mined, reverted, stops>>
        BY <2>5 DEF Send
      <3>2. SendNonce \in Nonces
        BY <3>1 DEF Taken, AlreadyKnown
      <3>3. CallerOK
        BY <1>0, <3>1, CallerType
      <3>4. /\ slot' \in [Nonces -> Creates \cup {Other, NoTx}]
            /\ pending' \in 0..MaxNonce /\ mined' \in 0..pending'
        BY <3>1, TakenType DEF TypeOK
      <3>5. nonce' \in 0..MaxNonce + 1 /\ misreported' \subseteq Creates
        BY <3>1, <3>2, NonceType DEF TypeOK
      <3> QED BY <3>1, <3>3, <3>4, <3>5 DEF TypeOK, PCs
    <2>6. CASE SendFails(c)
      <3>1. CallerOK
        BY <1>0, <2>6, CallerType DEF SendFails
      <3>2. nonce' \in 0..MaxNonce + 1
        BY <2>6, CreationAssumption DEF SendFails, SendNonce, TypeOK
      <3> QED BY <2>6, <3>1, <3>2 DEF SendFails, TypeOK, nodeVars, PCs
    <2>7. CASE SendMisreported(c)
      <3>1. PICK t \in Creates :
              /\ Taken(t)
              /\ misreported' = (misreported \ {slot[SendNonce]}) \cup {t}
              /\ nonce' = SendNonce
              /\ Goto(c, "reset", NoTx)
              /\ UNCHANGED <<record, indexed, mined, reverted, stops>>
        BY <2>7 DEF SendMisreported
      <3>2. SendNonce \in Nonces
        BY <3>1 DEF Taken
      <3>3. CallerOK
        BY <1>0, <3>1, CallerType
      <3>4. /\ slot' \in [Nonces -> Creates \cup {Other, NoTx}]
            /\ pending' \in 0..MaxNonce /\ mined' \in 0..pending'
        BY <3>1, TakenType
      <3>5. nonce' \in 0..MaxNonce + 1 /\ misreported' \subseteq Creates
        BY <3>1, <3>2, NonceType DEF TypeOK
      <3> QED BY <3>1, <3>3, <3>4, <3>5 DEF TypeOK, PCs
    <2>8. CASE Reset(c)
      <3>1. CallerOK
        BY <2>8, CallerType DEF Reset
      <3>2. RecordOK
        BY <1>0, <2>8 DEF Reset
      <3> QED BY <1>A, <2>8, <3>1, <3>2 DEF Reset
    <2>9. CASE Persist(c)
      <3>1. CallerOK
        BY <1>0, <2>9, CallerType DEF Persist
      <3>2. RecordOK
        BY <1>0, <2>9 DEF Persist
      <3> QED BY <1>A, <2>9, <3>1, <3>2 DEF Persist
    <2>10. CASE Receipt(c) \/ NoReceipt(c)
      <3>1. CallerOK
        BY <1>0, <2>10, CallerType DEF Receipt, NoReceipt
      <3>2. RecordOK
        BY <1>0, <2>10 DEF Receipt, NoReceipt
      <3> QED BY <1>A, <2>10, <3>1, <3>2 DEF Receipt, NoReceipt
    <2>11. CASE Finalize(c)
      <3>1. CallerOK
        BY <1>0, <2>11, CallerType DEF Finalize
      <3>2. RecordOK
        BY <1>0, <2>11 DEF Finalize
      <3> QED BY <1>A, <2>11, <3>1, <3>2 DEF Finalize
    <2>12. CASE Reload(c)
      <3>1. CallerOK
        BY <1>0, <2>0, <2>12, CallerType DEF Reload
      <3>2. RecordOK
        BY <1>0, <2>12 DEF Reload
      <3> QED BY <1>A, <2>12, <3>1, <3>2 DEF Reload
    <2>13. CASE GivesUp(c)
      <3>1. CallerOK
        BY <2>13, CallerType DEF GivesUp
      <3>2. stops' \in 0..MaxStops
        BY <2>13, CreationAssumption DEF GivesUp, TypeOK
      <3> QED BY <2>13, <3>1, <3>2 DEF GivesUp, TypeOK, nodeVars, PCs
    <2> QED BY <1>1, <2>1, <2>2, <2>3, <2>4, <2>5, <2>6, <2>7, <2>8, <2>9, <2>10, <2>11,
               <2>12, <2>13 DEF Step
  <1>2. ASSUME NEW t \in Creates, IndexerInserts(t)
        PROVE  TypeOK'
    BY <1>2 DEF IndexerInserts, TypeOK, serviceVars, nodeVars
  <1>3. CASE OtherTx
    <2>1. SendNonce \in Nonces
      BY <1>3 DEF OtherTx, Taken
    <2>2. nonce' \in 0..MaxNonce + 1
      BY <1>3, <2>1, NonceType DEF OtherTx
    <2>3. /\ slot' \in [Nonces -> Creates \cup {Other, NoTx}]
          /\ pending' \in 0..MaxNonce /\ mined' \in 0..pending'
      BY <1>3, TakenType DEF OtherTx
    <2> QED BY <1>3, <2>2, <2>3 DEF OtherTx, TypeOK, serviceVars
  <1>4. CASE Mine
    <2>1. mined + 1 \in Nonces /\ mined' \in 0..pending
      BY <1>4, CreationAssumption DEF Mine, TypeOK, Nonces
    <2>2. reverted' \subseteq Creates \cup {Other}
      BY <1>4, <2>1 DEF Mine, TypeOK
    <2> QED BY <1>4, <2>1, <2>2 DEF Mine, TypeOK, serviceVars
  <1>5. CASE StatusMoves
    BY <1>0, <1>5 DEF StatusMoves, TypeOK, nodeVars
  <1>6. CASE Restart
    <2>1. /\ nonce' \in 0..MaxNonce + 1 /\ stops' \in 0..MaxStops
      BY <1>6, CreationAssumption DEF Restart, TypeOK
    <2>2. CallerOK
      BY <1>0, <1>6 DEF Restart, IdleCaller, TypeOK, PCs
    <2> QED BY <1>6, <2>1, <2>2 DEF Restart, TypeOK, nodeVars, PCs
  <1>7. CASE UNCHANGED vars
    BY <1>7 DEF vars, TypeOK, serviceVars, nodeVars
  <1> QED BY <1>1, <1>2, <1>3, <1>4, <1>5, <1>6, <1>7 DEF Next

-----------------------------------------------------------------------------
\* The invariant is inductive.

\* What a caller's move does to the callers.
LEMMA Moves ==
    ASSUME TypeOK, NEW c \in Callers
    PROVE  /\ \A pc, t : Goto(c, pc, t) =>
                 /\ caller'[c].pc = pc /\ caller'[c].tx = t /\ caller'[c].answer = caller[c].answer
                 /\ \A d \in Callers : d # c => caller'[d] = caller[d]
           /\ \A t : Answers(c, t) =>
                 /\ caller'[c].pc = "idle" /\ caller'[c].tx = NoTx /\ caller'[c].answer = t
                 /\ \A d \in Callers : d # c => caller'[d] = caller[d]
           /\ Fails(c) => Goto(c, "idle", NoTx)
  BY DEF TypeOK, Goto, Answers, Fails

\* Steps that leave the node and the client alone.
LEMMA NodeKept ==
    ASSUME UNCHANGED <<nodeVars, nonce, misreported>>, SlotInv
    PROVE  /\ SlotInv'
           /\ \A t : (Live(t)' <=> Live(t)) /\ (Mined(t)' <=> Mined(t))
  BY DEF nodeVars, SlotInv, Live, Sent, Mined

\* A caller that only looks at the row: it may be answered, wait, or try to
\* submit.
LEMMA Looks ==
    ASSUME IInv, NEW c \in Callers, UNCHANGED <<record, indexed, nodeVars, nonce, misreported>>,
           \/ Fails(c)
           \/ Goto(c, "insert", NoTx) \/ Goto(c, "submit", NoTx) \/ Goto(c, "conflict", NoTx)
           \/ Goto(c, "reload", NoTx)
           \/ record.tx # NoTx /\ Goto(c, "wait", record.tx)
           \/ record.status = "created" /\ Answers(c, record.address)
    PROVE  SlotInv' /\ OwnerInv' /\ RowInv' /\ CallerInv' /\ LiveInv'
  <1> USE DEF IInv
  <1>1. /\ SlotInv'
        /\ \A t : (Live(t)' <=> Live(t)) /\ (Mined(t)' <=> Mined(t))
    BY NodeKept
  <1>2. /\ record' = record /\ indexed' = indexed /\ reverted' = reverted
        /\ \A d \in Callers : d # c => caller'[d] = caller[d]
        /\ caller'[c].pc \notin {"send", "reset", "persist", "finalize"}
        /\ caller'[c].pc = "wait" => caller'[c].tx = record.tx /\ record.tx # NoTx
        /\ \/ caller'[c].answer = caller[c].answer
           \/ record.status = "created" /\ caller'[c].answer = record.address
    BY Moves DEF nodeVars
  <1>3. OwnerInv'
    BY <1>2 DEF OwnerInv, Owners
  <1>4. RowInv'
    BY <1>1, <1>2 DEF RowInv, Final
  <1>5. CallerInv'
    BY <1>1, <1>2 DEF CallerInv, RowInv, Final
  <1>6. LiveInv'
    BY <1>1, <1>2 DEF LiveInv
  <1> QED BY <1>1, <1>3, <1>4, <1>5, <1>6

\* The row of an owner is "submitting", and nobody else's.
LEMMA OwnerKnows ==
    ASSUME IInv, NEW c \in Callers, caller[c].pc \in Owners
    PROVE  /\ record.status = "submitting" /\ record.tx = NoTx
           /\ \A d \in Callers : d # c => caller[d].pc \notin Owners \cup {"wait", "finalize"}
           /\ \A d \in Callers : caller[d].answer = NoTx
  <1> USE DEF IInv
  <1>1. record.status = "submitting" /\ record.tx = NoTx
    BY DEF OwnerInv, RowInv
  <1>2. \A d \in Callers : d # c => caller[d].pc \notin Owners
    BY DEF OwnerInv
  <1>3. \A d \in Callers : caller[d].pc \notin {"wait", "finalize"} /\ caller[d].answer = NoTx
    BY <1>1 DEF CallerInv, Final
  <1> QED BY <1>1, <1>2, <1>3

\* Inserting the row, and taking it: nothing counts yet, and nobody waits.
LEMMA RowTaken ==
    ASSUME IInv, NEW c \in Callers, ServiceOnly,
           \/ /\ record.status = "none" /\ record' = [NoRecord EXCEPT !.status = "pending"]
              /\ Goto(c, "submit", NoTx)
           \/ /\ record.status = "pending" /\ record' = [record EXCEPT !.status = "submitting"]
              /\ Goto(c, "send", NoTx)
    PROVE  SlotInv' /\ OwnerInv' /\ RowInv' /\ CallerInv' /\ LiveInv'
  <1> USE DEF IInv
  <1>1. /\ SlotInv'
        /\ \A t : (Live(t)' <=> Live(t)) /\ (Mined(t)' <=> Mined(t))
    BY NodeKept DEF ServiceOnly, nodeVars
  <1>2. /\ record.status \in {"none", "pending"} /\ record.tx = NoTx
        /\ record'.status \in {"pending", "submitting"} /\ record'.tx = NoTx
        /\ caller'[c].pc = "send" => record'.status = "submitting"
    BY Moves DEF RowInv, TypeOK, NoRecord
  <1>3. /\ \A t \in Creates : ~Live(t)
        /\ \A d \in Callers : caller[d].answer = NoTx
        /\ \A d \in Callers : caller[d].pc \notin Owners \cup {"wait", "finalize"}
    BY <1>2 DEF LiveInv, CallerInv, OwnerInv, Final, Owners
  <1>4. /\ \A d \in Callers : d # c => caller'[d] = caller[d]
        /\ caller'[c].pc \in {"submit", "send"} /\ caller'[c].answer = NoTx
    BY <1>3, Moves
  <1>5. OwnerInv'
    BY <1>2, <1>3, <1>4 DEF OwnerInv, Owners
  <1>6. RowInv'
    BY <1>2 DEF RowInv, Final
  <1>7. CallerInv'
    BY <1>1, <1>3, <1>4 DEF CallerInv
  <1>8. LiveInv'
    BY <1>1, <1>2, <1>3 DEF LiveInv
  <1> QED BY <1>1, <1>5, <1>6, <1>7, <1>8

\* The owner sends, is told of a failure, or undoes its hold on the row; the
\* node's answer is the one it acts on.
LEMMA OwnerSends ==
    ASSUME IInv, NEW c \in Callers, Send(c) \/ SendFails(c) \/ SendMisreported(c)
    PROVE  SlotInv' /\ OwnerInv' /\ RowInv' /\ CallerInv' /\ LiveInv'
  <1> USE DEF IInv
  <1>1. /\ caller[c].pc = "send"
        /\ record' = record /\ indexed' = indexed /\ reverted' = reverted /\ mined' = mined
    BY DEF Send, SendFails, SendMisreported, At, nodeVars
  <1>2. /\ record.status = "submitting" /\ record.tx = NoTx
        /\ \A d \in Callers : d # c => caller[d].pc \notin Owners \cup {"wait", "finalize"}
        /\ \A d \in Callers : caller[d].answer = NoTx
    BY <1>1, OwnerKnows DEF Owners
  <1>3. \A t \in Creates : ~Live(t)
    BY <1>1 DEF LiveInv
  <1>4. RowInv'
    BY <1>1, <1>2 DEF RowInv, Final
  <1>5. ASSUME NEW pc \in {"persist", "reset"}, NEW t \in Creates \cup {NoTx}, Goto(c, pc, t), SlotInv',
               \A u \in Creates : Live(u)' => u = t /\ pc = "persist",
               pc = "persist" => t \in Creates /\ Live(t)'
        PROVE  OwnerInv' /\ CallerInv' /\ LiveInv'
    <2>1. /\ \A d \in Callers : d # c => caller'[d] = caller[d]
          /\ caller'[c].pc = pc /\ caller'[c].tx = t /\ caller'[c].answer = caller[c].answer
      BY <1>5, Moves
    <2>2. OwnerInv'
      BY <1>1, <1>2, <2>1 DEF OwnerInv, Owners
    <2>3. CallerInv'
      BY <1>2, <1>5, <2>1 DEF CallerInv, Owners
    <2>4. LiveInv'
      BY <1>1, <1>2, <1>5, <2>1 DEF LiveInv, Owners
    <2> QED BY <2>2, <2>3, <2>4
  <1>6. CASE Send(c)
    <2>1. PICK t \in Creates :
            /\ \/ Taken(t) /\ misreported' = misreported \ {slot[SendNonce]}
               \/ AlreadyKnown(t) /\ UNCHANGED <<slot, pending>> /\ misreported' = misreported \ {t}
            /\ nonce' = SendNonce + 1
            /\ Goto(c, "persist", t)
      BY <1>6 DEF Send
    <2>2. CASE Taken(t) /\ misreported' = misreported \ {slot[SendNonce]}
      <3>1. SlotInv' /\ (\A u \in Creates : u # t => (Live(u)' <=> Live(u))) /\ Sent(t)' /\ ~Sent(t)
        BY <1>1, <2>1, <2>2, TakenKeeps
      <3>2. slot' = [slot EXCEPT ![SendNonce] = t] /\ SendNonce \in Nonces
        BY <2>2 DEF Taken
      <3>3. t \notin misreported'
        BY <2>2, <3>1 DEF SlotInv
      <3> QED BY <1>3, <1>4, <1>5, <2>1, <3>1, <3>3 DEF Live
    <2>3. CASE AlreadyKnown(t) /\ UNCHANGED <<slot, pending>> /\ misreported' = misreported \ {t}
      <3>1. SendNonce \in Nonces /\ slot[SendNonce] = t
        BY <2>3 DEF AlreadyKnown
      <3>2. Live(t)' /\ \A u \in Creates : u # t => (Live(u)' <=> Live(u))
        BY <2>3, <3>1 DEF Live, Sent
      <3>3. SlotInv'
        <4>1. /\ SendNonce <= pending + 1
              /\ \A n \in Nonces : n >= SendNonce => slot[n] \in misreported \cup {Other, NoTx}
          BY <3>1, SendNonceFree
        <4>2. SendNonce # pending + 1
          BY <3>1, CreationAssumption DEF SlotInv, TypeOK, Nonces
        <4>3. nonce' <= pending' + 1
          BY <2>1, <2>3, <4>1, <4>2, <3>1, CreationAssumption DEF TypeOK, Nonces
        <4>4. ASSUME NEW n \in Nonces, n >= nonce'
              PROVE  slot[n] \in misreported' \cup {Other, NoTx}
          <5>1. n >= SendNonce /\ n # SendNonce
            BY <2>1, <3>1, <4>4, CreationAssumption DEF Nonces
          <5>2. slot[n] # t
            BY <3>1, <5>1 DEF SlotInv
          <5> QED BY <2>3, <4>1, <5>1, <5>2
        <4>5. \A u \in misreported' : Sent(u)'
          BY <2>3 DEF SlotInv, Sent
        <4> QED BY <2>3, <4>3, <4>4, <4>5 DEF SlotInv
      <3> QED BY <1>3, <1>4, <1>5, <2>1, <3>2, <3>3
    <2> QED BY <2>1, <2>2, <2>3
  <1>7. CASE SendFails(c)
    <2>1. /\ Goto(c, "reset", NoTx) /\ nonce' \in {nonce, SendNonce}
          /\ slot' = slot /\ pending' = pending /\ misreported' = misreported
      BY <1>7 DEF SendFails, nodeVars
    <2>2. \A u : (Live(u)' <=> Live(u)) /\ (Sent(u)' <=> Sent(u))
      BY <2>1 DEF Live, Sent
    <2>3. SlotInv'
      <3>1. CASE nonce' = nonce
        BY <2>1, <2>2, <3>1 DEF SlotInv
      <3>2. CASE nonce' = SendNonce /\ SendNonce \in Nonces
        BY <2>1, <2>2, <3>2, SendNonceFree DEF SlotInv
      <3>3. CASE nonce' = SendNonce /\ SendNonce \notin Nonces
        <4>1. SendNonce = MaxNonce + 1 /\ SendNonce <= pending + 1
          BY <3>3, CreationAssumption DEF SendNonce, TypeOK, Nonces, SlotInv
        <4>2. \A n \in Nonces : ~(n >= nonce')
          BY <3>3, <4>1, CreationAssumption DEF Nonces
        <4> QED BY <2>1, <2>2, <3>3, <4>1, <4>2 DEF SlotInv
      <3> QED BY <2>1, <3>1, <3>2, <3>3
    <2> QED BY <1>3, <1>4, <1>5, <2>1, <2>2, <2>3
  <1>8. CASE SendMisreported(c)
    <2>1. PICK t \in Creates :
            /\ Taken(t)
            /\ misreported' = (misreported \ {slot[SendNonce]}) \cup {t}
            /\ nonce' = SendNonce
            /\ Goto(c, "reset", NoTx)
      BY <1>8 DEF SendMisreported
    <2>2. SlotInv' /\ (\A u \in Creates : u # t => (Live(u)' <=> Live(u)))
      BY <1>1, <2>1, TakenKeeps
    <2>3. ~Live(t)'
      BY <2>1 DEF Live
    <2> QED BY <1>3, <1>4, <1>5, <2>1, <2>2, <2>3
  <1> QED BY <1>6, <1>7, <1>8

\* The owner gives the row back, or enters the hash.
LEMMA OwnerEnds ==
    ASSUME IInv, NEW c \in Callers, ServiceOnly,
           \/ At(c, "reset") /\ record' = [record EXCEPT !.status = "pending"] /\ Fails(c)
           \/ /\ At(c, "persist")
              /\ record' = [record EXCEPT !.status = "pending_confirmation", !.tx = caller[c].tx]
              /\ Goto(c, "wait", caller[c].tx)
    PROVE  SlotInv' /\ OwnerInv' /\ RowInv' /\ CallerInv' /\ LiveInv'
  <1> USE DEF IInv
  <1>1. /\ SlotInv'
        /\ \A t : (Live(t)' <=> Live(t)) /\ (Mined(t)' <=> Mined(t))
    BY NodeKept DEF ServiceOnly, nodeVars
  <1>2. caller[c].pc \in Owners
    BY DEF At, Owners
  <1>3. /\ record.status = "submitting" /\ record.tx = NoTx
        /\ \A d \in Callers : d # c => caller[d].pc \notin Owners \cup {"wait", "finalize"}
        /\ \A d \in Callers : caller[d].answer = NoTx
    BY <1>2, OwnerKnows
  <1>4. CASE At(c, "reset") /\ record' = [record EXCEPT !.status = "pending"] /\ Fails(c)
    <2>1. /\ \A d \in Callers : d # c => caller'[d] = caller[d]
          /\ caller'[c].pc = "idle" /\ caller'[c].answer = NoTx
      BY <1>3, <1>4, Moves
    <2>2. record'.status = "pending" /\ record'.tx = NoTx
      BY <1>3, <1>4 DEF TypeOK
    <2>3. \A t \in Creates : ~Live(t)
      BY <1>4 DEF LiveInv, At
    <2> QED BY <1>1, <1>3, <2>1, <2>2, <2>3
            DEF OwnerInv, Owners, RowInv, Final, CallerInv, LiveInv
  <1>5. CASE /\ At(c, "persist")
             /\ record' = [record EXCEPT !.status = "pending_confirmation", !.tx = caller[c].tx]
             /\ Goto(c, "wait", caller[c].tx)
    <2>1. /\ \A d \in Callers : d # c => caller'[d] = caller[d]
          /\ caller'[c].pc = "wait" /\ caller'[c].tx = caller[c].tx /\ caller'[c].answer = NoTx
      BY <1>3, <1>5, Moves
    <2>2. record'.status = "pending_confirmation" /\ record'.tx = caller[c].tx
      BY <1>5 DEF TypeOK
    <2>3. caller[c].tx \in Creates /\ Live(caller[c].tx) /\ caller[c].tx # NoTx
      BY <1>5, CreationAssumption DEF CallerInv, At
    <2>4. OwnerInv'
      BY <1>3, <2>1 DEF OwnerInv, Owners
    <2>5. RowInv'
      BY <2>2, <2>3 DEF RowInv, Final
    <2>6. CallerInv'
      BY <1>1, <1>3, <2>1, <2>2, <2>3 DEF CallerInv, Owners
    <2>7. LiveInv'
      BY <1>1, <1>3, <2>1, <2>2, <2>3 DEF LiveInv, Owners
    <2> QED BY <1>1, <2>4, <2>5, <2>6, <2>7
  <1> QED BY <1>4, <1>5

\* The receipt, and the finalization of the row it belongs to.
LEMMA CallerFinishes ==
    ASSUME IInv, NEW c \in Callers, ServiceOnly,
           \/ /\ At(c, "wait") /\ Mined(caller[c].tx) /\ caller[c].tx \notin reverted
              /\ Goto(c, "finalize", caller[c].tx) /\ UNCHANGED record
           \/ /\ At(c, "finalize") /\ record.status = "pending_confirmation"
              /\ caller[c].tx \notin indexed
              /\ record' = [record EXCEPT !.status = "created", !.address = caller[c].tx]
              /\ Answers(c, caller[c].tx)
    PROVE  SlotInv' /\ OwnerInv' /\ RowInv' /\ CallerInv' /\ LiveInv'
  <1> USE DEF IInv
  <1>1. /\ SlotInv'
        /\ \A t : (Live(t)' <=> Live(t)) /\ (Mined(t)' <=> Mined(t))
        /\ reverted' = reverted /\ indexed' = indexed
    BY NodeKept DEF ServiceOnly, nodeVars
  <1>2. caller[c].tx = record.tx /\ record.tx # NoTx
    BY DEF CallerInv, At
  <1>3. CASE /\ At(c, "wait") /\ Mined(caller[c].tx) /\ caller[c].tx \notin reverted
             /\ Goto(c, "finalize", caller[c].tx) /\ UNCHANGED record
    <2>1. /\ \A d \in Callers : d # c => caller'[d] = caller[d]
          /\ caller'[c].pc = "finalize" /\ caller'[c].tx = caller[c].tx
          /\ caller'[c].answer = caller[c].answer /\ record' = record
      BY <1>3, Moves
    <2>2. OwnerInv' /\ RowInv'
      BY <1>1, <2>1 DEF OwnerInv, Owners, RowInv
    <2>3. CallerInv'
      BY <1>1, <1>2, <1>3, <2>1 DEF CallerInv
    <2>4. LiveInv'
      BY <1>1, <2>1 DEF LiveInv
    <2> QED BY <1>1, <2>2, <2>3, <2>4
  <1>4. CASE /\ At(c, "finalize") /\ record.status = "pending_confirmation"
             /\ caller[c].tx \notin indexed
             /\ record' = [record EXCEPT !.status = "created", !.address = caller[c].tx]
             /\ Answers(c, caller[c].tx)
    <2>1. /\ \A d \in Callers : d # c => caller'[d] = caller[d]
          /\ caller'[c].pc = "idle" /\ caller'[c].answer = caller[c].tx
      BY <1>4, Moves
    <2>2. record'.status = "created" /\ record'.tx = record.tx /\ record'.address = record.tx
      BY <1>2, <1>4 DEF TypeOK
    <2>3. Mined(record.tx) /\ record.tx \notin reverted \cup indexed
      BY <1>2, <1>4 DEF CallerInv, At
    <2>4. \A d \in Callers : caller[d].pc \notin Owners
      BY <1>4 DEF OwnerInv
    <2>5. OwnerInv' /\ RowInv'
      BY <1>1, <1>2, <2>1, <2>2, <2>3, <2>4 DEF OwnerInv, Owners, RowInv, Final
    <2>6. CallerInv'
      BY <1>1, <1>2, <2>1, <2>2 DEF CallerInv, Final
    <2>7. LiveInv'
      BY <1>1, <2>1, <2>2 DEF LiveInv
    <2> QED BY <1>1, <2>5, <2>6, <2>7
  <1> QED BY <1>3, <1>4

\* The node mines a transaction: those mined before stay, and did not revert.
LEMMA MineKeeps ==
    ASSUME IInv, Mine
    PROVE  SlotInv' /\ OwnerInv' /\ RowInv' /\ CallerInv' /\ LiveInv'
  <1> USE DEF IInv
  <1>1. /\ mined' = mined + 1 /\ mined + 1 \in Nonces /\ mined \in Nat
        /\ reverted' \subseteq reverted \cup {slot[mined + 1]}
        /\ record' = record /\ caller' = caller /\ indexed' = indexed
        /\ slot' = slot /\ pending' = pending /\ nonce' = nonce /\ misreported' = misreported
    BY CreationAssumption DEF Mine, serviceVars, TypeOK, Nonces
  <1>2. \A t : (Live(t)' <=> Live(t)) /\ (Sent(t)' <=> Sent(t))
    BY <1>1 DEF Live, Sent
  <1>3. ASSUME NEW t \in Creates, Mined(t)
        PROVE  Mined(t)' /\ (t \notin reverted => t \notin reverted')
    <2>1. PICK n \in Nonces : n <= mined /\ slot[n] = t
      BY <1>3 DEF Mined
    <2>2. n # mined + 1 /\ n <= mined + 1
      BY <1>1, <2>1 DEF Nonces
    <2>3. slot[mined + 1] # t
      BY <1>1, <2>1, <2>2 DEF SlotInv
    <2> QED BY <1>1, <2>1, <2>2, <2>3 DEF Mined
  <1>4. SlotInv'
    BY <1>1, <1>2 DEF SlotInv
  <1>5. OwnerInv' /\ LiveInv'
    BY <1>1, <1>2 DEF OwnerInv, LiveInv
  <1>6. RowInv'
    BY <1>1, <1>3 DEF RowInv, TypeOK, Final
  <1>7. CallerInv'
    <2>1. \A d \in Callers : caller[d].tx \in Creates \cup {NoTx}
      BY DEF TypeOK
    <2> QED BY <1>1, <1>2, <1>3, <2>1 DEF CallerInv
  <1> QED BY <1>4, <1>5, <1>6, <1>7

\* The initial state satisfies the invariant (New, an empty database).
LEMMA InvInit == Init => IInv
  <1> SUFFICES ASSUME Init PROVE IInv
    OBVIOUS
  <1>1. TypeOK
    BY CreationAssumption DEF Init, TypeOK, NoRecord, IdleCaller, Statuses, Nonces
  <1>2. \A t \in Creates : ~Sent(t)
    BY CreationAssumption DEF Init, Sent
  <1>3. SlotInv
    BY CreationAssumption DEF Init, SlotInv, Nonces
  <1>4. OwnerInv /\ CallerInv
    BY DEF Init, OwnerInv, Owners, CallerInv, IdleCaller
  <1>5. RowInv /\ LiveInv
    BY <1>2 DEF Init, RowInv, LiveInv, Live, NoRecord, Final
  <1> QED BY <1>1, <1>3, <1>4, <1>5 DEF IInv

\* Every step of the protocol keeps the invariant.
LEMMA InvStep == IInv /\ [Next]_vars => IInv'
  <1> SUFFICES ASSUME IInv, [Next]_vars PROVE IInv'
    OBVIOUS
  <1> DEFINE Kept == SlotInv' /\ OwnerInv' /\ RowInv' /\ CallerInv' /\ LiveInv'
  <1>0. TypeOK' /\ TypeOK
    BY TypeStep DEF IInv
  <1>1. ASSUME NEW c \in Callers, Step(c) \/ GivesUp(c)
        PROVE  Kept
    <2>0. /\ ServiceOnly => UNCHANGED <<indexed, nodeVars, nonce, misreported>>
          /\ caller[c].pc = "wait" => caller[c].tx = record.tx
      BY DEF ServiceOnly, IInv, CallerInv
    <2>1. CASE Lookup(c)
      BY <2>0, <2>1, Looks DEF Lookup, Continue
    <2>2. CASE Insert(c)
      BY <2>0, <2>2, Looks, RowTaken DEF Insert
    <2>3. CASE Submit(c)
      BY <2>0, <2>3, Looks, RowTaken DEF Submit
    <2>4. CASE Conflict(c)
      BY <2>0, <2>4, Looks DEF Conflict
    <2>5. CASE Send(c) \/ SendFails(c) \/ SendMisreported(c)
      BY <2>5, OwnerSends
    <2>6. CASE Reset(c)
      BY <2>6, OwnerEnds DEF Reset
    <2>7. CASE Persist(c)
      BY <2>0, <2>7, OwnerEnds, Looks DEF Persist
    <2>8. CASE Receipt(c) \/ NoReceipt(c)
      BY <2>0, <2>8, Looks, CallerFinishes DEF Receipt, NoReceipt
    <2>9. CASE Finalize(c)
      BY <2>0, <2>9, Looks, CallerFinishes DEF Finalize
    <2>10. CASE Reload(c)
      BY <2>0, <2>10, Looks DEF Reload
    <2>11. CASE GivesUp(c)
      BY <2>11, Looks DEF GivesUp
    <2> QED BY <1>1, <2>1, <2>2, <2>3, <2>4, <2>5, <2>6, <2>7, <2>8, <2>9, <2>10, <2>11 DEF Step
  <1>2. ASSUME NEW t \in Creates, IndexerInserts(t)
        PROVE  Kept
    <2>1. /\ record.address # t /\ indexed' = indexed \cup {t}
          /\ record' = record /\ caller' = caller
          /\ UNCHANGED <<nodeVars, nonce, misreported>>
      BY <1>2 DEF IndexerInserts, serviceVars
    <2>2. /\ SlotInv' /\ reverted' = reverted
          /\ \A u : (Live(u)' <=> Live(u)) /\ (Mined(u)' <=> Mined(u))
      BY <2>1, NodeKept DEF IInv, nodeVars
    <2>3. OwnerInv' /\ RowInv'
      BY <2>1, <2>2 DEF IInv, OwnerInv, RowInv
    <2>4. CallerInv'
      BY <2>1, <2>2 DEF IInv, CallerInv
    <2>5. LiveInv'
      BY <2>1, <2>2 DEF IInv, LiveInv
    <2> QED BY <2>2, <2>3, <2>4, <2>5
  <1>3. ASSUME OtherTx PROVE Kept
    <2>1. /\ Taken(Other) /\ mined' = mined /\ reverted' = reverted /\ indexed' = indexed
          /\ misreported' = misreported \ {slot[SendNonce]} /\ nonce' \in {SendNonce, SendNonce + 1}
          /\ record' = record /\ caller' = caller
      BY <1>3 DEF OtherTx, serviceVars
    <2>2. /\ SlotInv'
          /\ \A u \in Creates : (Live(u)' <=> Live(u)) /\ (Mined(u)' <=> Mined(u))
      BY <2>1, TakenKeeps, CreationAssumption DEF IInv
    <2>3. OwnerInv'
      BY <2>1 DEF IInv, OwnerInv
    <2>4. RowInv'
      BY <2>1, <2>2, <1>0 DEF IInv, RowInv, TypeOK, Final
    <2>5. CallerInv'
      <3>1. \A d \in Callers : caller[d].tx \in Creates \cup {NoTx}
        BY DEF IInv, TypeOK
      <3> QED BY <2>1, <2>2, <3>1 DEF IInv, CallerInv
    <2>6. LiveInv'
      BY <2>1, <2>2, <1>0 DEF IInv, LiveInv, TypeOK
    <2> QED BY <2>2, <2>3, <2>4, <2>5, <2>6
  <1>4. ASSUME Mine PROVE Kept
    BY <1>4, MineKeeps
  <1>5. ASSUME StatusMoves PROVE Kept
    <2>1. /\ record.status = "created" /\ record'.status = "later"
          /\ record'.tx = record.tx /\ record'.address = record.address
          /\ caller' = caller /\ indexed' = indexed /\ reverted' = reverted
          /\ UNCHANGED <<nodeVars, nonce, misreported>>
      BY <1>0, <1>5 DEF StatusMoves, TypeOK, nodeVars
    <2>2. /\ SlotInv'
          /\ \A u : (Live(u)' <=> Live(u)) /\ (Mined(u)' <=> Mined(u))
      BY <2>1, NodeKept DEF IInv
    <2>3. OwnerInv' /\ RowInv'
      BY <2>1, <2>2 DEF IInv, OwnerInv, Owners, RowInv, Final
    <2>4. CallerInv'
      BY <2>1, <2>2 DEF IInv, CallerInv, Final
    <2>5. LiveInv'
      BY <2>1, <2>2 DEF IInv, LiveInv
    <2> QED BY <2>2, <2>3, <2>4, <2>5
  <1>6. ASSUME Restart PROVE Kept
    <2>1. /\ record' = record /\ indexed' = indexed /\ nodeVars' = nodeVars
          /\ misreported' = misreported /\ nonce' = 0
          /\ \A c \in Callers : caller'[c].pc = "idle" /\ caller'[c].answer = caller[c].answer
      BY <1>6 DEF Restart, IdleCaller
    <2>2. /\ SlotInv' /\ reverted' = reverted
          /\ \A u : (Live(u)' <=> Live(u)) /\ (Mined(u)' <=> Mined(u))
      BY <1>0, <2>1 DEF IInv, SlotInv, nodeVars, Live, Sent, Mined, TypeOK
    <2>3. OwnerInv' /\ RowInv' /\ CallerInv' /\ LiveInv'
      BY <2>1, <2>2 DEF IInv, OwnerInv, Owners, RowInv, CallerInv, LiveInv
    <2> QED BY <2>2, <2>3
  <1>7. ASSUME UNCHANGED vars PROVE Kept
    <2>1. /\ SlotInv'
          /\ \A u : (Live(u)' <=> Live(u)) /\ (Mined(u)' <=> Mined(u))
      BY <1>7, NodeKept DEF IInv, vars
    <2>2. /\ record' = record /\ caller' = caller /\ indexed' = indexed /\ reverted' = reverted
      BY <1>7 DEF vars, serviceVars, nodeVars
    <2>3. OwnerInv' /\ RowInv' /\ CallerInv' /\ LiveInv'
      BY <2>1, <2>2 DEF IInv, OwnerInv, RowInv, CallerInv, LiveInv
    <2> QED BY <2>1, <2>3
  <1>8. Kept
    BY <1>1, <1>2, <1>3, <1>4, <1>5, <1>6, <1>7 DEF Next
  <1> QED BY <1>0, <1>8 DEF IInv

-----------------------------------------------------------------------------
\* The theorems.

\* The invariant holds in every reachable state of CreateEscrow's callers.
LEMMA InvHolds == Spec => []IInv
  BY InvInit, InvStep, PTL DEF Spec

\* The types of the row, the callers and the node (TypeOK).
THEOREM CreationTypeCorrect == Spec => []TypeOK
  <1>1. IInv => TypeOK
    BY DEF IInv
  <1> QED BY <1>1, InvHolds, PTL

\* However many callers bring the request and wherever they stop, a second
\* createEscrow transaction is sent only after an error for the first
\* (TransitionEscrowStatus).
THEOREM IntentHasOneEscrow == Spec => []OneEscrowPerIntent
  <1>1. IInv => OneEscrowPerIntent
    BY DEF IInv, LiveInv, Live, OneEscrowPerIntent
  <1> QED BY <1>1, InvHolds, PTL

\* The transaction a row waits for is never replaced (sendTxLocked).
THEOREM HashAlwaysKept == Spec => []RecordedTxKept
  <1>1. IInv => RecordedTxKept
    BY DEF IInv, LiveInv, Live, RecordedTxKept
  <1> QED BY <1>1, InvHolds, PTL

\* Whoever gets an answer gets the one mined escrow of the row.
THEOREM AnswersAlwaysAgree == Spec => []AnswersAgree
  <1>1. IInv => AnswersAgree
    BY DEF IInv, CallerInv, RowInv, AnswersAgree
  <1> QED BY <1>1, InvHolds, PTL

\* A finalized row is never set back and keeps its escrow
\* (FinalizeEscrowCreateTx).
THEOREM FinalizedStaysFinal == Spec => FinalizedForGood
  <1>1. IInv /\ [Next]_vars =>
          [record.status \in Final =>
             /\ record'.address = record.address
             /\ record'.status \in IF record.status = "later" THEN {"later"} ELSE Final]_vars
    <2> SUFFICES ASSUME IInv, [Next]_vars, record.status \in Final
                 PROVE  /\ record'.address = record.address
                        /\ record'.status \in IF record.status = "later" THEN {"later"} ELSE Final
      OBVIOUS
    <2>1. record.status \in {"created", "later"} /\ record.tx # NoTx
      BY DEF IInv, RowInv, Final
    <2>2. \A c \in Callers : caller[c].pc \notin Owners
      BY <2>1 DEF IInv, OwnerInv
    <2>3. ASSUME NEW c \in Callers, Step(c) \/ GivesUp(c)
          PROVE  record' = record
      BY <2>1, <2>2, <2>3
         DEF Step, GivesUp, Lookup, Insert, Submit, Conflict, Send, SendFails, SendMisreported,
             Reset, Persist, Receipt, NoReceipt, Finalize, Reload, At, Owners
    <2>4. CASE StatusMoves
      BY <2>1, <2>4 DEF StatusMoves, Final, IInv, TypeOK
    <2>5. ASSUME (\E t \in Creates : IndexerInserts(t)) \/ OtherTx \/ Mine \/ Restart \/ UNCHANGED vars
          PROVE  record' = record
      BY <2>5 DEF IndexerInserts, OtherTx, Mine, Restart, vars, serviceVars
    <2> QED BY <2>1, <2>3, <2>4, <2>5 DEF Next, Final
  <1> QED BY <1>1, InvHolds, PTL DEF Spec, FinalizedForGood
=============================================================================
