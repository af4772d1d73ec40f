-------------------------- MODULE EmergencyProofs --------------------------
\* Proofs about the emergency powers of the server, for any number of requests
\* and transactions, and as many passes of the indexer.
EXTENDS Emergency, Integers, WellFoundedInduction, TLAPS

allVars == <<tokenVars, emergencyVars>>

Telling == [from : {"factory", "escrow"}, what : EmergencyActions \cup StatusEvents]
Statuses == {"funded"} \cup StatusEvents
Transaction == [action : EmergencyActions, door : {"http", "mcp"}, outcome : {"sent", "done", "reverted"}]

FreezeFlag == {"freeze_escrow", "unfreeze_escrow"}
AddressFlag == {"freeze_address", "unfreeze_address"}

EmergencyTypeOK ==
    /\ contract = [status |-> contract.status, frozen |-> contract.frozen, barred |-> contract.barred]
    /\ contract.status \in Statuses /\ contract.frozen \in BOOLEAN /\ contract.barred \in BOOLEAN
    /\ escrowRow = [status |-> escrowRow.status, frozen |-> escrowRow.frozen, barred |-> escrowRow.barred]
    /\ escrowRow.frozen \in BOOLEAN /\ escrowRow.barred \in BOOLEAN
    /\ events \in Seq(Telling) /\ recorded \subseteq DOMAIN events
    /\ reader \in [Readers -> [pc : {"idle", "next", "record", "handle"}, to : Nat, log : Nat]]
    /\ txs \in Seq(Transaction)
    /\ responder \in [Responders -> [pc : {"idle", "receipt", "record", "log", "sync"}, tx : Nat]]
    /\ disturbed \in BOOLEAN
    /\ dctToken \in Seq(Token)

\* What a request waits for or writes is in the list, and a tool writes what is
\* done.  Undisturbed, at most one transaction waits, and it is
\* the one of whoever is under way.
AskInv ==
    /\ \A r \in Responders : responder[r].pc # "idle" =>
          /\ responder[r].tx \in DOMAIN txs
          /\ responder[r].pc \in {"record", "log"} /\ Tx(r).door = "mcp" => Tx(r).outcome = "done"
    /\ \A i \in actions : i \in DOMAIN txs /\ (txs[i].door = "mcp" => txs[i].outcome = "done")
    /\ ~disturbed =>
          /\ \A i, j \in DOMAIN txs : txs[i].outcome = "sent" /\ txs[j].outcome = "sent" => i = j
          /\ \A i \in DOMAIN txs, r \in Responders :
                txs[i].outcome = "sent" /\ responder[r].pc # "idle" => i = responder[r].tx

\* The logs of a contract are recorded in their order, also by several passes;
\* undisturbed, nothing newer is recorded than what a pass still holds.
Older(k, j) == k < j /\ events[k].from = events[j].from
PassInv ==
    /\ \A j \in recorded, k \in DOMAIN events : Older(k, j) => k \in recorded
    /\ \A p \in Readers : Holds(p) =>
          /\ Held(p) \in DOMAIN events
          /\ reader[p].pc = "handle" => Held(p) \in recorded
          /\ \A k \in DOMAIN events : Older(k, Held(p)) => k \in recorded
          /\ ~disturbed => \A k \in DOMAIN events : Older(Held(p), k) => k \notin recorded

\* Which contract says what.
SpeakerInv ==
    \A k \in DOMAIN events : /\ events[k].what \in StatusEvents => events[k].from = "escrow"
                             /\ events[k].what \in AddressFlag => events[k].from = "factory"

\* No pass has still to write what the event says.
Handled(k) == k \in recorded /\ \A p \in Readers : Holds(p) => Held(p) # k

\* What is true of a flag, that the action on sets and the action off clears: of
\* each contract, the last event about it says what it is; and undisturbed, the
\* row says so, or an event or a transaction about it is to come.
FlagFollows(on, off, flag) ==
    /\ \A k \in DOMAIN events :
          events[k].what \in {on, off} /\ (\A j \in DOMAIN events : Older(k, j) => events[j].what \notin {on, off}) =>
             (contract[flag] = TRUE <=> events[k].what = on)
    /\ ~disturbed =>
          /\ \/ \E k \in DOMAIN events : events[k].what \in {on, off} /\ ~Handled(k)
             \/ \E i \in DOMAIN txs : txs[i].outcome = "sent" /\ txs[i].action \in {on, off}
             \/ escrowRow[flag] = contract[flag]
          /\ \A r \in Responders :
                responder[r].pc # "idle" /\ Tx(r).action \in {on, off} =>
                   Tx(r).outcome = "sent" \/ (contract[flag] = TRUE <=> Tx(r).action = on)

FlagInv ==
    /\ FlagFollows("freeze_escrow", "unfreeze_escrow", "frozen")
    /\ FlagFollows("freeze_address", "unfreeze_address", "barred")

\* The chain closes once and says so, and nothing is submitted after it.  Once
\* that is handled, undisturbed, the row is closed and the tokens are revoked.
Spoken(k) == events[k].what \in Closed
AllRevoked == \A t \in DOMAIN dctToken : dctToken[t].revoked = TRUE
CloseInv ==
    /\ contract.status \in Closed => \E k \in DOMAIN events : Spoken(k)
    /\ \A k \in DOMAIN events : Spoken(k) =>
          /\ contract.status \in Closed
          /\ \A j \in DOMAIN events : k < j => events[j].what # "submitted"
          /\ ~disturbed /\ Handled(k) => escrowRow.status \in InactiveStatuses /\ AllRevoked
    /\ escrowRow.status \in Closed => AllRevoked

EmergencyInv == EmergencyTypeOK /\ AskInv /\ PassInv /\ SpeakerInv /\ FlagInv /\ CloseInv

-----------------------------------------------------------------------------
\* The initial states.
LEMMA EmergencyInits == EmergencyInit /\ OneToken => EmergencyInv
<1> SUFFICES ASSUME EmergencyInit, OneToken PROVE EmergencyInv
  OBVIOUS
<1>1. PICK g \in Grants : dctToken = <<Issue(0, Buyer, Buyer, g, Buyer)>>
  BY DEF OneToken
<1>2. Issue(0, Buyer, Buyer, g, Buyer) \in Token
  BY TokensAssumption DEF Issue, Token
<1>3. EmergencyTypeOK
  <2> DEFINE first == Issue(0, Buyer, Buyer, g, Buyer)
  <2>1. <<first>> \in Seq(Token)
    <3>1. first \in Token
      BY <1>2
    <3> HIDE DEF first
    <3> QED
      BY <3>1
  <2>2. dctToken \in Seq(Token)
    BY <1>1, <2>1
  <2>3. contract = [status |-> contract.status, frozen |-> contract.frozen, barred |-> contract.barred]
        /\ contract.status \in Statuses /\ contract.frozen \in BOOLEAN /\ contract.barred \in BOOLEAN
    BY DEF EmergencyInit, Statuses
  <2>4. escrowRow = [status |-> escrowRow.status, frozen |-> escrowRow.frozen, barred |-> escrowRow.barred]
        /\ escrowRow.frozen \in BOOLEAN /\ escrowRow.barred \in BOOLEAN
    BY <2>3 DEF OneToken
  <2>5. events \in Seq(Telling) /\ recorded \subseteq DOMAIN events /\ txs \in Seq(Transaction)
    BY DEF EmergencyInit
  <2>6. responder \in [Responders -> [pc : {"idle", "receipt", "record", "log", "sync"}, tx : Nat]]
    BY DEF EmergencyInit, NotResponding
  <2>7. reader \in [Readers -> [pc : {"idle", "next", "record", "handle"}, to : Nat, log : Nat]]
    BY DEF EmergencyInit, NotReading
  <2> QED
    BY <2>2, <2>3, <2>4, <2>5, <2>6, <2>7 DEF OneToken, EmergencyTypeOK
<1>4. DOMAIN events = {} /\ DOMAIN txs = {} /\ escrowRow = contract /\ contract.status = "funded"
      /\ (\A r \in Responders : responder[r].pc = "idle") /\ actions = {} /\ recorded = {}
      /\ (\A p \in Readers : reader[p].pc = "idle")
  BY DEF EmergencyInit, OneToken, NotResponding, NotReading
<1>5. AskInv
  BY <1>4 DEF AskInv
<1>6. PassInv /\ SpeakerInv
  BY <1>4 DEF PassInv, SpeakerInv, Holds
<1>7. FlagInv
  BY <1>4 DEF FlagInv, FlagFollows
<1>8. CloseInv
  BY <1>4 DEF CloseInv, Closed
<1> QED
  BY <1>3, <1>5, <1>6, <1>7, <1>8 DEF EmergencyInv

-----------------------------------------------------------------------------
\* The invariant of the requests.

\* Nothing is asked, mined or answered.
LEMMA AskUntouched ==
    ASSUME EmergencyInv, UNCHANGED <<txs, actions, responder>>, ~disturbed' => ~disturbed
    PROVE  AskInv'
  BY DEF EmergencyInv, AskInv, Tx

\* The oldest waiting transaction gets its outcome.
LEMMA AskMined ==
    ASSUME EmergencyInv, MineEmergency
    PROVE  AskInv' /\ txs' \in Seq(Transaction)
<1>1. PICK i \in DOMAIN txs :
        /\ txs[i].outcome = "sent"
        /\ Outcome(i, "done") \/ Outcome(i, "reverted")
  BY DEF MineEmergency
<1>2. UNCHANGED <<actions, responder, disturbed>>
  BY DEF MineEmergency
<1>3. txs \in Seq(Transaction)
  BY DEF EmergencyInv, EmergencyTypeOK
<1>4. /\ txs' \in Seq(Transaction) /\ DOMAIN txs' = DOMAIN txs
      /\ \A j \in DOMAIN txs : txs'[j].door = txs[j].door /\ txs'[j].action = txs[j].action
      /\ \A j \in DOMAIN txs : j # i => txs'[j] = txs[j]
      /\ txs'[i].outcome # "sent"
  <2> PICK o \in {"done", "reverted"} :
             txs' = [txs EXCEPT ![i] = [action |-> txs[i].action, door |-> txs[i].door, outcome |-> o]]
    BY <1>1 DEF Outcome
  <2> DEFINE new == [action |-> txs[i].action, door |-> txs[i].door, outcome |-> o]
  <2>1. new \in Transaction /\ new.door = txs[i].door /\ new.action = txs[i].action /\ new.outcome # "sent"
    <3>1. txs[i] \in Transaction
      BY <1>3
    <3> QED
      BY <3>1 DEF Transaction
  <2>2. txs' = [txs EXCEPT ![i] = new]
    OBVIOUS
  <2> HIDE DEF new
  <2>3. txs' \in Seq(Transaction) /\ DOMAIN txs' = DOMAIN txs /\ txs'[i] = new
        /\ \A j \in DOMAIN txs : j # i => txs'[j] = txs[j]
    BY <1>3, <2>1, <2>2
  <2> QED
    BY <2>1, <2>3
<1>5. AskInv'
  BY <1>1, <1>2, <1>4 DEF EmergencyInv, AskInv, Tx
<1> QED
  BY <1>4, <1>5

\* A request goes on, or ends.
LEMMA AskGoesOn ==
    ASSUME EmergencyInv, NEW r \in Responders, responder[r].pc # "idle",
           NEW pc \in {"record", "log", "sync", "idle"},
           RespondNext(r, pc) \/ responder' = [responder EXCEPT ![r] = NotResponding],
           \/ pc \in {"record", "log"} /\ Tx(r).outcome = "done"
           \/ pc \in {"record", "log"} /\ responder[r].pc \in {"record", "log"}
           \/ pc = "sync"
           \/ responder' = [responder EXCEPT ![r] = NotResponding],
           actions' \in {actions, actions \cup {responder[r].tx}},
           actions' = actions \/ responder[r].pc \in {"record", "log"},
           UNCHANGED <<txs, disturbed>>
    PROVE  /\ AskInv'
           /\ responder' \in [Responders -> [pc : {"idle", "receipt", "record", "log", "sync"}, tx : Nat]]
           /\ \A s \in Responders : s # r => responder'[s] = responder[s]
<1>1. responder \in [Responders -> [pc : {"idle", "receipt", "record", "log", "sync"}, tx : Nat]]
  BY DEF EmergencyInv, EmergencyTypeOK
<1>2. /\ responder' \in [Responders -> [pc : {"idle", "receipt", "record", "log", "sync"}, tx : Nat]]
      /\ \A s \in Responders : s # r => responder'[s] = responder[s]
      /\ responder'[r].pc # "idle" => responder'[r].pc = pc /\ responder'[r].tx = responder[r].tx
      /\ responder'[r].pc # "idle" => responder' # [responder EXCEPT ![r] = NotResponding]
  BY <1>1 DEF NotResponding, RespondNext
<1>3. AskInv'
  BY <1>2 DEF EmergencyInv, AskInv, Tx
<1> QED
  BY <1>2, <1>3

\* A request sends its transaction.
LEMMA AskSent ==
    ASSUME EmergencyInv, NEW r \in Responders, NEW action \in EmergencyActions,
           NEW door \in {"http", "mcp"}, NEW next \in {"record", "receipt"},
           door = "mcp" => next = "receipt",
           SendEmergency(r, action, door, next)
    PROVE  /\ AskInv' /\ EmergencyTypeOK'
           /\ Len(txs') = Len(txs) + 1
           /\ \A i \in DOMAIN txs : txs'[i] = txs[i]
           /\ txs'[Len(txs')].action = action /\ txs'[Len(txs')].outcome = "sent"
           /\ \A s \in Responders : s # r => responder'[s] = responder[s]
           /\ responder'[r].pc = next /\ responder'[r].tx = Len(txs')
           /\ ~disturbed' => /\ ~disturbed
                              /\ \A s \in Responders : responder[s].pc = "idle"
                              /\ \A i \in DOMAIN txs : txs[i].outcome # "sent"
<1> DEFINE new == [action |-> action, door |-> door, outcome |-> "sent"]
<1>1. txs \in Seq(Transaction) /\ DOMAIN txs = 1..Len(txs) /\ Len(txs) \in Nat /\ new \in Transaction
      /\ new.door = door /\ new.outcome = "sent" /\ new.action = action
  BY DEF EmergencyInv, EmergencyTypeOK, Transaction
<1>2. txs' = Append(txs, new)
  BY DEF SendEmergency
<1> HIDE DEF new
<1>3. /\ txs' \in Seq(Transaction) /\ Len(txs') = Len(txs) + 1 /\ txs'[Len(txs')] = new
      /\ \A i \in DOMAIN txs : txs'[i] = txs[i]
      /\ DOMAIN txs' = 1..Len(txs')
  BY <1>1, <1>2
<1>4. /\ responder \in [Responders -> [pc : {"idle", "receipt", "record", "log", "sync"}, tx : Nat]]
      /\ responder' = [responder EXCEPT ![r] = [pc |-> next, tx |-> Len(txs) + 1]]
  BY DEF EmergencyInv, EmergencyTypeOK, SendEmergency
<1>5. /\ responder' \in [Responders -> [pc : {"idle", "receipt", "record", "log", "sync"}, tx : Nat]]
      /\ responder'[r].pc = next /\ responder'[r].tx = Len(txs')
      /\ \A s \in Responders : s # r => responder'[s] = responder[s]
  BY <1>1, <1>3, <1>4
<1>6. /\ disturbed' \in BOOLEAN
      /\ ~disturbed' => /\ ~disturbed
                         /\ \A s \in Responders : responder[s].pc = "idle"
                         /\ \A i \in DOMAIN txs : txs[i].outcome # "sent"
  BY DEF SendEmergency, Responding, EmergencyInv, EmergencyTypeOK
<1>7. EmergencyTypeOK'
  BY <1>3, <1>5, <1>6 DEF EmergencyInv, EmergencyTypeOK, SendEmergency
<1>8. AskInv'
  <2>1. actions' = actions
    BY DEF SendEmergency
  <2>2. \A s \in Responders : responder'[s].pc # "idle" =>
          /\ responder'[s].tx \in DOMAIN txs'
          /\ responder'[s].pc \in {"record", "log"} /\ txs'[responder'[s].tx].door = "mcp"
               => txs'[responder'[s].tx].outcome = "done"
    BY <1>1, <1>3, <1>5 DEF EmergencyInv, AskInv, Tx
  <2>3. \A i \in actions' : i \in DOMAIN txs' /\ (txs'[i].door = "mcp" => txs'[i].outcome = "done")
    BY <1>1, <1>3, <2>1 DEF EmergencyInv, AskInv
  <2>4. ~disturbed' => \A i \in DOMAIN txs' : txs'[i].outcome = "sent" => i = Len(txs')
    BY <1>1, <1>3, <1>6
  <2>5. ~disturbed' => \A s \in Responders : responder'[s].pc # "idle" => s = r
    BY <1>5, <1>6
  <2> QED
    BY <1>5, <2>2, <2>3, <2>4, <2>5 DEF AskInv, Tx
<1> QED
  BY <1>1, <1>3, <1>5, <1>6, <1>7, <1>8

-----------------------------------------------------------------------------
\* Of some numbers one is the least.
LEMMA LeastOf ==
    ASSUME NEW S \in SUBSET Nat, S # {}
    PROVE  Min(S) \in S /\ \A k \in S : Min(S) <= k
<1>1. PICK i \in S : \A k \in S : ~ (<<k, i>> \in OpToRel(<, Nat))
  BY NatLessThanWellFounded, WFMin, Zenon
<1>2. \A k \in S : ~ (k < i)
  BY <1>1 DEF OpToRel
<1>3. \A k \in S : i <= k
  BY <1>2
<1> QED
  BY <1>3 DEF Min

\* The invariant of the passes.

\* What the chain tells comes after all it has told.
LEMMA Grown ==
    ASSUME EmergencyTypeOK, NEW told \in Seq(Telling), events' = events \o told
    PROVE  /\ events' \in Seq(Telling) /\ DOMAIN events \subseteq DOMAIN events'
           /\ DOMAIN events' \subseteq Nat
           /\ \A k \in DOMAIN events : events'[k] = events[k]
           /\ \A k \in DOMAIN events' : k \notin DOMAIN events =>
                 /\ k - Len(events) \in DOMAIN told /\ events'[k] = told[k - Len(events)]
                 /\ \A j \in DOMAIN events : j < k
           /\ \A n \in DOMAIN told : /\ n + Len(events) \in DOMAIN events' /\ n + Len(events) \notin DOMAIN events
                                     /\ events'[n + Len(events)] = told[n]
<1>1. /\ events \in Seq(Telling) /\ Len(events) \in Nat /\ DOMAIN events = 1..Len(events)
      /\ Len(told) \in Nat /\ DOMAIN told = 1..Len(told)
  BY DEF EmergencyTypeOK
<1>2. /\ events' \in Seq(Telling) /\ Len(events') = Len(events) + Len(told) /\ DOMAIN events' = 1..Len(events')
      /\ \A k \in 1..Len(events) : events'[k] = events[k]
      /\ \A k \in Len(events) + 1..Len(events') : events'[k] = told[k - Len(events)]
  BY <1>1
<1> QED
  BY <1>1, <1>2

\* Nothing of it has been recorded.
LEMMA PassGrown ==
    ASSUME EmergencyTypeOK, PassInv, NEW told \in Seq(Telling), events' = events \o told,
           UNCHANGED <<recorded, reader, disturbed>>
    PROVE  /\ PassInv' /\ recorded' \subseteq DOMAIN events'
           /\ \A k \in DOMAIN events : ~Handled(k) => ~Handled(k)'
           /\ \A k \in DOMAIN events : Handled(k)' => Handled(k)
           /\ \A k \in DOMAIN events' : k \notin DOMAIN events => ~Handled(k)'
<1>1. /\ DOMAIN events \subseteq DOMAIN events' /\ DOMAIN events' \subseteq Nat
      /\ \A k \in DOMAIN events : events'[k] = events[k]
      /\ \A k \in DOMAIN events' : k \notin DOMAIN events => \A j \in DOMAIN events : j < k
      /\ recorded \subseteq DOMAIN events
  BY Grown DEF EmergencyTypeOK
<1>2. \A j \in DOMAIN events, k \in DOMAIN events' : Older(k, j)' => k \in DOMAIN events /\ Older(k, j)
  BY <1>1 DEF Older
<1>3. \A j \in recorded', k \in DOMAIN events' : Older(k, j)' => k \in recorded'
  BY <1>1, <1>2 DEF PassInv
<1>4. ASSUME NEW p \in Readers, Holds(p)'
      PROVE  /\ Held(p)' \in DOMAIN events'
             /\ reader'[p].pc = "handle" => Held(p)' \in recorded'
             /\ \A k \in DOMAIN events' : Older(k, Held(p))' => k \in recorded'
             /\ ~disturbed' => \A k \in DOMAIN events' : Older(Held(p), k)' => k \notin recorded'
  <2>1. Holds(p) /\ Held(p)' = Held(p) /\ Held(p) \in DOMAIN events
    BY <1>4 DEF Holds, Held, PassInv
  <2>2. \A k \in DOMAIN events' : Older(k, Held(p))' => k \in recorded'
    BY <1>1, <1>2, <2>1 DEF PassInv, Held, Older
  <2>3. ~disturbed' => \A k \in DOMAIN events' : Older(Held(p), k)' => k \notin recorded'
    BY <1>1, <2>1 DEF PassInv, Held, Older
  <2> QED
    BY <1>1, <2>1, <2>2, <2>3 DEF PassInv, Held
<1> QED
  BY <1>1, <1>3, <1>4 DEF PassInv, Handled, Holds, Held

\* A pass begins, or ends.
LEMMA PassResting ==
    ASSUME EmergencyTypeOK, PassInv, NEW p \in Readers, ~Holds(p), ~Holds(p)',
           UNCHANGED <<events, recorded, disturbed>>,
           \A q \in Readers : q # p => reader'[q] = reader[q]
    PROVE  PassInv' /\ \A k \in DOMAIN events : Handled(k)' <=> Handled(k)
<1>1. \A q \in Readers : Holds(q)' => q # p /\ Holds(q) /\ Held(q)' = Held(q) /\ reader'[q] = reader[q]
  BY DEF Holds, Held
<1>2. \A q \in Readers : Holds(q) => Holds(q)' /\ Held(q)' = Held(q)
  BY DEF Holds, Held
<1>3. \A j, k : Older(j, k)' <=> Older(j, k)
  BY DEF Older
<1>4. \A q \in Readers : \A k : Holds(q)' => (Older(k, Held(q))' <=> Older(k, Held(q))) /\ (Older(Held(q), k)' <=> Older(Held(q), k))
  BY <1>1 DEF Older
<1>5. PassInv'
  BY <1>1, <1>3, <1>4 DEF PassInv
<1>6. \A k \in DOMAIN events : Handled(k)' <=> Handled(k)
  BY <1>1, <1>2 DEF Handled
<1> QED
  BY <1>5, <1>6

\* A pass takes the oldest log of a contract that is not recorded.
LEMMA PassTakes ==
    ASSUME EmergencyTypeOK, PassInv, NEW p \in Readers, TakeEvent(p)
    PROVE  /\ PassInv' /\ reader' \in [Readers -> [pc : {"idle", "next", "record", "handle"}, to : Nat, log : Nat]]
           /\ \A k \in DOMAIN events : ~Handled(k) => ~Handled(k)'
           /\ \A k \in DOMAIN events : Handled(k)' => Handled(k)
<1> DEFINE contractName == IF Unrecorded(p, "factory") # {} THEN "factory" ELSE "escrow"
           todo == Unrecorded(p, contractName)
           j == Min(todo)
<1>1. /\ reader[p].pc = "next" /\ todo # {}
      /\ reader' = [reader EXCEPT ![p] = [pc |-> "record", to |-> reader[p].to, log |-> j]]
      /\ UNCHANGED <<events, recorded, disturbed>>
  <2>1. todo = IF Unrecorded(p, "factory") # {} THEN Unrecorded(p, "factory") ELSE Unrecorded(p, "escrow")
    OBVIOUS
  <2> HIDE DEF todo, contractName
  <2> QED
    BY <2>1 DEF TakeEvent, ReaderAt, ReaderGoto
<1>2. todo \subseteq DOMAIN events /\ DOMAIN events = 1..Len(events) /\ Len(events) \in Nat
  BY DEF Unrecorded, EmergencyTypeOK
<1>3. j \in todo /\ \A k \in todo : j <= k
  <2>1. todo \in SUBSET Nat
    BY <1>2
  <2> HIDE DEF todo
  <2> QED
    BY <1>1, <2>1, LeastOf
<1>4. /\ j \in DOMAIN events /\ j <= reader[p].to /\ j \notin recorded /\ events[j].from = contractName
      /\ \A k \in DOMAIN events : k <= reader[p].to /\ events[k].from = contractName /\ k \notin recorded => j <= k
  <2>1. \A k : k \in todo <=> k \in DOMAIN events /\ k <= reader[p].to /\ events[k].from = contractName /\ k \notin recorded
    BY DEF Unrecorded
  <2> HIDE DEF todo
  <2> QED
    BY <1>3, <2>1
<1> HIDE DEF j, todo, contractName
<1>5. reader \in [Readers -> [pc : {"idle", "next", "record", "handle"}, to : Nat, log : Nat]]
  BY DEF EmergencyTypeOK
<1>6. /\ reader' \in [Readers -> [pc : {"idle", "next", "record", "handle"}, to : Nat, log : Nat]]
      /\ \A q \in Readers : q # p => reader'[q] = reader[q]
      /\ reader'[p].pc = "record" /\ reader'[p].log = j
  BY <1>1, <1>2, <1>4, <1>5
<1>7. \A i, k : Older(i, k)' <=> Older(i, k)
  BY <1>1 DEF Older
<1>8. /\ \A q \in Readers : q # p => (Holds(q)' <=> Holds(q)) /\ Held(q)' = Held(q) /\ reader'[q].pc = reader[q].pc
      /\ Holds(p)' /\ Held(p)' = j /\ ~Holds(p)
  BY <1>1, <1>6 DEF Holds, Held
<1>9. reader[p].to \in Nat
  BY <1>5
<1>10. \A k \in DOMAIN events : Older(k, j) => k \in recorded
  BY <1>2, <1>4, <1>9 DEF Older
<1>11. \A k \in DOMAIN events : Older(j, k) => k \notin recorded
  BY <1>4 DEF PassInv
<1>12. ASSUME NEW q \in Readers, Holds(q)'
       PROVE  /\ Held(q)' \in DOMAIN events'
              /\ reader'[q].pc = "handle" => Held(q)' \in recorded'
              /\ \A k \in DOMAIN events' : Older(k, Held(q))' => k \in recorded'
              /\ ~disturbed' => \A k \in DOMAIN events' : Older(Held(q), k)' => k \notin recorded'
  <2>1. CASE q = p
    <3>1. \A k : (Older(k, Held(q))' <=> Older(k, j)) /\ (Older(Held(q), k)' <=> Older(j, k))
      BY <1>1, <1>8, <2>1 DEF Older
    <3> QED
      BY <1>1, <1>4, <1>6, <1>8, <1>10, <1>11, <2>1, <3>1
  <2>2. CASE q # p
    <3>1. \A k : (Older(k, Held(q))' <=> Older(k, Held(q))) /\ (Older(Held(q), k)' <=> Older(Held(q), k))
      BY <1>1, <1>8, <2>2 DEF Older
    <3> QED
      BY <1>1, <1>8, <1>12, <2>2, <3>1 DEF PassInv
  <2> QED
    BY <2>1, <2>2
<1>13. PassInv'
  BY <1>1, <1>7, <1>12 DEF PassInv
<1>14. \A k \in DOMAIN events : Handled(k)' => Handled(k)
  BY <1>1, <1>8 DEF Handled
<1> QED
  BY <1>6, <1>13, <1>14

\* A pass records the log that it has taken; if it has outrun another, all is disturbed.
LEMMA PassRecords ==
    ASSUME EmergencyTypeOK, PassInv, NEW p \in Readers, RecordEvent(p)
    PROVE  /\ PassInv' /\ reader' \in [Readers -> [pc : {"idle", "next", "record", "handle"}, to : Nat, log : Nat]]
           /\ recorded' \subseteq DOMAIN events
           /\ \A k \in DOMAIN events : Handled(k)' => Handled(k)
           /\ disturbed' \in BOOLEAN /\ (disturbed => disturbed')
<1> DEFINE j == Held(p)
<1>1. /\ reader[p].pc = "record" /\ UNCHANGED events /\ disturbed' = (disturbed \/ Outruns(p))
      /\ reader' = [reader EXCEPT ![p] = [pc |-> "handle", to |-> reader[p].to, log |-> j]]
      /\ recorded' = recorded \cup {j}
  BY DEF RecordEvent, ReaderAt, ReaderGoto
<1>2. /\ reader \in [Readers -> [pc : {"idle", "next", "record", "handle"}, to : Nat, log : Nat]]
      /\ disturbed \in BOOLEAN /\ recorded \subseteq DOMAIN events /\ DOMAIN events \subseteq Nat
  BY DEF EmergencyTypeOK
<1>3. Holds(p) /\ j \in DOMAIN events /\ \A k \in DOMAIN events : Older(k, j) => k \in recorded
  BY <1>1 DEF Holds, PassInv
<1>4. j \in Nat
  BY <1>2, <1>3
<1>5. j = reader[p].log
  BY DEF Held
<1> HIDE DEF j
<1>6. /\ reader' \in [Readers -> [pc : {"idle", "next", "record", "handle"}, to : Nat, log : Nat]]
      /\ \A q \in Readers : q # p => reader'[q] = reader[q]
      /\ reader'[p].pc = "handle" /\ reader'[p].log = j
  BY <1>1, <1>2, <1>4
<1>7. \A i, k : Older(i, k)' <=> Older(i, k)
  BY <1>1 DEF Older
<1>8. \A q \in Readers : /\ Holds(q)' <=> Holds(q)
                         /\ reader'[q].log = reader[q].log
                         /\ q # p => reader'[q].pc = reader[q].pc
  BY <1>1, <1>5, <1>6 DEF Holds
<1>9. ASSUME NEW q \in Readers, Holds(q)
      PROVE  /\ reader'[q].log \in DOMAIN events'
             /\ reader'[q].pc = "handle" => reader'[q].log \in recorded'
             /\ \A k \in DOMAIN events' : Older(k, reader[q].log) => k \in recorded'
             /\ ~disturbed' => \A k \in DOMAIN events' : Older(reader[q].log, k) => k \notin recorded'
  <2>1. /\ reader[q].log \in DOMAIN events
        /\ reader[q].pc = "handle" => reader[q].log \in recorded
        /\ \A k \in DOMAIN events : Older(k, reader[q].log) => k \in recorded
        /\ ~disturbed => \A k \in DOMAIN events : Older(reader[q].log, k) => k \notin recorded
    BY <1>9 DEF PassInv, Held
  <2>2. ~disturbed' => ~ Older(reader[q].log, j)
    BY <1>1, <1>3, <1>5, <1>9 DEF Outruns, Older, Held
  <2> QED
    BY <1>1, <1>5, <1>6, <1>8, <2>1, <2>2
<1>10. \A q \in Readers : \A k : (Older(k, Held(q))' <=> Older(k, reader[q].log)) /\ (Older(Held(q), k)' <=> Older(reader[q].log, k))
  BY <1>1, <1>8 DEF Older, Held
<1>11. \A i \in recorded', k \in DOMAIN events' : Older(k, i)' => k \in recorded'
  BY <1>1, <1>3, <1>7 DEF PassInv
<1>12. PassInv'
  BY <1>8, <1>9, <1>10, <1>11 DEF PassInv, Held
<1>13. \A k \in DOMAIN events : Handled(k)' => Handled(k)
  BY <1>1, <1>3, <1>5, <1>6, <1>8 DEF Handled, Held
<1> QED
  BY <1>1, <1>2, <1>3, <1>6, <1>12, <1>13

\* A pass has done with the log that it took, or drops it; undisturbed, no newer
\* log of the same contract is recorded.
LEMMA PassLeaves ==
    ASSUME EmergencyTypeOK, PassInv, NEW p \in Readers, Holds(p), UNCHANGED events,
           NextEvent(p), recorded' = recorded \cup {Held(p)},
           disturbed' = TRUE \/ (reader[p].pc = "handle" /\ UNCHANGED disturbed)
    PROVE  /\ PassInv' /\ reader' \in [Readers -> [pc : {"idle", "next", "record", "handle"}, to : Nat, log : Nat]]
           /\ Held(p) \in DOMAIN events /\ recorded' \subseteq DOMAIN events /\ disturbed' \in BOOLEAN
           /\ \A k \in DOMAIN events : k # Held(p) => (Handled(k)' => Handled(k))
           /\ ~disturbed' => \A k \in DOMAIN events : Older(Held(p), k) => ~Handled(k) /\ ~Handled(k)'
<1> DEFINE j == Held(p)
<1>1. reader' = [reader EXCEPT ![p] = [pc |-> "next", to |-> reader[p].to, log |-> 0]] /\ recorded' = recorded \cup {j}
  BY DEF NextEvent, ReaderGoto
<1>2. /\ reader \in [Readers -> [pc : {"idle", "next", "record", "handle"}, to : Nat, log : Nat]]
      /\ disturbed \in BOOLEAN /\ recorded \subseteq DOMAIN events /\ DOMAIN events \subseteq Nat
  BY DEF EmergencyTypeOK
<1>3. /\ j \in DOMAIN events /\ \A k \in DOMAIN events : Older(k, j) => k \in recorded
      /\ ~disturbed => \A k \in DOMAIN events : Older(j, k) => k \notin recorded
      /\ reader[p].pc = "handle" => j \in recorded
  BY DEF PassInv
<1>4. ~disturbed' => ~disturbed /\ recorded' = recorded
  BY <1>1, <1>3
<1> HIDE DEF j
<1>5. /\ reader' \in [Readers -> [pc : {"idle", "next", "record", "handle"}, to : Nat, log : Nat]]
      /\ \A q \in Readers : q # p => reader'[q] = reader[q]
      /\ reader'[p].pc = "next"
  BY <1>1, <1>2
<1>6. \A i, k : Older(i, k)' <=> Older(i, k)
  BY DEF Older
<1>7. \A q \in Readers : Holds(q)' => q # p /\ Holds(q) /\ reader'[q] = reader[q]
  BY <1>5 DEF Holds
<1>8. ASSUME NEW q \in Readers, Holds(q)'
      PROVE  /\ reader'[q].log \in DOMAIN events'
             /\ reader'[q].pc = "handle" => reader'[q].log \in recorded'
             /\ \A k \in DOMAIN events' : Older(k, reader[q].log) => k \in recorded'
             /\ ~disturbed' => \A k \in DOMAIN events' : Older(reader[q].log, k) => k \notin recorded'
  <2>1. /\ reader[q].log \in DOMAIN events
        /\ reader[q].pc = "handle" => reader[q].log \in recorded
        /\ \A k \in DOMAIN events : Older(k, reader[q].log) => k \in recorded
        /\ ~disturbed => \A k \in DOMAIN events : Older(reader[q].log, k) => k \notin recorded
    BY <1>7, <1>8 DEF PassInv, Held
  <2> QED
    BY <1>1, <1>4, <1>7, <1>8, <2>1
<1>9. \A q \in Readers : Holds(q)' => \A k : (Older(k, Held(q))' <=> Older(k, reader[q].log)) /\ (Older(Held(q), k)' <=> Older(reader[q].log, k))
  BY <1>7 DEF Older, Held
<1>10. \A i \in recorded', k \in DOMAIN events' : Older(k, i)' => k \in recorded'
  BY <1>1, <1>3, <1>6 DEF PassInv
<1>11. PassInv'
  BY <1>8, <1>9, <1>10 DEF PassInv, Held
<1>12. \A k \in DOMAIN events : k # j => (Handled(k)' => Handled(k))
  <2> SUFFICES ASSUME NEW k \in DOMAIN events, k # j, Handled(k)' PROVE Handled(k)
    OBVIOUS
  <2>1. k \in recorded
    BY <1>1 DEF Handled
  <2>2. ASSUME NEW q \in Readers, Holds(q) PROVE Held(q) # k
    <3>1. CASE q = p
      BY <3>1 DEF j
    <3>2. CASE q # p
      BY <1>5, <2>2, <3>2 DEF Handled, Holds, Held
    <3> QED
      BY <3>1, <3>2
  <2> QED
    BY <2>1, <2>2 DEF Handled
<1>13. ~disturbed' => \A k \in DOMAIN events : Older(j, k) => ~Handled(k) /\ ~Handled(k)'
  BY <1>3, <1>4 DEF Handled
<1> QED
  BY <1>1, <1>2, <1>3, <1>5, <1>11, <1>12, <1>13 DEF j

-----------------------------------------------------------------------------
\* The invariant of a flag.

\* Nothing is told, asked or written of it.
LEMMA FlagPasses ==
    ASSUME EmergencyTypeOK, NEW on, NEW off, NEW flag, FlagFollows(on, off, flag),
           UNCHANGED <<contract, events, txs>>,
           disturbed => disturbed',
           \A r \in Responders : responder'[r].pc # "idle" => responder'[r] = responder[r],
           ~disturbed' => /\ escrowRow'[flag] = escrowRow[flag]
                          /\ \A k \in DOMAIN events : events[k].what \in {on, off} /\ ~Handled(k) => ~Handled(k)'
    PROVE  FlagFollows(on, off, flag)'
<1>1. \A i, k : Older(i, k)' <=> Older(i, k)
  BY DEF Older
<1>2. ~disturbed' => \A r \in Responders :
         responder'[r].pc # "idle" => Tx(r)' = Tx(r) /\ responder[r].pc # "idle"
  BY DEF Tx
<1>3. \A k \in DOMAIN events' :
          events'[k].what \in {on, off} /\ (\A j \in DOMAIN events' : Older(k, j)' => events'[j].what \notin {on, off}) =>
             (contract'[flag] = TRUE <=> events'[k].what = on)
  BY <1>1 DEF FlagFollows
<1>4. ~disturbed' =>
          \/ \E k \in DOMAIN events : events[k].what \in {on, off} /\ ~Handled(k)'
          \/ \E i \in DOMAIN txs : txs[i].outcome = "sent" /\ txs[i].action \in {on, off}
          \/ escrowRow'[flag] = contract[flag]
  BY DEF FlagFollows
<1>5. ~disturbed' => \A r \in Responders :
         responder'[r].pc # "idle" /\ Tx(r)'.action \in {on, off} =>
            Tx(r)'.outcome = "sent" \/ (contract[flag] = TRUE <=> Tx(r)'.action = on)
  BY <1>2 DEF FlagFollows
<1> QED
  BY <1>3, <1>4, <1>5 DEF FlagFollows

\* An event about it is handled: it is the last of its contract, or another is to come.
LEMMA FlagHandled ==
    ASSUME EmergencyTypeOK, PassInv, NEW on, NEW off, NEW flag, FlagFollows(on, off, flag),
           UNCHANGED <<contract, events, txs, responder, disturbed>>,
           NEW p \in Readers, Held(p) \in DOMAIN events, events[Held(p)].what \in {on, off},
           \A k \in DOMAIN events : ~disturbed' /\ Older(Held(p), k) => ~Handled(k)',
           contract[flag] \in BOOLEAN, escrowRow'[flag] \in BOOLEAN,
           escrowRow'[flag] = TRUE <=> events[Held(p)].what = on
    PROVE  FlagFollows(on, off, flag)'
<1>1. \A i, k : Older(i, k)' <=> Older(i, k)
  BY DEF Older
<1>2. \A r \in Responders : Tx(r)' = Tx(r)
  BY DEF Tx
<1>3. \A k \in DOMAIN events' :
          events'[k].what \in {on, off} /\ (\A j \in DOMAIN events' : Older(k, j)' => events'[j].what \notin {on, off}) =>
             (contract'[flag] = TRUE <=> events'[k].what = on)
  BY <1>1 DEF FlagFollows
<1>4. ~disturbed =>
          \/ \E k \in DOMAIN events : events[k].what \in {on, off} /\ ~Handled(k)'
          \/ escrowRow'[flag] = contract[flag]
  <2>1. CASE \E k \in DOMAIN events : Older(Held(p), k) /\ events[k].what \in {on, off}
    BY <2>1
  <2>2. CASE ~ \E k \in DOMAIN events : Older(Held(p), k) /\ events[k].what \in {on, off}
    <3>1. contract[flag] = TRUE <=> events[Held(p)].what = on
      BY <2>2 DEF FlagFollows
    <3> QED
      BY <3>1
  <2> QED
    BY <2>1, <2>2
<1> QED
  BY <1>2, <1>3, <1>4 DEF FlagFollows

\* The chain goes on, and says nothing of it.
LEMMA FlagAside ==
    ASSUME EmergencyTypeOK, PassInv, AskInv, NEW on, NEW off, NEW flag, FlagFollows(on, off, flag),
           NEW told \in Seq(Telling), events' = events \o told,
           UNCHANGED <<recorded, reader, escrowRow, responder, disturbed>>,
           \A n \in DOMAIN told : told[n].what \notin {on, off},
           contract'[flag] = contract[flag],
           DOMAIN txs' = DOMAIN txs,
           \A i \in DOMAIN txs : txs[i].action \in {on, off} \/ txs'[i].action \in {on, off} => txs'[i] = txs[i]
    PROVE  FlagFollows(on, off, flag)'
<1>1. /\ DOMAIN events \subseteq DOMAIN events' /\ \A k \in DOMAIN events : events'[k] = events[k]
      /\ \A k \in DOMAIN events' : k \notin DOMAIN events => events'[k].what \notin {on, off}
  BY Grown
<1>2. \A k \in DOMAIN events : ~Handled(k) => ~Handled(k)'
  BY PassGrown
<1>3. \A k, j \in DOMAIN events : Older(k, j)' <=> Older(k, j)
  BY <1>1 DEF Older
<1>4. ASSUME NEW k \in DOMAIN events', events'[k].what \in {on, off},
             \A j \in DOMAIN events' : Older(k, j)' => events'[j].what \notin {on, off}
      PROVE  contract'[flag] = TRUE <=> events'[k].what = on
  <2>1. k \in DOMAIN events /\ events[k].what \in {on, off} /\ events'[k] = events[k]
    BY <1>1, <1>4
  <2>2. \A j \in DOMAIN events : Older(k, j) => events[j].what \notin {on, off}
    BY <1>1, <1>3, <1>4, <2>1
  <2> QED
    BY <2>1, <2>2 DEF FlagFollows
<1>5. ~disturbed =>
          \/ \E k \in DOMAIN events' : events'[k].what \in {on, off} /\ ~Handled(k)'
          \/ \E i \in DOMAIN txs' : txs'[i].outcome = "sent" /\ txs'[i].action \in {on, off}
          \/ escrowRow'[flag] = contract'[flag]
  BY <1>1, <1>2 DEF FlagFollows
<1>6. ~disturbed => \A r \in Responders :
         responder'[r].pc # "idle" /\ Tx(r)'.action \in {on, off} =>
            Tx(r)'.outcome = "sent" \/ (contract'[flag] = TRUE <=> Tx(r)'.action = on)
  <2>1. \A r \in Responders : responder[r].pc # "idle" => responder[r].tx \in DOMAIN txs
    BY DEF AskInv
  <2> QED
    BY <2>1 DEF FlagFollows, Tx
<1> QED
  BY <1>4, <1>5, <1>6 DEF FlagFollows

\* A transaction about it is mined: of each contract that ever said something of
\* it the last word is now this one, and no pass has seen it.
LEMMA FlagMined ==
    ASSUME EmergencyTypeOK, PassInv, AskInv, NEW on, NEW off, NEW flag, FlagFollows(on, off, flag),
           NEW told \in Seq(Telling), events' = events \o told, told # << >>,
           UNCHANGED <<recorded, reader, escrowRow, responder, disturbed>>,
           NEW i \in DOMAIN txs, txs[i].outcome = "sent", txs[i].action \in {on, off},
           \A n \in DOMAIN told : told[n].what = txs[i].action,
           \A k \in DOMAIN events : events[k].what \in {on, off} => \E n \in DOMAIN told : told[n].from = events[k].from,
           contract'[flag] = TRUE <=> txs[i].action = on,
           \A j \in DOMAIN txs : txs'[j].action = txs[j].action
    PROVE  FlagFollows(on, off, flag)'
<1>1. /\ DOMAIN events \subseteq DOMAIN events' /\ \A k \in DOMAIN events : events'[k] = events[k]
      /\ \A k \in DOMAIN events' : k \notin DOMAIN events =>
            /\ events'[k].what = txs[i].action
            /\ \A j \in DOMAIN events : j < k
      /\ \A n \in DOMAIN told : /\ n + Len(events) \in DOMAIN events' /\ n + Len(events) \notin DOMAIN events
                                /\ events'[n + Len(events)] = told[n]
  BY Grown
<1>2. \A k \in DOMAIN events' : k \notin DOMAIN events => ~Handled(k)'
  BY PassGrown
<1>3. ASSUME NEW k \in DOMAIN events', events'[k].what \in {on, off},
             \A j \in DOMAIN events' : Older(k, j)' => events'[j].what \notin {on, off}
      PROVE  contract'[flag] = TRUE <=> events'[k].what = on
  <2>1. CASE k \in DOMAIN events
    <3>1. PICK n \in DOMAIN told : told[n].from = events[k].from
      BY <1>1, <1>3, <2>1
    <3> DEFINE j == n + Len(events)
    <3>3. j \in DOMAIN events' /\ j \notin DOMAIN events /\ events'[j] = told[n]
      BY <1>1
    <3> HIDE DEF j
    <3>4. k < j /\ events'[j].what \in {on, off} /\ events'[j].from = events'[k].from
      BY <1>1, <2>1, <3>1, <3>3
    <3> QED
      BY <1>3, <3>3, <3>4 DEF Older
  <2>2. CASE k \notin DOMAIN events
    BY <1>1, <2>2
  <2> QED
    BY <2>1, <2>2
<1>4. \E k \in DOMAIN events' : events'[k].what \in {on, off} /\ ~Handled(k)'
  <2>1. 1 \in DOMAIN told
    <3>1. Len(told) \in Nat /\ Len(told) # 0 /\ DOMAIN told = 1..Len(told)
      OBVIOUS
    <3> QED
      BY <3>1
  <2>2. 1 + Len(events) \in DOMAIN events' /\ 1 + Len(events) \notin DOMAIN events
        /\ events'[1 + Len(events)].what \in {on, off}
    BY <1>1, <2>1
  <2> QED
    BY <1>2, <2>2
<1>5. ~disturbed => \A r \in Responders :
         responder'[r].pc # "idle" /\ Tx(r)'.action \in {on, off} =>
            Tx(r)'.outcome = "sent" \/ (contract'[flag] = TRUE <=> Tx(r)'.action = on)
  <2>1. ~disturbed => \A r \in Responders : responder[r].pc # "idle" => responder[r].tx = i
    BY DEF AskInv
  <2> QED
    BY <2>1 DEF Tx
<1> QED
  BY <1>3, <1>4, <1>5 DEF FlagFollows

\* A request writes what its transaction says, or nothing of it.
LEMMA FlagWritten ==
    ASSUME EmergencyTypeOK, AskInv, NEW on, NEW off, NEW flag, FlagFollows(on, off, flag),
           UNCHANGED <<contract, events, recorded, reader, txs, disturbed>>,
           NEW r \in Responders, \A s \in Responders : s # r => responder'[s] = responder[s],
           responder[r].pc # "idle",
           responder'[r].pc # "idle" => responder'[r].tx = responder[r].tx,
           \/ escrowRow'[flag] = escrowRow[flag]
           \/ /\ escrowRow'[flag] \in BOOLEAN /\ contract[flag] \in BOOLEAN /\ Tx(r).action \in {on, off}
              /\ escrowRow'[flag] = TRUE <=> Tx(r).action = on
    PROVE  FlagFollows(on, off, flag)'
<1>1. responder[r].tx \in DOMAIN txs
  BY DEF AskInv
<1>2. \A k, j : (Older(k, j)' <=> Older(k, j)) /\ (Handled(k)' <=> Handled(k))
  BY DEF Older, Handled, Holds, Held
<1>3. \A k \in DOMAIN events' :
          events'[k].what \in {on, off} /\ (\A j \in DOMAIN events' : Older(k, j)' => events'[j].what \notin {on, off}) =>
             (contract'[flag] = TRUE <=> events'[k].what = on)
  BY <1>2 DEF FlagFollows
<1>4. ~disturbed => \A s \in Responders :
         responder'[s].pc # "idle" => responder[s].pc # "idle" /\ responder'[s].tx = responder[s].tx
  OBVIOUS
<1>5. ~disturbed => \A s \in Responders :
            responder'[s].pc # "idle" /\ Tx(s)'.action \in {on, off} =>
               Tx(s)'.outcome = "sent" \/ (contract[flag] = TRUE <=> Tx(s)'.action = on)
  BY <1>4 DEF FlagFollows, Tx
<1>6. ~disturbed => \/ \E k \in DOMAIN events : events[k].what \in {on, off} /\ ~Handled(k)'
                    \/ \E i \in DOMAIN txs : txs[i].outcome = "sent" /\ txs[i].action \in {on, off}
                    \/ escrowRow'[flag] = contract[flag]
  BY <1>1, <1>2 DEF FlagFollows, Tx
<1> QED
  BY <1>3, <1>5, <1>6 DEF FlagFollows

\* A request sends its transaction.
LEMMA FlagSent ==
    ASSUME EmergencyTypeOK, NEW on, NEW off, NEW flag, FlagFollows(on, off, flag),
           UNCHANGED <<contract, events, recorded, reader, escrowRow>>,
           Len(txs') = Len(txs) + 1, txs' \in Seq(Transaction),
           \A i \in DOMAIN txs : txs'[i] = txs[i],
           txs'[Len(txs')].outcome = "sent",
           NEW r \in Responders, responder'[r].tx = Len(txs'),
           \A s \in Responders : s # r => responder'[s] = responder[s],
           ~disturbed' => ~disturbed /\ \A s \in Responders : responder[s].pc = "idle"
    PROVE  FlagFollows(on, off, flag)'
<1>1. DOMAIN txs = 1..Len(txs) /\ DOMAIN txs' = 1..Len(txs') /\ Len(txs) \in Nat
  BY DEF EmergencyTypeOK
<1>2. \A k, j : (Older(k, j)' <=> Older(k, j)) /\ (Handled(k)' <=> Handled(k))
  BY DEF Older, Handled, Holds, Held
<1>3. \A k \in DOMAIN events' :
          events'[k].what \in {on, off} /\ (\A j \in DOMAIN events' : Older(k, j)' => events'[j].what \notin {on, off}) =>
             (contract'[flag] = TRUE <=> events'[k].what = on)
  BY <1>2 DEF FlagFollows
<1>4. ~disturbed' => \/ \E k \in DOMAIN events : events[k].what \in {on, off} /\ ~Handled(k)'
                     \/ \E i \in DOMAIN txs' : txs'[i].outcome = "sent" /\ txs'[i].action \in {on, off}
                     \/ escrowRow[flag] = contract[flag]
  BY <1>1, <1>2 DEF FlagFollows
<1>5. ~disturbed' => \A s \in Responders :
         responder'[s].pc # "idle" => Tx(s)'.outcome = "sent"
  BY DEF Tx
<1> QED
  BY <1>3, <1>4, <1>5 DEF FlagFollows

-----------------------------------------------------------------------------
\* The invariant of the closing.

\* The row may only become resolved, and the tokens only revoked; no pass has done
\* with a log.
LEMMA CloseWritten ==
    ASSUME CloseInv, EmergencyTypeOK, UNCHANGED <<contract, events>>,
           disturbed => disturbed',
           \A k \in DOMAIN events : ~disturbed' /\ Handled(k)' => Handled(k),
           escrowRow'.status \in {escrowRow.status, "resolved"},
           DOMAIN dctToken' = DOMAIN dctToken,
           \A t \in DOMAIN dctToken : dctToken[t].revoked = TRUE => dctToken'[t].revoked = TRUE
    PROVE  CloseInv'
  BY DEF CloseInv, Spoken, Closed, InactiveStatuses, AllRevoked

\* The chain goes on.
LEMMA CloseTold ==
    ASSUME CloseInv, EmergencyTypeOK, PassInv, NEW told \in Seq(Telling), events' = events \o told,
           UNCHANGED <<recorded, reader, escrowRow, dctToken, disturbed>>,
           contract.status \in Closed => contract'.status \in Closed,
           \A n \in DOMAIN told : told[n].what \in Closed => contract'.status \in Closed,
           \A n \in DOMAIN told : told[n].what = "submitted" =>
              contract.status \notin Closed /\ \A m \in DOMAIN told : told[m].what \notin Closed,
           contract'.status \in Closed => contract.status \in Closed \/ \E n \in DOMAIN told : told[n].what \in Closed
    PROVE  CloseInv'
<1>1. /\ DOMAIN events \subseteq DOMAIN events' /\ \A k \in DOMAIN events : events'[k] = events[k]
      /\ \A k \in DOMAIN events' : k \notin DOMAIN events =>
            k - Len(events) \in DOMAIN told /\ events'[k] = told[k - Len(events)] /\ \A j \in DOMAIN events : j < k
      /\ \A n \in DOMAIN told : n + Len(events) \in DOMAIN events' /\ events'[n + Len(events)] = told[n]
      /\ DOMAIN events' \subseteq Nat
  BY Grown
<1>2. /\ \A k \in DOMAIN events : Handled(k)' => Handled(k)
      /\ \A k \in DOMAIN events' : k \notin DOMAIN events => ~Handled(k)'
  BY PassGrown
<1>3. contract'.status \in Closed => \E k \in DOMAIN events' : Spoken(k)'
  BY <1>1 DEF CloseInv, Spoken
<1>4. ASSUME NEW k \in DOMAIN events', Spoken(k)'
      PROVE  /\ contract'.status \in Closed
             /\ \A j \in DOMAIN events' : k < j => events'[j].what # "submitted"
             /\ ~disturbed' /\ Handled(k)' => escrowRow'.status \in InactiveStatuses /\ AllRevoked'
  <2>1. CASE k \in DOMAIN events
    <3>1. Spoken(k)
      BY <1>1, <1>4, <2>1 DEF Spoken
    <3>2. ~disturbed' /\ Handled(k)' => escrowRow'.status \in InactiveStatuses /\ AllRevoked'
      BY <1>2, <2>1, <3>1 DEF CloseInv, AllRevoked
    <3>3. contract.status \in Closed /\ \A j \in DOMAIN events : k < j => events[j].what # "submitted"
      BY <2>1, <3>1 DEF CloseInv
    <3>4. \A j \in DOMAIN events' : k < j => events'[j].what # "submitted"
      BY <1>1, <3>3
    <3> QED
      BY <3>2, <3>3, <3>4
  <2>2. CASE k \notin DOMAIN events
    <3>1. k - Len(events) \in DOMAIN told /\ told[k - Len(events)].what \in Closed
      BY <1>1, <1>4, <2>2 DEF Spoken
    <3>2. \A n \in DOMAIN told : told[n].what # "submitted"
      BY <3>1
    <3>3. ASSUME NEW j \in DOMAIN events', k < j PROVE events'[j].what # "submitted"
      <4>1. j \notin DOMAIN events
        BY <1>1, <2>2, <3>3
      <4> QED
        BY <1>1, <3>2, <4>1
    <3> QED
      BY <1>2, <2>2, <3>1, <3>3
  <2> QED
    BY <2>1, <2>2
<1> QED
  BY <1>3, <1>4 DEF CloseInv, AllRevoked

\* A pass handles a log.
LEMMA CloseHandled ==
    ASSUME CloseInv, EmergencyTypeOK, SpeakerInv, UNCHANGED <<contract, events, disturbed>>,
           NEW p \in Readers, Held(p) \in DOMAIN events,
           \A k \in DOMAIN events : k # Held(p) => (Handled(k)' => Handled(k)),
           \A k \in DOMAIN events : ~disturbed' /\ Older(Held(p), k) => ~Handled(k)',
           LET event == events[Held(p)].what
           IN  /\ escrowRow'.status =
                     IF event = "emergency_resolve" THEN "resolved"
                     ELSE IF event \in StatusEvents /\ escrowRow.status \notin Closed THEN event
                     ELSE escrowRow.status
               /\ event \in Closed /\ escrowRow.status \notin Closed => AllRevoked',
           DOMAIN dctToken' = DOMAIN dctToken,
           \A t \in DOMAIN dctToken : dctToken[t].revoked = TRUE => dctToken'[t].revoked = TRUE
    PROVE  CloseInv'
<1> DEFINE j == Held(p)
           event == events[j].what
<1>1. /\ escrowRow'.status =
            IF event = "emergency_resolve" THEN "resolved"
            ELSE IF event \in StatusEvents /\ escrowRow.status \notin Closed THEN event
            ELSE escrowRow.status
      /\ event \in Closed /\ escrowRow.status \notin Closed => AllRevoked'
      /\ j \in DOMAIN events /\ event = events[j].what
      /\ \A k \in DOMAIN events : k # j => (Handled(k)' => Handled(k))
      /\ \A k \in DOMAIN events : ~disturbed' /\ Older(j, k) => ~Handled(k)'
  OBVIOUS
<1>2. DOMAIN events \subseteq Nat
  BY DEF EmergencyTypeOK
<1> HIDE DEF j, event
<1>3. AllRevoked => AllRevoked'
  BY DEF AllRevoked
<1>4. escrowRow'.status \in Closed => AllRevoked'
  BY <1>1, <1>3 DEF CloseInv, Closed
<1>5. ASSUME NEW k \in DOMAIN events, Spoken(k), ~disturbed', Handled(k)'
      PROVE  escrowRow'.status \in InactiveStatuses /\ AllRevoked'
  <2>1. CASE k = j
    <3>1. event \in Closed /\ event \in StatusEvents /\ event # "emergency_resolve"
      BY <1>1, <1>5, <2>1 DEF Spoken, StatusEvents, Closed
    <3>2. escrowRow'.status \in Closed
      BY <1>1, <3>1
    <3> QED
      BY <1>4, <3>2 DEF Closed, InactiveStatuses
  <2>2. CASE k # j
    <3>1. escrowRow.status \in InactiveStatuses /\ AllRevoked
      BY <1>1, <1>5, <2>2 DEF CloseInv
    <3>2. event # "submitted"
      <4> SUFFICES ASSUME event = "submitted" PROVE FALSE
        OBVIOUS
      <4>1. events[j].from = "escrow" /\ events[k].from = "escrow"
        BY <1>1, <1>5 DEF SpeakerInv, Spoken, StatusEvents
      <4>2. ~ (k < j)
        BY <1>1, <1>5 DEF CloseInv
      <4>3. ~ (j < k)
        BY <1>1, <1>5, <4>1 DEF Older
      <4> QED
        BY <1>1, <1>2, <2>2, <4>2, <4>3
    <3>3. escrowRow'.status \in {escrowRow.status, "resolved"} \cup Closed
      BY <1>1, <3>2 DEF StatusEvents
    <3> QED
      BY <1>3, <3>1, <3>3 DEF InactiveStatuses, Closed
  <2> QED
    BY <2>1, <2>2
<1>6. \A k \in DOMAIN events : Spoken(k)' <=> Spoken(k)
  BY DEF Spoken
<1> QED
  BY <1>4, <1>5, <1>6 DEF CloseInv

-----------------------------------------------------------------------------
\* The chain's steps.

\* What a transaction does that is admitted.
LEMMA EffectOf ==
    ASSUME EmergencyTypeOK, NEW action \in EmergencyActions, Admits(action), contract' = Effect(action)
    PROVE  /\ contract' = [status |-> contract'.status, frozen |-> contract'.frozen, barred |-> contract'.barred]
           /\ contract'.status \in Statuses /\ contract'.frozen \in BOOLEAN /\ contract'.barred \in BOOLEAN
           /\ action = "emergency_resolve" => contract.status \notin Closed /\ contract'.status = "settled"
           /\ action # "emergency_resolve" => contract'.status = contract.status
           /\ action \in FreezeFlag => (contract'.frozen = TRUE <=> action = "freeze_escrow")
           /\ action \notin FreezeFlag => contract'.frozen = contract.frozen
           /\ action \in AddressFlag => (contract'.barred = TRUE <=> action = "freeze_address")
           /\ action \notin AddressFlag => contract'.barred = contract.barred
<1>1. contract' = [status |-> IF action = "emergency_resolve" THEN "settled" ELSE contract.status,
                   frozen |-> Frozen(action, contract.frozen), barred |-> Barred(action, contract.barred)]
  BY DEF Effect
<1>2. /\ contract' = [status |-> contract'.status, frozen |-> contract'.frozen, barred |-> contract'.barred]
      /\ contract'.status = IF action = "emergency_resolve" THEN "settled" ELSE contract.status
      /\ contract'.frozen = Frozen(action, contract.frozen)
      /\ contract'.barred = Barred(action, contract.barred)
  BY <1>1
<1>3. action = "emergency_resolve" => contract.status \notin Closed
  BY DEF Admits
<1>4. contract'.status \in Statuses
  BY <1>2 DEF EmergencyTypeOK, Statuses, StatusEvents, Closed
<1> QED
  BY <1>2, <1>3, <1>4 DEF Frozen, Barred, Flags, FreezeFlag, AddressFlag, EmergencyTypeOK

\* What is told of it, and by which contract.
LEMMA ToldOf ==
    ASSUME NEW action \in EmergencyActions
    PROVE  /\ Tells(action) \in Seq(Telling) /\ Tells(action) # << >>
           /\ \A n \in DOMAIN Tells(action) :
                 /\ \/ Tells(action)[n].what = action
                    \/ action = "emergency_resolve" /\ Tells(action)[n].what = "settled" /\ Tells(action)[n].from = "escrow"
                 /\ Tells(action)[n].what \in AddressFlag => Tells(action)[n].from = "factory"
           /\ action \in FreezeFlag => \A c \in {"factory", "escrow"} : \E n \in DOMAIN Tells(action) : Tells(action)[n].from = c
           /\ action \in AddressFlag => \E n \in DOMAIN Tells(action) : Tells(action)[n].from = "factory"
           /\ action = "emergency_resolve" => \E n \in DOMAIN Tells(action) : Tells(action)[n].what \in Closed
<1> DEFINE a == Event("escrow", action)
           b == Event("factory", action)
           c == Event("escrow", "settled")
<1>1. /\ a \in Telling /\ a.what = action /\ a.from = "escrow"
      /\ b \in Telling /\ b.what = action /\ b.from = "factory"
      /\ c \in Telling /\ c.what = "settled" /\ c.from = "escrow"
  BY DEF Event, Telling, StatusEvents, Closed
<1>2. action \in FreezeFlag => Tells(action) = <<a, b>>
  BY DEF Tells, FreezeFlag
<1>3. action = "emergency_resolve" => Tells(action) = <<a, c, b>>
  BY DEF Tells
<1>4. action \in AddressFlag => Tells(action) = <<b>>
  BY DEF Tells, AddressFlag
<1>5. FreezeFlag \cap AddressFlag = {} /\ "emergency_resolve" \notin FreezeFlag \cup AddressFlag
      /\ "settled" \notin FreezeFlag \cup AddressFlag /\ "settled" \in Closed
      /\ (action \in FreezeFlag \/ action \in AddressFlag \/ action = "emergency_resolve")
  BY DEF FreezeFlag, AddressFlag, EmergencyActions, Closed
<1> HIDE DEF a, b, c
<1>6. CASE action \in FreezeFlag
  <2> DEFINE told == <<a, b>>
  <2>1. told \in Seq(Telling) /\ DOMAIN told = 1..2 /\ told[1] = a /\ told[2] = b /\ told # << >>
    BY <1>1
  <2>2. told = Tells(action)
    BY <1>2, <1>6
  <2> HIDE DEF told
  <2> QED
    BY <1>1, <1>5, <1>6, <2>1, <2>2
<1>7. CASE action = "emergency_resolve"
  <2> DEFINE told == <<a, c, b>>
  <2>1. told \in Seq(Telling) /\ DOMAIN told = 1..3 /\ told[1] = a /\ told[2] = c /\ told[3] = b /\ told # << >>
    BY <1>1
  <2>2. told = Tells(action)
    BY <1>3, <1>7
  <2> HIDE DEF told
  <2> QED
    BY <1>1, <1>5, <1>7, <2>1, <2>2
<1>8. CASE action \in AddressFlag
  <2> DEFINE told == <<b>>
  <2>1. told \in Seq(Telling) /\ DOMAIN told = 1..1 /\ told[1] = b /\ told # << >>
    BY <1>1
  <2>2. told = Tells(action)
    BY <1>4, <1>8
  <2> HIDE DEF told
  <2> QED
    BY <1>1, <1>5, <1>8, <2>1, <2>2
<1> QED
  BY <1>5, <1>6, <1>7, <1>8

\* Each contract says its own.
LEMMA SpeakerTold ==
    ASSUME EmergencyTypeOK, SpeakerInv, NEW told \in Seq(Telling), events' = events \o told,
           \A n \in DOMAIN told : /\ told[n].what \in StatusEvents => told[n].from = "escrow"
                                  /\ told[n].what \in AddressFlag => told[n].from = "factory"
    PROVE  SpeakerInv'
<1>1. /\ \A k \in DOMAIN events : events'[k] = events[k]
      /\ \A k \in DOMAIN events' : k \notin DOMAIN events =>
            k - Len(events) \in DOMAIN told /\ events'[k] = told[k - Len(events)]
  BY Grown
<1> QED
  BY <1>1 DEF SpeakerInv

\* The outcome of a transaction.
LEMMA OutcomeOf ==
    ASSUME EmergencyTypeOK, NEW i \in DOMAIN txs, NEW o \in {"done", "reverted"}, Outcome(i, o)
    PROVE  /\ DOMAIN txs' = DOMAIN txs /\ \A j \in DOMAIN txs : txs'[j].action = txs[j].action
           /\ \A j \in DOMAIN txs : j # i => txs'[j] = txs[j]
<1> DEFINE new == [action |-> txs[i].action, door |-> txs[i].door, outcome |-> o]
<1>1. txs \in Seq(Transaction) /\ txs' = [txs EXCEPT ![i] = new] /\ new.action = txs[i].action
  BY DEF EmergencyTypeOK, Outcome
<1> HIDE DEF new
<1>2. DOMAIN txs' = DOMAIN txs /\ txs'[i] = new /\ \A j \in DOMAIN txs : j # i => txs'[j] = txs[j]
  BY <1>1
<1> QED
  BY <1>1, <1>2

\* A transaction is mined, and does what it says.
LEMMA MinedKeeps ==
    ASSUME EmergencyInv, NEW i \in DOMAIN txs, txs[i].outcome = "sent", Admits(txs[i].action),
           contract' = Effect(txs[i].action), events' = events \o Tells(txs[i].action),
           Outcome(i, "done"), AskInv', txs' \in Seq(Transaction),
           UNCHANGED <<recorded, reader, escrowRow, dctToken, actions, responder, disturbed>>
    PROVE  EmergencyInv'
<1> DEFINE action == txs[i].action
           told == Tells(action)
<1>1. /\ EmergencyTypeOK /\ AskInv /\ PassInv /\ SpeakerInv /\ CloseInv
      /\ FlagFollows("freeze_escrow", "unfreeze_escrow", "frozen")
      /\ FlagFollows("freeze_address", "unfreeze_address", "barred")
      /\ txs[i] \in Transaction
  BY DEF EmergencyInv, FlagInv, EmergencyTypeOK
<1>2. action \in EmergencyActions /\ events' = events \o told
  BY <1>1 DEF Transaction
<1>3. /\ DOMAIN txs' = DOMAIN txs /\ \A j \in DOMAIN txs : txs'[j].action = txs[j].action
      /\ \A j \in DOMAIN txs : j # i => txs'[j] = txs[j]
  BY <1>1, OutcomeOf
<1>4. /\ contract' = [status |-> contract'.status, frozen |-> contract'.frozen, barred |-> contract'.barred]
      /\ contract'.status \in Statuses /\ contract'.frozen \in BOOLEAN /\ contract'.barred \in BOOLEAN
      /\ action = "emergency_resolve" => contract.status \notin Closed /\ contract'.status = "settled"
      /\ action # "emergency_resolve" => contract'.status = contract.status
      /\ action \in FreezeFlag => (contract'.frozen = TRUE <=> action = "freeze_escrow")
      /\ action \notin FreezeFlag => contract'.frozen = contract.frozen
      /\ action \in AddressFlag => (contract'.barred = TRUE <=> action = "freeze_address")
      /\ action \notin AddressFlag => contract'.barred = contract.barred
  BY <1>1, <1>2, EffectOf
<1>5. /\ told \in Seq(Telling) /\ told # << >>
      /\ \A n \in DOMAIN told :
            /\ \/ told[n].what = action
               \/ action = "emergency_resolve" /\ told[n].what = "settled" /\ told[n].from = "escrow"
            /\ told[n].what \in AddressFlag => told[n].from = "factory"
      /\ action \in FreezeFlag => \A c \in {"factory", "escrow"} : \E n \in DOMAIN told : told[n].from = c
      /\ action \in AddressFlag => \E n \in DOMAIN told : told[n].from = "factory"
      /\ action = "emergency_resolve" => \E n \in DOMAIN told : told[n].what \in Closed
  BY <1>2, ToldOf
<1>6. /\ FreezeFlag \cap AddressFlag = {} /\ "settled" \notin FreezeFlag \cup AddressFlag
      /\ "emergency_resolve" \notin FreezeFlag \cup AddressFlag
      /\ EmergencyActions \cap StatusEvents = {} /\ Closed \subseteq StatusEvents
      /\ "submitted" \notin Closed \cup EmergencyActions /\ "settled" \in Closed
  BY DEF FreezeFlag, AddressFlag, EmergencyActions, StatusEvents, Closed
<1>7. action = txs[i].action
  OBVIOUS
<1> HIDE DEF told, action
<1>8. /\ events' \in Seq(Telling) /\ PassInv' /\ recorded' \subseteq DOMAIN events'
  BY <1>1, <1>2, <1>5, Grown, PassGrown
<1>9. EmergencyTypeOK'
  BY <1>1, <1>4, <1>8 DEF EmergencyTypeOK
<1>10. SpeakerInv'
  BY <1>1, <1>2, <1>5, <1>6, SpeakerTold
<1>11. \A k \in DOMAIN events : events[k].from \in {"factory", "escrow"}
  <2>1. \A k \in DOMAIN events : events[k] \in Telling
    BY <1>1 DEF EmergencyTypeOK
  <2> QED
    BY <2>1 DEF Telling
<1>12. FlagFollows("freeze_escrow", "unfreeze_escrow", "frozen")'
  <2>1. CASE action \in FreezeFlag
    <3>1. \A n \in DOMAIN told : told[n].what = action
      BY <1>5, <1>6, <2>1
    <3> QED
      BY <1>1, <1>2, <1>3, <1>4, <1>5, <1>7, <1>11, <2>1, <3>1, FlagMined DEF FreezeFlag
  <2>2. CASE action \notin FreezeFlag
    <3>1. \A n \in DOMAIN told : told[n].what \notin FreezeFlag
      BY <1>5, <1>6, <2>2
    <3>2. \A j \in DOMAIN txs : txs[j].action \in FreezeFlag \/ txs'[j].action \in FreezeFlag => txs'[j] = txs[j]
      BY <1>3, <1>7, <2>2
    <3> QED
      BY <1>1, <1>2, <1>3, <1>4, <1>5, <2>2, <3>1, <3>2, FlagAside DEF FreezeFlag
  <2> QED
    BY <2>1, <2>2
<1>13. FlagFollows("freeze_address", "unfreeze_address", "barred")'
  <2>1. CASE action \in AddressFlag
    <3>1. \A n \in DOMAIN told : told[n].what = action
      BY <1>5, <1>6, <2>1
    <3>2. \A k \in DOMAIN events : events[k].what \in AddressFlag => \E n \in DOMAIN told : told[n].from = events[k].from
      BY <1>1, <1>5, <2>1 DEF SpeakerInv
    <3> QED
      BY <1>1, <1>2, <1>3, <1>4, <1>5, <1>7, <2>1, <3>1, <3>2, FlagMined DEF AddressFlag
  <2>2. CASE action \notin AddressFlag
    <3>1. \A n \in DOMAIN told : told[n].what \notin AddressFlag
      BY <1>5, <1>6, <2>2
    <3>2. \A j \in DOMAIN txs : txs[j].action \in AddressFlag \/ txs'[j].action \in AddressFlag => txs'[j] = txs[j]
      BY <1>3, <1>7, <2>2
    <3> QED
      BY <1>1, <1>2, <1>3, <1>4, <1>5, <2>2, <3>1, <3>2, FlagAside DEF AddressFlag
  <2> QED
    BY <2>1, <2>2
<1>14. CloseInv'
  <2>1. \A n \in DOMAIN told : told[n].what # "submitted" /\ (told[n].what \in Closed => action = "emergency_resolve")
    BY <1>2, <1>5, <1>6
  <2>2. contract.status \in Closed => contract'.status \in Closed
    BY <1>4
  <2>3. contract'.status \in Closed => contract.status \in Closed \/ \E n \in DOMAIN told : told[n].what \in Closed
    BY <1>4, <1>5
  <2> QED
    BY <1>1, <1>2, <1>4, <1>5, <1>6, <2>1, <2>2, <2>3, CloseTold
<1> QED
  BY <1>8, <1>9, <1>10, <1>12, <1>13, <1>14 DEF EmergencyInv, FlagInv

\* A transaction is mined and reverts: a flag is not what it was about.
LEMMA RevertedKeeps ==
    ASSUME EmergencyInv, NEW i \in DOMAIN txs, txs[i].outcome = "sent", ~Admits(txs[i].action),
           Outcome(i, "reverted"), AskInv', txs' \in Seq(Transaction),
           UNCHANGED <<contract, events, recorded, reader, escrowRow, dctToken, actions, responder, disturbed>>
    PROVE  EmergencyInv'
<1>1. EmergencyTypeOK /\ AskInv /\ PassInv /\ SpeakerInv /\ CloseInv
      /\ FlagFollows("freeze_escrow", "unfreeze_escrow", "frozen")
      /\ FlagFollows("freeze_address", "unfreeze_address", "barred")
  BY DEF EmergencyInv, FlagInv
<1>2. EmergencyTypeOK'
  BY <1>1 DEF EmergencyTypeOK
<1>3. PassInv' /\ SpeakerInv'
  BY <1>1 DEF PassInv, SpeakerInv, Older, Holds, Held
<1>4. /\ DOMAIN txs' = DOMAIN txs /\ \A j \in DOMAIN txs : txs'[j].action = txs[j].action
      /\ \A j \in DOMAIN txs : j # i => txs'[j] = txs[j]
  BY <1>1, OutcomeOf
<1>5. txs[i].action = "emergency_resolve"
  BY DEF Admits
<1> DEFINE told == << >>
<1>6. told \in Seq(Telling) /\ events' = events \o told /\ \A n \in DOMAIN told : FALSE
  BY <1>1 DEF EmergencyTypeOK
<1> HIDE DEF told
<1>7. FlagFollows("freeze_escrow", "unfreeze_escrow", "frozen")'
  <2>1. \A j \in DOMAIN txs : txs[j].action \in FreezeFlag \/ txs'[j].action \in FreezeFlag => txs'[j] = txs[j]
    BY <1>4, <1>5 DEF FreezeFlag
  <2> QED
    BY <1>1, <1>4, <1>6, <2>1, FlagAside DEF FreezeFlag
<1>8. FlagFollows("freeze_address", "unfreeze_address", "barred")'
  <2>1. \A j \in DOMAIN txs : txs[j].action \in AddressFlag \/ txs'[j].action \in AddressFlag => txs'[j] = txs[j]
    BY <1>4, <1>5 DEF AddressFlag
  <2> QED
    BY <1>1, <1>4, <1>6, <2>1, FlagAside DEF AddressFlag
<1>9. CloseInv'
  BY <1>1, <1>6, CloseTold
<1> QED
  BY <1>2, <1>3, <1>7, <1>8, <1>9 DEF EmergencyInv, FlagInv

\* The parties go on.
LEMMA PartiesKeep == ASSUME EmergencyInv, PartiesAct PROVE EmergencyInv'
<1>1. EmergencyTypeOK /\ AskInv /\ PassInv /\ SpeakerInv /\ CloseInv
      /\ FlagFollows("freeze_escrow", "unfreeze_escrow", "frozen")
      /\ FlagFollows("freeze_address", "unfreeze_address", "barred")
  BY DEF EmergencyInv, FlagInv
<1>2. PICK status \in StatusEvents :
         contract' = [contract EXCEPT !.status = status] /\ events' = Append(events, Event("escrow", status))
  BY DEF PartiesAct
<1>3. contract.status \notin Closed
      /\ UNCHANGED <<recorded, reader, escrowRow, dctToken, txs, actions, responder, disturbed>>
  BY DEF PartiesAct
<1>4. /\ contract' = [status |-> contract'.status, frozen |-> contract'.frozen, barred |-> contract'.barred]
      /\ contract'.status = status /\ contract'.frozen = contract.frozen /\ contract'.barred = contract.barred
  <2>1. contract' = [status |-> status, frozen |-> contract.frozen, barred |-> contract.barred]
    BY <1>1, <1>2 DEF EmergencyTypeOK
  <2> QED
    BY <2>1
<1> DEFINE event == Event("escrow", status)
           told == <<event>>
<1>5. event \in Telling /\ event.what = status /\ event.from = "escrow"
  BY DEF Event, Telling
<1>6. told \in Seq(Telling) /\ events' = events \o told /\ DOMAIN told = {1} /\ told[1] = event
  <2>1. events \in Seq(Telling) /\ events' = Append(events, event)
    BY <1>1, <1>2 DEF EmergencyTypeOK
  <2> HIDE DEF event
  <2> QED
    BY <1>5, <2>1
<1> HIDE DEF told, event
<1>7. status \notin FreezeFlag \cup AddressFlag
  BY DEF StatusEvents, Closed, FreezeFlag, AddressFlag
<1>8. events' \in Seq(Telling) /\ PassInv' /\ recorded' \subseteq DOMAIN events'
  BY <1>1, <1>3, <1>6, Grown, PassGrown
<1>9. EmergencyTypeOK'
  BY <1>1, <1>3, <1>4, <1>8 DEF EmergencyTypeOK, Statuses
<1>10. AskInv'
  BY <1>3, AskUntouched
<1>11. SpeakerInv'
  BY <1>1, <1>5, <1>6, <1>7, SpeakerTold
<1>12. \A n \in DOMAIN told : told[n].what = status /\ status \notin FreezeFlag /\ status \notin AddressFlag
  BY <1>5, <1>6, <1>7
<1>13. FlagFollows("freeze_escrow", "unfreeze_escrow", "frozen")'
  BY <1>1, <1>3, <1>4, <1>6, <1>12, FlagAside DEF FreezeFlag
<1>14. FlagFollows("freeze_address", "unfreeze_address", "barred")'
  BY <1>1, <1>3, <1>4, <1>6, <1>12, FlagAside DEF AddressFlag
<1>15. CloseInv'
  <2>1. "submitted" \notin Closed
    BY DEF Closed
  <2>2. contract'.status \in Closed => \E n \in DOMAIN told : told[n].what \in Closed
    BY <1>4, <1>6, <1>12
  <2> QED
    BY <1>1, <1>3, <1>4, <1>6, <1>12, <2>1, <2>2, CloseTold
<1> QED
  BY <1>8, <1>9, <1>10, <1>11, <1>13, <1>14, <1>15 DEF EmergencyInv, FlagInv

-----------------------------------------------------------------------------
\* The steps of the passes.

\* RevokeByEscrow.
LEMMA RevokesAll ==
    ASSUME EmergencyTypeOK, RevokeByEscrow
    PROVE  dctToken' \in Seq(Token) /\ DOMAIN dctToken' = DOMAIN dctToken /\ AllRevoked'
<1>1. dctToken \in Seq(Token) /\ DOMAIN dctToken = 1..Len(dctToken) /\ Len(dctToken) \in Nat
      /\ \A t \in DOMAIN dctToken : dctToken[t] \in Token
  BY DEF EmergencyTypeOK
<1>2. dctToken' = [t \in DOMAIN dctToken |-> [dctToken[t] EXCEPT !.revoked = TRUE]]
  BY DEF RevokeByEscrow
<1>3. ASSUME NEW k \in Token
      PROVE  [k EXCEPT !.revoked = TRUE] \in Token /\ [k EXCEPT !.revoked = TRUE].revoked = TRUE
  BY DEF Token
<1>4. \A t \in DOMAIN dctToken : dctToken'[t] \in Token /\ dctToken'[t].revoked = TRUE
  BY <1>1, <1>2, <1>3
<1> QED
  BY <1>1, <1>2, <1>4 DEF AllRevoked

\* A request is over.
LEMMA AskEnds ==
    ASSUME EmergencyInv, NEW p, responder' = [responder EXCEPT ![p] = NotResponding],
           UNCHANGED <<txs, actions, disturbed>>
    PROVE  /\ AskInv'
           /\ responder' \in [Responders -> [pc : {"idle", "receipt", "record", "log", "sync"}, tx : Nat]]
           /\ \A s \in Responders : responder'[s].pc # "idle" => responder'[s] = responder[s]
<1>1. /\ responder \in [Responders -> [pc : {"idle", "receipt", "record", "log", "sync"}, tx : Nat]]
      /\ NotResponding \in [pc : {"idle", "receipt", "record", "log", "sync"}, tx : Nat]
      /\ NotResponding.pc = "idle"
  BY DEF EmergencyInv, EmergencyTypeOK, NotResponding
<1>2. /\ responder' \in [Responders -> [pc : {"idle", "receipt", "record", "log", "sync"}, tx : Nat]]
      /\ \A s \in Responders : responder'[s].pc # "idle" => responder'[s] = responder[s]
  BY <1>1
<1>3. AskInv'
  BY <1>2 DEF EmergencyInv, AskInv, Tx
<1> QED
  BY <1>2, <1>3

\* A pass moves on, and the row stays.
LEMMA PassKeeps ==
    ASSUME EmergencyInv, UNCHANGED <<contract, events, txs, actions, escrowRow, dctToken>>,
           AskInv', PassInv', recorded' \subseteq DOMAIN events,
           reader' \in [Readers -> [pc : {"idle", "next", "record", "handle"}, to : Nat, log : Nat]],
           responder' \in [Responders -> [pc : {"idle", "receipt", "record", "log", "sync"}, tx : Nat]],
           \A s \in Responders : responder'[s].pc # "idle" => responder'[s] = responder[s],
           disturbed' \in BOOLEAN, disturbed => disturbed',
           ~disturbed' => \A k \in DOMAIN events : Handled(k)' => Handled(k)
    PROVE  EmergencyInv'
<1>1. /\ EmergencyTypeOK /\ SpeakerInv /\ CloseInv
      /\ FlagFollows("freeze_escrow", "unfreeze_escrow", "frozen")
      /\ FlagFollows("freeze_address", "unfreeze_address", "barred")
  BY DEF EmergencyInv, FlagInv
<1>2. EmergencyTypeOK'
  BY <1>1 DEF EmergencyTypeOK
<1>3. SpeakerInv'
  BY <1>1 DEF SpeakerInv
<1>4. FlagFollows("freeze_escrow", "unfreeze_escrow", "frozen")'
  BY <1>1, FlagPasses
<1>5. FlagFollows("freeze_address", "unfreeze_address", "barred")'
  BY <1>1, FlagPasses
<1>6. DOMAIN dctToken' = DOMAIN dctToken /\ \A t \in DOMAIN dctToken : dctToken[t].revoked = TRUE => dctToken'[t].revoked = TRUE
  OBVIOUS
<1>7. CloseInv'
  BY <1>1, <1>6, CloseWritten
<1> QED
  BY <1>2, <1>3, <1>4, <1>5, <1>7 DEF EmergencyInv, FlagInv

\* It begins, takes a log, records it, drops it, or ends.
LEMMA PassGoesOn ==
    ASSUME EmergencyInv, NEW p \in Readers,
           PassBegins(p) \/ TakeEvent(p) \/ RecordEvent(p) \/ EventDropped(p) \/ PassEnds(p)
    PROVE  EmergencyInv'
<1>1. /\ EmergencyTypeOK /\ PassInv /\ AskInv /\ recorded \subseteq DOMAIN events
      /\ reader \in [Readers -> [pc : {"idle", "next", "record", "handle"}, to : Nat, log : Nat]]
      /\ responder \in [Responders -> [pc : {"idle", "receipt", "record", "log", "sync"}, tx : Nat]]
      /\ disturbed \in BOOLEAN /\ Len(events) \in Nat
  BY DEF EmergencyInv, EmergencyTypeOK
<1>2. CASE PassBegins(p)
  <2>1. /\ reader[p].pc = "idle" /\ reader' = [reader EXCEPT ![p] = [pc |-> "next", to |-> Len(events), log |-> 0]]
        /\ UNCHANGED <<contract, events, recorded, escrowRow, dctToken, txs, actions, responder, disturbed>>
    BY <1>2 DEF PassBegins, ReaderAt
  <2>2. /\ reader' \in [Readers -> [pc : {"idle", "next", "record", "handle"}, to : Nat, log : Nat]]
        /\ reader'[p].pc = "next" /\ \A q \in Readers : q # p => reader'[q] = reader[q]
    BY <1>1, <2>1
  <2>3. ~Holds(p) /\ ~Holds(p)'
    BY <2>1, <2>2 DEF Holds
  <2>4. PassInv' /\ \A k \in DOMAIN events : Handled(k)' => Handled(k)
    BY <1>1, <2>1, <2>2, <2>3, PassResting
  <2>5. AskInv'
    BY <2>1, AskUntouched
  <2> QED
    BY <1>1, <2>1, <2>2, <2>4, <2>5, PassKeeps
<1>3. CASE TakeEvent(p)
  <2>1. UNCHANGED <<contract, events, recorded, escrowRow, dctToken, txs, actions, responder, disturbed>>
    BY <1>3 DEF TakeEvent
  <2>2. AskInv'
    BY <2>1, AskUntouched
  <2>3. /\ PassInv' /\ reader' \in [Readers -> [pc : {"idle", "next", "record", "handle"}, to : Nat, log : Nat]]
        /\ \A k \in DOMAIN events : Handled(k)' => Handled(k)
    BY <1>1, <1>3, PassTakes
  <2> QED
    BY <1>1, <2>1, <2>2, <2>3, PassKeeps
<1>4. CASE RecordEvent(p)
  <2>1. UNCHANGED <<contract, events, escrowRow, dctToken, txs, actions, responder>>
    BY <1>4 DEF RecordEvent
  <2>2. /\ PassInv' /\ reader' \in [Readers -> [pc : {"idle", "next", "record", "handle"}, to : Nat, log : Nat]]
        /\ recorded' \subseteq DOMAIN events
        /\ \A k \in DOMAIN events : Handled(k)' => Handled(k)
        /\ disturbed' \in BOOLEAN /\ (disturbed => disturbed')
    BY <1>1, <1>4, PassRecords
  <2>3. AskInv'
    BY <2>1, <2>2, AskUntouched
  <2> QED
    BY <1>1, <2>1, <2>2, <2>3, PassKeeps
<1>5. CASE EventDropped(p)
  <2>1. /\ UNCHANGED <<contract, events, escrowRow, dctToken, txs, actions, responder>>
        /\ Holds(p) /\ NextEvent(p) /\ recorded' = recorded \cup {Held(p)} /\ disturbed' = TRUE
    BY <1>5 DEF EventDropped
  <2>2. AskInv'
    BY <2>1, AskUntouched
  <2>3. /\ PassInv' /\ reader' \in [Readers -> [pc : {"idle", "next", "record", "handle"}, to : Nat, log : Nat]]
        /\ recorded' \subseteq DOMAIN events /\ disturbed' \in BOOLEAN
    BY <1>1, <2>1, PassLeaves
  <2> QED
    BY <1>1, <2>1, <2>2, <2>3, PassKeeps
<1>6. CASE PassEnds(p)
  <2>1. /\ UNCHANGED <<contract, events, recorded, escrowRow, dctToken, txs, actions, disturbed>>
        /\ reader[p].pc = "next" /\ reader' = [reader EXCEPT ![p] = NotReading]
        /\ UNCHANGED responder \/ responder' = [responder EXCEPT ![p] = NotResponding]
    BY <1>6 DEF PassEnds, ReaderAt, Responded
  <2>2. /\ reader' \in [Readers -> [pc : {"idle", "next", "record", "handle"}, to : Nat, log : Nat]]
        /\ reader'[p].pc = "idle" /\ \A q \in Readers : q # p => reader'[q] = reader[q]
    BY <1>1, <2>1 DEF NotReading
  <2>3. ~Holds(p) /\ ~Holds(p)'
    BY <2>1, <2>2 DEF Holds
  <2>4. PassInv' /\ \A k \in DOMAIN events : Handled(k)' => Handled(k)
    BY <1>1, <2>1, <2>2, <2>3, PassResting
  <2>5. /\ AskInv'
        /\ responder' \in [Responders -> [pc : {"idle", "receipt", "record", "log", "sync"}, tx : Nat]]
        /\ \A s \in Responders : responder'[s].pc # "idle" => responder'[s] = responder[s]
    <3>1. CASE UNCHANGED responder
      BY <1>1, <2>1, <3>1, AskUntouched
    <3>2. CASE responder' = [responder EXCEPT ![p] = NotResponding]
      BY <2>1, <3>2, AskEnds
    <3> QED
      BY <2>1, <3>1, <3>2
  <2> QED
    BY <1>1, <2>1, <2>2, <2>4, <2>5, PassKeeps
<1> QED
  BY <1>2, <1>3, <1>4, <1>5, <1>6

\* It handles the log.
LEMMA HandleKeeps == ASSUME EmergencyInv, NEW p \in Readers, HandleEvent(p) PROVE EmergencyInv'
<1> DEFINE event == events[Held(p)].what
<1>1. /\ reader[p].pc = "handle" /\ NextEvent(p)
      /\ UNCHANGED <<contract, events, recorded, txs, actions, responder, disturbed>>
      /\ escrowRow' = Indexed(event, escrowRow)
      /\ IF Revokes(event) THEN RevokeByEscrow ELSE UNCHANGED dctToken
      /\ EmergencyTypeOK /\ AskInv /\ PassInv /\ SpeakerInv /\ CloseInv
      /\ FlagFollows("freeze_escrow", "unfreeze_escrow", "frozen")
      /\ FlagFollows("freeze_address", "unfreeze_address", "barred")
  BY DEF HandleEvent, ReaderAt, EmergencyInv, FlagInv
<1>2. Holds(p) /\ recorded' = recorded \cup {Held(p)}
  BY <1>1 DEF Holds, PassInv
<1>3. /\ PassInv' /\ reader' \in [Readers -> [pc : {"idle", "next", "record", "handle"}, to : Nat, log : Nat]]
      /\ Held(p) \in DOMAIN events
      /\ \A k \in DOMAIN events : k # Held(p) => (Handled(k)' => Handled(k))
      /\ \A k \in DOMAIN events : ~disturbed' /\ Older(Held(p), k) => ~Handled(k)'
  BY <1>1, <1>2, PassLeaves
<1>4. /\ dctToken' \in Seq(Token) /\ DOMAIN dctToken' = DOMAIN dctToken
      /\ \A t \in DOMAIN dctToken : dctToken[t].revoked = TRUE => dctToken'[t].revoked = TRUE
      /\ event \in Closed /\ escrowRow.status \notin Closed => AllRevoked'
  <2>1. CASE Revokes(event)
    BY <1>1, <2>1, RevokesAll DEF AllRevoked
  <2>2. CASE ~Revokes(event)
    BY <1>1, <2>2 DEF Revokes, EmergencyTypeOK
  <2> QED
    BY <2>1, <2>2
<1> HIDE DEF event
<1>5. /\ escrowRow' = [status |-> escrowRow'.status, frozen |-> escrowRow'.frozen, barred |-> escrowRow'.barred]
      /\ escrowRow'.frozen = Frozen(event, escrowRow.frozen)
      /\ escrowRow'.barred = Barred(event, escrowRow.barred)
      /\ escrowRow'.status = IF event = "emergency_resolve" THEN "resolved"
                             ELSE IF event \in StatusEvents /\ escrowRow.status \notin Closed THEN event
                             ELSE escrowRow.status
  BY <1>1 DEF Indexed
<1>6. /\ escrowRow'.frozen \in BOOLEAN /\ escrowRow'.barred \in BOOLEAN
      /\ event \in FreezeFlag => (escrowRow'.frozen = TRUE <=> event = "freeze_escrow")
      /\ event \notin FreezeFlag => escrowRow'.frozen = escrowRow.frozen
      /\ event \in AddressFlag => (escrowRow'.barred = TRUE <=> event = "freeze_address")
      /\ event \notin AddressFlag => escrowRow'.barred = escrowRow.barred
  BY <1>1, <1>5 DEF Frozen, Barred, Flags, EmergencyTypeOK, FreezeFlag, AddressFlag
<1>7. EmergencyTypeOK'
  BY <1>1, <1>3, <1>4, <1>5, <1>6 DEF EmergencyTypeOK
<1>8. AskInv'
  BY <1>1, AskUntouched
<1>9. SpeakerInv'
  BY <1>1 DEF SpeakerInv
<1>10. contract.frozen \in BOOLEAN /\ contract.barred \in BOOLEAN
  BY <1>1 DEF EmergencyTypeOK
<1>11. \A k \in DOMAIN events : k # Held(p) /\ ~Handled(k) => ~Handled(k)'
  BY <1>3
<1>12. FlagFollows("freeze_escrow", "unfreeze_escrow", "frozen")'
  <2>1. CASE event \in FreezeFlag
    BY <1>1, <1>3, <1>6, <1>10, <2>1, FlagHandled DEF FreezeFlag, event
  <2>2. CASE event \notin FreezeFlag
    BY <1>1, <1>6, <1>11, <2>2, FlagPasses DEF FreezeFlag, event
  <2> QED
    BY <2>1, <2>2
<1>13. FlagFollows("freeze_address", "unfreeze_address", "barred")'
  <2>1. CASE event \in AddressFlag
    BY <1>1, <1>3, <1>6, <1>10, <2>1, FlagHandled DEF AddressFlag, event
  <2>2. CASE event \notin AddressFlag
    BY <1>1, <1>6, <1>11, <2>2, FlagPasses DEF AddressFlag, event
  <2> QED
    BY <2>1, <2>2
<1>14. CloseInv'
  BY <1>1, <1>3, <1>4, <1>5, CloseHandled DEF event
<1> QED
  BY <1>3, <1>7, <1>8, <1>9, <1>12, <1>13, <1>14 DEF EmergencyInv, FlagInv

-----------------------------------------------------------------------------
\* The steps of the requests.

\* A request sends its transaction.
LEMMA SentKeeps ==
    ASSUME EmergencyInv, NEW r \in Responders, NEW action \in EmergencyActions,
           HandlerSends(r, action) \/ ToolSends(r, action)
    PROVE  EmergencyInv'
<1>1. EmergencyTypeOK /\ AskInv /\ PassInv /\ SpeakerInv /\ CloseInv
      /\ FlagFollows("freeze_escrow", "unfreeze_escrow", "frozen")
      /\ FlagFollows("freeze_address", "unfreeze_address", "barred")
  BY DEF EmergencyInv, FlagInv
<1>2. PICK door \in {"http", "mcp"}, next \in {"record", "receipt"} :
         (door = "mcp" => next = "receipt") /\ SendEmergency(r, action, door, next)
  BY DEF HandlerSends, ToolSends
<1>3. Admits(action) /\ UNCHANGED <<contract, events, recorded, reader, escrowRow, dctToken, actions>>
  BY <1>2 DEF SendEmergency
<1>4. /\ AskInv' /\ EmergencyTypeOK' /\ txs' \in Seq(Transaction)
      /\ Len(txs') = Len(txs) + 1
      /\ \A i \in DOMAIN txs : txs'[i] = txs[i]
      /\ txs'[Len(txs')].action = action /\ txs'[Len(txs')].outcome = "sent"
      /\ \A s \in Responders : s # r => responder'[s] = responder[s]
      /\ responder'[r].tx = Len(txs')
      /\ ~disturbed' => ~disturbed /\ \A s \in Responders : responder[s].pc = "idle"
  BY <1>2, AskSent DEF EmergencyTypeOK
<1>5. PassInv' /\ SpeakerInv'
  BY <1>1, <1>3, <1>4 DEF PassInv, SpeakerInv, Older, Holds, Held
<1>6. FlagFollows("freeze_escrow", "unfreeze_escrow", "frozen")'
  BY <1>1, <1>3, <1>4, FlagSent
<1>7. FlagFollows("freeze_address", "unfreeze_address", "barred")'
  BY <1>1, <1>3, <1>4, FlagSent
<1>8. CloseInv'
  <2>1. \A k \in DOMAIN events : Handled(k)' => Handled(k)
    BY <1>3 DEF Handled, Holds, Held
  <2> QED
    BY <1>1, <1>3, <1>4, <2>1, CloseWritten
<1> QED
  BY <1>4, <1>5, <1>6, <1>7, <1>8 DEF EmergencyInv, FlagInv

\* A request goes on, with what it writes.
LEMMA RequestKeeps ==
    ASSUME EmergencyInv, NEW r \in Responders, responder[r].pc # "idle",
           UNCHANGED <<contract, events, recorded, reader, txs, disturbed>>,
           NEW pc \in {"record", "log", "sync", "idle"},
           RespondNext(r, pc) \/ responder' = [responder EXCEPT ![r] = NotResponding],
           \/ pc \in {"record", "log"} /\ Tx(r).outcome = "done"
           \/ pc \in {"record", "log"} /\ responder[r].pc \in {"record", "log"}
           \/ pc = "sync"
           \/ responder' = [responder EXCEPT ![r] = NotResponding],
           actions' \in {actions, actions \cup {responder[r].tx}},
           actions' = actions \/ responder[r].pc \in {"record", "log"},
           dctToken' = dctToken \/ RevokeByEscrow,
           NEW status \in {escrowRow.status, "resolved"}, NEW frozen \in BOOLEAN, NEW barred \in BOOLEAN,
           escrowRow' = [status |-> status, frozen |-> frozen, barred |-> barred],
           \/ frozen = escrowRow.frozen
           \/ Tx(r).action \in FreezeFlag /\ (frozen = TRUE <=> Tx(r).action = "freeze_escrow"),
           \/ barred = escrowRow.barred
           \/ Tx(r).action \in AddressFlag /\ (barred = TRUE <=> Tx(r).action = "freeze_address")
    PROVE  EmergencyInv'
<1>1. EmergencyTypeOK /\ AskInv /\ PassInv /\ SpeakerInv /\ CloseInv
      /\ FlagFollows("freeze_escrow", "unfreeze_escrow", "frozen")
      /\ FlagFollows("freeze_address", "unfreeze_address", "barred")
  BY DEF EmergencyInv, FlagInv
<1>2. /\ AskInv'
      /\ responder' \in [Responders -> [pc : {"idle", "receipt", "record", "log", "sync"}, tx : Nat]]
      /\ \A s \in Responders : s # r => responder'[s] = responder[s]
  BY AskGoesOn
<1>3. responder'[r].pc # "idle" => responder'[r].tx = responder[r].tx
  BY <1>1 DEF RespondNext, NotResponding, EmergencyTypeOK
<1>4. /\ dctToken' \in Seq(Token) /\ DOMAIN dctToken' = DOMAIN dctToken
      /\ \A t \in DOMAIN dctToken : dctToken[t].revoked = TRUE => dctToken'[t].revoked = TRUE
  BY <1>1, RevokesAll DEF EmergencyTypeOK, AllRevoked
<1>5. /\ escrowRow' = [status |-> escrowRow'.status, frozen |-> escrowRow'.frozen, barred |-> escrowRow'.barred]
      /\ escrowRow'.status = status /\ escrowRow'.frozen = frozen /\ escrowRow'.barred = barred
  OBVIOUS
<1>6. EmergencyTypeOK'
  BY <1>1, <1>2, <1>4, <1>5 DEF EmergencyTypeOK
<1>7. contract.frozen \in BOOLEAN /\ contract.barred \in BOOLEAN
  BY <1>1 DEF EmergencyTypeOK
<1>8. FlagFollows("freeze_escrow", "unfreeze_escrow", "frozen")'
  BY <1>1, <1>2, <1>3, <1>5, <1>7, FlagWritten DEF FreezeFlag
<1>9. FlagFollows("freeze_address", "unfreeze_address", "barred")'
  BY <1>1, <1>2, <1>3, <1>5, <1>7, FlagWritten DEF AddressFlag
<1>10. CloseInv'
  <2>1. \A k \in DOMAIN events : Handled(k)' => Handled(k)
    BY DEF Handled, Holds, Held
  <2> QED
    BY <1>1, <1>4, <1>5, <2>1, CloseWritten
<1>11. PassInv' /\ SpeakerInv'
  BY <1>1 DEF PassInv, SpeakerInv, Older, Holds, Held
<1> QED
  BY <1>2, <1>6, <1>8, <1>9, <1>10, <1>11 DEF EmergencyInv, FlagInv

\* The statements of a request that waits or writes.
LEMMA ResponderKeeps ==
    ASSUME EmergencyInv, NEW r \in Responders,
           \/ AwaitReceipt(r) \/ LogAction(r) \/ RecordingFails(r)
           \/ FreezeEscrow(r) \/ EmergencyResolve(r) \/ UnfreezeEscrow(r)
           \/ FreezeAddress(r) \/ UnfreezeAddress(r)
    PROVE  EmergencyInv'
<1> DEFINE Row(status, frozen, barred) == [status |-> status, frozen |-> frozen, barred |-> barred]
           Unwritten == UNCHANGED <<contract, events, recorded, reader, txs, disturbed>>
           Done == responder' = [responder EXCEPT ![r] = NotResponding]
           Syncs == RespondNext(r, "sync")
<1>1. /\ escrowRow = Row(escrowRow.status, escrowRow.frozen, escrowRow.barred)
      /\ escrowRow.frozen \in BOOLEAN /\ escrowRow.barred \in BOOLEAN
  BY DEF EmergencyInv, EmergencyTypeOK
<1>2. /\ \A to : [escrowRow EXCEPT !.status = to] = Row(to, escrowRow.frozen, escrowRow.barred)
      /\ \A to : [escrowRow EXCEPT !.frozen = to] = Row(escrowRow.status, to, escrowRow.barred)
      /\ \A to : [escrowRow EXCEPT !.barred = to] = Row(escrowRow.status, escrowRow.frozen, to)
  <2> DEFINE a == escrowRow.status
             b == escrowRow.frozen
             c == escrowRow.barred
  <2>1. escrowRow = Row(a, b, c)
    BY <1>1
  <2> HIDE DEF a, b, c
  <2>2. \A to : /\ [Row(a, b, c) EXCEPT !.status = to] = Row(to, b, c)
                /\ [Row(a, b, c) EXCEPT !.frozen = to] = Row(a, to, c)
                /\ [Row(a, b, c) EXCEPT !.barred = to] = Row(a, b, to)
    OBVIOUS
  <2>3. \A to : /\ [escrowRow EXCEPT !.status = to] = Row(to, b, c)
                /\ [escrowRow EXCEPT !.frozen = to] = Row(a, to, c)
                /\ [escrowRow EXCEPT !.barred = to] = Row(a, b, to)
    BY <2>1, <2>2, Zenon
  <2> QED
    BY <2>3 DEF a, b, c
<1> HIDE DEF Row
<1>3. CASE AwaitReceipt(r)
  <2>1. /\ responder[r].pc # "idle" /\ Unwritten /\ actions' = actions /\ dctToken' = dctToken
        /\ escrowRow' = Row(escrowRow.status, escrowRow.frozen, escrowRow.barred)
        /\ (Tx(r).outcome = "done" /\ RespondNext(r, "record")) \/ Done
    BY <1>1, <1>3 DEF AwaitReceipt, Responding, Responded
  <2> QED
    BY <1>1, <2>1, RequestKeeps DEF Row
<1>4. CASE LogAction(r)
  <2>1. /\ responder[r].pc = "log" /\ Unwritten /\ actions' = actions \cup {responder[r].tx} /\ dctToken' = dctToken
        /\ escrowRow' = Row(escrowRow.status, escrowRow.frozen, escrowRow.barred) /\ Syncs
    BY <1>1, <1>4 DEF LogAction, CreateEmergencyAction, Responding, Responded
  <2> QED
    BY <1>1, <2>1, RequestKeeps DEF Row
<1>5. CASE RecordingFails(r)
  <2>1. /\ responder[r].pc # "idle" /\ Unwritten /\ actions' = actions /\ dctToken' = dctToken
        /\ escrowRow' = Row(escrowRow.status, escrowRow.frozen, escrowRow.barred) /\ Done
    BY <1>1, <1>5 DEF RecordingFails, Responding, Responded
  <2> QED
    BY <1>1, <2>1, RequestKeeps DEF Row
<1>6. CASE FreezeEscrow(r)
  <2>1. /\ responder[r].pc = "record" /\ Unwritten /\ actions' = actions \cup {responder[r].tx} /\ RevokeByEscrow
        /\ escrowRow' = Row(escrowRow.status, TRUE, escrowRow.barred) /\ Syncs
        /\ Tx(r).action = "freeze_escrow"
    BY <1>2, <1>6 DEF FreezeEscrow, Recording, RecordFreezeEscrowAndRevokeDCT, CreateEmergencyAction, Responding, Responded
  <2> QED
    BY <1>1, <2>1, RequestKeeps DEF Row, FreezeFlag
<1>7. CASE EmergencyResolve(r)
  <2>1. /\ responder[r].pc = "record" /\ Unwritten /\ actions' = actions \cup {responder[r].tx} /\ RevokeByEscrow
        /\ escrowRow' = Row("resolved", escrowRow.frozen, escrowRow.barred) /\ Syncs
    BY <1>2, <1>7 DEF EmergencyResolve, Recording, RecordEmergencyResolveAndRevokeDCT, CreateEmergencyAction, Responding, Responded
  <2> QED
    BY <1>1, <2>1, RequestKeeps DEF Row
<1>8. CASE UnfreezeEscrow(r)
  <2>1. /\ responder[r].pc = "record" /\ Unwritten /\ actions' = actions /\ dctToken' = dctToken
        /\ escrowRow' = Row(escrowRow.status, FALSE, escrowRow.barred) /\ RespondNext(r, "log")
        /\ Tx(r).action = "unfreeze_escrow"
    BY <1>2, <1>8 DEF UnfreezeEscrow, Recording, WritesRow, Responding
  <2> QED
    BY <1>1, <2>1, RequestKeeps DEF Row, FreezeFlag
<1>9. CASE FreezeAddress(r)
  <2>1. /\ responder[r].pc = "record" /\ Unwritten /\ actions' = actions /\ dctToken' = dctToken
        /\ escrowRow' = Row(escrowRow.status, escrowRow.frozen, TRUE) /\ RespondNext(r, "log")
        /\ Tx(r).action = "freeze_address"
    BY <1>2, <1>9 DEF FreezeAddress, Recording, WritesRow, Responding
  <2> QED
    BY <1>1, <2>1, RequestKeeps DEF Row, AddressFlag
<1>10. CASE UnfreezeAddress(r)
  <2>1. /\ responder[r].pc = "record" /\ Unwritten /\ actions' = actions /\ dctToken' = dctToken
        /\ escrowRow' = Row(escrowRow.status, escrowRow.frozen, FALSE) /\ RespondNext(r, "log")
        /\ Tx(r).action = "unfreeze_address"
    BY <1>2, <1>10 DEF UnfreezeAddress, Recording, WritesRow, Responding
  <2> QED
    BY <1>1, <2>1, RequestKeeps DEF Row, AddressFlag
<1> QED
  BY <1>3, <1>4, <1>5, <1>6, <1>7, <1>8, <1>9, <1>10

\* Of every behaviour.
LEMMA EmergencyAlways == EmergencySpec => []EmergencyInv
<1>1. EmergencyInv /\ [EmergencyStep]_allVars => EmergencyInv'
  <2> SUFFICES ASSUME EmergencyInv, [EmergencyStep]_allVars PROVE EmergencyInv'
    OBVIOUS
  <2>1. CASE MineEmergency
    <3>1. AskInv' /\ txs' \in Seq(Transaction)
      BY <2>1, AskMined
    <3>2. PICK i \in DOMAIN txs :
            /\ txs[i].outcome = "sent"
            /\ IF Admits(txs[i].action)
               THEN contract' = Effect(txs[i].action) /\ events' = events \o Tells(txs[i].action) /\ Outcome(i, "done")
               ELSE Outcome(i, "reverted") /\ UNCHANGED <<contract, events>>
            /\ UNCHANGED <<recorded, reader, escrowRow, dctToken, actions, responder, disturbed>>
      BY <2>1 DEF MineEmergency
    <3> QED
      BY <3>1, <3>2, MinedKeeps, RevertedKeeps
  <2>2. CASE PartiesAct
    BY <2>2, PartiesKeep
  <2>3. ASSUME NEW p \in Readers, PassStep(p) PROVE EmergencyInv'
    BY <2>3, PassGoesOn, HandleKeeps DEF PassStep
  <2>4. ASSUME NEW r \in Responders, NEW action \in EmergencyActions,
               HandlerSends(r, action) \/ ToolSends(r, action)
        PROVE  EmergencyInv'
    BY <2>4, SentKeeps
  <2>5. ASSUME NEW r \in Responders,
               \/ AwaitReceipt(r) \/ LogAction(r) \/ RecordingFails(r)
               \/ FreezeEscrow(r) \/ EmergencyResolve(r) \/ UnfreezeEscrow(r)
               \/ FreezeAddress(r) \/ UnfreezeAddress(r)
        PROVE  EmergencyInv'
    BY <2>5, ResponderKeeps
  <2>6. CASE UNCHANGED allVars
    BY <2>6 DEF allVars, tokenVars, emergencyVars, EmergencyInv, EmergencyTypeOK, AskInv, Tx, PassInv,
             SpeakerInv, Older, Holds, Held, Handled, FlagInv, FlagFollows, CloseInv, Spoken, AllRevoked
  <2> QED
    BY <2>1, <2>2, <2>3, <2>4, <2>5, <2>6 DEF EmergencyStep, EmergencyNext
<1> QED
  BY <1>1, EmergencyInits, PTL DEF EmergencySpec, allVars

\* ToolActionsMined: whatever fails or overtakes it, an MCP tool records only
\* what the chain has done (WaitMined before CreateEmergencyAction); the HTTP
\* handlers do not have this property.
THEOREM ToolsRecordMined == EmergencySpec => []ToolActionsMined
<1>1. EmergencyInv => ToolActionsMined
  BY DEF EmergencyInv, AskInv, ToolActionsMined
<1> QED
  BY <1>1, EmergencyAlways, PTL

\* RowFollowsChain, for any number of requests, transactions and passes: the
\* handlers' own writes, the passes they run and the ticker's leave the chain's
\* flags and, once the escrow is closed, a closed row without live tokens
\* (FreezeEscrow, EmergencyResolve, RunOnce, ProcessEscrowLog), unless a pass has
\* outrun another or dropped an event, or requests came too soon.
THEOREM RowAlwaysFollows == EmergencySpec => []RowFollowsChain
<1>1. ASSUME EmergencyInv PROVE RowFollowsChain
  <2> SUFFICES ASSUME EmergencyQuiet, ~disturbed
               PROVE  /\ escrowRow.frozen = contract.frozen /\ escrowRow.barred = contract.barred
                      /\ contract.status \in Closed =>
                            /\ escrowRow.status \in InactiveStatuses
                            /\ \A t \in DOMAIN dctToken : dctToken[t].revoked
    BY DEF RowFollowsChain
  <2>1. /\ \A i \in DOMAIN txs : txs[i].outcome # "sent"
        /\ \A k \in DOMAIN events : Handled(k)
    BY DEF EmergencyQuiet, Handled
  <2>2. escrowRow.frozen = contract.frozen /\ escrowRow.barred = contract.barred
    BY <1>1, <2>1 DEF EmergencyInv, FlagInv, FlagFollows
  <2>3. contract.status \in Closed => escrowRow.status \in InactiveStatuses /\ AllRevoked
    BY <1>1, <2>1 DEF EmergencyInv, CloseInv
  <2>4. contract.status \in Closed => \A t \in DOMAIN dctToken : dctToken[t].revoked
    <3>1. ASSUME NEW b, b = TRUE PROVE b
      BY <3>1
    <3> QED
      BY <2>3, <3>1, Zenon DEF AllRevoked
  <2> QED
    BY <2>2, <2>3, <2>4
<1> QED
  BY <1>1, EmergencyAlways, PTL
=============================================================================
