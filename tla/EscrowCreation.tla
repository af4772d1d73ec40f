--------------------------- MODULE EscrowCreation ---------------------------
\* How a request becomes one escrow: Service.CreateEscrow, which several request
\* handlers may run for the same request (the same create intent) at a time, the
\* client that signs its transaction with the server's key, the node that mines
\* it, and the indexer, which may enter the escrow first.  A step of a caller is
\* one database statement, one call of the node, or the answer.
EXTENDS Naturals, FiniteSets

CONSTANTS
    Callers,  \* the handlers of requests with this intent
    Creates,  \* the hashes createEscrow transactions can have
    Other,    \* a transaction the same key sends for something else
    NoTx,
    MaxNonce, MaxStops  \* bounds: nonces of the key, requests and servers that stop

ASSUME CreationAssumption ==
    /\ MaxNonce \in Nat /\ MaxStops \in Nat
    /\ Other \notin Creates /\ NoTx \notin Creates /\ Other # NoTx

VARIABLES
    record,    \* the row of the intent: status, create_tx_hash, escrow_address;
               \* a transaction stands for the escrow it creates
    indexed,   \* the escrows the indexer has entered by itself
    caller,    \* what each caller is at, the hash it holds, and its last answer
    slot,      \* the node: the key's transaction at each nonce
    pending,   \* how many of the nonces it has seen
    mined,     \* how many of them are mined
    reverted,  \* those that reverted
    nonce,     \* the client's next nonce, 0 before it asked (nonceOK)
    misreported, \* the createEscrow transactions the node took with an error
    stops      \* how often a request or the server stopped

serviceVars == <<record, caller>>
nodeVars == <<slot, pending, mined, reverted>>
vars == <<serviceVars, indexed, nodeVars, nonce, misreported, stops>>

Nonces == 1..MaxNonce

\* The status of the row; "later" is any the indexer gives it afterwards.
Statuses == {"none", "pending", "submitting", "pending_confirmation", "created", "later"}
Final == {"created", "later"}

NoRecord == [status |-> "none", tx |-> NoTx, address |-> NoTx]
IdleCaller == [pc |-> "idle", tx |-> NoTx, answer |-> NoTx]

Init ==
    /\ record = NoRecord /\ indexed = {}
    /\ caller = [c \in Callers |-> IdleCaller]
    /\ slot = [n \in Nonces |-> NoTx] /\ pending = 0 /\ mined = 0 /\ reverted = {}
    /\ nonce = 0 /\ misreported = {} /\ stops = 0

-----------------------------------------------------------------------------
\* The node and the client.

Sent(t) == \E n \in Nonces : slot[n] = t
Mined(t) == \E n \in Nonces : n <= mined /\ slot[n] = t

\* sendTxLocked asks for the next nonce (PendingNonceAt) before the first
\* transaction, and when the node finds the nonce too low.
SendNonce == IF nonce = 0 \/ nonce <= mined THEN pending + 1 ELSE nonce

\* The node takes transaction t at the nonce; one that waits there is replaced,
\* which takes a higher gas price.
Taken(t) ==
    /\ SendNonce \in Nonces
    /\ t \in Creates => ~Sent(t)
    /\ slot' = [slot EXCEPT ![SendNonce] = t]
    /\ pending' = IF SendNonce > pending THEN SendNonce ELSE pending

\* The same transaction waits at the nonce already: "already known".
AlreadyKnown(t) == SendNonce \in Nonces /\ slot[SendNonce] = t

\* Another handler sends something else; the node may answer with an error
\* although it takes the transaction.
OtherTx ==
    /\ Taken(Other)
    /\ misreported' = misreported \ {slot[SendNonce]}
    /\ nonce' \in {SendNonce, SendNonce + 1}
    /\ UNCHANGED <<serviceVars, indexed, mined, reverted, stops>>

Mine ==
    /\ mined < pending /\ slot[mined + 1] # NoTx
    /\ mined' = mined + 1
    /\ reverted' \in {reverted, reverted \cup {slot[mined + 1]}}
    /\ UNCHANGED <<serviceVars, indexed, slot, pending, nonce, misreported, stops>>

-----------------------------------------------------------------------------
\* CreateEscrow, from its first database statement on.

At(c, pc) == caller[c].pc = pc
Goto(c, pc, t) == caller' = [caller EXCEPT ![c].pc = pc, ![c].tx = t]
Fails(c) == Goto(c, "idle", NoTx)
Answers(c, t) == caller' = [caller EXCEPT ![c] = [pc |-> "idle", tx |-> NoTx, answer |-> t]]

ServiceOnly == UNCHANGED <<indexed, nodeVars, nonce, misreported, stops>>

\* What CreateEscrow does next with the row it has read: a created escrow is the
\* answer, a hash is resumed.
Continue(c) ==
    IF record.status = "created" THEN Answers(c, record.address)
    ELSE IF record.tx # NoTx THEN Goto(c, "wait", record.tx)
    ELSE Goto(c, "submit", NoTx)

\* GetEscrowByCreateIntentID.
Lookup(c) ==
    /\ At(c, "idle")
    /\ IF record.status = "none" THEN Goto(c, "insert", NoTx) ELSE Continue(c)
    /\ UNCHANGED record /\ ServiceOnly

\* CreateEscrowTx: the intent is unique, and who comes second begins again with
\* the lookup.
Insert(c) ==
    /\ At(c, "insert")
    /\ IF record.status = "none"
       THEN /\ record' = [NoRecord EXCEPT !.status = "pending"]
            /\ Goto(c, "submit", NoTx)
       ELSE UNCHANGED record /\ Fails(c)
    /\ ServiceOnly

BuggySubmit(c) ==  \* the row is not compared before it is set
    /\ At(c, "submit")
    /\ record' = [record EXCEPT !.status = "submitting"]
    /\ Goto(c, "send", NoTx)
    /\ ServiceOnly

\* TransitionEscrowStatus: who turns "pending" into "submitting" sends.
Submit(c) ==
    /\ At(c, "submit")
    /\ IF record.status = "pending"
       THEN /\ record' = [record EXCEPT !.status = "submitting"]
            /\ Goto(c, "send", NoTx)
       ELSE UNCHANGED record /\ Goto(c, "conflict", NoTx)
    /\ ServiceOnly

\* The others read the row again, for a hash to wait for.
Conflict(c) ==
    /\ At(c, "conflict")
    /\ IF record.tx = NoTx THEN Fails(c) ELSE Goto(c, "wait", record.tx)
    /\ UNCHANGED record /\ ServiceOnly

BuggySend(c) ==  \* the nonce is not counted
    \E t \in Creates :
        /\ At(c, "send")
        /\ Taken(t)
        /\ misreported' = misreported \ {slot[SendNonce]}
        /\ nonce' = SendNonce
        /\ Goto(c, "persist", t)
        /\ UNCHANGED <<record, indexed, mined, reverted, stops>>

Send(c) ==
    \E t \in Creates :
        /\ At(c, "send")
        /\ \/ Taken(t) /\ misreported' = misreported \ {slot[SendNonce]}
           \/ AlreadyKnown(t) /\ UNCHANGED <<slot, pending>> /\ misreported' = misreported \ {t}
        /\ nonce' = SendNonce + 1
        /\ Goto(c, "persist", t)
        /\ UNCHANGED <<record, indexed, mined, reverted, stops>>

\* Nothing was sent; the nonce may have been asked for.
SendFails(c) ==
    /\ At(c, "send")
    /\ nonce' \in {nonce, SendNonce}
    /\ Goto(c, "reset", NoTx)
    /\ UNCHANGED <<record, indexed, nodeVars, misreported, stops>>

\* The node took the transaction, and the answer got lost.
SendMisreported(c) ==
    \E t \in Creates :
        /\ At(c, "send")
        /\ Taken(t)
        /\ misreported' = (misreported \ {slot[SendNonce]}) \cup {t}
        /\ nonce' = SendNonce
        /\ Goto(c, "reset", NoTx)
        /\ UNCHANGED <<record, indexed, mined, reverted, stops>>

\* UpdateEscrowStatus, whatever the row says.
Reset(c) ==
    /\ At(c, "reset")
    /\ record' = [record EXCEPT !.status = "pending"]
    /\ Fails(c)
    /\ ServiceOnly

BuggyPersist(c) ==  \* the row's status is not moved on
    /\ At(c, "persist")
    /\ IF record.status = "submitting"
       THEN /\ record' = [record EXCEPT !.tx = caller[c].tx]
            /\ Goto(c, "wait", caller[c].tx)
       ELSE UNCHANGED record /\ Fails(c)
    /\ ServiceOnly

\* SetEscrowCreateTxHash.
Persist(c) ==
    /\ At(c, "persist")
    /\ IF record.status = "submitting"
       THEN /\ record' = [record EXCEPT !.status = "pending_confirmation", !.tx = caller[c].tx]
            /\ Goto(c, "wait", caller[c].tx)
       ELSE UNCHANGED record /\ Fails(c)
    /\ ServiceOnly

\* WaitMinedAndParseEscrow.
Receipt(c) ==
    /\ At(c, "wait") /\ Mined(caller[c].tx)
    /\ IF caller[c].tx \in reverted THEN Fails(c) ELSE Goto(c, "finalize", caller[c].tx)
    /\ UNCHANGED record /\ ServiceOnly

NoReceipt(c) ==
    /\ At(c, "wait") /\ ~Mined(caller[c].tx)
    /\ Fails(c)
    /\ UNCHANGED record /\ ServiceOnly

BuggyFinalize(c) ==  \* the status of the row does not matter
    /\ At(c, "finalize")
    /\ IF caller[c].tx \in indexed
       THEN UNCHANGED record /\ Fails(c)
       ELSE /\ record' = [record EXCEPT !.status = "created", !.address = caller[c].tx]
            /\ Answers(c, caller[c].tx)
    /\ ServiceOnly

\* FinalizeEscrowCreateTx and the milestones, in one transaction; the address
\* is unique.
Finalize(c) ==
    /\ At(c, "finalize")
    /\ IF record.status # "pending_confirmation"
       THEN UNCHANGED record /\ Goto(c, "reload", NoTx)
       ELSE IF caller[c].tx \in indexed
       THEN UNCHANGED record /\ Fails(c)
       ELSE /\ record' = [record EXCEPT !.status = "created", !.address = caller[c].tx]
            /\ Answers(c, caller[c].tx)
    /\ ServiceOnly

\* Another caller finalized the row first.
Reload(c) ==
    /\ At(c, "reload")
    /\ IF record.status = "created" THEN Answers(c, record.address) ELSE Fails(c)
    /\ UNCHANGED record /\ ServiceOnly

\* The caller's client goes away, or the database fails it: its context ends.
GivesUp(c) ==
    /\ ~At(c, "idle")
    /\ stops < MaxStops /\ stops' = stops + 1
    /\ Fails(c)
    /\ UNCHANGED <<record, indexed, nodeVars, nonce, misreported>>

Step(c) ==
    \/ Lookup(c) \/ Insert(c) \/ Submit(c) \/ Conflict(c) \/ Send(c) \/ SendFails(c)
    \/ SendMisreported(c) \/ Reset(c) \/ Persist(c) \/ Receipt(c) \/ NoReceipt(c)
    \/ Finalize(c) \/ Reload(c)

-----------------------------------------------------------------------------
\* The rest of the server.

\* handleEscrowCreated: an escrow whose address no row has.
IndexerInserts(t) ==
    /\ Mined(t) /\ t \notin reverted
    /\ record.address # t /\ t \notin indexed
    /\ indexed' = indexed \cup {t}
    /\ UNCHANGED <<serviceVars, nodeVars, nonce, misreported, stops>>

\* The indexer follows the escrow's events.
StatusMoves ==
    /\ record.status = "created"
    /\ record' = [record EXCEPT !.status = "later"]
    /\ UNCHANGED <<caller, indexed, nodeVars, nonce, misreported, stops>>

Restart ==
    /\ stops < MaxStops /\ stops' = stops + 1
    /\ caller' = [c \in Callers |-> [IdleCaller EXCEPT !.answer = caller[c].answer]]
    /\ nonce' = 0
    /\ UNCHANGED <<record, indexed, nodeVars, misreported>>

Next ==
    \/ \E c \in Callers : Step(c) \/ GivesUp(c)
    \/ \E t \in Creates : IndexerInserts(t)
    \/ OtherTx \/ Mine \/ StatusMoves \/ Restart

Spec == Init /\ [][Next]_vars

\* The node goes on mining, and a client repeats its request until it has an
\* answer.
Fairness == WF_vars(Mine) /\ \A c \in Callers : WF_vars(Step(c))

FairSpec == Spec /\ Fairness

-----------------------------------------------------------------------------
\* Properties.

TypeOK ==
    /\ record \in [status : Statuses, tx : Creates \cup {NoTx}, address : Creates \cup {NoTx}]
    /\ indexed \subseteq Creates /\ misreported \subseteq Creates
    /\ caller \in [Callers -> [pc : {"idle", "insert", "submit", "conflict", "send", "reset",
                                     "persist", "wait", "finalize", "reload"},
                               tx : Creates \cup {NoTx}, answer : Creates \cup {NoTx}]]
    /\ slot \in [Nonces -> Creates \cup {Other, NoTx}]
    /\ pending \in 0..MaxNonce /\ mined \in 0..pending /\ reverted \subseteq Creates \cup {Other}
    /\ nonce \in 0..MaxNonce + 1 /\ stops \in 0..MaxStops

\* However many callers bring the request, and wherever they or the server
\* stop, the intent has one escrow: a second createEscrow transaction is sent only
\* after the node answered the first with an error (TransitionEscrowStatus, and
\* the hash that is resumed).
OneEscrowPerIntent ==
    \A t, u \in Creates : Sent(t) /\ Sent(u) /\ t # u => t \in misreported \/ u \in misreported

\* The hash in the row is of a transaction the node holds: nothing the key sends
\* later takes its nonce (sendTxLocked), so the row can still be finalized.
RecordedTxKept == record.tx # NoTx => Sent(record.tx)

\* Every caller who gets an answer gets the escrow of the row, which is mined.
AnswersAgree ==
    \A c \in Callers : LET t == caller[c].answer
                       IN  t # NoTx => /\ record.address = t /\ record.tx = t
                                       /\ Mined(t) /\ t \notin reverted \cup indexed

\* A row that was finalized keeps its escrow, and no caller who is late sets its
\* status back (FinalizeEscrowCreateTx).
FinalizedForGood ==
    [][record.status \in Final =>
         /\ record'.address = record.address
         /\ record'.status \in IF record.status = "later" THEN {"later"} ELSE Final]_vars

\* A request whose hash was persisted can be resumed: repeated, it ends in a
\* created escrow, unless the transaction reverted or the indexer took the address.
ResumeCompletes ==
    (record.tx # NoTx) ~>
        (record.status \in Final \/ record.tx \in reverted \/ record.tx \in indexed)
=============================================================================
