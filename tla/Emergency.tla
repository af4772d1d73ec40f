----------------------------- MODULE Emergency -----------------------------
\* The owner's emergency powers as the server exercises them: the HTTP handlers
\* (internal/api/handlers.go) and the MCP tools (internal/mcpserver/tools.go)
\* send a transaction to the factory, write the database themselves, and run the
\* indexer once more (RunOnce), beside the ticker's own passes; the indexer writes
\* the same row from the chain's events.  An HTTP handler writes once the
\* transaction is sent, a tool once it is mined.
\* One escrow of a single milestone, whose row is there, and one watched address;
\* the texts of reasons are left out.
EXTENDS DelegationTokens, FiniteSetsExt

CONSTANTS
    Responders,      \* emergency requests that may be under way at a time
    Poller,          \* the indexer's ticker
    MaxTransactions  \* bound

Readers == {Poller} \cup Responders

ASSUME EmergencyAssumption == MaxTransactions \in Nat /\ Poller \notin Responders

VARIABLES
    contract,   \* the escrow on the chain, and whether the address is frozen there
    events,     \* what the chain has told, oldest first
    recorded,   \* the events in chain_logs
    reader,     \* what each pass of the indexer is at: the ticker's, the requests'
    txs,        \* the emergency transactions in the order of their nonces
    actions,    \* emergency_actions: the transactions that were recorded
    responder,  \* what each request is at
    disturbed   \* a request began before another's end or before its transaction was
                \* mined, a pass outran another or dropped an event, or others write

emergencyVars == <<contract, events, recorded, reader, txs, actions, responder, disturbed>>

Closed == {"settled", "refunded"}
StatusEvents == {"submitted"} \cup Closed

NotResponding == [pc |-> "idle", tx |-> 0]
NotReading == [pc |-> "idle", to |-> 0, log |-> 0]

\* Beside TokensInit, or with a token that was minted before.
EmergencyInit ==
    /\ contract = [status |-> "funded", frozen |-> FALSE, barred |-> FALSE]
    /\ events = << >> /\ recorded = {}
    /\ reader = [p \in Readers |-> NotReading]
    /\ txs = << >> /\ actions = {}
    /\ responder = [r \in Responders |-> NotResponding]

OneToken ==
    /\ disturbed = FALSE /\ escrowRow = contract /\ clock = 0
    /\ \E g \in Grants : dctToken = <<Issue(0, Buyer, Buyer, g, Buyer)>>
    /\ dctRequest = [q \in TokenRequests \cup Revocations |-> NoRequest]

Responding(r, pc) == responder[r].pc = pc
RespondNext(r, pc) == responder' = [responder EXCEPT ![r] = [pc |-> pc, tx |-> responder[r].tx]]
Responded(r) == responder' = [responder EXCEPT ![r] = NotResponding]
Tx(r) == txs[responder[r].tx]
Outcome(i, outcome) ==
    txs' = [txs EXCEPT ![i] = [action |-> txs[i].action, door |-> txs[i].door, outcome |-> outcome]]

-----------------------------------------------------------------------------
\* The chain.

\* The contracts' guards: setFrozen and the list of frozen addresses take a repeat.
Admits(action) ==
    action = "emergency_resolve" => contract.frozen /\ contract.status \notin Closed

EmergencyActions == {"freeze_escrow", "unfreeze_escrow", "emergency_resolve",
                     "freeze_address", "unfreeze_address"}

\* What an action, or the event of it, says of a flag, and of nothing else.
Flags(what, on, off, flag) == IF what \in {on, off} THEN what = on ELSE flag
Frozen(what, flag) == Flags(what, "freeze_escrow", "unfreeze_escrow", flag)
Barred(what, flag) == Flags(what, "freeze_address", "unfreeze_address", flag)

Effect(action) ==
    [status |-> IF action = "emergency_resolve" THEN "settled" ELSE contract.status,
     frozen |-> Frozen(action, contract.frozen), barred |-> Barred(action, contract.barred)]

Event(contractName, what) == [from |-> contractName, what |-> what]

\* The events of both contracts.
Tells(action) ==
    CASE action \in {"freeze_escrow", "unfreeze_escrow"} ->
            <<Event("escrow", action), Event("factory", action)>>
      [] action = "emergency_resolve" ->
            <<Event("escrow", action), Event("escrow", "settled"), Event("factory", action)>>
      [] OTHER -> <<Event("factory", action)>>

\* Transactions of one key are mined in the order of their nonces; one whose
\* guard fails by then is mined and reverts.
MineEmergency ==
    \E i \in DOMAIN txs :
        /\ txs[i].outcome = "sent"
        /\ \A j \in 1..i - 1 : txs[j].outcome # "sent"
        /\ IF Admits(txs[i].action)
           THEN /\ contract' = Effect(txs[i].action)
                /\ events' = events \o Tells(txs[i].action)
                /\ Outcome(i, "done")
           ELSE Outcome(i, "reverted") /\ UNCHANGED <<contract, events>>
        /\ UNCHANGED <<recorded, reader, escrowRow, dctToken, actions, responder, disturbed>>

\* The parties go on: work is submitted and settled unless the escrow is frozen,
\* a timeout is claimed in any case.
PartiesAct ==
    /\ contract.status \notin Closed
    /\ \E status \in StatusEvents :
          /\ status # contract.status
          /\ status # "refunded" => ~contract.frozen
          /\ contract' = [contract EXCEPT !.status = status]
          /\ events' = Append(events, Event("escrow", status))
    /\ UNCHANGED <<recorded, reader, escrowRow, dctToken, txs, actions, responder, disturbed>>

-----------------------------------------------------------------------------
\* The indexer (module Indexer has its statements one by one, and its errors).  A
\* pass looks at the logs up to the newest when it began: the factory's first, then
\* the escrow's, oldest first, those left out that are recorded.  All up to the
\* cursor are.

ReaderAt(p, pc) == reader[p].pc = pc
ReaderGoto(p, pc, k) == reader' = [reader EXCEPT ![p] = [pc |-> pc, to |-> reader[p].to, log |-> k]]
NextEvent(p) == ReaderGoto(p, "next", 0)

\* The event that a pass has taken, and not handled to the end.
Holds(p) == reader[p].pc \in {"record", "handle"}
Held(p) == reader[p].log

Unrecorded(p, contractName) ==
    {k \in DOMAIN events : k <= reader[p].to /\ events[k].from = contractName /\ k \notin recorded}

\* BlockNumber: at a tick, or at the end of a request.
PassBegins(p) ==
    /\ ReaderAt(p, "idle")
    /\ p \in Responders => Responding(p, "sync")
    /\ reader' = [reader EXCEPT ![p] = [pc |-> "next", to |-> Len(events), log |-> 0]]
    /\ UNCHANGED <<contract, events, recorded, escrowRow, dctToken, txs, actions, responder, disturbed>>

\* ChainLogExists says that the next log has not been recorded.
TakeEvent(p) ==
    LET factoryLogs == Unrecorded(p, "factory")
        todo == IF factoryLogs # {} THEN factoryLogs ELSE Unrecorded(p, "escrow")
    IN  /\ ReaderAt(p, "next") /\ todo # {}
        /\ ReaderGoto(p, "record", Min(todo))
        /\ UNCHANGED <<contract, events, recorded, escrowRow, dctToken, txs, actions, responder, disturbed>>

\* Another pass is still at an older event of the same contract.
Outruns(p) ==
    \E q \in Readers :
        Holds(q) /\ Held(q) < Held(p) /\ events[Held(q)].from = events[Held(p)].from

\* CreateChainLog, whether or not another pass has recorded the log since.
RecordEvent(p) ==
    /\ ReaderAt(p, "record")
    /\ recorded' = recorded \cup {Held(p)}
    /\ disturbed' = (disturbed \/ Outruns(p))
    /\ ReaderGoto(p, "handle", Held(p))
    /\ UNCHANGED <<contract, events, escrowRow, dctToken, txs, actions, responder>>

\* Terminal statuses are kept from status events only.  The row is read and
\* written at once: a pass that writes the status in between has outrun this one.
Indexed(event, row) ==
    [status |-> IF event = "emergency_resolve" THEN "resolved"
                ELSE IF event \in StatusEvents /\ row.status \notin Closed THEN event
                ELSE row.status,
     frozen |-> Frozen(event, row.frozen), barred |-> Barred(event, row.barred)]

\* Whether the escrow's tokens are revoked with the event, in a statement after it.
Revokes(event) ==
    event = "emergency_resolve" \/ (event \in Closed /\ escrowRow.status \notin Closed)

\* UpdateEscrowStatus, UpdateEscrowFrozen or the frozen_addresses row.
HandleEvent(p) ==
    LET event == events[Held(p)].what
    IN  /\ ReaderAt(p, "handle")
        /\ escrowRow' = Indexed(event, escrowRow)
        /\ IF Revokes(event) THEN RevokeByEscrow ELSE UNCHANGED dctToken
        /\ NextEvent(p)
        /\ UNCHANGED <<contract, events, recorded, txs, actions, responder, disturbed>>

\* A statement fails, and the pass goes on with the next log: an event that is
\* recorded is never handled again, and one that is not will be behind the cursor.
EventDropped(p) ==
    /\ Holds(p)
    /\ recorded' = recorded \cup {Held(p)}
    /\ disturbed' = TRUE
    /\ NextEvent(p)
    /\ UNCHANGED <<contract, events, escrowRow, dctToken, txs, actions, responder>>

\* SetCursor after the last log, or an error before it; a request's answer tells
\* which.
PassEnds(p) ==
    /\ ReaderAt(p, "next")
    /\ reader' = [reader EXCEPT ![p] = NotReading]
    /\ IF p = Poller THEN UNCHANGED responder ELSE Responded(p)
    /\ UNCHANGED <<contract, events, recorded, escrowRow, dctToken, txs, actions, disturbed>>

PassStep(p) ==
    \/ PassBegins(p) \/ TakeEvent(p) \/ RecordEvent(p) \/ HandleEvent(p)
    \/ EventDropped(p) \/ PassEnds(p)

-----------------------------------------------------------------------------
\* A request: the escrow is looked up and the transaction sent; the estimate of
\* its gas refuses what the chain would revert now.
SendEmergency(r, action, door, next) ==
    /\ Responding(r, "idle") /\ Len(txs) < MaxTransactions
    /\ Admits(action)
    /\ txs' = Append(txs, [action |-> action, door |-> door, outcome |-> "sent"])
    /\ responder' = [responder EXCEPT ![r] = [pc |-> next, tx |-> Len(txs) + 1]]
    /\ disturbed' = (\/ disturbed
                     \/ \E s \in Responders : ~Responding(s, "idle")
                     \/ \E i \in DOMAIN txs : txs[i].outcome = "sent")
    /\ UNCHANGED <<contract, events, recorded, reader, escrowRow, dctToken, actions>>

\* An HTTP handler goes on to write as soon as the transaction is sent.
HandlerSends(r, action) == SendEmergency(r, action, "http", "record")

\* A tool waits for it first.
ToolSends(r, action) == SendEmergency(r, action, "mcp", "receipt")

\* WaitMined, and the status of the receipt.
AwaitReceipt(r) ==
    /\ Responding(r, "receipt") /\ Tx(r).outcome # "sent"
    /\ IF Tx(r).outcome = "done" THEN RespondNext(r, "record") ELSE Responded(r)
    /\ UNCHANGED <<contract, events, recorded, reader, escrowRow, dctToken, txs, actions, disturbed>>

Recording(r, action) ==
    /\ Responding(r, "record") /\ Tx(r).action = action
    /\ UNCHANGED <<contract, events, recorded, reader, txs, disturbed>>

\* CreateEmergencyAction; RunOnce comes next.
CreateEmergencyAction(r) == actions' = actions \cup {responder[r].tx} /\ RespondNext(r, "sync")

\* The flag, the tokens and the action in one database transaction.
RecordFreezeEscrowAndRevokeDCT(r) ==
    /\ escrowRow' = [escrowRow EXCEPT !.frozen = TRUE]
    /\ RevokeByEscrow
    /\ CreateEmergencyAction(r)

\* The same for the status, whatever the row says by now.
RecordEmergencyResolveAndRevokeDCT(r) ==
    /\ escrowRow' = [escrowRow EXCEPT !.status = "resolved"]
    /\ RevokeByEscrow
    /\ CreateEmergencyAction(r)

FreezeEscrow(r) == Recording(r, "freeze_escrow") /\ RecordFreezeEscrowAndRevokeDCT(r)
EmergencyResolve(r) == Recording(r, "emergency_resolve") /\ RecordEmergencyResolveAndRevokeDCT(r)

\* The other three write the row first and the action in a second statement.
WritesRow(r, row) ==
    /\ escrowRow' = row
    /\ RespondNext(r, "log")
    /\ UNCHANGED <<dctToken, actions>>

BuggyUnfreezeEscrow(r) ==  \* the flag is written as it is for a freeze
    Recording(r, "unfreeze_escrow") /\ WritesRow(r, [escrowRow EXCEPT !.frozen = TRUE])

UnfreezeEscrow(r) ==
    Recording(r, "unfreeze_escrow") /\ WritesRow(r, [escrowRow EXCEPT !.frozen = FALSE])

FreezeAddress(r) ==
    Recording(r, "freeze_address") /\ WritesRow(r, [escrowRow EXCEPT !.barred = TRUE])

UnfreezeAddress(r) ==
    Recording(r, "unfreeze_address") /\ WritesRow(r, [escrowRow EXCEPT !.barred = FALSE])

LogAction(r) ==
    /\ Responding(r, "log")
    /\ CreateEmergencyAction(r)
    /\ UNCHANGED <<contract, events, recorded, reader, escrowRow, dctToken, txs, disturbed>>

\* The receipt is not found in time, a statement fails, or RunOnce does at its
\* start: the transaction stays sent (writeEmergencyRecordingError).
RecordingFails(r) ==
    /\ ~Responding(r, "idle") /\ ReaderAt(r, "idle")
    /\ Responded(r)
    /\ UNCHANGED <<contract, events, recorded, reader, escrowRow, dctToken, txs, actions, disturbed>>

EmergencyNext ==
    \/ MineEmergency \/ PartiesAct
    \/ \E p \in Readers : PassStep(p)
    \/ \E r \in Responders :
          \/ \E action \in EmergencyActions : HandlerSends(r, action) \/ ToolSends(r, action)
          \/ AwaitReceipt(r)
          \/ FreezeEscrow(r) \/ EmergencyResolve(r) \/ UnfreezeEscrow(r)
          \/ FreezeAddress(r) \/ UnfreezeAddress(r)
          \/ LogAction(r) \/ RecordingFails(r)

EmergencyStep == EmergencyNext /\ UNCHANGED <<clock, dctRequest>>

EmergencySpec == EmergencyInit /\ OneToken /\ [][EmergencyStep]_<<tokenVars, emergencyVars>>

-----------------------------------------------------------------------------
\* Properties.

\* What a tool has recorded has happened on the chain (the tools wait for the
\* receipt and look at its status; the HTTP handlers do neither).
ToolActionsMined ==
    \A i \in actions : txs[i].door = "mcp" => txs[i].outcome = "done"

EmergencyQuiet ==
    /\ \A r \in Responders : Responding(r, "idle")
    /\ \A i \in DOMAIN txs : txs[i].outcome # "sent"
    /\ \A p \in Readers : ~Holds(p)
    /\ recorded = DOMAIN events

\* The handlers' own writes, the passes they run and the ticker's end in the same
\* row: when all is quiet, the flags in the database are the chain's, and a closed
\* escrow is closed there too, with no token left of those minted before.  This
\* takes that each request came after the one before was over and its transaction
\* mined, and that no pass recorded an event while another was still at an older
\* one of the same contract, or dropped one.
RowFollowsChain ==
    EmergencyQuiet /\ ~disturbed =>
        /\ escrowRow.frozen = contract.frozen /\ escrowRow.barred = contract.barred
        /\ contract.status \in Closed =>
              /\ escrowRow.status \in InactiveStatuses
              /\ \A t \in DOMAIN dctToken : dctToken[t].revoked
=============================================================================
