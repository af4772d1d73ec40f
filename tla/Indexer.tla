------------------------------ MODULE Indexer ------------------------------
\* How the server turns the chain's logs into its database: the polling indexer
\* (internal/indexer), which the ticker runs and which request handlers run again
\* after every transaction they send, and the webhook that is told of factory
\* events as they happen (internal/api/webhook.go).  Passes and webhook requests
\* interleave statement by statement: a step is one database statement or one
\* read of the chain, with the in-memory work around it.
EXTENDS ChainEvents, FiniteSets, FiniteSetsExt

CONSTANTS
    Passes,      \* the runs of RunOnce that may be under way at a time
    Poller,      \* the one that Run's ticker starts; the others serve requests
    Hooks,       \* webhook requests that may be under way at a time
    Minters,     \* requests for a token that may be under way at a time
    StartBlock,  \* the configured first block, 0 when there is none
    Lookback,    \* defaultLookback
    MaxFailures, \* maxConsecFailures
    Disruptions, MaxDisruptions  \* bounds: what may disturb the poller, how often

\* A pass that a request runs, a call of the webhook, a transient error, a
\* restart of the server.
Disruption == {"request", "delivery", "fault", "crash"}

ASSUME IndexerAssumption ==
    /\ Poller \in Passes /\ MaxFailures \in Nat \ {0}
    /\ Disruptions \subseteq Disruption
    /\ {StartBlock, Lookback, MaxDisruptions} \subseteq Nat

VARIABLES
    chainLogs,   \* the logs recorded as processed
    cursor,      \* the last block processed, as the database has it
    db,          \* the tables about the escrow, and the watched address's row
    reputation,  \* the counters of worker, buyer and a replaced worker
    outcomes,    \* the logs in reputation_events
    stream,      \* the logs published on the event bus, in order
    pass, hook,  \* what each pass and each webhook request is at
    failures,    \* the poller's consecutive failures
    suffered,    \* how often each disruption has happened
    minting      \* the requests for a token that have read the row as open

tables == <<chainLogs, cursor, db, reputation, outcomes>>
control == <<pass, hook, failures, suffered>>
serverVars == <<tables, stream, control, minting>>
vars == <<chainVars, serverVars>>

-----------------------------------------------------------------------------
\* What the events mean to the database.

\* eventStatusMap, over the events of ChainEvents.
EventStatus == [EscrowFunded |-> "funded", SubmissionMade |-> "submitted",
                Approved |-> "approved", Disputed |-> "disputed",
                SilenceEscalated |-> "disputed", DisputeResolved |-> "resolved",
                Settled |-> "settled", Refunded |-> "refunded",
                Cancelled |-> "cancelled", ArbitratorTimeoutClaimed |-> "refunded",
                EmergencyResolved |-> "resolved"]

MilestoneEventStatus == [MilestoneSubmitted |-> "submitted", MilestoneApproved |-> "approved",
                         MilestoneDisputed |-> "disputed", MilestoneDisputeResolved |-> "resolved",
                         MilestoneSettled |-> "settled", MilestoneCancelled |-> "cancelled"]

TerminalStatuses == {"settled", "refunded", "cancelled"}

\* The statuses that move current_milestone past the milestone.
PastMilestone == {"approved", "resolved", "settled", "cancelled"}

\* An escrow row as it is inserted: milestone rows come only with the API's own.
\* Of each live token, tokens has whether it was entered into an open or a
\* closed escrow's row.
Row(creator, milestones) ==
    [by |-> creator, status |-> IF creator = "nobody" THEN "none" ELSE "created",
     frozen |-> FALSE, backup |-> FALSE, current |-> 0, milestones |-> milestones,
     submissions |-> 0, disputes |-> <<>>, tokens |-> {}, barred |-> FALSE]

HasRow == db.by # "nobody"

\* The row enters the tables; the watched address's row stays as it is.
Inserted(creator, milestones) == [Row(creator, milestones) EXCEPT !.barred = db.barred]

PendingMilestones == [i \in 0..onchain.count - 1 |-> "pending"]
NoMilestones == [i \in {} |-> "pending"]

\* The milestone part of ProcessEscrowLog: no row to update is only a warning.
WithMilestone(e) ==
    IF /\ e.name \in DOMAIN MilestoneEventStatus
       /\ e.arg \in DOMAIN db.milestones
    THEN LET status == MilestoneEventStatus[e.name]
         IN  [db EXCEPT !.milestones[e.arg] = status,
                        !.current = IF status \in PastMilestone THEN e.arg + 1 ELSE @]
    ELSE db

\* The newest open dispute is closed; without one, one is entered closed.
DisputeClosed(disputes) ==
    LET open == {i \in DOMAIN disputes : disputes[i] = "open"}
    IN  IF open = {} THEN Append(disputes, "resolved")
        ELSE [disputes EXCEPT ![CHOOSE i \in open : \A j \in open : j <= i] = "resolved"]

-----------------------------------------------------------------------------
\* A pass over the chain.

Idle == [pc |-> "idle", from |-> 0, to |-> 0, part |-> "factory", todo |-> {}]

Init ==
    /\ ChainInit
    /\ chainLogs = {} /\ cursor = 0
    /\ db = Row("nobody", NoMilestones)
    /\ reputation = [worker |-> 0, buyer |-> 0, replaced |-> 0] /\ outcomes = {}
    /\ stream = <<>>
    /\ pass = [p \in Passes |-> Idle]
    /\ hook = [h \in Hooks |-> [pc |-> "idle", l |-> 1]]
    /\ failures = 0 /\ suffered = [d \in Disruption |-> 0] /\ minting = {}

\* FilterLogs: the logs of one contract in a range of blocks.
FilterLogs(contract, from, to) ==
    {l \in DOMAIN log : log[l].from = contract /\ log[l].block \in from..to}

BuggyCurrent(p) == Max(pass[p].todo)  \* newest first

\* The log a pass is at: the node lists them oldest first.
Current(p) == Min(pass[p].todo)
Event(p) == log[Current(p)]

At(p, pc) == pass[p].pc = pc
Goto(p, pc) == pass' = [pass EXCEPT ![p].pc = pc]
NextLog(p) == pass' = [pass EXCEPT ![p].pc = "next", ![p].todo = @ \ {Current(p)}]

\* A handler that succeeds ends the log's turn with its publication.
\* Every event of ChainEvents is in OnChainEventName.
Publish(l) == stream' = Append(stream, l)
Done(p) == NextLog(p) /\ Publish(Current(p))

Disturbances == MapThenSumSet(LAMBDA k : suffered[k], Disruption)

Suffer(d) ==
    /\ d \in Disruptions
    /\ Disturbances < MaxDisruptions
    /\ suffered' = [suffered EXCEPT ![d] = @ + 1]

Elsewhere == UNCHANGED <<chainVars, hook, suffered, minting>>

\* RunOnce returned: the ticker counts failures in a row.
Succeeded(p) == failures' = IF p = Poller THEN 0 ELSE failures
Failed(p) == failures' = IF p = Poller THEN failures + 1 ELSE failures

\* At the limit Run signals a fatal error, and the server shuts down.
Running == failures < MaxFailures

\* BlockNumber, at a tick or at the end of a request.
Tick(p) ==
    /\ At(p, "idle") /\ Running
    /\ IF p = Poller THEN UNCHANGED suffered ELSE Suffer("request")
    /\ pass' = [pass EXCEPT ![p] = [Idle EXCEPT !.pc = "cursor", !.to = head]]
    /\ UNCHANGED <<chainVars, tables, stream, hook, failures, minting>>

FirstBlock(to) == IF StartBlock > 0 THEN StartBlock
                  ELSE IF to > Lookback THEN to - Lookback ELSE 0

BuggyNextBlock(to) == IF cursor = 0 THEN FirstBlock(to) ELSE cursor + 2  \* skips a block

NextBlock(to) == IF cursor = 0 THEN FirstBlock(to) ELSE cursor + 1

\* GetCursor, and the factory's logs from the block after it.
ReadCursor(p) ==
    LET from == NextBlock(pass[p].to)
    IN  /\ At(p, "cursor") /\ from <= pass[p].to
        /\ pass' = [pass EXCEPT ![p].pc = "next", ![p].from = from,
                                ![p].todo = FilterLogs("factory", from, pass[p].to)]
        /\ UNCHANGED <<tables, stream, failures>> /\ Elsewhere

NothingNew(p) ==
    /\ At(p, "cursor") /\ NextBlock(pass[p].to) > pass[p].to
    /\ pass' = [pass EXCEPT ![p] = Idle]
    /\ Succeeded(p)
    /\ UNCHANGED <<tables, stream>> /\ Elsewhere

PartDone(p, part) == At(p, "next") /\ pass[p].todo = {} /\ pass[p].part = part

\* ListEscrowsByChainID, and the logs of the escrow if the table has it.
ListEscrows(p) ==
    /\ PartDone(p, "factory")
    /\ pass' = [pass EXCEPT ![p].part = "escrow",
                            ![p].todo = IF HasRow THEN FilterLogs("escrow", pass[p].from, pass[p].to)
                                        ELSE {}]
    /\ UNCHANGED <<tables, stream, failures>> /\ Elsewhere

BuggySaveCursor(p) ==  \* the newest block now, not when the pass began
    /\ PartDone(p, "escrow")
    /\ cursor' = head
    /\ pass' = [pass EXCEPT ![p] = Idle]
    /\ Succeeded(p)
    /\ UNCHANGED <<chainLogs, db, reputation, outcomes, stream>> /\ Elsewhere

SaveCursor(p) ==
    /\ PartDone(p, "escrow")
    /\ cursor' = pass[p].to
    /\ pass' = [pass EXCEPT ![p] = Idle]
    /\ Succeeded(p)
    /\ UNCHANGED <<chainLogs, db, reputation, outcomes, stream>> /\ Elsewhere

\* ChainLogExists: a log that was recorded has had its turn.
CheckLog(p) ==
    /\ At(p, "next") /\ pass[p].todo # {}
    /\ IF Current(p) \in chainLogs THEN NextLog(p) ELSE Goto(p, "record")
    /\ UNCHANGED <<tables, stream, failures>> /\ Elsewhere

\* What comes after CreateChainLog for an event.
FirstStep(e) == CASE e.from = "escrow" /\ e.name \in DOMAIN EventStatus -> "status"
                  [] e.name \in DOMAIN MilestoneEventStatus -> "milestone"
                  [] OTHER -> "handle"

\* CreateChainLog, before the event is handled; a log recorded meanwhile by
\* another is ignored, and handled all the same.
RecordLog(p) ==
    /\ At(p, "record")
    /\ chainLogs' = chainLogs \cup {Current(p)}
    /\ Goto(p, FirstStep(Event(p)))
    /\ UNCHANGED <<cursor, db, reputation, outcomes, stream, failures>> /\ Elsewhere

-----------------------------------------------------------------------------
\* ProcessEscrowLog after the log is recorded: the status of the row.

BuggyReadStatus(p) ==  \* terminal statuses are not looked for
    /\ At(p, "status")
    /\ Goto(p, "write")
    /\ UNCHANGED <<tables, stream, failures>> /\ Elsewhere

\* isTerminalStatus.
ReadStatus(p) ==
    /\ At(p, "status")
    /\ Goto(p, IF db.status \in TerminalStatuses THEN "handle" ELSE "write")
    /\ UNCHANGED <<tables, stream, failures>> /\ Elsewhere

BuggyWriteStatus(p) ==  \* tokens are not revoked
    /\ At(p, "write")
    /\ db' = [db EXCEPT !.status = EventStatus[Event(p).name]]
    /\ Goto(p, "handle")
    /\ UNCHANGED <<chainLogs, cursor, reputation, outcomes, stream, failures>> /\ Elsewhere

WriteStatus(p) ==
    LET status == EventStatus[Event(p).name]
    IN  /\ At(p, "write")
        /\ db' = [db EXCEPT !.status = status]
        /\ Goto(p, IF status \in TerminalStatuses THEN "revoke" ELSE "handle")
        /\ UNCHANGED <<chainLogs, cursor, reputation, outcomes, stream, failures>> /\ Elsewhere

\* RevokeDCTTokensByEscrow.
RevokeTokens(p) ==
    /\ At(p, "revoke")
    /\ db' = [db EXCEPT !.tokens = {}]
    /\ Goto(p, "handle")
    /\ UNCHANGED <<chainLogs, cursor, reputation, outcomes, stream, failures>> /\ Elsewhere

\* UpdateMilestoneStatus and UpdateEscrowMilestoneProgress.
WriteMilestone(p) ==
    /\ At(p, "milestone")
    /\ db' = WithMilestone(Event(p))
    /\ Goto(p, "handle")
    /\ UNCHANGED <<chainLogs, cursor, reputation, outcomes, stream, failures>> /\ Elsewhere

-----------------------------------------------------------------------------
\* The handlers.  Each writes the escrow's tables; on success the event is
\* published.

Handling(p, from, names) ==
    /\ At(p, "handle")
    /\ Event(p).from = from /\ Event(p).name \in names

Writes(p, after) ==
    /\ db' = after
    /\ Done(p)
    /\ UNCHANGED <<chainLogs, cursor, reputation, outcomes, failures>> /\ Elsewhere

\* The handler fails for good: the log is recorded, its effect is lost.
GivesUp(p) == NextLog(p) /\ UNCHANGED <<tables, stream, failures>> /\ Elsewhere

HandleSubmission(p) ==
    /\ Handling(p, "escrow", {"SubmissionMade"})
    /\ Writes(p, [db EXCEPT !.submissions = @ + 1])

HandleDispute(p) ==
    /\ Handling(p, "escrow", {"Disputed", "SilenceEscalated"})
    /\ Writes(p, [db EXCEPT !.disputes = Append(@, "open")])

HandleMilestoneDispute(p) ==
    /\ Handling(p, "escrow", {"MilestoneDisputed"})
    /\ Writes(p, [db EXCEPT !.disputes = Append(@, "open")])

HandleDisputeResolved(p) ==
    /\ Handling(p, "escrow", {"DisputeResolved"})
    /\ Writes(p, [db EXCEPT !.disputes = DisputeClosed(@)])

HandleMilestoneDisputeResolved(p) ==
    /\ Handling(p, "escrow", {"MilestoneDisputeResolved"})
    /\ Writes(p, [db EXCEPT !.disputes = DisputeClosed(@)])

\* UpdateMilestoneSubmission needs the milestone's row.
HandleMilestoneSubmission(p) ==
    /\ Handling(p, "escrow", {"MilestoneSubmitted"})
    /\ IF Event(p).arg \in DOMAIN db.milestones
       THEN Writes(p, [db EXCEPT !.milestones[Event(p).arg] = "submitted"])
       ELSE GivesUp(p)

HandleRemainingMilestonesAborted(p) ==
    /\ Handling(p, "escrow", {"RemainingMilestonesAborted"})
    /\ Writes(p, [db EXCEPT !.status = "refunded",
                            !.milestones = [i \in DOMAIN @ |-> IF i >= Event(p).arg
                                                               THEN "cancelled" ELSE @[i]]])

HandleBackupActivated(p) ==
    /\ Handling(p, "escrow", {"BackupActivated"})
    /\ Writes(p, [db EXCEPT !.backup = TRUE])

HandleEscrowFrozenEscrow(p) ==
    /\ Handling(p, "escrow", {"EmergencyFrozen", "EmergencyUnfrozen"})
    /\ Writes(p, [db EXCEPT !.frozen = (Event(p).name = "EmergencyFrozen")])

HandleEscrowFrozenFactory(p) ==
    /\ Handling(p, "factory", {"EscrowFrozen", "EscrowUnfrozen"})
    /\ IF HasRow THEN Writes(p, [db EXCEPT !.frozen = (Event(p).name = "EscrowFrozen")])
                 ELSE GivesUp(p)

HandleAddressFrozen(p) ==
    /\ Handling(p, "factory", {"AddressFrozen", "AddressUnfrozen"})
    /\ Writes(p, [db EXCEPT !.barred = (Event(p).name = "AddressFrozen")])

\* Both contracts report the resolution; each report writes the status, then
\* revokes.
HandleEmergencyResolved(p) ==
    /\ At(p, "handle") /\ Event(p).name = "EmergencyResolved"
    /\ IF HasRow
       THEN /\ db' = [db EXCEPT !.status = "resolved"]
            /\ Goto(p, "revokeResolved")
            /\ UNCHANGED <<chainLogs, cursor, reputation, outcomes, stream, failures>> /\ Elsewhere
       ELSE GivesUp(p)

RevokeResolved(p) ==
    /\ At(p, "revokeResolved")
    /\ Writes(p, [db EXCEPT !.tokens = {}])

\* The events with no handler of their own.
HandleOther(p) ==
    /\ Handling(p, "escrow", {"EscrowFunded", "Cancelled", "WorkerStakeDeposited", "Approved",
                              "Settled", "Refunded", "ArbitratorTimeoutClaimed", "MilestoneApproved", "MilestoneSettled",
                              "MilestoneCancelled"})
    /\ Writes(p, db)

BuggyRecorded(l) ==  \* counts a known event again
    /\ outcomes' = outcomes \cup {l}
    /\ reputation' = [reputation EXCEPT ![log[l].arg] = @ + 1]

\* RecordReputationOutcome: one transaction, once for a log.
Recorded(l) ==
    /\ outcomes' = outcomes \cup {l}
    /\ reputation' = IF l \in outcomes THEN reputation
                     ELSE [reputation EXCEPT ![log[l].arg] = @ + 1]

HandleOutcomeRecorded(p) ==
    /\ Handling(p, "factory", {"OutcomeRecorded"})
    /\ Recorded(Current(p))
    /\ Done(p)
    /\ UNCHANGED <<chainLogs, cursor, db, failures>> /\ Elsewhere

\* GetEscrowByAddress: the API may have entered the escrow already.
HandleEscrowCreated(p) ==
    /\ Handling(p, "factory", {"EscrowCreated"})
    /\ IF HasRow THEN Writes(p, db)
       ELSE Goto(p, "insert") /\ UNCHANGED <<tables, stream, failures>> /\ Elsewhere

\* CreateEscrow fails on an address that was entered in the meantime.
InsertEscrow(p) ==
    /\ At(p, "insert")
    /\ IF HasRow THEN GivesUp(p) ELSE Writes(p, Inserted("indexer", NoMilestones))

Step(p) ==
    \/ Tick(p) \/ ReadCursor(p) \/ NothingNew(p) \/ ListEscrows(p) \/ SaveCursor(p)
    \/ CheckLog(p) \/ RecordLog(p)
    \/ ReadStatus(p) \/ WriteStatus(p) \/ RevokeTokens(p) \/ WriteMilestone(p)
    \/ HandleSubmission(p) \/ HandleDispute(p) \/ HandleDisputeResolved(p)
    \/ HandleMilestoneDispute(p) \/ HandleMilestoneDisputeResolved(p)
    \/ HandleMilestoneSubmission(p) \/ HandleRemainingMilestonesAborted(p)
    \/ HandleBackupActivated(p) \/ HandleEscrowFrozenEscrow(p) \/ HandleEscrowFrozenFactory(p)
    \/ HandleAddressFrozen(p) \/ HandleEmergencyResolved(p) \/ RevokeResolved(p)
    \/ HandleOther(p) \/ HandleOutcomeRecorded(p) \/ HandleEscrowCreated(p) \/ InsertEscrow(p)

-----------------------------------------------------------------------------
\* Errors of the database or of the node.  RunOnce logs the error of a log and
\* of an escrow and goes on; only its own reads and writes make it fail.

Fault(p) ==
    /\ Suffer("fault")
    /\ UNCHANGED <<chainVars, tables, stream, hook, minting>>

PassFails(p) ==
    /\ \/ At(p, "idle") /\ Running
       \/ At(p, "cursor")
       \/ PartDone(p, "factory") \/ PartDone(p, "escrow")
    /\ pass' = [pass EXCEPT ![p] = Idle]
    /\ Failed(p)
    /\ Fault(p)

\* FilterLogs fails for the escrow: the pass goes on without its logs.
EscrowSkipped(p) ==
    /\ PartDone(p, "factory")
    /\ pass' = [pass EXCEPT ![p].part = "escrow"]
    /\ UNCHANGED failures
    /\ Fault(p)

LogSkipped(p) ==
    /\ \/ At(p, "next") /\ pass[p].todo # {}
       \/ pass[p].pc \in {"record", "write", "revoke", "handle", "insert", "revokeResolved"}
    /\ NextLog(p)
    /\ UNCHANGED failures
    /\ Fault(p)

\* isTerminalStatus takes an error for "not terminal"; a milestone that is not
\* written is only a warning.
ReadFails(p) ==
    /\ \/ At(p, "status") /\ Goto(p, "write")
       \/ At(p, "milestone") /\ Goto(p, "handle")
    /\ UNCHANGED failures
    /\ Fault(p)

-----------------------------------------------------------------------------
\* The webhook: a factory event is handled first and recorded after.

HookAt(h, pc) == hook[h].pc = pc
HookGoto(h, pc) == hook' = [hook EXCEPT ![h].pc = pc]
Hooked(h) == log[hook[h].l]
HookOnly == UNCHANGED <<chainVars, cursor, pass, failures, minting>>

\* A delivery, the first or a repeated one, of some factory event.
Deliver(h) ==
    /\ HookAt(h, "idle") /\ Running
    /\ Suffer("delivery")
    /\ \E l \in DOMAIN log : /\ log[l].from = "factory"
                             /\ hook' = [hook EXCEPT ![h] = [pc |-> "check", l |-> l]]
    /\ UNCHANGED <<chainLogs, db, reputation, outcomes, stream>> /\ HookOnly

HookChecks(h) ==
    /\ HookAt(h, "check")
    /\ HookGoto(h, IF hook[h].l \in chainLogs THEN "idle" ELSE "handle")
    /\ UNCHANGED <<chainLogs, db, reputation, outcomes, stream, suffered>> /\ HookOnly

\* The row is there, or the payload names a verifier, or the call fails.
HookEscrowCreated(h) ==
    /\ HookAt(h, "handle") /\ Hooked(h).name = "EscrowCreated"
    /\ \E namesVerifier \in BOOLEAN :
          HookGoto(h, IF HasRow THEN "record" ELSE IF namesVerifier THEN "insert" ELSE "idle")
    /\ UNCHANGED <<chainLogs, db, reputation, outcomes, stream, suffered>> /\ HookOnly

HookInserts(h) ==
    /\ HookAt(h, "insert")
    /\ IF HasRow
       THEN HookGoto(h, "idle") /\ UNCHANGED db
       ELSE HookGoto(h, "record") /\ db' = Inserted("webhook", NoMilestones)
    /\ UNCHANGED <<chainLogs, reputation, outcomes, stream, suffered>> /\ HookOnly

HookOutcomeRecorded(h) ==
    /\ HookAt(h, "handle") /\ Hooked(h).name = "OutcomeRecorded"
    /\ Recorded(hook[h].l)
    /\ HookGoto(h, "record")
    /\ UNCHANGED <<chainLogs, db, stream, suffered>> /\ HookOnly

\* The other factory events have no handler here, and are recorded.
HookIgnores(h) ==
    /\ HookAt(h, "handle") /\ Hooked(h).name \notin {"EscrowCreated", "OutcomeRecorded"}
    /\ HookGoto(h, "record")
    /\ UNCHANGED <<chainLogs, db, reputation, outcomes, stream, suffered>> /\ HookOnly

HookRecords(h) ==
    /\ HookAt(h, "record")
    /\ chainLogs' = chainLogs \cup {hook[h].l}
    /\ Publish(hook[h].l)
    /\ HookGoto(h, "idle")
    /\ UNCHANGED <<db, reputation, outcomes, suffered>> /\ HookOnly

\* An error of the database: the caller is told, and may deliver again.
HookFails(h) ==
    /\ ~HookAt(h, "idle")
    /\ HookGoto(h, "idle")
    /\ UNCHANGED <<chainLogs, db, reputation, outcomes, stream, suffered>> /\ HookOnly

HookStep(h) ==
    \/ Deliver(h) \/ HookFails(h) \/ HookChecks(h) \/ HookEscrowCreated(h) \/ HookInserts(h)
    \/ HookOutcomeRecorded(h) \/ HookIgnores(h) \/ HookRecords(h)

-----------------------------------------------------------------------------
\* The rest of the server, as far as it writes the same tables.

ApiOnly == UNCHANGED <<chainVars, chainLogs, cursor, reputation, outcomes, stream, control>>

\* createEscrow sees its transaction mined, and finalizes its row with the
\* milestones; it fails when the address is taken.
ApiFinalizes ==
    /\ onchain.status # "none" /\ ~HasRow
    /\ db' = Inserted("api", IF onchain.count > 1 THEN PendingMilestones ELSE NoMilestones)
    /\ minting' = minting
    /\ ApiOnly

\* Mint reads the row, and goes on if it is not inactive.
ApiReadsForMint(m) ==
    /\ m \notin minting /\ HasRow
    /\ ~db.frozen /\ db.status \notin TerminalStatuses \cup {"resolved"}
    /\ minting' = minting \cup {m}
    /\ db' = db
    /\ ApiOnly

\* CreateDCTToken does not look at the row again: the escrow may have closed, and
\* its tokens may have been revoked, since Mint read it.  Or it fails.
ApiMints(m) ==
    /\ m \in minting /\ minting' = minting \ {m}
    /\ \/ db' = db
       \/ db' = [db EXCEPT !.tokens = @ \cup {IF db.status \in TerminalStatuses
                                             THEN "closed" ELSE "open"}]
    /\ ApiOnly

\* The server stops anywhere, or has given up, and starts again.
Restart ==
    /\ Suffer("crash")
    /\ pass' = [p \in Passes |-> Idle]
    /\ hook' = [h \in Hooks |-> [pc |-> "idle", l |-> 1]]
    /\ failures' = 0 /\ minting' = {}
    /\ UNCHANGED <<chainVars, tables, stream>>

Mining == Mine /\ UNCHANGED serverVars

Next ==
    \/ Mining
    \/ \E p \in Passes : Step(p)
    \/ \E p \in Passes : PassFails(p) \/ EscrowSkipped(p) \/ LogSkipped(p) \/ ReadFails(p)
    \/ \E h \in Hooks : HookStep(h)
    \/ ApiFinalizes
    \/ \E m \in Minters : ApiReadsForMint(m) \/ ApiMints(m)
    \/ Restart

Spec == Init /\ [][Next]_vars

\* The ticker goes on ticking, and a pass it starts goes on.
Fairness == WF_vars(Step(Poller))

FairSpec == Spec /\ Fairness

-----------------------------------------------------------------------------
\* Properties.

\* Nothing is under way, and the cursor is at the newest block.
Quiet ==
    /\ \A p \in Passes : At(p, "idle")
    /\ \A h \in Hooks : HookAt(h, "idle")
    /\ cursor = head /\ head > 0

\* Each property names the disruptions it does not survive.
Undisturbed(kinds) == \A d \in kinds : suffered[d] = 0

\* The cursor never passes a log that was not recorded: what is behind it is
\* never looked at again (RunOnce, SetCursor and fromBlock++).
CursorCovers ==
    Undisturbed({"request", "fault", "crash"}) =>
        \A l \in DOMAIN log :
            (log[l].block \in FirstBlock(0)..cursor) => l \in chainLogs

\* The same for the factory's logs, which are read whether or not the escrow
\* has a row yet: no overlap of passes and webhook calls hides one.
FactoryCovered ==
    Undisturbed({"fault"}) =>
        \A l \in DOMAIN log :
            (log[l].from = "factory" /\ log[l].block \in FirstBlock(0)..cursor) => l \in chainLogs

\* A counter of reputation is the number of recorded outcomes of its role: an
\* outcome reported twice, by the poller and by the webhook, counts once
\* (RecordReputationOutcome).
ReputationOnce ==
    \A role \in DOMAIN reputation :
        reputation[role] = Cardinality({l \in outcomes : log[l].arg = role})

\* An outcome counts once at any time, and when all is done, every outcome on the
\* chain has been counted.
OutcomesCounted ==
    /\ ReputationOnce
    /\ Quiet /\ Undisturbed({"fault", "crash"}) =>
          outcomes = {l \in DOMAIN log : log[l].name = "OutcomeRecorded"}

Happened(name) == \E l \in DOMAIN log : log[l].name = name

\* The chain says that the escrow has closed: an escrow of several milestones
\* settles with an event only where a stake is returned (_settleWorkerStake).
ClosingTold == onchain.status = "settled" => Happened("Settled")

\* When all is done, the row of the escrow and the table of frozen addresses
\* say what the chain says.
RowReconciled ==
    /\ ClosingTold => db.status = onchain.status
    /\ db.frozen = onchain.frozen
    /\ db.backup = onchain.backup
    /\ db.submissions = Cardinality({l \in DOMAIN log : log[l].name = "SubmissionMade"})
    /\ Undisturbed({"delivery"}) => db.barred = onchain.barred

\* Each milestone row says what the chain says of it: one of several
\* MilestoneStatus updates, and the abort, must not be lost or applied to a
\* neighbour.
MilestonesReconciled ==
    \A i \in DOMAIN db.milestones :
        db.milestones[i] =
            IF i < onchain.ms \/ onchain.status = "settled" THEN "settled"
            ELSE IF Happened("RemainingMilestonesAborted") THEN "cancelled"
            ELSE IF i = onchain.ms THEN onchain.msStatus
            ELSE "pending"

\* A closed escrow has no live delegation token that was entered before it closed
\* (RevokeDCTTokensByEscrow).  Two kinds outlive the closing: tokens of an escrow
\* whose remaining milestones were aborted (handleRemainingMilestonesAborted), and
\* a token whose Mint read the row while it was open and entered it afterwards.
TokensRevoked ==
    db.status \in TerminalStatuses /\ ~Happened("RemainingMilestonesAborted") =>
        "open" \notin db.tokens

\* When all is done, the database says what the chain says (docs/ARCHITECTURE.md:
\* if the DB and chain disagree, the chain wins), and the tokens that a closed
\* escrow had are revoked.
Reconciled ==
    Quiet /\ Undisturbed({"request", "fault", "crash"}) =>
        /\ RowReconciled
        /\ db.by = "api" => MilestonesReconciled
        /\ TokensRevoked

\* A terminal status is never overwritten (terminalStatuses: "must not be
\* overwritten by generic event-based status mapping").
TerminalKept == [][db.status \in TerminalStatuses => db'.status = db.status]_db

\* Clients of the stream see each contract's events in the order of the chain;
\* a restart does not change it.
StreamInOrder ==
    Undisturbed({"request", "delivery", "fault"}) =>
        \A i, j \in DOMAIN stream :
            (i < j /\ log[stream[i]].from = log[stream[j]].from) => stream[i] < stream[j]

\* However it is disturbed, the poller gets to every block, as long as the
\* failures in a row stay below the limit (Run resets its count after a pass
\* that returns).
PollerCatchesUp == \A n \in 1..MaxBlocks : (head = n) ~> (cursor >= n)
=============================================================================
