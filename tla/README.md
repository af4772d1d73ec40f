# Agent Escrow: formal model

A TLA+ development of the escrow contracts (`src/src/`) and of the server that
follows them (`src/go-server/`). TLC checks every specification on small
instances; TLAPS proves the theorems named below for every value of the
constants. Modules are translations of the code; `PROJECT.json` gives the lines
each definition stands for.

## The system

A **buyer** escrows an amount for a **worker**. A panel of **verifiers**, staked
or not, votes on the submission; an **arbitrator** resolves disputes; a **backup
worker** can replace one who stays silent. The **factory** creates the escrows,
sets fees, keeps reputations and holds the owner's emergency powers. A Go server
builds the transactions, follows the chain into a SQL database, and adds what is
off-chain: bidding, delegation tokens, checkout, attestations.

| Component | State | Operations | Talks to |
|---|---|---|---|
| `TaskEscrow.sol` | status, milestones, votes, stakes, bond, balance, freeze | 30 external functions | factory (`recordOutcome`), payees |
| `TaskEscrowFactory.sol`, `FactoryLib` | settings, frozen addresses, escrows, reputations, redelegation streaks | create, settings, freeze, emergency | escrows |
| `MilestoneLib`, `TransferLib` | none | settlement arithmetic, transfers | called by the escrow |
| indexer (`internal/indexer`) | cursor, chain logs, all projected tables | `Run`, `RunOnce`, a handler per event | node, database, event bus |
| webhook (`internal/api/webhook.go`) | the same tables | `EscrowCreated`, `OutcomeRecorded` | database, event bus |
| escrow service (`internal/escrow`) | create intents, escrow rows | create, and one call per contract function | chain client, database, indexer |
| chain client (`internal/chain`) | nonce, connection | send, wait, filter | node |
| event bus, stream (`internal/events`, `api/stream.go`) | subscribers, ring of recent events | publish, subscribe, resume | indexer, HTTP clients |
| bidding (`internal/bidding`) | RFQs, bids, commits, discipline counters | publish, commit, reveal, finalise, accept, expire | escrow service, database |
| delegation tokens (`internal/dct`) | tokens and their chains | mint, delegate, introspect, revoke | database, authorisation |
| emergency handlers (API and MCP) | emergency actions, flags of escrow rows, tokens | freeze, unfreeze, resolve | chain client, database, tokens |
| UCP checkout (`internal/ucp`) | sessions, idempotency keys, a lock per key and process | create, update, complete, cancel, get | escrow service, database |
| AP2 (`internal/ap2`) | mandates | bind, fund by authorization | chain client, database |
| A2A (`internal/a2a`) | tasks | send, get, cancel | database |
| decomposition (`internal/decomposition`) | plans, their nodes, RFQs | propose, finalize | database, bidding |
| authz, attestation, audit | audit log, attestations | pure decisions | every service |
| API, MCP server, CLI, config | none | check and translate requests | the services |

**What is hard.** On the chain a transaction is atomic, so the difficulty is the
protocol: some twenty kinds of call by seven parties in any order and at any
time, with money that must add up on every path. In the server it is
concurrency and failure: the poller, the passes that request handlers start and
the webhook run the same read-then-write code on the same rows; a process dies
between two statements; a log is delivered twice, late or never; an event is
recorded before it is handled. `PROJECT.json` lists each hazard at its line with
the properties that would notice it.

**What makes each component correct.** The escrow: conservation of its balance,
votes and stakes that belong to one review, milestones in order, one truthful
outcome, an exit for a diligent buyer whatever the others do. The factory:
consistent fees, delegation chains, reputations that match the outcomes. The
indexer: nothing behind its cursor unseen, counts without repetition, terminal
statuses that stay, tables that end equal to the chain. Creation: one escrow per
accepted request, whichever door it came through, and no good request refused.
Calls: a row that lags behind the chain refuses nobody. Bidding: the best
revealed bid wins, once. Tokens: a child never says more than its parent and dies
with it. Emergency: the row ends as the chain says, whether the handler or a pass of the
indexer writes it last.
Checkouts, mandates, tasks and plans: what was asked once is done once.

## Modules

| Module | Models | State and actions |
|---|---|---|
| `MilestoneLib` | `MilestoneLib.sol` | operators for fee, award and refund, with integer division |
| `TaskEscrow` | `TaskEscrow.sol` | storage fields as variables under the source's names; one action per external function; internal functions as operators; `Tick` moves `block.timestamp` |
| `EscrowLife`, `EscrowLifecycle` | what the factory relies on in an escrow | the abstract specification: funding, cancellation, backup, one closing with one outcome |
| `TaskEscrowFactory` | `TaskEscrowFactory.sol`, `FactoryLib.sol` | the factory composed with several escrows that follow `EscrowLife` |
| `ChainEvents` | the events of both contracts | one action per kind of transaction; `log` is the chain's log |
| `Indexer` | `indexer.go`, `webhook.go` and the queries they run | passes and webhook requests with a program counter; one action per database statement or chain read |
| `EscrowCreation` | `Service.CreateEscrow`, `chain/client.go`, `chain/receipt.go` | request handlers with a program counter over one intent's row; one action per database statement or node call; the node keeps the key's transaction at each nonce |
| `Bidding` | `bidding/bidding.go`, its queries, `CancelRFQ` and `ListBids` of the API | the RFQ, commit, bid and discipline tables; handlers with a program counter, one action per statement, transaction, chain call or refusal; a time read early is kept in the handler |
| `DelegationTokens` | `dct/service.go`, its queries, `authz` as guards | the token table, other writers of the escrow's row, requests with a program counter; a chain is read one token a step |
| `Emergency` | the emergency handlers of API and MCP, the indexer's passes over their events | the contract's two flags and its status, the events of both contracts, transactions by nonce; requests that send, wait, record, log and run a pass of the indexer; passes of the ticker and of the requests, which take, record and handle one event in separate steps; extends `DelegationTokens`, whose tokens and row they write |
| `EscrowCalls` | the operations of `escrow/service.go` behind both doors, `ap2/service.go` | the contract reduced to which calls it may take; a row that the service or the indexer entered and that follows the contract; mandates, which are envelopes around an authorization; the server's pool; a call is looked up, validated, approved, sent, stored and indexed in separate steps |
| `CreationRequests` | the checks of a creation in the API, the MCP tool, the checkout and the service, and the contracts' | three decisions on one request as operators, compared with what the contracts take |
| `Checkout` | `ucp/service.go`, its API handlers | idempotency keys in the database, locks in each process, requests with a program counter |
| `Decomposition` | `decomposition/decomposition.go` | the plan's row, its nodes and the RFQs made of it; finalizing reads, then commits |
| `A2ATasks` | `a2a/service.go` | tasks and requests; a read and perhaps one statement after it |
| `MC*` | | constants for TLC; `MCTokens` composes tokens with their other writers or the emergency handlers, `MCServices` puts the independent services side by side |
| `TaskEscrowProofs`, `TaskEscrowFactoryProofs`, `IndexerProofs`, `ReconciledProofs`, `EscrowCreationProofs`, `BiddingProofs`, `EmergencyProofs`, `ServicesProofs` | | the theorems |

A revert undoes a transaction, so a `require` is a guard. A contract with one
milestone is single-shot. Auxiliary variables of `TaskEscrow` that the code does
not have: `paid`, what left the principal and the bonds; `owed`, the sum of the
withdrawable amounts; `outcomes`, the calls of `recordOutcome`. Operators whose
name begins with `Buggy` are wrong variants of the definition after them. They
document which mistake each property notices; no specification uses them.

The modules meet where the components do. `TaskEscrow` is proved to implement
`EscrowLifecycle`, and `TaskEscrowFactory` runs escrows that follow the same
actions. `ChainEvents` is what either contract logs, and `Indexer` reads it.
`CreationRequests` ends with an intent, where `EscrowCreation` begins, which
sees of the indexer only that it may enter an escrow first and move a status on.
`EscrowCalls` has the indexer as one action; `Emergency` has its passes, with
the statements that matter there. `Decomposition` makes the RFQs that `Bidding` publishes.

## Runs

| Run | Shows |
|---|---|
| `escrow_single` | one milestone, a panel of three, a bond, stakes, a worker who refuses payments and a diligent buyer: stakes are neither stranded nor lost without a defeat; liveness: the buyer leaves a frozen escrow, also when the freeze comes after the work |
| `escrow_accounts` | two milestones with rounding fees, nobody obliged to anything: what the contract holds is what it owes, votes of one review only, a truthful outcome, a freeze lets only the buyer be paid |
| `escrow_milestones` | two high-assurance milestones and a diligent buyer: refinement of `EscrowLifecycle`; no milestone is approved without a quorum; liveness: the buyer leaves every milestone |
| `escrow_lump_refund` | violation: a sentence of `docs/SPEC.md` that the code does not keep |
| `factory` | many escrows under an owner who changes the settings, and two escrows that run their lives, one delegated from the other: a consistent fee policy, a redelegation streak that is never forgotten, counters that equal the outcomes |
| `indexer_poll` | the poller alone with every event of one or two milestones: nothing missed, tables equal to the chain |
| `indexer_disturbed` | the poller with one request's pass, webhook call, error or restart at any statement: nothing counted twice, no factory log lost, every block reached |
| `indexer_race` | violation: two passes overwrite a terminal status |
| `creation` | two callers of one request, lost answers of the node, a restart, the indexer: one escrow, one answer, and a persisted hash can be resumed |
| `bidding` | two bidders, two handlers, one failure: the winner stays the best bid, one strike per silence, an escrow only for the winner, a commitment opened once |
| `tokens` | a chain of three tokens under requests and revocations while others write the escrow: it only attenuates, no verdict overlooks a dead ancestor, nothing comes back; then two emergency requests beside the parties, with the passes they run and the ticker's: the row ends as the chain says unless one overlaps another |
| `services` | calls on a row that lags behind the chain, or that the indexer entered, are refused only for cause; two requests with one authorization in two envelopes send each once; one answer per idempotency key over two processes; requests that differ from a plain one in two fields are treated alike by three doors and the contracts; each leaf of a plan is offered once; a task is accepted once |

**Bounds.** `MaxTime` is large enough to pass every window of the instance once,
in sequence where the buyer's recovery needs it. A panel of two or three with
threshold two has a majority, a minority and an abstainer; amounts 3 and 4
with a fee of 30% round differently alone and together. `factory` has four accounts,
so that every role is taken and one can be replaced, and two instances of the
specification side by side: the settings need many escrows that never move,
the reputations few that do. An indexer run
mines one escrow's transactions, one per block, up to `MaxBlocks`: five reach
every handler and every closing; three suffice for a disturbance, which needs a
log before it and one after it. One request for a token (`Minters`) comes again and
again in `indexer_poll`, and none where the tokens are not asked about. `MaxDisruptions` is one, because each property
names the kinds of disturbance it does not survive (`Undisturbed`), and what it
survives it must survive at every statement of the pass. `creation` has two callers, since
what one does between two statements of another is the question; two hashes,
so that a second escrow would be seen; three nonces, so that another sender
comes before and after; and one stop. `bidding` has one RFQ in either mode, two handlers and two
commitments, published at time 0; the reveal phase ends at 1 and the clock at 2, so that
a handler can read the time on each side of both deadlines and act after the
other one. Three kinds of commitment differ in price, in duration and in
whether the bid outlives the reveal phase. One failure lets a cancellation be
taken back or an escrow stay unrecorded; two escrows let both handlers create
one. Credentials and a parent escrow are parameters that this instance leaves
out. `tokens` has three tokens, the shortest chain in which an ancestor is not
the parent; grants with one right less, a shorter life, or both; one request and one
revocation, which is enough to come between any two reads; two emergency
requests and two transactions, so that one is undone by the other in either
order; with the ticker three passes can be under way. Two transactions are both about the escrow or
both about the address, which share neither a flag nor an event; beside the latter the parties
rest. There the token is one
that was minted before, with both rights, and a behaviour ends where
`disturbed` begins, since `RowFollowsChain` says nothing after it. `services` runs one service at a time, since they share nothing in these
properties. Its two checkouts are spread over two processes in every way, under
one key. Its requests differ from a plain one in at most two fields, since the checks relate at most
two; addresses include the zero address, one without `0x` and one that
is none, numbers include zero, a negative one, one that does not parse and one
that is too wide for the database. Its six agreements have every party's key and every
term once, each with a row of either origin. Calls come one at a time: what the row does while
a call is under way is the question. Mandates come two at a time, one authorization in two
envelopes; no other request runs beside them. For any number of calls and mandates at a time
the two properties are proved. Deadlock checking is off
where the bounds end a run: with every bound used
up there is nothing left to do.

**Fairness.** `DiligentSpec` assumes that time passes and that the buyer calls an
exit that is open before more time does; no other party is assumed to do
anything. Its steps are a part of `Next`, so the safety properties of
`escrow_single` and `escrow_milestones` are checked there for such a buyer only; for
every buyer they are proved (below), and `escrow_accounts` runs under `Spec`. `FairSpec` of the indexer assumes that the poller goes on: the ticker
of `Run` fires again and again, and Go runs a started pass. Nothing is assumed
of requests, of the webhook or of the chain. `FairSpec` of the creation assumes
that the node goes on mining and that a client repeats its request; a caller
that gives up is covered by `MaxStops`.

## Where the code departs from its documents

Two runs show such a departure as a counterexample; the findings in `PROJECT.json` quote the line.

* `claimTimeoutRefund` on a milestone escrow returns the whole amount again
  after a milestone was paid, out of the verifiers' stakes (`escrow_lump_refund`).
* A terminal status is overwritten by a pass that read before another wrote
  (`indexer_race`).

The models contain further ones. The properties say where they stop because of
them, so that each is a named exception and not an omission:

* A closed escrow holds stakes until they are withdrawn; `docs/SPEC.md:254` says
  its balance is zero. `Conservation` counts what is owed, and excepts
  `LumpRefund`, the state after the refund above; `OutcomeTruthful` excepts it too.
* Logs of an escrow whose row is inserted after the cursor passed them are never
  read: another pass may insert it between the listing of the escrows and the
  writing of the cursor (`CursorCovers`, `Undisturbed({"request"})`).
* A log is recorded before it is handled. An error in `RunOnce` can leave logs
  behind the cursor, and a crash between record and handler loses the
  handler's effect (`Undisturbed({"fault"})`, `{"crash"}`). When the lost effect
  is the row of a new escrow, the logs of that escrow are passed by as well.
* The webhook records events it has no handler for, and the poller then skips
  them (`db.barred` in `Reconciled`; `docs/ARCHITECTURE.md:333` gives the poller
  the last word).
* An unstaked escrow of several milestones closes without an event, so its row
  never closes (`ClosingTold`). One silence emits two events that each open a dispute
  (the disputes table is not part of `Reconciled`). An abort leaves delegation
  tokens alive, and so does a mint that read the row while it was open and enters its
  token once it is closed: `Mint` does not look again (`TokensRevoked` excepts both).
* A caller who stops after taking the row leaves it in `submitting` without a
  hash, and no repetition gets past it. A reverted create leaves the row in
  `pending_confirmation` for good, and so does an indexer that enters the address
  first: the unique address makes each finalization fail (`ResumeCompletes`
  names the last two and begins at the hash because of the first).
* When the node takes a transaction and answers with an error, the row goes
  back to `pending` and a repetition may send a second create. `OneEscrowPerIntent`
  excepts the transactions that were misreported, and nothing else.
* A late reveal expires the silent commitments of an RFQ before it is finalised,
  and their bidders get no strike; `docs/ARCHITECTURE.md:354` promises "bidder
  cooldowns for commit-without-reveal behavior". `StrikesFair` therefore
  bounds the strikes from above only.
* The escrow of an accepted bid is created before the acceptance is recorded:
  two acceptances create two escrows for the winner, of which one remains
  without a bid; and one that comes after a cancellation is recorded and closes the
  RFQ only if the cancellation has not rejected the bid yet. `OnlyWinnerPaid` asks for whom
  an escrow is, not how many there are.
* A cancellation that fails sets the RFQ to `open` whatever it has become, and one
  that another takes back can leave a pending bid whose commitment is
  rejected and which can never win (`Standing`). A handler that waited can
  enter a commitment after the reveal phase (`OnTime`); it can be revealed
  by a handler that waited as well.
* The HTTP emergency handlers record an action when its transaction is sent, the
  MCP tools when it is mined (`ToolActionsMined`). Either may write `resolved`
  over `settled`, and a handler that writes late leaves a flag behind that a newer
  transaction has changed: `RowFollowsChain` excepts overlapping requests. It
  also excepts passes that overlap: `RunOnce` at the end of a request runs beside the ticker's,
  and a pass that stands between `CreateChainLog` and the row's update while
  another handles a newer event writes the older one last. The log is recorded, so no
  later pass corrects the row. An update that fails is never made up for either.
* A freeze that only the indexer sees revokes no token, and a token that is being
  minted or delegated survives the revocation (`VerdictsCurrent` speaks of the
  tokens in the table when the request came).
* A checkout that fails after its transaction leaves no answer under its key,
  and a retry sends again: `AnsweredKeySpent` begins with the answer. The locks
  belong to a process, so two processes may each send once under one key, and
  `OneAnswerPerKey` speaks of the answers.
* The chain refuses a mandate's authorization of more than the amount, which the server
  binds; the mandate is used up, as it is when its sending fails. It is `funded` as soon as the
  transaction is sent. The unique id of a mandate is a hash of the whole
  envelope (`ap2/service.go:150`): the same authorization with another type or payload,
  or with other letters in its signature, is another mandate and is sent again. Only the
  contract refuses it then. `MandateSentOnce` speaks of one envelope.
* The row of an escrow that the indexer entered first (`handleEscrowCreated`) has one
  milestone, no backup, no worker's stake and the amount "0", whatever the contract
  has, no verifier's stake if the contract could not be asked, and nothing fills them in. The service then refuses calls on milestones, the abort, the
  backup's activation and the worker's deposit, which the contract would take (`Excused`); it funds
  with the amount 0, which the contract refuses, and binds a mandate for any value.
  `EscrowCalls` begins with a row that has its address: before that, the row of a creation
  under way is `EscrowCreation`'s.
* Where an escrow has sub-delegations, the service refuses a submission without their
  attestations, and anywhere one with a chain that is not valid; the contract does not ask for
  either (`Excused`).
* The MCP server's `submit` asks for the key of the worker in the row, and refuses
  a backup who took over until the indexer has read so (`ToolWork`, `Excused`).
* The doors refuse what the chain would take: a zero `circuit_id` without a
  verifier, and over HTTP and UCP an extension of "0" without a backup; a parent
  whose backup took over has a buyer the server does not know of yet. `RefusedForCause` excepts
  them by name (`Stricter`).
* A leaf of a decomposition that is `optimistic` or has a `unit_test` becomes
  an RFQ without a verifier, which `AcceptBid` (`bidding.go:1197`) refuses: such a leaf is offered
  and can never be awarded. `LeavesOffered` asks for the offer.

## Proofs

`TaskEscrowProofs` assumes what the constructor requires (`QuorumAssumption`
and its siblings, evaluated by TLC in every run) and nothing about sizes.

* `ControlTypeCorrect`: inductive alone.
* `VoteInv` is the strengthening behind `CountersAlwaysAgree`,
  `VotesAlwaysInForce` and `StakesNeverStranded`. They need
  each other: a counter can only be trusted to reach its threshold when it counts
  the votes, and a closing clears exactly the stakes the counter knows of. It adds that nothing is
  staked or voted before funding. `OnlyOutvotedForfeit` follows from it by the actions that slash.
* `OrderInv` says `MilestonesInOrder` already before funding; with it
  `MilestonesAlwaysInOrder`. `ClosedStaysClosed` and `ApprovalNeedsQuorum` are
  action properties, proved by the disjuncts of `Next`.
* `AccountInv` gives `TypeCorrect` and `FundsAlwaysConserved` in both modes: the
  balance is what is left of the principal, the bond, the stakes and what is owed.
  What is left in milestone mode is the sum over the unfinished milestones
  (`Remaining`); a payout takes the current one's amount from it (`LessLeft`,
  `AdvanceKeeps`), with `OrderInv` for the fact that it was unfinished, an abort
  takes all that is left, and the settlement splits sum to what they split
  (`SettleApprovedSum`, `SettleResolvedSum`). The bond's part that
  returns to the worker is within the bond, and zero when nothing was earned
  (`ReturnBound`). `owed` stays the sum over the claimants' accounts (`OwedCorrect`).
  `BalanceAlwaysAccounted` is the single-shot case, where no exception is needed.
* The sums are folds of the community modules, defined by a `CHOOSE` of a recursive
  function. That one exists and is unique (`SumExists`, `SumUnique`) is proved with a
  least counterexample instead of the induction theorems. From it come what an added
  or changed index does to a sum (`SumWithout`, `SumOne`), and that sums add
  (`SumAdds`) and respect bounds (`SumBounds`).
* `FreezePaysOnlyBuyer` and `OutcomeAlwaysTruthful` hold in both modes too. The latter
  follows from `OutcomeInv`: an escrow that has not ended has no outcome, and
  has paid nobody but the buyer as long as no milestone is approved or resolved. With
  `OutcomeSays`, "failed" means that none ever was, and so that the last
  payout returned nothing of the bond.
* `EscrowImplementsLifecycle`: every step of the contract is one of
  `EscrowLifecycle`, with `LifeInv`: no outcome is recorded while it is open.
* `TaskEscrowFactoryProofs`: `FactoryInv` (types, a backup in office was named,
  delegation chains) and `FeeOrder`. `ReputationAlwaysMatches` rests on
  `RecordInv`: an escrow with an outcome is closed, so it adds to a counter once,
  and its backup is not its worker. `BurstsNeverForgotten` is an action property.
* `EscrowCreationProofs`: five theorems from one invariant, for any number of
  callers, hashes, nonces and stops. `SlotInv` says that whatever waits at or
  above the client's nonce was reported as failed or is somebody else's
  transaction, so that sending replaces nothing that counts. `OwnerInv` says
  that one caller owns a row that is being submitted. `LiveInv` joins them: at
  most one transaction counts, and while one does nobody is about to send or to
  reset the row. `RowInv` and `CallerInv` tie the row and every waiting caller to
  it. None is inductive without the others: the owner is alone because the row's status says so,
  and the status stays because the owner is alone. `InvStep` goes by the
  actions, with a lemma per way a step touches the state (`Looks`, `OwnerSends`,
  `OwnerEnds`, `CallerFinishes`, `RowTaken`, `MineKeeps`).
* `BiddingProofs`: four theorems for any RFQs, bidders and handlers.
  `BiddingInv` relates the four tables (`RowsOK`, `Linked`), what a decision has
  left of the bids (`DecisionsOK`), the escrows (`Paid`) and what a
  handler that waits still relies on (`HandlersOK`). Every step but the decisions
  is plain: it changes rows only in the ways `CommitStep` and its
  siblings allow, and plain steps keep the invariant by one lemma.
* `EmergencyProofs`: `RowAlwaysFollows` and `ToolsRecordMined`, for any number of
  requests, transactions and passes. `AskInv` says which transactions can still wait.
  `PassInv` says that each contract's events are recorded in their order, by however many
  passes, and, undisturbed, that none newer than one a pass still holds has been:
  the later word is written last. `FlagInv` says that the row's flag is then the
  chain's once the last event about it is handled and no writer is left, for either flag;
  `CloseInv` that the chain closes once and that the row is closed, without live tokens, when
  that has been handled.
* `ServicesProofs`: `CheckoutInv` (who may still send holds the lock of its
  process, alone), `MandatesInv` (an envelope is bound to one request, which
  sends its authorization once), `TasksInv` and `PlanInv` (who is about to commit has the leaves of the
  tree as it still is), and the five theorems they give. `NobodyWronged` rests on
  `RefusalInv`: what a call has read of the terms is what the row has for good, the row is
  never ahead of the chain, and a backup that a call has read of stays in office. A check that stops a
  call the contract would take can then only be one of those `Excused` names. `DoorsAgreeOnIntent` and `DoorsRefuseForCause` compare the three copies of the checks for
  every request made of the fields' ranges (`TermsAssumption`), not only for the
  requests of the run.
  The tokens are here as well: five theorems for any principals, tokens and requests.
  `TokensInv` says that a parent is older than its child and covers it, and, of each
  request in the middle of a chain, that what was dead when it came is still
  ahead or has given its reason; a verdict cannot overlook it then.
* `IndexerProofs`: six theorems for any chain of events, any number of passes
  and webhook requests, at every interleaving of their statements.
  `WellFormed` rests on nothing. `WalkInv` says what a pass in the middle of its
  logs still holds, `CoverInv` that what lies behind it has been recorded;
  together they give `PollerCoversFactory`. `HandledInv` adds that a recorded log is handled
  or in somebody's hands, and `CountInv` that each counter is the number of
  its outcomes, which gives `OutcomesOnce`. `OrderInv` says that the poller, when it is alone,
  records each contract's logs in the order of the chain and that what it passes by is older than
  its range; `StreamOrdered` follows. `EscrowInv` says that an escrow's row is there before
  its logs are asked for (`RowComesFirst`), without which `CursorCovers` is not inductive.
  `StatusInv`, for `TerminalForGood`, says that whoever is about to write a status
  has seen one that was not terminal, and that still is so when nobody else writes.
  Three of them, and `DatabaseReconciled`, have a hypothesis on the constants. `FixedStart`: the first block
  does not depend on when the server first ran, because it is configured or because
  the chain is not longer than the look-back; otherwise "the blocks from the first one" has
  no fixed meaning. `FromTheStart`: nor does the indexer begin after the escrow was created, whose
  creation it would never see. `NoOverlap`: no request's pass runs beside the poller and no
  read fails, the cases in which `indexer_race` shows the status overwritten.
* `ReconciledProofs`: `DatabaseReconciled`, for any chain of events under `FromTheStart`. The
  proof has two halves that meet in the log. `ChainTold`: the
  freeze, the backup, the bars, the open status and each milestone on the chain are
  what the last log about them says (`Tells`, `LastIn`), and a closed status is what
  the first closing log says (`EndTold`, `FirstIn`). `RowInv`: once the logs about a
  field have all been taken up (`StatusSeen`, `MilestonesSeen`, `Handled`), the row holds what the last
  of them says. `OrderInv` makes the log taken up last the last of the chain, so the
  later word wins; for the status `EndHolds` keeps the first closing word, because a
  terminal row is left alone. `QuietSeen` gets from `CursorInv` that
  nothing is left to take up when the server is quiet, and `SaidOnce` that both halves
  then speak of the same log. The bars ask in addition that no webhook call came:
  the webhook writes none. `TokensHold` says that from the closing on no token is live that was entered
  before it, but for the moment before the poller's own revocation; a mint that enters one
  later does not break it.

Only model-checked: liveness, which needs fairness (`BuyerRecovers`,
`FrozenBuyerRecovers`, `PollerCatchesUp`, `ResumeCompletes`). The reverse
holds for `CountersAgree`,
`MilestonesInOrder`, `ClosedForGood`, `BalanceAccounted`, `DelegationChained`,
`GrantsAuthorized` and `ToolActionsMined`: theorems establish them, and no run
repeats them.

## Not modelled, and the plan

What is left, in this order:

1. Bidding: a run that shows the missing strike.
2. `EventBus`: subscribers' bounded buffers, which drop events when full; the
   ring of recent events; the resume of a stream.
3. The choice of gas prices in the chain client, where a replaced transaction
   depends on them.

Out of scope: payload text (URIs, hashes, reasons), signature checking beyond
accept or reject, HTTP encoding, listings and reports, the CLI (a client without
state), configuration and the x402 header, the mock chain client that only tests
and demonstrations use, chain reorganisations (the indexer has no code for them).
