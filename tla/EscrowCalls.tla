---------------------------- MODULE EscrowCalls ----------------------------
\* Operations on an escrow that exists and whose row has its address: the service
\* (internal/escrow) behind the HTTP handlers and the MCP tools, and funding by an
\* AP2 mandate (internal/ap2).  Each looks the escrow up in the database, checks,
\* sends a transaction without waiting for it (funding and stakes in a token wait
\* for an approval first), and lets the indexer run once.  The server signs with
\* one party's key; the other parties call the contract on their own.
\* The contract is reduced to the calls it may accept; it may refuse any of them
\* (windows of time, votes that are short of a quorum), when its gas is estimated
\* or when it is mined.
EXTENDS Naturals, Sequences, FiniteSets

CONSTANTS
    Agreements,    \* terms an escrow may have
    CallRequests,  \* requests that may be under way at a time
    Mandates,      \* AP2 mandates: an authorization (signer, recipient, value) in an envelope
    Children,      \* escrows that may be delegated from this one
    MaxPool        \* bound on the transactions that wait to be mined

Parties == {"buyer", "worker", "backup", "verifier", "arbitrator"}
ASSUME CallsAssumption ==
    /\ Agreements \subseteq [key : Parties, token : BOOLEAN, multi : BOOLEAN, backup : BOOLEAN,
                             workerStake : BOOLEAN, verifierStake : BOOLEAN]
    /\ MaxPool \in Nat
    /\ \A m \in Mandates : m.signer \in {"buyer", "other"} /\ m.to \in {"escrow", "other"} /\ m.value \in Nat

VARIABLES
    terms,     \* the server's key, and what the contract has: a token or ether,
               \* milestones, a backup named, a stake of the worker, of the verifiers
    deal,      \* the contract: the state of the work or of the current milestone
    row,       \* the escrow in the database: what it has of the terms, whether it
               \* has the amount, and whether the backup works
    children,  \* the escrows delegated from this one, in the database
    pool,      \* transactions of the server that are not mined, by nonce
    mandate,   \* ap2_mandates
    caller,    \* what each request is at
    tried,     \* how often the authorization was sent for each mandate
    wronged    \* the checks by which the server refused a call that the contract would take

callVars == <<terms, deal, row, children, pool, mandate, caller, tried, wronged>>

\* An index is one of two milestones', absent, or out of range.
NoIndex == 9
Indices == {0, 1, 2, NoIndex}

\* The row of an escrow that was created through the server (CreateEscrow), and
\* one that the indexer entered from the event: it is one milestone's, with the
\* verifiers' stake if the contract could be asked, and without the amount, the
\* worker's stake and the backup.  Nothing fills these in later.
RegisteredRow ==
    [multi |-> terms.multi, backup |-> terms.backup, workerStake |-> terms.workerStake,
     verifierStake |-> terms.verifierStake, amount |-> TRUE, activated |-> FALSE]
IndexedRow(stake) ==
    [multi |-> FALSE, backup |-> FALSE, workerStake |-> FALSE, verifierStake |-> stake,
     amount |-> FALSE, activated |-> FALSE]

NotCalled == [pc |-> "idle", may |-> {}, row |-> IndexedRow(FALSE), fn |-> "none", index |-> NoIndex,
              attested |-> FALSE, receipt |-> FALSE, mandate |-> "none"]

CallsInit ==
    /\ terms \in Agreements
    /\ deal = [status |-> "created", current |-> 0, staked |-> FALSE, backup |-> FALSE,
                   allowance |-> FALSE]
    /\ row \in {RegisteredRow} \cup {IndexedRow(stake) : stake \in {FALSE, terms.verifierStake}}
    /\ children = {} /\ pool = << >>
    /\ mandate = [m \in Mandates |-> "none"] /\ tried = [m \in Mandates |-> 0]
    /\ caller = [q \in CallRequests |-> NotCalled]
    /\ wronged = {}

Calling(q, pc) == caller[q].pc = pc
CallGoto(q, pc) == caller' = [caller EXCEPT ![q].pc = pc]
CallEnds(q) == caller' = [caller EXCEPT ![q] = NotCalled]

-----------------------------------------------------------------------------
\* The contract.

Worker == IF deal.backup THEN "backup" ELSE "worker"

\* Who may call, and from which states to which ("same" is the state it was in).
Rule(who, from, to) == [who |-> who, from |-> from, to |-> to]

Rules ==
    [fund                   |-> Rule("buyer", {"created"}, {"funded"}),
     fundWithAuthorization  |-> Rule("any", {"created"}, {"funded"}),
     cancelBeforeFunding    |-> Rule("buyer", {"created"}, {"closed"}),
     approve                |-> Rule("any", {"created", "funded", "submitted", "disputed", "closed"}, {}),
     depositStake           |-> Rule("worker", {"funded"}, {"same"}),
     depositVerifierStake   |-> Rule("verifier", {"funded", "submitted"}, {"same"}),
     withdrawStake          |-> Rule("verifier", {"funded", "submitted", "disputed", "closed"}, {}),
     submit                 |-> Rule("worker", {"funded"}, {"submitted"}),
     approveByBuyer         |-> Rule("buyer", {"submitted"}, {"done"}),
     castVerifierVote       |-> Rule("verifier", {"submitted"}, {"same", "disputed", "done"}),
     verifyAndApprove       |-> Rule("verifier", {"submitted"}, {"same", "done"}),
     dispute                |-> Rule("buyer", {"submitted"}, {"disputed"}),
     escalateSilence        |-> Rule("worker", {"submitted"}, {"disputed"}),
     resolveDispute         |-> Rule("arbitrator", {"disputed"}, {"done"}),
     claimTimeoutRefund     |-> Rule("buyer", {"funded"}, {"done"}),
     claimArbitratorTimeout |-> Rule("buyer", {"disputed"}, {"done"}),
     activateBackup         |-> Rule("buyer", {"funded"}, {"same"}),
     abortRemainingMilestones |-> Rule("buyer", {"funded"}, {"closed"})]

\* Functions that a milestone has one of its own of.
OfMilestone == {"submit", "approveByBuyer", "castVerifierVote", "verifyAndApprove", "dispute",
                "escalateSilence", "resolveDispute", "claimTimeoutRefund", "claimArbitratorTimeout"}

\* With milestones the contract is funded until all of them are done, whatever the
\* current one is at; these ask for no more.
WhileFunded == {"depositStake", "depositVerifierStake", "claimTimeoutRefund", "abortRemainingMilestones"}
Funded(fn) == terms.multi /\ fn \in WhileFunded /\ deal.status \in {"submitted", "disputed"}

\* The worker's part is played by the active one.
Role(who) == CASE who = Worker -> "worker"
               [] who \in {"worker", "backup"} -> "none"
               [] OTHER -> who

\* Whether the contract may accept the call now, payments aside.
Takes(fn, i, who) ==
    /\ Rules[fn].who \in {"any", Role(who)}
    /\ deal.status \in Rules[fn].from \/ Funded(fn)
    /\ IF terms.multi /\ fn \in OfMilestone
       THEN i = deal.current \/ (i = NoIndex /\ fn = "claimTimeoutRefund")
       ELSE i = NoIndex
    /\ fn = "depositStake" => terms.workerStake /\ ~deal.staked
    /\ fn = "depositVerifierStake" => terms.verifierStake
    /\ fn = "submit" => (terms.workerStake => deal.staked)
    /\ fn = "claimTimeoutRefund" /\ i # NoIndex => deal.status = "funded"
    /\ fn = "activateBackup" => terms.backup /\ ~deal.backup
    /\ fn = "abortRemainingMilestones" => terms.multi /\ deal.current > 0
    /\ fn \in {"approve", "fundWithAuthorization"} => terms.token

Payments == {"fund", "depositStake", "depositVerifierStake"}

\* The server pays the amount of the contract: with what it approved before, or
\* in ether.
Covered(fn, amount) == fn \in Payments => IF terms.token THEN deal.allowance ELSE amount

\* What it makes of the contract: the next milestone comes after one is done.
Outcomes(fn, i, amount) ==
    IF fn \in {"approve", "withdrawStake"}
    THEN {[deal EXCEPT !.allowance = IF fn = "approve" THEN amount ELSE @]}
    ELSE {IF s = "done" /\ terms.multi /\ i # NoIndex /\ deal.current = 0
          THEN [deal EXCEPT !.status = "funded", !.current = 1]
          ELSE [deal EXCEPT
                  !.status = CASE s = "done" -> "closed"
                               [] s = "same" -> @
                               [] OTHER -> s,
                  !.staked = (fn = "depositStake" \/ (@ /\ fn # "activateBackup")),
                  !.backup = (fn = "activateBackup" \/ @),
                  !.allowance = @ /\ fn \notin Payments]
          : s \in Rules[fn].to}

\* The first of the pool is mined, or reverts; one that waits for an approval
\* learns of it.
MineCall ==
    /\ pool # << >>
    /\ LET tx == Head(pool)
       IN  \/ /\ Takes(tx.fn, tx.index, terms.key) /\ Covered(tx.fn, tx.amount)
              /\ deal' \in Outcomes(tx.fn, tx.index, tx.amount)
              /\ caller' = IF tx.fn = "approve" /\ Calling(tx.by, "receipt")
                           THEN [caller EXCEPT ![tx.by].receipt = TRUE] ELSE caller
           \/ UNCHANGED <<deal, caller>>
    /\ pool' = Tail(pool)
    /\ UNCHANGED <<terms, row, children, mandate, tried, wronged>>

\* The other parties.
PartyCalls ==
    /\ \E who \in Parties \ {terms.key}, fn \in DOMAIN Rules \ {"approve", "withdrawStake"}, i \in Indices :
          /\ Takes(fn, i, who)
          /\ \E outcome \in Outcomes(fn, i, TRUE) :
                deal' = [outcome EXCEPT !.allowance = deal.allowance]
    /\ UNCHANGED <<terms, row, children, pool, mandate, caller, tried, wronged>>

\* A sub-delegation is registered (module EscrowCreation).
ChildCreated ==
    /\ \E c \in Children \ children : children' = children \cup {c}
    /\ UNCHANGED <<terms, deal, row, pool, mandate, caller, tried, wronged>>

\* What the indexer writes from the events.
RowIndexed == row' = [row EXCEPT !.activated = deal.backup]

\* Its poll.
Poll ==
    /\ RowIndexed
    /\ UNCHANGED <<terms, deal, children, pool, mandate, caller, tried, wronged>>

-----------------------------------------------------------------------------
\* A request.

\* It looks the escrow up, by number or by address (ResolveEscrowID), and goes on
\* to one of the operations.
Arrive(q, operations) ==
    /\ Calling(q, "idle")
    /\ caller' = [caller EXCEPT ![q] =
          [NotCalled EXCEPT !.pc = "service", !.may = operations, !.row = row]]
    /\ UNCHANGED <<terms, deal, row, children, pool, mandate, tried, wronged>>

\* The HTTP handlers, which leave all checks to the service; there are none to
\* cancel or for a timeout.
Payment == {"fund", "stake", "verifier stake", "withdraw"}
Work == {"submit", "approve", "verify", "vote"}
Ruling == {"dispute", "resolve", "abort", "backup"}

HttpPayment(q) == Arrive(q, Payment)
HttpWork(q) == Arrive(q, Work)
HttpRuling(q) == Arrive(q, Ruling)

\* The server answers with an error of its own, by one of its checks, instead of
\* making this call.
Refuses(q, fn, i, check) ==
    /\ wronged' = wronged \cup {c \in {check} : Takes(fn, i, terms.key)}
    /\ CallEnds(q)
    /\ UNCHANGED <<terms, deal, row, children, pool, mandate, tried>>

\* The MCP tools; the one for submissions wants the key of the active worker, as
\* the row has it.
ActiveWorker == IF row.activated THEN "backup" ELSE "worker"

ToolPayment(q) == Arrive(q, Payment)
ToolWork(q) ==
    \/ Arrive(q, IF terms.key = ActiveWorker THEN Work ELSE Work \ {"submit"})
    \/ /\ Calling(q, "idle") /\ terms.key # ActiveWorker
       /\ \E i \in Indices : Refuses(q, "submit", i, "key")
ToolRuling(q) == Arrive(q, Ruling)

\* A checkout (module Checkout), which has the ways out as well, and AP2.
CheckoutCall(q) == Arrive(q, {"fund", "submit", "cancel", "timeout", "arbitrator timeout"})
MandateCall(q) == Arrive(q, {"mandate"})

\* SendTx: the estimate of its gas refuses what the contract would refuse now.
\* Then the request is at pc.  A stake is the row's, which the service has checked;
\* the amount is what the row has.
Pay(q, fn) == fn = "fund" => caller[q].row.amount

Sends(q, fn, i, pc) ==
    /\ Len(pool) < MaxPool
    /\ Takes(fn, i, terms.key) /\ Covered(fn, Pay(q, fn))
    /\ pool' = Append(pool, [fn |-> fn, index |-> i, by |-> q, amount |-> Pay(q, fn)])
    /\ CallGoto(q, pc)
    /\ UNCHANGED <<terms, deal, row, children, mandate, tried, wronged>>

\* validateMilestoneIndex, with the milestones of the row.
IndexGiven(multi, i) == IF multi THEN i \in 0..1 ELSE i = NoIndex

BuggyIndexOptional(multi, i) == ~multi \/ i \in 0..1  \* an absent one is out of range

\* validateOptionalMilestoneIndex: the whole of an escrow with milestones may be meant.
IndexOptional(multi, i) == i = NoIndex \/ (multi /\ i \in 0..1)

\* The service makes the call if its check lets it pass.
Serves(q, operation, fn, i, check, passes) ==
    /\ Calling(q, "service") /\ operation \in caller[q].may
    /\ IF passes THEN Sends(q, fn, i, "index") ELSE Refuses(q, fn, i, check)

-----------------------------------------------------------------------------
\* Payments.

\* With a token, an approval is sent and waited for (processStakeDeposit).
Pays(q, operation, fn) ==
    \/ /\ Calling(q, "service") /\ operation \in caller[q].may
       /\ ~terms.token /\ Sends(q, fn, NoIndex, "index")
    \/ /\ Calling(q, "service") /\ operation \in caller[q].may
       /\ terms.token /\ Len(pool) < MaxPool
       /\ pool' = Append(pool, [fn |-> "approve", index |-> NoIndex, by |-> q, amount |-> Pay(q, fn)])
       /\ caller' = [caller EXCEPT ![q].pc = "receipt", ![q].fn = fn]
       /\ UNCHANGED <<terms, deal, row, children, mandate, tried, wronged>>
    \/ Calling(q, "receipt") /\ caller[q].receipt /\ caller[q].fn = fn /\ Sends(q, fn, NoIndex, "index")

\* A stake is deposited if the row asks for one.
PaysStake(q, operation, fn, stake) ==
    \/ caller[q].row[stake] /\ Pays(q, operation, fn)
    \/ ~caller[q].row[stake] /\ Serves(q, operation, fn, NoIndex, stake, FALSE)

FundEscrow(q) == Pays(q, "fund", "fund")
DepositWorkerStake(q) == PaysStake(q, "stake", "depositStake", "workerStake")
DepositVerifierStake(q) == PaysStake(q, "verifier stake", "depositVerifierStake", "verifierStake")
WithdrawStake(q) == Serves(q, "withdraw", "withdrawStake", NoIndex, "none", TRUE)
CancelBeforeFunding(q) == Serves(q, "cancel", "cancelBeforeFunding", NoIndex, "none", TRUE)

-----------------------------------------------------------------------------
\* Work.

\* validateAttestationChain: with children, a chain that is valid and names each
\* of them is required; without, one that is given must be valid.
ChainPasses(chain) == chain = "valid" \/ (chain = "none" /\ children = {})

\* The checks of a submission, the index first.
ValidateAttestations(q) ==
    /\ Calling(q, "service") /\ "submit" \in caller[q].may
    /\ \E i \in Indices, chain \in {"none", "invalid", "valid"} :
          LET indexed == IndexGiven(caller[q].row.multi, i)
          IN  \/ ~indexed /\ Refuses(q, "submit", i, "multi")
              \/ indexed /\ ~ChainPasses(chain) /\ Refuses(q, "submit", i, "attestations")
              \/ /\ indexed /\ ChainPasses(chain)
                 /\ caller' = [caller EXCEPT ![q] =
                       [@ EXCEPT !.pc = "submit", !.index = i, !.attested = (chain = "valid")]]
                 /\ UNCHANGED <<terms, deal, row, children, pool, mandate, tried, wronged>>

\* The chain is stored after the transaction is sent.
SubmitWork(q) ==
    /\ Calling(q, "submit")
    /\ Sends(q, "submit", caller[q].index, IF caller[q].attested THEN "persist" ELSE "index")

\* persistAttestationChain, in one database transaction.
PersistAttestations(q) ==
    /\ Calling(q, "persist")
    /\ CallGoto(q, "index")
    /\ UNCHANGED <<terms, deal, row, children, pool, mandate, tried, wronged>>

\* A call on a milestone or, without milestones, on the whole.
OnMilestone(q, operation, fn, i) ==
    Serves(q, operation, fn, i, "multi", IndexGiven(caller[q].row.multi, i))

\* An approval or a rejection by a verifier is a vote.
ApproveWork(q) == \E fn \in {"approveByBuyer", "castVerifierVote"}, i \in Indices : OnMilestone(q, "approve", fn, i)
VerifyAndApprove(q) == \E i \in Indices : OnMilestone(q, "verify", "verifyAndApprove", i)
CastVerifierVote(q) == \E i \in Indices : OnMilestone(q, "vote", "castVerifierVote", i)
DisputeWork(q) ==
    \E fn \in {"dispute", "castVerifierVote", "escalateSilence"}, i \in Indices :
        OnMilestone(q, "dispute", fn, i)
ResolveDispute(q) == \E i \in Indices : OnMilestone(q, "resolve", "resolveDispute", i)

-----------------------------------------------------------------------------
\* Ways out.

AfterTimeout(q, operation, fn, i) ==
    Serves(q, operation, fn, i, "multi", IndexOptional(caller[q].row.multi, i))

ClaimTimeoutRefund(q) == \E i \in Indices : AfterTimeout(q, "timeout", "claimTimeoutRefund", i)
ClaimArbitratorTimeout(q) == \E i \in Indices : AfterTimeout(q, "arbitrator timeout", "claimArbitratorTimeout", i)
AbortRemainingMilestones(q) ==
    Serves(q, "abort", "abortRemainingMilestones", NoIndex, "multi", caller[q].row.multi)

\* What the row says of the backup may be old by now.
ActivateBackup(q) ==
    LET check == IF caller[q].row.backup THEN "activated" ELSE "backup"
    IN  Serves(q, "backup", "activateBackup", NoIndex, check, caller[q].row.backup /\ ~caller[q].row.activated)

\* runIndexerOnce, whose failure is logged only, and the answer.
RunIndexerOnce(q) ==
    /\ Calling(q, "index")
    /\ RowIndexed \/ UNCHANGED row
    /\ CallEnds(q)
    /\ UNCHANGED <<terms, deal, children, pool, mandate, tried, wronged>>

\* A refusal of the contract, an argument that is malformed, a receipt that does
\* not come or tells of a revert, a failing statement.
CallFails(q) ==
    /\ ~Calling(q, "idle")
    /\ CallEnds(q)
    /\ UNCHANGED <<terms, deal, row, children, pool, mandate, tried, wronged>>

-----------------------------------------------------------------------------
\* Funding by a mandate.

\* The amount is 1; the indexer puts 0 in its place.
RowAmount == IF row.amount THEN 1 ELSE 0

BuggyBindToEscrow(q) ==  \* a mandate that is stored already is taken for bound
    /\ Calling(q, "service") /\ "mandate" \in caller[q].may
    /\ \E m \in Mandates :
          /\ m.signer = "buyer" /\ m.to = "escrow" /\ m.value >= RowAmount
          /\ mandate' = [mandate EXCEPT ![m] = "bound"]
          /\ caller' = [caller EXCEPT ![q].pc = "authorize", ![q].mandate = m]
    /\ UNCHANGED <<terms, deal, row, children, pool, tried, wronged>>

\* BindToEscrow and CreateAP2Mandate: signed by the buyer, for this escrow and no
\* less than its amount.  The id comes from a hash of the whole envelope and is
\* unique, so that a mandate is stored once; the same authorization in another
\* envelope (type, payload, letters of the signature) is another mandate.
BindToEscrow(q) ==
    /\ Calling(q, "service") /\ "mandate" \in caller[q].may
    /\ \E m \in Mandates :
          /\ m.signer = "buyer" /\ m.to = "escrow" /\ m.value >= RowAmount
          /\ mandate[m] = "none"
          /\ mandate' = [mandate EXCEPT ![m] = "bound"]
          /\ caller' = [caller EXCEPT ![q].pc = "authorize", ![q].mandate = m]
    /\ UNCHANGED <<terms, deal, row, children, pool, tried, wronged>>

\* FundViaMandate: the token takes the authorization for the amount only, so
\* that a mandate for more is bound and never accepted.
FundWithAuthorization(q) ==
    /\ Calling(q, "authorize") /\ Len(pool) < MaxPool
    /\ Takes("fundWithAuthorization", NoIndex, terms.key) /\ caller[q].mandate.value = 1
    /\ pool' = Append(pool, [fn |-> "fundWithAuthorization", index |-> NoIndex, by |-> q, amount |-> TRUE])
    /\ tried' = [tried EXCEPT ![caller[q].mandate] = @ + 1]
    /\ CallGoto(q, "told")
    /\ UNCHANGED <<terms, deal, row, children, mandate, wronged>>

\* UpdateAP2MandateFunding: its failure is logged only.
UpdateMandate(q) ==
    /\ Calling(q, "told")
    /\ mandate' \in {mandate, [mandate EXCEPT ![caller[q].mandate] = "funded"]}
    /\ CallGoto(q, "index")
    /\ UNCHANGED <<terms, deal, row, children, pool, tried, wronged>>

CallStep(q) ==
    \/ HttpPayment(q) \/ HttpWork(q) \/ HttpRuling(q)
    \/ ToolPayment(q) \/ ToolWork(q) \/ ToolRuling(q) \/ CheckoutCall(q) \/ MandateCall(q)
    \/ FundEscrow(q) \/ DepositWorkerStake(q) \/ DepositVerifierStake(q) \/ WithdrawStake(q)
    \/ CancelBeforeFunding(q)
    \/ ValidateAttestations(q) \/ SubmitWork(q) \/ PersistAttestations(q)
    \/ ApproveWork(q) \/ VerifyAndApprove(q) \/ CastVerifierVote(q) \/ DisputeWork(q)
    \/ ResolveDispute(q)
    \/ ClaimTimeoutRefund(q) \/ ClaimArbitratorTimeout(q) \/ AbortRemainingMilestones(q)
    \/ ActivateBackup(q)
    \/ BindToEscrow(q) \/ FundWithAuthorization(q) \/ UpdateMandate(q)
    \/ RunIndexerOnce(q) \/ CallFails(q)

CallsNext ==
    \/ MineCall \/ PartyCalls \/ ChildCreated \/ Poll
    \/ \E q \in CallRequests : CallStep(q)

CallsSpec == CallsInit /\ [][CallsNext]_callVars

-----------------------------------------------------------------------------
\* Properties.

\* A check may stop a call that the contract would take only
\* - for the attestations, which the contract does not ask for
\*   (validateAttestationChain);
\* - on a point of the terms that the row does not have, as the row of an escrow
\*   that the indexer entered (handleEscrowCreated): its milestones, backup and
\*   stakes (validateMilestoneIndex, ActivateBackup, DepositWorkerStake);
\* - by the key, in the tool for submissions, as long as the row has not learned
\*   that the backup works (handleSubmitWork).
Excused(check) ==
    \/ check = "attestations"
    \/ check \in {"multi", "backup", "workerStake", "verifierStake"} /\ row[check] # terms[check]
    \/ check = "key" /\ deal.backup /\ terms.key = "backup"

\* The server refuses by itself nothing else that the contract would take: a row
\* that was created through the server, however far it lags behind, takes no right
\* from those who call through the service.
NoFalseRefusal == \A check \in wronged : Excused(check)

\* For a mandate the authorization is sent once, however often and by however many
\* requests its envelope is presented, and a mandate is called funded only when it
\* was (FundViaMandate).  The same authorization in another envelope is another
\* mandate: it may be sent again, and only the contract refuses it.
MandateSentOnce ==
    \A m \in Mandates : tried[m] <= 1 /\ (mandate[m] = "funded" => tried[m] = 1)
=============================================================================
