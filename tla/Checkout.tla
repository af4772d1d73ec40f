------------------------------ MODULE Checkout ------------------------------
\* UCP checkouts (internal/ucp): a session over an escrow, whose status is a
\* projection of the escrow's, and operations that are answered once for each
\* idempotency key.  Processes share the database and not the locks on keys.
\* One checkout, and the escrow it is about; the calls on the escrow are those
\* of module EscrowCalls: each sends one transaction, or fails and sends none.
EXTENDS Naturals, FiniteSets

CONSTANTS
    Processes,    \* servers over one database, of HTTP or of MCP
    Shoppers,     \* requests that may be under way at a time
    Keys,         \* idempotency keys; a request may have none
    NoKey,
    Reached,      \* bound: the statuses the escrow comes to by others
    MaxSent       \* bound on the transactions sent under a key

ASSUME CheckoutAssumption == NoKey \notin Keys /\ MaxSent \in Nat

VARIABLES
    escrow,    \* the escrow's status in the database, "none" before it is created
    session,   \* the row of ucp_sessions: the status in it
    answered,  \* ucp_idempotency
    locks,     \* idempotencyGuard of each process: who holds a key
    shopper,   \* what each request is at
    disputed,  \* keys under which two different answers were given
    sent       \* transactions sent, under each key by each process

checkoutVars == <<escrow, session, answered, locks, shopper, disputed, sent>>

Shop(pc, process, key, operation, status, projected) ==
    [pc |-> pc, process |-> process, key |-> key, operation |-> operation,
     escrow |-> status, projected |-> projected]

NotShopping == Shop("idle", "none", NoKey, "none", "none", "none")
NoAnswer == [escrow |-> "none", projected |-> "none", by |-> "none"]
NoSession == "none"

CheckoutInit ==
    /\ escrow \in {"none", "created", "submitted"}
    /\ session = NoSession
    /\ answered = [k \in Keys |-> NoAnswer]
    /\ locks = [p \in Processes |-> {}]
    /\ shopper = [s \in Shoppers |-> NotShopping]
    /\ disputed = {}
    /\ sent = [k \in Keys |-> [p \in Processes |-> 0]]

Shopping(s, pc) == shopper[s].pc = pc
ShopAt(s, r) == shopper' = [shopper EXCEPT ![s] = r]
ShopGoto(s, pc) == LET r == shopper[s]
                   IN  ShopAt(s, Shop(pc, r.process, r.key, r.operation, r.escrow, r.projected))

\* The answer, and the key is free for who waits.
ShopEnds(s) ==
    /\ ShopAt(s, NotShopping)
    /\ locks' = [locks EXCEPT ![shopper[s].process] = @ \ {shopper[s].key}]

ProjectStatus(status) ==
    CASE status = "settled"                     -> "completed"
      [] status \in {"cancelled", "refunded"}   -> "canceled"
      [] status = "disputed"                    -> "requires_escalation"
      [] status = "submitted"                   -> "ready_for_complete"
      [] status \in {"approved", "resolved"}    -> "complete_in_progress"
      [] OTHER                                  -> "incomplete"

\* The request has seen the escrow at that status.
ShopSees(s, pc, status) ==
    ShopAt(s, Shop(pc, shopper[s].process, shopper[s].key, "none", status, ProjectStatus(status)))

\* The parties and the indexer move the escrow on.
Moves == [none |-> {}, created |-> {"funded", "cancelled"}, funded |-> {"submitted", "refunded"},
          submitted |-> {"disputed", "settled"}, disputed |-> {"settled", "refunded"},
          settled |-> {}, refunded |-> {}, cancelled |-> {}]

EscrowMoves ==
    /\ escrow' \in Moves[escrow] \cap Reached
    /\ UNCHANGED <<session, answered, locks, shopper, disputed, sent>>

-----------------------------------------------------------------------------
\* withIdempotency.

Request(s, p, operation) ==
    /\ Shopping(s, "idle")
    /\ \E k \in Keys \cup {NoKey} :
          ShopAt(s, Shop(IF k = NoKey THEN "read" ELSE "acquire", p, k, operation, "none", "none"))
    /\ UNCHANGED <<escrow, session, answered, locks, disputed, sent>>

BuggyAcquire(s) ==  \* the lock is not shared
    /\ Shopping(s, "acquire")
    /\ ShopGoto(s, "lookup")
    /\ UNCHANGED <<escrow, session, answered, locks, disputed, sent>>

\* One holder of a key in a process.
Acquire(s) ==
    /\ Shopping(s, "acquire") /\ shopper[s].key \notin locks[shopper[s].process]
    /\ locks' = [locks EXCEPT ![shopper[s].process] = @ \cup {shopper[s].key}]
    /\ ShopGoto(s, "lookup")
    /\ UNCHANGED <<escrow, session, answered, disputed, sent>>

\* A key that is answered gives the same answer again, or a conflict to another
\* request; the checkout it is for is not part of the comparison.
Lookup(s) ==
    /\ Shopping(s, "lookup")
    /\ IF answered[shopper[s].key] = NoAnswer
       THEN ShopGoto(s, "read") /\ UNCHANGED locks
       ELSE ShopEnds(s)
    /\ UNCHANGED <<escrow, session, answered, disputed, sent>>

-----------------------------------------------------------------------------
\* What is done once for a key.

\* The session and the escrow.
ReadCheckout(s) ==
    /\ Shopping(s, "read") /\ shopper[s].operation # "create"
    /\ session # NoSession
    /\ ShopSees(s, shopper[s].operation, escrow)
    /\ UNCHANGED <<escrow, session, answered, locks, disputed, sent>>

\* A transaction is sent; then the escrow is read again.
SendsTx(s) ==
    LET r == shopper[s]
    IN  /\ IF r.key = NoKey THEN UNCHANGED sent
           ELSE /\ sent[r.key][r.process] < MaxSent
                /\ sent' = [sent EXCEPT ![r.key][r.process] = @ + 1]
        /\ ShopGoto(s, "refresh")
        /\ UNCHANGED <<escrow, session, answered, locks, disputed>>

\* The escrow that is named, or a new one (createEscrowFromPayload).
CreateEscrow(s) ==
    /\ Shopping(s, "read") /\ shopper[s].operation = "create"
    /\ \/ escrow # "none" /\ UNCHANGED <<escrow, sent>>
       \/ /\ escrow = "none" /\ escrow' = "created"
          /\ IF shopper[s].key = NoKey THEN UNCHANGED sent
             ELSE sent' = [sent EXCEPT ![shopper[s].key][shopper[s].process] = @ + 1]
    /\ ShopSees(s, "session", escrow')
    /\ UNCHANGED <<session, answered, locks, disputed>>

\* CreateUCPSession: a checkout id is unique.  Then, if asked to, it is funded.
CreateSession(s) ==
    /\ Shopping(s, "session") /\ session = NoSession
    /\ session' = shopper[s].projected
    /\ \/ ShopGoto(s, "store")
       \/ shopper[s].escrow = "created" /\ ShopGoto(s, "autofund")
    /\ UNCHANGED <<escrow, answered, locks, disputed, sent>>

AutoFund(s) == Shopping(s, "autofund") /\ SendsTx(s)

\* Any of the service's operations, by name.
UpdateCheckout(s) == Shopping(s, "update") /\ SendsTx(s)

\* Work that is ready is approved or verified, if the request says how; all else
\* is only looked at.
CompleteCheckout(s) ==
    /\ Shopping(s, "complete")
    /\ \/ shopper[s].projected = "ready_for_complete" /\ SendsTx(s)
       \/ /\ ShopGoto(s, IF shopper[s].projected = "ready_for_complete" THEN "refresh" ELSE "save")
          /\ UNCHANGED <<escrow, session, answered, locks, disputed, sent>>

\* Not what is settled; what is cancelled or refunded stays.  The call is the one
\* for the status: a cancellation, a timeout, or an arbitrator's timeout.
CancelCheckout(s) ==
    /\ Shopping(s, "cancel")
    /\ \/ /\ shopper[s].escrow \in {"cancelled", "refunded"}
          /\ ShopGoto(s, "refresh")
          /\ UNCHANGED <<escrow, session, answered, locks, disputed, sent>>
       \/ shopper[s].escrow \notin {"settled", "cancelled", "refunded"} /\ SendsTx(s)

Refresh(s) ==
    /\ Shopping(s, "refresh")
    /\ ShopSees(s, "save", escrow)
    /\ UNCHANGED <<escrow, session, answered, locks, disputed, sent>>

\* UpdateUCPSessionProjection.
SaveProjection(s) ==
    /\ Shopping(s, "save")
    /\ session' = shopper[s].projected
    /\ ShopGoto(s, "store")
    /\ UNCHANGED <<escrow, answered, locks, disputed, sent>>

Answer(s) == [escrow |-> shopper[s].escrow, projected |-> shopper[s].projected,
              by |-> shopper[s].process]

BuggyStoreAnswer(s) ==  \* a key that is taken meanwhile is not noticed
    LET k == shopper[s].key
    IN  /\ Shopping(s, "store") /\ k # NoKey
        /\ answered' = [answered EXCEPT ![k] = IF @ = NoAnswer THEN Answer(s) ELSE @]
        /\ disputed' = disputed \cup {j \in {k} : answered'[k] # Answer(s)}
        /\ ShopEnds(s)
        /\ UNCHANGED <<escrow, session, sent>>

\* CreateUCPIdempotency, and the answer; without a key there is nothing to store.
StoreAnswer(s) ==
    LET k == shopper[s].key
    IN  /\ Shopping(s, "store")
        /\ IF k = NoKey THEN UNCHANGED <<answered, disputed>>
           ELSE /\ answered[k] = NoAnswer
                /\ answered' = [answered EXCEPT ![k] = Answer(s)]
                /\ disputed' = disputed \cup {j \in {k} : answered'[k] # Answer(s)}
        /\ ShopEnds(s)
        /\ UNCHANGED <<escrow, session, sent>>

\* A refusal of the request or of the chain, a failing statement, a duplicate:
\* what was sent stays sent, and no answer is stored.
ShopFails(s) ==
    /\ ~Shopping(s, "idle") /\ ~Shopping(s, "acquire")
    /\ ShopEnds(s)
    /\ UNCHANGED <<escrow, session, answered, disputed, sent>>

\* GetCheckout: it answers what it projects, and writes back the rest of the
\* session as it read it.
GetReads(s) ==
    /\ Shopping(s, "idle") /\ session # NoSession
    /\ \E p \in Processes :
          ShopAt(s, Shop("project", p, NoKey, "none", "none", session))
    /\ UNCHANGED <<escrow, session, answered, locks, disputed, sent>>

GetProjects(s) ==
    /\ Shopping(s, "project")
    /\ ShopSees(s, IF shopper[s].projected = ProjectStatus(escrow) THEN "store" ELSE "save", escrow)
    /\ UNCHANGED <<escrow, session, answered, locks, disputed, sent>>

\* A process stops; its requests and locks are gone.
ProcessStops ==
    \E p \in Processes :
        /\ shopper' = [s \in Shoppers |-> IF shopper[s].process = p THEN NotShopping ELSE shopper[s]]
        /\ locks' = [locks EXCEPT ![p] = {}]
        /\ UNCHANGED <<escrow, session, answered, disputed, sent>>

CheckoutNext ==
    \/ EscrowMoves \/ ProcessStops
    \/ \E s \in Shoppers :
          \/ \E p \in Processes, operation \in {"create", "update", "complete", "cancel"} :
                Request(s, p, operation)
          \/ Acquire(s) \/ Lookup(s) \/ ReadCheckout(s)
          \/ CreateEscrow(s) \/ CreateSession(s) \/ AutoFund(s)
          \/ UpdateCheckout(s) \/ CompleteCheckout(s) \/ CancelCheckout(s)
          \/ Refresh(s) \/ SaveProjection(s) \/ StoreAnswer(s) \/ ShopFails(s)
          \/ GetReads(s) \/ GetProjects(s)

CheckoutSpec == CheckoutInit /\ [][CheckoutNext]_checkoutVars

-----------------------------------------------------------------------------
\* Properties.

\* Two successes under one key are the same answer, whichever process gives it
\* (withIdempotency, CreateUCPIdempotency).
OneAnswerPerKey == disputed = {}

\* Once a process has stored the answer under a key, it sends nothing more under
\* that key: its waiting duplicates find the answer (idempotencyGuard).
AnsweredKeySpent ==
    [][\A k \in Keys : answered[k] # NoAnswer =>
          sent'[k][answered[k].by] = sent[k][answered[k].by]]_sent
=============================================================================
