------------------------------ MODULE Bidding ------------------------------
\* Sealed bidding: requests for quotes, commitments, reveals, the choice of the
\* best bid, its acceptance as an escrow, and the discipline of bidders who do
\* not reveal.  Handlers run side by side on one database; a step of a handler
\* is one statement or transaction, one call of the chain, or a refusal.
\* What a request brings is chosen where it is first used, and what its handler
\* has read is forgotten where it is used last.
EXTENDS Naturals, FiniteSets, Sequences

CONSTANTS
    RFQs, Bidders, Nonces,
    Requests,        \* handlers at work
    Terms,           \* what a commitment opens to: [amount, duration, life]
    None,            \* no RFQ, bidder or nonce
    Modes,           \* bidding modes, "sealed" and "open"
    Demands,         \* whether an RFQ requires credentials
    Parents,         \* whether it is under the parent escrow
    CommitTime, RevealTime, OpenTime,  \* deadlines, counted from publication
    Cooldowns,       \* the cooldowns after one, two, and more strikes
    RebidCooldown,   \* between RFQs under one parent escrow
    CommitLimit, CommitWindow,         \* the rate limit of commits
    LastPublished, MaxTime, MaxCommits, MaxEscrows, MaxFailures  \* bounds

ASSUME BiddingAssumption ==
    /\ CommitTime \in Nat \ {0} /\ RevealTime \in Nat /\ OpenTime \in Nat
    /\ CommitTime <= RevealTime /\ RevealTime <= OpenTime
    /\ Cooldowns \in [1..3 -> Nat] /\ RebidCooldown \in Nat
    /\ CommitLimit \in Nat /\ CommitWindow \in Nat
    /\ None \notin RFQs \cup Bidders \cup Nonces
    /\ Modes \subseteq {"sealed", "open"} /\ Demands \subseteq BOOLEAN
    /\ Parents \subseteq BOOLEAN
    /\ LastPublished \in Nat /\ MaxTime \in Nat
    /\ MaxCommits \in Nat /\ MaxEscrows \in Nat /\ MaxFailures \in Nat
    /\ \A t \in Terms : t.amount \in Nat /\ t.duration \in Nat /\ t.life \in 0..OpenTime
    /\ IsFiniteSet(RFQs)

VARIABLES
    now,
    rfq,      \* rfqs: the RFQ's status, mode, requirement, parent and outcome
    commit,   \* bid_commits, by RFQ, bidder and nonce
    bid,      \* bids; the place in the sequence is the id
    strikes, cooldown,  \* sealed_bidder_discipline
    escrow,   \* on the chain: the bid each escrow was created for
    indexed,  \* the escrows the indexer has entered
    request,  \* what each handler is at
    failures  \* how often a statement failed a handler after it had written

dbVars == <<rfq, commit, bid, strikes, cooldown>>
chainVars == <<escrow, indexed>>
vars == <<now, dbVars, chainVars, request, failures>>

Finals == {"finalized", "no_valid_reveals"}

\* The row of an RFQ: its status, what it was published with, what was decided.
RFQ(s, mode, requires, parented, opened, outcome, best, finalizedAt) ==
    [status |-> s, mode |-> mode, requires |-> requires, parented |-> parented, opened |-> opened,
     outcome |-> outcome, best |-> best, finalizedAt |-> finalizedAt]

NoRFQ == RFQ("none", "open", FALSE, FALSE, 0, "commit_open", 0, 0)
WithStatus(f, s) == RFQ(s, f.mode, f.requires, f.parented, f.opened, f.outcome, f.best, f.finalizedAt)
WithOutcome(f, best, t) ==
    RFQ(f.status, f.mode, f.requires, f.parented, f.opened,
        IF best = 0 THEN "no_valid_reveals" ELSE "finalized", best, t)

\* A handler that commits, reveals or cancels; "at" is a time it has read.
Bidder(pc, r, b, n, at) ==
    [pc |-> pc, rfq |-> r, bidder |-> b, nonce |-> n, accepts |-> FALSE, at |-> at,
     finalAt |-> 0, bid |-> 0, escrow |-> 0]

Idle == Bidder("idle", None, None, None, 0)
Canceller(pc, r) == Bidder(pc, r, None, None, 0)

\* A handler that finalises, and accepts a bid if that is its request.
Decider(pc, r, accepts, at, finalAt) ==
    [pc |-> pc, rfq |-> r, bidder |-> None, nonce |-> None, accepts |-> accepts, at |-> at,
     finalAt |-> finalAt, bid |-> 0, escrow |-> 0]
Accepter(pc, r, at, i, e) ==
    [pc |-> pc, rfq |-> r, bidder |-> None, nonce |-> None, accepts |-> TRUE, at |-> at,
     finalAt |-> 0, bid |-> i, escrow |-> e]

Init ==
    /\ now = 0
    /\ rfq = [r \in RFQs |-> NoRFQ]
    /\ commit = << >> /\ bid = << >>
    /\ strikes = [b \in Bidders |-> 0] /\ cooldown = [b \in Bidders |-> 0]
    /\ escrow = << >> /\ indexed = {}
    /\ request = [q \in Requests |-> Idle] /\ failures = 0

Max2(a, b) == IF a > b THEN a ELSE b
Min2(a, b) == IF a < b THEN a ELSE b

CommitDeadline(r) == rfq[r].opened + CommitTime
RevealDeadline(r) == rfq[r].opened + RevealTime
Deadline(r) == rfq[r].opened + OpenTime

At(q, pc) == request[q].pc = pc
HandlerAt(q, h) == request' = [request EXCEPT ![q] = h]
Ends(q) == HandlerAt(q, Idle)

RequestOnly == UNCHANGED <<now, dbVars, chainVars, failures>>
Fails == failures < MaxFailures /\ failures' = failures + 1

-----------------------------------------------------------------------------
\* Publication.

Tick ==
    /\ now < MaxTime /\ now' = now + 1
    /\ UNCHANGED <<dbVars, chainVars, request, failures>>

\* CreateRFQ: the cooldown of the parent is read in the transaction that inserts.
Publish(r) ==
    \E mode \in Modes, requires \in Demands, parented \in Parents :
        /\ rfq[r].status = "none" /\ now <= LastPublished
        /\ parented => \A s \in RFQs : rfq[s].status # "none" /\ rfq[s].parented
                                           => rfq[s].opened + RebidCooldown <= now
        /\ rfq' = [rfq EXCEPT ![r] = RFQ("open", mode, requires, parented, now, "commit_open", 0, 0)]
        /\ UNCHANGED <<now, commit, bid, strikes, cooldown, chainVars, request, failures>>

-----------------------------------------------------------------------------
\* Commitments.

Row(r, b, n) == <<r, b, n>>

\* A row, what it opens to, when it was entered, and the bid that opened it.
Commitment(s, terms, at, i) == [status |-> s, terms |-> terms, at |-> at, bid |-> i]
Turned(c, s) == Commitment(s, c.terms, c.at, c.bid)
Revealed(c, i) == Commitment("revealed", c.terms, c.at, i)

CommitsOf(r) == {k \in DOMAIN commit : k[1] = r}

\* The commits of RFQ r in the given statuses take the status s.
Mark(r, from, s) ==
    [k \in DOMAIN commit |-> IF k[1] = r /\ commit[k].status \in from
                             THEN Turned(commit[k], s) ELSE commit[k]]

Recent(r, b) ==
    {k \in CommitsOf(r) : k[2] = b /\ commit[k].at + CommitWindow >= now}

\* CommitBid up to its transaction.
CommitStart(q) ==
    \E r \in RFQs, b \in Bidders :
        /\ At(q, "idle")
        /\ rfq[r].status = "open" /\ now < CommitDeadline(r)
        /\ Cardinality(Recent(r, b)) < CommitLimit
        /\ HandlerAt(q, Bidder("insert", r, b, None, now))
        /\ RequestOnly

\* The rest: a sealed RFQ refuses a bidder on cooldown (by the time the handler
\* read); the new commitment supersedes the bidder's open one; nonces are unique.
CommitInsert(q) ==
    \E n \in Nonces, t \in Terms :
        LET r == request[q].rfq
            b == request[q].bidder
            open == {k \in CommitsOf(r) : k[2] = b /\ commit[k].status = "committed"}
        IN  /\ At(q, "insert")
            /\ Cardinality(DOMAIN commit) < MaxCommits
            /\ Row(r, b, n) \notin DOMAIN commit
            /\ rfq[r].mode = "sealed" => cooldown[b] <= request[q].at
            /\ commit' = [k \in DOMAIN commit \cup {Row(r, b, n)} |->
                            IF k = Row(r, b, n)
                            THEN Commitment("committed", t, now, 0)
                            ELSE IF k \in open THEN Turned(commit[k], "superseded")
                            ELSE commit[k]]
            /\ Ends(q)
            /\ UNCHANGED <<now, rfq, bid, strikes, cooldown, chainVars, failures>>

\* A cooldown or a nonce used before: the transaction is rolled back.
CommitRefused(q) ==
    /\ At(q, "insert")
    /\ \/ /\ rfq[request[q].rfq].mode = "sealed"
          /\ cooldown[request[q].bidder] > request[q].at
       \/ \E n \in Nonces : Row(request[q].rfq, request[q].bidder, n) \in DOMAIN commit
    /\ Ends(q)
    /\ RequestOnly

-----------------------------------------------------------------------------
\* Reveals.

\* RevealBid reads the RFQ and the time; after the deadline it expires the
\* commits of the RFQ, everybody's, and fails.
RevealStart(q) ==
    \E r \in RFQs, b \in Bidders :
        /\ At(q, "idle")
        /\ rfq[r].status = "open" /\ now >= CommitDeadline(r)
        /\ HandlerAt(q, Bidder(IF now > RevealDeadline(r) THEN "expire" ELSE "find", r, b, None, now))
        /\ RequestOnly

LateReveal(q) ==
    /\ At(q, "expire")
    /\ commit' = Mark(request[q].rfq, {"committed"}, "expired")
    /\ Ends(q)
    /\ UNCHANGED <<now, rfq, bid, strikes, cooldown, chainVars, failures>>

\* GetBidCommitByRFQBidderNonce: the commit that the bid must open.
FindCommit(q) ==
    \E n \in Nonces :
        LET k == Row(request[q].rfq, request[q].bidder, n)
        IN  /\ At(q, "find")
            /\ k \in DOMAIN commit /\ commit[k].status = "committed"
            /\ rfq[request[q].rfq].opened + commit[k].terms.life > request[q].at
            /\ HandlerAt(q, Bidder("reveal", request[q].rfq, request[q].bidder, n, 0))
            /\ RequestOnly

\* Another nonce or salt, another state of the commit, a bid that has expired.
NothingToReveal(q) ==
    /\ At(q, "find")
    /\ Ends(q)
    /\ RequestOnly

\* The row of a bid.
Bid(r, terms, expires, verified, s, e) ==
    [rfq |-> r, terms |-> terms, expires |-> expires, verified |-> verified, status |-> s, escrow |-> e]
Marked(b, s, e) == Bid(b.rfq, b.terms, b.expires, b.verified, s, e)

BuggyReveal(q) ==  \* the commit's row is updated whatever its status has become
    LET r == request[q].rfq
        k == Row(r, request[q].bidder, request[q].nonce)
    IN  /\ At(q, "reveal")
        /\ bid' = Append(bid, Bid(r, commit[k].terms, rfq[r].opened + commit[k].terms.life,
                                   TRUE, "pending", 0))
        /\ commit' = [commit EXCEPT ![k] = Revealed(commit[k], Len(bid) + 1)]
        /\ Ends(q)
        /\ UNCHANGED <<now, rfq, strikes, cooldown, chainVars, failures>>

\* CreateBidTx and UpdateBidCommitRevealTx in one transaction, which is rolled
\* back when the commit is no longer "committed".
Reveal(q) ==
    LET r == request[q].rfq
        k == Row(r, request[q].bidder, request[q].nonce)
    IN  /\ At(q, "reveal")
        /\ IF commit[k].status = "committed"
           THEN \E verified \in BOOLEAN :
                  /\ ~rfq[r].requires => verified
                  /\ bid' = Append(bid, Bid(r, commit[k].terms, rfq[r].opened + commit[k].terms.life,
                                             verified, "pending", 0))
                  /\ commit' = [commit EXCEPT ![k] = Revealed(commit[k], Len(bid) + 1)]
           ELSE UNCHANGED <<bid, commit>>
        /\ Ends(q)
        /\ UNCHANGED <<now, rfq, strikes, cooldown, chainVars, failures>>

-----------------------------------------------------------------------------
\* The choice of the best bid.

BidsOf(r) == {i \in DOMAIN bid : bid[i].rfq = r}

\* The commit a bid opened (GetBidCommitByRevealedBidID).
Opened(i) == {k \in DOMAIN commit : commit[k].bid = i}

\* sortSealedBidCandidates: amount, duration, commit time, id.
Before(i, j) ==
    LET ki == CHOOSE k \in Opened(i) : TRUE
        kj == CHOOSE k \in Opened(j) : TRUE
        ti == bid[i].terms
        tj == bid[j].terms
    IN  \/ ti.amount < tj.amount
        \/ /\ ti.amount = tj.amount
           /\ \/ ti.duration < tj.duration
              \/ /\ ti.duration = tj.duration
                 /\ \/ commit[ki].at < commit[kj].at
                    \/ commit[ki].at = commit[kj].at /\ i < j

BestOf(candidates) ==
    IF candidates = {} THEN 0
    ELSE CHOOSE i \in candidates : \A j \in candidates \ {i} : Before(i, j)

\* eligibleSealedBidCandidatesOn.
Eligible(r, t) ==
    {i \in BidsOf(r) :
        /\ bid[i].status = "pending" /\ bid[i].expires > t
        /\ rfq[r].requires => bid[i].verified
        /\ \E k \in Opened(i) : commit[k].status = "revealed"}

\* The bidders of RFQ r with a commit that is still unrevealed.
Silent(r) == {b \in Bidders : \E k \in CommitsOf(r) : k[2] = b /\ commit[k].status = "committed"}

CooldownAfter(n) == Cooldowns[Min2(Max2(n, 1), 3)]

BuggySummarised(q, best) ==  \* any bid of the RFQ is accepted
    IF request[q].accepts
    THEN \E i \in {best} \cup BidsOf(request[q].rfq) :
           HandlerAt(q, Accepter("check", request[q].rfq, request[q].at, i, 0))
    ELSE Ends(q)

\* AcceptBid goes on with the best bid of the summary, the others are done.
Summarised(q, best) ==
    IF request[q].accepts
    THEN HandlerAt(q, Accepter("check", request[q].rfq, request[q].at, best, 0))
    ELSE Ends(q)

Decided(r) == rfq[r].status # "open" \/ rfq[r].outcome \in Finals

\* ListBids and GetRFQ finalise an RFQ whose reveal phase has ended; of one that
\* is decided or not open they only report what it says.
Look(q) ==
    \E r \in RFQs :
        /\ At(q, "idle")
        /\ ~Decided(r) /\ rfq[r].mode = "sealed" /\ now > RevealDeadline(r)
        /\ HandlerAt(q, Decider("finalize", r, FALSE, 0, now))
        /\ RequestOnly

\* AcceptBid has FinalizeSealedBidding read the RFQ and the time again.
FinalizeRead(q) ==
    LET r == request[q].rfq
    IN  /\ At(q, "look")
        /\ IF Decided(r)
           THEN Summarised(q, rfq[r].best)
           ELSE HandlerAt(q, Decider("finalize", r, TRUE, request[q].at, now))
        /\ RequestOnly

BuggyFinalizeKeepsCommits(q) ==  \* the commits of the silent bidders are not marked
    LET r == request[q].rfq
        t == request[q].finalAt
        best == BestOf(Eligible(r, t))
        silent == Silent(r)
    IN  /\ At(q, "finalize")
        /\ IF Decided(r)
           THEN UNCHANGED <<rfq, commit, strikes, cooldown>> /\ Summarised(q, rfq[r].best)
           ELSE /\ strikes' = [b \in Bidders |-> IF b \in silent THEN strikes[b] + 1 ELSE strikes[b]]
                /\ cooldown' = [b \in Bidders |->
                     IF b \in silent THEN Max2(cooldown[b], t + CooldownAfter(strikes[b] + 1))
                     ELSE cooldown[b]]
                /\ commit' = commit
                /\ rfq' = [rfq EXCEPT ![r] = WithOutcome(rfq[r], best, t)]
                /\ Summarised(q, best)
        /\ UNCHANGED <<now, bid, chainVars, failures>>

BuggyFinalizeAgain(q) ==  \* the RFQ is not read again in the transaction
    LET r == request[q].rfq
        t == request[q].finalAt
        best == BestOf(Eligible(r, t))
        silent == Silent(r)
    IN  /\ At(q, "finalize")
        /\ strikes' = [b \in Bidders |-> IF b \in silent THEN strikes[b] + 1 ELSE strikes[b]]
        /\ cooldown' = [b \in Bidders |->
             IF b \in silent THEN Max2(cooldown[b], t + CooldownAfter(strikes[b] + 1))
             ELSE cooldown[b]]
        /\ commit' = Mark(r, {"committed"}, "expired")
        /\ rfq' = [rfq EXCEPT ![r] = WithOutcome(rfq[r], best, t)]
        /\ Summarised(q, best)
        /\ UNCHANGED <<now, bid, chainVars, failures>>

\* Its immediate transaction.  Who was silent gets one strike and a cooldown.
Finalize(q) ==
    LET r == request[q].rfq
        t == request[q].finalAt
        best == BestOf(Eligible(r, t))
        silent == Silent(r)
    IN  /\ At(q, "finalize")
        /\ IF Decided(r)
           THEN UNCHANGED <<rfq, commit, strikes, cooldown>> /\ Summarised(q, rfq[r].best)
           ELSE /\ strikes' = [b \in Bidders |-> IF b \in silent THEN strikes[b] + 1 ELSE strikes[b]]
                /\ cooldown' = [b \in Bidders |->
                     IF b \in silent THEN Max2(cooldown[b], t + CooldownAfter(strikes[b] + 1))
                     ELSE cooldown[b]]
                /\ commit' = Mark(r, {"committed"}, "expired")
                /\ rfq' = [rfq EXCEPT ![r] = WithOutcome(rfq[r], best, t)]
                /\ Summarised(q, best)
        /\ UNCHANGED <<now, bid, chainVars, failures>>

-----------------------------------------------------------------------------
\* Acceptance.

\* An RFQ in open mode is refused later, since it has no verifier.
AcceptStart(q) ==
    \E r \in RFQs :
        /\ At(q, "idle")
        /\ rfq[r].status = "open" /\ rfq[r].mode = "sealed"
        /\ now > RevealDeadline(r) /\ now < Deadline(r)
        /\ HandlerAt(q, Decider("look", r, TRUE, now, 0))
        /\ RequestOnly

\* The checks of the bid after the RFQ is finalised, by the time the handler
\* began; the RFQ's status is not looked at again.
Acceptable(q, i) ==
    /\ i # 0 /\ bid[i].status = "pending" /\ bid[i].expires > request[q].at
    /\ rfq[bid[i].rfq].requires => bid[i].verified
    /\ \E k \in Opened(i) : commit[k].status = "revealed"

AcceptCheck(q) ==
    /\ At(q, "check")
    /\ IF Acceptable(q, request[q].bid)
       THEN HandlerAt(q, Accepter("create", request[q].rfq, 0, request[q].bid, 0))
       ELSE Ends(q)
    /\ RequestOnly

\* The chain creates the escrow.
Create(q) ==
    /\ At(q, "create") /\ Len(escrow) < MaxEscrows
    /\ escrow' = Append(escrow, request[q].bid)
    /\ HandlerAt(q, Accepter("record", request[q].rfq, 0, request[q].bid, Len(escrow) + 1))
    /\ UNCHANGED <<now, dbVars, indexed, failures>>

\* Or it does, and the sender sees an error.
CreateMisreported(q) ==
    /\ At(q, "create") /\ Len(escrow) < MaxEscrows
    /\ Fails
    /\ escrow' = Append(escrow, request[q].bid)
    /\ Ends(q)
    /\ UNCHANGED <<now, dbVars, indexed>>

\* The transaction that records the acceptance.  It fails when the escrow's
\* address has a row, or when the bid is no longer pending (AcceptBidTx).
Record(q) ==
    LET i == request[q].bid
        r == request[q].rfq
    IN  /\ At(q, "record")
        /\ IF request[q].escrow \in indexed \/ bid[i].status # "pending"
           THEN UNCHANGED <<rfq, bid, commit>>
           ELSE /\ bid' = [j \in DOMAIN bid |->
                     IF j = i THEN Marked(bid[j], "accepted", request[q].escrow)
                     ELSE IF bid[j].rfq = r /\ bid[j].status = "pending"
                     THEN Marked(bid[j], "rejected", bid[j].escrow) ELSE bid[j]]
                /\ rfq' = [rfq EXCEPT ![r] = WithStatus(rfq[r], "closed")]
                /\ commit' = [k \in DOMAIN commit |->
                     IF k \in Opened(i) THEN Turned(commit[k], "accepted")
                     ELSE Mark(r, {"committed", "revealed"}, "rejected")[k]]
        /\ Ends(q)
        /\ UNCHANGED <<now, strikes, cooldown, chainVars, failures>>

\* handleEscrowCreated, which skips an address that has a row.
IndexerInserts(e) ==
    /\ e \in DOMAIN escrow \ indexed
    /\ \A i \in DOMAIN bid : bid[i].escrow # e
    /\ indexed' = indexed \cup {e}
    /\ UNCHANGED <<now, dbVars, escrow, request, failures>>

-----------------------------------------------------------------------------
\* Cancellation: three statements, none of which looks at what it changes.

CancelStart(q) ==
    \E r \in RFQs :
        /\ At(q, "idle")
        /\ rfq[r].status = "open"
        /\ HandlerAt(q, Canceller("cancel", r))
        /\ RequestOnly

SetStatus(q, s) ==
    /\ rfq' = [rfq EXCEPT ![request[q].rfq] = WithStatus(rfq[request[q].rfq], s)]
    /\ UNCHANGED <<now, commit, bid, strikes, cooldown, chainVars, failures>>

CancelRFQ(q) ==
    /\ At(q, "cancel")
    /\ SetStatus(q, "cancelled")
    /\ HandlerAt(q, Canceller("reject_bids", request[q].rfq))

CancelBids(q) ==
    /\ At(q, "reject_bids")
    /\ bid' = [i \in DOMAIN bid |->
         IF bid[i].rfq = request[q].rfq /\ bid[i].status = "pending"
         THEN Marked(bid[i], "rejected", bid[i].escrow) ELSE bid[i]]
    /\ HandlerAt(q, Canceller("reject_commits", request[q].rfq))
    /\ UNCHANGED <<now, rfq, commit, strikes, cooldown, chainVars, failures>>

CancelBidsFails(q) ==
    /\ At(q, "reject_bids")
    /\ Fails
    /\ HandlerAt(q, Canceller("reopen", request[q].rfq))
    /\ UNCHANGED <<now, dbVars, chainVars>>

Reopen(q) ==
    /\ At(q, "reopen")
    /\ SetStatus(q, "open")
    /\ Ends(q)

CancelCommits(q) ==
    /\ At(q, "reject_commits")
    /\ commit' = Mark(request[q].rfq, {"committed", "revealed"}, "rejected")
    /\ Ends(q)
    /\ UNCHANGED <<now, rfq, bid, strikes, cooldown, chainVars, failures>>

\* A handler stops between two of its writes: its client goes away, or the
\* database, the chain or the server fails it.  One that has written nothing, or
\* everything, leaves nothing behind.
GivesUp(q) ==
    /\ request[q].pc \in {"record", "reject_bids", "reopen", "reject_commits"}
    /\ Fails
    /\ Ends(q)
    /\ UNCHANGED <<now, dbVars, chainVars>>

Bids(q) ==
    \/ CommitStart(q) \/ CommitInsert(q) \/ CommitRefused(q)
    \/ RevealStart(q) \/ LateReveal(q) \/ FindCommit(q) \/ NothingToReveal(q) \/ Reveal(q)

Decides(q) ==
    \/ Look(q) \/ FinalizeRead(q) \/ Finalize(q)
    \/ AcceptStart(q) \/ AcceptCheck(q) \/ Create(q) \/ CreateMisreported(q) \/ Record(q)

Cancels(q) ==
    \/ CancelStart(q) \/ CancelRFQ(q) \/ CancelBids(q) \/ CancelBidsFails(q) \/ Reopen(q)
    \/ CancelCommits(q)

Next ==
    \/ Tick
    \/ \E r \in RFQs : Publish(r)
    \/ \E q \in Requests : Bids(q) \/ Decides(q) \/ Cancels(q) \/ GivesUp(q)
    \/ \E e \in DOMAIN escrow : IndexerInserts(e)

Spec == Init /\ [][Next]_vars

-----------------------------------------------------------------------------
\* Properties.

\* The commitment of bid i was entered before its RFQ could be finalised; a
\* handler that read the time and then waited can enter one later.
OnTime(i) == \A k \in Opened(i) : commit[k].at <= RevealDeadline(bid[i].rfq)

\* The bids that compete for RFQ r as it was finalised.  A cancellation that
\* another one took back may have rejected the commit of a pending bid.
Standing(r) ==
    {i \in BidsOf(r) :
        /\ bid[i].status \in {"pending", "accepted"} /\ OnTime(i)
        /\ bid[i].expires > rfq[r].finalizedAt
        /\ rfq[r].requires => bid[i].verified
        /\ \E k \in Opened(i) : commit[k].status \in {"revealed", "accepted"}}

\* The choice stays right: after the finalisation no competing bid is or becomes
\* better than the selected one (FinalizeSealedBidding, and the reveal that waits
\* for its transaction).
WinnerIsBest ==
    \A r \in RFQs : rfq[r].outcome \in Finals =>
        \A i \in Standing(r) : rfq[r].best # 0 /\ (i = rfq[r].best \/ Before(rfq[r].best, i))

\* A commitment is opened once: bids and revealed commits belong to one another
\* one to one, and an accepted bid has an accepted commit (RevealBid, AcceptBid).
RevealedOnce ==
    /\ \A i \in DOMAIN bid : Cardinality(Opened(i)) = 1
    /\ \A k \in DOMAIN commit :
         /\ commit[k].status \in {"revealed", "accepted"} => commit[k].bid \in DOMAIN bid
         /\ commit[k].bid # 0 => (commit[k].status = "accepted") = (bid[commit[k].bid].status = "accepted")

\* Whatever acceptances, cancellations and failures come together, only the
\* selected bid becomes accepted, with an escrow made for it, and nobody who
\* lost gets an escrow on the chain (AcceptBid).
OnlyWinnerPaid ==
    /\ RevealedOnce
    /\ \A i \in DOMAIN bid : bid[i].status = "accepted" =>
         /\ rfq[bid[i].rfq].best = i
         /\ bid[i].escrow \in DOMAIN escrow /\ escrow[bid[i].escrow] = i
    /\ \A e \in DOMAIN escrow : rfq[bid[escrow[e]].rfq].best = escrow[e]

\* One silence is one strike, however many handlers finalise the RFQ: nobody has
\* more strikes than finalised RFQs in which a commit of theirs expired.
StrikesFair ==
    \A b \in Bidders :
        strikes[b] <= Cardinality({r \in RFQs : /\ rfq[r].outcome \in Finals
                                                /\ \E k \in CommitsOf(r) : k[2] = b
                                                       /\ commit[k].status = "expired"})

\* The outcome of a finalised RFQ never changes, and neither does it take back
\* an acceptance.
OutcomeStays ==
    [][/\ \A r \in RFQs : rfq[r].outcome \in Finals =>
            /\ rfq'[r].outcome = rfq[r].outcome /\ rfq'[r].best = rfq[r].best
            /\ rfq'[r].finalizedAt = rfq[r].finalizedAt
       /\ \A i \in DOMAIN bid : bid[i].status # "pending" => bid'[i].status = bid[i].status]_vars
=============================================================================
