--------------------------- MODULE BiddingProofs ---------------------------
\* Proofs about sealed bidding, for any number of RFQs, bidders, nonces, terms,
\* handlers and failures, and for every time limit.
EXTENDS Bidding, FiniteSetTheorems, WellFoundedInduction, TLAPS

-----------------------------------------------------------------------------
\* The invariant.

RFQRows == [status : {"none", "open", "cancelled", "closed"}, mode : Modes \cup {"open"},
            requires : Demands \cup {FALSE}, parented : Parents \cup {FALSE}, opened : Nat,
            outcome : {"commit_open", "finalized", "no_valid_reveals"}, best : Nat, finalizedAt : Nat]
Commitments == [status : {"committed", "superseded", "revealed", "accepted", "expired", "rejected"},
                terms : Terms, at : Nat, bid : Nat]
BidRows == [rfq : RFQs, terms : Terms, expires : Nat, verified : BOOLEAN,
            status : {"pending", "accepted", "rejected"}, escrow : Nat]
Handlers == [pc : {"idle", "insert", "expire", "find", "reveal", "look", "finalize", "check",
                   "create", "record", "cancel", "reject_bids", "reopen", "reject_commits"},
             rfq : RFQs \cup {None}, bidder : Bidders \cup {None}, nonce : Nonces \cup {None},
             accepts : BOOLEAN, at : Nat, finalAt : Nat, bid : Nat, escrow : Nat]
Rows == {Row(r, b, n) : r \in RFQs, b \in Bidders, n \in Nonces}

RowsOK ==
    /\ now \in Nat
    /\ rfq \in [RFQs -> RFQRows]
    /\ DOMAIN commit \subseteq Rows /\ \A k \in DOMAIN commit : commit[k] \in Commitments
    /\ bid \in Seq(BidRows)
    /\ strikes \in [Bidders -> Nat]
    /\ escrow \in Seq(Nat)
    /\ request \in [Requests -> Handlers]

\* A bid has opened one commitment of its RFQ, and a commitment that no bid has
\* opened is not marked as if one had.
Linked ==
    /\ \A k \in DOMAIN commit :
          /\ commit[k].bid \in 0..Len(bid)
          /\ commit[k].status \in {"committed", "superseded", "expired"} => commit[k].bid = 0
          /\ commit[k].status \in {"revealed", "accepted"} => commit[k].bid # 0
          /\ commit[k].bid # 0 =>
                /\ (commit[k].status = "accepted" <=> bid[commit[k].bid].status = "accepted")
                /\ bid[commit[k].bid].rfq = k[1]
    /\ \A k, l \in DOMAIN commit : commit[k].bid = commit[l].bid /\ commit[k].bid # 0 => k = l
    /\ \A i \in DOMAIN bid : \E k \in DOMAIN commit : commit[k].bid = i

\* A decision is of a published RFQ, after its reveal phase.  What is committed to
\* it still, or again, came after that.
DecisionsOK ==
    \A r \in RFQs :
        /\ rfq[r].best # 0 =>
              rfq[r].outcome \in Finals /\ rfq[r].best \in DOMAIN bid /\ bid[rfq[r].best].rfq = r
        /\ rfq[r].outcome \in Finals =>
              /\ rfq[r].status # "none"
              /\ RevealDeadline(r) < rfq[r].finalizedAt /\ rfq[r].finalizedAt <= now
              /\ \A k \in DOMAIN commit :
                    k[1] = r /\ commit[k].status = "committed" => RevealDeadline(r) < commit[k].at

\* What is paid is the selected bid.
Paid ==
    /\ \A i \in DOMAIN bid : bid[i].status = "accepted" =>
         /\ rfq[bid[i].rfq].best = i
         /\ bid[i].escrow \in DOMAIN escrow /\ escrow[bid[i].escrow] = i
    /\ \A e \in DOMAIN escrow : escrow[e] \in DOMAIN bid /\ rfq[bid[escrow[e]].rfq].best = escrow[e]

Chosen(r, i) == i # 0 /\ rfq[r].outcome \in Finals /\ rfq[r].best = i

HandlerOK(h) ==
    /\ h.pc # "idle" => h.rfq \in RFQs /\ rfq[h.rfq].status # "none"
    /\ h.pc \in {"insert", "expire", "find", "reveal"} => h.bidder \in Bidders
    /\ h.pc = "reveal" => Row(h.rfq, h.bidder, h.nonce) \in DOMAIN commit
    /\ h.pc = "look" => RevealDeadline(h.rfq) < now
    /\ h.pc = "finalize" => RevealDeadline(h.rfq) < h.finalAt /\ h.finalAt <= now
    /\ h.pc = "check" => h.bid = 0 \/ Chosen(h.rfq, h.bid)
    /\ h.pc \in {"create", "record"} => Chosen(h.rfq, h.bid)
    /\ h.pc = "record" => h.escrow \in DOMAIN escrow /\ escrow[h.escrow] = h.bid

HandlersOK == \A q \in Requests : HandlerOK(request[q])

BiddingInv ==
    RowsOK /\ Linked /\ DecisionsOK /\ Paid /\ HandlersOK /\ WinnerIsBest /\ StrikesFair

-----------------------------------------------------------------------------
\* What a step does to the tables.

\* To a commitment: it is marked, opened or accepted.
CommitStep(k) ==
    /\ k \in DOMAIN commit' /\ commit'[k].at = commit[k].at /\ commit'[k].terms = commit[k].terms
    /\ \/ commit'[k] = commit[k]
       \/ /\ commit'[k].bid = commit[k].bid /\ commit[k].status = "committed"
          /\ commit'[k].status \in {"superseded", "expired", "rejected"}
       \/ /\ commit'[k].bid = commit[k].bid /\ commit[k].status = "revealed"
          /\ commit'[k].status = "rejected"
       \/ /\ commit[k].status = "committed" /\ commit'[k].status = "revealed"
          /\ commit'[k].bid = Len(bid) + 1 /\ Len(bid') = Len(bid) + 1
          /\ bid'[Len(bid) + 1].rfq = k[1] /\ bid'[Len(bid) + 1].status = "pending"
       \/ /\ commit'[k].bid = commit[k].bid /\ commit[k].bid \in DOMAIN bid
          /\ commit'[k].status = "accepted" /\ bid[commit[k].bid].status = "pending"
          /\ bid'[commit[k].bid].status = "accepted"

\* To a bid: it is decided.
BidStep(i) ==
    /\ i \in DOMAIN bid' /\ bid'[i].rfq = bid[i].rfq /\ bid'[i].terms = bid[i].terms
    /\ bid'[i].expires = bid[i].expires /\ bid'[i].verified = bid[i].verified
    /\ \/ bid'[i] = bid[i]
       \/ bid[i].status = "pending" /\ bid'[i].status = "rejected"
       \/ /\ bid[i].status = "pending" /\ bid'[i].status = "accepted"
          /\ rfq[bid[i].rfq].best = i
          /\ bid'[i].escrow \in DOMAIN escrow /\ escrow[bid'[i].escrow] = i
          /\ \A k \in DOMAIN commit : commit[k].bid = i => commit'[k].status = "accepted"

CommitsStep ==
    /\ \A k \in DOMAIN commit : CommitStep(k)
    /\ \A k \in DOMAIN commit' \ DOMAIN commit :
          commit'[k].status = "committed" /\ commit'[k].at = now /\ commit'[k].bid = 0
    /\ \A k, l \in DOMAIN commit :
          commit'[k].bid = Len(bid) + 1 /\ commit'[l].bid = Len(bid) + 1 => k = l

BidsStep ==
    /\ \A i \in DOMAIN bid : BidStep(i)
    /\ \A i \in DOMAIN bid' \ DOMAIN bid :
          /\ i = Len(bid) + 1 /\ bid'[i].status = "pending"
          /\ \E k \in DOMAIN commit : commit'[k].bid = i

\* To the chain: an escrow is created for a selected bid.
EscrowStep ==
    \/ escrow' = escrow
    \/ \E i \in DOMAIN bid : rfq[bid[i].rfq].best = i /\ escrow' = Append(escrow, i)

TablesStep == CommitsStep /\ BidsStep /\ EscrowStep /\ now' \in Nat /\ now <= now'

\* To an RFQ: it is published or its status changes.
RFQStep(r) ==
    \/ rfq'[r] = rfq[r]
    \/ rfq[r].status = "none" /\ rfq'[r].outcome = "commit_open" /\ rfq'[r].best = 0 /\ rfq'[r].status # "none"
    \/ /\ rfq[r].status # "none" /\ rfq'[r].status # "none"
       /\ rfq'[r].opened = rfq[r].opened /\ rfq'[r].requires = rfq[r].requires
       /\ rfq'[r].outcome = rfq[r].outcome /\ rfq'[r].best = rfq[r].best
       /\ rfq'[r].finalizedAt = rfq[r].finalizedAt

\* A step that decides nothing.
PlainStep == TablesStep /\ (\A r \in RFQs : RFQStep(r)) /\ strikes' = strikes

\* A step that decides r, as of time t.
DecidingStep(r, t) ==
    /\ TablesStep /\ bid' = bid /\ escrow' = escrow /\ now' = now
    /\ rfq[r].status # "none" /\ rfq[r].outcome \notin Finals
    /\ t \in Nat /\ RevealDeadline(r) < t /\ t <= now
    /\ rfq' = [rfq EXCEPT ![r] = WithOutcome(rfq[r], BestOf(Eligible(r, t)), t)]
    /\ commit' = Mark(r, {"committed"}, "expired")
    /\ strikes' = [b \in Bidders |-> IF b \in Silent(r) THEN strikes[b] + 1 ELSE strikes[b]]

InvStep == RowsOK' /\ (PlainStep \/ \E r \in RFQs, t \in Nat : DecidingStep(r, t))

-----------------------------------------------------------------------------
\* The best bid.

\* Of some numbers one is the least.
LEMMA Least ==
    ASSUME NEW C, C # {}, NEW f \in [C -> Nat]
    PROVE  \E i \in C : \A j \in C : f[i] <= f[j]
<1> DEFINE T == {f[i] : i \in C}
<1>1. T \subseteq Nat /\ T # {}
  OBVIOUS
<1>2. PICK x \in T : \A y \in T : ~ (<<y, x>> \in OpToRel(<, Nat))
  BY <1>1, NatLessThanWellFounded, WFMin, Zenon
<1>3. \A y \in T : ~ (y < x)
  BY <1>1, <1>2 DEF OpToRel
<1>4. PICK i \in C : x = f[i]
  OBVIOUS
<1> QED
  BY <1>1, <1>3, <1>4

\* By three measures one after the other, and by number.
Less(f, g, h, i, j) ==
    \/ f[i] < f[j]
    \/ f[i] = f[j] /\ (g[i] < g[j] \/ (g[i] = g[j] /\ (h[i] < h[j] \/ (h[i] = h[j] /\ i < j))))

\* Of numbers with three measures one comes before all others.
LEMMA LeastOfAll ==
    ASSUME NEW C, C # {}, C \subseteq Nat, NEW f \in [C -> Nat], NEW g \in [C -> Nat], NEW h \in [C -> Nat]
    PROVE  \E i \in C : \A j \in C \ {i} : Less(f, g, h, i, j)
<1>1. PICK a \in C : \A j \in C : f[a] <= f[j]
  BY Least
<1> DEFINE D == {i \in C : f[i] = f[a]}
<1>2. PICK b \in D : \A j \in D : g[b] <= g[j]
  <2>1. [i \in D |-> g[i]] \in [D -> Nat] /\ D # {}
    OBVIOUS
  <2> QED
    BY <2>1, Least
<1> DEFINE E == {i \in D : g[i] = g[b]}
<1>3. PICK c \in E : \A j \in E : h[c] <= h[j]
  <2>1. [i \in E |-> h[i]] \in [E -> Nat] /\ E # {}
    OBVIOUS
  <2> QED
    BY <2>1, Least
<1> DEFINE G == {i \in E : h[i] = h[c]}
<1>4. PICK d \in G : \A j \in G : d <= j
  <2> DEFINE self == [i \in G |-> i]
  <2>1. self \in [G -> Nat] /\ G # {} /\ \A i \in G : self[i] = i
    OBVIOUS
  <2>2. PICK d \in G : \A j \in G : self[d] <= self[j]
    <3> HIDE DEF self, G
    <3> QED
      BY <2>1, Least
  <2> HIDE DEF self
  <2> QED
    BY <2>1, <2>2
<1> QED
  <2> SUFFICES ASSUME NEW j \in C \ {d} PROVE Less(f, g, h, d, j)
    OBVIOUS
  <2>1. d \in C /\ f[d] = f[a] /\ g[d] = g[b] /\ h[d] = h[c]
    OBVIOUS
  <2>2. /\ f[a] \in Nat /\ f[j] \in Nat /\ g[b] \in Nat /\ g[j] \in Nat /\ h[c] \in Nat /\ h[j] \in Nat
        /\ d \in Nat /\ j \in Nat
    BY <2>1
  <2>3. f[a] <= f[j]
    BY <1>1
  <2>4. f[j] = f[a] => g[b] <= g[j]
    BY <1>2
  <2>5. f[j] = f[a] /\ g[j] = g[b] => h[c] <= h[j]
    BY <1>3
  <2>6. f[j] = f[a] /\ g[j] = g[b] /\ h[j] = h[c] => d <= j
    BY <1>4
  <2> HIDE DEF D, E, G
  <2> QED
    BY <2>1, <2>2, <2>3, <2>4, <2>5, <2>6 DEF Less

\* When a bid's commitment was entered.
EnteredAt(i) == commit[CHOOSE k \in Opened(i) : TRUE].at

\* The commitment of a bid is there.
LEMMA HasOpened ==
    ASSUME RowsOK, Linked, NEW i \in DOMAIN bid
    PROVE  /\ Opened(i) # {} /\ Opened(i) \subseteq DOMAIN commit
           /\ (CHOOSE k \in Opened(i) : TRUE) \in Opened(i)
           /\ EnteredAt(i) \in Nat
<1>1. Opened(i) # {} /\ Opened(i) \subseteq DOMAIN commit
  BY DEF Linked, Opened
<1>2. (CHOOSE k \in Opened(i) : TRUE) \in Opened(i)
  BY <1>1
<1> QED
  BY <1>1, <1>2 DEF RowsOK, Commitments, EnteredAt

\* The places of the bids, and what is in them.
LEMMA BidPlaces ==
    ASSUME RowsOK
    PROVE  /\ DOMAIN bid = 1..Len(bid) /\ Len(bid) \in Nat /\ DOMAIN bid \subseteq Nat
           /\ \A i \in DOMAIN bid : bid[i] \in BidRows /\ i # 0
  BY DEF RowsOK

\* The chosen bid is one of them and before all others.
LEMMA BestIsBest ==
    ASSUME BiddingAssumption, RowsOK, Linked, NEW C, C \subseteq DOMAIN bid, C # {}
    PROVE  BestOf(C) \in C /\ \A j \in C \ {BestOf(C)} : Before(BestOf(C), j)
<1> DEFINE f == [i \in C |-> bid[i].terms.amount]
           g == [i \in C |-> bid[i].terms.duration]
           h == [i \in C |-> EnteredAt(i)]
<1>1. /\ f \in [C -> Nat] /\ \A i \in C : f[i] = bid[i].terms.amount
      /\ g \in [C -> Nat] /\ \A i \in C : g[i] = bid[i].terms.duration
  <2>1. \A i \in C : bid[i].terms \in Terms
    BY BidPlaces DEF BidRows
  <2> QED
    BY <2>1 DEF BiddingAssumption
<1>2. h \in [C -> Nat] /\ \A i \in C : h[i] = EnteredAt(i)
  BY HasOpened
<1>3. C \subseteq Nat
  BY BidPlaces
<1> HIDE DEF f, g, h
<1>4. PICK i \in C : \A j \in C \ {i} : Less(f, g, h, i, j)
  BY <1>1, <1>2, <1>3, LeastOfAll, Zenon
<1>5. \A j \in C \ {i} : Before(i, j)
  BY <1>1, <1>2, <1>4 DEF Before, EnteredAt, Less
<1> QED
  BY <1>5 DEF BestOf

-----------------------------------------------------------------------------
\* What a step keeps.

\* The places of a table of bids.
LEMMA Places ==
    ASSUME NEW t \in Seq(BidRows)
    PROVE  DOMAIN t = 1..Len(t) /\ Len(t) \in Nat /\ \A i \in DOMAIN t : t[i] \in BidRows
  OBVIOUS

\* A bid keeps its commitment, and the commitment its age.
LEMMA OpenedStays ==
    ASSUME RowsOK, Linked, TablesStep, NEW i \in DOMAIN bid
    PROVE  Opened(i)' = Opened(i) /\ \A k \in Opened(i) : commit'[k].at = commit[k].at
<1>1. i # Len(bid) + 1 /\ i # 0
  BY Places DEF RowsOK
<1>2. ASSUME NEW k \in DOMAIN commit PROVE k \in DOMAIN commit' /\ (commit'[k].bid = i <=> commit[k].bid = i)
  <2>1. CommitStep(k) /\ (commit[k].status = "committed" => commit[k].bid = 0)
    BY DEF TablesStep, CommitsStep, Linked
  <2> QED
    BY <1>1, <2>1 DEF CommitStep
<1>3. ASSUME NEW k \in DOMAIN commit' \ DOMAIN commit PROVE commit'[k].bid # i
  BY <1>1 DEF TablesStep, CommitsStep
<1>4. \A k \in Opened(i) : commit'[k].at = commit[k].at
  BY DEF TablesStep, CommitsStep, CommitStep, Opened
<1> QED
  BY <1>2, <1>3, <1>4 DEF Opened

\* Nothing changes the order of two bids.
LEMMA BeforeStays ==
    ASSUME RowsOK, Linked, TablesStep, NEW i \in DOMAIN bid, NEW j \in DOMAIN bid, Before(i, j)
    PROVE  Before(i, j)'
<1>1. /\ Opened(i)' = Opened(i) /\ EnteredAt(i)' = EnteredAt(i)
      /\ Opened(j)' = Opened(j) /\ EnteredAt(j)' = EnteredAt(j)
  BY OpenedStays, HasOpened DEF EnteredAt
<1>2. bid'[i].terms = bid[i].terms /\ bid'[j].terms = bid[j].terms
  BY DEF TablesStep, BidsStep, BidStep
<1> QED
  BY <1>1, <1>2 DEF Before, EnteredAt

\* Bids and commitments stay tied together.
LEMMA LinkedStays ==
    ASSUME RowsOK, Linked, TablesStep, RowsOK'
    PROVE  Linked'
<1>1. /\ DOMAIN bid = 1..Len(bid) /\ Len(bid) \in Nat
      /\ DOMAIN bid' = 1..Len(bid') /\ Len(bid') \in Nat
  BY Places DEF RowsOK
<1>2. /\ \A i \in DOMAIN bid : BidStep(i)
      /\ \A i \in DOMAIN bid' \ DOMAIN bid :
            i = Len(bid) + 1 /\ bid'[i].status = "pending" /\ \E k \in DOMAIN commit : commit'[k].bid = i
  BY DEF TablesStep, BidsStep
<1>3. \A i \in DOMAIN bid : i \in DOMAIN bid'
  BY <1>2 DEF BidStep
<1>4. Len(bid) <= Len(bid')
  <2>1. CASE Len(bid) = 0
    BY <1>1, <2>1
  <2>2. CASE Len(bid) # 0
    <3>1. Len(bid) \in 1..Len(bid')
      BY <1>1, <1>3, <2>2
    <3> QED
      BY <1>1, <3>1
  <2> QED
    BY <2>1, <2>2
<1> DEFINE Tied(k) ==
       /\ commit[k].bid \in 0..Len(bid)
       /\ commit[k].status \in {"committed", "superseded", "expired"} => commit[k].bid = 0
       /\ commit[k].status \in {"revealed", "accepted"} => commit[k].bid # 0
       /\ commit[k].bid # 0 =>
             /\ (commit[k].status = "accepted" <=> bid[commit[k].bid].status = "accepted")
             /\ bid[commit[k].bid].rfq = k[1]
<1>5. ASSUME NEW k \in DOMAIN commit PROVE Tied(k)'
  <2>1. CommitStep(k) /\ Tied(k)
    BY DEF TablesStep, CommitsStep, Linked
  <2>2. commit[k].bid # 0 => commit[k].bid \in DOMAIN bid /\ BidStep(commit[k].bid)
    BY <1>1, <1>2, <2>1
  <2>3. CASE commit'[k] = commit[k]
    BY <1>1, <1>4, <2>1, <2>2, <2>3 DEF BidStep
  <2>4. CASE commit'[k].bid = commit[k].bid /\ commit[k].status = "committed"
             /\ commit'[k].status \in {"superseded", "expired", "rejected"}
    BY <1>1, <1>4, <2>1, <2>2, <2>4 DEF BidStep
  <2>5. CASE commit'[k].bid = commit[k].bid /\ commit[k].status = "revealed" /\ commit'[k].status = "rejected"
    BY <1>1, <1>4, <2>1, <2>2, <2>5 DEF BidStep
  <2>6. CASE /\ commit[k].status = "committed" /\ commit'[k].status = "revealed"
             /\ commit'[k].bid = Len(bid) + 1 /\ Len(bid') = Len(bid) + 1
             /\ bid'[Len(bid) + 1].rfq = k[1] /\ bid'[Len(bid) + 1].status = "pending"
    BY <1>1, <2>1, <2>6
  <2>7. CASE /\ commit'[k].bid = commit[k].bid /\ commit[k].bid \in DOMAIN bid
             /\ commit'[k].status = "accepted" /\ bid[commit[k].bid].status = "pending"
             /\ bid'[commit[k].bid].status = "accepted"
    BY <1>1, <1>4, <2>1, <2>2, <2>7 DEF BidStep
  <2> QED
    BY <2>1, <2>3, <2>4, <2>5, <2>6, <2>7 DEF CommitStep
<1>6. ASSUME NEW k \in DOMAIN commit' \ DOMAIN commit
      PROVE  commit'[k].status = "committed" /\ commit'[k].bid = 0
  BY DEF TablesStep, CommitsStep
<1>7. ASSUME NEW k \in DOMAIN commit', NEW l \in DOMAIN commit', commit'[k].bid = commit'[l].bid, commit'[k].bid # 0
      PROVE  k = l
  <2>1. k \in DOMAIN commit /\ l \in DOMAIN commit
    BY <1>6, <1>7
  <2>2. /\ commit'[k].bid = commit[k].bid \/ (commit[k].bid = 0 /\ commit'[k].bid = Len(bid) + 1)
        /\ commit'[l].bid = commit[l].bid \/ (commit[l].bid = 0 /\ commit'[l].bid = Len(bid) + 1)
        /\ commit[k].bid \in 0..Len(bid) /\ commit[l].bid \in 0..Len(bid)
    BY <2>1 DEF TablesStep, CommitsStep, CommitStep, Linked
  <2>3. CASE commit'[k].bid = Len(bid) + 1
    BY <1>7, <2>1, <2>3 DEF TablesStep, CommitsStep
  <2>4. CASE commit'[k].bid # Len(bid) + 1
    BY <1>7, <2>1, <2>2, <2>4 DEF Linked
  <2> QED
    BY <2>3, <2>4
<1>8. ASSUME NEW i \in DOMAIN bid' PROVE \E k \in DOMAIN commit' : commit'[k].bid = i
  <2>1. CASE i \in DOMAIN bid
    BY <2>1, OpenedStays, HasOpened DEF Opened
  <2>2. CASE i \notin DOMAIN bid
    BY <1>2, <2>2 DEF TablesStep, CommitsStep, CommitStep
  <2> QED
    BY <2>1, <2>2
<1>9. \A k \in DOMAIN commit' : Tied(k)'
  BY <1>1, <1>5, <1>6
<1> QED
  BY <1>7, <1>8, <1>9 DEF Linked

\* An RFQ that is published stays so, and one that is decided stays decided.
LEMMA DecidedStays ==
    ASSUME RowsOK, Linked, DecisionsOK, NEW r \in RFQs,
           PlainStep \/ \E s \in RFQs, t \in Nat : DecidingStep(s, t)
    PROVE  /\ rfq[r].status # "none" => rfq'[r].status # "none" /\ rfq'[r].opened = rfq[r].opened
           /\ rfq[r].outcome \in Finals =>
                 /\ rfq'[r].outcome = rfq[r].outcome /\ rfq'[r].best = rfq[r].best
                 /\ rfq'[r].finalizedAt = rfq[r].finalizedAt /\ rfq'[r].requires = rfq[r].requires
                 /\ rfq'[r].opened = rfq[r].opened /\ rfq'[r].status # "none"
           /\ rfq[r].best # 0 => rfq'[r].best = rfq[r].best
<1>1. CASE PlainStep
  BY <1>1 DEF PlainStep, RFQStep, DecisionsOK
<1>2. ASSUME NEW s \in RFQs, NEW t \in Nat, DecidingStep(s, t)
      PROVE  /\ rfq'[s] = WithOutcome(rfq[s], BestOf(Eligible(s, t)), t)
             /\ \A q \in RFQs : q # s => rfq'[q] = rfq[q]
  BY <1>2 DEF DecidingStep, RowsOK
<1>3. ASSUME NEW s \in RFQs, NEW t \in Nat, DecidingStep(s, t)
      PROVE  /\ rfq'[s].status = rfq[s].status /\ rfq'[s].opened = rfq[s].opened
             /\ rfq[s].outcome \notin Finals
  BY <1>2, <1>3 DEF DecidingStep, WithOutcome, RFQ
<1> QED
  BY <1>1, <1>2, <1>3 DEF DecisionsOK

\* Deadlines are times.
LEMMA DecidedIsNat ==
    ASSUME BiddingAssumption, RowsOK
    PROVE  \A r \in RFQs : RevealDeadline(r) \in Nat /\ rfq[r].finalizedAt \in Nat /\ rfq[r].opened \in Nat
<1> SUFFICES ASSUME NEW r \in RFQs
             PROVE  RevealDeadline(r) \in Nat /\ rfq[r].finalizedAt \in Nat /\ rfq[r].opened \in Nat
  OBVIOUS
<1>1. rfq[r] \in RFQRows
  BY DEF RowsOK
<1>2. rfq[r].finalizedAt \in Nat /\ rfq[r].opened \in Nat
  BY <1>1 DEF RFQRows
<1> QED
  BY <1>2 DEF RevealDeadline, BiddingAssumption

\* Decisions stay right.
LEMMA DecisionsStay ==
    ASSUME BiddingAssumption, RowsOK, Linked, DecisionsOK, InvStep
    PROVE  DecisionsOK'
<1>1. TablesStep
  BY DEF InvStep, PlainStep, DecidingStep
<1>2. \A i \in DOMAIN bid : i \in DOMAIN bid' /\ bid'[i].rfq = bid[i].rfq
  BY <1>1 DEF TablesStep, BidsStep, BidStep
<1>3. now \in Nat /\ now' \in Nat /\ now <= now'
  BY <1>1 DEF TablesStep, RowsOK
<1>4. /\ \A k \in DOMAIN commit : CommitStep(k)
      /\ \A k \in DOMAIN commit' \ DOMAIN commit : commit'[k].at = now
  BY <1>1 DEF TablesStep, CommitsStep
<1>5. \A r \in RFQs : RevealDeadline(r) \in Nat /\ rfq[r].finalizedAt \in Nat /\ rfq[r].opened \in Nat
  BY DecidedIsNat
<1>6. ASSUME NEW r \in RFQs, rfq[r].outcome \in Finals
      PROVE  /\ rfq'[r].best # 0 => rfq'[r].best \in DOMAIN bid' /\ bid'[rfq'[r].best].rfq = r
             /\ rfq'[r].outcome \in Finals /\ rfq'[r].status # "none"
             /\ RevealDeadline(r)' < rfq'[r].finalizedAt /\ rfq'[r].finalizedAt <= now'
             /\ \A k \in DOMAIN commit' :
                   k[1] = r /\ commit'[k].status = "committed" => RevealDeadline(r)' < commit'[k].at
  <2>1. /\ rfq'[r].outcome = rfq[r].outcome /\ rfq'[r].best = rfq[r].best
        /\ rfq'[r].finalizedAt = rfq[r].finalizedAt /\ rfq'[r].opened = rfq[r].opened /\ rfq'[r].status # "none"
    BY <1>6, DecidedStays DEF InvStep
  <2>2. RevealDeadline(r)' = RevealDeadline(r)
    BY <2>1 DEF RevealDeadline
  <2>3. RevealDeadline(r) < rfq[r].finalizedAt /\ rfq[r].finalizedAt <= now
    BY <1>6 DEF DecisionsOK
  <2>4. ASSUME NEW k \in DOMAIN commit', k[1] = r, commit'[k].status = "committed"
        PROVE  RevealDeadline(r) < commit'[k].at
    <3>1. CASE k \in DOMAIN commit
      <4>1. commit'[k] = commit[k]
        BY <1>4, <2>4, <3>1 DEF CommitStep
      <4> QED
        BY <1>6, <2>4, <3>1, <4>1 DEF DecisionsOK
    <3>2. CASE k \notin DOMAIN commit
      BY <1>3, <1>4, <1>5, <2>3, <2>4, <3>2
    <3> QED
      BY <3>1, <3>2
  <2>5. rfq[r].best # 0 => rfq[r].best \in DOMAIN bid /\ bid[rfq[r].best].rfq = r
    BY DEF DecisionsOK
  <2> QED
    BY <1>2, <1>3, <1>5, <1>6, <2>1, <2>2, <2>3, <2>4, <2>5
<1>7. CASE PlainStep
  <2>1. ASSUME NEW r \in RFQs, rfq[r].outcome \notin Finals PROVE rfq'[r].outcome \notin Finals /\ rfq'[r].best = 0
    BY <1>7, <2>1 DEF PlainStep, RFQStep, DecisionsOK, Finals
  <2> QED
    BY <1>6, <2>1 DEF DecisionsOK
<1>8. ASSUME NEW r \in RFQs, NEW t \in Nat, DecidingStep(r, t) PROVE DecisionsOK'
  <2>1. rfq'[r] = WithOutcome(rfq[r], BestOf(Eligible(r, t)), t) /\ \A s \in RFQs \ {r} : rfq'[s] = rfq[s]
    BY <1>8 DEF DecidingStep, RowsOK
  <2>2. /\ rfq'[r].best = BestOf(Eligible(r, t)) /\ rfq'[r].finalizedAt = t /\ rfq'[r].opened = rfq[r].opened
        /\ rfq'[r].status = rfq[r].status /\ rfq'[r].outcome \in Finals
    BY <2>1 DEF WithOutcome, RFQ, Finals
  <2>3. Eligible(r, t) \subseteq DOMAIN bid /\ \A i \in Eligible(r, t) : bid[i].rfq = r
    BY DEF Eligible, BidsOf
  <2>4. rfq'[r].best # 0 => rfq'[r].best \in DOMAIN bid' /\ bid'[rfq'[r].best].rfq = r
    <3>1. CASE Eligible(r, t) = {}
      BY <2>2, <3>1 DEF BestOf
    <3>2. CASE Eligible(r, t) # {}
      BY <1>2, <2>2, <2>3, <3>2, BestIsBest
    <3> QED
      BY <3>1, <3>2
  <2>5. RevealDeadline(r)' = RevealDeadline(r)
    BY <2>2 DEF RevealDeadline
  <2>6. RevealDeadline(r)' < rfq'[r].finalizedAt /\ rfq'[r].finalizedAt <= now' /\ rfq'[r].status # "none"
    BY <1>8, <2>2, <2>5 DEF DecidingStep
  <2>7. \A k \in DOMAIN commit' : k[1] = r => commit'[k].status # "committed"
    BY <1>8 DEF DecidingStep, Mark, Turned, Commitment
  <2>8. ASSUME NEW s \in RFQs, s # r, rfq[s].outcome \notin Finals PROVE rfq'[s].outcome \notin Finals /\ rfq'[s].best = 0
    BY <2>1, <2>8 DEF DecisionsOK
  <2> QED
    BY <1>6, <2>2, <2>4, <2>6, <2>7, <2>8 DEF DecisionsOK
<1> QED
  BY <1>7, <1>8 DEF InvStep

\* What is paid stays paid to the selected bid.
LEMMA PaidStays ==
    ASSUME BiddingAssumption, RowsOK, Linked, DecisionsOK, Paid, InvStep
    PROVE  Paid'
<1>1. TablesStep
  BY DEF InvStep, PlainStep, DecidingStep
<1>2. \A i \in DOMAIN bid : BidStep(i) /\ bid[i].rfq \in RFQs /\ i # 0
  BY <1>1, BidPlaces DEF TablesStep, BidsStep, BidRows
<1>3. \A r \in RFQs : rfq[r].best # 0 => rfq'[r].best = rfq[r].best
  BY DecidedStays DEF InvStep
<1>4. /\ escrow \in Seq(Nat) /\ escrow' \in Seq(Nat)
  BY DEF InvStep, RowsOK
<1>5. ASSUME NEW e \in DOMAIN escrow PROVE e \in DOMAIN escrow' /\ escrow'[e] = escrow[e]
  <2>1. PICK i \in Nat : escrow' = escrow \/ escrow' = Append(escrow, i)
    BY <1>1, BidPlaces DEF TablesStep, EscrowStep
  <2>2. CASE escrow' = Append(escrow, i)
    BY <1>4, <1>5, <2>2
  <2> QED
    BY <1>5, <2>1, <2>2
<1>6. ASSUME NEW e \in DOMAIN escrow' \ DOMAIN escrow
      PROVE  escrow'[e] \in DOMAIN bid /\ rfq[bid[escrow'[e]].rfq].best = escrow'[e]
  BY <1>1, <1>4, <1>6 DEF TablesStep, EscrowStep
<1>7. ASSUME NEW i \in DOMAIN bid', bid'[i].status = "accepted"
      PROVE  /\ rfq'[bid'[i].rfq].best = i
             /\ bid'[i].escrow \in DOMAIN escrow' /\ escrow'[bid'[i].escrow] = i
  <2>1. i \in DOMAIN bid
    BY <1>1, <1>7 DEF TablesStep, BidsStep
  <2>2. rfq[bid[i].rfq].best = i /\ bid'[i].escrow \in DOMAIN escrow /\ escrow[bid'[i].escrow] = i
    BY <1>2, <1>7, <2>1 DEF BidStep, Paid
  <2> QED
    BY <1>2, <1>3, <1>5, <2>1, <2>2 DEF BidStep
<1>8. ASSUME NEW e \in DOMAIN escrow' PROVE escrow'[e] \in DOMAIN bid' /\ rfq'[bid'[escrow'[e]].rfq].best = escrow'[e]
  <2>1. escrow'[e] \in DOMAIN bid /\ rfq[bid[escrow'[e]].rfq].best = escrow'[e]
    BY <1>5, <1>6 DEF Paid
  <2> QED
    BY <1>2, <1>3, <2>1 DEF BidStep
<1> QED
  BY <1>7, <1>8 DEF Paid

\* What a handler relies on stays true while others act.
LEMMA HandlerStays ==
    ASSUME BiddingAssumption, RowsOK, Linked, DecisionsOK, InvStep, NEW h \in Handlers, HandlerOK(h)
    PROVE  HandlerOK(h)'
<1>1. TablesStep
  BY DEF InvStep, PlainStep, DecidingStep
<1>2. now \in Nat /\ now' \in Nat /\ now <= now' /\ DOMAIN commit \subseteq DOMAIN commit'
  BY <1>1 DEF TablesStep, RowsOK, CommitsStep, CommitStep
<1>3. ASSUME NEW e \in DOMAIN escrow PROVE e \in DOMAIN escrow' /\ escrow'[e] = escrow[e]
  <2>1. escrow \in Seq(Nat) /\ escrow' \in Seq(Nat)
    BY DEF InvStep, RowsOK
  <2>2. PICK i \in Nat : escrow' = escrow \/ escrow' = Append(escrow, i)
    BY <1>1, BidPlaces DEF TablesStep, EscrowStep
  <2>3. CASE escrow' = Append(escrow, i)
    BY <2>1, <1>3, <2>3
  <2> QED
    BY <1>3, <2>2, <2>3
<1>4. CASE h.pc = "idle"
  BY <1>4 DEF HandlerOK
<1>5. CASE h.pc # "idle"
  <2>1. h.rfq \in RFQs /\ rfq[h.rfq].status # "none"
    BY <1>5 DEF HandlerOK
  <2>2. /\ rfq'[h.rfq].status # "none" /\ rfq'[h.rfq].opened = rfq[h.rfq].opened
        /\ Chosen(h.rfq, h.bid) => Chosen(h.rfq, h.bid)'
    BY <2>1, DecidedStays DEF Chosen, InvStep
  <2>3. RevealDeadline(h.rfq)' = RevealDeadline(h.rfq)
    BY <2>2 DEF RevealDeadline
  <2>4. h.pc = "finalize" => RevealDeadline(h.rfq) < h.finalAt /\ h.finalAt <= now'
    <3> SUFFICES ASSUME h.pc = "finalize" PROVE RevealDeadline(h.rfq) < h.finalAt /\ h.finalAt <= now'
      OBVIOUS
    <3>1. h.finalAt \in Nat /\ RevealDeadline(h.rfq) < h.finalAt /\ h.finalAt <= now
      BY DEF HandlerOK, Handlers
    <3> QED
      BY <1>2, <3>1
  <2>5. h.pc = "look" => RevealDeadline(h.rfq) < now'
    BY <1>2, <2>1, DecidedIsNat DEF HandlerOK
  <2> QED
    BY <1>2, <1>3, <2>1, <2>2, <2>3, <2>4, <2>5 DEF HandlerOK
<1> QED
  BY <1>4, <1>5

\* The winner stays the best.
LEMMA WinnerStays ==
    ASSUME BiddingAssumption, RowsOK, Linked, DecisionsOK, Paid, WinnerIsBest, InvStep
    PROVE  WinnerIsBest'
<1>1. TablesStep
  BY DEF InvStep, PlainStep, DecidingStep
<1>2. \A i \in DOMAIN bid : BidStep(i) /\ bid[i].rfq \in RFQs /\ i # 0
  BY <1>1, BidPlaces DEF TablesStep, BidsStep, BidRows
<1>3. \A k \in DOMAIN commit : CommitStep(k)
  BY <1>1 DEF TablesStep, CommitsStep
<1>4. ASSUME NEW r \in RFQs, rfq[r].outcome \in Finals, NEW i \in Standing(r)'
      PROVE  rfq'[r].best # 0 /\ (i = rfq'[r].best \/ Before(rfq[r].best, i)')
  <2>1. /\ rfq'[r].best = rfq[r].best /\ rfq'[r].opened = rfq[r].opened
        /\ rfq'[r].finalizedAt = rfq[r].finalizedAt /\ rfq'[r].requires = rfq[r].requires
    BY <1>4, DecidedStays DEF InvStep
  <2>2. /\ i \in DOMAIN bid' /\ bid'[i].rfq = r /\ bid'[i].status \in {"pending", "accepted"}
        /\ OnTime(i)' /\ bid'[i].expires > rfq'[r].finalizedAt /\ (rfq'[r].requires => bid'[i].verified)
        /\ \E k \in Opened(i)' : commit'[k].status \in {"revealed", "accepted"}
    BY DEF Standing, BidsOf
  <2>3. i \in DOMAIN bid
    <3> SUFFICES ASSUME i \notin DOMAIN bid PROVE FALSE
      OBVIOUS
    <3>1. PICK k \in DOMAIN commit : commit'[k].bid = i
      BY <1>1, <2>2 DEF TablesStep, BidsStep
    <3>2. k \in DOMAIN commit' /\ commit'[k].at = commit[k].at
      BY <1>3 DEF CommitStep
    <3>3. commit[k].status = "committed" /\ k[1] = r
      <4>1. commit[k].bid # i /\ i # 0
        BY <2>2, <1>1, BidPlaces DEF Linked, TablesStep, BidsStep
      <4>2. /\ commit[k].status = "committed" /\ commit'[k].bid = Len(bid) + 1
            /\ bid'[Len(bid) + 1].rfq = k[1]
        BY <1>3, <3>1, <4>1 DEF CommitStep
      <4> QED
        BY <2>2, <3>1, <4>2
    <3>4. RevealDeadline(r) < commit[k].at
      BY <1>4, <3>3 DEF DecisionsOK
    <3>5. commit'[k].at <= RevealDeadline(r)
      BY <2>1, <2>2, <3>1, <3>2 DEF OnTime, Opened, RevealDeadline
    <3>6. commit[k].at \in Nat /\ RevealDeadline(r) \in Nat
      BY DecidedIsNat DEF RowsOK, Commitments
    <3> QED
      BY <3>2, <3>4, <3>5, <3>6
  <2>4. Opened(i)' = Opened(i) /\ \A k \in Opened(i) : commit'[k].at = commit[k].at
    BY <1>1, <2>3, OpenedStays
  <2>5. CASE bid'[i].status = "accepted"
    BY PaidStays, <1>2, <2>2, <2>3, <2>5 DEF Paid
  <2>6. CASE bid'[i].status = "pending"
    <3>1. bid'[i] = bid[i] /\ bid[i].status = "pending"
      BY <1>2, <2>3, <2>6 DEF BidStep
    <3>2. OnTime(i)
      BY <2>1, <2>2, <2>4, <3>1 DEF OnTime, RevealDeadline
    <3>3. PICK k \in Opened(i) : commit'[k].status \in {"revealed", "accepted"}
      BY <2>2, <2>4
    <3>4. commit[k].status \in {"revealed", "accepted"}
      <4>1. k \in DOMAIN commit /\ commit[k].bid = i
        BY DEF Opened
      <4>2. CommitStep(k) /\ commit[k].status # "committed" /\ i # 0
        BY <1>2, <1>3, <2>3, <4>1 DEF Linked
      <4> QED
        BY <2>6, <3>3, <4>1, <4>2 DEF CommitStep
    <3>5. i \in Standing(r)
      BY <2>1, <2>2, <2>3, <3>1, <3>2, <3>3, <3>4 DEF Standing, BidsOf
    <3>6. rfq[r].best # 0 /\ (i = rfq[r].best \/ Before(rfq[r].best, i))
      BY <1>4, <3>5 DEF WinnerIsBest
    <3>7. PICK best \in DOMAIN bid : best = rfq[r].best
      BY <3>6 DEF DecisionsOK
    <3>8. Before(best, i) => Before(best, i)'
      BY <1>1, <2>3, BeforeStays
    <3>9. Before(best, i)' => Before(rfq[r].best, i)'
      BY <2>1, <3>7
    <3> QED
      BY <2>1, <3>6, <3>7, <3>8, <3>9
  <2> QED
    BY <2>2, <2>5, <2>6
<1>5. CASE PlainStep
  <2>1. \A r \in RFQs : rfq'[r].outcome \in Finals => rfq[r].outcome \in Finals
    BY <1>5 DEF PlainStep, RFQStep, Finals
  <2> QED
    BY <1>4, <2>1 DEF WinnerIsBest
<1>6. ASSUME NEW r \in RFQs, NEW t \in Nat, DecidingStep(r, t) PROVE WinnerIsBest'
  <2>1. rfq'[r] = WithOutcome(rfq[r], BestOf(Eligible(r, t)), t) /\ \A s \in RFQs \ {r} : rfq'[s] = rfq[s]
    BY <1>6 DEF DecidingStep, RowsOK
  <2>2. /\ rfq'[r].best = BestOf(Eligible(r, t)) /\ rfq'[r].finalizedAt = t /\ rfq'[r].requires = rfq[r].requires
    BY <2>1 DEF WithOutcome, RFQ
  <2>3. bid' = bid /\ rfq[r].outcome \notin Finals
    BY <1>6 DEF DecidingStep
  <2>4. ASSUME NEW i \in Standing(r)' PROVE i \in Eligible(r, t)
    <3>1. /\ i \in DOMAIN bid /\ bid[i].rfq = r /\ bid[i].status \in {"pending", "accepted"}
          /\ bid[i].expires > t /\ (rfq[r].requires => bid[i].verified)
          /\ \E k \in Opened(i)' : commit'[k].status \in {"revealed", "accepted"}
      BY <2>2, <2>3 DEF Standing, BidsOf
    <3>2. bid[i].status = "pending"
      BY <1>2, <2>3, <3>1 DEF Paid, DecisionsOK
    <3>3. PICK k \in Opened(i) : commit'[k].status \in {"revealed", "accepted"}
      BY <1>1, <3>1, OpenedStays
    <3>4. k \in DOMAIN commit /\ commit[k].bid = i /\ commit'[k].status = commit[k].status
      BY <1>6, <3>3 DEF Opened, DecidingStep, Mark, Turned, Commitment
    <3>5. commit[k].status = "revealed"
      BY <1>2, <3>1, <3>2, <3>3, <3>4 DEF Linked
    <3> QED
      BY <3>1, <3>2, <3>5 DEF Eligible, BidsOf
  <2>5. Eligible(r, t) \subseteq DOMAIN bid
    BY DEF Eligible, BidsOf
  <2>6. ASSUME NEW i \in Standing(r)' PROVE rfq'[r].best # 0 /\ (i = rfq'[r].best \/ Before(rfq[r].best, i)')
    <3>1. i \in Eligible(r, t) /\ Eligible(r, t) # {} /\ i \in DOMAIN bid
      BY <2>4, <2>5
    <3>2. PICK best \in Eligible(r, t) : best = BestOf(Eligible(r, t)) /\ (i = best \/ Before(best, i))
      BY <2>5, <3>1, BestIsBest
    <3>3. best \in DOMAIN bid /\ best # 0
      BY <1>2, <2>5, <3>2
    <3>4. Before(best, i) => Before(best, i)'
      BY <1>1, <3>1, <3>3, BeforeStays
    <3>5. rfq'[r].best = best
      BY <2>2, <3>2
    <3>6. Before(best, i)' => Before(rfq[r].best, i)'
      BY <3>5
    <3> QED
      BY <3>2, <3>3, <3>4, <3>5, <3>6
  <2> QED
    BY <1>4, <2>1, <2>6 DEF WinnerIsBest
<1> QED
  BY <1>5, <1>6 DEF InvStep

\* The finalised RFQs in which bidder b was silent.
SilentIn(b) ==
    {r \in RFQs : rfq[r].outcome \in Finals /\ \E k \in CommitsOf(r) : k[2] = b /\ commit[k].status = "expired"}

\* Nobody gets a strike without a cause.
LEMMA StrikesStay ==
    ASSUME BiddingAssumption, RowsOK, Linked, DecisionsOK, StrikesFair, InvStep
    PROVE  StrikesFair'
<1> SUFFICES ASSUME NEW b \in Bidders PROVE strikes'[b] <= Cardinality(SilentIn(b)')
  BY DEF StrikesFair, SilentIn
<1>1. TablesStep
  BY DEF InvStep, PlainStep, DecidingStep
<1>2. IsFiniteSet(RFQs) /\ SilentIn(b) \subseteq RFQs /\ SilentIn(b)' \subseteq RFQs
  BY DEF BiddingAssumption, SilentIn
<1>3. /\ IsFiniteSet(SilentIn(b)) /\ IsFiniteSet(SilentIn(b)')
      /\ Cardinality(SilentIn(b)) \in Nat /\ Cardinality(SilentIn(b)') \in Nat
  BY <1>2, FS_Subset, FS_CardinalityType
<1>4. strikes[b] \in Nat /\ strikes[b] <= Cardinality(SilentIn(b))
  BY DEF StrikesFair, SilentIn, RowsOK
<1>5. SilentIn(b) \subseteq SilentIn(b)'
  <2> SUFFICES ASSUME NEW r \in SilentIn(b) PROVE r \in SilentIn(b)'
    OBVIOUS
  <2>1. r \in RFQs /\ rfq[r].outcome \in Finals
    BY DEF SilentIn
  <2>2. rfq'[r].outcome \in Finals
    BY <2>1, DecidedStays DEF InvStep
  <2>3. PICK k \in DOMAIN commit : k[1] = r /\ k[2] = b /\ commit[k].status = "expired"
    BY DEF SilentIn, CommitsOf
  <2>4. CommitStep(k) /\ commit[k].bid = 0
    BY <1>1, <2>3 DEF TablesStep, CommitsStep, Linked
  <2>5. 0 \notin DOMAIN bid
    BY BidPlaces
  <2>6. k \in DOMAIN commit' /\ commit'[k].status = "expired"
    BY <2>3, <2>4, <2>5 DEF CommitStep
  <2> QED
    BY <2>1, <2>2, <2>3, <2>6 DEF SilentIn, CommitsOf
<1>6. CASE strikes'[b] = strikes[b]
  BY <1>3, <1>4, <1>5, <1>6, FS_Subset
<1>7. CASE strikes'[b] # strikes[b]
  <2>1. PICK r \in RFQs, t \in Nat : DecidingStep(r, t)
    BY <1>7 DEF InvStep, PlainStep
  <2>2. b \in Silent(r) /\ strikes'[b] = strikes[b] + 1
    BY <1>7, <2>1 DEF DecidingStep
  <2>3. r \notin SilentIn(b)
    BY <2>1 DEF SilentIn, DecidingStep
  <2>4. r \in SilentIn(b)'
    <3>1. PICK k \in DOMAIN commit : k[1] = r /\ k[2] = b /\ commit[k].status = "committed"
      BY <2>2 DEF Silent, CommitsOf
    <3>2. k \in DOMAIN commit' /\ commit'[k].status = "expired"
      BY <2>1, <3>1 DEF DecidingStep, Mark, Turned, Commitment
    <3>3. rfq'[r].outcome \in Finals
      <4>1. rfq'[r] = WithOutcome(rfq[r], BestOf(Eligible(r, t)), t)
        BY <2>1 DEF DecidingStep, RowsOK
      <4> QED
        BY <4>1 DEF WithOutcome, RFQ, Finals
    <3> QED
      BY <3>1, <3>2, <3>3 DEF SilentIn, CommitsOf
  <2> DEFINE now_ == SilentIn(b)
             then == SilentIn(b)'
  <2>5. now_ \cup {r} \subseteq then /\ r \notin now_ /\ IsFiniteSet(now_) /\ IsFiniteSet(then)
    BY <1>3, <1>5, <2>3, <2>4
  <2>6. Cardinality(now_) \in Nat /\ Cardinality(then) \in Nat
    BY <1>3
  <2> HIDE DEF now_, then
  <2>7. Cardinality(now_ \cup {r}) = Cardinality(now_) + 1
    BY <2>5, FS_AddElement
  <2>8. Cardinality(now_ \cup {r}) <= Cardinality(then)
    BY <2>5, FS_Subset
  <2>9. strikes[b] <= Cardinality(now_)
    BY <1>4 DEF now_
  <2>10. strikes[b] + 1 <= Cardinality(then)
    BY <1>4, <2>6, <2>7, <2>8, <2>9
  <2> QED
    BY <2>2, <2>10 DEF then
<1> QED
  BY <1>6, <1>7

-----------------------------------------------------------------------------
\* Every step of the specification is such a step.

\* The tables stay in order.
LEMMA TablesGoOn ==
    ASSUME BiddingAssumption, BiddingInv, InvStep
    PROVE  RowsOK' /\ Linked' /\ DecisionsOK' /\ Paid' /\ WinnerIsBest' /\ StrikesFair'
<1>1. TablesStep /\ RowsOK'
  BY DEF InvStep, PlainStep, DecidingStep
<1> QED
  BY <1>1, LinkedStays, DecisionsStay, PaidStays, WinnerStays, StrikesStay DEF BiddingInv

\* A handler that does not move may go on.
LEMMA RestGoesOn ==
    ASSUME BiddingAssumption, BiddingInv, InvStep, NEW o \in Requests, request'[o] = request[o]
    PROVE  HandlerOK(request[o])'
<1>1. PICK g \in Handlers : g = request[o] /\ HandlerOK(g)
  BY DEF BiddingInv, HandlersOK, RowsOK
<1>2. HandlerOK(g)'
  BY <1>1, HandlerStays DEF BiddingInv
<1>3. request'[o] = g
  BY <1>1
<1> QED
  BY <1>2, <1>3 DEF HandlerOK, Chosen

\* A step that is plain or decides, and keeps the invariant.
StepOK == InvStep /\ BiddingInv'

\* The whole invariant goes on, given the handler that moves, or when none does.
LEMMA InvGoesOn ==
    ASSUME BiddingAssumption, BiddingInv, InvStep, NEW q \in Requests, NEW h, HandlerAt(q, h), HandlerOK(h)'
    PROVE  StepOK
<1>1. request \in [Requests -> Handlers]
  BY DEF BiddingInv, RowsOK
<1>2. ASSUME NEW o \in Requests PROVE HandlerOK(request[o])'
  <2>1. CASE o # q
    BY <1>1, <2>1, RestGoesOn DEF HandlerAt
  <2>2. CASE o = q
    <3>1. request'[o] = h
      BY <1>1, <2>2 DEF HandlerAt
    <3> QED
      BY <3>1 DEF HandlerOK, Chosen
  <2> QED
    BY <2>1, <2>2
<1> QED
  BY <1>2, TablesGoOn DEF BiddingInv, HandlersOK, StepOK

\* Or no handler moves.
LEMMA WorldGoesOn ==
    ASSUME BiddingAssumption, BiddingInv, InvStep, UNCHANGED request
    PROVE  StepOK
<1>1. \A o \in Requests : HandlerOK(request[o])'
  BY RestGoesOn
<1> QED
  BY <1>1, TablesGoOn DEF BiddingInv, HandlersOK, StepOK

CommitRowsOK == DOMAIN commit \subseteq Rows /\ \A k \in DOMAIN commit : commit[k] \in Commitments

\* A handler takes a plain step.
LEMMA PlainGoesOn ==
    ASSUME BiddingAssumption, BiddingInv, NEW q \in Requests, NEW h \in Handlers, HandlerAt(q, h), HandlerOK(h)',
           CommitsStep, CommitRowsOK', BidsStep, bid' \in Seq(BidRows), EscrowStep, escrow' \in Seq(Nat),
           \A r \in RFQs : RFQStep(r), rfq' \in [RFQs -> RFQRows], UNCHANGED <<now, strikes>>
    PROVE  StepOK
<1>1. request' \in [Requests -> Handlers]
  BY DEF BiddingInv, RowsOK, HandlerAt
<1>2. now \in Nat /\ now <= now
  BY DEF BiddingInv, RowsOK
<1>3. InvStep
  BY <1>1, <1>2 DEF InvStep, PlainStep, TablesStep, BiddingInv, RowsOK, CommitRowsOK
<1> QED
  BY <1>3, InvGoesOn

\* Tables that stay.
LEMMA TablesStay ==
    /\ BiddingInv /\ UNCHANGED <<commit, bid>> => CommitsStep /\ CommitRowsOK' /\ BidsStep /\ bid' \in Seq(BidRows)
    /\ BiddingInv /\ UNCHANGED rfq => (\A r \in RFQs : RFQStep(r)) /\ rfq' \in [RFQs -> RFQRows]
    /\ BiddingInv /\ UNCHANGED escrow => EscrowStep /\ escrow' \in Seq(Nat)
<1>1. ASSUME BiddingInv, UNCHANGED <<commit, bid>> PROVE CommitsStep
  <2>1. \A k \in DOMAIN commit : commit[k].bid \in 0..Len(bid) /\ Len(bid) \in Nat
    BY <1>1, Places DEF BiddingInv, Linked, RowsOK
  <2> QED
    BY <1>1, <2>1 DEF CommitsStep, CommitStep
<1>2. ASSUME BiddingInv, UNCHANGED <<commit, bid>> PROVE BidsStep
  BY <1>2 DEF BidsStep, BidStep
<1> QED
  BY <1>1, <1>2 DEF RFQStep, EscrowStep, CommitRowsOK, BiddingInv, RowsOK

\* A handler goes on without touching a table.
LEMMA HandlerGoesOn ==
    ASSUME BiddingAssumption, BiddingInv, NEW q \in Requests, NEW h \in Handlers, HandlerAt(q, h), HandlerOK(h),
           UNCHANGED <<now, dbVars, chainVars>>
    PROVE  StepOK
<1>1. HandlerOK(h)'
  <2>1. UNCHANGED <<now, rfq, commit, escrow>>
    BY DEF dbVars, chainVars
  <2> QED
    BY <2>1 DEF HandlerOK, Chosen, RevealDeadline
<1> QED
  BY <1>1, PlainGoesOn, TablesStay DEF dbVars, chainVars

\* A handler has nothing more to do.
LEMMA IdleIsOK == BiddingAssumption => Idle \in Handlers /\ HandlerOK(Idle) /\ HandlerOK(Idle)'
  BY DEF Idle, Bidder, Handlers, HandlerOK

\* What a handler is like.
LEMMA ItsHandler ==
    ASSUME BiddingInv, NEW q \in Requests
    PROVE  request[q] \in Handlers /\ HandlerOK(request[q])
  BY DEF BiddingInv, HandlersOK, RowsOK

\* A handler ends, with nothing changed.
LEMMA EndsStep ==
    ASSUME BiddingAssumption, BiddingInv, NEW q \in Requests, Ends(q), UNCHANGED <<now, dbVars, chainVars>>
    PROVE  StepOK
  BY IdleIsOK, HandlerGoesOn DEF Ends

\* CommitBid up to its transaction.
LEMMA CommitStartStep ==
    ASSUME BiddingAssumption, BiddingInv, NEW q \in Requests, CommitStart(q) PROVE StepOK
<1>1. PICK r \in RFQs, b \in Bidders :
        rfq[r].status = "open" /\ HandlerAt(q, Bidder("insert", r, b, None, now)) /\ RequestOnly
  BY DEF CommitStart
<1>2. Bidder("insert", r, b, None, now) \in Handlers
  BY DEF BiddingInv, RowsOK, Handlers, Bidder
<1>3. HandlerOK(Bidder("insert", r, b, None, now))
  BY <1>1 DEF HandlerOK, Bidder
<1> QED
  BY <1>1, <1>2, <1>3, HandlerGoesOn DEF RequestOnly

\* RevealBid up to its deadline.
LEMMA RevealStartStep ==
    ASSUME BiddingAssumption, BiddingInv, NEW q \in Requests, RevealStart(q) PROVE StepOK
<1>1. PICK r \in RFQs, b \in Bidders, pc \in {"expire", "find"} :
        rfq[r].status = "open" /\ HandlerAt(q, Bidder(pc, r, b, None, now)) /\ RequestOnly
  BY DEF RevealStart
<1>2. Bidder(pc, r, b, None, now) \in Handlers
  BY DEF BiddingInv, RowsOK, Handlers, Bidder
<1>3. HandlerOK(Bidder(pc, r, b, None, now))
  BY <1>1 DEF HandlerOK, Bidder
<1> QED
  BY <1>1, <1>2, <1>3, HandlerGoesOn DEF RequestOnly

\* The commitment to be opened is there.
LEMMA FindCommitStep ==
    ASSUME BiddingAssumption, BiddingInv, NEW q \in Requests, FindCommit(q) PROVE StepOK
<1> DEFINE r == request[q].rfq
           b == request[q].bidder
<1>1. PICK n \in Nonces :
        Row(r, b, n) \in DOMAIN commit /\ HandlerAt(q, Bidder("reveal", r, b, n, 0)) /\ RequestOnly
  BY DEF FindCommit
<1>2. r \in RFQs /\ b \in Bidders /\ rfq[r].status # "none"
  BY ItsHandler DEF HandlerOK, FindCommit, At
<1> HIDE DEF r, b
<1>3. Bidder("reveal", r, b, n, 0) \in Handlers
  BY <1>2 DEF Handlers, Bidder
<1>4. HandlerOK(Bidder("reveal", r, b, n, 0))
  BY <1>1, <1>2 DEF HandlerOK, Bidder
<1> QED
  BY <1>1, <1>3, <1>4, HandlerGoesOn DEF RequestOnly

\* Somebody looks after the reveal phase.
LEMMA LookStep ==
    ASSUME BiddingAssumption, BiddingInv, NEW q \in Requests, Look(q) PROVE StepOK
<1>1. PICK r \in RFQs : /\ ~Decided(r) /\ now > RevealDeadline(r)
                        /\ HandlerAt(q, Decider("finalize", r, FALSE, 0, now)) /\ RequestOnly
  BY DEF Look
<1>2. now \in Nat /\ RevealDeadline(r) \in Nat
  BY DecidedIsNat DEF BiddingInv, RowsOK
<1>3. Decider("finalize", r, FALSE, 0, now) \in Handlers
  BY <1>2 DEF Handlers, Decider
<1>4. HandlerOK(Decider("finalize", r, FALSE, 0, now))
  BY <1>1, <1>2 DEF HandlerOK, Decider, Decided
<1> QED
  BY <1>1, <1>3, <1>4, HandlerGoesOn DEF RequestOnly

\* An acceptance begins after the reveal phase.
LEMMA AcceptStartStep ==
    ASSUME BiddingAssumption, BiddingInv, NEW q \in Requests, AcceptStart(q) PROVE StepOK
<1>1. PICK r \in RFQs : /\ rfq[r].status = "open" /\ now > RevealDeadline(r)
                        /\ HandlerAt(q, Decider("look", r, TRUE, now, 0)) /\ RequestOnly
  BY DEF AcceptStart
<1>2. Decider("look", r, TRUE, now, 0) \in Handlers
  BY DEF Handlers, Decider, BiddingInv, RowsOK
<1>3. HandlerOK(Decider("look", r, TRUE, now, 0))
  <2>1. RevealDeadline(r) \in Nat /\ now \in Nat
    BY DecidedIsNat DEF BiddingInv, RowsOK
  <2> QED
    BY <1>1, <2>1 DEF HandlerOK, Decider
<1> QED
  BY <1>1, <1>2, <1>3, HandlerGoesOn DEF RequestOnly

\* A cancellation begins with an open RFQ.
LEMMA CancelStartStep ==
    ASSUME BiddingAssumption, BiddingInv, NEW q \in Requests, CancelStart(q) PROVE StepOK
<1>1. PICK r \in RFQs : rfq[r].status = "open" /\ HandlerAt(q, Canceller("cancel", r)) /\ RequestOnly
  BY DEF CancelStart
<1>2. Canceller("cancel", r) \in Handlers
  BY DEF Handlers, Canceller, Bidder
<1>3. HandlerOK(Canceller("cancel", r))
  BY <1>1 DEF HandlerOK, Canceller, Bidder
<1> QED
  BY <1>1, <1>2, <1>3, HandlerGoesOn DEF RequestOnly

\* One of its statements fails.
LEMMA CancelBidsFailsStep ==
    ASSUME BiddingAssumption, BiddingInv, NEW q \in Requests, CancelBidsFails(q) PROVE StepOK
<1> DEFINE r == request[q].rfq
<1>1. r \in RFQs /\ rfq[r].status # "none"
  BY ItsHandler DEF HandlerOK, CancelBidsFails, At
<1> HIDE DEF r
<1>2. Canceller("reopen", r) \in Handlers /\ HandlerOK(Canceller("reopen", r))
  BY <1>1 DEF HandlerOK, Handlers, Canceller, Bidder
<1>3. HandlerAt(q, Canceller("reopen", r)) /\ UNCHANGED <<now, dbVars, chainVars>>
  BY DEF CancelBidsFails, r
<1> QED
  BY <1>2, <1>3, HandlerGoesOn

\* What passes the checks is the selected bid.
LEMMA AcceptCheckStep ==
    ASSUME BiddingAssumption, BiddingInv, NEW q \in Requests, AcceptCheck(q) PROVE StepOK
<1> DEFINE r == request[q].rfq
           i == request[q].bid
<1>1. CASE Acceptable(q, i)
  <2>1. r \in RFQs /\ rfq[r].status # "none" /\ i \in Nat /\ (i = 0 \/ Chosen(r, i)) /\ i # 0
    BY <1>1, ItsHandler DEF HandlerOK, AcceptCheck, At, Acceptable, Handlers
  <2>2. HandlerAt(q, Accepter("create", r, 0, i, 0)) /\ RequestOnly
    BY <1>1 DEF AcceptCheck
  <2> HIDE DEF r, i
  <2>3. Accepter("create", r, 0, i, 0) \in Handlers /\ HandlerOK(Accepter("create", r, 0, i, 0))
    BY <2>1 DEF HandlerOK, Handlers, Accepter
  <2> QED
    BY <2>2, <2>3, HandlerGoesOn DEF RequestOnly
<1>2. CASE ~Acceptable(q, i)
  BY <1>2, EndsStep DEF AcceptCheck, RequestOnly
<1> QED
  BY <1>1, <1>2

\* What an acceptance goes on with is the selected bid, if there is one.
LEMMA SummarisedIsOK ==
    ASSUME NEW q \in Requests, NEW r \in RFQs, request[q].rfq = r, request[q].at \in Nat, NEW best \in Nat,
           rfq'[r].status # "none", best # 0 => rfq'[r].outcome \in Finals /\ rfq'[r].best = best,
           Summarised(q, best), BiddingAssumption
    PROVE  \E h \in Handlers : HandlerAt(q, h) /\ HandlerOK(h)'
<1>1. CASE request[q].accepts
  <2> DEFINE at == request[q].at
  <2>1. HandlerAt(q, Accepter("check", r, at, best, 0)) /\ at \in Nat
    BY <1>1 DEF Summarised
  <2> HIDE DEF at
  <2>2. PICK h : h = Accepter("check", r, at, best, 0)
    OBVIOUS
  <2>3. h \in Handlers /\ h.pc = "check" /\ h.rfq = r /\ h.bid = best
    BY <2>1, <2>2 DEF Handlers, Accepter
  <2>4. HandlerOK(h)'
    BY <2>3 DEF HandlerOK, Chosen
  <2> QED
    BY <2>1, <2>2, <2>3, <2>4
<1>2. CASE ~request[q].accepts
  BY <1>2, IdleIsOK DEF Summarised, Ends
<1> QED
  BY <1>1, <1>2

\* The RFQ is read again.
LEMMA FinalizeReadStep ==
    ASSUME BiddingAssumption, BiddingInv, NEW q \in Requests, FinalizeRead(q) PROVE StepOK
<1> DEFINE r == request[q].rfq
<1>1. r \in RFQs /\ rfq[r].status # "none" /\ request[q].at \in Nat
  BY ItsHandler DEF HandlerOK, FinalizeRead, At, Handlers
<1>2. UNCHANGED <<now, rfq, commit, bid, strikes, escrow>>
  BY DEF FinalizeRead, RequestOnly, dbVars, chainVars
<1>3. CASE Decided(r)
  <2>1. rfq[r].best \in Nat /\ (rfq[r].best # 0 => rfq[r].outcome \in Finals)
    BY <1>1 DEF BiddingInv, DecisionsOK, RowsOK, RFQRows
  <2>2. Summarised(q, rfq[r].best)
    BY <1>3 DEF FinalizeRead
  <2>3. PICK best \in Nat : best = rfq[r].best
    BY <2>1
  <2>4. PICK h \in Handlers : HandlerAt(q, h) /\ HandlerOK(h)'
    BY <1>1, <1>2, <2>1, <2>2, <2>3, SummarisedIsOK
  <2> QED
    BY <1>2, <2>4, PlainGoesOn, TablesStay
<1>4. CASE ~Decided(r)
  <2> DEFINE at == request[q].at
  <2>1. HandlerAt(q, Decider("finalize", r, TRUE, at, now)) /\ RequestOnly
    BY <1>4 DEF FinalizeRead
  <2>2. RevealDeadline(r) < now /\ at \in Nat /\ now \in Nat
    BY <1>1, ItsHandler DEF HandlerOK, FinalizeRead, At, BiddingInv, RowsOK
  <2> HIDE DEF r, at
  <2>3. Decider("finalize", r, TRUE, at, now) \in Handlers
    BY <1>1, <2>2 DEF Handlers, Decider
  <2>4. HandlerOK(Decider("finalize", r, TRUE, at, now))
    BY <1>1, <2>2 DEF HandlerOK, Decider
  <2> QED
    BY <2>1, <2>3, <2>4, HandlerGoesOn DEF RequestOnly
<1> QED
  BY <1>3, <1>4

\* Steps on the RFQs, the clock and the chain.
LEMMA TickStep == ASSUME BiddingAssumption, BiddingInv, Tick PROVE StepOK
<1>1. /\ now' = now + 1 /\ now \in Nat /\ request' = request
      /\ UNCHANGED <<rfq, commit, bid, strikes, escrow>>
  BY DEF Tick, BiddingInv, RowsOK, dbVars, chainVars
<1>2. PlainStep /\ RowsOK'
  BY <1>1, TablesStay DEF PlainStep, TablesStep, BiddingInv, RowsOK
<1> QED
  BY <1>1, <1>2, WorldGoesOn DEF InvStep

\* A new RFQ has decided nothing.
LEMMA PublishStep == ASSUME BiddingAssumption, BiddingInv, NEW r \in RFQs, Publish(r) PROVE StepOK
<1>1. PICK mode \in Modes, requires \in Demands, parented \in Parents :
        /\ rfq[r].status = "none"
        /\ rfq' = [rfq EXCEPT ![r] = RFQ("open", mode, requires, parented, now, "commit_open", 0, 0)]
  BY DEF Publish
<1>2. UNCHANGED <<now, commit, bid, strikes, escrow, request>> /\ now \in Nat
  BY DEF Publish, chainVars, BiddingInv, RowsOK
<1> DEFINE new == RFQ("open", mode, requires, parented, now, "commit_open", 0, 0)
<1>3. new \in RFQRows /\ new.status = "open" /\ new.outcome = "commit_open" /\ new.best = 0
  BY <1>2 DEF RFQ, RFQRows
<1> HIDE DEF new
<1>4. rfq' = [s \in RFQs |-> IF s = r THEN new ELSE rfq[s]] /\ rfq \in [RFQs -> RFQRows]
  BY <1>1 DEF new, BiddingInv, RowsOK
<1>5. (\A s \in RFQs : RFQStep(s)) /\ rfq' \in [RFQs -> RFQRows]
  BY <1>1, <1>3, <1>4 DEF RFQStep
<1>6. PlainStep /\ RowsOK'
  BY <1>2, <1>5, TablesStay DEF PlainStep, TablesStep, BiddingInv, RowsOK
<1> QED
  BY <1>2, <1>6, WorldGoesOn DEF InvStep

\* The indexer only enters escrows.
LEMMA IndexerInsertsStep ==
    ASSUME BiddingAssumption, BiddingInv, NEW e \in DOMAIN escrow, IndexerInserts(e) PROVE StepOK
<1>1. UNCHANGED <<now, rfq, commit, bid, strikes, escrow, request>> /\ now \in Nat
  BY DEF IndexerInserts, dbVars, BiddingInv, RowsOK
<1>2. PlainStep /\ RowsOK'
  BY <1>1, TablesStay DEF PlainStep, TablesStep, BiddingInv, RowsOK
<1> QED
  BY <1>1, <1>2, WorldGoesOn DEF InvStep

\* The status of an RFQ is set.
LEMMA StatusSet ==
    ASSUME BiddingAssumption, BiddingInv, NEW q \in Requests, NEW s \in {"open", "cancelled", "closed"},
           NEW r \in RFQs, rfq[r].status # "none", rfq' = [rfq EXCEPT ![r] = WithStatus(rfq[r], s)]
    PROVE  (\A t \in RFQs : RFQStep(t)) /\ rfq' \in [RFQs -> RFQRows] /\ rfq'[r].status = s
<1> DEFINE new == WithStatus(rfq[r], s)
<1>1. rfq \in [RFQs -> RFQRows] /\ rfq[r] \in RFQRows
  BY DEF BiddingInv, RowsOK
<1>2. /\ new \in RFQRows /\ new.status = s /\ new.opened = rfq[r].opened /\ new.requires = rfq[r].requires
      /\ new.outcome = rfq[r].outcome /\ new.best = rfq[r].best /\ new.finalizedAt = rfq[r].finalizedAt
  BY <1>1 DEF WithStatus, RFQ, RFQRows
<1> HIDE DEF new
<1>3. rfq' = [t \in RFQs |-> IF t = r THEN new ELSE rfq[t]]
  BY <1>1 DEF new
<1> QED
  BY <1>2, <1>3, <1>1 DEF RFQStep

\* An RFQ is cancelled.
LEMMA CancelRFQStep ==
    ASSUME BiddingAssumption, BiddingInv, NEW q \in Requests, CancelRFQ(q) PROVE StepOK
<1> DEFINE r == request[q].rfq
<1>1. PICK x \in RFQs : x = r /\ rfq[x].status # "none"
  BY ItsHandler DEF HandlerOK, CancelRFQ, At
<1>2. /\ rfq' = [rfq EXCEPT ![x] = WithStatus(rfq[x], "cancelled")] /\ HandlerAt(q, Canceller("reject_bids", x))
      /\ UNCHANGED <<now, commit, bid, strikes, escrow>>
  BY <1>1 DEF CancelRFQ, SetStatus, chainVars
<1>3. (\A t \in RFQs : RFQStep(t)) /\ rfq' \in [RFQs -> RFQRows] /\ rfq'[x].status = "cancelled"
  BY <1>1, <1>2, StatusSet
<1>4. Canceller("reject_bids", x) \in Handlers /\ HandlerOK(Canceller("reject_bids", x))'
  BY <1>3 DEF Handlers, Canceller, Bidder, HandlerOK
<1> QED
  BY <1>2, <1>3, <1>4, PlainGoesOn, TablesStay

\* An RFQ is opened again.
LEMMA ReopenStep ==
    ASSUME BiddingAssumption, BiddingInv, NEW q \in Requests, Reopen(q) PROVE StepOK
<1>1. PICK x \in RFQs : x = request[q].rfq /\ rfq[x].status # "none"
  BY ItsHandler DEF HandlerOK, Reopen, At
<1>2. /\ rfq' = [rfq EXCEPT ![x] = WithStatus(rfq[x], "open")] /\ Ends(q)
      /\ UNCHANGED <<now, commit, bid, strikes, escrow>>
  BY <1>1 DEF Reopen, SetStatus, chainVars
<1>3. (\A t \in RFQs : RFQStep(t)) /\ rfq' \in [RFQs -> RFQRows]
  BY <1>1, <1>2, StatusSet
<1> QED
  BY <1>2, <1>3, PlainGoesOn, TablesStay, IdleIsOK DEF Ends

\* The chain creates an escrow for the selected bid.
LEMMA EscrowCreated ==
    ASSUME BiddingAssumption, BiddingInv, NEW q \in Requests, At(q, "create"),
           escrow' = Append(escrow, request[q].bid), UNCHANGED <<now, rfq, commit, bid, strikes>>
    PROVE  /\ EscrowStep /\ escrow' \in Seq(Nat)
           /\ escrow'[Len(escrow) + 1] = request[q].bid /\ Len(escrow) + 1 \in DOMAIN escrow'
           /\ \E r \in RFQs : r = request[q].rfq /\ rfq[r].status # "none"
           /\ Chosen(request[q].rfq, request[q].bid) /\ request[q].bid \in Nat /\ Len(escrow) + 1 \in Nat
<1>1. request[q].rfq \in RFQs /\ rfq[request[q].rfq].status # "none" /\ Chosen(request[q].rfq, request[q].bid)
  BY ItsHandler DEF HandlerOK, At
<1>2. request[q].bid \in DOMAIN bid /\ bid[request[q].bid].rfq = request[q].rfq /\ request[q].bid \in Nat
  BY <1>1, BidPlaces DEF Chosen, BiddingInv, DecisionsOK
<1>3. EscrowStep
  BY <1>1, <1>2 DEF EscrowStep, Chosen
<1>4. escrow \in Seq(Nat)
  BY DEF BiddingInv, RowsOK
<1>5. /\ escrow' \in Seq(Nat) /\ escrow'[Len(escrow) + 1] = request[q].bid
      /\ Len(escrow) + 1 \in DOMAIN escrow' /\ Len(escrow) + 1 \in Nat
  BY <1>2, <1>4
<1> QED
  BY <1>1, <1>2, <1>3, <1>5

\* The handler knows its escrow.
LEMMA CreateStep ==
    ASSUME BiddingAssumption, BiddingInv, NEW q \in Requests, Create(q) PROVE StepOK
<1>1. /\ At(q, "create") /\ escrow' = Append(escrow, request[q].bid)
      /\ UNCHANGED <<now, rfq, commit, bid, strikes>>
  BY DEF Create, dbVars
<1>2. PICK r \in RFQs, i \in Nat, e \in Nat :
        /\ r = request[q].rfq /\ i = request[q].bid /\ e = Len(escrow) + 1
        /\ rfq[r].status # "none" /\ Chosen(r, i) /\ escrow'[e] = i /\ e \in DOMAIN escrow'
  BY <1>1, EscrowCreated
<1>3. HandlerAt(q, Accepter("record", r, 0, i, e))
  BY <1>2 DEF Create
<1>4. Accepter("record", r, 0, i, e) \in Handlers
  BY DEF Handlers, Accepter
<1>5. HandlerOK(Accepter("record", r, 0, i, e))'
  BY <1>1, <1>2 DEF HandlerOK, Accepter, Chosen
<1> QED
  BY <1>1, <1>3, <1>4, <1>5, EscrowCreated, PlainGoesOn, TablesStay

\* Or nobody knows it.
LEMMA CreateMisreportedStep ==
    ASSUME BiddingAssumption, BiddingInv, NEW q \in Requests, CreateMisreported(q) PROVE StepOK
<1>1. /\ At(q, "create") /\ escrow' = Append(escrow, request[q].bid) /\ Ends(q)
      /\ UNCHANGED <<now, rfq, commit, bid, strikes>>
  BY DEF CreateMisreported, dbVars
<1> QED
  BY <1>1, EscrowCreated, PlainGoesOn, TablesStay, IdleIsOK DEF Ends

\* Steps on the commitments.
LEMMA MarkSteps ==
    ASSUME BiddingAssumption, BiddingInv, NEW r, UNCHANGED bid,
           \/ commit' = Mark(r, {"committed"}, "expired")
           \/ commit' = Mark(r, {"committed", "revealed"}, "rejected")
    PROVE  CommitsStep /\ CommitRowsOK' /\ BidsStep /\ bid' \in Seq(BidRows)
<1>1. DOMAIN commit' = DOMAIN commit
  BY DEF Mark
<1>2. ASSUME NEW k \in DOMAIN commit
      PROVE  CommitStep(k) /\ commit'[k] \in Commitments /\ commit'[k].bid = commit[k].bid
  <2>1. commit[k] \in Commitments
    BY DEF BiddingInv, RowsOK
  <2>2. \/ commit'[k] = commit[k]
        \/ commit[k].status = "committed" /\ commit'[k] = Turned(commit[k], "expired")
        \/ commit[k].status \in {"committed", "revealed"} /\ commit'[k] = Turned(commit[k], "rejected")
    BY DEF Mark
  <2>3. CASE commit'[k] = commit[k]
    BY <1>1, <2>1, <2>3 DEF CommitStep
  <2>4. CASE commit[k].status = "committed" /\ commit'[k] = Turned(commit[k], "expired")
    BY <1>1, <2>1, <2>4 DEF CommitStep, Turned, Commitment, Commitments
  <2>5. CASE commit[k].status \in {"committed", "revealed"} /\ commit'[k] = Turned(commit[k], "rejected")
    BY <1>1, <2>1, <2>5 DEF CommitStep, Turned, Commitment, Commitments
  <2> QED
    BY <2>2, <2>3, <2>4, <2>5
<1>3. ASSUME NEW k \in DOMAIN commit PROVE commit'[k].bid # Len(bid) + 1
  <2>1. commit[k].bid \in 0..Len(bid) /\ Len(bid) \in Nat
    BY Places DEF BiddingInv, Linked, RowsOK
  <2> QED
    BY <1>2, <2>1
<1>4. CommitsStep
  BY <1>1, <1>2, <1>3 DEF CommitsStep
<1>5. CommitRowsOK'
  BY <1>1, <1>2 DEF CommitRowsOK, BiddingInv, RowsOK
<1>6. BidsStep /\ bid' \in Seq(BidRows)
  BY DEF BidsStep, BidStep, BiddingInv, RowsOK
<1> QED
  BY <1>4, <1>5, <1>6

\* Commitments expire.
LEMMA LateRevealStep ==
    ASSUME BiddingAssumption, BiddingInv, NEW q \in Requests, LateReveal(q) PROVE StepOK
<1>1. /\ commit' = Mark(request[q].rfq, {"committed"}, "expired") /\ Ends(q)
      /\ UNCHANGED <<now, rfq, bid, strikes, escrow>>
  BY DEF LateReveal, chainVars
<1> QED
  BY <1>1, MarkSteps, PlainGoesOn, TablesStay, IdleIsOK DEF Ends

\* Commitments are rejected.
LEMMA CancelCommitsStep ==
    ASSUME BiddingAssumption, BiddingInv, NEW q \in Requests, CancelCommits(q) PROVE StepOK
<1>1. /\ commit' = Mark(request[q].rfq, {"committed", "revealed"}, "rejected") /\ Ends(q)
      /\ UNCHANGED <<now, rfq, bid, strikes, escrow>>
  BY DEF CancelCommits, chainVars
<1> QED
  BY <1>1, MarkSteps, PlainGoesOn, TablesStay, IdleIsOK DEF Ends

\* A commitment is entered.
LEMMA CommitInsertStep ==
    ASSUME BiddingAssumption, BiddingInv, NEW q \in Requests, CommitInsert(q) PROVE StepOK
<1>1. PICK r \in RFQs, b \in Bidders : r = request[q].rfq /\ b = request[q].bidder
  BY ItsHandler DEF HandlerOK, CommitInsert, At
<1>2. PICK n \in Nonces, t \in Terms :
        LET open == {k \in CommitsOf(r) : k[2] = b /\ commit[k].status = "committed"}
        IN  /\ Row(r, b, n) \notin DOMAIN commit
            /\ commit' = [k \in DOMAIN commit \cup {Row(r, b, n)} |->
                            IF k = Row(r, b, n)
                            THEN Commitment("committed", t, now, 0)
                            ELSE IF k \in open THEN Turned(commit[k], "superseded")
                            ELSE commit[k]]
            /\ Ends(q)
            /\ UNCHANGED <<now, rfq, bid, strikes, cooldown, chainVars, failures>>
  BY <1>1 DEF CommitInsert
<1> DEFINE new == Row(r, b, n)
<1>3. new \in Rows /\ new \notin DOMAIN commit
  BY <1>2 DEF Rows
<1>4. /\ DOMAIN commit' = DOMAIN commit \cup {new}
      /\ commit'[new] = Commitment("committed", t, now, 0)
      /\ \A k \in DOMAIN commit :
            \/ commit'[k] = commit[k]
            \/ commit[k].status = "committed" /\ commit'[k] = Turned(commit[k], "superseded")
  BY <1>2 DEF CommitsOf
<1> HIDE DEF new
<1>5. /\ commit'[new] \in Commitments /\ commit'[new].status = "committed" /\ commit'[new].at = now
      /\ commit'[new].bid = 0
  BY <1>4 DEF Commitment, Commitments, BiddingInv, RowsOK
<1>6. ASSUME NEW k \in DOMAIN commit
      PROVE  CommitStep(k) /\ commit'[k] \in Commitments /\ commit'[k].bid = commit[k].bid
  <2>1. commit[k] \in Commitments
    BY DEF BiddingInv, RowsOK
  <2> QED
    BY <1>4, <2>1 DEF CommitStep, Turned, Commitment, Commitments
<1>7. ASSUME NEW k \in DOMAIN commit PROVE commit'[k].bid # Len(bid) + 1
  <2>1. commit[k].bid \in 0..Len(bid) /\ Len(bid) \in Nat
    BY Places DEF BiddingInv, Linked, RowsOK
  <2> QED
    BY <1>6, <2>1
<1>8. CommitsStep
  BY <1>3, <1>4, <1>5, <1>6, <1>7 DEF CommitsStep
<1>9. CommitRowsOK'
  BY <1>3, <1>4, <1>5, <1>6 DEF CommitRowsOK, BiddingInv, RowsOK
<1>10. UNCHANGED <<now, rfq, bid, strikes, escrow>> /\ Ends(q)
  BY <1>2 DEF chainVars
<1>11. BidsStep /\ bid' \in Seq(BidRows)
  BY <1>10 DEF BidsStep, BidStep, BiddingInv, RowsOK
<1> QED
  BY <1>8, <1>9, <1>10, <1>11, PlainGoesOn, TablesStay, IdleIsOK DEF Ends

\* A reveal enters a bid and ties it to its commitment.
LEMMA RevealStep ==
    ASSUME BiddingAssumption, BiddingInv, NEW q \in Requests, Reveal(q) PROVE StepOK
<1> DEFINE r == request[q].rfq
           key == Row(r, request[q].bidder, request[q].nonce)
<1>1. r \in RFQs /\ key \in DOMAIN commit /\ rfq[r].status # "none" /\ key[1] = r
  BY ItsHandler DEF HandlerOK, Reveal, At, Row
<1>2. UNCHANGED <<now, rfq, strikes, escrow>> /\ Ends(q)
  BY DEF Reveal, chainVars
<1>3. CASE commit[key].status # "committed"
  BY <1>2, <1>3, PlainGoesOn, TablesStay, IdleIsOK DEF Reveal, Ends
<1>4. CASE commit[key].status = "committed"
  <2>1. PICK verified \in BOOLEAN :
          /\ bid' = Append(bid, Bid(r, commit[key].terms, rfq[r].opened + commit[key].terms.life,
                                     verified, "pending", 0))
          /\ commit' = [commit EXCEPT ![key] = Revealed(commit[key], Len(bid) + 1)]
    BY <1>4 DEF Reveal
  <2> DEFINE new == Bid(r, commit[key].terms, rfq[r].opened + commit[key].terms.life, verified, "pending", 0)
  <2>2. commit[key] \in Commitments /\ rfq[r].opened \in Nat
    BY <1>1, DecidedIsNat DEF BiddingInv, RowsOK
  <2>3. new \in BidRows /\ new.rfq = r /\ new.status = "pending"
    <3>1. commit[key].terms \in Terms
      BY <2>2 DEF Commitments
    <3>2. commit[key].terms.life \in Nat
      BY <3>1 DEF BiddingAssumption
    <3> QED
      BY <1>1, <2>2, <3>1, <3>2 DEF Bid, BidRows
  <2> HIDE DEF new
  <2>4. bid' = Append(bid, new)
    BY <2>1 DEF new
  <2>5. bid \in Seq(BidRows) /\ Len(bid) \in Nat
    BY DEF BiddingInv, RowsOK
  <2>6. /\ bid' \in Seq(BidRows) /\ Len(bid') = Len(bid) + 1 /\ bid'[Len(bid) + 1] = new
        /\ DOMAIN bid = 1..Len(bid) /\ DOMAIN bid' = 1..Len(bid) + 1
        /\ \A i \in DOMAIN bid : bid'[i] = bid[i]
    BY <2>3, <2>4, <2>5
  <2> HIDE DEF key
  <2>7. /\ DOMAIN commit' = DOMAIN commit /\ commit'[key] = Revealed(commit[key], Len(bid) + 1)
        /\ \A k \in DOMAIN commit : k # key => commit'[k] = commit[k]
    BY <1>1, <2>1
  <2>8. /\ commit'[key] \in Commitments /\ commit'[key].status = "revealed" /\ commit'[key].bid = Len(bid) + 1
        /\ commit'[key].at = commit[key].at /\ commit'[key].terms = commit[key].terms
    BY <2>2, <2>5, <2>7 DEF Revealed, Commitment, Commitments
  <2>9. ASSUME NEW k \in DOMAIN commit PROVE CommitStep(k) /\ (commit'[k].bid = Len(bid) + 1 => k = key)
    <3>1. CASE k = key
      BY <1>1, <1>4, <2>3, <2>6, <2>7, <2>8, <3>1 DEF CommitStep
    <3>2. CASE k # key
      <4>1. commit[k].bid \in 0..Len(bid)
        BY DEF BiddingInv, Linked
      <4> QED
        BY <2>5, <2>7, <3>2, <4>1 DEF CommitStep
    <3> QED
      BY <3>1, <3>2
  <2>10. CommitsStep
    BY <2>7, <2>9 DEF CommitsStep
  <2>11. CommitRowsOK'
    BY <2>7, <2>8 DEF CommitRowsOK, BiddingInv, RowsOK
  <2>12. BidsStep
    <3>1. \A i \in DOMAIN bid : BidStep(i)
      BY <2>5, <2>6 DEF BidStep
    <3>2. \A i \in DOMAIN bid' \ DOMAIN bid : i = Len(bid) + 1
      BY <2>5, <2>6
    <3> QED
      BY <1>1, <2>3, <2>6, <2>8, <3>1, <3>2 DEF BidsStep
  <2> QED
    BY <1>2, <2>6, <2>10, <2>11, <2>12, PlainGoesOn, TablesStay, IdleIsOK DEF Ends
<1> QED
  BY <1>3, <1>4

\* The RFQ is decided, or was.
LEMMA FinalizeStep ==
    ASSUME BiddingAssumption, BiddingInv, NEW q \in Requests, Finalize(q) PROVE StepOK
<1>1. PICK r \in RFQs : r = request[q].rfq /\ rfq[r].status # "none"
  BY ItsHandler DEF HandlerOK, Finalize, At
<1>2. PICK t \in Nat : t = request[q].finalAt /\ RevealDeadline(r) < t /\ t <= now
  BY <1>1, ItsHandler DEF HandlerOK, Finalize, At, Handlers
<1>3. UNCHANGED <<now, bid, escrow>> /\ request[q].at \in Nat
  BY ItsHandler DEF Finalize, chainVars, Handlers
<1>4. CASE Decided(r)
  <2>1. UNCHANGED <<rfq, commit, strikes>> /\ Summarised(q, rfq[r].best)
    BY <1>1, <1>4 DEF Finalize
  <2>2. rfq[r].best \in Nat /\ (rfq[r].best # 0 => rfq[r].outcome \in Finals)
    BY <1>1 DEF BiddingInv, DecisionsOK, RowsOK, RFQRows
  <2>3. PICK best \in Nat : best = rfq[r].best
    BY <2>2
  <2>4. PICK h \in Handlers : HandlerAt(q, h) /\ HandlerOK(h)'
    BY <1>1, <1>3, <2>1, <2>2, <2>3, SummarisedIsOK
  <2> QED
    BY <1>3, <2>1, <2>4, PlainGoesOn, TablesStay
<1>5. CASE ~Decided(r)
  <2>1. PICK best : best = BestOf(Eligible(r, t))
    OBVIOUS
  <2>2. /\ strikes' = [b \in Bidders |-> IF b \in Silent(r) THEN strikes[b] + 1 ELSE strikes[b]]
        /\ commit' = Mark(r, {"committed"}, "expired")
        /\ rfq' = [rfq EXCEPT ![r] = WithOutcome(rfq[r], best, t)]
        /\ Summarised(q, best)
    BY <1>1, <1>2, <1>5, <2>1 DEF Finalize
  <2>3. best \in Nat
    <3>1. Eligible(r, t) \subseteq DOMAIN bid
      BY DEF Eligible, BidsOf
    <3>2. CASE Eligible(r, t) = {}
      BY <2>1, <3>2 DEF BestOf
    <3>3. CASE Eligible(r, t) # {}
      BY <2>1, <3>1, <3>3, BestIsBest, BidPlaces DEF BiddingInv
    <3> QED
      BY <3>2, <3>3
  <2> DEFINE new == WithOutcome(rfq[r], best, t)
  <2>4. rfq \in [RFQs -> RFQRows] /\ rfq[r] \in RFQRows
    BY DEF BiddingInv, RowsOK
  <2>5. /\ new \in RFQRows /\ new.outcome \in Finals /\ new.best = best /\ new.status = rfq[r].status
    BY <2>3, <2>4 DEF WithOutcome, RFQ, RFQRows, Finals
  <2> HIDE DEF new
  <2>6. rfq' \in [RFQs -> RFQRows] /\ rfq'[r] = new
    BY <2>2, <2>4, <2>5 DEF new
  <2>7. strikes' \in [Bidders -> Nat]
    BY <2>2 DEF BiddingInv, RowsOK
  <2>8. CommitsStep /\ CommitRowsOK' /\ BidsStep /\ bid' \in Seq(BidRows)
    BY <1>3, <2>2, MarkSteps
  <2>9. EscrowStep /\ escrow' \in Seq(Nat)
    BY <1>3, TablesStay
  <2>10. PICK h \in Handlers : HandlerAt(q, h) /\ HandlerOK(h)'
    BY <1>1, <1>3, <2>2, <2>3, <2>5, <2>6, SummarisedIsOK
  <2>11. RowsOK'
    <3>1. request' \in [Requests -> Handlers]
      BY <2>10 DEF HandlerAt, BiddingInv, RowsOK
    <3> QED
      BY <1>3, <2>6, <2>7, <2>8, <2>9, <3>1 DEF RowsOK, CommitRowsOK, BiddingInv
  <2>12. DecidingStep(r, t)
    <3>1. TablesStep
      BY <1>3, <2>8, <2>9 DEF TablesStep, BiddingInv, RowsOK
    <3>2. rfq[r].outcome \notin Finals
      BY <1>5 DEF Decided
    <3> QED
      BY <1>1, <1>2, <1>3, <2>1, <2>2, <3>1, <3>2 DEF DecidingStep
  <2> QED
    BY <2>10, <2>11, <2>12, InvGoesOn DEF InvStep
<1> QED
  BY <1>4, <1>5

\* The bids of an RFQ are decided.
LEMMA CancelBidsStep ==
    ASSUME BiddingAssumption, BiddingInv, NEW q \in Requests, CancelBids(q) PROVE StepOK
<1>1. PICK r \in RFQs : r = request[q].rfq /\ rfq[r].status # "none"
  BY ItsHandler DEF HandlerOK, CancelBids, At
<1>2. /\ bid' = [i \in DOMAIN bid |->
           IF bid[i].rfq = r /\ bid[i].status = "pending" THEN Marked(bid[i], "rejected", bid[i].escrow) ELSE bid[i]]
      /\ HandlerAt(q, Canceller("reject_commits", r))
      /\ UNCHANGED <<now, rfq, commit, strikes, escrow>>
  BY <1>1 DEF CancelBids, chainVars
<1>3. DOMAIN bid' = DOMAIN bid /\ bid \in Seq(BidRows) /\ DOMAIN bid = 1..Len(bid) /\ Len(bid) \in Nat
  BY <1>2 DEF BiddingInv, RowsOK
<1>4. ASSUME NEW i \in DOMAIN bid PROVE BidStep(i) /\ bid'[i] \in BidRows
  <2>1. bid[i] \in BidRows
    BY <1>3
  <2> QED
    BY <1>2, <1>3, <2>1 DEF BidStep, Marked, Bid, BidRows
<1>5. BidsStep /\ bid' \in Seq(BidRows)
  <2>1. bid' \in [1..Len(bid) -> BidRows]
    BY <1>2, <1>3, <1>4
  <2> QED
    BY <1>3, <1>4, <2>1 DEF BidsStep
<1>6. CommitsStep /\ CommitRowsOK'
  <2>1. \A k \in DOMAIN commit : commit[k].bid \in 0..Len(bid) /\ Len(bid) \in Nat
    BY <1>3 DEF BiddingInv, Linked
  <2> QED
    BY <1>2, <2>1 DEF CommitsStep, CommitStep, CommitRowsOK, BiddingInv, RowsOK
<1>7. Canceller("reject_commits", r) \in Handlers /\ HandlerOK(Canceller("reject_commits", r))'
  BY <1>1, <1>2 DEF Handlers, Canceller, Bidder, HandlerOK
<1> QED
  BY <1>2, <1>5, <1>6, <1>7, PlainGoesOn, TablesStay

\* An acceptance is recorded.
LEMMA RecordStep ==
    ASSUME BiddingAssumption, BiddingInv, NEW q \in Requests, Record(q) PROVE StepOK
<1> DEFINE own == request[q].bid
           e == request[q].escrow
<1>1. PICK r \in RFQs : r = request[q].rfq /\ rfq[r].status # "none"
  BY ItsHandler DEF HandlerOK, Record, At
<1>2. UNCHANGED <<now, strikes, escrow>> /\ Ends(q)
  BY DEF Record, chainVars
<1>3. Chosen(r, own) /\ e \in DOMAIN escrow /\ escrow[e] = own
  BY <1>1, ItsHandler DEF HandlerOK, Record, At
<1>4. own \in DOMAIN bid /\ bid[own].rfq = r /\ rfq[r].best = own
  BY <1>3 DEF Chosen, BiddingInv, DecisionsOK
<1>5. CASE e \in indexed \/ bid[own].status # "pending"
  BY <1>2, <1>5, PlainGoesOn, TablesStay, IdleIsOK DEF Record, Ends
<1>6. CASE ~(e \in indexed \/ bid[own].status # "pending")
  <2>1. /\ bid' = [j \in DOMAIN bid |->
             IF j = own THEN Marked(bid[j], "accepted", e)
             ELSE IF bid[j].rfq = r /\ bid[j].status = "pending"
             THEN Marked(bid[j], "rejected", bid[j].escrow) ELSE bid[j]]
        /\ rfq' = [rfq EXCEPT ![r] = WithStatus(rfq[r], "closed")]
        /\ commit' = [k \in DOMAIN commit |->
             IF k \in Opened(own) THEN Turned(commit[k], "accepted")
             ELSE Mark(r, {"committed", "revealed"}, "rejected")[k]]
    BY <1>1, <1>6 DEF Record
  <2>2. (\A t \in RFQs : RFQStep(t)) /\ rfq' \in [RFQs -> RFQRows]
    BY <1>1, <2>1, StatusSet
  <2>3. DOMAIN bid' = DOMAIN bid /\ bid \in Seq(BidRows) /\ DOMAIN bid = 1..Len(bid) /\ Len(bid) \in Nat
    BY <2>1 DEF BiddingInv, RowsOK
  <2>4. DOMAIN commit' = DOMAIN commit
    BY <2>1
  <2>5. ASSUME NEW k \in DOMAIN commit
        PROVE  /\ commit[k] \in Commitments /\ commit[k].bid \in 0..Len(bid)
               /\ \/ k \in Opened(own) /\ commit'[k] = Turned(commit[k], "accepted")
                  \/ commit[k].bid # own /\ commit'[k] = commit[k]
                  \/ /\ commit[k].bid # own /\ commit[k].status \in {"committed", "revealed"}
                     /\ commit'[k] = Turned(commit[k], "rejected")
    BY <2>1 DEF Mark, Opened, BiddingInv, RowsOK, Linked
  <2>6. bid'[own] = Marked(bid[own], "accepted", e) /\ bid[own] \in BidRows /\ bid[own].status = "pending"
    BY <1>4, <1>6, <2>1, <2>3
  <2>7. bid'[own].status = "accepted" /\ bid'[own].escrow = e
    BY <2>6 DEF Marked, Bid
  <2>8. ASSUME NEW k \in DOMAIN commit
        PROVE  CommitStep(k) /\ commit'[k] \in Commitments /\ commit'[k].bid = commit[k].bid
    <3>1. CASE k \in Opened(own) /\ commit'[k] = Turned(commit[k], "accepted")
      BY <1>4, <2>4, <2>5, <2>6, <2>7, <3>1 DEF CommitStep, Turned, Commitment, Commitments, Opened
    <3>2. CASE commit'[k] = commit[k]
      BY <2>4, <2>5, <3>2 DEF CommitStep
    <3>3. CASE commit[k].status \in {"committed", "revealed"} /\ commit'[k] = Turned(commit[k], "rejected")
      BY <2>4, <2>5, <3>3 DEF CommitStep, Turned, Commitment, Commitments
    <3> QED
      BY <2>5, <3>1, <3>2, <3>3
  <2>9. CommitsStep /\ CommitRowsOK'
    <3>1. \A k \in DOMAIN commit : commit'[k].bid # Len(bid) + 1
      BY <2>3, <2>5, <2>8
    <3> QED
      BY <2>4, <2>8, <3>1 DEF CommitsStep, CommitRowsOK, BiddingInv, RowsOK
  <2>10. \A k \in DOMAIN commit : commit[k].bid = own => commit'[k].status = "accepted"
    <3>1. \A c : Turned(c, "accepted").status = "accepted"
      BY DEF Turned, Commitment
    <3>2. ASSUME NEW k \in DOMAIN commit, commit[k].bid = own PROVE commit'[k] = Turned(commit[k], "accepted")
      BY <2>5, <3>2
    <3> QED
      BY <3>1, <3>2
  <2>11. e \in Nat
    BY ItsHandler DEF Handlers
  <2>12. ASSUME NEW i \in DOMAIN bid PROVE BidStep(i) /\ bid'[i] \in BidRows
    <3>1. bid[i] \in BidRows /\ i \in DOMAIN bid'
      BY <2>3
    <3>2. CASE i = own
      BY <1>3, <1>4, <2>6, <2>7, <2>10, <2>11, <3>1, <3>2 DEF BidStep, Marked, Bid, BidRows
    <3>3. CASE i # own /\ bid'[i] = bid[i]
      BY <3>1, <3>3 DEF BidStep
    <3>4. CASE i # own /\ bid[i].status = "pending" /\ bid'[i] = Marked(bid[i], "rejected", bid[i].escrow)
      BY <3>1, <3>4 DEF BidStep, Marked, Bid, BidRows
    <3> QED
      BY <2>1, <3>2, <3>3, <3>4
  <2>13. BidsStep /\ bid' \in Seq(BidRows)
    <3>1. bid' \in [1..Len(bid) -> BidRows]
      BY <2>1, <2>3, <2>12
    <3> QED
      BY <2>3, <2>12, <3>1 DEF BidsStep
  <2> QED
    BY <1>2, <2>2, <2>9, <2>13, PlainGoesOn, TablesStay, IdleIsOK DEF Ends
<1> QED
  BY <1>5, <1>6

-----------------------------------------------------------------------------
\* The results.

\* The initial state.
LEMMA InitOK == BiddingAssumption /\ Init => BiddingInv
<1> SUFFICES ASSUME BiddingAssumption, Init PROVE BiddingInv
  OBVIOUS
<1>1. commit = << >> /\ bid = << >> /\ escrow = << >> /\ DOMAIN commit = {} /\ DOMAIN bid = {} /\ DOMAIN escrow = {}
  BY DEF Init
<1>2. NoRFQ \in RFQRows /\ NoRFQ.outcome \notin Finals /\ NoRFQ.best = 0
  BY DEF NoRFQ, RFQ, RFQRows, Finals
<1>3. \A r \in RFQs : rfq[r] = NoRFQ
  BY DEF Init
<1>4. RowsOK
  <2>1. rfq \in [RFQs -> RFQRows] /\ request \in [Requests -> Handlers] /\ strikes \in [Bidders -> Nat] /\ now \in Nat
    BY <1>2, IdleIsOK DEF Init
  <2>2. bid \in Seq(BidRows) /\ escrow \in Seq(Nat)
    BY <1>1
  <2> QED
    BY <1>1, <2>1, <2>2 DEF RowsOK
<1>5. Linked /\ Paid
  BY <1>1 DEF Linked, Paid
<1>6. DecisionsOK /\ WinnerIsBest
  BY <1>2, <1>3 DEF DecisionsOK, WinnerIsBest
<1>7. HandlersOK
  <2>1. \A q \in Requests : request[q] = Idle /\ Idle.pc = "idle"
    BY DEF Init, Idle, Bidder
  <2> QED
    BY <2>1 DEF HandlersOK, HandlerOK
<1>8. StrikesFair
  <2> SUFFICES ASSUME NEW b \in Bidders PROVE strikes[b] <= Cardinality(SilentIn(b))
    BY DEF StrikesFair, SilentIn
  <2>1. SilentIn(b) = {}
    BY <1>2, <1>3 DEF SilentIn
  <2>2. strikes[b] = 0 /\ Cardinality({}) = 0
    BY FS_EmptySet DEF Init
  <2> QED
    BY <2>1, <2>2
<1> QED
  BY <1>4, <1>5, <1>6, <1>7, <1>8 DEF BiddingInv

\* Every step is plain or decides, and keeps the invariant.
LEMMA NextKeeps == ASSUME BiddingAssumption, BiddingInv, [Next]_vars PROVE StepOK
<1>1. CASE Tick
  BY <1>1, TickStep
<1>2. ASSUME NEW r \in RFQs, Publish(r) PROVE StepOK
  BY <1>2, PublishStep
<1>3. ASSUME NEW q \in Requests, Bids(q) PROVE StepOK
  <2>1. CASE CommitRefused(q) \/ NothingToReveal(q)
    BY <2>1, EndsStep DEF CommitRefused, NothingToReveal, RequestOnly
  <2> QED
    BY <1>3, <2>1, CommitStartStep, CommitInsertStep, RevealStartStep, LateRevealStep, FindCommitStep, RevealStep
    DEF Bids
<1>4. ASSUME NEW q \in Requests, Decides(q) PROVE StepOK
  BY <1>4, LookStep, FinalizeReadStep, FinalizeStep, AcceptStartStep, AcceptCheckStep, CreateStep,
     CreateMisreportedStep, RecordStep DEF Decides
<1>5. ASSUME NEW q \in Requests, Cancels(q) PROVE StepOK
  BY <1>5, CancelStartStep, CancelRFQStep, CancelBidsStep, CancelBidsFailsStep, ReopenStep, CancelCommitsStep
  DEF Cancels
<1>6. ASSUME NEW q \in Requests, GivesUp(q) PROVE StepOK
  BY <1>6, EndsStep DEF GivesUp
<1>7. ASSUME NEW e \in DOMAIN escrow, IndexerInserts(e) PROVE StepOK
  BY <1>7, IndexerInsertsStep
<1>8. CASE UNCHANGED vars
  <2>1. UNCHANGED <<now, rfq, commit, bid, strikes, escrow, request>>
    BY <1>8 DEF vars, dbVars, chainVars
  <2>2. PlainStep /\ RowsOK'
    BY <2>1, TablesStay DEF PlainStep, TablesStep, BiddingInv, RowsOK
  <2> QED
    BY <2>1, <2>2, WorldGoesOn DEF InvStep
<1> QED
  BY <1>1, <1>2, <1>3, <1>4, <1>5, <1>6, <1>7, <1>8 DEF Next

\* The invariant holds of every behaviour.
LEMMA BiddingAlways == Spec => []BiddingInv
<1>1. Init => BiddingInv
  BY BiddingAssumption, InitOK
<1>2. BiddingInv /\ [Next]_vars => BiddingInv'
  BY BiddingAssumption, NextKeeps DEF StepOK
<1> QED
  BY <1>1, <1>2, PTL DEF Spec

\* The choice stays right, however reveals, finalisations, acceptances and
\* cancellations interleave (FinalizeSealedBidding, RevealBid).
THEOREM WinnerStaysBest == Spec => []WinnerIsBest
<1>1. BiddingInv => WinnerIsBest
  BY DEF BiddingInv
<1> QED
  BY <1>1, BiddingAlways, PTL

\* Commitments are opened once, and only the selected bid is accepted and gets
\* an escrow (RevealBid, AcceptBid).
THEOREM OnlyWinnersPaid == Spec => []OnlyWinnerPaid
<1>1. BiddingInv => OnlyWinnerPaid
  <2> SUFFICES ASSUME BiddingInv PROVE OnlyWinnerPaid
    OBVIOUS
  <2>1. ASSUME NEW i \in DOMAIN bid PROVE Cardinality(Opened(i)) = 1
    <3>1. Opened(i) # {} /\ i # 0
      BY HasOpened, BidPlaces DEF BiddingInv
    <3>2. PICK k : k \in Opened(i)
      BY <3>1
    <3>3. Opened(i) = {k}
      BY <3>1, <3>2 DEF BiddingInv, Linked, Opened
    <3> QED
      BY <3>3, FS_Singleton
  <2>2. RevealedOnce
    <3>1. DOMAIN bid = 1..Len(bid) /\ Len(bid) \in Nat
      BY BidPlaces DEF BiddingInv
    <3> QED
      BY <2>1, <3>1 DEF RevealedOnce, BiddingInv, Linked
  <2> QED
    BY <2>2 DEF OnlyWinnerPaid, BiddingInv, Paid
<1> QED
  BY <1>1, BiddingAlways, PTL

\* A bidder has no more strikes than silences, for any number of RFQs and of
\* handlers that finalise them (FinalizeSealedBidding).
THEOREM StrikesAlwaysFair == Spec => []StrikesFair
<1>1. BiddingInv => StrikesFair
  BY DEF BiddingInv
<1> QED
  BY <1>1, BiddingAlways, PTL

\* An outcome stays, and so does what has become of a bid, for any number of
\* handlers (FinalizeSealedBidding, AcceptBid, CancelRFQ).
THEOREM OutcomesStay == Spec => OutcomeStays
<1>1. ASSUME BiddingInv, [Next]_vars
      PROVE  /\ \A r \in RFQs : rfq[r].outcome \in Finals =>
                  /\ rfq'[r].outcome = rfq[r].outcome /\ rfq'[r].best = rfq[r].best
                  /\ rfq'[r].finalizedAt = rfq[r].finalizedAt
             /\ \A i \in DOMAIN bid : bid[i].status # "pending" => bid'[i].status = bid[i].status
  <2>1. InvStep
    BY <1>1, BiddingAssumption, NextKeeps DEF StepOK
  <2>2. TablesStep
    BY <2>1 DEF InvStep, PlainStep, DecidingStep
  <2>3. \A i \in DOMAIN bid : bid[i].status # "pending" => bid'[i].status = bid[i].status
    BY <2>2 DEF TablesStep, BidsStep, BidStep
  <2> QED
    BY <1>1, <2>1, <2>3, DecidedStays DEF BiddingInv, InvStep
<1> QED
  BY <1>1, BiddingAlways, PTL DEF Spec, OutcomeStays
=============================================================================
