----------------------------- MODULE MCBidding -----------------------------
\* Small instances of Bidding.
EXTENDS Bidding, TLC

CONSTANTS r1,      \* RFQs
          b1, b2,  \* bidders
          n1, n2,  \* nonces
          q1, q2   \* handlers

\* A cheap and slow bid, a dear and quick one, and the best, which expires when
\* the reveal phase ends.
ThreeTerms == {[amount |-> 1, duration |-> 2, life |-> 4], [amount |-> 2, duration |-> 1, life |-> 4],
               [amount |-> 1, duration |-> 1, life |-> 2]}
GrowingCooldowns == <<1, 2, 3>>

Symmetry == Permutations({b1, b2}) \cup Permutations({n1, n2}) \cup Permutations({q1, q2})
=============================================================================
