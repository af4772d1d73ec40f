--------------------------- MODULE ServicesProofs ---------------------------
\* Proofs about the services around an escrow, for any number of processes,
\* requests, keys, mandates, proposals, tasks and tokens: each by an invariant of its own.
EXTENDS EscrowCalls, Checkout, CreationRequests, Decomposition, A2ATasks, DelegationTokens,
        SequenceTheorems, FiniteSetTheorems, TLAPS

-----------------------------------------------------------------------------
\* Checkouts.

\* Beyond the lock, with a key.
Inside(r) == r.pc \notin {"idle", "acquire"} /\ r.key # NoKey

Operations == {"create", "update", "complete", "cancel"}

\* A request beyond the lock holds it, and beyond the look-up it knows that its
\* process has not answered.
ShopperOK(s) ==
    LET r == shopper[s]
    IN  /\ r.key \in Keys \cup {NoKey}
        /\ r.pc # "idle" => r.process \in Processes
        /\ r.pc \in {"acquire", "lookup"} => r.key \in Keys
        /\ r.pc \in {"acquire", "lookup", "read"} => r.operation \in Operations
        /\ Inside(r) => r.key \in locks[r.process]
        /\ Inside(r) /\ r.pc # "lookup" =>
              answered[r.key] = NoAnswer \/ answered[r.key].by # r.process

\* No two hold the same lock.
Alone(s, t) ==
    Inside(shopper[s]) /\ Inside(shopper[t])
    /\ shopper[s].key = shopper[t].key /\ shopper[s].process = shopper[t].process => s = t

\* The tables that do not matter to the locks.
LedgersOK ==
    /\ locks \in [Processes -> SUBSET Keys]
    /\ sent \in [Keys -> [Processes -> Nat]]
    /\ answered = [k \in Keys |-> answered[k]]
    /\ \A k \in Keys : answered[k] # NoAnswer => answered[k].by \in Processes
    /\ disputed = {}

CheckoutInv ==
    /\ LedgersOK
    /\ shopper = [s \in Shoppers |-> shopper[s]]
    /\ \A s \in Shoppers : ShopperOK(s)
    /\ \A s, t \in Shoppers : Alone(s, t)

\* One request moves, the others stay.
LEMMA OneShopper ==
    ASSUME CheckoutInv, NEW s \in Shoppers, NEW r, ShopAt(s, r)
    PROVE  /\ shopper' = [t \in Shoppers |-> shopper'[t]] /\ shopper'[s] = r
           /\ \A t \in Shoppers : t # s => shopper'[t] = shopper[t]
<1>1. shopper' = [t \in Shoppers |-> IF t = s THEN r ELSE shopper[t]]
  BY DEF CheckoutInv, ShopAt
<1> QED
  BY <1>1

\* The fields of a request.
LEMMA ShopFields ==
    ASSUME NEW pc, NEW process, NEW key, NEW operation, NEW status, NEW projected
    PROVE  LET r == Shop(pc, process, key, operation, status, projected)
           IN  r.pc = pc /\ r.process = process /\ r.key = key /\ r.operation = operation
  BY DEF Shop

\* A request goes on with its key, in what it does once.
LEMMA ShopperGoesOn ==
    ASSUME CheckoutInv, NEW s \in Shoppers, NEW r, ShopAt(s, r),
           r.process = shopper[s].process, r.key = shopper[s].key,
           r.pc \notin {"idle", "acquire", "lookup", "read"},
           shopper[s].pc \notin {"idle", "acquire", "lookup"},
           UNCHANGED <<locks, answered, disputed>>, sent' \in [Keys -> [Processes -> Nat]]
    PROVE  CheckoutInv'
<1>1. /\ shopper' = [t \in Shoppers |-> shopper'[t]] /\ shopper'[s] = r
      /\ \A t \in Shoppers : t # s => shopper'[t] = shopper[t]
  BY OneShopper
<1>2. ASSUME NEW t \in Shoppers PROVE ShopperOK(t)'
  <2>1. ShopperOK(t) /\ ShopperOK(s)
    BY DEF CheckoutInv
  <2>2. CASE t = s
    BY <1>1, <2>1, <2>2 DEF ShopperOK, Inside
  <2>3. CASE t # s
    BY <1>1, <2>1, <2>3 DEF ShopperOK, Inside
  <2> QED
    BY <2>2, <2>3
<1>3. ASSUME NEW t \in Shoppers, NEW u \in Shoppers PROVE Alone(t, u)'
  <2>1. Alone(t, u)
    BY DEF CheckoutInv
  <2>2. \A v \in Shoppers : /\ shopper'[v].key = shopper[v].key /\ shopper'[v].process = shopper[v].process
                            /\ Inside(shopper'[v]) => Inside(shopper[v])
    BY <1>1 DEF Inside
  <2> QED
    BY <2>1, <2>2 DEF Alone
<1>4. LedgersOK'
  BY DEF CheckoutInv, LedgersOK
<1> QED
  BY <1>1, <1>2, <1>3, <1>4 DEF CheckoutInv

\* A request goes away, and its lock with it.
LEMMA ShopperEnds ==
    ASSUME CheckoutInv, NEW s \in Shoppers, ShopEnds(s),
           shopper[s].pc \notin {"idle", "acquire"}, UNCHANGED sent,
           disputed' = {}, answered' = [k \in Keys |-> answered'[k]],
           \A k \in Keys : answered'[k] # NoAnswer => answered'[k].by \in Processes,
           \A k \in Keys : answered'[k] # answered[k] =>
              k = shopper[s].key /\ answered'[k].by = shopper[s].process
    PROVE  CheckoutInv'
<1>1. /\ shopper' = [t \in Shoppers |-> shopper'[t]] /\ shopper'[s] = NotShopping
      /\ \A t \in Shoppers : t # s => shopper'[t] = shopper[t]
  BY OneShopper DEF ShopEnds
<1>2. NotShopping.pc = "idle" /\ NotShopping.key = NoKey
  BY DEF NotShopping, Shop
<1> DEFINE p == shopper[s].process
           k == shopper[s].key
<1>3. p \in Processes /\ locks \in [Processes -> SUBSET Keys]
  BY DEF CheckoutInv, ShopperOK, LedgersOK
<1>4. /\ locks' \in [Processes -> SUBSET Keys]
      /\ \A q \in Processes : q # p => locks'[q] = locks[q]
      /\ locks'[p] = locks[p] \ {k}
  BY <1>3 DEF ShopEnds
<1>5. ASSUME NEW t \in Shoppers PROVE ShopperOK(t)'
  <2>1. ShopperOK(t) /\ ShopperOK(s) /\ Alone(s, t)
    BY DEF CheckoutInv
  <2>2. CASE t = s
    BY <1>1, <1>2, <2>2 DEF ShopperOK, Inside
  <2>3. CASE t # s /\ ~Inside(shopper[t])
    BY <1>1, <2>1, <2>3 DEF ShopperOK
  <2>4. CASE t # s /\ Inside(shopper[t])
    <3> DEFINE r == shopper[t]
    <3>1. shopper'[t] = r /\ Inside(r) /\ r.process \in Processes /\ r.key \in Keys
      BY <1>1, <2>1, <2>4 DEF ShopperOK, Inside
    <3>2. ~(r.key = k /\ r.process = p)
      <4>1. CASE k = NoKey
        BY <3>1, <4>1 DEF Inside
      <4>2. CASE k # NoKey
        BY <2>1, <2>4, <4>2 DEF Alone, Inside
      <4> QED
        BY <4>1, <4>2
    <3>3. r.key \in locks'[r.process]
      BY <1>4, <2>1, <3>1, <3>2 DEF ShopperOK
    <3>4. r.pc # "lookup" => answered'[r.key] = NoAnswer \/ answered'[r.key].by # r.process
      <4>1. CASE answered'[r.key] = answered[r.key]
        BY <2>1, <3>1, <4>1 DEF ShopperOK
      <4>2. CASE answered'[r.key] # answered[r.key]
        BY <3>1, <3>2, <4>2
      <4> QED
        BY <4>1, <4>2
    <3> QED
      BY <2>1, <3>1, <3>3, <3>4 DEF ShopperOK
  <2> QED
    BY <2>2, <2>3, <2>4
<1>6. ASSUME NEW t \in Shoppers, NEW u \in Shoppers PROVE Alone(t, u)'
  <2>1. Alone(t, u)
    BY DEF CheckoutInv
  <2>2. \A v \in Shoppers : Inside(shopper'[v]) => shopper'[v] = shopper[v]
    BY <1>1, <1>2 DEF Inside
  <2> QED
    BY <2>1, <2>2 DEF Alone
<1>7. LedgersOK'
  BY <1>4 DEF CheckoutInv, LedgersOK
<1> QED
  BY <1>1, <1>5, <1>6, <1>7 DEF CheckoutInv

\* A request comes.
LEMMA ShopperComes ==
    ASSUME CheckoutInv, NEW s \in Shoppers, NEW r, ShopAt(s, r), Shopping(s, "idle"),
           UNCHANGED <<locks, answered, disputed, sent>>,
           r.process \in Processes, r.key \in Keys \cup {NoKey},
           r.pc = "acquire" => r.key \in Keys,
           r.pc # "acquire" => r.key = NoKey,
           r.pc \in {"acquire", "read"} => r.operation \in Operations,
           r.pc \in {"acquire", "read", "project"}
    PROVE  CheckoutInv'
<1>1. /\ shopper' = [t \in Shoppers |-> shopper'[t]] /\ shopper'[s] = r
      /\ \A t \in Shoppers : t # s => shopper'[t] = shopper[t]
  BY OneShopper
<1>2. ASSUME NEW t \in Shoppers PROVE ShopperOK(t)'
  <2>1. ShopperOK(t)
    BY DEF CheckoutInv
  <2>2. CASE t = s
    BY <1>1, <2>2 DEF ShopperOK, Inside
  <2>3. CASE t # s
    BY <1>1, <2>1, <2>3 DEF ShopperOK, Inside
  <2> QED
    BY <2>2, <2>3
<1>3. ASSUME NEW t \in Shoppers, NEW u \in Shoppers PROVE Alone(t, u)'
  <2>1. Alone(t, u)
    BY DEF CheckoutInv
  <2>2. \A v \in Shoppers : Inside(shopper'[v]) => shopper'[v] = shopper[v]
    BY <1>1 DEF Inside
  <2> QED
    BY <2>1, <2>2 DEF Alone
<1>4. LedgersOK'
  BY DEF CheckoutInv, LedgersOK
<1> QED
  BY <1>1, <1>2, <1>3, <1>4 DEF CheckoutInv

\* Who takes a free lock is alone with it.
LEMMA AcquireStep == ASSUME CheckoutInv, NEW s \in Shoppers, Acquire(s) PROVE CheckoutInv'
<1> DEFINE r == shopper[s]
           m == Shop("lookup", r.process, r.key, r.operation, r.escrow, r.projected)
<1>1. ShopAt(s, m) /\ r.pc = "acquire" /\ r.key \notin locks[r.process]
  BY DEF Acquire, ShopGoto, Shopping
<1>2. m.pc = "lookup" /\ m.process = r.process /\ m.key = r.key /\ m.operation = r.operation
  BY ShopFields
<1>3. /\ shopper' = [t \in Shoppers |-> shopper'[t]] /\ shopper'[s] = m
      /\ \A t \in Shoppers : t # s => shopper'[t] = shopper[t]
  BY <1>1, OneShopper
<1>4. r.process \in Processes /\ r.key \in Keys /\ r.operation \in Operations /\ r.key # NoKey
  BY <1>1, CheckoutAssumption DEF CheckoutInv, ShopperOK
<1>5. /\ locks \in [Processes -> SUBSET Keys]
      /\ locks' = [locks EXCEPT ![r.process] = @ \cup {r.key}]
  BY DEF Acquire, CheckoutInv, LedgersOK
<1>6. /\ locks' \in [Processes -> SUBSET Keys] /\ r.key \in locks'[r.process]
      /\ \A p \in Processes : locks[p] \subseteq locks'[p]
  BY <1>4, <1>5
<1> HIDE DEF m
<1>7. ASSUME NEW t \in Shoppers PROVE ShopperOK(t)'
  <2>1. ShopperOK(t)
    BY DEF CheckoutInv
  <2>2. CASE t = s
    BY <1>2, <1>3, <1>4, <1>6, <2>2 DEF ShopperOK, Inside
  <2>3. CASE t # s
    <3>1. Inside(shopper[t]) => shopper[t].key \in locks'[shopper[t].process]
      BY <1>6, <2>1 DEF ShopperOK, Inside
    <3> QED
      BY <1>3, <2>1, <2>3, <3>1 DEF ShopperOK, Inside, Acquire
  <2> QED
    BY <2>2, <2>3
<1>8. ASSUME NEW t \in Shoppers, t # s PROVE Alone(t, s)' /\ Alone(s, t)'
  <2>1. Inside(shopper[t]) => ~(shopper[t].key = r.key /\ shopper[t].process = r.process)
    BY <1>1 DEF CheckoutInv, ShopperOK
  <2> QED
    BY <1>2, <1>3, <1>8, <2>1 DEF Alone
<1>9. ASSUME NEW t \in Shoppers, NEW u \in Shoppers PROVE Alone(t, u)'
  <2>1. CASE t = s \/ u = s
    BY <1>8, <2>1 DEF Alone
  <2>2. CASE t # s /\ u # s
    BY <1>3, <2>2 DEF CheckoutInv, Alone
  <2> QED
    BY <2>1, <2>2
<1>10. LedgersOK'
  BY <1>6 DEF Acquire, CheckoutInv, LedgersOK
<1> QED
  BY <1>3, <1>7, <1>9, <1>10 DEF CheckoutInv

\* Who finds no answer goes on, and knows so.
LEMMA LookupStep == ASSUME CheckoutInv, NEW s \in Shoppers, Lookup(s) PROVE CheckoutInv'
<1> DEFINE r == shopper[s]
           m == Shop("read", r.process, r.key, r.operation, r.escrow, r.projected)
<1>1. r.pc = "lookup" /\ ShopperOK(s) /\ r.key \in Keys
  BY DEF Lookup, Shopping, CheckoutInv, ShopperOK
<1>2. CASE answered[r.key] = NoAnswer
  <2>1. ShopAt(s, m) /\ UNCHANGED <<locks, answered, disputed, sent>>
    BY <1>2 DEF Lookup, ShopGoto
  <2>2. m.pc = "read" /\ m.process = r.process /\ m.key = r.key /\ m.operation = r.operation
    BY ShopFields
  <2>3. /\ shopper' = [t \in Shoppers |-> shopper'[t]] /\ shopper'[s] = m
        /\ \A t \in Shoppers : t # s => shopper'[t] = shopper[t]
    BY <2>1, OneShopper
  <2> HIDE DEF m
  <2>4. ASSUME NEW t \in Shoppers PROVE ShopperOK(t)'
    <3>1. ShopperOK(t)
      BY DEF CheckoutInv
    <3>2. CASE t = s
      BY <1>1, <1>2, <2>1, <2>2, <2>3, <3>2 DEF ShopperOK, Inside
    <3>3. CASE t # s
      BY <2>1, <2>3, <3>1, <3>3 DEF ShopperOK, Inside
    <3> QED
      BY <3>2, <3>3
  <2>5. ASSUME NEW t \in Shoppers, NEW u \in Shoppers PROVE Alone(t, u)'
    <3>1. Alone(t, u)
      BY DEF CheckoutInv
    <3>2. \A v \in Shoppers : /\ shopper'[v].key = shopper[v].key /\ shopper'[v].process = shopper[v].process
                              /\ Inside(shopper'[v]) => Inside(shopper[v])
      BY <1>1, <2>2, <2>3 DEF Inside
    <3> QED
      BY <3>1, <3>2 DEF Alone
  <2>6. LedgersOK'
    BY <2>1 DEF CheckoutInv, LedgersOK
  <2> QED
    BY <2>3, <2>4, <2>5, <2>6 DEF CheckoutInv
<1>3. CASE answered[r.key] # NoAnswer
  <2>1. ShopEnds(s) /\ UNCHANGED <<answered, disputed, sent>>
    BY <1>3 DEF Lookup
  <2> QED
    BY <1>1, <2>1, ShopperEnds DEF CheckoutInv, LedgersOK
<1> QED
  BY <1>2, <1>3

\* The first answer of a process, or none.
LEMMA StoreAnswerStep == ASSUME CheckoutInv, NEW s \in Shoppers, StoreAnswer(s) PROVE CheckoutInv'
<1> DEFINE k == shopper[s].key
<1>1. ShopEnds(s) /\ shopper[s].pc = "store" /\ UNCHANGED sent /\ LedgersOK
      /\ shopper[s].process \in Processes
  BY DEF StoreAnswer, Shopping, CheckoutInv, ShopperOK
<1>2. CASE k = NoKey
  BY <1>1, <1>2, ShopperEnds DEF StoreAnswer, LedgersOK
<1>3. CASE k # NoKey
  <2>1. k \in Keys
    BY <1>3 DEF CheckoutInv, ShopperOK
  <2>2. answered' = [answered EXCEPT ![k] = Answer(s)] /\ answered = [j \in Keys |-> answered[j]]
    BY <1>1, <1>3 DEF StoreAnswer, LedgersOK
  <2>3. /\ answered' = [j \in Keys |-> answered'[j]] /\ answered'[k] = Answer(s)
        /\ \A j \in Keys : j # k => answered'[j] = answered[j]
    BY <2>1, <2>2
  <2>4. disputed' = {}
    BY <1>1, <1>3, <2>3 DEF StoreAnswer, LedgersOK
  <2>5. Answer(s).by = shopper[s].process
    BY DEF Answer
  <2>6. \A j \in Keys : answered'[j] # NoAnswer => answered'[j].by \in Processes
    BY <1>1, <2>3, <2>5 DEF LedgersOK
  <2>7. \A j \in Keys : answered'[j] # answered[j] => j = k /\ answered'[j].by = shopper[s].process
    BY <2>3, <2>5
  <2> QED
    BY <1>1, <2>3, <2>4, <2>6, <2>7, ShopperEnds
<1> QED
  BY <1>2, <1>3

\* What AnsweredKeySpent asks of a step.
KeysSpent ==
    \A k \in Keys : answered[k] # NoAnswer =>
        sent'[k][answered[k].by] = sent[k][answered[k].by]

\* A transaction under a key is of a process that has not answered it.
LEMMA SendKeeps ==
    ASSUME CheckoutInv, NEW s \in Shoppers, shopper[s].pc \notin {"idle", "acquire", "lookup"},
           \/ shopper[s].key = NoKey /\ UNCHANGED sent
           \/ /\ shopper[s].key # NoKey
              /\ sent' = [sent EXCEPT ![shopper[s].key][shopper[s].process] = @ + 1]
    PROVE  sent' \in [Keys -> [Processes -> Nat]] /\ KeysSpent
<1> DEFINE k == shopper[s].key
           p == shopper[s].process
<1>1. sent \in [Keys -> [Processes -> Nat]] /\ p \in Processes
  BY DEF CheckoutInv, LedgersOK, ShopperOK
<1>2. CASE k = NoKey
  BY <1>1, <1>2 DEF KeysSpent
<1>3. CASE k # NoKey
  <2>1. k \in Keys /\ (answered[k] = NoAnswer \/ answered[k].by # p)
    BY <1>3 DEF CheckoutInv, ShopperOK, Inside
  <2>2. \A j \in Keys : answered[j] # NoAnswer => answered[j].by \in Processes
    BY DEF CheckoutInv, LedgersOK
  <2>3. sent' = [sent EXCEPT ![k] = [sent[k] EXCEPT ![p] = @ + 1]] /\ sent[k] \in [Processes -> Nat]
    BY <1>1, <1>3, <2>1
  <2>4. [sent[k] EXCEPT ![p] = @ + 1] \in [Processes -> Nat]
    BY <1>1, <2>3
  <2>5. sent' \in [Keys -> [Processes -> Nat]]
    BY <1>1, <2>3, <2>4
  <2>6. \A j \in Keys, q \in Processes : (j # k \/ q # p) => sent'[j][q] = sent[j][q]
    BY <1>1, <2>1, <2>3
  <2> QED
    BY <2>1, <2>2, <2>5, <2>6 DEF KeysSpent
<1> QED
  BY <1>2, <1>3

\* A call on the escrow.
LEMMA SendsTxStep ==
    ASSUME CheckoutInv, NEW s \in Shoppers, SendsTx(s), shopper[s].pc \notin {"idle", "acquire", "lookup"}
    PROVE  CheckoutInv' /\ KeysSpent
<1> DEFINE r == shopper[s]
           m == Shop("refresh", r.process, r.key, r.operation, r.escrow, r.projected)
<1>1. ShopAt(s, m) /\ UNCHANGED <<locks, answered, disputed>>
  BY DEF SendsTx, ShopGoto
<1>2. m.pc = "refresh" /\ m.process = r.process /\ m.key = r.key
  BY ShopFields
<1>3. sent' \in [Keys -> [Processes -> Nat]] /\ KeysSpent
  BY SendKeeps DEF SendsTx
<1> HIDE DEF m
<1> QED
  BY <1>1, <1>2, <1>3, ShopperGoesOn

\* A new escrow, or the one that is named.
LEMMA CreateEscrowStep == ASSUME CheckoutInv, NEW s \in Shoppers, CreateEscrow(s) PROVE CheckoutInv' /\ KeysSpent
<1> DEFINE r == shopper[s]
           m == Shop("session", r.process, r.key, "none", escrow', ProjectStatus(escrow'))
<1>1. ShopAt(s, m) /\ UNCHANGED <<locks, answered, disputed>> /\ r.pc = "read"
  BY DEF CreateEscrow, ShopSees, Shopping
<1>2. m.pc = "session" /\ m.process = r.process /\ m.key = r.key
  BY ShopFields
<1>3. sent' \in [Keys -> [Processes -> Nat]] /\ KeysSpent
  <2>1. UNCHANGED sent \/ ((r.key = NoKey /\ UNCHANGED sent)
           \/ (r.key # NoKey /\ sent' = [sent EXCEPT ![r.key][r.process] = @ + 1]))
    BY DEF CreateEscrow
  <2>2. CASE UNCHANGED sent
    BY <2>2 DEF CheckoutInv, LedgersOK, KeysSpent
  <2> QED
    BY <1>1, <2>1, <2>2, SendKeeps
<1> HIDE DEF m
<1> QED
  BY <1>1, <1>2, <1>3, ShopperGoesOn

\* A step that only looks, or writes the session.
LEMMA ShopperLooks ==
    ASSUME CheckoutInv, NEW s \in Shoppers,
           \/ ReadCheckout(s) \/ CreateSession(s) \/ Refresh(s) \/ SaveProjection(s) \/ GetProjects(s)
           \/ CompleteCheckout(s) /\ ~SendsTx(s)
           \/ CancelCheckout(s) /\ ~SendsTx(s)
    PROVE  CheckoutInv' /\ KeysSpent
<1> DEFINE r == shopper[s]
           Going(m) == /\ ShopAt(s, m) /\ m.process = r.process /\ m.key = r.key
                       /\ m.pc \notin {"idle", "acquire", "lookup", "read"}
<1>1. UNCHANGED <<locks, answered, disputed, sent>> /\ r.pc \notin {"idle", "acquire", "lookup"}
  BY DEF ReadCheckout, CreateSession, Refresh, SaveProjection, GetProjects, CompleteCheckout,
         CancelCheckout, Shopping
<1>2. \A pc \in {"store", "autofund", "refresh", "save"} : ShopGoto(s, pc) => \E m : Going(m)
  BY ShopFields DEF ShopGoto
<1>3. \A pc \in {"store", "save", "update", "complete", "cancel"} : \A status :
         ShopSees(s, pc, status) => \E m : Going(m)
  BY ShopFields DEF ShopSees
<1>4. \E m : Going(m)
  <2>1. CASE ReadCheckout(s)
    <3>1. r.operation \in {"update", "complete", "cancel"} /\ ShopSees(s, r.operation, escrow)
      BY <2>1 DEF ReadCheckout, Shopping, CheckoutInv, ShopperOK, Operations
    <3> QED
      BY <1>3, <3>1
  <2>2. CASE CreateSession(s) \/ SaveProjection(s)
    BY <1>2, <2>2 DEF CreateSession, SaveProjection
  <2>3. CASE Refresh(s) \/ GetProjects(s)
    BY <1>3, <2>3 DEF Refresh, GetProjects
  <2>4. CASE CompleteCheckout(s) /\ ~SendsTx(s)
    BY <1>2, <2>4 DEF CompleteCheckout
  <2>5. CASE CancelCheckout(s) /\ ~SendsTx(s)
    BY <1>2, <2>5 DEF CancelCheckout
  <2> QED
    BY <2>1, <2>2, <2>3, <2>4, <2>5
<1>5. sent' \in [Keys -> [Processes -> Nat]] /\ KeysSpent
  BY <1>1 DEF CheckoutInv, LedgersOK, KeysSpent
<1> QED
  BY <1>1, <1>4, <1>5, ShopperGoesOn

\* A process stops, and nothing of it is left.
LEMMA ProcessStopsStep == ASSUME CheckoutInv, ProcessStops PROVE CheckoutInv'
<1>1. PICK p \in Processes :
         /\ shopper' = [s \in Shoppers |-> IF shopper[s].process = p THEN NotShopping ELSE shopper[s]]
         /\ locks' = [locks EXCEPT ![p] = {}]
         /\ UNCHANGED <<answered, disputed, sent>>
  BY DEF ProcessStops
<1>2. NotShopping.pc = "idle" /\ NotShopping.key = NoKey
  BY DEF NotShopping, Shop
<1>3. /\ locks' \in [Processes -> SUBSET Keys]
      /\ \A q \in Processes : q # p => locks'[q] = locks[q]
  BY <1>1 DEF CheckoutInv, LedgersOK
<1>4. ASSUME NEW s \in Shoppers PROVE ShopperOK(s)'
  <2>1. ShopperOK(s)
    BY DEF CheckoutInv
  <2>2. CASE shopper[s].process = p
    BY <1>1, <1>2, <2>2 DEF ShopperOK, Inside
  <2>3. CASE shopper[s].process # p
    BY <1>1, <1>3, <2>1, <2>3 DEF ShopperOK, Inside
  <2> QED
    BY <2>2, <2>3
<1>5. ASSUME NEW t \in Shoppers, NEW u \in Shoppers PROVE Alone(t, u)'
  <2>1. Alone(t, u)
    BY DEF CheckoutInv
  <2>2. \A v \in Shoppers : Inside(shopper'[v]) => shopper'[v] = shopper[v]
    BY <1>1, <1>2 DEF Inside
  <2> QED
    BY <2>1, <2>2 DEF Alone
<1>6. LedgersOK'
  BY <1>1, <1>3 DEF CheckoutInv, LedgersOK
<1> QED
  BY <1>1, <1>4, <1>5, <1>6 DEF CheckoutInv

\* A request that comes, or fails.
LEMMA ShopperComesOrFails ==
    ASSUME CheckoutInv, NEW s \in Shoppers,
           \/ \E p \in Processes, operation \in Operations : Request(s, p, operation)
           \/ GetReads(s) \/ ShopFails(s)
    PROVE  CheckoutInv'
<1>1. ASSUME NEW p \in Processes, NEW operation \in Operations, Request(s, p, operation) PROVE CheckoutInv'
  <2>1. PICK k \in Keys \cup {NoKey} :
           ShopAt(s, Shop(IF k = NoKey THEN "read" ELSE "acquire", p, k, operation, "none", "none"))
    BY <1>1 DEF Request
  <2> DEFINE m == Shop(IF k = NoKey THEN "read" ELSE "acquire", p, k, operation, "none", "none")
  <2>2. m.pc = (IF k = NoKey THEN "read" ELSE "acquire") /\ m.process = p /\ m.key = k /\ m.operation = operation
    BY ShopFields
  <2>3. ShopAt(s, m) /\ Shopping(s, "idle") /\ UNCHANGED <<locks, answered, disputed, sent>>
    BY <1>1, <2>1 DEF Request
  <2> HIDE DEF m
  <2> QED
    BY <2>2, <2>3, ShopperComes
<1>2. CASE GetReads(s)
  <2>1. PICK p \in Processes : ShopAt(s, Shop("project", p, NoKey, "none", "none", session))
    BY <1>2 DEF GetReads
  <2> DEFINE m == Shop("project", p, NoKey, "none", "none", session)
  <2>2. m.pc = "project" /\ m.process = p /\ m.key = NoKey
    BY ShopFields
  <2>3. ShopAt(s, m) /\ Shopping(s, "idle") /\ UNCHANGED <<locks, answered, disputed, sent>>
    BY <1>2, <2>1 DEF GetReads
  <2> HIDE DEF m
  <2> QED
    BY <2>2, <2>3, ShopperComes
<1>3. CASE ShopFails(s)
  BY <1>3, ShopperEnds DEF ShopFails, Shopping, CheckoutInv, LedgersOK
<1> QED
  BY <1>1, <1>2, <1>3

\* Of every behaviour of the checkouts.
LEMMA EveryCheckoutStep == ASSUME CheckoutInv, [CheckoutNext]_checkoutVars PROVE CheckoutInv' /\ KeysSpent
<1>1. ASSUME UNCHANGED sent PROVE KeysSpent
  BY <1>1 DEF KeysSpent
<1>2. ASSUME UNCHANGED <<shopper, locks, answered, disputed, sent>> PROVE CheckoutInv'
  BY <1>2 DEF CheckoutInv, LedgersOK, ShopperOK, Alone
<1>3. CASE EscrowMoves \/ UNCHANGED checkoutVars
  BY <1>1, <1>2, <1>3 DEF EscrowMoves, checkoutVars
<1>4. CASE ProcessStops
  BY <1>1, <1>4, ProcessStopsStep DEF ProcessStops
<1>5. ASSUME NEW s \in Shoppers,
             \/ \E p \in Processes, operation \in Operations : Request(s, p, operation)
             \/ GetReads(s) \/ ShopFails(s)
      PROVE  CheckoutInv' /\ KeysSpent
  BY <1>1, <1>5, ShopperComesOrFails DEF Request, GetReads, ShopFails
<1>6. ASSUME NEW s \in Shoppers, Acquire(s) \/ Lookup(s) \/ StoreAnswer(s) PROVE CheckoutInv' /\ KeysSpent
  BY <1>1, <1>6, AcquireStep, LookupStep, StoreAnswerStep DEF Acquire, Lookup, StoreAnswer
<1>7. ASSUME NEW s \in Shoppers,
             AutoFund(s) \/ UpdateCheckout(s) \/ CompleteCheckout(s) \/ CancelCheckout(s), SendsTx(s)
      PROVE  CheckoutInv' /\ KeysSpent
  <2>1. shopper[s].pc \notin {"idle", "acquire", "lookup"}
    BY <1>7 DEF AutoFund, UpdateCheckout, CompleteCheckout, CancelCheckout, Shopping
  <2> QED
    BY <1>7, <2>1, SendsTxStep
<1>8. ASSUME NEW s \in Shoppers, AutoFund(s) \/ UpdateCheckout(s) PROVE SendsTx(s)
  BY <1>8 DEF AutoFund, UpdateCheckout
<1> QED
  BY <1>3, <1>4, <1>5, <1>6, <1>7, <1>8, CreateEscrowStep, ShopperLooks DEF CheckoutNext, Operations

\* The invariant of the checkouts.
LEMMA CheckoutAlways == CheckoutSpec => []CheckoutInv
<1>1. CheckoutInit => CheckoutInv
  <2> SUFFICES ASSUME CheckoutInit PROVE CheckoutInv
    OBVIOUS
  <2>1. NotShopping.pc = "idle" /\ NotShopping.key = NoKey
    BY DEF NotShopping, Shop
  <2> QED
    BY <2>1 DEF CheckoutInit, CheckoutInv, LedgersOK, ShopperOK, Alone, Inside
<1> QED
  BY <1>1, EveryCheckoutStep, PTL DEF CheckoutSpec

\* OneAnswerPerKey, for any number of processes, requests and keys: two
\* successes under one key never differ (withIdempotency).
THEOREM KeyHasOneAnswer == CheckoutSpec => []OneAnswerPerKey
  BY CheckoutAlways, PTL DEF CheckoutInv, LedgersOK, OneAnswerPerKey

\* AnsweredKeySpent: a process that has stored an answer sends nothing more under
\* its key.  Who may still send holds the lock of its process, alone, and has
\* found no answer of its process under it (idempotencyGuard).
THEOREM AnsweredKeysStaySpent == CheckoutSpec => AnsweredKeySpent
<1>1. CheckoutInv /\ [CheckoutNext]_checkoutVars =>
        [\A k \in Keys : answered[k] # NoAnswer =>
            sent'[k][answered[k].by] = sent[k][answered[k].by]]_sent
  BY EveryCheckoutStep DEF KeysSpent
<1> QED
  BY <1>1, CheckoutAlways, PTL DEF CheckoutSpec, AnsweredKeySpent

-----------------------------------------------------------------------------
\* Mandates.

\* A record of a request, with all of its fields.
Whole(c) ==
    c = [pc |-> c.pc, may |-> c.may, row |-> c.row, fn |-> c.fn, index |-> c.index, attested |-> c.attested,
         receipt |-> c.receipt, mandate |-> c.mandate]
CallerOK(q) == Whole(caller[q])

\* A mandate's request: bound and not sent, or sent.
Binding(q) == caller[q].pc \in {"authorize", "told"}

MandatesInv ==
    /\ caller = [q \in CallRequests |-> caller[q]] /\ \A q \in CallRequests : CallerOK(q)
    /\ mandate \in [Mandates -> {"none", "bound", "funded"}] /\ tried \in [Mandates -> Nat]
    /\ \A m \in Mandates : mandate[m] = "none" => tried[m] = 0
    /\ \A m \in Mandates : mandate[m] = "funded" => tried[m] = 1
    /\ \A m \in Mandates : tried[m] <= 1
    /\ \A q \in CallRequests : Binding(q) => caller[q].mandate \in Mandates /\ mandate[caller[q].mandate] # "none"
    /\ \A q \in CallRequests : Calling(q, "authorize") => tried[caller[q].mandate] = 0 /\ mandate[caller[q].mandate] = "bound"
    /\ \A q \in CallRequests : Calling(q, "told") => tried[caller[q].mandate] = 1
    /\ \A q, o \in CallRequests :
          Binding(q) /\ Binding(o) /\ caller[q].mandate = caller[o].mandate => q = o

\* A record with one field set.
LEMMA CallerMoves ==
    ASSUME MandatesInv, NEW q \in CallRequests, NEW pc, CallGoto(q, pc)
    PROVE  /\ caller' = [o \in CallRequests |-> caller'[o]]
           /\ \A o \in CallRequests : o # q => caller'[o] = caller[o]
           /\ caller'[q].pc = pc /\ caller'[q].mandate = caller[q].mandate
           /\ CallerOK(q)'
<1>1. CallerOK(q) /\ caller = [o \in CallRequests |-> caller[o]]
  BY DEF MandatesInv
<1> DEFINE m == [caller[q] EXCEPT !.pc = pc]
<1>2. caller' = [o \in CallRequests |-> IF o = q THEN m ELSE caller[o]]
  BY <1>1 DEF CallGoto
<1>3. /\ m.pc = pc /\ m.mandate = caller[q].mandate
      /\ m = [pc |-> m.pc, may |-> m.may, row |-> m.row, fn |-> m.fn, index |-> m.index, attested |-> m.attested,
              receipt |-> m.receipt, mandate |-> m.mandate]
  BY <1>1 DEF CallerOK, Whole
<1> HIDE DEF m
<1> QED
  BY <1>2, <1>3 DEF CallerOK, Whole

\* A request that is no mandate's any more, or moves on in another way.
LEMMA NotBinding ==
    ASSUME MandatesInv, UNCHANGED <<mandate, tried>>,
           caller' = [o \in CallRequests |-> caller'[o]],
           \A o \in CallRequests : CallerOK(o)',
           \A o \in CallRequests : Binding(o)' => caller'[o].pc = caller[o].pc /\ caller'[o].mandate = caller[o].mandate
    PROVE  MandatesInv'
<1>1. \A o \in CallRequests : Binding(o)' => Binding(o)
  BY DEF Binding
<1> QED
  BY <1>1 DEF MandatesInv, Binding, Calling

\* A request leaves.
LEMMA CallLeaves ==
    ASSUME MandatesInv, UNCHANGED <<mandate, tried>>, NEW q \in CallRequests,
           \/ CallEnds(q)
           \/ \E pc : CallGoto(q, pc) /\ pc \notin {"authorize", "told"}
    PROVE  MandatesInv'
<1>1. CASE CallEnds(q)
  <2>1. caller' = [o \in CallRequests |-> IF o = q THEN NotCalled ELSE caller[o]]
    BY <1>1 DEF CallEnds, MandatesInv
  <2>2. /\ NotCalled.pc = "idle"
        /\ NotCalled = [pc |-> NotCalled.pc, may |-> NotCalled.may, row |-> NotCalled.row, fn |-> NotCalled.fn, index |-> NotCalled.index,
                        attested |-> NotCalled.attested, receipt |-> NotCalled.receipt, mandate |-> NotCalled.mandate]
    BY DEF NotCalled
  <2>3. \A o \in CallRequests : CallerOK(o)'
    BY <2>1, <2>2 DEF MandatesInv, CallerOK, Whole
  <2> QED
    BY <2>1, <2>2, <2>3, NotBinding DEF Binding
<1>2. ASSUME NEW pc, CallGoto(q, pc), pc \notin {"authorize", "told"} PROVE MandatesInv'
  <2>1. \A o \in CallRequests : CallerOK(o)'
    BY <1>2, CallerMoves DEF MandatesInv, CallerOK, Whole
  <2> QED
    BY <1>2, <2>1, CallerMoves, NotBinding DEF Binding
<1> QED
  BY <1>1, <1>2

\* The id of a mandate is taken once.
LEMMA BindStep == ASSUME MandatesInv, NEW q \in CallRequests, BindToEscrow(q) PROVE MandatesInv'
<1>1. PICK m \in Mandates :
         /\ mandate[m] = "none" /\ mandate' = [mandate EXCEPT ![m] = "bound"]
         /\ caller' = [caller EXCEPT ![q].pc = "authorize", ![q].mandate = m]
  BY DEF BindToEscrow
<1> DEFINE b == [caller[q] EXCEPT !.pc = "authorize"]
           c == [b EXCEPT !.mandate = m]
<1>2. caller' = [o \in CallRequests |-> IF o = q THEN c ELSE caller[o]]
  BY <1>1 DEF MandatesInv
<1>3. CallerOK(q)
  BY DEF MandatesInv
<1>4. /\ c.pc = "authorize" /\ c.mandate = m
      /\ c = [pc |-> c.pc, may |-> c.may, row |-> c.row, fn |-> c.fn, index |-> c.index, attested |-> c.attested,
              receipt |-> c.receipt, mandate |-> c.mandate]
  <2>1. /\ b.pc = "authorize"
        /\ b = [pc |-> b.pc, may |-> b.may, row |-> b.row, fn |-> b.fn, index |-> b.index, attested |-> b.attested,
                receipt |-> b.receipt, mandate |-> b.mandate]
    BY <1>3 DEF CallerOK, Whole
  <2> HIDE DEF b
  <2> QED
    BY <2>1
<1> HIDE DEF b, c
<1>5. \A o \in CallRequests : CallerOK(o)'
  BY <1>2, <1>4 DEF CallerOK, Whole, MandatesInv
<1>6. UNCHANGED tried
  BY DEF BindToEscrow
<1>7. \A o \in CallRequests : Binding(o) => caller[o].mandate # m
  BY <1>1 DEF MandatesInv
<1>8. /\ mandate' \in [Mandates -> {"none", "bound", "funded"}] /\ mandate'[m] = "bound"
      /\ \A n \in Mandates : n # m => mandate'[n] = mandate[n]
  BY <1>1 DEF MandatesInv
<1>9. \A o \in CallRequests : IF o = q THEN Calling(o, "authorize")' /\ ~Calling(o, "told")' /\ Binding(o)' /\ caller'[o].mandate = m
                              ELSE caller'[o] = caller[o]
  BY <1>2, <1>4 DEF Binding, Calling
<1> QED
  BY <1>1, <1>2, <1>5, <1>6, <1>7, <1>8, <1>9 DEF MandatesInv, Binding, Calling

\* Whoever sends an authorization is its only request, for the first time.
LEMMA AuthorizationStep == ASSUME MandatesInv, NEW q \in CallRequests, FundWithAuthorization(q) PROVE MandatesInv'
<1> DEFINE m == caller[q].mandate
<1>1. /\ CallGoto(q, "told") /\ UNCHANGED mandate
      /\ tried' = [tried EXCEPT ![m] = @ + 1] /\ Calling(q, "authorize")
  BY DEF FundWithAuthorization
<1>2. Binding(q) /\ m \in Mandates /\ tried[m] = 0 /\ mandate[m] = "bound"
  BY <1>1 DEF MandatesInv, Binding, Calling
<1>3. /\ tried' \in [Mandates -> Nat] /\ tried'[m] = 1
      /\ \A n \in Mandates : n # m => tried'[n] = tried[n]
  BY <1>1, <1>2 DEF MandatesInv
<1>4. /\ caller' = [o \in CallRequests |-> caller'[o]] /\ CallerOK(q)'
      /\ \A o \in CallRequests : o # q => caller'[o] = caller[o]
      /\ caller'[q].pc = "told" /\ caller'[q].mandate = m
  BY <1>1, CallerMoves
<1>5. \A o \in CallRequests : CallerOK(o)'
  BY <1>4 DEF CallerOK, Whole, MandatesInv
<1>6. \A o \in CallRequests : o # q /\ Binding(o) => caller[o].mandate # m
  BY <1>2 DEF MandatesInv
<1>7. \A o \in CallRequests : IF o = q THEN ~Calling(o, "authorize")' /\ Calling(o, "told")' /\ Binding(o)' /\ caller'[o].mandate = m
                              ELSE caller'[o] = caller[o]
  BY <1>4 DEF Binding, Calling
<1> QED
  BY <1>1, <1>2, <1>3, <1>4, <1>5, <1>6, <1>7 DEF MandatesInv, Binding, Calling

\* The row follows what was sent.
LEMMA UpdateMandateStep == ASSUME MandatesInv, NEW q \in CallRequests, UpdateMandate(q) PROVE MandatesInv'
<1> DEFINE m == caller[q].mandate
<1>1. /\ CallGoto(q, "index") /\ UNCHANGED tried /\ Calling(q, "told")
      /\ mandate' \in {mandate, [mandate EXCEPT ![m] = "funded"]}
  BY DEF UpdateMandate
<1>2. Binding(q) /\ m \in Mandates /\ tried[m] = 1
  BY <1>1 DEF MandatesInv, Binding, Calling
<1>3. /\ mandate' \in [Mandates -> {"none", "bound", "funded"}] /\ mandate'[m] \in {mandate[m], "funded"}
      /\ \A n \in Mandates : n # m => mandate'[n] = mandate[n]
  BY <1>1, <1>2 DEF MandatesInv
<1>4. /\ caller' = [o \in CallRequests |-> caller'[o]] /\ CallerOK(q)'
      /\ \A o \in CallRequests : o # q => caller'[o] = caller[o]
      /\ caller'[q].pc = "index"
  BY <1>1, CallerMoves
<1>5. \A o \in CallRequests : CallerOK(o)'
  BY <1>4 DEF CallerOK, Whole, MandatesInv
<1>6. \A o \in CallRequests : o # q /\ Binding(o) => caller[o].mandate # m
  BY <1>2 DEF MandatesInv
<1>7. \A o \in CallRequests : IF o = q THEN ~Binding(o)' ELSE caller'[o] = caller[o]
  BY <1>4 DEF Binding
<1> QED
  BY <1>1, <1>2, <1>3, <1>4, <1>5, <1>6, <1>7 DEF MandatesInv, Binding, Calling

\* It stays whole when a receipt comes.
LEMMA WithReceipt ==
    ASSUME NEW c, Whole(c), NEW b
    PROVE  Whole([c EXCEPT !.receipt = b]) /\ [c EXCEPT !.receipt = b].pc = c.pc
<1> DEFINE m == [c EXCEPT !.receipt = b]
<1>1. /\ m = [pc |-> m.pc, may |-> m.may, row |-> m.row, fn |-> m.fn, index |-> m.index, attested |-> m.attested,
              receipt |-> m.receipt, mandate |-> m.mandate]
      /\ m.pc = c.pc
  BY DEF Whole
<1> QED
  BY <1>1 DEF Whole

\* A request comes to another record, that is no mandate's.
LEMMA CallChanges ==
    ASSUME MandatesInv, UNCHANGED <<mandate, tried>>, NEW q \in CallRequests, NEW c,
           caller' = [caller EXCEPT ![q] = c], Whole(c), c.pc \notin {"authorize", "told"}
    PROVE  MandatesInv'
<1>1. caller' = [o \in CallRequests |-> IF o = q THEN c ELSE caller[o]]
  BY DEF MandatesInv
<1>2. \A o \in CallRequests : CallerOK(o)'
  BY <1>1 DEF MandatesInv, CallerOK, Whole
<1> QED
  BY <1>1, <1>2, NotBinding DEF Binding

\* A new request.
LEMMA ArriveStep ==
    ASSUME MandatesInv, NEW q \in CallRequests, NEW operations, Arrive(q, operations)
    PROVE  MandatesInv'
<1> DEFINE a == [NotCalled EXCEPT !.pc = "service"]
           b == [a EXCEPT !.may = operations]
           c == [b EXCEPT !.row = row]
<1>1. caller' = [caller EXCEPT ![q] = c] /\ UNCHANGED <<mandate, tried>>
  BY DEF Arrive
<1>2. Whole(a) /\ a.pc = "service"
  <2>1. Whole(NotCalled)
    BY DEF NotCalled, Whole
  <2> QED
    BY <2>1 DEF Whole
<1> HIDE DEF a
<1>3. Whole(b) /\ b.pc = "service"
  BY <1>2 DEF Whole
<1> HIDE DEF b
<1>4. Whole(c) /\ c.pc = "service"
  BY <1>3 DEF Whole
<1> HIDE DEF c
<1> QED
  BY <1>1, <1>4, CallChanges

\* A call that is made or refused.
LEMMA ServesStep ==
    ASSUME MandatesInv, NEW q \in CallRequests, NEW operation, NEW fn, NEW i, NEW ok,
           NEW check, Serves(q, operation, fn, i, check, ok)
    PROVE  MandatesInv'
<1>1. UNCHANGED <<mandate, tried>> /\ (CallGoto(q, "index") \/ CallEnds(q))
  BY DEF Serves, Sends, Refuses
<1> QED
  BY <1>1, CallLeaves

\* A payment.
LEMMA PaysStep ==
    ASSUME MandatesInv, NEW q \in CallRequests, NEW operation, NEW fn, Pays(q, operation, fn)
    PROVE  MandatesInv'
<1> DEFINE b == [caller[q] EXCEPT !.pc = "receipt"]
           c == [b EXCEPT !.fn = fn]
<1>2. CASE caller' = [caller EXCEPT ![q].pc = "receipt", ![q].fn = fn] /\ UNCHANGED <<mandate, tried>>
  <2>1. caller' = [caller EXCEPT ![q] = c]
    BY <1>2 DEF MandatesInv
  <2>2. Whole(b) /\ b.pc = "receipt"
    BY DEF MandatesInv, CallerOK, Whole
  <2> HIDE DEF b
  <2>3. Whole(c) /\ c.pc = "receipt"
    BY <2>2 DEF Whole
  <2> HIDE DEF c
  <2> QED
    BY <1>2, <2>1, <2>3, CallChanges
<1>3. CASE Sends(q, fn, NoIndex, "index")
  BY <1>3, CallLeaves DEF Sends
<1> QED
  BY <1>2, <1>3 DEF Pays

\* A request that its checks refuse.
LEMMA RefusesStep ==
    ASSUME MandatesInv, NEW q \in CallRequests, NEW fn, NEW i, NEW check, Refuses(q, fn, i, check)
    PROVE  MandatesInv'
  BY CallLeaves DEF Refuses

\* A submission that passes its checks.
LEMMA Submits ==
    ASSUME NEW c, Whole(c), NEW i, NEW a
    PROVE  /\ Whole([c EXCEPT !.pc = "submit", !.index = i, !.attested = a])
           /\ [c EXCEPT !.pc = "submit", !.index = i, !.attested = a].pc = "submit"
<1> DEFINE b == [c EXCEPT !.pc = "submit"]
           d == [b EXCEPT !.index = i]
           e == [d EXCEPT !.attested = a]
<1>1. Whole(b) /\ b.pc = "submit"
  BY DEF Whole
<1> HIDE DEF b
<1>2. Whole(d) /\ d.pc = "submit"
  BY <1>1 DEF Whole
<1> HIDE DEF d
<1>3. Whole(e) /\ e.pc = "submit"
  BY <1>2 DEF Whole
<1>4. e = [c EXCEPT !.pc = "submit", !.index = i, !.attested = a]
  BY DEF b, d
<1> HIDE DEF e
<1> QED
  BY <1>3, <1>4

\* A submission with its chain.
LEMMA ValidateStep == ASSUME MandatesInv, NEW q \in CallRequests, ValidateAttestations(q) PROVE MandatesInv'
<1>1. CASE \E i, check : Refuses(q, "submit", i, check)
  BY <1>1, RefusesStep
<1>2. ASSUME NEW i, NEW a, UNCHANGED <<mandate, tried>>,
             caller' = [caller EXCEPT ![q] = [@ EXCEPT !.pc = "submit", !.index = i, !.attested = a]]
      PROVE  MandatesInv'
  <2> DEFINE d == [caller[q] EXCEPT !.pc = "submit", !.index = i, !.attested = a]
  <2>1. caller' = [caller EXCEPT ![q] = d]
    BY <1>2 DEF MandatesInv
  <2>2. Whole(d) /\ d.pc = "submit"
    <3>1. Whole(caller[q])
      BY DEF MandatesInv, CallerOK
    <3> QED
      BY <3>1, Submits
  <2> HIDE DEF d
  <2> QED
    BY <1>2, <2>1, <2>2, CallChanges
<1>3. \/ \E i, check : Refuses(q, "submit", i, check)
      \/ \E i, a : /\ UNCHANGED <<mandate, tried>>
                   /\ caller' = [caller EXCEPT ![q] = [@ EXCEPT !.pc = "submit", !.index = i, !.attested = a]]
  BY Zenon DEF ValidateAttestations
<1> QED
  BY <1>1, <1>2, <1>3

\* A receipt comes to a request that waits for one.
LEMMA MineStep == ASSUME MandatesInv, MineCall PROVE MandatesInv'
<1>1. UNCHANGED <<mandate, tried>>
      /\ (UNCHANGED caller \/ \E q : Calling(q, "receipt") /\ caller' = [caller EXCEPT ![q].receipt = TRUE])
  BY DEF MineCall
<1>2. CASE UNCHANGED caller
  BY <1>1, <1>2 DEF MandatesInv, Binding, Calling, CallerOK, Whole
<1>3. ASSUME NEW q, Calling(q, "receipt"), caller' = [caller EXCEPT ![q].receipt = TRUE] PROVE MandatesInv'
  <2> DEFINE c == [caller[q] EXCEPT !.receipt = TRUE]
  <2>1. CASE q \in CallRequests
    <3>1. caller' = [caller EXCEPT ![q] = c]
      BY <1>3 DEF MandatesInv
    <3>2. Whole(c) /\ c.pc = "receipt"
      <4>1. Whole(caller[q]) /\ caller[q].pc = "receipt"
        BY <1>3, <2>1 DEF MandatesInv, CallerOK, Whole, Calling
      <4>2. \A b : Whole([caller[q] EXCEPT !.receipt = b]) /\ [caller[q] EXCEPT !.receipt = b].pc = "receipt"
        BY <4>1, WithReceipt
      <4> QED
        BY <4>2, Zenon
    <3> HIDE DEF c
    <3> QED
      BY <1>1, <2>1, <3>1, <3>2, CallChanges
  <2>2. CASE q \notin CallRequests
    <3>1. UNCHANGED caller
      BY <1>3, <2>2 DEF MandatesInv
    <3> QED
      BY <1>2, <3>1
  <2> QED
    BY <2>1, <2>2
<1> QED
  BY <1>1, <1>2, <1>3

\* A request's step.
LEMMA CallStepKeeps == ASSUME MandatesInv, NEW q \in CallRequests, CallStep(q) PROVE MandatesInv'
<1>1. CASE \E operations : Arrive(q, operations)
  BY <1>1, ArriveStep
<1>2. CASE \E operation, fn, i, check, ok : Serves(q, operation, fn, i, check, ok)
  BY <1>2, ServesStep
<1>3. CASE FundEscrow(q) \/ DepositWorkerStake(q) \/ DepositVerifierStake(q)
  BY <1>3, PaysStep, ServesStep DEF FundEscrow, DepositWorkerStake, DepositVerifierStake, PaysStake
<1>4. CASE SubmitWork(q)
  <2>1. UNCHANGED <<mandate, tried>> /\ (CallGoto(q, "persist") \/ CallGoto(q, "index"))
    BY <1>4 DEF SubmitWork, Sends
  <2> QED
    BY <2>1, CallLeaves
<1>5. CASE PersistAttestations(q) \/ RunIndexerOnce(q) \/ CallFails(q)
  BY <1>5, CallLeaves DEF PersistAttestations, RunIndexerOnce, CallFails
<1>6. HttpPayment(q) \/ HttpWork(q) \/ HttpRuling(q) \/ ToolPayment(q) \/ ToolWork(q) \/ ToolRuling(q)
      \/ CheckoutCall(q) \/ MandateCall(q)
      => \/ \E operations : Arrive(q, operations)
         \/ \E i : Refuses(q, "submit", i, "key")
  BY Zenon DEF HttpPayment, HttpWork, HttpRuling, ToolPayment, ToolWork, ToolRuling, CheckoutCall, MandateCall
<1>7. WithdrawStake(q) \/ CancelBeforeFunding(q) \/ ApproveWork(q) \/ VerifyAndApprove(q)
      \/ CastVerifierVote(q) \/ DisputeWork(q) \/ ResolveDispute(q) \/ ClaimTimeoutRefund(q)
      \/ ClaimArbitratorTimeout(q) \/ AbortRemainingMilestones(q) \/ ActivateBackup(q)
      => \E operation, fn, i, check, ok : Serves(q, operation, fn, i, check, ok)
  BY Zenon DEF WithdrawStake, CancelBeforeFunding, ApproveWork, VerifyAndApprove, CastVerifierVote, DisputeWork,
     ResolveDispute, ClaimTimeoutRefund, ClaimArbitratorTimeout, AbortRemainingMilestones, ActivateBackup,
     OnMilestone, AfterTimeout
<1> QED
  BY <1>1, <1>2, <1>3, <1>4, <1>5, <1>6, <1>7, RefusesStep, ValidateStep, BindStep, AuthorizationStep,
     UpdateMandateStep DEF CallStep

\* The invariant of the mandates.
LEMMA MandatesAlways == CallsSpec => []MandatesInv
<1>1. CallsInit => MandatesInv
  <2> SUFFICES ASSUME CallsInit PROVE MandatesInv
    OBVIOUS
  <2>1. caller = [q \in CallRequests |-> NotCalled] /\ NotCalled.pc = "idle"
    BY DEF CallsInit, NotCalled
  <2>2. \A q \in CallRequests : CallerOK(q) /\ ~Binding(q) /\ ~Calling(q, "authorize") /\ ~Calling(q, "told")
    BY <2>1 DEF NotCalled, CallerOK, Whole, Binding, Calling
  <2>3. mandate = [m \in Mandates |-> "none"] /\ tried = [m \in Mandates |-> 0]
    BY DEF CallsInit
  <2> QED
    BY <2>1, <2>2, <2>3 DEF MandatesInv
<1>2. MandatesInv /\ [CallsNext]_callVars => MandatesInv'
  <2> SUFFICES ASSUME MandatesInv, [CallsNext]_callVars PROVE MandatesInv'
    OBVIOUS
  <2>1. CASE PartyCalls \/ ChildCreated \/ Poll \/ UNCHANGED callVars
    <3>1. UNCHANGED <<caller, mandate, tried>>
      BY <2>1 DEF PartyCalls, ChildCreated, Poll, callVars
    <3> QED
      BY <3>1 DEF MandatesInv, Binding, Calling, CallerOK, Whole
  <2> QED
    BY <2>1, MineStep, CallStepKeeps DEF CallsNext
<1> QED
  BY <1>1, <1>2, PTL DEF CallsSpec

\* MandateSentOnce, for any number of requests and mandates: the authorization in an
\* envelope is sent once, however many requests present the envelope at a time, and
\* a mandate is called funded only when it was (BindToEscrow, FundViaMandate).  An
\* authorization in several envelopes is several mandates, each of which may send it.
THEOREM MandatesSentOnce == CallsSpec => []MandateSentOnce
<1>1. MandatesInv => MandateSentOnce
  BY DEF MandatesInv, MandateSentOnce
<1> QED
  BY <1>1, MandatesAlways, PTL

-----------------------------------------------------------------------------
\* Refusals.

Points == {"multi", "backup", "workerStake", "verifierStake"}

\* What was read of the row: its terms, and of the backup what is true for good.
HasRead(r) ==
    /\ r.multi = row.multi /\ r.backup = row.backup
    /\ r.workerStake = row.workerStake /\ r.verifierStake = row.verifierStake
    /\ r.activated \in BOOLEAN /\ (r.activated = TRUE => deal.backup = TRUE)

\* The row lags behind the contract and never runs ahead of it.
RefusalInv ==
    /\ terms.multi \in BOOLEAN /\ terms.backup \in BOOLEAN
    /\ terms.workerStake \in BOOLEAN /\ terms.verifierStake \in BOOLEAN
    /\ deal = [status |-> deal.status, current |-> deal.current, staked |-> deal.staked,
               backup |-> deal.backup, allowance |-> deal.allowance]
    /\ deal.current \in {0, 1} /\ deal.backup \in BOOLEAN
    /\ row = [multi |-> row.multi, backup |-> row.backup, workerStake |-> row.workerStake,
              verifierStake |-> row.verifierStake, amount |-> row.amount, activated |-> row.activated]
    /\ row.multi \in BOOLEAN /\ row.backup \in BOOLEAN
    /\ row.workerStake \in BOOLEAN /\ row.verifierStake \in BOOLEAN
    /\ HasRead(row)
    /\ \A q \in CallRequests : caller[q].pc # "idle" => HasRead(caller[q].row)
    /\ NoFalseRefusal

\* The index of a call that the contract would take passes, if the row has the milestones.
LEMMA IndexPasses ==
    ASSUME RefusalInv, NEW fn \in OfMilestone, NEW i, Takes(fn, i, terms.key), row.multi = terms.multi
    PROVE  /\ IndexOptional(row.multi, i)
           /\ fn # "claimTimeoutRefund" => IndexGiven(row.multi, i)
<1>1. CASE terms.multi = TRUE
  BY <1>1 DEF RefusalInv, Takes, IndexOptional, IndexGiven, NoIndex
<1>2. CASE terms.multi = FALSE
  BY <1>2 DEF RefusalInv, Takes, IndexOptional, IndexGiven
<1> QED
  BY <1>1, <1>2 DEF RefusalInv

\* What a call makes of the contract: a backup stays.
LEMMA DealMoves ==
    ASSUME RefusalInv, NEW fn, NEW i, NEW amount, NEW d \in Outcomes(fn, i, amount)
    PROVE  /\ d = [status |-> d.status, current |-> d.current, staked |-> d.staked,
                   backup |-> d.backup, allowance |-> d.allowance]
           /\ d.current \in {0, 1} /\ d.backup \in BOOLEAN
           /\ deal.backup = TRUE => d.backup = TRUE
<1>1. CASE fn \in {"approve", "withdrawStake"}
  BY <1>1 DEF Outcomes, RefusalInv
<1>2. CASE fn \notin {"approve", "withdrawStake"}
  <2>1. PICK s \in Rules[fn].to :
          d = IF s = "done" /\ terms.multi /\ i # NoIndex /\ deal.current = 0
              THEN [deal EXCEPT !.status = "funded", !.current = 1]
              ELSE [deal EXCEPT
                      !.status = CASE s = "done" -> "closed"
                                   [] s = "same" -> @
                                   [] OTHER -> s,
                      !.staked = (fn = "depositStake" \/ (@ /\ fn # "activateBackup")),
                      !.backup = (fn = "activateBackup" \/ @),
                      !.allowance = @ /\ fn \notin Payments]
    BY <1>2 DEF Outcomes
  <2> QED
    BY <2>1 DEF RefusalInv
<1> QED
  BY <1>1, <1>2

\* What excuses a refusal stays.
LEMMA ExcuseStays ==
    ASSUME RefusalInv, UNCHANGED terms, deal.backup = TRUE => deal'.backup = TRUE,
           \A f \in Points : row'[f] = row[f], NEW check, Excused(check)
    PROVE  Excused(check)'
  BY DEF Excused, Points, RefusalInv

\* The contract moves, and what requests have read of the row stays.
LEMMA DealKeeps ==
    ASSUME RefusalInv, UNCHANGED <<terms, row, wronged>>,
           deal' = [status |-> deal'.status, current |-> deal'.current, staked |-> deal'.staked,
                    backup |-> deal'.backup, allowance |-> deal'.allowance],
           deal'.current \in {0, 1}, deal'.backup \in BOOLEAN, deal.backup = TRUE => deal'.backup = TRUE,
           \A q \in CallRequests : caller'[q].pc = caller[q].pc /\ caller'[q].row = caller[q].row
    PROVE  RefusalInv'
<1>1. NoFalseRefusal'
  BY ExcuseStays DEF RefusalInv, NoFalseRefusal
<1> QED
  BY <1>1 DEF RefusalInv, HasRead

\* What may become of what a request has read.
StillRead(q) ==
    caller'[q].pc # "idle" =>
        \/ caller[q].pc # "idle" /\ caller'[q].row = caller[q].row
        \/ caller'[q].row = row

\* The contract stays; a request reads the row, or forgets what it read; a refusal
\* has its excuse.
LEMMA ReadsKeep ==
    ASSUME RefusalInv, UNCHANGED <<terms, deal>>, UNCHANGED row \/ RowIndexed,
           \A check \in wronged' : check \in wronged \/ Excused(check),
           \A q \in CallRequests : StillRead(q)
    PROVE  RefusalInv'
<1>1. /\ row' = [multi |-> row'.multi, backup |-> row'.backup, workerStake |-> row'.workerStake,
                 verifierStake |-> row'.verifierStake, amount |-> row'.amount, activated |-> row'.activated]
      /\ row'.multi = row.multi /\ row'.backup = row.backup
      /\ row'.workerStake = row.workerStake /\ row'.verifierStake = row.verifierStake
      /\ row'.activated \in BOOLEAN /\ (row'.activated = TRUE => deal.backup = TRUE)
  BY DEF RefusalInv, RowIndexed, HasRead
<1>2. NoFalseRefusal'
  <2>1. \A f \in Points : row'[f] = row[f]
    BY <1>1 DEF Points
  <2> QED
    BY <2>1, ExcuseStays DEF RefusalInv, NoFalseRefusal
<1>3. \A r : HasRead(r) => HasRead(r)'
  BY <1>1 DEF HasRead
<1>4. HasRead(row)'
  BY <1>1 DEF HasRead
<1>5. \A q \in CallRequests : (caller[q].pc # "idle" => HasRead(caller[q].row))'
  BY <1>3, <1>4 DEF StillRead, RefusalInv
<1> QED
  BY <1>1, <1>2, <1>4, <1>5 DEF RefusalInv

\* What a request has read stays with it until it ends.
LEMMA ReadRow ==
    ASSUME MandatesInv, NEW q \in CallRequests,
           \/ CallEnds(q)
           \/ \E operations : Arrive(q, operations)
           \/ /\ caller[q].pc # "idle"
              /\ \/ \E pc : CallGoto(q, pc)
                 \/ \E pc, fn : caller' = [caller EXCEPT ![q].pc = pc, ![q].fn = fn]
                 \/ \E i, a : caller' = [caller EXCEPT ![q] =
                                           [@ EXCEPT !.pc = "submit", !.index = i, !.attested = a]]
                 \/ \E pc, m : caller' = [caller EXCEPT ![q].pc = pc, ![q].mandate = m]
    PROVE  \A o \in CallRequests : StillRead(o)
<1>1. caller = [o \in CallRequests |-> caller[o]] /\ Whole(caller[q])
  BY DEF MandatesInv, CallerOK
<1>2. CASE CallEnds(q)
  BY <1>1, <1>2 DEF CallEnds, NotCalled, StillRead
<1>3. CASE \E operations : Arrive(q, operations)
  BY <1>1, <1>3 DEF Arrive, NotCalled, StillRead
<1>4. ASSUME NEW c, caller' = [caller EXCEPT ![q] = c], c.row = caller[q].row, caller[q].pc # "idle"
      PROVE  \A o \in CallRequests : StillRead(o)
  BY <1>1, <1>4 DEF StillRead
<1>5. CASE caller[q].pc # "idle" /\ \E pc : CallGoto(q, pc)
  <2>1. PICK pc : caller' = [caller EXCEPT ![q].pc = pc]
    BY <1>5 DEF CallGoto
  <2> DEFINE c == [caller[q] EXCEPT !.pc = pc]
  <2>2. caller' = [caller EXCEPT ![q] = c] /\ c.row = caller[q].row
    BY <1>1, <2>1 DEF Whole
  <2> HIDE DEF c
  <2> QED
    BY <1>4, <1>5, <2>2
<1>6. CASE caller[q].pc # "idle" /\ \E pc, fn : caller' = [caller EXCEPT ![q].pc = pc, ![q].fn = fn]
  <2>1. PICK pc, fn : caller' = [caller EXCEPT ![q].pc = pc, ![q].fn = fn]
    BY <1>6
  <2> DEFINE c == [caller[q] EXCEPT !.pc = pc, !.fn = fn]
  <2>2. caller' = [caller EXCEPT ![q] = c] /\ c.row = caller[q].row
    BY <1>1, <2>1 DEF Whole
  <2> HIDE DEF c
  <2> QED
    BY <1>4, <1>6, <2>2
<1>7. CASE /\ caller[q].pc # "idle"
           /\ \E i, a : caller' = [caller EXCEPT ![q] = [@ EXCEPT !.pc = "submit", !.index = i, !.attested = a]]
  <2>1. PICK i, a : caller' = [caller EXCEPT ![q] = [@ EXCEPT !.pc = "submit", !.index = i, !.attested = a]]
    BY <1>7
  <2> DEFINE c == [caller[q] EXCEPT !.pc = "submit", !.index = i, !.attested = a]
  <2>2. caller' = [caller EXCEPT ![q] = c] /\ c.row = caller[q].row
    BY <1>1, <2>1 DEF Whole
  <2> HIDE DEF c
  <2> QED
    BY <1>4, <1>7, <2>2
<1>8. CASE caller[q].pc # "idle" /\ \E pc, m : caller' = [caller EXCEPT ![q].pc = pc, ![q].mandate = m]
  <2>1. PICK pc, m : caller' = [caller EXCEPT ![q].pc = pc, ![q].mandate = m]
    BY <1>8
  <2> DEFINE c == [caller[q] EXCEPT !.pc = pc, !.mandate = m]
  <2>2. caller' = [caller EXCEPT ![q] = c] /\ c.row = caller[q].row
    BY <1>1, <2>1 DEF Whole
  <2> HIDE DEF c
  <2> QED
    BY <1>4, <1>8, <2>2
<1> QED
  BY <1>2, <1>3, <1>5, <1>6, <1>7, <1>8

\* A refusal that has its excuse if the contract would take the call.
LEMMA RefusesFairly ==
    ASSUME MandatesInv, RefusalInv, NEW q \in CallRequests, NEW fn, NEW i, NEW check,
           Refuses(q, fn, i, check), Takes(fn, i, terms.key) => Excused(check)
    PROVE  RefusalInv'
<1>1. UNCHANGED <<terms, deal, row>> /\ CallEnds(q)
  BY DEF Refuses
<1>2. \A c \in wronged' : c \in wronged \/ Excused(c)
  BY DEF Refuses
<1> QED
  BY <1>1, <1>2, ReadRow, ReadsKeep

\* A call that is made.
LEMMA SendsFairly ==
    ASSUME MandatesInv, RefusalInv, NEW q \in CallRequests, NEW fn, NEW i, NEW pc,
           caller[q].pc # "idle", Sends(q, fn, i, pc)
    PROVE  RefusalInv'
<1>1. UNCHANGED <<terms, deal, row, wronged>> /\ CallGoto(q, pc)
  BY DEF Sends
<1> QED
  BY <1>1, ReadRow, ReadsKeep

\* A call that is made, or refused with an excuse.
LEMMA ServesFairly ==
    ASSUME MandatesInv, RefusalInv, NEW q \in CallRequests, NEW operation, NEW fn, NEW i, NEW check, NEW ok,
           Serves(q, operation, fn, i, check, ok),
           HasRead(caller[q].row) /\ Takes(fn, i, terms.key) /\ ~ok => Excused(check)
    PROVE  RefusalInv'
<1>1. caller[q].pc # "idle" /\ HasRead(caller[q].row)
  BY DEF Serves, Calling, RefusalInv
<1>2. CASE ok
  BY <1>1, <1>2, SendsFairly DEF Serves
<1>3. CASE ~ok
  BY <1>1, <1>3, RefusesFairly DEF Serves
<1> QED
  BY <1>2, <1>3

\* The calls that may be refused.
LEMMA CallsFairly ==
    ASSUME MandatesInv, RefusalInv, NEW q \in CallRequests,
           \/ WithdrawStake(q) \/ CancelBeforeFunding(q) \/ ApproveWork(q) \/ VerifyAndApprove(q)
           \/ CastVerifierVote(q) \/ DisputeWork(q) \/ ResolveDispute(q) \/ ClaimTimeoutRefund(q)
           \/ ClaimArbitratorTimeout(q) \/ AbortRemainingMilestones(q) \/ ActivateBackup(q)
    PROVE  RefusalInv'
<1>1. CASE WithdrawStake(q) \/ CancelBeforeFunding(q)
  BY <1>1, ServesFairly DEF WithdrawStake, CancelBeforeFunding
<1> DEFINE Reviewing == {"approveByBuyer", "castVerifierVote", "verifyAndApprove", "dispute", "escalateSilence",
                         "resolveDispute"}
<1>0. row.multi # terms.multi => Excused("multi")
  BY DEF Excused
<1>2. ASSUME NEW operation, NEW fn \in Reviewing, NEW i, OnMilestone(q, operation, fn, i) PROVE RefusalInv'
  <2>1. HasRead(caller[q].row) /\ Takes(fn, i, terms.key) /\ ~IndexGiven(caller[q].row.multi, i) => Excused("multi")
    BY <1>0, IndexPasses DEF OfMilestone, HasRead
  <2> QED
    BY <1>2, <2>1, ServesFairly DEF OnMilestone
<1>3. CASE ApproveWork(q) \/ VerifyAndApprove(q) \/ CastVerifierVote(q) \/ DisputeWork(q) \/ ResolveDispute(q)
  BY <1>2, <1>3 DEF ApproveWork, VerifyAndApprove, CastVerifierVote, DisputeWork, ResolveDispute
<1>4. ASSUME NEW operation, NEW fn \in {"claimTimeoutRefund", "claimArbitratorTimeout"}, NEW i,
             AfterTimeout(q, operation, fn, i) PROVE RefusalInv'
  <2>1. HasRead(caller[q].row) /\ Takes(fn, i, terms.key) /\ ~IndexOptional(caller[q].row.multi, i) => Excused("multi")
    BY <1>0, IndexPasses DEF OfMilestone, HasRead
  <2> QED
    BY <1>4, <2>1, ServesFairly DEF AfterTimeout
<1>5. CASE ClaimTimeoutRefund(q) \/ ClaimArbitratorTimeout(q)
  BY <1>4, <1>5 DEF ClaimTimeoutRefund, ClaimArbitratorTimeout
<1>6. CASE AbortRemainingMilestones(q)
  <2>1. HasRead(caller[q].row) /\ Takes("abortRemainingMilestones", NoIndex, terms.key) /\ ~caller[q].row.multi
        => Excused("multi")
    BY <1>0 DEF Takes, HasRead, RefusalInv
  <2> QED
    BY <1>6, <2>1, ServesFairly DEF AbortRemainingMilestones
<1>7. CASE ActivateBackup(q)
  <2> DEFINE check == IF caller[q].row.backup THEN "activated" ELSE "backup"
             ok == caller[q].row.backup /\ ~caller[q].row.activated
  <2>1. HasRead(caller[q].row) /\ Takes("activateBackup", NoIndex, terms.key) /\ ~ok => Excused(check)
    BY DEF Takes, HasRead, RefusalInv, Excused
  <2>2. Serves(q, "backup", "activateBackup", NoIndex, check, ok)
    BY <1>7 DEF ActivateBackup
  <2> HIDE DEF check, ok
  <2> QED
    BY <2>1, <2>2, ServesFairly
<1> QED
  BY <1>1, <1>3, <1>5, <1>6, <1>7

\* A payment.
LEMMA PaysFairly ==
    ASSUME MandatesInv, RefusalInv, NEW q \in CallRequests, NEW operation, NEW fn, Pays(q, operation, fn)
    PROVE  RefusalInv'
<1>1. caller[q].pc # "idle"
  BY DEF Pays, Calling
<1>2. CASE caller' = [caller EXCEPT ![q].pc = "receipt", ![q].fn = fn] /\ UNCHANGED <<terms, deal, row, wronged>>
  BY <1>1, <1>2, ReadRow, ReadsKeep
<1>3. CASE Sends(q, fn, NoIndex, "index")
  BY <1>1, <1>3, SendsFairly
<1> QED
  BY <1>2, <1>3 DEF Pays

\* A stake that the row does not ask for.
LEMMA StakesFairly ==
    ASSUME MandatesInv, RefusalInv, NEW q \in CallRequests, DepositWorkerStake(q) \/ DepositVerifierStake(q)
    PROVE  RefusalInv'
<1>1. ASSUME DepositWorkerStake(q) PROVE RefusalInv'
  <2>1. HasRead(caller[q].row) /\ Takes("depositStake", NoIndex, terms.key) /\ ~caller[q].row.workerStake
        => Excused("workerStake")
    BY DEF Takes, HasRead, RefusalInv, Excused
  <2>2. CASE Pays(q, "stake", "depositStake")
    BY <2>2, PaysFairly
  <2>3. CASE ~caller[q].row.workerStake /\ Serves(q, "stake", "depositStake", NoIndex, "workerStake", FALSE)
    BY <2>1, <2>3, ServesFairly
  <2> QED
    BY <1>1, <2>2, <2>3 DEF DepositWorkerStake, PaysStake
<1>2. ASSUME DepositVerifierStake(q) PROVE RefusalInv'
  <2>1. HasRead(caller[q].row) /\ Takes("depositVerifierStake", NoIndex, terms.key) /\ ~caller[q].row.verifierStake
        => Excused("verifierStake")
    BY DEF Takes, HasRead, RefusalInv, Excused
  <2>2. CASE Pays(q, "verifier stake", "depositVerifierStake")
    BY <2>2, PaysFairly
  <2>3. CASE /\ ~caller[q].row.verifierStake
             /\ Serves(q, "verifier stake", "depositVerifierStake", NoIndex, "verifierStake", FALSE)
    BY <2>1, <2>3, ServesFairly
  <2> QED
    BY <1>2, <2>2, <2>3 DEF DepositVerifierStake, PaysStake
<1> QED
  BY <1>1, <1>2

\* A submission's checks.
LEMMA SubmissionFair ==
    ASSUME MandatesInv, RefusalInv, NEW q \in CallRequests, ValidateAttestations(q) PROVE RefusalInv'
<1>1. caller[q].pc # "idle" /\ HasRead(caller[q].row)
  BY DEF ValidateAttestations, Calling, RefusalInv
<1>2. ASSUME NEW i, ~IndexGiven(caller[q].row.multi, i), Refuses(q, "submit", i, "multi") PROVE RefusalInv'
  <2>1. Takes("submit", i, terms.key) => Excused("multi")
    BY <1>1, <1>2, IndexPasses DEF OfMilestone, HasRead, Excused
  <2> QED
    BY <1>2, <2>1, RefusesFairly
<1>3. ASSUME NEW i, Refuses(q, "submit", i, "attestations") PROVE RefusalInv'
  BY <1>3, RefusesFairly DEF Excused
<1>4. ASSUME NEW i, NEW a, UNCHANGED <<terms, deal, row, wronged>>,
             caller' = [caller EXCEPT ![q] = [@ EXCEPT !.pc = "submit", !.index = i, !.attested = a]]
      PROVE  RefusalInv'
  BY <1>1, <1>4, ReadRow, ReadsKeep
<1>5. \/ \E i : ~IndexGiven(caller[q].row.multi, i) /\ Refuses(q, "submit", i, "multi")
      \/ \E i : Refuses(q, "submit", i, "attestations")
      \/ \E i, a : /\ UNCHANGED <<terms, deal, row, wronged>>
                   /\ caller' = [caller EXCEPT ![q] = [@ EXCEPT !.pc = "submit", !.index = i, !.attested = a]]
  BY Zenon DEF ValidateAttestations
<1> QED
  BY <1>2, <1>3, <1>4, <1>5

\* The tool for submissions knows of the backup what the row knows.
LEMMA ToolFair ==
    ASSUME MandatesInv, RefusalInv, NEW q \in CallRequests, ToolWork(q), ~\E operations : Arrive(q, operations)
    PROVE  RefusalInv'
<1>1. PICK i \in Indices : Refuses(q, "submit", i, "key") /\ terms.key # ActiveWorker
  BY DEF ToolWork
<1>2. Takes("submit", i, terms.key) => terms.key = Worker
  BY DEF Takes, Rules, Rule, Role, Worker
<1>3. terms.key = Worker => Excused("key")
  BY <1>1 DEF Worker, ActiveWorker, RefusalInv, HasRead, Excused
<1> QED
  BY <1>1, <1>2, <1>3, RefusesFairly

\* A request's step.
LEMMA CallStepFair ==
    ASSUME MandatesInv, RefusalInv, NEW q \in CallRequests, CallStep(q) PROVE RefusalInv'
<1>1. HttpPayment(q) \/ HttpWork(q) \/ HttpRuling(q) \/ ToolPayment(q) \/ ToolRuling(q)
      \/ CheckoutCall(q) \/ MandateCall(q) => \E operations : Arrive(q, operations)
  BY Zenon DEF HttpPayment, HttpWork, HttpRuling, ToolPayment, ToolRuling, CheckoutCall, MandateCall
<1>2. CASE \E operations : Arrive(q, operations)
  BY <1>2, ReadRow, ReadsKeep DEF Arrive
<1>3. CASE FundEscrow(q)
  BY <1>3, PaysFairly DEF FundEscrow
<1>4. CASE SubmitWork(q)
  <2>1. caller[q].pc # "idle"
    BY <1>4 DEF SubmitWork, Calling
  <2> QED
    BY <1>4, <2>1, SendsFairly DEF SubmitWork
<1>5. CASE PersistAttestations(q) \/ CallFails(q) \/ RunIndexerOnce(q)
  <2>1. caller[q].pc # "idle" /\ ((\E pc : CallGoto(q, pc)) \/ CallEnds(q))
    BY <1>5, Zenon DEF PersistAttestations, CallFails, RunIndexerOnce, Calling
  <2>2. UNCHANGED <<terms, deal, wronged>> /\ (UNCHANGED row \/ RowIndexed)
    BY <1>5 DEF PersistAttestations, CallFails, RunIndexerOnce
  <2> QED
    BY <2>1, <2>2, ReadRow, ReadsKeep
<1>6. CASE BindToEscrow(q)
  <2>0. PICK m \in Mandates : caller' = [caller EXCEPT ![q].pc = "authorize", ![q].mandate = m]
    BY <1>6 DEF BindToEscrow
  <2>1. caller[q].pc # "idle" /\ \E pc, n : caller' = [caller EXCEPT ![q].pc = pc, ![q].mandate = n]
    BY <1>6, <2>0, Zenon DEF BindToEscrow, Calling
  <2>2. UNCHANGED <<terms, deal, row, wronged>>
    BY <1>6 DEF BindToEscrow
  <2> QED
    BY <2>1, <2>2, ReadRow, ReadsKeep
<1>7. CASE FundWithAuthorization(q) \/ UpdateMandate(q)
  <2>1. caller[q].pc # "idle" /\ \E pc : CallGoto(q, pc)
    BY <1>7, Zenon DEF FundWithAuthorization, UpdateMandate, Calling
  <2>2. UNCHANGED <<terms, deal, row, wronged>>
    BY <1>7 DEF FundWithAuthorization, UpdateMandate
  <2> QED
    BY <2>1, <2>2, ReadRow, ReadsKeep
<1>8. CASE ToolWork(q)
  BY <1>2, <1>8, ToolFair
<1> QED
  BY <1>1, <1>2, <1>3, <1>4, <1>5, <1>6, <1>7, <1>8, CallsFairly, StakesFairly, SubmissionFair DEF CallStep

\* A step of the chain.
LEMMA ChainFair == ASSUME MandatesInv, RefusalInv, MineCall \/ PartyCalls PROVE RefusalInv'
<1>1. CASE MineCall
  <2>1. UNCHANGED <<terms, row, wronged>>
    BY <1>1 DEF MineCall
  <2>2. \A o \in CallRequests : caller'[o].pc = caller[o].pc /\ caller'[o].row = caller[o].row
    <3>1. UNCHANGED caller \/ \E q : caller' = [caller EXCEPT ![q].receipt = TRUE]
      BY <1>1 DEF MineCall
    <3>2. caller = [o \in CallRequests |-> caller[o]] /\ \A o \in CallRequests : Whole(caller[o])
      BY DEF MandatesInv, CallerOK
    <3>3. ASSUME NEW q, caller' = [caller EXCEPT ![q].receipt = TRUE], NEW o \in CallRequests
          PROVE  caller'[o].pc = caller[o].pc /\ caller'[o].row = caller[o].row
      <4>1. CASE q = o
        BY <3>2, <3>3, <4>1 DEF Whole
      <4>2. CASE q # o
        BY <3>2, <3>3, <4>2
      <4> QED
        BY <4>1, <4>2
    <3> QED
      BY <3>1, <3>3
  <2>3. UNCHANGED deal \/ \E fn, i, amount : deal' \in Outcomes(fn, i, amount)
    BY <1>1, Zenon DEF MineCall
  <2>4. CASE UNCHANGED deal
    BY <2>1, <2>2, <2>4, DealKeeps DEF RefusalInv
  <2>5. ASSUME NEW fn, NEW i, NEW amount, deal' \in Outcomes(fn, i, amount) PROVE RefusalInv'
    <3>1. PICK d \in Outcomes(fn, i, amount) : deal' = d
      BY <2>5
    <3>2. /\ d = [status |-> d.status, current |-> d.current, staked |-> d.staked,
                  backup |-> d.backup, allowance |-> d.allowance]
          /\ d.current \in {0, 1} /\ d.backup \in BOOLEAN /\ (deal.backup = TRUE => d.backup = TRUE)
      BY DealMoves
    <3> QED
      BY <2>1, <2>2, <3>1, <3>2, DealKeeps
  <2> QED
    BY <2>3, <2>4, <2>5
<1>2. CASE PartyCalls
  <2>1. PICK fn, i : \E d \in Outcomes(fn, i, TRUE) : deal' = [d EXCEPT !.allowance = deal.allowance]
    BY <1>2, Zenon DEF PartyCalls
  <2>2. PICK d \in Outcomes(fn, i, TRUE) : deal' = [d EXCEPT !.allowance = deal.allowance]
    BY <2>1
  <2>3. /\ d = [status |-> d.status, current |-> d.current, staked |-> d.staked,
                backup |-> d.backup, allowance |-> d.allowance]
        /\ d.current \in {0, 1} /\ d.backup \in BOOLEAN /\ (deal.backup = TRUE => d.backup = TRUE)
    BY DealMoves
  <2>4. /\ deal' = [status |-> deal'.status, current |-> deal'.current, staked |-> deal'.staked,
                    backup |-> deal'.backup, allowance |-> deal'.allowance]
        /\ deal'.current = d.current /\ deal'.backup = d.backup
    BY <2>2, <2>3
  <2>5. UNCHANGED <<terms, row, caller, wronged>>
    BY <1>2 DEF PartyCalls
  <2> QED
    BY <2>3, <2>4, <2>5, DealKeeps
<1> QED
  BY <1>1, <1>2

\* NoFalseRefusal, for any terms, a row of either origin, any number of requests and
\* any delay of the indexer: the server refuses by itself a call that the contract
\* would take for its attestations, on a point that an indexed row does not have,
\* or by the key of a backup whose activation the row has not learned of, and for
\* nothing else (validateMilestoneIndex, ActivateBackup, DepositWorkerStake).
THEOREM NobodyWronged == CallsSpec => []NoFalseRefusal
<1>1. CallsInit => RefusalInv
  <2> SUFFICES ASSUME CallsInit PROVE RefusalInv
    OBVIOUS
  <2>1. /\ terms.multi \in BOOLEAN /\ terms.backup \in BOOLEAN
        /\ terms.workerStake \in BOOLEAN /\ terms.verifierStake \in BOOLEAN
    BY CallsAssumption DEF CallsInit
  <2>2. /\ deal = [status |-> deal.status, current |-> deal.current, staked |-> deal.staked,
                   backup |-> deal.backup, allowance |-> deal.allowance]
        /\ deal.current = 0 /\ deal.backup = FALSE
    BY DEF CallsInit
  <2>3. \A q \in CallRequests : caller[q].pc = "idle"
    BY DEF CallsInit, NotCalled
  <2>4. wronged = {}
    BY DEF CallsInit
  <2>5. row = RegisteredRow \/ \E stake \in {FALSE, terms.verifierStake} : row = IndexedRow(stake)
    BY DEF CallsInit
  <2>6. /\ row = [multi |-> row.multi, backup |-> row.backup, workerStake |-> row.workerStake,
                  verifierStake |-> row.verifierStake, amount |-> row.amount, activated |-> row.activated]
        /\ row.multi \in BOOLEAN /\ row.backup \in BOOLEAN
        /\ row.workerStake \in BOOLEAN /\ row.verifierStake \in BOOLEAN /\ row.activated = FALSE
    <3>1. CASE row = RegisteredRow
      BY <2>1, <3>1 DEF RegisteredRow
    <3>2. ASSUME NEW stake \in {FALSE, terms.verifierStake}, row = IndexedRow(stake)
          PROVE  /\ row = [multi |-> row.multi, backup |-> row.backup, workerStake |-> row.workerStake,
                         verifierStake |-> row.verifierStake, amount |-> row.amount, activated |-> row.activated]
                 /\ row.multi \in BOOLEAN /\ row.backup \in BOOLEAN
                 /\ row.workerStake \in BOOLEAN /\ row.verifierStake \in BOOLEAN /\ row.activated = FALSE
      <4>1. stake \in BOOLEAN
        BY <2>1
      <4> QED
        BY <3>2, <4>1 DEF IndexedRow
    <3> QED
      BY <2>5, <3>1, <3>2
  <2> QED
    BY <2>1, <2>2, <2>3, <2>4, <2>6 DEF RefusalInv, HasRead, NoFalseRefusal
<1>2. MandatesInv /\ RefusalInv /\ [CallsNext]_callVars => RefusalInv'
  <2> SUFFICES ASSUME MandatesInv, RefusalInv, [CallsNext]_callVars PROVE RefusalInv'
    OBVIOUS
  <2>1. CASE ChildCreated \/ Poll \/ UNCHANGED callVars
    <3>1. UNCHANGED <<terms, deal, caller, wronged>> /\ (UNCHANGED row \/ RowIndexed)
      BY <2>1 DEF ChildCreated, Poll, callVars
    <3> QED
      BY <3>1, ReadsKeep DEF StillRead
  <2> QED
    BY <2>1, ChainFair, CallStepFair DEF CallsNext
<1>3. RefusalInv => NoFalseRefusal
  BY DEF RefusalInv
<1> QED
  BY <1>1, <1>2, <1>3, MandatesAlways, PTL DEF CallsSpec

-----------------------------------------------------------------------------
\* Requests for a new escrow.

\* A name that is the active worker of a parent.
ParentNames == {"buyer", "backup"}

\* A door that has taken the request has made its canonical terms of it, and a
\* door that has refused it had a reason.
RequestInv ==
    /\ asked \in Terms
    /\ parent \in [chain : ParentNames, row : ParentNames]
    /\ DOMAIN doorAnswer = Doors
    /\ \A d \in Doors :
          /\ doorAnswer[d].verdict = "taken" => doorAnswer[d].intent = Intent(asked)
          /\ doorAnswer[d].unfair = FALSE

\* A checkout hands on the part of the panel that counts, and the rest as it
\* came: neither the service nor the intent sees a difference.
LEMMA HandedOnAlike ==
    ASSUME NEW d \in Doors, NEW p \in Terms, Quorum(p)
    PROVE  /\ Intent(HandedOn(d, p)) = Intent(p)
           /\ ServiceTakes(p) => ServiceTakes(HandedOn(d, p))
<1> DEFINE h == [p EXCEPT !.panel = Panel(p)]
<1>1. p.panel \in Seq(STRING) /\ p.count \in 1..7 /\ Len(p.panel) \in p.count..7
  BY DEF Terms, Quorum
<1>2. Panel(p) \in Seq(STRING) /\ Len(Panel(p)) = p.count
      /\ \A i \in 1..p.count : Panel(p)[i] = p.panel[i]
  BY <1>1, SubSeqProperties DEF Panel
<1>3. h \in Terms /\ h.panel = Panel(p)
  BY <1>2 DEF Terms
<1>4. /\ h.buyer = p.buyer /\ h.worker = p.worker /\ h.arbitrator = p.arbitrator
      /\ h.count = p.count /\ h.threshold = p.threshold /\ h.amount = p.amount
  BY DEF Terms
<1>5. Panel(h) = Panel(p)
  <2>1. Panel(h) = SubSeq(Panel(p), 1, p.count)
    BY <1>3, <1>4 DEF Panel
  <2>2. SubSeq(Panel(p), 1, p.count) = Panel(p)
    BY <1>1, <1>2, SubSeqProperties, SeqEqual
  <2> QED
    BY <2>1, <2>2
<1>6. Intent(h) = Intent(p)
  BY <1>5 DEF Intent, Terms
<1>7. ServiceTakes(p) => ServiceTakes(h)
  BY <1>1, <1>2, <1>3, <1>4 DEF ServiceTakes, Quorum, Parties3, PartiesApart, PanelApart
<1> QED
  BY <1>6, <1>7 DEF HandedOn

\* Whatever a door takes has a quorum.
LEMMA TakenHasQuorum ==
    ASSUME NEW d \in Doors, NEW p \in Terms, DoorTakes(d, p)
    PROVE  Quorum(p)
<1>1. CASE d = "http"
  BY <1>1 DEF DoorTakes, HandlerRoles
<1>2. CASE d = "mcp"
  BY <1>2 DEF DoorTakes, ToolRoles
<1>3. CASE d = "ucp"
  BY <1>3 DEF DoorTakes, PayloadRoles
<1> QED
  BY <1>1, <1>2, <1>3 DEF Doors

\* What the chain takes, where the door is no stricter, has every part that some
\* door asks for.
LEMMA ChainTakesSound ==
    ASSUME RequestInv, NEW d \in Doors, ChainTakes(asked), ~Stricter(d, asked)
    PROVE  /\ Quorum(asked) /\ PartiesApart(asked) /\ PanelApart(asked)
           /\ \A a \in Parties3(asked) : IsAddress(a)
           /\ \A i \in 1..asked.count : IsAddress(asked.panel[i])
           /\ CircuitPaired(asked) /\ ParentAdmits(asked)
           /\ asked.tier \in {0, 1}
           /\ asked.amount \in Nat /\ MeetsFloor(asked.amount)
<1> DEFINE p == asked
<1>1. Expressible(p) /\ FactoryTakes(p) /\ EscrowTakes(p) /\ ~RolesCollide(p)
  BY DEF ChainTakes, FactoryTakes
<1>2. p.panel \in Seq(STRING) /\ p.count \in Int /\ p.tier \in Int /\ p.amount \in Int
      /\ p.threshold \in Int
  BY DEF RequestInv, Terms
<1>3. Quorum(p) /\ PartiesApart(p) /\ PanelApart(p)
  BY <1>1 DEF Quorum, FactoryTakes, Expressible, RolesCollide
<1>4. \A a \in Parties3(p) : IsAddress(a)
  BY <1>1 DEF EscrowTakes, Expressible, IsAddress
<1>5. \A i \in 1..p.count : IsAddress(p.panel[i])
  <2>1. \A i \in 1..p.count : i \in DOMAIN p.panel
    BY <1>2, <1>3 DEF Quorum
  <2> QED
    BY <1>1, <2>1 DEF RolesCollide, Expressible, IsAddress
<1>6. CircuitPaired(p)
  BY <1>1 DEF Stricter, CircuitPaired, EscrowTakes, Expressible, IsHexAddress, HexToAddress
<1>7. ParentAdmits(p)
  BY <1>1 DEF RequestInv, ParentNames, Stricter, ParentAdmits, FactoryTakes, HexToAddress
<1>8. p.tier \in {0, 1}
  BY <1>1, <1>2 DEF FactoryTakes, Expressible
<1>9. p.amount \in Nat /\ MeetsFloor(p.amount)
  BY <1>1 DEF Expressible, Stricter
<1> QED
  BY <1>3, <1>4, <1>5, <1>6, <1>7, <1>8, <1>9

\* So a door that is no stricter takes it.
LEMMA FairDoor ==
    ASSUME RequestInv, NEW d \in Doors, ChainTakes(asked), ~Stricter(d, asked)
    PROVE  DoorTakes(d, asked) /\ ServiceTakes(HandedOn(d, asked))
<1> DEFINE p == asked
<1> HIDE DEF p
<1>p. p \in Terms /\ p = asked
  BY DEF RequestInv, p
<1>1. /\ Quorum(p) /\ PartiesApart(p) /\ PanelApart(p)
      /\ \A a \in Parties3(p) : IsAddress(a)
      /\ \A i \in 1..p.count : IsAddress(p.panel[i])
      /\ CircuitPaired(p) /\ ParentAdmits(p) /\ p.tier \in {0, 1}
      /\ p.amount \in Nat /\ MeetsFloor(p.amount)
  BY <1>p, ChainTakesSound
<1>2. /\ \A a \in Parties3(p) : IsValidAddress(a)
      /\ \A i \in 1..p.count : IsValidAddress(p.panel[i])
  BY <1>1 DEF IsAddress, IsValidAddress, HexToAddress
<1>3. /\ p.backup # "bad" /\ p.token # "bad" /\ p.deadline \in Nat
      /\ UnsignedOrAbsent(p.stake) /\ UnsignedOrAbsent(p.extension)
      /\ \A i \in DOMAIN p.milestones :
            p.milestones[i].amount \in Nat /\ p.milestones[i].deadline \in Nat
  BY <1>p DEF ChainTakes, Expressible
<1>4. /\ p.deadline <= IntMax /\ p.extension <= IntMax
      /\ \A i \in DOMAIN p.milestones : p.milestones[i].deadline <= IntMax
  <2>1. IntMax \in Int /\ p.deadline \in Int /\ p.extension \in Int
    BY <1>p, RequestsAssumption DEF Terms
  <2> QED
    BY <2>1, <1>p, <1>3 DEF Stricter
<1>5. p.token = "none" \/ IsHexAddress(p.token)
  BY <1>3 DEF IsHexAddress
<1>6. \A i \in DOMAIN p.milestones :
         /\ Unsigned(p.milestones[i].amount) /\ Unsigned(p.milestones[i].deadline)
         /\ p.milestones[i].deadline \in 0..IntMax
  BY <1>3, <1>4, RequestsAssumption DEF Unsigned
<1>7. ServiceTakes(p)
  BY <1>1 DEF ServiceTakes, Unsigned
<1>8. Unsigned(p.amount) /\ p.amount # Malformed /\ Unsigned(p.deadline)
  BY <1>1, <1>3 DEF Unsigned, Malformed
<1>9. CASE d = "http"
  <2>1. HandlerRoles(p)
    BY <1>1, <1>2, <1>8 DEF HandlerRoles
  <2>2. p.extension # Absent => Unsigned(p.extension) /\ HexToAddress(p.backup) # "zero"
    BY <1>p, <1>3, <1>9 DEF Stricter, UnsignedOrAbsent, Unsigned
  <2>3. p.backup = "none" \/ IsValidAddress(p.backup)
    BY <1>p, <1>3, <1>9 DEF Stricter, IsValidAddress, IsHexAddress
  <2>4. HandlerTerms(p)
    BY <1>1, <1>3, <1>5, <1>6, <2>2, <2>3 DEF HandlerTerms
  <2> QED
    BY <1>1, <1>4, <1>7, <1>9, <1>p, <2>1, <2>4, HandedOnAlike DEF DoorTakes, HandlerNumbers
<1>10. CASE d = "mcp"
  <2>1. ToolRoles(p)
    BY <1>1, <1>3, <1>8 DEF ToolRoles
  <2>2. p.extension > 0 => HexToAddress(p.backup) # "zero"
    <3>1. p.extension \in Int
      BY <1>p DEF Terms
    <3> QED
      BY <1>p, <1>10, <3>1 DEF Stricter
  <2>3. ToolTerms(p)
    BY <1>1, <1>3, <1>5, <1>6, <2>2 DEF ToolTerms, IsHexAddress
  <2> QED
    BY <1>1, <1>4, <1>7, <1>10, <1>p, <2>1, <2>3, HandedOnAlike DEF DoorTakes, ToolNumbers, HandlerNumbers
<1>11. CASE d = "ucp"
  <2>1. PayloadRoles(p)
    BY <1>1, <1>2, <1>8 DEF PayloadRoles
  <2>2. p.extension # Absent => Unsigned(p.extension) /\ HexToAddress(p.backup) # "zero"
    BY <1>p, <1>3, <1>11 DEF Stricter, UnsignedOrAbsent, Unsigned
  <2>3. p.backup = "none" \/ IsValidAddress(p.backup)
    BY <1>p, <1>3, <1>11 DEF Stricter, IsValidAddress, IsHexAddress
  <2>4. PayloadTerms(p)
    BY <1>1, <1>3, <1>5, <1>6, <2>2, <2>3 DEF PayloadTerms
  <2> QED
    BY <1>1, <1>4, <1>7, <1>11, <1>p, <2>1, <2>4, HandedOnAlike DEF DoorTakes, PayloadNumbers
<1> QED
  BY <1>9, <1>10, <1>11, <1>p DEF Doors

LEMMA RequestStep == RequestInv /\ [RequestsNext]_requestVars => RequestInv'
<1> SUFFICES ASSUME RequestInv, [RequestsNext]_requestVars
             PROVE  RequestInv'
  OBVIOUS
<1>1. CASE UNCHANGED requestVars
  <2>1. asked' = asked /\ parent' = parent /\ doorAnswer' = doorAnswer
    BY <1>1 DEF requestVars
  <2> QED
    BY <2>1 DEF RequestInv, Intent, Panel
<1>2. CASE ParentReplaced
  BY <1>2 DEF ParentReplaced, RequestInv, ParentNames, Intent, Panel
<1>3. ASSUME NEW d \in Doors, Decide(d)
      PROVE  RequestInv'
  <2>1. asked' = asked /\ parent' = parent
    BY <1>3 DEF Decide
  <2>2. DOMAIN doorAnswer' = Doors
        /\ \A e \in Doors : e # d => doorAnswer'[e] = doorAnswer[e]
    BY <1>3 DEF Decide, RequestInv
  <2>3. CASE DoorTakes(d, asked) /\ ServiceTakes(HandedOn(d, asked))
    <3>1. doorAnswer'[d] = [verdict |-> "taken", intent |-> Intent(HandedOn(d, asked)), unfair |-> FALSE]
      BY <1>3, <2>3 DEF Decide, RequestInv
    <3>2. Intent(HandedOn(d, asked)) = Intent(asked)
      BY <2>3, TakenHasQuorum, HandedOnAlike DEF RequestInv
    <3>3. doorAnswer'[d].intent = Intent(asked) /\ doorAnswer'[d].unfair = FALSE
      BY <3>1, <3>2
    <3> QED
      BY <2>1, <2>2, <3>3 DEF RequestInv, Intent, Panel
  <2>4. CASE ~(DoorTakes(d, asked) /\ ServiceTakes(HandedOn(d, asked)))
    <3>1. doorAnswer'[d] = [verdict |-> "refused", intent |-> <<>>,
                            unfair |-> ChainTakes(asked) /\ ~Stricter(d, asked)]
      BY <1>3, <2>4 DEF Decide, RequestInv
    <3>2. (ChainTakes(asked) /\ ~Stricter(d, asked)) = FALSE
      BY <2>4, FairDoor
    <3>3. doorAnswer'[d] = [verdict |-> "refused", intent |-> <<>>, unfair |-> FALSE]
      BY <3>1, <3>2, Zenon
    <3>4. doorAnswer'[d].verdict = "refused" /\ doorAnswer'[d].unfair = FALSE
      BY <3>3
    <3> QED
      BY <2>1, <2>2, <3>4 DEF RequestInv, Intent, Panel
  <2> QED
    BY <2>3, <2>4
<1> QED
  BY <1>1, <1>2, <1>3 DEF RequestsNext

LEMMA RequestInit == RequestsInit => RequestInv
<1> SUFFICES ASSUME RequestsInit
             PROVE  RequestInv
  OBVIOUS
<1>1. asked \in Terms
  BY TermsAssumption DEF RequestsInit
<1>2. \A d \in Doors : doorAnswer[d].verdict = "none" /\ doorAnswer[d].unfair = FALSE
  BY DEF RequestsInit, NoDecision
<1> QED
  BY <1>1, <1>2 DEF RequestsInit, RequestInv, ParentNames

\* SameIntentAtEveryDoor, whatever the requests: the canonical terms are made of
\* the request alone, and the panel a checkout cuts short is cut there anyway
\* (buildCreateEscrowIntentID).
THEOREM DoorsAgreeOnIntent == RequestsSpec => []SameIntentAtEveryDoor
<1>1. RequestInv => SameIntentAtEveryDoor
  BY DEF RequestInv, SameIntentAtEveryDoor
<1> QED
  BY <1>1, RequestInit, RequestStep, PTL DEF RequestsSpec

\* RefusedForCause, whatever the requests and the floors: a request that the
\* factory and the constructor take is taken by each of the three copies of the
\* checks and by the service's own, but for the reasons Stricter names.
THEOREM DoorsRefuseForCause == RequestsSpec => []RefusedForCause
<1>1. RequestInv => RefusedForCause
  BY DEF RequestInv, RefusedForCause
<1> QED
  BY <1>1, RequestInit, RequestStep, PTL DEF RequestsSpec

-----------------------------------------------------------------------------
\* Tasks.

\* A request that began after a cancellation finds its task canceled.
AgentOK(a) ==
    LET r == a2aAgent[a]
    IN  /\ r = [pc |-> r.pc, task |-> r.task, canceled |-> r.canceled]
        /\ r.pc # "idle" => r.task \in TaskIDs
        /\ r.pc # "idle" /\ r.canceled = TRUE => a2aTask[r.task] = "canceled"

TasksInv ==
    /\ a2aTask = [t \in TaskIDs |-> a2aTask[t]] /\ accepted \in [TaskIDs -> Nat]
    /\ \A t \in TaskIDs : accepted[t] <= 1 /\ (a2aTask[t] = "none" => accepted[t] = 0)
    /\ reopened = {}
    /\ a2aAgent = [a \in A2AAgents |-> a2aAgent[a]] /\ \A a \in A2AAgents : AgentOK(a)

\* A request ends; a canceled task stays canceled.
LEMMA AgentEnds ==
    ASSUME TasksInv, NEW a \in A2AAgents, Ending(a),
           \A t \in TaskIDs : a2aTask[t] = "canceled" => a2aTask'[t] = "canceled"
    PROVE  a2aAgent' = [o \in A2AAgents |-> a2aAgent'[o]] /\ \A o \in A2AAgents : AgentOK(o)'
<1>1. a2aAgent' = [o \in A2AAgents |-> IF o = a THEN NoA2A ELSE a2aAgent[o]]
  BY DEF TasksInv, Ending
<1>2. NoA2A.pc = "idle" /\ NoA2A = [pc |-> NoA2A.pc, task |-> NoA2A.task, canceled |-> NoA2A.canceled]
  BY DEF NoA2A
<1> QED
  BY <1>1, <1>2 DEF TasksInv, AgentOK

\* A request goes on.
LEMMA AgentGoesOn ==
    ASSUME TasksInv, NEW a \in A2AAgents, NEW pc, a2aAgent' = [a2aAgent EXCEPT ![a].pc = pc],
           a2aAgent[a].pc # "idle", UNCHANGED <<a2aTask, accepted, reopened>>
    PROVE  TasksInv'
<1> DEFINE m == [a2aAgent[a] EXCEPT !.pc = pc]
<1>1. AgentOK(a)
  BY DEF TasksInv
<1>2. a2aAgent' = [o \in A2AAgents |-> IF o = a THEN m ELSE a2aAgent[o]]
  BY DEF TasksInv
<1>3. /\ m = [pc |-> m.pc, task |-> m.task, canceled |-> m.canceled]
      /\ m.task = a2aAgent[a].task /\ m.canceled = a2aAgent[a].canceled
  BY <1>1 DEF AgentOK
<1> HIDE DEF m
<1> QED
  BY <1>1, <1>2, <1>3 DEF TasksInv, AgentOK

\* A request comes.
LEMMA AgentComes ==
    ASSUME TasksInv, NEW a \in A2AAgents, NEW method, HandleJSONRPC(a, method)
    PROVE  TasksInv'
<1>1. PICK t \in TaskIDs :
         a2aAgent' = [a2aAgent EXCEPT ![a] = [pc |-> method, task |-> t, canceled |-> a2aTask[t] = "canceled"]]
  BY DEF HandleJSONRPC
<1> DEFINE b == a2aTask[t] = "canceled"
<1>2. b = TRUE => a2aTask[t] = "canceled"
  OBVIOUS
<1>3. a2aAgent' = [o \in A2AAgents |->
         IF o = a THEN [pc |-> method, task |-> t, canceled |-> b] ELSE a2aAgent[o]]
  BY <1>1 DEF TasksInv
<1>4. UNCHANGED <<a2aTask, accepted, reopened>>
  BY DEF HandleJSONRPC
<1> HIDE DEF b
<1> QED
  BY <1>2, <1>3, <1>4 DEF TasksInv, AgentOK

\* Nothing is told to be under way that was canceled before.
LEMMA TellStep ==
    ASSUME TasksInv, NEW a \in A2AAgents, a2aAgent[a].pc # "idle", Ending(a),
           UNCHANGED <<a2aTask, accepted>>,
           reopened' = reopened \cup {u \in {a2aAgent[a].task} :
                          a2aTask[a2aAgent[a].task] \notin Terminal /\ a2aAgent[a].canceled}
    PROVE  TasksInv'
<1> DEFINE b == a2aAgent[a].canceled
<1>1. b = TRUE => a2aTask[a2aAgent[a].task] \in Terminal
  BY DEF TasksInv, AgentOK, Terminal
<1>2. ~(a2aTask[a2aAgent[a].task] \notin Terminal /\ b)
  BY <1>1, Zenon
<1>3. reopened' = {}
  BY <1>2 DEF TasksInv
<1> QED
  BY <1>3, AgentEnds DEF TasksInv

\* The id of a task is taken once.
LEMMA AcceptStep == ASSUME TasksInv, NEW a \in A2AAgents, CreateNewTask(a) PROVE TasksInv'
<1> DEFINE t == a2aAgent[a].task
<1>1. /\ a2aTask[t] = "none" /\ a2aTask' = [a2aTask EXCEPT ![t] = "submitted"] /\ UNCHANGED reopened
      /\ accepted' = [accepted EXCEPT ![t] = @ + 1] /\ Ending(a) /\ a2aAgent[a].pc # "idle"
  BY DEF CreateNewTask, At
<1>2. t \in TaskIDs /\ accepted[t] = 0
  BY <1>1 DEF TasksInv, AgentOK
<1>3. /\ a2aTask' = [u \in TaskIDs |-> IF u = t THEN "submitted" ELSE a2aTask[u]]
      /\ accepted' \in [TaskIDs -> Nat] /\ accepted'[t] = 1
      /\ \A u \in TaskIDs : u # t => accepted'[u] = accepted[u]
  BY <1>1, <1>2 DEF TasksInv
<1>4. \A u \in TaskIDs : a2aTask[u] = "canceled" => a2aTask'[u] = "canceled"
  BY <1>1, <1>3
<1>5. a2aAgent' = [o \in A2AAgents |-> a2aAgent'[o]] /\ \A o \in A2AAgents : AgentOK(o)'
  BY <1>1, <1>4, AgentEnds
<1> QED
  BY <1>1, <1>2, <1>3, <1>5 DEF TasksInv

\* A cancellation, of whatever the row says by then.
LEMMA CancelStep == ASSUME TasksInv, NEW a \in A2AAgents, CancelTask(a) PROVE TasksInv'
<1> DEFINE t == a2aAgent[a].task
<1>1. /\ a2aTask' = [a2aTask EXCEPT ![t] = "canceled"] /\ UNCHANGED <<accepted, reopened>>
      /\ Ending(a) /\ a2aAgent[a].pc # "idle"
  BY DEF CancelTask, At
<1>2. a2aTask' = [u \in TaskIDs |-> IF u = t THEN "canceled" ELSE a2aTask[u]]
  BY <1>1 DEF TasksInv
<1>3. a2aAgent' = [o \in A2AAgents |-> a2aAgent'[o]] /\ \A o \in A2AAgents : AgentOK(o)'
  BY <1>1, <1>2, AgentEnds
<1> QED
  BY <1>1, <1>2, <1>3 DEF TasksInv

\* The invariant of the tasks.
LEMMA TasksAlways == A2ASpec => []TasksInv
<1>1. A2AInit => TasksInv
  BY DEF A2AInit, NoA2A, TasksInv, AgentOK
<1>2. TasksInv /\ [A2ANext]_a2aVars => TasksInv'
  <2> SUFFICES ASSUME TasksInv, [A2ANext]_a2aVars PROVE TasksInv'
    OBVIOUS
  <2>1. CASE UNCHANGED a2aVars
    BY <2>1 DEF a2aVars, TasksInv, AgentOK
  <2>2. ASSUME NEW a \in A2AAgents, SendReads(a) PROVE TasksInv'
    <3>1. CASE a2aTask[a2aAgent[a].task] = "none"
      BY <2>2, <3>1, AgentGoesOn DEF SendReads, At
    <3>2. CASE a2aTask[a2aAgent[a].task] # "none"
      BY <2>2, <3>2, TellStep DEF SendReads, At
    <3> QED
      BY <3>1, <3>2
  <2>3. ASSUME NEW a \in A2AAgents, GetTaskStatus(a) PROVE TasksInv'
    BY <2>3, TellStep DEF GetTaskStatus, At
  <2>4. ASSUME NEW a \in A2AAgents, CancelReads(a) PROVE TasksInv'
    BY <2>4, AgentGoesOn DEF CancelReads, At
  <2>5. ASSUME NEW a \in A2AAgents, A2AFails(a) PROVE TasksInv'
    BY <2>5, AgentEnds DEF A2AFails, TasksInv
  <2> QED
    BY <2>1, <2>2, <2>3, <2>4, <2>5, AgentComes, AcceptStep, CancelStep DEF A2ANext
<1> QED
  BY <1>1, <1>2, PTL DEF A2ASpec

\* TaskAcceptedOnce, for any number of requests and tasks: a task is new once,
\* and what was canceled is never told to be under way to a later request
\* (createNewTask, CancelTask).
THEOREM TasksAcceptedOnce == A2ASpec => []TaskAcceptedOnce
<1>1. TasksInv => TaskAcceptedOnce
  BY DEF TasksInv, TaskAcceptedOnce
<1> QED
  BY <1>1, TasksAlways, PTL

-----------------------------------------------------------------------------
\* Decompositions.

\* Records with all of their fields.
WholePlanner(r) == r = [pc |-> r.pc, panel |-> r.panel, quorum |-> r.quorum, leaves |-> r.leaves]
WholeNode(n) ==
    n = [parent |-> n.parent, type |-> n.type, further |-> n.further, circuit |-> n.circuit, rfq |-> n.rfq]

\* The leaves in some order, each of them.
Enumerates(order, S) ==
    /\ order \in [1..Cardinality(S) -> S]
    /\ {order[i] : i \in DOMAIN order} = S

TreeOK ==
    /\ nodes = [n \in DOMAIN nodes |-> nodes[n]] /\ \A n \in DOMAIN nodes : WholeNode(nodes[n])
    /\ IsFiniteSet(DOMAIN nodes)
    /\ plan = [status |-> plan.status, rfqs |-> plan.rfqs]

\* A request that is about to commit has the leaves of the tree as it still is.
PlannerOK(p) ==
    /\ WholePlanner(planner[p])
    /\ planner[p].pc = "commit" => plan.status # "none" /\ Enumerates(planner[p].leaves, Leaves(nodes))

PlanInv ==
    /\ TreeOK /\ LeavesOffered
    /\ planner = [p \in Planners |-> planner[p]] /\ \A p \in Planners : PlannerOK(p)

\* A tree has so many leaves.
LEMMA LeavesFinite ==
    ASSUME TreeOK
    PROVE  IsFiniteSet(Leaves(nodes)) /\ Cardinality(Leaves(nodes)) \in Nat
<1>1. Leaves(nodes) \subseteq DOMAIN nodes
  BY DEF Leaves
<1>2. IsFiniteSet(Leaves(nodes))
  BY <1>1, FS_Subset DEF TreeOK
<1> QED
  BY <1>2, FS_CardinalityType

\* A request ends; the others are about the same tree.
LEMMA PlannerEnds ==
    ASSUME PlanInv, NEW p \in Planners, PlanEnds(p),
           plan.status # "none" => plan'.status # "none" /\ Leaves(nodes') = Leaves(nodes)
    PROVE  planner' = [o \in Planners |-> planner'[o]] /\ \A o \in Planners : PlannerOK(o)'
<1>1. planner' = [o \in Planners |-> IF o = p THEN NotPlanning ELSE planner[o]]
  BY DEF PlanInv, PlanEnds
<1>2. WholePlanner(NotPlanning) /\ NotPlanning.pc = "idle"
  BY DEF NotPlanning, WholePlanner
<1>3. ASSUME NEW o \in Planners PROVE PlannerOK(o)'
  <2>1. PlannerOK(o)
    BY DEF PlanInv
  <2>2. CASE o = p
    BY <1>1, <1>2, <2>2 DEF PlannerOK
  <2>3. CASE o # p
    BY <1>1, <2>1, <2>3 DEF PlannerOK
  <2> QED
    BY <2>2, <2>3
<1> QED
  BY <1>1, <1>3

\* A request comes to another record, and the tables stay.
LEMMA PlannerMoves ==
    ASSUME PlanInv, NEW p \in Planners, NEW r, planner' = [planner EXCEPT ![p] = r],
           WholePlanner(r), UNCHANGED <<plan, nodes, offers>>,
           r.pc = "commit" => plan.status # "none" /\ Enumerates(r.leaves, Leaves(nodes))
    PROVE  PlanInv'
<1>1. planner' = [o \in Planners |-> IF o = p THEN r ELSE planner[o]]
  BY DEF PlanInv
<1>2. ASSUME NEW o \in Planners PROVE PlannerOK(o)'
  <2>1. PlannerOK(o)
    BY DEF PlanInv
  <2> QED
    BY <1>1, <2>1 DEF PlannerOK
<1>3. TreeOK' /\ LeavesOffered'
  BY DEF PlanInv, TreeOK, LeavesOffered
<1> QED
  BY <1>1, <1>2, <1>3 DEF PlanInv

\* A request comes.
LEMMA ComesStep ==
    ASSUME PlanInv, NEW p \in Planners,
           HandlerCreates(p) \/ ToolCreates(p) \/ HandlerFinalizes(p) \/ ToolFinalizes(p)
    PROVE  PlanInv'
<1> DEFINE Brought(r) == ComesTo(p, r) /\ WholePlanner(r) /\ r.pc # "commit"
<1>1. WholePlanner(NotPlanning)
  BY DEF NotPlanning, WholePlanner
<1>2. CASE HandlerCreates(p) \/ ToolCreates(p)
  <2> DEFINE r == [NotPlanning EXCEPT !.pc = "create"]
  <2>1. WholePlanner(r) /\ r.pc = "create"
    BY <1>1 DEF WholePlanner
  <2>2. ComesTo(p, r)
    BY <1>2 DEF HandlerCreates, ToolCreates
  <2> HIDE DEF r
  <2> QED
    BY <2>1, <2>2, PlannerMoves DEF ComesTo
<1>3. CASE HandlerFinalizes(p) \/ ToolFinalizes(p)
  <2>1. PICK panel, quorum :
           ComesTo(p, [NotPlanning EXCEPT !.pc = "finalize", !.panel = panel, !.quorum = quorum])
    BY <1>3 DEF HandlerFinalizes, ToolFinalizes
  <2> DEFINE a == [NotPlanning EXCEPT !.pc = "finalize"]
             b == [a EXCEPT !.panel = panel]
             r == [b EXCEPT !.quorum = quorum]
  <2>2. ComesTo(p, r)
    BY <2>1
  <2>3. WholePlanner(a) /\ a.pc = "finalize"
    BY <1>1 DEF WholePlanner
  <2> HIDE DEF a
  <2>4. WholePlanner(b) /\ b.pc = "finalize"
    BY <2>3 DEF WholePlanner
  <2> HIDE DEF b
  <2>5. WholePlanner(r) /\ r.pc = "finalize"
    BY <2>4 DEF WholePlanner
  <2> HIDE DEF r
  <2> QED
    BY <2>2, <2>5, PlannerMoves DEF ComesTo
<1> QED
  BY <1>2, <1>3

\* The leaves that are read stay the leaves.
LEMMA FinalizeReadsStep == ASSUME PlanInv, NEW p \in Planners, FinalizeReads(p) PROVE PlanInv'
<1>1. PICK order \in [1..Cardinality(Leaves(nodes)) -> Leaves(nodes)] :
         /\ {order[i] : i \in DOMAIN order} = Leaves(nodes)
         /\ planner' = [planner EXCEPT ![p].pc = "commit", ![p].leaves = order]
  BY DEF FinalizeReads
<1> DEFINE b == [planner[p] EXCEPT !.pc = "commit"]
           r == [b EXCEPT !.leaves = order]
<1>2. planner' = [planner EXCEPT ![p] = r]
  BY <1>1 DEF PlanInv
<1>3. WholePlanner(b) /\ b.pc = "commit"
  BY DEF PlanInv, PlannerOK, WholePlanner
<1> HIDE DEF b
<1>4. WholePlanner(r) /\ r.pc = "commit" /\ r.leaves = order
  BY <1>3 DEF WholePlanner
<1> HIDE DEF r
<1>5. plan.status # "none" /\ UNCHANGED <<plan, nodes, offers>>
  BY DEF FinalizeReads
<1>6. Enumerates(r.leaves, Leaves(nodes))
  BY <1>1, <1>4 DEF Enumerates
<1> QED
  BY <1>2, <1>4, <1>5, <1>6, PlannerMoves

\* A tree is stored once, with no RFQs.
LEMMA CreateStep == ASSUME PlanInv, NEW p \in Planners, CreateDecomposition(p) PROVE PlanInv'
<1>1. PICK proposal \in Proposals :
         nodes' = [n \in TempIDs(proposal) |->
                LET sub == CHOOSE s \in {proposal[i] : i \in DOMAIN proposal} : s.id = n
                IN  [parent |-> sub.parent, type |-> sub.type, further |-> sub.further,
                     circuit |-> sub.circuit, rfq |-> 0]]
  BY DEF CreateDecomposition
<1>2. /\ plan.status = "none" /\ PlanEnds(p) /\ UNCHANGED offers
      /\ \E status \in {"valid", "draft"} : plan' = [plan EXCEPT !.status = status]
  BY DEF CreateDecomposition
<1>3. DOMAIN nodes' = TempIDs(proposal) /\ nodes' = [n \in DOMAIN nodes' |-> nodes'[n]]
  BY <1>1
<1>4. \A n \in DOMAIN nodes' : WholeNode(nodes'[n]) /\ nodes'[n].rfq = 0
  BY <1>1 DEF WholeNode
<1>5. IsFiniteSet(DOMAIN nodes')
  <2> DEFINE ids == [i \in DOMAIN proposal |-> proposal[i].id]
  <2>1. ids \in Surjection(DOMAIN proposal, TempIDs(proposal))
    BY DEF TempIDs, Surjection
  <2>2. IsFiniteSet(TempIDs(proposal))
    BY <2>1, PlanAssumption, FS_Surjection
  <2> QED
    BY <1>3, <2>2
<1>6. plan' = [status |-> plan'.status, rfqs |-> plan'.rfqs] /\ plan'.status \in {"valid", "draft"}
  BY <1>2 DEF PlanInv, TreeOK
<1>7. offers' = << >>
  BY <1>2 DEF PlanInv, LeavesOffered
<1>8. TreeOK' /\ LeavesOffered'
  BY <1>3, <1>4, <1>5, <1>6, <1>7 DEF TreeOK, LeavesOffered
<1> QED
  BY <1>2, <1>8, PlannerEnds DEF PlanInv

\* Each leaf gets its RFQ, in the order they are in.
LEMMA CommitStep == ASSUME PlanInv, NEW p \in Planners, FinalizeCommits(p) PROVE PlanInv'
<1> DEFINE leaves == planner[p].leaves
           c == Cardinality(Leaves(nodes))
           place(n) == CHOOSE i \in DOMAIN leaves : leaves[i] = n
           made == [i \in DOMAIN leaves |-> RFQOf(leaves[i], nodes[leaves[i]])]
<1>1. /\ planner[p].pc = "commit" /\ plan.status = "valid" /\ PlanEnds(p)
      /\ offers' = offers \o made
      /\ plan' = [status |-> "finalized", rfqs |-> [i \in DOMAIN leaves |-> Len(offers) + i]]
      /\ nodes' = [n \in DOMAIN nodes |-> [nodes[n] EXCEPT !.rfq =
              IF \E i \in DOMAIN leaves : leaves[i] = n THEN Len(offers) + place(n) ELSE @]]
  BY DEF FinalizeCommits, Planning
<1>2. /\ c \in Nat /\ DOMAIN leaves = 1..c /\ leaves \in [1..c -> Leaves(nodes)]
      /\ {leaves[i] : i \in DOMAIN leaves} = Leaves(nodes)
  BY <1>1, LeavesFinite DEF PlanInv, PlannerOK, Enumerates
<1>3. offers = << >> /\ Len(offers) = 0 /\ \A n \in DOMAIN nodes : nodes[n].rfq = 0
  BY <1>1 DEF PlanInv, LeavesOffered
<1>4. offers' = made /\ Len(made) = c /\ DOMAIN made = 1..c
  <2>1. made \in Seq({made[i] : i \in 1..c}) /\ Len(made) = c /\ DOMAIN made = 1..c
    BY <1>2
  <2> HIDE DEF made
  <2> QED
    BY <1>1, <1>3, <2>1
<1> DEFINE rfq(n) == IF \E i \in DOMAIN leaves : leaves[i] = n THEN 0 + place(n) ELSE 0
<1>5. nodes' = [n \in DOMAIN nodes |-> [nodes[n] EXCEPT !.rfq = rfq(n)]]
  BY <1>1, <1>3
<1>6. ASSUME NEW n \in Leaves(nodes) PROVE rfq(n) \in 1..c /\ made[rfq(n)].leaf = n
  <2>1. \E i \in DOMAIN leaves : leaves[i] = n
    BY <1>2
  <2>2. place(n) \in DOMAIN leaves /\ leaves[place(n)] = n
    BY <2>1
  <2>3. rfq(n) = 0 + place(n)
    BY <2>1
  <2> HIDE DEF rfq, place
  <2>4. rfq(n) = place(n) /\ rfq(n) \in 1..c
    BY <1>2, <2>2, <2>3
  <2>5. made[place(n)].leaf = n
    BY <2>2 DEF RFQOf
  <2> QED
    BY <2>4, <2>5
<1>7. ASSUME NEW n \in DOMAIN nodes, n \notin Leaves(nodes) PROVE rfq(n) = 0
  BY <1>2, <1>7
<1> HIDE DEF rfq
<1>8. ASSUME NEW n \in DOMAIN nodes
      PROVE  WholeNode(nodes'[n]) /\ nodes'[n].rfq = rfq(n) /\ nodes'[n].parent = nodes[n].parent
  <2>1. WholeNode(nodes[n]) /\ nodes'[n] = [nodes[n] EXCEPT !.rfq = rfq(n)]
    BY <1>5 DEF PlanInv, TreeOK
  <2> QED
    BY <2>1 DEF WholeNode
<1>9. DOMAIN nodes' = DOMAIN nodes /\ nodes' = [n \in DOMAIN nodes' |-> nodes'[n]]
  BY <1>5
<1>10. Leaves(nodes') = Leaves(nodes) /\ Leaves(nodes) \subseteq DOMAIN nodes
  BY <1>8, <1>9 DEF Leaves
<1>11. plan'.status = "finalized" /\ {plan'.rfqs[i] : i \in DOMAIN plan'.rfqs} = 1..c
  <2>1. plan'.rfqs = [i \in 1..c |-> 0 + i]
    BY <1>1, <1>2, <1>3
  <2>2. \A i \in 1..c : 0 + i = i
    BY <1>2
  <2>3. DOMAIN plan'.rfqs = 1..c /\ \A i \in 1..c : plan'.rfqs[i] = i
    BY <2>1, <2>2
  <2> DEFINE list == plan'.rfqs
  <2>4. plan'.status = "finalized"
    BY <1>1
  <2> HIDE DEF list
  <2>5. {list[i] : i \in DOMAIN list} = 1..c
    BY <2>3, Zenon DEF list
  <2> QED
    BY <2>4, <2>5 DEF list
<1>12. TreeOK'
  BY <1>1, <1>8, <1>9 DEF PlanInv, TreeOK
<1>13. LeavesOffered'
  <2>1. Len(offers') = Cardinality(Leaves(nodes')) /\ DOMAIN offers' = 1..c
    BY <1>4, <1>10
  <2>2. ASSUME NEW n \in DOMAIN nodes'
        PROVE  IF n \in Leaves(nodes') THEN nodes'[n].rfq \in DOMAIN offers' /\ offers'[nodes'[n].rfq].leaf = n
               ELSE nodes'[n].rfq = 0
    <3> HIDE DEF made
    <3> QED
      BY <1>4, <1>6, <1>7, <1>8, <1>9, <1>10
  <2> QED
    BY <1>11, <2>1, <2>2 DEF LeavesOffered
<1> QED
  BY <1>1, <1>10, <1>11, <1>12, <1>13, PlannerEnds DEF PlanInv

\* The invariant of the decompositions.
LEMMA PlanAlways == PlanSpec => []PlanInv
<1>1. PlanInit => PlanInv
  <2> SUFFICES ASSUME PlanInit PROVE PlanInv
    OBVIOUS
  <2>1. DOMAIN nodes = {} /\ nodes = [n \in DOMAIN nodes |-> nodes[n]]
    BY DEF PlanInit
  <2>2. TreeOK /\ LeavesOffered
    BY <2>1, FS_EmptySet DEF PlanInit, TreeOK, LeavesOffered
  <2>3. WholePlanner(NotPlanning) /\ NotPlanning.pc = "idle"
    BY DEF NotPlanning, WholePlanner
  <2> QED
    BY <2>2, <2>3 DEF PlanInit, PlanInv, PlannerOK
<1>2. PlanInv /\ [PlanNext]_planVars => PlanInv'
  <2> SUFFICES ASSUME PlanInv, [PlanNext]_planVars PROVE PlanInv'
    OBVIOUS
  <2>1. CASE UNCHANGED planVars
    BY <2>1 DEF planVars, PlanInv, TreeOK, LeavesOffered, PlannerOK
  <2>2. ASSUME NEW p \in Planners, PlanFails(p) PROVE PlanInv'
    <3>1. PlanEnds(p) /\ UNCHANGED <<plan, nodes, offers>>
      BY <2>2 DEF PlanFails
    <3>2. TreeOK' /\ LeavesOffered'
      BY <3>1 DEF PlanInv, TreeOK, LeavesOffered
    <3> QED
      BY <3>1, <3>2, PlannerEnds DEF PlanInv
  <2> QED
    BY <2>1, <2>2, ComesStep, CreateStep, FinalizeReadsStep, CommitStep DEF PlanNext
<1> QED
  BY <1>1, <1>2, PTL DEF PlanSpec

\* LeavesOffered, for any proposals and any number of requests: once finalized, a
\* decomposition has one RFQ for each leaf, each leaf has its own, and no RFQ is
\* left over, although every request goes by what it read before the transaction
\* (Service.FinalizeDecomposition).
THEOREM LeavesAlwaysOffered == PlanSpec => []LeavesOffered
<1>1. PlanInv => LeavesOffered
  BY DEF PlanInv
<1> QED
  BY <1>1, PlanAlways, PTL

-----------------------------------------------------------------------------
\* Delegation capability tokens, for any number of principals, tokens and requests.

USE DEF TokensTypeOK

AllRequests == TokenRequests \cup Revocations

\* A token that was given by the rules, where table holds its parent.
Grounded(k, table) ==
    /\ k.parent = 0 => k.by = Buyer
    /\ k.parent # 0 => k.by = table[k.parent].subject /\ StrictAttenuation(k, table[k.parent])

\* A request knows tokens that are there; what it is to insert is a token by the
\* rules.  A doomed chain has given a reason, or will at a token further up.
RequestOK(q) ==
    LET r == dctRequest[q]
    IN  /\ r.pc = "insert" =>
              r.new \in Token /\ r.new.parent \in 0..Len(dctToken) /\ Grounded(r.new, dctToken)
        /\ r.pc \in {"escrow", "ancestors", "verdict"} =>
              r.token \in DOMAIN dctToken /\ r.at \in DOMAIN dctToken
        /\ r.pc = "revoke" => r.token \in DOMAIN dctToken
        /\ r.pc \in {"escrow", "ancestors"} /\ r.doomed = TRUE =>
              r.reasons = TRUE \/ \E a \in Line(r.at) \ {r.at} : Dead(dctToken[a])
        /\ r.pc = "verdict" /\ r.doomed = TRUE => r.reasons = TRUE

TokensInv ==
    /\ TokensTypeOK
    /\ \A t \in DOMAIN dctToken : Grounded(dctToken[t], dctToken)
    /\ dctRequest = [q \in AllRequests |-> dctRequest[q]]
    /\ \A q \in AllRequests : RequestOK(q)

\* All that a step may do to the token k, that becomes m.
KeptAs(k, m) ==
    /\ m.parent = k.parent /\ m.subject = k.subject /\ m.rights = k.rights
    /\ m.expires = k.expires /\ m.by = k.by
    /\ k.revoked => m.revoked /\ m = k
    /\ [m EXCEPT !.revoked = FALSE] = [k EXCEPT !.revoked = FALSE]

\* What a step does to the table: tokens are kept, and one may be added.
TableStep ==
    /\ dctToken' \in Seq(Token)
    /\ Len(dctToken') \in {Len(dctToken), Len(dctToken) + 1}
    /\ \A t \in 1..Len(dctToken) : KeptAs(dctToken[t], dctToken'[t])
    /\ Len(dctToken') = Len(dctToken) + 1 =>
          \E q \in AllRequests :
             dctRequest[q].pc = "insert" /\ dctToken'[Len(dctToken')] = dctRequest[q].new

-----------------------------------------------------------------------------
\* The table.

\* A number is not its successor.
LEMMA NotOneMore == \A m \in Nat : \A n : n = m => n # m + 1
  OBVIOUS

\* What is in the longer range only is its end.
LEMMA LastPlace ==
    \A m \in Nat : \A n \in {m, m + 1} : \A t \in 1..n : t \notin 1..m => t = n /\ n = m + 1
  OBVIOUS

\* A token with its mark set is the same token otherwise.
LEMMA RevokedToken ==
    ASSUME NEW k \in Token
    PROVE  [k EXCEPT !.revoked = TRUE] \in Token /\ KeptAs(k, [k EXCEPT !.revoked = TRUE])
  BY DEF Token, KeptAs

\* Nothing but additions and marks.
LEMMA UnchangedTable == ASSUME TokensInv, UNCHANGED dctToken PROVE TableStep
<1>1. Len(dctToken') = Len(dctToken)
  OBVIOUS
<1>2. \A t \in 1..Len(dctToken) : KeptAs(dctToken[t], dctToken'[t])
  BY DEF KeptAs
<1> QED
  BY <1>1, <1>2 DEF TokensInv, TableStep

\* One mark is set.
LEMMA RevokeTable ==
    ASSUME TokensInv, NEW i \in DOMAIN dctToken,
           dctToken' = [dctToken EXCEPT ![i].revoked = TRUE]
    PROVE  TableStep
<1>1. dctToken \in Seq(Token) /\ DOMAIN dctToken = 1..Len(dctToken) /\ Len(dctToken) \in Nat
  BY DEF TokensInv
<1>2. \A t \in 1..Len(dctToken) : dctToken[t] \in Token
  BY <1>1
<1>3. dctToken' = [t \in 1..Len(dctToken) |-> IF t = i THEN [dctToken[t] EXCEPT !.revoked = TRUE] ELSE dctToken[t]]
  BY <1>1
<1>4. \A t \in 1..Len(dctToken) : dctToken'[t] \in Token /\ KeptAs(dctToken[t], dctToken'[t])
  <2> TAKE t \in 1..Len(dctToken)
  <2>1. CASE t = i
    BY <2>1, <1>2, <1>3, RevokedToken
  <2>2. CASE t # i
    BY <2>2, <1>2, <1>3 DEF KeptAs
  <2> QED
    BY <2>1, <2>2
<1>5. dctToken' \in Seq(Token) /\ Len(dctToken') = Len(dctToken)
  <2>1. DOMAIN dctToken' = 1..Len(dctToken)
    BY <1>3
  <2>2. dctToken' \in [1..Len(dctToken) -> Token]
    BY <1>3, <1>4, <2>1
  <2> QED
    BY <2>2, <1>1
<1>6. \A t \in 1..Len(dctToken) : KeptAs(dctToken[t], dctToken'[t])
  BY <1>4
<1>7. Len(dctToken') # Len(dctToken) + 1
  BY ONLY <1>1, <1>5, NotOneMore, Zenon
<1> QED
  BY <1>5, <1>6, <1>7 DEF TableStep

\* All marks are set.
LEMMA RevokeAllTable == ASSUME TokensInv, RevokeByEscrow PROVE TableStep
<1>1. dctToken \in Seq(Token) /\ DOMAIN dctToken = 1..Len(dctToken) /\ Len(dctToken) \in Nat
  BY DEF TokensInv
<1>2. \A t \in 1..Len(dctToken) : dctToken[t] \in Token
  BY <1>1
<1>3. dctToken' = [t \in 1..Len(dctToken) |-> [dctToken[t] EXCEPT !.revoked = TRUE]]
  BY <1>1 DEF RevokeByEscrow
<1>4. \A t \in 1..Len(dctToken) : dctToken'[t] \in Token /\ KeptAs(dctToken[t], dctToken'[t])
  BY <1>2, <1>3, RevokedToken
<1>5. dctToken' \in Seq(Token) /\ Len(dctToken') = Len(dctToken)
  <2>1. DOMAIN dctToken' = 1..Len(dctToken)
    BY <1>3
  <2>2. dctToken' \in [1..Len(dctToken) -> Token]
    BY <1>3, <1>4, <2>1
  <2> QED
    BY <2>2, <1>1
<1>6. \A t \in 1..Len(dctToken) : KeptAs(dctToken[t], dctToken'[t])
  BY <1>4
<1>7. Len(dctToken') # Len(dctToken) + 1
  BY ONLY <1>1, <1>5, NotOneMore, Zenon
<1> QED
  BY <1>5, <1>6, <1>7 DEF TableStep

\* A token is added.
LEMMA InsertTable ==
    ASSUME TokensInv, NEW q \in AllRequests, InsertToken(q)
    PROVE  TableStep
<1>1. dctToken \in Seq(Token) /\ Len(dctToken) \in Nat /\ dctRequest[q].new \in Token /\ dctRequest[q].pc = "insert"
  BY DEF TokensInv, RequestOK, InsertToken, Requesting
<1>2. dctToken' = Append(dctToken, dctRequest[q].new)
  BY DEF InsertToken
<1>3. /\ dctToken' \in Seq(Token) /\ Len(dctToken') = Len(dctToken) + 1
      /\ \A t \in 1..Len(dctToken) : dctToken'[t] = dctToken[t]
      /\ dctToken'[Len(dctToken')] = dctRequest[q].new
  BY <1>1, <1>2
<1>4. \A t \in 1..Len(dctToken) : KeptAs(dctToken[t], dctToken'[t])
  BY <1>3 DEF KeptAs
<1> QED
  BY <1>1, <1>3, <1>4 DEF TableStep

-----------------------------------------------------------------------------
\* What survives a step of the table and of the clock.

\* A token's parent is an earlier one.
LEMMA ParentThere ==
    ASSUME TokensTypeOK, NEW t \in DOMAIN dctToken
    PROVE  /\ dctToken[t] \in Token /\ dctToken[t].parent \in Nat
           /\ dctToken[t].parent # 0 => dctToken[t].parent \in DOMAIN dctToken
<1>1. dctToken \in Seq(Token) /\ DOMAIN dctToken = 1..Len(dctToken) /\ Len(dctToken) \in Nat
  OBVIOUS
<1>2. dctToken[t] \in Token
  BY <1>1
<1>3. dctToken[t].parent \in Nat
  BY <1>2 DEF Token
<1>4. dctToken[t].parent < t
  OBVIOUS
<1> QED
  BY <1>1, <1>2, <1>3, <1>4

\* Tokens stay where they are.
LEMMA TokensStay ==
    ASSUME TokensTypeOK, TableStep, NEW t \in DOMAIN dctToken
    PROVE  t \in DOMAIN dctToken' /\ KeptAs(dctToken[t], dctToken'[t])
<1>1. DOMAIN dctToken = 1..Len(dctToken) /\ Len(dctToken) \in Nat
  OBVIOUS
<1>2. DOMAIN dctToken' = 1..Len(dctToken') /\ Len(dctToken') >= Len(dctToken) /\ Len(dctToken') \in Nat
  BY <1>1 DEF TableStep
<1>3. KeptAs(dctToken[t], dctToken'[t])
  BY <1>1 DEF TableStep
<1> QED
  BY <1>1, <1>2, <1>3

\* What was given by the rules still is.
LEMMA GroundedStays ==
    ASSUME TokensTypeOK, TableStep, NEW k, k.parent \in 0..Len(dctToken), Grounded(k, dctToken)
    PROVE  k.parent \in 0..Len(dctToken') /\ Grounded(k, dctToken')
<1>1. DOMAIN dctToken = 1..Len(dctToken) /\ Len(dctToken) \in Nat
  OBVIOUS
<1>2. DOMAIN dctToken' = 1..Len(dctToken') /\ Len(dctToken') >= Len(dctToken) /\ Len(dctToken') \in Nat
  BY <1>1 DEF TableStep
<1>3. CASE k.parent = 0
  BY <1>2, <1>3 DEF Grounded
<1>4. CASE k.parent # 0
  <2>1. k.parent \in DOMAIN dctToken
    BY <1>1, <1>4
  <2>2. KeptAs(dctToken[k.parent], dctToken'[k.parent])
    BY <2>1, TokensStay
  <2>3. /\ dctToken'[k.parent].subject = dctToken[k.parent].subject
        /\ dctToken'[k.parent].rights = dctToken[k.parent].rights
        /\ dctToken'[k.parent].expires = dctToken[k.parent].expires
    BY <2>2 DEF KeptAs
  <2>4. Grounded(k, dctToken')
    BY <1>4, <2>3 DEF Grounded, StrictAttenuation
  <2> QED
    BY <1>1, <1>2, <2>4
<1> QED
  BY <1>3, <1>4

\* A dead token stays dead.
LEMMA DeadStays ==
    ASSUME TokensTypeOK, TableStep, clock' \in Nat, clock' >= clock,
           NEW t \in DOMAIN dctToken, Dead(dctToken[t])
    PROVE  Dead(dctToken[t])'
<1>1. KeptAs(dctToken[t], dctToken'[t])
  BY TokensStay
<1>2. dctToken[t].expires \in Nat
  BY ParentThere DEF Token
<1>3. CASE dctToken[t].revoked
  BY <1>1, <1>3 DEF KeptAs, Dead
<1>4. CASE dctToken[t].expires <= clock
  <2>1. dctToken'[t].expires = dctToken[t].expires
    BY <1>1 DEF KeptAs
  <2> QED
    BY <1>2, <1>4, <2>1 DEF Dead
<1> QED
  BY <1>3, <1>4 DEF Dead

\* A token keeps its ancestors.
LEMMA LineStays ==
    ASSUME TokensTypeOK, TableStep, NEW t \in DOMAIN dctToken
    PROVE  Line(t) \subseteq Line(t)'
<1> SUFFICES ASSUME NEW a \in Line(t), NEW S \in SUBSET DOMAIN dctToken', t \in S, ParentClosed(S)'
             PROVE  a \in S /\ a \in DOMAIN dctToken'
  <2>1. \A a \in Line(t) : a \in DOMAIN dctToken
    BY DEF Line
  <2>2. \A a \in Line(t) : a \in DOMAIN dctToken'
    BY <2>1, TokensStay
  <2> QED
    BY <2>2 DEF Line
<1> DEFINE Old == S \cap DOMAIN dctToken
<1>1. ParentClosed(Old)
  <2> SUFFICES ASSUME NEW o \in Old, dctToken[o].parent # 0
               PROVE  dctToken[o].parent \in Old
    BY DEF ParentClosed
  <2>1. dctToken'[o].parent = dctToken[o].parent
    BY TokensStay DEF KeptAs
  <2>2. dctToken[o].parent \in S
    BY <2>1 DEF ParentClosed
  <2>3. dctToken[o].parent \in DOMAIN dctToken
    BY ParentThere
  <2> QED
    BY <2>2, <2>3
<1>2. a \in DOMAIN dctToken /\ a \in Old
  BY <1>1 DEF Line
<1> QED
  BY <1>2, TokensStay

\* A token is its own ancestor, and so are those of its parent; there are no others.
LEMMA LineOfChild ==
    ASSUME TokensTypeOK, NEW t \in DOMAIN dctToken
    PROVE  /\ dctToken[t].parent = 0 => Line(t) \subseteq {t}
           /\ dctToken[t].parent # 0 => Line(t) \subseteq {t} \cup Line(dctToken[t].parent)
<1>1. CASE dctToken[t].parent = 0
  <2>1. ParentClosed({t})
    BY <1>1 DEF ParentClosed
  <2> QED
    BY <1>1, <2>1 DEF Line
<1>2. CASE dctToken[t].parent # 0
  <2> DEFINE p == dctToken[t].parent
  <2>1. p \in DOMAIN dctToken
    BY <1>2, ParentThere
  <2> SUFFICES ASSUME NEW a \in Line(t), a # t, NEW S \in SUBSET DOMAIN dctToken,
                      p \in S, ParentClosed(S)
               PROVE  a \in S
    BY <1>2 DEF Line
  <2>2. ParentClosed(S \cup {t}) /\ S \cup {t} \in SUBSET DOMAIN dctToken
    BY DEF ParentClosed
  <2>3. a \in S \cup {t}
    BY <2>2 DEF Line
  <2> QED
    BY <2>3
<1> QED
  BY <1>1, <1>2

\* A request that does not move stays in order.
LEMMA RequestStays ==
    ASSUME TokensTypeOK, TableStep, clock' \in Nat, clock' >= clock,
           NEW q \in AllRequests, RequestOK(q), dctRequest'[q] = dctRequest[q]
    PROVE  RequestOK(q)'
<1> DEFINE r == dctRequest[q]
<1>1. r.pc = "insert" =>
         r.new \in Token /\ r.new.parent \in 0..Len(dctToken') /\ Grounded(r.new, dctToken')
  BY GroundedStays DEF RequestOK
<1>2. /\ r.pc \in {"escrow", "ancestors", "verdict"} =>
            r.token \in DOMAIN dctToken' /\ r.at \in DOMAIN dctToken'
      /\ r.pc = "revoke" => r.token \in DOMAIN dctToken'
  BY TokensStay DEF RequestOK
<1>3. ASSUME r.pc \in {"escrow", "ancestors"}, NEW a \in Line(r.at) \ {r.at}, Dead(dctToken[a])
      PROVE  a \in Line(r.at)' \ {r.at} /\ Dead(dctToken[a])'
  <2>1. r.at \in DOMAIN dctToken
    BY <1>3 DEF RequestOK
  <2>2. a \in Line(r.at)'
    BY <2>1, LineStays, <1>3
  <2>3. a \in DOMAIN dctToken
    BY DEF Line
  <2> QED
    BY <1>3, <2>2, <2>3, DeadStays
<1>4. r.pc \in {"escrow", "ancestors"} /\ r.doomed = TRUE =>
         r.reasons = TRUE \/ \E a \in Line(r.at)' \ {r.at} : Dead(dctToken[a])'
  BY <1>3 DEF RequestOK
<1>5. r.pc = "verdict" /\ r.doomed = TRUE => r.reasons = TRUE
  BY DEF RequestOK
<1> QED
  BY <1>1, <1>2, <1>4, <1>5 DEF RequestOK

-----------------------------------------------------------------------------
\* The steps of a request.

\* The invariant after a step that brings one request to r.
LEMMA OneRequestMoves ==
    ASSUME TokensInv, TableStep, clock' \in Nat, clock' >= clock,
           NEW q \in AllRequests, NEW r, RequestAt(q, r),
           dctRequest'[q] = r => RequestOK(q)'
    PROVE  /\ dctRequest' = [o \in AllRequests |-> dctRequest'[o]]
           /\ \A o \in AllRequests : RequestOK(o)'
<1>1. dctRequest = [o \in AllRequests |-> dctRequest[o]]
  BY DEF TokensInv
<1>2. dctRequest' = [o \in AllRequests |-> IF o = q THEN r ELSE dctRequest[o]]
  BY <1>1 DEF RequestAt
<1>3. ASSUME NEW o \in AllRequests PROVE RequestOK(o)'
  <2>1. CASE o = q
    BY <1>2, <2>1
  <2>2. CASE o # q
    BY <1>2, <2>2, RequestStays DEF TokensInv
  <2> QED
    BY <2>1, <2>2
<1> QED
  BY <1>2, <1>3

\* The records requests are made of.
LEMMA ChainFields ==
    ASSUME NEW pc, NEW token, NEW at, NEW reasons, NEW doomed
    PROVE  /\ Chain(pc, token, at, reasons, doomed).pc = pc
           /\ Chain(pc, token, at, reasons, doomed).token = token
           /\ Chain(pc, token, at, reasons, doomed).at = at
           /\ Chain(pc, token, at, reasons, doomed).reasons = reasons
           /\ Chain(pc, token, at, reasons, doomed).doomed = doomed
  BY DEF Chain

\* An end is in order.
LEMMA EndIsOK ==
    ASSUME TokensInv, TableStep, clock' \in Nat, clock' >= clock, NEW q \in AllRequests, RequestEnds(q)
    PROVE  /\ dctRequest' = [o \in AllRequests |-> dctRequest'[o]]
           /\ \A o \in AllRequests : RequestOK(o)'
<1>1. NoRequest.pc = "idle"
  BY DEF NoRequest, Chain
<1>2. dctRequest'[q] = NoRequest => RequestOK(q)'
  BY <1>1 DEF RequestOK
<1> QED
  BY <1>2, OneRequestMoves DEF RequestEnds

\* An insertion by the rules is in order.
LEMMA InsertionIsOK ==
    ASSUME TokensInv, UNCHANGED <<clock, escrowRow, dctToken>>, NEW q \in AllRequests, NEW k \in Token,
           k.parent \in 0..Len(dctToken), Grounded(k, dctToken), RequestAt(q, Insertion(k))
    PROVE  /\ dctRequest' = [o \in AllRequests |-> dctRequest'[o]]
           /\ \A o \in AllRequests : RequestOK(o)'
<1>1. Insertion(k).pc = "insert" /\ Insertion(k).new = k
  BY DEF Insertion
<1>2. dctRequest'[q] = Insertion(k) => RequestOK(q)'
  BY <1>1 DEF RequestOK
<1>3. TableStep /\ clock' \in Nat /\ clock' >= clock
  BY UnchangedTable DEF TokensInv
<1> QED
  BY <1>2, <1>3, OneRequestMoves

\* What every step owes to the invariant.
StepOK ==
    /\ TableStep /\ clock' \in Nat /\ clock' >= clock
    /\ dctRequest' = [o \in AllRequests |-> dctRequest'[o]]
    /\ \A o \in AllRequests : RequestOK(o)'

\* A request along a chain is in order when its tokens are there and its verdict
\* misses nothing.
LEMMA ChainIsOK ==
    ASSUME NEW q \in AllRequests, NEW pc, NEW token \in DOMAIN dctToken, NEW at \in DOMAIN dctToken,
           NEW reasons, NEW doomed,
           TokensInv, RequestOnly, RequestAt(q, Chain(pc, token, at, reasons, doomed)),
           pc \in {"escrow", "ancestors", "verdict", "revoke"},
           pc \in {"escrow", "ancestors"} /\ doomed = TRUE =>
              reasons = TRUE \/ \E a \in Line(at) \ {at} : Dead(dctToken[a]),
           pc = "verdict" /\ doomed = TRUE => reasons = TRUE
    PROVE  StepOK
<1> DEFINE r == Chain(pc, token, at, reasons, doomed)
<1>1. r.pc = pc /\ r.token = token /\ r.at = at /\ r.reasons = reasons /\ r.doomed = doomed
  BY ChainFields
<1>2. TableStep /\ clock' \in Nat /\ clock' >= clock
  BY UnchangedTable DEF TokensInv, RequestOnly
<1>3. dctToken' = dctToken /\ Line(at)' = Line(at) /\ \A k : Dead(k)' <=> Dead(k)
  BY DEF RequestOnly, Line, ParentClosed, Dead
<1> HIDE DEF r
<1>4. dctRequest'[q] = r => RequestOK(q)'
  BY <1>1, <1>3 DEF RequestOK
<1> QED
  BY <1>2, <1>4, OneRequestMoves DEF r, StepOK

\* The same while the chain is read.
LEMMA ReadingIsOK ==
    ASSUME NEW q \in AllRequests, NEW pc \in {"escrow", "ancestors"}, NEW token \in DOMAIN dctToken,
           NEW at \in DOMAIN dctToken, NEW reasons, NEW doomed,
           TokensInv, RequestOnly, RequestAt(q, Chain(pc, token, at, reasons, doomed)),
           doomed = TRUE => reasons = TRUE \/ \E a \in Line(at) \ {at} : Dead(dctToken[a])
    PROVE  StepOK
  BY ChainIsOK

\* The same when it has been read.
LEMMA VerdictIsOK ==
    ASSUME NEW q \in AllRequests, NEW token \in DOMAIN dctToken,
           NEW at \in DOMAIN dctToken, NEW reasons, NEW doomed,
           TokensInv, RequestOnly, RequestAt(q, Chain("verdict", token, at, reasons, doomed)),
           doomed = TRUE => reasons = TRUE
    PROVE  StepOK
  BY ChainIsOK

\* Mint asks for a root, by the buyer.
LEMMA MintChecksStep == ASSUME TokensInv, NEW q \in AllRequests, MintChecks(q) PROVE StepOK
<1>0. PICK asker \in Principals, subject \in Principals, grant \in Grants :
         \E issuer \in {subject} \cup NamedIssuers :
            Authorize("mint", asker, <<>>) /\ RequestAt(q, Insertion(Issue(0, subject, issuer, grant, asker)))
  BY DEF MintChecks
<1>1. PICK issuer \in {subject} \cup NamedIssuers :
         Authorize("mint", asker, <<>>) /\ RequestAt(q, Insertion(Issue(0, subject, issuer, grant, asker)))
  BY <1>0
<1> DEFINE k == Issue(0, subject, issuer, grant, asker)
<1>2. asker = Buyer /\ issuer \in Principals /\ grant.expires \in Nat
  BY <1>1, TokensAssumption DEF Authorize
<1>3. k.parent = 0 /\ k.by = Buyer
  BY <1>2 DEF Issue
<1>4. k \in Token
  BY <1>2 DEF Issue, Token
<1>5. Grounded(k, dctToken)
  BY <1>3 DEF Grounded
<1>6. UNCHANGED <<clock, escrowRow, dctToken>> /\ k.parent \in 0..Len(dctToken)
  BY <1>3 DEF MintChecks, TokensInv
<1> HIDE DEF k
<1> QED
  BY <1>1, <1>4, <1>5, <1>6, InsertionIsOK, UnchangedTable DEF StepOK, TokensInv, k

\* Delegate asks for a part of what its holder has.
LEMMA DelegateChecksStep == ASSUME TokensInv, NEW q \in AllRequests, DelegateChecks(q) PROVE StepOK
<1> DEFINE r == dctRequest[q]
           above == dctToken[r.token]
<1>1. PICK asker \in Principals, subject \in Principals, issuer \in {above.subject} \cup NamedIssuers,
           grant \in Grants :
         /\ Authorize("delegate", asker, above) /\ StrictAttenuation(grant, above)
         /\ RequestAt(q, Insertion(Issue(r.token, subject, issuer, grant, asker)))
  BY DEF DelegateChecks
<1> DEFINE k == Issue(r.token, subject, issuer, grant, asker)
<1>2. r.token \in DOMAIN dctToken
  BY DEF DelegateChecks, TokensInv, RequestOK, Requesting
<1>3. above \in Token /\ r.token \in 1..Len(dctToken) /\ Len(dctToken) \in Nat
  BY <1>2, ParentThere DEF TokensInv
<1>4. asker = above.subject /\ issuer \in Principals /\ grant.expires \in Nat
  BY <1>1, <1>3, TokensAssumption DEF Authorize, Token
<1>5. k.parent = r.token /\ k.by = asker /\ k.rights = grant.rights /\ k.expires = grant.expires
  BY DEF Issue
<1>6. k \in Token
  BY <1>3, <1>4 DEF Issue, Token
<1>7. StrictAttenuation(k, above)
  BY <1>1, <1>5 DEF StrictAttenuation
<1>8. Grounded(k, dctToken)
  BY <1>3, <1>4, <1>5, <1>7 DEF Grounded
<1>9. UNCHANGED <<clock, escrowRow, dctToken>> /\ k.parent \in 0..Len(dctToken)
  BY <1>3, <1>5 DEF DelegateChecks
<1> HIDE DEF k
<1> QED
  BY <1>1, <1>6, <1>8, <1>9, InsertionIsOK, UnchangedTable DEF StepOK, TokensInv, k

\* An introspection that begins is doomed by its own token, or by one above.
LEMMA IntrospectReadsStep == ASSUME TokensInv, NEW q \in AllRequests, IntrospectReads(q) PROVE StepOK
<1>1. PICK t \in DOMAIN dctToken :
         RequestAt(q, Chain("escrow", t, t, Dead(dctToken[t]), \E a \in Line(t) : Dead(dctToken[a])))
  BY DEF IntrospectReads
<1>2. (\E a \in Line(t) : Dead(dctToken[a])) =>
         Dead(dctToken[t]) \/ \E a \in Line(t) \ {t} : Dead(dctToken[a])
  OBVIOUS
<1>3. RequestOnly
  BY DEF IntrospectReads
<1> DEFINE dead == Dead(dctToken[t])
           doomed == \E a \in Line(t) : Dead(dctToken[a])
<1>4. doomed = TRUE => dead = TRUE \/ \E a \in Line(t) \ {t} : Dead(dctToken[a])
  BY <1>2
<1>5. RequestAt(q, Chain("escrow", t, t, dead, doomed)) /\ "escrow" \in {"escrow", "ancestors"}
  BY <1>1
<1> HIDE DEF dead, doomed
<1> QED
  BY <1>3, <1>4, <1>5, ReadingIsOK, Zenon

\* The escrow's row is one more reason.
LEMMA ChainReadsEscrowStep == ASSUME TokensInv, NEW q \in AllRequests, ChainReadsEscrow(q) PROVE StepOK
<1> DEFINE r == dctRequest[q]
           b == r.reasons \/ (escrowRow.frozen \/ escrowRow.status \in InactiveStatuses)
<1>1. RequestOnly /\ r.pc = "escrow" /\ RequestAt(q, Chain("ancestors", r.token, r.at, b, r.doomed))
  BY DEF ChainReadsEscrow, Requesting
<1>2. /\ r.token \in DOMAIN dctToken /\ r.at \in DOMAIN dctToken
      /\ r.doomed = TRUE => r.reasons = TRUE \/ \E a \in Line(r.at) \ {r.at} : Dead(dctToken[a])
  BY <1>1 DEF TokensInv, RequestOK
<1>3. r.reasons = TRUE => b = TRUE
  OBVIOUS
<1>4. "ancestors" \in {"escrow", "ancestors"}
  OBVIOUS
<1> HIDE DEF b
<1> QED
  BY <1>1, <1>2, <1>3, <1>4, ReadingIsOK, Zenon

\* A dead parent is a reason, and what is above it is still to come.
LEMMA ChainReadsParentStep == ASSUME TokensInv, NEW q \in AllRequests, ChainReadsParent(q) PROVE StepOK
<1> DEFINE r == dctRequest[q]
           child == dctToken[r.at]
           p == child.parent
           b == r.reasons \/ BadLink(child, dctToken[p])
<1>1. /\ RequestOnly /\ r.pc = "ancestors" /\ p # 0
      /\ RequestAt(q, Chain("ancestors", r.token, p, b, r.doomed))
  BY DEF ChainReadsParent, Requesting
<1>2. /\ r.token \in DOMAIN dctToken /\ r.at \in DOMAIN dctToken
      /\ r.doomed = TRUE => r.reasons = TRUE \/ \E a \in Line(r.at) \ {r.at} : Dead(dctToken[a])
  BY <1>1 DEF TokensInv, RequestOK
<1>3. p \in DOMAIN dctToken /\ Line(r.at) \subseteq {r.at} \cup Line(p)
  BY <1>1, <1>2, ParentThere, LineOfChild DEF TokensInv
<1>4. /\ r.reasons = TRUE => b = TRUE
      /\ Dead(dctToken[p]) => b = TRUE
  BY DEF BadLink
<1>5. r.doomed = TRUE => b = TRUE \/ \E a \in Line(p) \ {p} : Dead(dctToken[a])
  BY <1>2, <1>3, <1>4
<1>6. "ancestors" \in {"escrow", "ancestors"}
  OBVIOUS
<1> HIDE DEF b
<1> QED
  BY <1>1, <1>2, <1>3, <1>5, <1>6, ReadingIsOK, Zenon

\* Above a root there is nothing.
LEMMA ChainReadsRootStep == ASSUME TokensInv, NEW q \in AllRequests, ChainReadsRoot(q) PROVE StepOK
<1> DEFINE r == dctRequest[q]
<1>1. /\ RequestOnly /\ r.pc = "ancestors" /\ dctToken[r.at].parent = 0
      /\ RequestAt(q, Chain("verdict", r.token, r.at, r.reasons, r.doomed))
  BY DEF ChainReadsRoot, Requesting
<1>2. /\ r.token \in DOMAIN dctToken /\ r.at \in DOMAIN dctToken
      /\ r.doomed = TRUE => r.reasons = TRUE \/ \E a \in Line(r.at) \ {r.at} : Dead(dctToken[a])
  BY <1>1 DEF TokensInv, RequestOK
<1>3. Line(r.at) \subseteq {r.at}
  BY <1>1, <1>2, LineOfChild DEF TokensInv
<1>4. r.doomed = TRUE => r.reasons = TRUE
  BY <1>2, <1>3
<1> QED
  BY <1>1, <1>2, <1>4, VerdictIsOK, Zenon

\* A revocation names a token that is there; an override names none.
LEMMA RevocationAskedStep ==
    ASSUME TokensInv, NEW q \in AllRequests, RevokeChecks(q) \/ OverrideChecks(q) PROVE StepOK
<1>1. CASE RevokeChecks(q)
  <2>1. PICK t \in DOMAIN dctToken : RequestAt(q, Chain("revoke", t, t, FALSE, FALSE))
    BY <1>1 DEF RevokeChecks
  <2>2. RequestOnly
    BY <1>1 DEF RevokeChecks
  <2> QED
    BY <2>1, <2>2, ChainIsOK
<1>2. CASE OverrideChecks(q)
  <2>1. RequestAt(q, Chain("override", 0, 0, FALSE, FALSE)) /\ RequestOnly
    BY <1>2 DEF OverrideChecks
  <2>2. Chain("override", 0, 0, FALSE, FALSE).pc = "override"
    BY DEF Chain
  <2>3. dctRequest'[q] = Chain("override", 0, 0, FALSE, FALSE) => RequestOK(q)'
    BY <2>2 DEF RequestOK
  <2>4. TableStep /\ clock' \in Nat /\ clock' >= clock
    BY <2>1, UnchangedTable DEF TokensInv, RequestOnly
  <2> QED
    BY <2>1, <2>3, <2>4, OneRequestMoves DEF StepOK
<1> QED
  BY <1>1, <1>2

\* A step of the table that ends its request.
LEMMA RequestEndsStep ==
    ASSUME TokensInv, NEW q \in AllRequests,
           InsertToken(q) \/ Revoke(q) \/ EmergencyOverride(q) \/ Introspected(q) \/ RequestFails(q)
    PROVE  StepOK
<1>1. UNCHANGED clock /\ RequestEnds(q)
  BY DEF InsertToken, Revoke, EmergencyOverride, Introspected, RequestFails, RequestOnly
<1>2. TableStep
  <2>1. CASE InsertToken(q)
    BY <2>1, InsertTable
  <2>2. CASE Revoke(q)
    <3>1. dctRequest[q].token \in DOMAIN dctToken
      BY <2>2 DEF Revoke, Requesting, TokensInv, RequestOK
    <3> QED
      BY <2>2, <3>1, RevokeTable DEF Revoke
  <2>3. CASE EmergencyOverride(q)
    BY <2>3, RevokeAllTable DEF EmergencyOverride
  <2>4. CASE Introspected(q) \/ RequestFails(q)
    BY <2>4, UnchangedTable DEF Introspected, RequestFails, RequestOnly
  <2> QED
    BY <2>1, <2>2, <2>3, <2>4
<1> QED
  BY <1>1, <1>2, EndIsOK DEF StepOK, TokensInv

\* A step of nobody's request.
LEMMA OthersStep ==
    ASSUME TokensInv, RowChanges \/ Tick \/ UNCHANGED tokenVars
    PROVE  StepOK
<1>1. clock \in Nat /\ dctRequest = [o \in AllRequests |-> dctRequest[o]]
  BY DEF TokensInv
<1>2. UNCHANGED dctRequest /\ clock' \in Nat /\ clock' >= clock
  <2>1. UNCHANGED dctRequest /\ clock' \in {clock, clock + 1}
    BY DEF RowChanges, Tick, tokenVars
  <2> QED
    BY <1>1, <2>1
<1>3. RevokeByEscrow \/ UNCHANGED dctToken
  BY DEF RowChanges, OthersWrite, Tick, tokenVars
<1>4. TableStep
  BY <1>3, UnchangedTable, RevokeAllTable
<1>5. \A o \in AllRequests : RequestOK(o)'
  BY <1>2, <1>4, RequestStays DEF TokensInv
<1> QED
  BY <1>1, <1>2, <1>4, <1>5 DEF StepOK

\* Every step is one of these.
LEMMA EveryStep == ASSUME TokensInv, [TokensNext]_tokenVars PROVE StepOK
<1>1. ASSUME NEW q \in TokenRequests, IssuingStep(q) PROVE StepOK
  BY <1>1, MintChecksStep, RequestEndsStep, IntrospectReadsStep, ChainReadsEscrowStep,
     ChainReadsParentStep, ChainReadsRootStep, DelegateChecksStep DEF IssuingStep, AllRequests
<1>2. ASSUME NEW q \in Revocations, RevokingStep(q) PROVE StepOK
  BY <1>2, RevocationAskedStep, RequestEndsStep DEF RevokingStep, AllRequests
<1>3. ASSUME NEW q \in AllRequests, RequestFails(q) PROVE StepOK
  BY <1>3, RequestEndsStep
<1> QED
  BY <1>1, <1>2, <1>3, OthersStep DEF TokensNext, AllRequests

\* The table stays in order.
LEMMA TableStaysInOrder ==
    ASSUME TokensInv, StepOK
    PROVE  TokensTypeOK' /\ \A t \in DOMAIN dctToken' : Grounded(dctToken'[t], dctToken')
<1>1. DOMAIN dctToken = 1..Len(dctToken) /\ Len(dctToken) \in Nat /\ TokensTypeOK
  BY DEF TokensInv
<1>2. /\ dctToken' \in Seq(Token) /\ DOMAIN dctToken' = 1..Len(dctToken')
      /\ Len(dctToken') \in {Len(dctToken), Len(dctToken) + 1}
  BY DEF StepOK, TableStep
<1>3. ASSUME NEW t \in DOMAIN dctToken'
      PROVE  dctToken'[t].parent < t /\ Grounded(dctToken'[t], dctToken')
  <2>1. CASE t \in DOMAIN dctToken
    <3>1. /\ KeptAs(dctToken[t], dctToken'[t]) /\ Grounded(dctToken[t], dctToken)
          /\ dctToken[t].parent < t /\ dctToken[t].parent \in Nat
      BY <2>1, TokensStay, ParentThere DEF TokensInv, StepOK
    <3>2. Grounded(dctToken[t], dctToken')
      BY <1>1, <2>1, <3>1, GroundedStays DEF StepOK
    <3> QED
      BY <3>1, <3>2 DEF KeptAs, Grounded, StrictAttenuation
  <2>2. CASE t \notin DOMAIN dctToken
    <3>1. t = Len(dctToken') /\ Len(dctToken') = Len(dctToken) + 1
      BY ONLY <1>1, <1>2, <1>3, <2>2, LastPlace, Zenon
    <3>2. PICK q \in AllRequests : dctRequest[q].pc = "insert" /\ dctToken'[t] = dctRequest[q].new
      BY <3>1 DEF StepOK, TableStep
    <3>3. dctRequest[q].new.parent \in 0..Len(dctToken) /\ Grounded(dctRequest[q].new, dctToken)
      BY <3>2 DEF TokensInv, RequestOK
    <3>4. Grounded(dctRequest[q].new, dctToken')
      BY <1>1, <3>3, GroundedStays DEF StepOK
    <3> QED
      BY <1>1, <3>1, <3>2, <3>3, <3>4
  <2> QED
    BY <2>1, <2>2
<1> QED
  BY <1>2, <1>3 DEF StepOK

-----------------------------------------------------------------------------
\* The invariant, and what follows.

\* Part of a part is a part.
LEMMA AttenuationChains ==
    ASSUME NEW k, NEW m, NEW p, k.expires \in Nat, m.expires \in Nat, p.expires \in Nat,
           StrictAttenuation(k, m), StrictAttenuation(m, p)
    PROVE  StrictAttenuation(k, p)
<1>1. k.rights \subseteq p.rights
  BY DEF StrictAttenuation
<1>2. k.expires <= p.expires
  BY DEF StrictAttenuation
<1>3. CASE k.expires < m.expires
  <2>1. k.expires < p.expires
    BY <1>3 DEF StrictAttenuation
  <2> QED
    BY <1>1, <1>2, <2>1 DEF StrictAttenuation
<1>4. CASE k.rights # m.rights
  <2>1. k.rights # p.rights
    BY <1>4, Zenon DEF StrictAttenuation
  <2> QED
    BY <1>1, <1>2, <2>1 DEF StrictAttenuation
<1> QED
  BY <1>3, <1>4 DEF StrictAttenuation

\* Of every behaviour of the token service.
LEMMA TokensAlways == TokensSpec => []TokensInv
<1>1. TokensInit => TokensInv
  <2> SUFFICES ASSUME TokensInit PROVE TokensInv
    OBVIOUS
  <2>1. dctToken = << >> /\ DOMAIN dctToken = {} /\ dctToken \in Seq(Token) /\ clock = 0
    BY DEF TokensInit
  <2>2. dctRequest = [q \in AllRequests |-> NoRequest] /\ NoRequest.pc = "idle"
    BY DEF TokensInit, AllRequests, NoRequest, Chain
  <2> QED
    BY <2>1, <2>2 DEF TokensInv, RequestOK
<1>2. TokensInv /\ [TokensNext]_tokenVars => TokensInv'
  BY EveryStep, TableStaysInOrder DEF TokensInv, StepOK
<1> QED
  BY <1>1, <1>2, PTL DEF TokensSpec

\* TokensTypeOK, for any principals and any number of tokens and requests: in
\* the table a parent is always older than its child, which is what ends the
\* loop of validateChain.
THEOREM TokensWellFormed == TokensSpec => []TokensTypeOK
  BY TokensAlways, PTL DEF TokensInv

\* GrantsAuthorized: a root was asked for by the buyer, a child by the holder of
\* its parent, however decisions and insertions of many requests interleave
\* (Mint, Delegate, LogAuthzDecision).
THEOREM GrantsAlwaysAuthorized == TokensSpec => []GrantsAuthorized
<1>1. TokensInv => GrantsAuthorized
  BY ParentThere DEF TokensInv, Grounded, GrantsAuthorized
<1> QED
  BY <1>1, TokensAlways, PTL

\* ChainAttenuates: down a chain of any length, rights and time only shrink
\* (Delegate, strictAttenuation).  All that a token attenuates, itself included,
\* is closed under parents.
THEOREM ChainsAlwaysAttenuate == TokensSpec => []ChainAttenuates
<1>1. ASSUME TokensInv PROVE ChainAttenuates
  <2> SUFFICES ASSUME NEW t \in DOMAIN dctToken, NEW a \in Line(t) \ {t}
               PROVE  StrictAttenuation(dctToken[t], dctToken[a])
    BY DEF ChainAttenuates, StrictAttenuation
  <2> DEFINE S == {o \in DOMAIN dctToken : o = t \/ StrictAttenuation(dctToken[t], dctToken[o])}
  <2>1. ASSUME NEW o \in S, dctToken[o].parent # 0
        PROVE  dctToken[o].parent \in S
    <3> DEFINE k == dctToken[t]
               m == dctToken[o]
               p == dctToken[dctToken[o].parent]
    <3>1. m.parent \in DOMAIN dctToken /\ k \in Token /\ m \in Token /\ p \in Token
      BY <1>1, <2>1, ParentThere DEF TokensInv
    <3>2. StrictAttenuation(m, p)
      BY <1>1, <2>1 DEF TokensInv, Grounded
    <3>3. k.expires \in Nat /\ m.expires \in Nat /\ p.expires \in Nat
      BY <3>1 DEF Token
    <3>4. o = t \/ StrictAttenuation(k, m)
      OBVIOUS
    <3> HIDE DEF k, m, p
    <3>5. StrictAttenuation(k, p)
      <4>1. CASE o = t
        BY <3>2, <4>1 DEF k, m
      <4>2. CASE StrictAttenuation(k, m)
        BY <3>2, <3>3, <4>2, AttenuationChains
      <4> QED
        BY <3>4, <4>1, <4>2
    <3> QED
      BY <3>1, <3>5 DEF k, m, p
  <2>2. ParentClosed(S) /\ t \in S /\ S \in SUBSET DOMAIN dctToken
    BY <2>1 DEF ParentClosed
  <2> QED
    BY <2>2 DEF Line
<1> QED
  BY <1>1, TokensAlways, PTL

\* VerdictsCurrent: no verdict "active" of a chain with a token that was revoked
\* or had expired before the request came, although the chain is read link by
\* link while others write (Introspect, validateChain): what was dead when the
\* request came is still ahead, or has given its reason.
THEOREM VerdictsAlwaysCurrent == TokensSpec => []VerdictsCurrent
<1>1. TokensInv => VerdictsCurrent
  BY DEF TokensInv, RequestOK, AllRequests, VerdictsCurrent, Requesting
<1> QED
  BY <1>1, TokensAlways, PTL

\* RevokedForGood: no step takes a revocation back, and none changes what a
\* token grants (RevokeDCTToken, RevokeDCTTokensByEscrow, CreateDCTToken).
THEOREM RevocationsStand == TokensSpec => RevokedForGood
<1>1. TokensInv /\ [TokensNext]_tokenVars =>
        \A t \in DOMAIN dctToken :
          /\ t \in DOMAIN dctToken'
          /\ dctToken[t].revoked => dctToken'[t] = dctToken[t]
          /\ [dctToken'[t] EXCEPT !.revoked = FALSE] = [dctToken[t] EXCEPT !.revoked = FALSE]
  BY EveryStep, TokensStay DEF StepOK, TokensInv, KeptAs
<1> QED
  BY <1>1, TokensAlways, PTL DEF TokensSpec, RevokedForGood
=============================================================================
