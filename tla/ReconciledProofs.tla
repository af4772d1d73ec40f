-------------------------- MODULE ReconciledProofs --------------------------
\* What the indexer is for: when nothing is under way, the database says what the
\* chain says.  The chain is a story told by its logs (what the last log of a
\* subject says, or the first that ends the escrow); the tables hold what the logs
\* they have taken up say; and all of the logs are taken up in the end.
EXTENDS IndexerProofs

-----------------------------------------------------------------------------
\* What a sequence of logs says, and says last, of one subject: a set C of
\* events; D is what it may say.

Word(r) == [from |-> r.from, name |-> r.name, arg |-> r.arg]
Mute(s, C) == \A k \in 1..Len(s) : Word(s[k]) \notin C
LastIn(s, C, D) ==
    \E k \in 1..Len(s) : Word(s[k]) \in D /\ \A j \in 1..Len(s) : j > k => Word(s[j]) \notin C
FirstIn(s, C, D) ==
    \E k \in 1..Len(s) : Word(s[k]) \in D /\ \A j \in 1..Len(s) : j < k => Word(s[j]) \notin C

LEMMA Parts ==
    ASSUME NEW S, NEW s \in Seq(S), NEW t \in Seq(S)
    PROVE  /\ s \o t \in Seq(S) /\ Len(s \o t) = Len(s) + Len(t) /\ Len(s) \in Nat /\ Len(t) \in Nat
           /\ \A i \in 1..Len(s) : (s \o t)[i] = s[i] /\ i \in 1..Len(s) + Len(t)
           /\ \A i \in 1..Len(t) : (s \o t)[Len(s) + i] = t[i] /\ Len(s) + i \in 1..Len(s) + Len(t)
           /\ \A i \in 1..Len(s) + Len(t) : i \in 1..Len(s) \/ (i - Len(s) \in 1..Len(t) /\ i = Len(s) + (i - Len(s)))
<1>1. /\ s \o t \in Seq(S) /\ Len(s \o t) = Len(s) + Len(t) /\ Len(s) \in Nat /\ Len(t) \in Nat
      /\ \A i \in 1..Len(s) + Len(t) : (s \o t)[i] = IF i <= Len(s) THEN s[i] ELSE t[i - Len(s)]
  BY ConcatProperties
<1>2. \A i \in 1..Len(t) : (Len(s) + i) - Len(s) = i /\ ~(Len(s) + i <= Len(s)) /\ Len(s) + i \in 1..Len(s) + Len(t)
  BY <1>1
<1>3. \A i \in 1..Len(t) : (s \o t)[Len(s) + i] = t[i]
  <2> SUFFICES ASSUME NEW i \in 1..Len(t) PROVE (s \o t)[Len(s) + i] = t[i]
    OBVIOUS
  <2>1. (s \o t)[Len(s) + i] = t[(Len(s) + i) - Len(s)]
    BY <1>1, <1>2
  <2> QED
    BY <1>2, <2>1
<1> QED
  BY <1>1, <1>2, <1>3

\* A sequence that is said after another.
LEMMA SaidAfter ==
    ASSUME NEW S, NEW s \in Seq(S), NEW t \in Seq(S), NEW C, NEW D
    PROVE  /\ Mute(s, C) /\ Mute(t, C) => Mute(s \o t, C)
           /\ LastIn(t, C, D) => LastIn(s \o t, C, D)
           /\ LastIn(s, C, D) /\ Mute(t, C) => LastIn(s \o t, C, D)
           /\ FirstIn(s, C, D) => FirstIn(s \o t, C, D)
           /\ Mute(s, C) /\ FirstIn(t, C, D) => FirstIn(s \o t, C, D)
<1> DEFINE w == s \o t
           m == Len(s)
<1>1. /\ Len(w) = m + Len(t) /\ m \in Nat /\ Len(t) \in Nat
      /\ \A i \in 1..m : w[i] = s[i] /\ i \in 1..Len(w)
      /\ \A i \in 1..Len(t) : w[m + i] = t[i] /\ m + i \in 1..Len(w)
      /\ \A i \in 1..Len(w) : i \in 1..m \/ (i - m \in 1..Len(t) /\ i = m + (i - m))
  BY Parts
<1> HIDE DEF w, m
<1>2. ASSUME Mute(s, C), Mute(t, C) PROVE Mute(w, C)
  <2> SUFFICES ASSUME NEW i \in 1..Len(w) PROVE Word(w[i]) \notin C
    BY DEF Mute
  <2>1. CASE i \in 1..m
    BY <1>1, <1>2, <2>1 DEF Mute, m
  <2>2. CASE i - m \in 1..Len(t) /\ i = m + (i - m)
    <3>1. w[i] = t[i - m]
      BY <1>1, <2>2
    <3> QED
      BY <1>2, <2>2, <3>1 DEF Mute
  <2> QED
    BY <1>1, <2>1, <2>2
<1>3. ASSUME LastIn(t, C, D) PROVE LastIn(w, C, D)
  <2>1. PICK k \in 1..Len(t) : Word(t[k]) \in D /\ \A j \in 1..Len(t) : j > k => Word(t[j]) \notin C
    BY <1>3 DEF LastIn
  <2>2. m + k \in 1..Len(w) /\ w[m + k] = t[k]
    BY <1>1
  <2>3. ASSUME NEW j \in 1..Len(w), j > m + k PROVE Word(w[j]) \notin C
    <3>1. j - m \in 1..Len(t) /\ j - m > k /\ w[m + (j - m)] = t[j - m] /\ j = m + (j - m)
      BY <1>1, <2>3
    <3>2. w[j] = t[j - m]
      BY <3>1
    <3> QED
      BY <2>1, <3>1, <3>2
  <2> QED
    BY <2>1, <2>2, <2>3 DEF LastIn
<1>4. ASSUME LastIn(s, C, D), Mute(t, C) PROVE LastIn(w, C, D)
  <2>1. PICK k \in 1..m : Word(s[k]) \in D /\ \A j \in 1..m : j > k => Word(s[j]) \notin C
    BY <1>4 DEF LastIn, m
  <2>2. k \in 1..Len(w) /\ w[k] = s[k]
    BY <1>1
  <2>3. ASSUME NEW j \in 1..Len(w), j > k PROVE Word(w[j]) \notin C
    <3>1. CASE j \in 1..m
      BY <1>1, <2>1, <2>3, <3>1
    <3>2. CASE j - m \in 1..Len(t) /\ j = m + (j - m)
      <4>1. w[j] = t[j - m]
        BY <1>1, <3>2
      <4> QED
        BY <1>4, <3>2, <4>1 DEF Mute
    <3> QED
      BY <1>1, <3>1, <3>2
  <2> QED
    BY <2>1, <2>2, <2>3 DEF LastIn
<1>5. ASSUME FirstIn(s, C, D) PROVE FirstIn(w, C, D)
  <2>1. PICK k \in 1..m : Word(s[k]) \in D /\ \A j \in 1..m : j < k => Word(s[j]) \notin C
    BY <1>5 DEF FirstIn, m
  <2>2. k \in 1..Len(w) /\ w[k] = s[k]
    BY <1>1
  <2>3. ASSUME NEW j \in 1..Len(w), j < k PROVE Word(w[j]) \notin C
    <3>1. j \in 1..m
      BY <1>1, <2>3
    <3> QED
      BY <1>1, <2>1, <2>3, <3>1
  <2> QED
    BY <2>1, <2>2, <2>3 DEF FirstIn
<1>6. ASSUME Mute(s, C), FirstIn(t, C, D) PROVE FirstIn(w, C, D)
  <2>1. PICK k \in 1..Len(t) : Word(t[k]) \in D /\ \A j \in 1..Len(t) : j < k => Word(t[j]) \notin C
    BY <1>6 DEF FirstIn
  <2>2. m + k \in 1..Len(w) /\ w[m + k] = t[k]
    BY <1>1
  <2>3. ASSUME NEW j \in 1..Len(w), j < m + k PROVE Word(w[j]) \notin C
    <3>1. CASE j \in 1..m
      BY <1>1, <1>6, <3>1 DEF Mute, m
    <3>2. CASE j - m \in 1..Len(t) /\ j = m + (j - m)
      <4>1. w[j] = t[j - m] /\ j - m < k
        BY <1>1, <2>3, <3>2
      <4> QED
        BY <2>1, <3>2, <4>1
    <3> QED
      BY <1>1, <3>1, <3>2
  <2> QED
    BY <2>1, <2>2, <2>3 DEF FirstIn
<1> QED
  BY <1>2, <1>3, <1>4, <1>5, <1>6 DEF w

\* One or two events.
LEMMA SaidAlone ==
    ASSUME NEW e, NEW f, NEW C, NEW D
    PROVE  /\ Word(e) \notin C => Mute(<<e>>, C)
           /\ Word(e) \in D => LastIn(<<e>>, C, D) /\ FirstIn(<<e>>, C, D)
           /\ Word(e) \notin C /\ Word(f) \notin C => Mute(<<e, f>>, C)
           /\ Word(f) \in D => LastIn(<<e, f>>, C, D)
           /\ Word(e) \in D /\ Word(f) \notin C => LastIn(<<e, f>>, C, D)
           /\ Word(e) \in D => FirstIn(<<e, f>>, C, D)
           /\ Word(e) \notin C /\ Word(f) \in D => FirstIn(<<e, f>>, C, D)
<1>1. Len(<<e>>) = 1 /\ <<e>>[1] = e /\ Len(<<e, f>>) = 2 /\ <<e, f>>[1] = e /\ <<e, f>>[2] = f
  OBVIOUS
<1>2. 1..1 = {1} /\ 1..2 = {1, 2}
  OBVIOUS
<1>3. Word(e) \notin C => Mute(<<e>>, C)
  BY <1>1, <1>2 DEF Mute
<1>4. Word(e) \in D => LastIn(<<e>>, C, D) /\ FirstIn(<<e>>, C, D)
  BY <1>1, <1>2 DEF LastIn, FirstIn
<1>5. Word(e) \notin C /\ Word(f) \notin C => Mute(<<e, f>>, C)
  BY <1>1, <1>2 DEF Mute
<1>6. Word(f) \in D => LastIn(<<e, f>>, C, D)
  BY <1>1, <1>2 DEF LastIn
<1>7. Word(e) \in D /\ Word(f) \notin C => LastIn(<<e, f>>, C, D)
  BY <1>1, <1>2 DEF LastIn
<1>8. Word(e) \in D => FirstIn(<<e, f>>, C, D)
  BY <1>1, <1>2 DEF FirstIn
<1>9. Word(e) \notin C /\ Word(f) \in D => FirstIn(<<e, f>>, C, D)
  BY <1>1, <1>2 DEF FirstIn
<1> QED
  BY <1>3, <1>4, <1>5, <1>6, <1>7, <1>8, <1>9

\* A narrower subject; and what is said last, or first, is one thing.
LEMMA SaidOnce ==
    ASSUME NEW s, Len(s) \in Nat, NEW C, NEW D, NEW B, NEW E
    PROVE  /\ B \subseteq C /\ Mute(s, C) => Mute(s, B)
           /\ D \subseteq C /\ Mute(s, C) => ~LastIn(s, C, D) /\ ~FirstIn(s, C, D)
           /\ D \subseteq C /\ E \subseteq C /\ LastIn(s, C, D) /\ LastIn(s, C, E) => D \cap E # {}
           /\ D \subseteq C /\ E \subseteq C /\ FirstIn(s, C, D) /\ FirstIn(s, C, E) => D \cap E # {}
<1>1. B \subseteq C /\ Mute(s, C) => Mute(s, B)
  BY DEF Mute
<1>2. D \subseteq C /\ Mute(s, C) => ~LastIn(s, C, D) /\ ~FirstIn(s, C, D)
  BY DEF Mute, LastIn, FirstIn
<1>3. ASSUME D \subseteq C, E \subseteq C, LastIn(s, C, D), LastIn(s, C, E) PROVE D \cap E # {}
  <2>1. PICK k \in 1..Len(s) : Word(s[k]) \in D /\ \A j \in 1..Len(s) : j > k => Word(s[j]) \notin C
    BY <1>3 DEF LastIn
  <2>2. PICK n \in 1..Len(s) : Word(s[n]) \in E /\ \A j \in 1..Len(s) : j > n => Word(s[j]) \notin C
    BY <1>3 DEF LastIn
  <2>3. ~(k > n) /\ ~(n > k)
    BY <1>3, <2>1, <2>2
  <2>4. k = n
    BY <2>3
  <2> QED
    BY <2>1, <2>2, <2>4
<1>4. ASSUME D \subseteq C, E \subseteq C, FirstIn(s, C, D), FirstIn(s, C, E) PROVE D \cap E # {}
  <2>1. PICK k \in 1..Len(s) : Word(s[k]) \in D /\ \A j \in 1..Len(s) : j < k => Word(s[j]) \notin C
    BY <1>4 DEF FirstIn
  <2>2. PICK n \in 1..Len(s) : Word(s[n]) \in E /\ \A j \in 1..Len(s) : j < n => Word(s[j]) \notin C
    BY <1>4 DEF FirstIn
  <2>3. ~(k < n) /\ ~(n < k)
    BY <1>4, <2>1, <2>2
  <2>4. k = n
    BY <2>3
  <2> QED
    BY <2>1, <2>2, <2>4
<1> QED
  BY <1>1, <1>2, <1>3, <1>4

\* A transaction's events after the log.
LEMMA SaidNow ==
    ASSUME log \in Seq(Logs), head \in Nat, NEW events \in Seq(AllEvents), Adds(events), NEW C, NEW D
    PROVE  /\ Mute(log, C) /\ Mute(events, C) => Mute(log', C)
           /\ LastIn(events, C, D) => LastIn(log', C, D)
           /\ LastIn(log, C, D) /\ Mute(events, C) => LastIn(log', C, D)
           /\ FirstIn(log, C, D) => FirstIn(log', C, D)
           /\ Mute(log, C) /\ FirstIn(events, C, D) => FirstIn(log', C, D)
<1> DEFINE new == [i \in 1..Len(events) |-> [block |-> head + 1, from |-> events[i].from,
                                             name |-> events[i].name, arg |-> events[i].arg]]
<1>1. Len(events) \in Nat /\ \A i \in 1..Len(events) : events[i] \in AllEvents
  OBVIOUS
<1>2. \A i \in 1..Len(events) : new[i] \in Logs
  BY <1>1, EventSets DEF Logs
<1>3. new \in Seq(Logs) /\ Len(new) = Len(events)
  BY <1>1, <1>2
<1>4. log' = log \o new
  BY DEF Adds
<1>5. \A i \in 1..Len(events) : Word(new[i]) = Word(events[i])
  BY DEF Word
<1> HIDE DEF new
<1>6. (Mute(events, C) => Mute(new, C)) /\ (LastIn(events, C, D) => LastIn(new, C, D))
      /\ (FirstIn(events, C, D) => FirstIn(new, C, D))
  BY <1>3, <1>5 DEF Mute, LastIn, FirstIn
<1> QED
  BY <1>3, <1>4, <1>6, SaidAfter

-----------------------------------------------------------------------------
\* What a value is said to be: the last event of the subject says it, or there
\* is none and it is one of the values to begin with.

Saying(C, eff, x) == {w \in C : eff[w.name] = x}
Tells(s, C, eff, x, X) == (Mute(s, C) /\ x \in X) \/ LastIn(s, C, Saying(C, eff, x))
SaidOf(s, C, eff, x, y) == (Mute(s, C) /\ y = x) \/ LastIn(s, C, Saying(C, eff, y))

LEMMA TellsOn ==
    ASSUME log \in Seq(Logs), head \in Nat, NEW events \in Seq(AllEvents), Adds(events),
           NEW C, NEW eff, NEW x, NEW y, NEW X,
           Tells(log, C, eff, x, X), SaidOf(events, C, eff, x, y)
    PROVE  Tells(log', C, eff, y, X)
<1>1. CASE LastIn(events, C, Saying(C, eff, y))
  BY <1>1, SaidNow DEF Tells
<1>2. CASE Mute(events, C) /\ y = x
  <2>1. (Mute(log, C) => Mute(log', C)) /\ (LastIn(log, C, Saying(C, eff, x)) => LastIn(log', C, Saying(C, eff, x)))
    BY <1>2, SaidNow
  <2> QED
    BY <1>2, <2>1 DEF Tells
<1> QED
  BY <1>1, <1>2 DEF SaidOf

LEMMA TellsAgree ==
    ASSUME NEW s, Len(s) \in Nat, NEW C, NEW eff, NEW x, NEW X, NEW y, NEW Y,
           Tells(s, C, eff, x, X), Tells(s, C, eff, y, Y)
    PROVE  x = y \/ (x \in X /\ y \in Y)
<1>1. Saying(C, eff, x) \subseteq C /\ Saying(C, eff, y) \subseteq C
  BY DEF Saying
<1>2. CASE Mute(s, C)
  BY <1>1, <1>2, SaidOnce DEF Tells
<1>3. CASE LastIn(s, C, Saying(C, eff, x)) /\ LastIn(s, C, Saying(C, eff, y))
  <2>1. Saying(C, eff, x) \cap Saying(C, eff, y) # {}
    BY <1>1, <1>3, SaidOnce
  <2> QED
    BY <2>1 DEF Saying
<1> QED
  BY <1>2, <1>3 DEF Tells

-----------------------------------------------------------------------------
\* The subjects, and what the events say of them.

FreezeNames == {"EmergencyFrozen", "EmergencyUnfrozen"}
TwinNames == {"EscrowFrozen", "EscrowUnfrozen"}
OpenNames == {"EscrowFunded", "SubmissionMade", "Approved", "Disputed", "SilenceEscalated", "DisputeResolved"}
TerminalNames == {"Settled", "Refunded", "Cancelled", "ArbitratorTimeoutClaimed", "RemainingMilestonesAborted"}
MilestoneNames == DOMAIN MilestoneEventStatus
Abort == "RemainingMilestonesAborted"

Freezes == Events("escrow", FreezeNames)
Backups == Events("escrow", {"BackupActivated"})
Bars == Events("factory", BarNames)
Opens == Events("escrow", OpenNames)
Terminals == Events("escrow", TerminalNames)
Aborts == Events("escrow", {Abort})
Concerning(i) == [from : {"escrow"}, name : MilestoneNames, arg : {i}]
                   \cup [from : {"escrow"}, name : {Abort}, arg : 0..i]

FreezeEffect == [EmergencyFrozen |-> TRUE, EmergencyUnfrozen |-> FALSE]
BackupEffect == [BackupActivated |-> TRUE]
BarEffect == [AddressFrozen |-> TRUE, AddressUnfrozen |-> FALSE]
EndEffect == [Settled |-> "settled", Refunded |-> "refunded", Cancelled |-> "cancelled",
              ArbitratorTimeoutClaimed |-> "refunded", RemainingMilestonesAborted |-> "refunded"]
MilestoneEffect == [name \in MilestoneNames \cup {Abort} |->
                      IF name = Abort THEN "cancelled" ELSE MilestoneEventStatus[name]]

Named(s, names) == \A k \in 1..Len(s) : s[k].name \in names
Twinned(s) == \A k \in 1..Len(s) : s[k].name \in TwinNames => \E j \in 1..Len(s) : Word(s[j]) \in Freezes
Placed(s) == \A k \in 1..Len(s) : s[k].name = Abort => s[k].arg \in Nat

LEMMA Unsaid ==
    ASSUME NEW s, NEW names, Named(s, names), NEW from, NEW topic, names \cap topic = {}
    PROVE  Mute(s, Events(from, topic))
  BY DEF Named, Mute, Word, Events

LEMMA Silences ==
    ASSUME NEW s, NEW names, Named(s, names)
    PROVE  /\ names \cap FreezeNames = {} => Mute(s, Freezes)
           /\ "BackupActivated" \notin names => Mute(s, Backups)
           /\ names \cap BarNames = {} => Mute(s, Bars)
           /\ names \cap OpenNames = {} => Mute(s, Opens)
           /\ names \cap TerminalNames = {} => Mute(s, Terminals)
           /\ Abort \notin names => Mute(s, Aborts) /\ Placed(s)
           /\ names \cap (MilestoneNames \cup {Abort}) = {} => \A i : Mute(s, Concerning(i))
           /\ names \cap TwinNames = {} => Twinned(s)
<1>1. names \cap FreezeNames = {} => Mute(s, Freezes)
  BY Unsaid DEF Freezes
<1>2. "BackupActivated" \notin names => Mute(s, Backups)
  BY Unsaid DEF Backups
<1>3. names \cap BarNames = {} => Mute(s, Bars)
  BY Unsaid DEF Bars
<1>4. names \cap OpenNames = {} => Mute(s, Opens)
  BY Unsaid DEF Opens
<1>5. names \cap TerminalNames = {} => Mute(s, Terminals)
  BY Unsaid DEF Terminals
<1>6. Abort \notin names => Mute(s, Aborts) /\ Placed(s)
  BY Unsaid DEF Aborts, Placed, Named
<1>7. names \cap (MilestoneNames \cup {Abort}) = {} => \A i : Mute(s, Concerning(i))
  BY DEF Named, Mute, Word, Concerning
<1>8. names \cap TwinNames = {} => Twinned(s)
  BY DEF Twinned, Named
<1> QED
  BY <1>1, <1>2, <1>3, <1>4, <1>5, <1>6, <1>7, <1>8

LEMMA NamedParts ==
    ASSUME NEW S, NEW s \in Seq(S), NEW t \in Seq(S), NEW names, NEW others, Named(s, names), Named(t, others)
    PROVE  Named(s \o t, names \cup others)
<1>1. /\ Len(s \o t) = Len(s) + Len(t)
      /\ \A i \in 1..Len(s) : (s \o t)[i] = s[i]
      /\ \A i \in 1..Len(t) : (s \o t)[Len(s) + i] = t[i]
      /\ \A i \in 1..Len(s) + Len(t) : i \in 1..Len(s) \/ (i - Len(s) \in 1..Len(t) /\ i = Len(s) + (i - Len(s)))
  BY Parts
<1> SUFFICES ASSUME NEW i \in 1..Len(s) + Len(t) PROVE (s \o t)[i].name \in names \cup others
  BY <1>1 DEF Named
<1>2. CASE i \in 1..Len(s)
  BY <1>1, <1>2 DEF Named
<1>3. CASE i - Len(s) \in 1..Len(t) /\ i = Len(s) + (i - Len(s))
  <2>1. (s \o t)[i] = t[i - Len(s)]
    BY <1>1, <1>3
  <2> QED
    BY <1>3, <2>1 DEF Named
<1> QED
  BY <1>1, <1>2, <1>3

LEMMA NamedShort ==
    ASSUME NEW e, NEW f
    PROVE  Named(<<e>>, {e.name}) /\ Named(<<e, f>>, {e.name, f.name})
<1>1. Len(<<e>>) = 1 /\ <<e>>[1] = e /\ Len(<<e, f>>) = 2 /\ <<e, f>>[1] = e /\ <<e, f>>[2] = f
  OBVIOUS
<1>2. 1..1 = {1} /\ 1..2 = {1, 2}
  OBVIOUS
<1> QED
  BY <1>1, <1>2 DEF Named

LEMMA NamedRest ==
    ASSUME OnchainOK
    PROVE  /\ Outcome \in Seq(AllEvents) /\ Named(Outcome, {"OutcomeRecorded"})
           /\ StakeSettled \in Seq(AllEvents) /\ Named(StakeSettled, {"Settled"})
<1>1. Outcome \in Seq(Reports) /\ StakeSettled \in Seq(Events("escrow", {"Settled"}))
  BY OutcomeReports, StakeLate
<1>2. \A e \in Reports : e.name = "OutcomeRecorded"
  BY DEF Reports
<1>3. \A e \in Events("escrow", {"Settled"}) : e.name = "Settled"
  BY DEF Events
<1>4. Reports \subseteq AllEvents /\ Events("escrow", {"Settled"}) \subseteq AllEvents
  BY EventSets, ReportsLate
<1>5. Outcome \in Seq(AllEvents) /\ StakeSettled \in Seq(AllEvents)
  BY <1>1, <1>4, SeqMonotonic
<1>6. Named(Outcome, {"OutcomeRecorded"})
  BY <1>1, <1>2, ElementOfSeq DEF Named
<1>7. Named(StakeSettled, {"Settled"})
  BY <1>1, <1>3, ElementOfSeq DEF Named
<1> QED
  BY <1>5, <1>6, <1>7

-----------------------------------------------------------------------------
\* What each transaction says.

ChainMilestone(o, s, i) ==
    IF i < o.ms \/ o.status = "settled" THEN "settled"
    ELSE IF ~Mute(s, Aborts) THEN "cancelled"
    ELSE IF i = o.ms THEN o.msStatus
    ELSE "pending"

OwnerSaid(ev) ==
    /\ SaidOf(ev, Freezes, FreezeEffect, onchain.frozen, onchain'.frozen)
    /\ SaidOf(ev, Backups, BackupEffect, onchain.backup, onchain'.backup)
    /\ SaidOf(ev, Bars, BarEffect, onchain.barred, onchain'.barred)
    /\ Twinned(ev)
SaysOpen(ev) == LastIn(ev, Opens, Saying(Opens, EventStatus, onchain'.status))
SaysEnd(ev) == FirstIn(ev, Terminals, Saying(Terminals, EndEffect, onchain'.status))
StatusSaid(ev) ==
    \/ onchain'.status = onchain.status /\ Mute(ev, Opens) /\ Mute(ev, Terminals)
    \/ {onchain.status, onchain'.status} \cap (Closed \cup {"none"}) = {} /\ SaysOpen(ev)
    \/ /\ onchain.status \notin Closed \cup {"none"} /\ onchain'.status \in Closed
       /\ SaysEnd(ev) \/ (onchain'.status = "settled" /\ Mute(ev, Terminals))
MilestoneSaid(ev, i) ==
    SaidOf(ev, Concerning(i), MilestoneEffect, ChainMilestone(onchain, log, i), ChainMilestone(onchain', log', i))
MilestonesSaid(ev) ==
    /\ onchain'.count = onchain.count /\ Placed(ev)
    /\ onchain.count > 1 => \A i \in 0..onchain.count - 1 : MilestoneSaid(ev, i)
Unborn(ev) == \A k \in 1..Len(ev) : ev[k].name # "EscrowCreated"
Spoken(ev) ==
    /\ ev \in Seq(AllEvents) /\ Adds(ev) /\ Unborn(ev)
    /\ OwnerSaid(ev) /\ StatusSaid(ev) /\ MilestonesSaid(ev)

LEMMA Effects ==
    /\ EventStatus["EscrowFunded"] = "funded" /\ EventStatus["SubmissionMade"] = "submitted"
    /\ EventStatus["Disputed"] = "disputed"
    /\ EndEffect["Settled"] = "settled" /\ EndEffect["Refunded"] = "refunded"
    /\ EndEffect["Cancelled"] = "cancelled" /\ EndEffect["ArbitratorTimeoutClaimed"] = "refunded"
    /\ EndEffect[Abort] = "refunded"
    /\ FreezeEffect["EmergencyFrozen"] = TRUE /\ FreezeEffect["EmergencyUnfrozen"] = FALSE
    /\ BackupEffect["BackupActivated"] = TRUE
    /\ BarEffect["AddressFrozen"] = TRUE /\ BarEffect["AddressUnfrozen"] = FALSE
<1>1. EventStatus["EscrowFunded"] = "funded" /\ EventStatus["SubmissionMade"] = "submitted"
      /\ EventStatus["Disputed"] = "disputed"
  BY DEF EventStatus
<1>2. /\ EndEffect["Settled"] = "settled" /\ EndEffect["Refunded"] = "refunded"
      /\ EndEffect["Cancelled"] = "cancelled" /\ EndEffect["ArbitratorTimeoutClaimed"] = "refunded"
      /\ EndEffect[Abort] = "refunded"
  BY DEF EndEffect, Abort
<1>3. FreezeEffect["EmergencyFrozen"] = TRUE /\ FreezeEffect["EmergencyUnfrozen"] = FALSE
  BY DEF FreezeEffect
<1>4. BackupEffect["BackupActivated"] = TRUE
  BY DEF BackupEffect
<1>5. BarEffect["AddressFrozen"] = TRUE /\ BarEffect["AddressUnfrozen"] = FALSE
  BY DEF BarEffect
<1> QED
  BY <1>1, <1>2, <1>3, <1>4, <1>5

LEMMA MilestoneEffects ==
    /\ MilestoneEffect["MilestoneSubmitted"] = "submitted" /\ MilestoneEffect["MilestoneDisputed"] = "disputed"
    /\ MilestoneEffect["MilestoneSettled"] = "settled" /\ MilestoneEffect["MilestoneCancelled"] = "cancelled"
    /\ MilestoneEffect[Abort] = "cancelled"
    /\ \A name \in MilestoneNames : MilestoneEffect[name] = MilestoneEventStatus[name]
    /\ MilestoneNames = {"MilestoneSubmitted", "MilestoneApproved", "MilestoneDisputed",
                         "MilestoneDisputeResolved", "MilestoneSettled", "MilestoneCancelled"}
    /\ Abort \notin MilestoneNames
<1>1. MilestoneNames = {"MilestoneSubmitted", "MilestoneApproved", "MilestoneDisputed",
                        "MilestoneDisputeResolved", "MilestoneSettled", "MilestoneCancelled"}
  BY DEF MilestoneNames, MilestoneEventStatus
<1>2. Abort \notin MilestoneNames
  BY <1>1 DEF Abort
<1>3. MilestoneEffect[Abort] = "cancelled"
      /\ \A name \in MilestoneNames : MilestoneEffect[name] = MilestoneEventStatus[name]
  BY <1>2 DEF MilestoneEffect
<1>4. /\ MilestoneEventStatus["MilestoneSubmitted"] = "submitted"
      /\ MilestoneEventStatus["MilestoneDisputed"] = "disputed"
      /\ MilestoneEventStatus["MilestoneSettled"] = "settled"
      /\ MilestoneEventStatus["MilestoneCancelled"] = "cancelled"
  BY DEF MilestoneEventStatus
<1> QED
  BY <1>1, <1>2, <1>3, <1>4

LEMMA Speaks ==
    ASSUME NEW arg \in Arguments
    PROVE  /\ \A name \in OpenNames :
                 Word(Escrow(name, arg)) \in Saying(Opens, EventStatus, EventStatus[name])
           /\ \A name \in TerminalNames :
                 Word(Escrow(name, arg)) \in Saying(Terminals, EndEffect, EndEffect[name])
           /\ \A name \in FreezeNames :
                 Word(Escrow(name, arg)) \in Saying(Freezes, FreezeEffect, FreezeEffect[name])
           /\ \A name \in {"BackupActivated"} :
                 Word(Escrow(name, arg)) \in Saying(Backups, BackupEffect, BackupEffect[name])
           /\ \A name \in BarNames :
                 Word(Factory(name, arg)) \in Saying(Bars, BarEffect, BarEffect[name])
           /\ \A name \in MilestoneNames :
                 Word(Escrow(name, arg)) \in Saying(Concerning(arg), MilestoneEffect, MilestoneEffect[name])
           /\ \A name \in PlainNames : name \notin TerminalNames => Word(Escrow(name, arg)) \notin Terminals
           /\ \A name \in TwinNames : Word(Factory(name, arg)) \notin Freezes
<1> DEFINE w(name) == [from |-> "escrow", name |-> name, arg |-> arg]
           v(name) == [from |-> "factory", name |-> name, arg |-> arg]
<1>1. \A name : /\ Word(Escrow(name, arg)) = w(name) /\ w(name).name = name /\ w(name).from = "escrow"
                /\ Word(Factory(name, arg)) = v(name) /\ v(name).name = name /\ v(name).from = "factory"
  BY DEF Word, Escrow, Factory
<1>2. \A name : \A names : /\ name \in names => w(name) \in Events("escrow", names) /\ v(name) \in Events("factory", names)
                           /\ name \notin names => w(name) \notin Events("escrow", names)
                           /\ v(name) \notin Events("escrow", names)
  BY DEF Events
<1>3. \A name \in MilestoneNames : w(name) \in Concerning(arg)
  BY DEF Concerning
<1> HIDE DEF w, v
<1>4. \A name \in OpenNames : Word(Escrow(name, arg)) \in Saying(Opens, EventStatus, EventStatus[name])
  BY <1>1, <1>2 DEF Saying, Opens
<1>5. \A name \in TerminalNames : Word(Escrow(name, arg)) \in Saying(Terminals, EndEffect, EndEffect[name])
  BY <1>1, <1>2 DEF Saying, Terminals
<1>6. \A name \in FreezeNames : Word(Escrow(name, arg)) \in Saying(Freezes, FreezeEffect, FreezeEffect[name])
  BY <1>1, <1>2 DEF Saying, Freezes
<1>7. \A name \in {"BackupActivated"} :
         Word(Escrow(name, arg)) \in Saying(Backups, BackupEffect, BackupEffect[name])
  BY <1>1, <1>2 DEF Saying, Backups
<1>8. \A name \in BarNames : Word(Factory(name, arg)) \in Saying(Bars, BarEffect, BarEffect[name])
  BY <1>1, <1>2 DEF Saying, Bars
<1>9. \A name \in MilestoneNames :
         Word(Escrow(name, arg)) \in Saying(Concerning(arg), MilestoneEffect, MilestoneEffect[name])
  BY <1>1, <1>3 DEF Saying
<1>10. /\ \A name \in PlainNames : name \notin TerminalNames => Word(Escrow(name, arg)) \notin Terminals
       /\ \A name \in TwinNames : Word(Factory(name, arg)) \notin Freezes
  BY <1>1, <1>2 DEF Terminals, Freezes
<1> QED
  BY <1>4, <1>5, <1>6, <1>7, <1>8, <1>9, <1>10

\* What was said stays said.
LEMMA StillSaid ==
    ASSUME ChainInv, NEW ev \in Seq(AllEvents), Adds(ev), NEW C
    PROVE  /\ Mute(log', C) => Mute(log, C) /\ Mute(ev, C)
           /\ Mute(log, C) /\ Mute(ev, C) => Mute(log', C)
<1>1. log \in Seq(Logs) /\ head \in Nat
  BY DEF ChainInv, LogOK
<1>2. /\ Len(log') = Len(log) + Len(ev) /\ Len(log) \in Nat /\ Len(ev) \in Nat
      /\ \A l \in 1..Len(log) : log'[l] = log[l]
      /\ \A i \in 1..Len(ev) : log'[Len(log) + i] = [block |-> head + 1, from |-> ev[i].from,
                                                     name |-> ev[i].name, arg |-> ev[i].arg]
  BY <1>1, LogGrows
<1>3. \A i \in 1..Len(ev) : Len(log) + i \in 1..Len(log') /\ Word(log'[Len(log) + i]) = Word(ev[i])
  <2> SUFFICES ASSUME NEW i \in 1..Len(ev)
               PROVE  Len(log) + i \in 1..Len(log') /\ Word(log'[Len(log) + i]) = Word(ev[i])
    OBVIOUS
  <2> DEFINE n == Len(log) + i
  <2>1. n \in 1..Len(log')
    BY <1>2
  <2>2. log'[n] = [block |-> head + 1, from |-> ev[i].from, name |-> ev[i].name, arg |-> ev[i].arg]
    BY <1>2
  <2> HIDE DEF n
  <2>3. Word(log'[n]) = Word(ev[i])
    BY <2>2 DEF Word
  <2> QED
    BY <2>1, <2>3 DEF n
<1>4. Mute(log', C) => Mute(log, C)
  BY <1>2 DEF Mute
<1>5. Mute(log', C) => Mute(ev, C)
  BY <1>3 DEF Mute
<1> QED
  BY <1>1, <1>4, <1>5, SaidNow

OwnerNames2 == FreezeNames \cup TwinNames \cup BarNames \cup {"BackupActivated"}

LEMMA OwnerSilent ==
    ASSUME NEW ev, NEW names, Named(ev, names), names \cap OwnerNames2 = {},
           onchain'.frozen = onchain.frozen, onchain'.backup = onchain.backup, onchain'.barred = onchain.barred
    PROVE  OwnerSaid(ev)
<1>1. names \cap FreezeNames = {} /\ names \cap TwinNames = {} /\ names \cap BarNames = {} /\ "BackupActivated" \notin names
  BY DEF OwnerNames2
<1>2. Mute(ev, Freezes) /\ Mute(ev, Backups) /\ Mute(ev, Bars) /\ Twinned(ev)
  BY <1>1, Silences
<1> QED
  BY <1>2 DEF OwnerSaid, SaidOf

LEMMA MilestonesSilent ==
    ASSUME ChainInv, NEW ev \in Seq(AllEvents), Adds(ev), NEW names, Named(ev, names),
           names \cap (MilestoneNames \cup {Abort}) = {},
           onchain'.count = onchain.count, onchain'.ms = onchain.ms, onchain'.msStatus = onchain.msStatus,
           (onchain'.status = "settled" <=> onchain.status = "settled") \/ ~(onchain.count > 1)
    PROVE  MilestonesSaid(ev)
<1>1. Mute(ev, Aborts) /\ Placed(ev) /\ \A i : Mute(ev, Concerning(i))
  BY Silences
<1>2. Mute(log', Aborts) <=> Mute(log, Aborts)
  BY <1>1, StillSaid
<1>3. ASSUME onchain.count > 1 PROVE \A i : ChainMilestone(onchain', log', i) = ChainMilestone(onchain, log, i)
  BY <1>2, <1>3 DEF ChainMilestone
<1> QED
  BY <1>1, <1>3 DEF MilestonesSaid, MilestoneSaid, SaidOf

\* The fields that most transactions leave alone.
LEMMA ToFields ==
    ASSUME OnchainOK, NEW x
    PROVE  /\ onchain' = To(x) =>
                /\ onchain'.status = x
                /\ onchain'.frozen = onchain.frozen /\ onchain'.backup = onchain.backup
                /\ onchain'.barred = onchain.barred /\ onchain'.count = onchain.count
                /\ onchain'.ms = onchain.ms /\ onchain'.msStatus = onchain.msStatus
           /\ onchain' = MilestoneTo(x) =>
                /\ onchain'.status = onchain.status
                /\ onchain'.frozen = onchain.frozen /\ onchain'.backup = onchain.backup
                /\ onchain'.barred = onchain.barred /\ onchain'.count = onchain.count
                /\ onchain'.ms = onchain.ms /\ onchain'.msStatus = x
<1>1. onchain' = To(x) =>
                /\ onchain'.status = x
                /\ onchain'.frozen = onchain.frozen /\ onchain'.backup = onchain.backup
                /\ onchain'.barred = onchain.barred /\ onchain'.count = onchain.count
                /\ onchain'.ms = onchain.ms /\ onchain'.msStatus = onchain.msStatus
  BY DEF OnchainOK, To
<1>2. onchain' = MilestoneTo(x) =>
                /\ onchain'.status = onchain.status
                /\ onchain'.frozen = onchain.frozen /\ onchain'.backup = onchain.backup
                /\ onchain'.barred = onchain.barred /\ onchain'.count = onchain.count
                /\ onchain'.ms = onchain.ms /\ onchain'.msStatus = x
  BY DEF OnchainOK, MilestoneTo
<1> QED
  BY <1>1, <1>2

\* Of a transaction that changes the status alone.
LEMMA Progress ==
    ASSUME ChainInv, NEW x, NEW ev \in Seq(AllEvents), Adds(ev), onchain' = To(x), NEW names, Named(ev, names),
           names \cap (OwnerNames2 \cup MilestoneNames \cup {Abort, "EscrowCreated"}) = {},
           x = "settled" => ~(onchain.count > 1), onchain.status # "settled", StatusSaid(ev)
    PROVE  Spoken(ev)
<1>1. /\ onchain'.status = x
      /\ onchain'.frozen = onchain.frozen /\ onchain'.backup = onchain.backup
      /\ onchain'.barred = onchain.barred /\ onchain'.count = onchain.count
      /\ onchain'.ms = onchain.ms /\ onchain'.msStatus = onchain.msStatus
  BY ToFields DEF ChainInv
<1>2. names \cap OwnerNames2 = {} /\ names \cap (MilestoneNames \cup {Abort}) = {} /\ "EscrowCreated" \notin names
  OBVIOUS
<1>3. OwnerSaid(ev)
  BY <1>1, <1>2, OwnerSilent
<1>4. MilestonesSaid(ev)
  BY <1>1, <1>2, MilestonesSilent
<1>5. Unborn(ev)
  BY <1>2 DEF Unborn, Named
<1> QED
  BY <1>3, <1>4, <1>5 DEF Spoken

NoTopic == OwnerNames2 \cup MilestoneNames \cup {Abort, "EscrowCreated"}

LEMMA TopicsApart ==
    /\ (OpenNames \cup {"Settled", "Refunded", "Cancelled", "ArbitratorTimeoutClaimed", "OutcomeRecorded",
                        "WorkerStakeDeposited", "EmergencyResolved"}) \cap NoTopic = {}
    /\ OpenNames \cap TerminalNames = {} /\ OpenNames \subseteq PlainNames
    /\ "OutcomeRecorded" \notin OpenNames \cup TerminalNames
    /\ "EmergencyResolved" \notin OpenNames \cup TerminalNames
  BY MilestoneEffects DEF OpenNames, NoTopic, OwnerNames2, FreezeNames, TwinNames, BarNames, Abort, TerminalNames,
     PlainNames

\* A status that is not the end.
LEMMA OpenSaid ==
    ASSUME ChainInv, NEW name \in OpenNames, NEW ev, ev = <<Escrow(name, "")>>, Adds(ev), onchain' = To(EventStatus[name]),
           {onchain.status, EventStatus[name]} \cap (Closed \cup {"none"}) = {}
    PROVE  Spoken(ev)
<1>1. ev \in Seq(AllEvents) /\ Named(ev, {name})
  <2>1. Escrow(name, "") \in AllEvents /\ Escrow(name, "").name = name
    BY EscrowEvents, TopicsApart, EventSets DEF Escrow
  <2>2. ev \in Seq(AllEvents)
    BY <2>1, Short
  <2>3. Named(ev, {Escrow(name, "").name})
    BY NamedShort
  <2> QED
    BY <2>1, <2>2, <2>3
<1>2. {name} \cap NoTopic = {}
  BY TopicsApart
<1>3. onchain'.status = EventStatus[name]
  BY ToFields DEF ChainInv
<1>4. SaysOpen(ev)
  <2>1. Word(Escrow(name, "")) \in Saying(Opens, EventStatus, EventStatus[name])
    BY Speaks DEF Arguments
  <2> QED
    BY <1>3, <2>1, SaidAlone DEF SaysOpen
<1>5. EventStatus[name] # "settled" /\ onchain.status # "settled"
  BY DEF Closed
<1>6. StatusSaid(ev)
  BY <1>3, <1>4 DEF StatusSaid
<1> QED
  BY <1>1, <1>2, <1>5, <1>6, Progress DEF NoTopic

LEMMA OpenSteps ==
    ASSUME ChainInv, Fund \/ Submit \/ Dispute
    PROVE  \E ev : Spoken(ev)
<1>1. CASE Fund
  <2>1. Adds(<<Escrow("EscrowFunded", "")>>) /\ onchain' = To("funded") /\ onchain.status = "created"
    BY <1>1, MinedAdds DEF Fund
  <2>2. {onchain.status, "funded"} \cap (Closed \cup {"none"}) = {} /\ "EscrowFunded" \in OpenNames
    BY <2>1 DEF Closed, OpenNames
  <2> QED
    BY <2>1, <2>2, OpenSaid, Effects
<1>2. CASE Submit
  <2>1. Adds(<<Escrow("SubmissionMade", "")>>) /\ onchain' = To("submitted") /\ onchain.status = "funded"
    BY <1>2, MinedAdds DEF Submit
  <2>2. {onchain.status, "submitted"} \cap (Closed \cup {"none"}) = {} /\ "SubmissionMade" \in OpenNames
    BY <2>1 DEF Closed, OpenNames
  <2> QED
    BY <2>1, <2>2, OpenSaid, Effects
<1>3. CASE Dispute
  <2>1. Adds(<<Escrow("Disputed", "")>>) /\ onchain' = To("disputed") /\ onchain.status = "submitted"
    BY <1>3, MinedAdds DEF Dispute
  <2>2. {onchain.status, "disputed"} \cap (Closed \cup {"none"}) = {} /\ "Disputed" \in OpenNames
    BY <2>1 DEF Closed, OpenNames
  <2> QED
    BY <2>1, <2>2, OpenSaid, Effects
<1> QED
  BY <1>1, <1>2, <1>3

LEMMA SilenceSaid ==
    ASSUME ChainInv, EscalateSilence
    PROVE  \E ev : Spoken(ev)
<1> DEFINE a == Escrow("SilenceEscalated", "")
           b == Escrow("Disputed", "")
           ev == <<a, b>>
<1>1. Adds(ev) /\ onchain' = To("disputed") /\ onchain.status = "submitted"
  BY MinedAdds DEF EscalateSilence
<1>2. {"SilenceEscalated", "Disputed"} \subseteq OpenNames
  BY DEF OpenNames
<1>3. a \in AllEvents /\ b \in AllEvents /\ a.name = "SilenceEscalated" /\ b.name = "Disputed"
  BY <1>2, EscrowEvents, TopicsApart, EventSets DEF Escrow
<1>4. Word(b) \in Saying(Opens, EventStatus, "disputed")
  <2>1. "" \in Arguments
    BY DEF Arguments
  <2> QED
    BY <1>2, <2>1, Speaks, Effects
<1> HIDE DEF a, b
<1>5. ev \in Seq(AllEvents) /\ Named(ev, {"SilenceEscalated", "Disputed"})
  BY <1>3, NamedShort, Short
<1>6. onchain'.status = "disputed"
  BY <1>1, ToFields DEF ChainInv
<1>7. SaysOpen(ev)
  BY <1>4, <1>6, SaidAlone DEF SaysOpen
<1>8. StatusSaid(ev)
  BY <1>1, <1>6, <1>7 DEF StatusSaid, Closed
<1> HIDE DEF ev
<1>9. {"SilenceEscalated", "Disputed"} \cap NoTopic = {}
  BY <1>2, TopicsApart
<1>10. Spoken(ev)
  BY <1>1, <1>5, <1>8, <1>9, Progress DEF NoTopic
<1> QED
  BY <1>10

\* The end of an escrow, one that is not of milestones or that is not settled.
LEMMA EndSaid ==
    ASSUME ChainInv, NEW name \in {"Settled", "Refunded", "Cancelled", "ArbitratorTimeoutClaimed"},
           NEW first \in Seq(AllEvents), NEW names, Named(first, names), names \cap NoTopic = {},
           FirstIn(first, Terminals, Saying(Terminals, EndEffect, EndEffect[name])),
           NEW ev, ev = first \/ ev = first \o Outcome, Adds(ev), onchain' = To(EndEffect[name]),
           onchain.status \notin Closed \cup {"none"}, EndEffect[name] \in Closed,
           EndEffect[name] = "settled" => ~(onchain.count > 1)
    PROVE  Spoken(ev)
<1>1. Outcome \in Seq(AllEvents) /\ Named(Outcome, {"OutcomeRecorded"})
  BY NamedRest DEF ChainInv
<1>2. ev \in Seq(AllEvents) /\ Named(ev, names \cup {"OutcomeRecorded"})
      /\ FirstIn(ev, Terminals, Saying(Terminals, EndEffect, EndEffect[name]))
  <2>1. CASE ev = first
    BY <2>1 DEF Named
  <2>2. CASE ev = first \o Outcome
    <3>1. FirstIn(ev, Terminals, Saying(Terminals, EndEffect, EndEffect[name]))
      BY <1>1, <2>2, SaidAfter
    <3>2. Named(ev, names \cup {"OutcomeRecorded"})
      BY <1>1, <2>2, NamedParts
    <3>3. ev \in Seq(AllEvents)
      BY <1>1, <2>2, ConcatProperties
    <3> QED
      BY <3>1, <3>2, <3>3
  <2> QED
    BY <2>1, <2>2
<1>3. onchain'.status = EndEffect[name]
  BY ToFields DEF ChainInv
<1>4. StatusSaid(ev)
  BY <1>2, <1>3 DEF StatusSaid, SaysEnd
<1>5. (names \cup {"OutcomeRecorded"}) \cap NoTopic = {}
  BY TopicsApart
<1>6. onchain.status # "settled"
  BY DEF Closed
<1> QED
  BY <1>2, <1>4, <1>5, <1>6, Progress DEF NoTopic

LEMMA EndsSpoken ==
    ASSUME ChainInv, Cancel \/ Approve \/ Resolve \/ ClaimTimeoutRefund \/ ClaimArbitratorTimeout
    PROVE  \E ev : Spoken(ev)
<1> DEFINE end(n) == Escrow(n, "")
           four == {"Settled", "Refunded", "Cancelled", "ArbitratorTimeoutClaimed"}
<1>1. "" \in Arguments /\ four \subseteq TerminalNames /\ four \subseteq EndingNames
  BY DEF Arguments, TerminalNames, EndingNames
<1>2. ASSUME NEW n \in four
      PROVE  end(n) \in AllEvents /\ end(n).name = n /\ Word(end(n)) \in Saying(Terminals, EndEffect, EndEffect[n])
  BY <1>1, <1>2, EscrowEvents, EventSets, Speaks DEF Escrow
<1>3. ASSUME NEW n \in {"Approved", "DisputeResolved"}
      PROVE  end(n) \in AllEvents /\ end(n).name = n /\ Word(end(n)) \notin Terminals
  <2>1. n \in PlainNames /\ n \notin TerminalNames
    BY <1>3 DEF PlainNames, TerminalNames
  <2> QED
    BY <1>1, <2>1, EscrowEvents, EventSets, Speaks DEF Escrow
<1>4. {"Approved", "DisputeResolved"} \subseteq OpenNames
  BY DEF OpenNames
<1>5. \A n \in {"Approved", "DisputeResolved"} \cup four : {n} \cap NoTopic = {}
  BY <1>4, TopicsApart
<1> HIDE DEF end
<1>6. ASSUME NEW n \in four
      PROVE  /\ <<end(n)>> \in Seq(AllEvents) /\ Named(<<end(n)>>, {n})
             /\ FirstIn(<<end(n)>>, Terminals, Saying(Terminals, EndEffect, EndEffect[n]))
  BY <1>2, NamedShort, SaidAlone, Short
<1>7. ASSUME NEW n \in four, NEW m \in {"Approved", "DisputeResolved"}
      PROVE  /\ <<end(m), end(n)>> \in Seq(AllEvents) /\ Named(<<end(m), end(n)>>, {m, n})
             /\ FirstIn(<<end(m), end(n)>>, Terminals, Saying(Terminals, EndEffect, EndEffect[n]))
  BY <1>2, <1>3, NamedShort, SaidAlone, Short
<1>8. CASE Cancel
  <2> DEFINE first == <<end("Cancelled")>>
  <2>1. Adds(first) /\ onchain' = To("cancelled") /\ onchain.status = "created"
    BY <1>8, MinedAdds DEF Cancel, end
  <2>2. {"Cancelled"} \cap NoTopic = {} /\ "Cancelled" \in four
    BY <1>5
  <2>3. first \in Seq(AllEvents) /\ Named(first, {"Cancelled"})
        /\ FirstIn(first, Terminals, Saying(Terminals, EndEffect, EndEffect["Cancelled"]))
    BY <1>6, <2>2
  <2> HIDE DEF first
  <2>4. onchain.status \notin Closed \cup {"none"} /\ "cancelled" \in Closed /\ "cancelled" # "settled"
    BY <2>1 DEF Closed
  <2>5. EndEffect["Cancelled"] = "cancelled"
    BY Effects
  <2> DEFINE ev == first
  <2>6. Spoken(ev)
    BY <2>1, <2>2, <2>3, <2>4, <2>5, EndSaid
  <2> QED
    BY <2>6
<1>9. CASE Approve
  <2> DEFINE first == <<end("Approved"), end("Settled")>>
  <2>1. Adds(first \o Outcome) /\ onchain' = To("settled") /\ onchain.status = "submitted" /\ onchain.count = 1
    BY <1>9, MinedAdds DEF Approve, end
  <2>2. {"Approved", "Settled"} \cap NoTopic = {} /\ "Settled" \in four
    BY <1>5
  <2>3. first \in Seq(AllEvents) /\ Named(first, {"Approved", "Settled"})
        /\ FirstIn(first, Terminals, Saying(Terminals, EndEffect, EndEffect["Settled"]))
    BY <1>7, <2>2
  <2> HIDE DEF first
  <2>4. onchain.status \notin Closed \cup {"none"} /\ "settled" \in Closed /\ ~(onchain.count > 1)
    BY <2>1 DEF Closed
  <2>5. EndEffect["Settled"] = "settled"
    BY Effects
  <2> DEFINE ev == first \o Outcome
  <2>6. Spoken(ev)
    BY <2>1, <2>2, <2>3, <2>4, <2>5, EndSaid
  <2> QED
    BY <2>6
<1>10. CASE Resolve
  <2> DEFINE first == <<end("DisputeResolved"), end("Settled")>>
  <2>1. Adds(first \o Outcome) /\ onchain' = To("settled") /\ onchain.status = "disputed" /\ onchain.count = 1
    BY <1>10, MinedAdds DEF Resolve, end
  <2>2. {"DisputeResolved", "Settled"} \cap NoTopic = {} /\ "Settled" \in four
    BY <1>5
  <2>3. first \in Seq(AllEvents) /\ Named(first, {"DisputeResolved", "Settled"})
        /\ FirstIn(first, Terminals, Saying(Terminals, EndEffect, EndEffect["Settled"]))
    BY <1>7, <2>2
  <2> HIDE DEF first
  <2>4. onchain.status \notin Closed \cup {"none"} /\ "settled" \in Closed /\ ~(onchain.count > 1)
    BY <2>1 DEF Closed
  <2>5. EndEffect["Settled"] = "settled"
    BY Effects
  <2> DEFINE ev == first \o Outcome
  <2>6. Spoken(ev)
    BY <2>1, <2>2, <2>3, <2>4, <2>5, EndSaid
  <2> QED
    BY <2>6
<1>11. CASE ClaimTimeoutRefund
  <2> DEFINE first == <<end("Refunded")>>
  <2>1. Adds(first \o Outcome) /\ onchain' = To("refunded") /\ onchain.status = "funded"
    BY <1>11, MinedAdds DEF ClaimTimeoutRefund, end
  <2>2. {"Refunded"} \cap NoTopic = {} /\ "Refunded" \in four
    BY <1>5
  <2>3. first \in Seq(AllEvents) /\ Named(first, {"Refunded"})
        /\ FirstIn(first, Terminals, Saying(Terminals, EndEffect, EndEffect["Refunded"]))
    BY <1>6, <2>2
  <2> HIDE DEF first
  <2>4. onchain.status \notin Closed \cup {"none"} /\ "refunded" \in Closed /\ "refunded" # "settled"
    BY <2>1 DEF Closed
  <2>5. EndEffect["Refunded"] = "refunded"
    BY Effects
  <2> DEFINE ev == first \o Outcome
  <2>6. Spoken(ev)
    BY <2>1, <2>2, <2>3, <2>4, <2>5, EndSaid
  <2> QED
    BY <2>6
<1>12. CASE ClaimArbitratorTimeout
  <2> DEFINE first == <<end("ArbitratorTimeoutClaimed"), end("Refunded")>>
  <2>1. Adds(first \o Outcome) /\ onchain' = To("refunded") /\ onchain.status = "disputed"
    BY <1>12, MinedAdds DEF ClaimArbitratorTimeout, end
  <2>2. {"ArbitratorTimeoutClaimed", "Refunded"} \cap NoTopic = {}
    BY <1>5
  <2>3. first \in Seq(AllEvents) /\ Named(first, {"ArbitratorTimeoutClaimed", "Refunded"})
        /\ FirstIn(first, Terminals, Saying(Terminals, EndEffect, "refunded"))
    BY <1>2, NamedShort, SaidAlone, Short, Effects
  <2> HIDE DEF first
  <2> QED
    BY <2>1, <2>2, <2>3, EndSaid, Effects DEF Closed
<1> QED
  BY <1>8, <1>9, <1>10, <1>11, <1>12

\* A transaction that is beside the status and the milestones.
LEMMA Aside ==
    ASSUME ChainInv, NEW ev \in Seq(AllEvents), Adds(ev), NEW names, Named(ev, names),
           names \cap (OpenNames \cup TerminalNames \cup MilestoneNames \cup {Abort, "EscrowCreated"}) = {},
           onchain'.status = onchain.status, onchain'.count = onchain.count, onchain'.ms = onchain.ms,
           onchain'.msStatus = onchain.msStatus, OwnerSaid(ev)
    PROVE  Spoken(ev)
<1>1. /\ names \cap OpenNames = {} /\ names \cap TerminalNames = {} /\ "EscrowCreated" \notin names
      /\ names \cap (MilestoneNames \cup {Abort}) = {}
  OBVIOUS
<1>2. Mute(ev, Opens) /\ Mute(ev, Terminals)
  BY <1>1, Silences
<1>3. StatusSaid(ev)
  BY <1>2 DEF StatusSaid
<1>4. MilestonesSaid(ev)
  BY <1>1, MilestonesSilent
<1>5. Unborn(ev)
  BY <1>1 DEF Unborn, Named
<1> QED
  BY <1>3, <1>4, <1>5 DEF Spoken

LEMMA AsidesApart ==
    /\ FreezeNames \cup TwinNames \cup BarNames \cup {"BackupActivated", "WorkerStakeDeposited"} \subseteq
          AllNames \ (OpenNames \cup TerminalNames \cup MilestoneNames \cup {Abort, "EscrowCreated"})
    /\ FreezeNames \cup {"BackupActivated", "WorkerStakeDeposited"} \subseteq PlainNames
    /\ TwinNames \cup BarNames \subseteq OwnerNames
    /\ "BackupActivated" \notin FreezeNames \cup TwinNames \cup BarNames
    /\ FreezeNames \cap BarNames = {} /\ FreezeNames \cap TwinNames = {} /\ TwinNames \cap BarNames = {}
    /\ "WorkerStakeDeposited" \notin FreezeNames \cup TwinNames
  BY MilestoneEffects DEF OpenNames, OwnerNames2, FreezeNames, TwinNames, BarNames, Abort, TerminalNames,
     PlainNames, OwnerNames, AllNames

LEMMA OneOfTwo == 1 \in 1..2
  OBVIOUS

LEMMA FreezeSaid ==
    ASSUME ChainInv, NEW name \in FreezeNames, NEW twin \in TwinNames,
           NEW ev, ev = <<Escrow(name, ""), Factory(twin, "")>>, Adds(ev),
           onchain'.frozen = FreezeEffect[name], onchain'.status = onchain.status, onchain'.count = onchain.count,
           onchain'.ms = onchain.ms, onchain'.msStatus = onchain.msStatus, onchain'.backup = onchain.backup,
           onchain'.barred = onchain.barred
    PROVE  Spoken(ev)
<1> DEFINE a == Escrow(name, "")
           b == Factory(twin, "")
<1>1. a \in AllEvents /\ b \in AllEvents /\ a.name = name /\ b.name = twin
  BY AsidesApart, EscrowEvents, EventSets DEF Escrow, Factory
<1>2. Word(a) \in Saying(Freezes, FreezeEffect, FreezeEffect[name]) /\ Word(b) \notin Freezes
  BY Speaks DEF Arguments
<1>3. ev = <<a, b>> /\ Named(<<a, b>>, {a.name, b.name})
  BY NamedShort
<1> HIDE DEF a, b
<1>4. ev \in Seq(AllEvents) /\ Named(ev, {name, twin})
  BY <1>1, <1>3, Short
<1>5. LastIn(ev, Freezes, Saying(Freezes, FreezeEffect, onchain'.frozen))
  BY <1>2, <1>3, SaidAlone
<1>6. Word(ev[1]) \in Freezes /\ 1 \in 1..Len(ev)
  <2>1. Word(a) \in Freezes
    BY <1>2 DEF Saying
  <2>2. Len(<<a, b>>) = 2 /\ <<a, b>>[1] = a
    OBVIOUS
  <2>3. Len(ev) = 2 /\ ev[1] = a
    BY <1>3, <2>2
  <2>4. 1 \in 1..Len(ev)
    BY <2>3, OneOfTwo, Zenon
  <2>5. Word(ev[1]) \in Freezes
    BY <2>1, <2>3
  <2> QED
    BY <2>4, <2>5
<1>7. Twinned(ev)
  BY <1>6 DEF Twinned
<1>8. "BackupActivated" \notin {name, twin} /\ {name, twin} \cap BarNames = {}
      /\ {name, twin} \cap (OpenNames \cup TerminalNames \cup MilestoneNames \cup {Abort, "EscrowCreated"}) = {}
  BY AsidesApart
<1>9. Mute(ev, Backups) /\ Mute(ev, Bars)
  BY <1>4, <1>8, Silences
<1>10. OwnerSaid(ev)
  BY <1>5, <1>7, <1>9 DEF OwnerSaid, SaidOf
<1> QED
  BY <1>4, <1>8, <1>10, Aside

LEMMA OneSaid ==
    ASSUME ChainInv, NEW name \in BarNames \cup {"BackupActivated", "WorkerStakeDeposited"},
           NEW ev, ev = <<IF name \in BarNames THEN Factory(name, "") ELSE Escrow(name, "")>>, Adds(ev),
           IF name \in BarNames THEN onchain'.barred = BarEffect[name] ELSE onchain'.barred = onchain.barred,
           IF name = "BackupActivated" THEN onchain'.backup = BackupEffect[name] ELSE onchain'.backup = onchain.backup,
           onchain'.frozen = onchain.frozen, onchain'.status = onchain.status, onchain'.count = onchain.count,
           onchain'.ms = onchain.ms, onchain'.msStatus = onchain.msStatus
    PROVE  Spoken(ev)
<1> DEFINE a == IF name \in BarNames THEN Factory(name, "") ELSE Escrow(name, "")
<1>1. a \in AllEvents /\ a.name = name
  <2>1. CASE name \in BarNames
    BY <2>1, AsidesApart, EscrowEvents, EventSets DEF Factory
  <2>2. CASE name \notin BarNames
    BY <2>2, AsidesApart, EscrowEvents, EventSets DEF Escrow
  <2> QED
    BY <2>1, <2>2
<1>2. /\ name \in BarNames => Word(a) \in Saying(Bars, BarEffect, BarEffect[name])
      /\ name = "BackupActivated" => Word(a) \in Saying(Backups, BackupEffect, BackupEffect[name])
  <2>1. "" \in Arguments
    BY DEF Arguments
  <2>2. CASE name \in BarNames
    <3>1. a = Factory(name, "") /\ name # "BackupActivated"
      BY <2>2, AsidesApart
    <3> QED
      BY <2>1, <2>2, <3>1, Speaks
  <2>3. CASE name \notin BarNames
    <3>1. a = Escrow(name, "")
      BY <2>3
    <3> QED
      BY <2>1, <2>3, <3>1, Speaks
  <2> QED
    BY <2>2, <2>3
<1>3. ev = <<a>> /\ Named(<<a>>, {a.name})
  BY NamedShort
<1> HIDE DEF a
<1>4. ev \in Seq(AllEvents) /\ Named(ev, {name})
  BY <1>1, <1>3, Short
<1>5. /\ {name} \cap FreezeNames = {} /\ {name} \cap TwinNames = {}
      /\ {name} \cap (OpenNames \cup TerminalNames \cup MilestoneNames \cup {Abort, "EscrowCreated"}) = {}
  BY AsidesApart
<1>6. Mute(ev, Freezes) /\ Twinned(ev)
  BY <1>4, <1>5, Silences
<1>7. SaidOf(ev, Bars, BarEffect, onchain.barred, onchain'.barred)
  <2>1. CASE name \in BarNames
    <3>1. LastIn(ev, Bars, Saying(Bars, BarEffect, onchain'.barred))
      BY <1>2, <1>3, <2>1, SaidAlone
    <3> QED
      BY <3>1 DEF SaidOf
  <2>2. CASE name \notin BarNames
    <3>1. {name} \cap BarNames = {}
      BY <2>2
    <3>2. Mute(ev, Bars)
      BY <1>4, <3>1, Silences
    <3>3. onchain'.barred = onchain.barred
      BY <2>2
    <3> QED
      BY <3>2, <3>3 DEF SaidOf
  <2> QED
    BY <2>1, <2>2
<1>8. SaidOf(ev, Backups, BackupEffect, onchain.backup, onchain'.backup)
  <2>1. CASE name = "BackupActivated"
    <3>1. LastIn(ev, Backups, Saying(Backups, BackupEffect, onchain'.backup))
      BY <1>2, <1>3, <2>1, SaidAlone
    <3> QED
      BY <3>1 DEF SaidOf
  <2>2. CASE name # "BackupActivated"
    <3>1. "BackupActivated" \notin {name}
      BY <2>2
    <3>2. Mute(ev, Backups)
      BY <1>4, <3>1, Silences
    <3>3. onchain'.backup = onchain.backup
      BY <2>2
    <3> QED
      BY <3>2, <3>3 DEF SaidOf
  <2> QED
    BY <2>1, <2>2
<1>9. OwnerSaid(ev)
  BY <1>6, <1>7, <1>8 DEF OwnerSaid, SaidOf
<1> QED
  BY <1>4, <1>5, <1>9, Aside

LEMMA OwnerSpoken ==
    ASSUME ChainInv, \/ Freeze \/ Unfreeze \/ FreezeAddress \/ UnfreezeAddress \/ DepositStake \/ ActivateBackup
    PROVE  \E ev : Spoken(ev)
<1>1. CASE Freeze
  <2> DEFINE ev == <<Escrow("EmergencyFrozen", ""), Factory("EscrowFrozen", "")>>
  <2>1. Adds(ev) /\ onchain' = [onchain EXCEPT !.frozen = TRUE]
    BY <1>1, MinedAdds DEF Freeze
  <2>2. /\ onchain'.frozen = TRUE /\ onchain'.status = onchain.status /\ onchain'.count = onchain.count
        /\ onchain'.ms = onchain.ms /\ onchain'.msStatus = onchain.msStatus /\ onchain'.backup = onchain.backup
        /\ onchain'.barred = onchain.barred
    BY <2>1 DEF ChainInv, OnchainOK
  <2>3. "EmergencyFrozen" \in FreezeNames /\ "EscrowFrozen" \in TwinNames
    BY DEF FreezeNames, TwinNames
  <2>4. Spoken(ev)
    BY <2>1, <2>2, <2>3, FreezeSaid, Effects
  <2> QED
    BY <2>4
<1>2. CASE Unfreeze
  <2> DEFINE ev == <<Escrow("EmergencyUnfrozen", ""), Factory("EscrowUnfrozen", "")>>
  <2>1. Adds(ev) /\ onchain' = [onchain EXCEPT !.frozen = FALSE]
    BY <1>2, MinedAdds DEF Unfreeze
  <2>2. /\ onchain'.frozen = FALSE /\ onchain'.status = onchain.status /\ onchain'.count = onchain.count
        /\ onchain'.ms = onchain.ms /\ onchain'.msStatus = onchain.msStatus /\ onchain'.backup = onchain.backup
        /\ onchain'.barred = onchain.barred
    BY <2>1 DEF ChainInv, OnchainOK
  <2>3. "EmergencyUnfrozen" \in FreezeNames /\ "EscrowUnfrozen" \in TwinNames
    BY DEF FreezeNames, TwinNames
  <2>4. Spoken(ev)
    BY <2>1, <2>2, <2>3, FreezeSaid, Effects
  <2> QED
    BY <2>4
<1>3. CASE FreezeAddress
  <2> DEFINE ev == <<Factory("AddressFrozen", "")>>
  <2>1. Adds(ev) /\ onchain' = [onchain EXCEPT !.barred = TRUE]
    BY <1>3, MinedAdds DEF FreezeAddress
  <2>2. /\ onchain'.barred = TRUE /\ onchain'.status = onchain.status /\ onchain'.count = onchain.count
        /\ onchain'.ms = onchain.ms /\ onchain'.msStatus = onchain.msStatus /\ onchain'.backup = onchain.backup
        /\ onchain'.frozen = onchain.frozen
    BY <2>1 DEF ChainInv, OnchainOK
  <2>3. "AddressFrozen" \in BarNames /\ "AddressFrozen" # "BackupActivated"
    BY DEF BarNames
  <2>4. Spoken(ev)
    BY <2>1, <2>2, <2>3, OneSaid, Effects
  <2> QED
    BY <2>4
<1>4. CASE UnfreezeAddress
  <2> DEFINE ev == <<Factory("AddressUnfrozen", "")>>
  <2>1. Adds(ev) /\ onchain' = [onchain EXCEPT !.barred = FALSE]
    BY <1>4, MinedAdds DEF UnfreezeAddress
  <2>2. /\ onchain'.barred = FALSE /\ onchain'.status = onchain.status /\ onchain'.count = onchain.count
        /\ onchain'.ms = onchain.ms /\ onchain'.msStatus = onchain.msStatus /\ onchain'.backup = onchain.backup
        /\ onchain'.frozen = onchain.frozen
    BY <2>1 DEF ChainInv, OnchainOK
  <2>3. "AddressUnfrozen" \in BarNames /\ "AddressUnfrozen" # "BackupActivated"
    BY DEF BarNames
  <2>4. Spoken(ev)
    BY <2>1, <2>2, <2>3, OneSaid, Effects
  <2> QED
    BY <2>4
<1>5. CASE DepositStake
  <2> DEFINE ev == <<Escrow("WorkerStakeDeposited", "")>>
  <2>1. Adds(ev) /\ onchain' = [onchain EXCEPT !.staked = TRUE]
    BY <1>5, MinedAdds DEF DepositStake
  <2>2. /\ onchain'.barred = onchain.barred /\ onchain'.status = onchain.status /\ onchain'.count = onchain.count
        /\ onchain'.ms = onchain.ms /\ onchain'.msStatus = onchain.msStatus /\ onchain'.backup = onchain.backup
        /\ onchain'.frozen = onchain.frozen
    BY <2>1 DEF ChainInv, OnchainOK
  <2>3. "WorkerStakeDeposited" \notin BarNames /\ "WorkerStakeDeposited" # "BackupActivated"
    BY DEF BarNames
  <2>4. Spoken(ev)
    BY <2>1, <2>2, <2>3, OneSaid
  <2> QED
    BY <2>4
<1>6. CASE ActivateBackup
  <2> DEFINE ev == <<Escrow("BackupActivated", "")>>
  <2>1. Adds(ev) /\ onchain' = [onchain EXCEPT !.backup = TRUE, !.staked = FALSE]
    BY <1>6, MinedAdds DEF ActivateBackup
  <2>2. /\ onchain'.barred = onchain.barred /\ onchain'.status = onchain.status /\ onchain'.count = onchain.count
        /\ onchain'.ms = onchain.ms /\ onchain'.msStatus = onchain.msStatus /\ onchain'.backup = TRUE
        /\ onchain'.frozen = onchain.frozen
    BY <2>1 DEF ChainInv, OnchainOK
  <2>3. "BackupActivated" \notin BarNames
    BY DEF BarNames
  <2>4. Spoken(ev)
    BY <2>1, <2>2, <2>3, OneSaid, Effects
  <2> QED
    BY <2>4
<1> QED
  BY <1>1, <1>2, <1>3, <1>4, <1>5, <1>6

\* The words about one milestone.
LEMMA MilestoneWords ==
    ASSUME NEW n \in Nat, NEW i \in Nat
    PROVE  /\ \A name \in MilestoneNames : Word(Escrow(name, n)) \in Concerning(i) <=> i = n
           /\ Word(Escrow(Abort, n)) \in Concerning(i) <=> n <= i
           /\ n <= i => Word(Escrow(Abort, n)) \in Saying(Concerning(i), MilestoneEffect, "cancelled")
<1> DEFINE w(name) == [from |-> "escrow", name |-> name, arg |-> n]
<1>1. \A name : Word(Escrow(name, n)) = w(name) /\ w(name).name = name
  BY DEF Word, Escrow
<1>2. Abort \notin MilestoneNames
  BY MilestoneEffects
<1>3. \A name \in MilestoneNames : w(name) \in Concerning(i) <=> i = n
  BY <1>2 DEF Concerning
<1>4. w(Abort) \in Concerning(i) <=> n \in 0..i
  BY <1>2 DEF Concerning
<1>5. n \in 0..i <=> n <= i
  OBVIOUS
<1> HIDE DEF w
<1>6. n <= i => w(Abort) \in Saying(Concerning(i), MilestoneEffect, "cancelled")
  BY <1>1, <1>4, <1>5, MilestoneEffects DEF Saying
<1> QED
  BY <1>1, <1>3, <1>4, <1>5, <1>6

\* One event for each of some milestones.
LEMMA RowSaid ==
    ASSUME NEW n \in Int, NEW ms \in Nat, NEW name \in MilestoneNames
    PROVE  LET row == [i \in 1..n |-> Escrow(name, ms + i - 1)]
           IN  /\ row \in Seq(AllEvents) /\ Named(row, {name})
               /\ \A i \in Nat : i < ms => Mute(row, Concerning(i))
               /\ \A i \in Nat : ms <= i /\ i < ms + n =>
                     LastIn(row, Concerning(i), Saying(Concerning(i), MilestoneEffect, MilestoneEffect[name]))
<1> DEFINE row == [i \in 1..n |-> Escrow(name, ms + i - 1)]
<1>1. name \in PlainNames
  BY MilestoneEffects DEF PlainNames
<1>2. row \in Seq(Plain)
  BY <1>1, InARow
<1>3. row \in Seq(AllEvents)
  BY <1>2, EventSets, SeqMonotonic
<1>4. DOMAIN row = 1..n /\ \A k \in 1..n : row[k] = Escrow(name, ms + k - 1)
  OBVIOUS
<1> HIDE DEF row
<1>5. \A k \in 1..n : ms + k - 1 \in Nat
  OBVIOUS
<1>6. Len(row) \in Nat /\ 1..Len(row) = 1..n
  BY <1>2, <1>4, LenProperties
<1>7. Named(row, {name})
  <2>1. \A m : Escrow(name, m).name = name
    BY DEF Escrow
  <2> QED
    BY <1>4, <1>6, <2>1 DEF Named
<1>8. ASSUME NEW i \in Nat, i < ms PROVE Mute(row, Concerning(i))
  <2> SUFFICES ASSUME NEW k \in 1..Len(row) PROVE Word(row[k]) \notin Concerning(i)
    BY DEF Mute
  <2> DEFINE m == ms + k - 1
  <2>1. m \in Nat /\ m # i /\ row[k] = Escrow(name, m)
    BY <1>4, <1>5, <1>6, <1>8
  <2> HIDE DEF m
  <2> QED
    BY <2>1, MilestoneWords
<1>9. ASSUME NEW i \in Nat, ms <= i, i < ms + n
      PROVE  LastIn(row, Concerning(i), Saying(Concerning(i), MilestoneEffect, MilestoneEffect[name]))
  <2> DEFINE k == i - ms + 1
  <2>1. k \in 1..n /\ ms + k - 1 = i
    BY <1>9
  <2>2. k \in 1..Len(row) /\ row[k] = Escrow(name, i)
    BY <1>4, <1>6, <2>1
  <2>3. Word(row[k]) \in Saying(Concerning(i), MilestoneEffect, MilestoneEffect[name])
    <3>1. i \in Arguments
      BY DEF Arguments
    <3>2. Word(Escrow(name, i)) \in Saying(Concerning(i), MilestoneEffect, MilestoneEffect[name])
      BY <3>1, Speaks
    <3> HIDE DEF k
    <3> QED
      BY <2>2, <3>2
  <2>4. ASSUME NEW j \in 1..Len(row), j > k PROVE Word(row[j]) \notin Concerning(i)
    <3> DEFINE m == ms + j - 1
    <3>1. m \in Nat /\ m # i /\ row[j] = Escrow(name, m)
      BY <1>4, <1>5, <1>6, <1>9, <2>4
    <3> HIDE DEF m
    <3> QED
      BY <3>1, MilestoneWords
  <2> HIDE DEF k
  <2> QED
    BY <2>2, <2>3, <2>4 DEF LastIn
<1> QED
  BY <1>3, <1>7, <1>8, <1>9 DEF row

\* What an open escrow's milestones are.
LEMMA OpenMilestones ==
    ASSUME ChainInv, onchain.status \notin Closed
    PROVE  /\ Mute(log, Aborts)
           /\ \A i : ChainMilestone(onchain, log, i) = IF i < onchain.ms THEN "settled"
                                                       ELSE IF i = onchain.ms THEN onchain.msStatus ELSE "pending"
<1>1. Mute(log, Aborts)
  <2>1. \A k \in 1..Len(log) : log[k].name \notin EndingNames
    BY DEF ChainInv, EndsOK, Places
  <2>2. \A w \in Aborts : w.name \in EndingNames
    BY DEF Aborts, Events, Abort, EndingNames
  <2> QED
    BY <2>1, <2>2 DEF Mute, Word
<1>2. onchain.status # "settled"
  BY DEF Closed
<1> QED
  BY <1>1, <1>2 DEF ChainMilestone

\* The names of what a milestone's transactions say beside it.
LEMMA RestApart ==
    /\ ({"Settled", "OutcomeRecorded", "EmergencyResolved"} \cup MilestoneNames) \cap
          (OwnerNames2 \cup OpenNames \cup {Abort, "EscrowCreated"}) = {}
    /\ {"Settled", "OutcomeRecorded", "EmergencyResolved"} \cap MilestoneNames = {}
    /\ MilestoneNames \cap TerminalNames = {} /\ MilestoneNames \subseteq PlainNames
    /\ "EmergencyResolved" \notin TerminalNames
    /\ Abort \notin OwnerNames2 \cup {"EscrowCreated"}
    /\ "Settled" \in TerminalNames /\ Abort \in TerminalNames /\ Abort \in EndingNames
  BY MilestoneEffects DEF OpenNames, OwnerNames2, FreezeNames, TwinNames, BarNames, Abort, TerminalNames,
     PlainNames, EndingNames

\* A transaction about one milestone that leaves the escrow open.
LEMMA MilestoneOn ==
    ASSUME ChainInv, onchain.status = "funded", NEW ev \in Seq(AllEvents), Adds(ev), NEW names \in SUBSET MilestoneNames,
           Named(ev, names), NEW x,
           LastIn(ev, Concerning(onchain.ms), Saying(Concerning(onchain.ms), MilestoneEffect, x)),
           \A i \in Nat : i # onchain.ms => Mute(ev, Concerning(i)),
           onchain'.status = onchain.status, onchain'.frozen = onchain.frozen, onchain'.backup = onchain.backup,
           onchain'.barred = onchain.barred, onchain'.count = onchain.count,
           \/ onchain'.ms = onchain.ms /\ onchain'.msStatus = x
           \/ onchain'.ms = onchain.ms + 1 /\ onchain'.msStatus = "pending" /\ x = "settled"
    PROVE  Spoken(ev)
<1>1. /\ names \cap OwnerNames2 = {} /\ names \cap OpenNames = {} /\ names \cap TerminalNames = {}
      /\ Abort \notin names /\ "EscrowCreated" \notin names
  BY RestApart
<1>2. Mute(ev, Opens) /\ Mute(ev, Terminals) /\ Mute(ev, Aborts) /\ Placed(ev)
  BY <1>1, Silences
<1>3. OwnerSaid(ev)
  BY <1>1, OwnerSilent
<1>4. StatusSaid(ev)
  BY <1>2 DEF StatusSaid
<1>5. onchain.ms \in Nat
  BY DEF ChainInv, OnchainOK
<1>6. \A i : ChainMilestone(onchain, log, i) = IF i < onchain.ms THEN "settled"
                                               ELSE IF i = onchain.ms THEN onchain.msStatus ELSE "pending"
  BY OpenMilestones DEF Closed
<1>7. \A i : ChainMilestone(onchain', log', i) = IF i < onchain'.ms THEN "settled"
                                                 ELSE IF i = onchain'.ms THEN onchain'.msStatus ELSE "pending"
  <2>1. Mute(log', Aborts)
    BY <1>2, OpenMilestones, StillSaid DEF Closed
  <2> QED
    BY <2>1 DEF ChainMilestone
<1>8. ASSUME NEW i \in Nat PROVE MilestoneSaid(ev, i)
  <2>1. CASE i = onchain.ms
    <3>1. ChainMilestone(onchain', log', i) = x
      BY <1>5, <1>7, <2>1
    <3> QED
      BY <2>1, <3>1 DEF MilestoneSaid, SaidOf
  <2>2. CASE i # onchain.ms
    <3>1. ChainMilestone(onchain', log', i) = ChainMilestone(onchain, log, i)
      BY <1>5, <1>6, <1>7, <1>8, <2>2
    <3>2. Mute(ev, Concerning(i))
      BY <2>2
    <3> QED
      BY <3>1, <3>2 DEF MilestoneSaid, SaidOf
  <2> QED
    BY <2>1, <2>2
<1>9. MilestonesSaid(ev)
  <2>1. onchain.count \in Nat
    BY DEF ChainInv, OnchainOK
  <2>2. \A i \in 0..onchain.count - 1 : i \in Nat
    BY <2>1
  <2> QED
    BY <1>2, <1>8, <2>2 DEF MilestonesSaid
<1>10. Unborn(ev)
  BY <1>1 DEF Unborn, Named
<1> QED
  BY <1>3, <1>4, <1>9, <1>10 DEF Spoken

LEMMA MilestoneOneSpoken ==
    ASSUME ChainInv, SubmitMilestone \/ DisputeMilestone
    PROVE  \E ev : Spoken(ev)
<1> DEFINE ms == onchain.ms
<1>1. ms \in Nat /\ ms \in Arguments
  BY DEF ChainInv, OnchainOK, Arguments
<1>2. ASSUME NEW name \in {"MilestoneSubmitted", "MilestoneDisputed"}, NEW t,
             Mined(t, <<Escrow(name, ms)>>, MilestoneTo(MilestoneEffect[name])), onchain.status = "funded"
      PROVE  \E ev : Spoken(ev)
  <2> DEFINE a == Escrow(name, ms)
             ev == <<a>>
             x == MilestoneEffect[name]
  <2>1. Adds(ev) /\ onchain' = MilestoneTo(x)
    BY <1>2, MinedAdds
  <2>2. name \in MilestoneNames
    BY MilestoneEffects
  <2>3. a \in AllEvents /\ a.name = name
    BY <1>1, <2>2, RestApart, EscrowEvents, EventSets DEF Escrow
  <2>4. Word(a) \in Saying(Concerning(ms), MilestoneEffect, x)
    BY <1>1, <2>2, Speaks
  <2>5. \A i \in Nat : i # ms => Word(a) \notin Concerning(i)
    BY <1>1, <2>2, MilestoneWords
  <2> HIDE DEF a
  <2>6. Named(<<a>>, {a.name})
    BY NamedShort
  <2>7. ev \in Seq(AllEvents) /\ Named(ev, {name})
    BY <2>3, <2>6, Short
  <2>8. LastIn(ev, Concerning(ms), Saying(Concerning(ms), MilestoneEffect, x))
    BY <2>4, SaidAlone
  <2>9. \A i \in Nat : i # ms => Mute(ev, Concerning(i))
    BY <2>5, SaidAlone
  <2> HIDE DEF ev, x
  <2>10. /\ onchain'.status = onchain.status
         /\ onchain'.frozen = onchain.frozen /\ onchain'.backup = onchain.backup
         /\ onchain'.barred = onchain.barred /\ onchain'.count = onchain.count
         /\ onchain'.ms = onchain.ms /\ onchain'.msStatus = x
    BY <2>1, ToFields DEF ChainInv
  <2>11. {name} \in SUBSET MilestoneNames
    BY <2>2
  <2>12. Spoken(ev)
    BY <1>2, <2>1, <2>7, <2>8, <2>9, <2>10, <2>11, MilestoneOn
  <2> QED
    BY <2>12
<1>3. CASE SubmitMilestone
  <2>1. onchain.status = "funded" /\ Mined("submit", <<Escrow("MilestoneSubmitted", ms)>>, MilestoneTo("submitted"))
    BY <1>3 DEF SubmitMilestone
  <2>2. MilestoneEffect["MilestoneSubmitted"] = "submitted"
    BY MilestoneEffects
  <2> QED
    BY <1>2, <2>1, <2>2
<1>4. CASE DisputeMilestone
  <2>1. onchain.status = "funded" /\ Mined("dispute", <<Escrow("MilestoneDisputed", ms)>>, MilestoneTo("disputed"))
    BY <1>4 DEF DisputeMilestone
  <2>2. MilestoneEffect["MilestoneDisputed"] = "disputed"
    BY MilestoneEffects
  <2> QED
    BY <1>2, <2>1, <2>2
<1> QED
  BY <1>3, <1>4

\* A transaction that closes an escrow of milestones.
LEMMA ClosingSaid ==
    ASSUME ChainInv, NEW x \in Closed, NEW ev \in Seq(AllEvents), Adds(ev), onchain' = To(x),
           NEW names, Named(ev, names), names \cap (OwnerNames2 \cup {"EscrowCreated"}) = {},
           onchain.status \notin Closed \cup {"none"}, Placed(ev),
           FirstIn(ev, Terminals, Saying(Terminals, EndEffect, x)) \/ (x = "settled" /\ Mute(ev, Terminals)),
           onchain.count > 1 => \A i \in 0..onchain.count - 1 : MilestoneSaid(ev, i)
    PROVE  Spoken(ev)
<1>1. /\ onchain'.status = x
      /\ onchain'.frozen = onchain.frozen /\ onchain'.backup = onchain.backup
      /\ onchain'.barred = onchain.barred /\ onchain'.count = onchain.count
  BY ToFields DEF ChainInv
<1>2. names \cap OwnerNames2 = {} /\ "EscrowCreated" \notin names
  OBVIOUS
<1>3. OwnerSaid(ev)
  BY <1>1, <1>2, OwnerSilent
<1>4. StatusSaid(ev)
  BY <1>1 DEF StatusSaid, SaysEnd
<1>5. MilestonesSaid(ev)
  BY <1>1 DEF MilestonesSaid
<1>6. Unborn(ev)
  BY <1>2 DEF Unborn, Named
<1> QED
  BY <1>3, <1>4, <1>5, <1>6 DEF Spoken

LEMMA StakeTold ==
    ASSUME OnchainOK
    PROVE  /\ FirstIn(StakeSettled, Terminals, Saying(Terminals, EndEffect, "settled")) \/ Mute(StakeSettled, Terminals)
           /\ Mute(Outcome, Terminals)
           /\ \A i : Mute(StakeSettled, Concerning(i)) /\ Mute(Outcome, Concerning(i))
<1>1. Named(Outcome, {"OutcomeRecorded"}) /\ Named(StakeSettled, {"Settled"})
  BY NamedRest
<1>2. {"OutcomeRecorded"} \cap TerminalNames = {}
  BY TopicsApart
<1>3. Mute(Outcome, Terminals)
  BY <1>1, <1>2, Silences
<1>4. {"OutcomeRecorded"} \cap (MilestoneNames \cup {Abort}) = {} /\ {"Settled"} \cap (MilestoneNames \cup {Abort}) = {}
  BY RestApart
<1>5. \A i : Mute(StakeSettled, Concerning(i))
  BY <1>1, <1>4, Silences
<1>6. \A i : Mute(Outcome, Concerning(i))
  BY <1>1, <1>4, Silences
<1>7. CASE onchain.staked
  <2>1. StakeSettled = <<Escrow("Settled", 0)>>
    BY <1>7 DEF StakeSettled
  <2>2. Word(Escrow("Settled", 0)) \in Saying(Terminals, EndEffect, "settled")
    <3>1. 0 \in Arguments /\ "Settled" \in TerminalNames
      BY RestApart DEF Arguments
    <3> QED
      BY <3>1, Speaks, Effects
  <2>3. FirstIn(StakeSettled, Terminals, Saying(Terminals, EndEffect, "settled"))
    BY <2>1, <2>2, SaidAlone
  <2> QED
    BY <1>3, <1>5, <1>6, <2>3
<1>8. CASE ~onchain.staked
  <2>1. StakeSettled = <<>>
    BY <1>8 DEF StakeSettled
  <2>2. Mute(StakeSettled, Terminals)
    BY <2>1 DEF Mute
  <2> QED
    BY <1>3, <1>5, <1>6, <2>2
<1> QED
  BY <1>7, <1>8

LEMMA AdvancedSpoken ==
    ASSUME ChainInv, onchain.status = "funded", NEW t, NEW name \in MilestoneNames, NEW failed \in BOOLEAN,
           Advanced(t, <<Escrow(name, onchain.ms)>>, failed)
    PROVE  \E ev : Spoken(ev)
<1> DEFINE ms == onchain.ms
           a == Escrow(name, ms)
           b == Escrow("MilestoneSettled", ms)
           two == <<a>> \o <<b>>
<1>1. ms \in Nat /\ onchain.count \in Nat /\ ms \in Arguments /\ OnchainOK
  BY DEF ChainInv, OnchainOK, Arguments
<1>2. "MilestoneSettled" \in MilestoneNames
  BY MilestoneEffects
<1>3. a \in AllEvents /\ b \in AllEvents /\ a.name = name /\ b.name = "MilestoneSettled"
  BY <1>1, <1>2, RestApart, EscrowEvents, EventSets DEF Escrow
<1>4. Word(b) \in Saying(Concerning(ms), MilestoneEffect, "settled")
  BY <1>1, <1>2, Speaks, MilestoneEffects
<1>5. \A i \in Nat : i # ms => Word(a) \notin Concerning(i) /\ Word(b) \notin Concerning(i)
  BY <1>1, <1>2, MilestoneWords
<1>6. onchain.ms + 1 < onchain.count =>
         Adds(two) /\ onchain' = [onchain EXCEPT !.ms = @ + 1, !.msStatus = "pending", !.failed = failed]
  BY MinedAdds DEF Advanced
<1>7. ~(onchain.ms + 1 < onchain.count) => Adds(two \o StakeSettled \o Outcome) /\ onchain' = To("settled")
  BY MinedAdds DEF Advanced
<1> HIDE DEF a, b
<1>8. Named(<<a>>, {name}) /\ Named(<<b>>, {"MilestoneSettled"}) /\ <<a>> \in Seq(AllEvents) /\ <<b>> \in Seq(AllEvents)
  BY <1>3, NamedShort, Short
<1>9. two \in Seq(AllEvents)
  BY <1>8, ConcatProperties
<1>10. Named(two, {name} \cup {"MilestoneSettled"})
  BY <1>8, NamedParts
<1>11. LastIn(two, Concerning(ms), Saying(Concerning(ms), MilestoneEffect, "settled"))
  <2>1. LastIn(<<b>>, Concerning(ms), Saying(Concerning(ms), MilestoneEffect, "settled"))
    BY <1>4, SaidAlone
  <2> QED
    BY <1>8, <2>1, SaidAfter
<1>12. ASSUME NEW i \in Nat, i # ms PROVE Mute(two, Concerning(i))
  <2>1. Mute(<<a>>, Concerning(i)) /\ Mute(<<b>>, Concerning(i))
    BY <1>5, <1>12, SaidAlone
  <2> QED
    BY <1>8, <2>1, SaidAfter
<1> DEFINE names == {name} \cup {"MilestoneSettled"}
<1>13. names \in SUBSET MilestoneNames
  BY <1>2
<1> HIDE DEF two, names
<1>14. Named(two, names)
  BY <1>10 DEF names
<1>15. CASE onchain.ms + 1 < onchain.count
  <2> DEFINE next == onchain.ms + 1
  <2>1. Adds(two) /\ onchain' = [onchain EXCEPT !.ms = next, !.msStatus = "pending", !.failed = failed]
    BY <1>6, <1>15
  <2>2. next = onchain.ms + 1
    OBVIOUS
  <2> HIDE DEF next
  <2>3. /\ onchain'.status = onchain.status
        /\ onchain'.frozen = onchain.frozen /\ onchain'.backup = onchain.backup
        /\ onchain'.barred = onchain.barred /\ onchain'.count = onchain.count
        /\ onchain'.ms = next /\ onchain'.msStatus = "pending"
    BY <1>1, <2>1 DEF OnchainOK
  <2>4. Spoken(two)
    BY <1>9, <1>11, <1>12, <1>13, <1>14, <2>1, <2>2, <2>3, MilestoneOn
  <2> QED
    BY <2>4
<1>16. CASE ~(onchain.ms + 1 < onchain.count)
  <2> DEFINE three == two \o StakeSettled
             ev == three \o Outcome
  <2>1. Adds(ev) /\ onchain' = To("settled")
    BY <1>7, <1>16
  <2>2. /\ Outcome \in Seq(AllEvents) /\ Named(Outcome, {"OutcomeRecorded"})
        /\ StakeSettled \in Seq(AllEvents) /\ Named(StakeSettled, {"Settled"})
    BY <1>1, NamedRest
  <2>3. three \in Seq(AllEvents)
    BY <1>9, <2>2, ConcatProperties
  <2>4. ev \in Seq(AllEvents)
    BY <2>2, <2>3, ConcatProperties
  <2>5. Named(three, names \cup {"Settled"})
    BY <1>9, <1>14, <2>2, NamedParts
  <2>6. Named(ev, (names \cup {"Settled"}) \cup {"OutcomeRecorded"})
    BY <2>2, <2>3, <2>5, NamedParts
  <2> DEFINE all == (names \cup {"Settled"}) \cup {"OutcomeRecorded"}
  <2>7. all \cap (OwnerNames2 \cup {"EscrowCreated"}) = {} /\ Abort \notin all
    BY <1>13, RestApart
  <2>8. Mute(two, Terminals)
    <3>1. names \cap TerminalNames = {}
      BY <1>13, RestApart
    <3> QED
      BY <1>14, <3>1, Silences
  <2>9. FirstIn(ev, Terminals, Saying(Terminals, EndEffect, "settled")) \/ Mute(ev, Terminals)
    <3>1. FirstIn(three, Terminals, Saying(Terminals, EndEffect, "settled")) \/ Mute(three, Terminals)
      BY <1>1, <1>9, <2>2, <2>8, StakeTold, SaidAfter
    <3> HIDE DEF three
    <3> QED
      BY <1>1, <2>2, <2>3, <3>1, StakeTold, SaidAfter
  <2>10. Placed(ev) /\ Mute(ev, Aborts)
    <3> HIDE DEF ev
    <3> QED
      BY <2>6, <2>7, Silences
  <2>11. onchain'.status = "settled"
    BY <1>1, <2>1, ToFields
  <2>12. \A i : ChainMilestone(onchain', log', i) = "settled"
    BY <2>11 DEF ChainMilestone
  <2>13. ASSUME NEW i \in 0..onchain.count - 1 PROVE MilestoneSaid(ev, i)
    <3>1. i \in Nat /\ i <= ms
      BY <1>1, <1>16, <2>13
    <3>2. CASE i = ms
      <4>1. LastIn(three, Concerning(i), Saying(Concerning(i), MilestoneEffect, "settled"))
        BY <1>1, <1>9, <1>11, <2>2, <3>2, StakeTold, SaidAfter
      <4> HIDE DEF three
      <4>2. LastIn(ev, Concerning(i), Saying(Concerning(i), MilestoneEffect, "settled"))
        BY <1>1, <2>2, <2>3, <4>1, StakeTold, SaidAfter
      <4> QED
        BY <2>12, <4>2 DEF MilestoneSaid, SaidOf
    <3>3. CASE i # ms
      <4>1. Mute(three, Concerning(i))
        BY <1>1, <1>9, <1>12, <2>2, <3>1, <3>3, StakeTold, SaidAfter
      <4> HIDE DEF three
      <4>2. Mute(ev, Concerning(i))
        BY <1>1, <2>2, <2>3, <4>1, StakeTold, SaidAfter
      <4>3. ChainMilestone(onchain, log, i) = "settled"
        BY <1>1, <3>1, <3>3, OpenMilestones DEF Closed
      <4> QED
        BY <2>12, <4>2, <4>3 DEF MilestoneSaid, SaidOf
    <3> QED
      BY <3>2, <3>3
  <2>14. "settled" \in Closed /\ onchain.status \notin Closed \cup {"none"}
    BY DEF Closed
  <2> HIDE DEF ev, all
  <2>15. Named(ev, all)
    BY <2>6 DEF all
  <2>16. Spoken(ev)
    BY <2>1, <2>4, <2>7, <2>9, <2>10, <2>13, <2>14, <2>15, ClosingSaid
  <2> QED
    BY <2>16
<1> QED
  BY <1>15, <1>16

LEMMA MilestonesSpoken ==
    ASSUME ChainInv, ClaimMilestoneTimeout \/ ApproveMilestone \/ ResolveMilestone
    PROVE  \E ev : Spoken(ev)
<1>1. {"MilestoneApproved", "MilestoneDisputeResolved", "MilestoneCancelled"} \subseteq MilestoneNames
  BY MilestoneEffects
<1>2. CASE ClaimMilestoneTimeout
  BY <1>1, <1>2, AdvancedSpoken DEF ClaimMilestoneTimeout
<1>3. CASE ApproveMilestone
  BY <1>1, <1>3, AdvancedSpoken DEF ApproveMilestone
<1>4. CASE ResolveMilestone
  BY <1>1, <1>4, AdvancedSpoken DEF ResolveMilestone
<1> QED
  BY <1>2, <1>3, <1>4

LEMMA AbortSpoken ==
    ASSUME ChainInv, AbortRemainingMilestones
    PROVE  \E ev : Spoken(ev)
<1> DEFINE ms == onchain.ms
           left == onchain.count - onchain.ms
           row == [i \in 1..left |-> Escrow("MilestoneCancelled", ms + i - 1)]
           a == Escrow(Abort, ms)
           two == row \o <<a>>
           three == two \o StakeSettled
           ev == three \o Outcome
<1>1. ms \in Nat /\ onchain.count \in Nat /\ left \in Int /\ ms \in Arguments /\ OnchainOK
  <2>1. ms \in Nat /\ onchain.count \in Nat /\ OnchainOK
    BY DEF ChainInv, OnchainOK
  <2>2. left \in Int
    BY <2>1
  <2> QED
    BY <2>1, <2>2 DEF Arguments
<1>2. Adds(ev) /\ onchain' = To("refunded") /\ onchain.status = "funded"
  BY MinedAdds DEF AbortRemainingMilestones, Abort
<1>3. "MilestoneCancelled" \in MilestoneNames
  BY MilestoneEffects
<1>4. a \in AllEvents /\ a.name = Abort /\ a.arg = ms
  BY <1>1, RestApart, EscrowEvents, EventSets DEF Escrow
<1>5. Word(a) \in Saying(Terminals, EndEffect, "refunded")
  BY <1>1, RestApart, Speaks, Effects
<1>6. \A i \in Nat : /\ ms <= i => Word(a) \in Saying(Concerning(i), MilestoneEffect, "cancelled")
                     /\ i < ms => Word(a) \notin Concerning(i)
  BY <1>1, MilestoneWords
<1>7. Word(a) \in Aborts
  <2>1. Word(a) = [from |-> "escrow", name |-> Abort, arg |-> ms]
    BY DEF Word, Escrow
  <2> QED
    BY <1>1, <2>1 DEF Aborts, Events
<1> HIDE DEF left, a
<1>8. row \in Seq(AllEvents) /\ Named(row, {"MilestoneCancelled"})
      /\ \A i \in Nat : i < ms => Mute(row, Concerning(i))
  BY <1>1, <1>3, RowSaid
<1>9. Named(<<a>>, {Abort}) /\ <<a>> \in Seq(AllEvents)
  BY <1>4, NamedShort, Short
<1>10. /\ Outcome \in Seq(AllEvents) /\ Named(Outcome, {"OutcomeRecorded"})
       /\ StakeSettled \in Seq(AllEvents) /\ Named(StakeSettled, {"Settled"})
  BY <1>1, NamedRest
<1>11. Mute(row, Terminals)
  <2>1. {"MilestoneCancelled"} \cap TerminalNames = {}
    BY <1>3, RestApart
  <2> HIDE DEF row
  <2> QED
    BY <1>8, <2>1, Silences
<1> HIDE DEF row
<1>12. two \in Seq(AllEvents)
  BY <1>8, <1>9, ConcatProperties
<1>13. Named(two, {"MilestoneCancelled"} \cup {Abort})
  BY <1>8, <1>9, NamedParts
<1>14. FirstIn(two, Terminals, Saying(Terminals, EndEffect, "refunded"))
  <2>1. FirstIn(<<a>>, Terminals, Saying(Terminals, EndEffect, "refunded"))
    BY <1>5, SaidAlone
  <2> QED
    BY <1>8, <1>9, <1>11, <2>1, SaidAfter
<1>15. ASSUME NEW i \in Nat
       PROVE  /\ ms <= i => LastIn(two, Concerning(i), Saying(Concerning(i), MilestoneEffect, "cancelled"))
              /\ i < ms => Mute(two, Concerning(i))
  <2>1. CASE ms <= i
    <3>1. LastIn(<<a>>, Concerning(i), Saying(Concerning(i), MilestoneEffect, "cancelled"))
      BY <1>6, <2>1, SaidAlone
    <3>2. LastIn(two, Concerning(i), Saying(Concerning(i), MilestoneEffect, "cancelled"))
      BY <1>8, <1>9, <3>1, SaidAfter
    <3> HIDE DEF two
    <3> QED
      BY <1>1, <2>1, <3>2
  <2>2. CASE i < ms
    <3>1. Mute(<<a>>, Concerning(i))
      BY <1>6, <2>2, SaidAlone
    <3>2. Mute(row, Concerning(i))
      BY <1>8, <2>2
    <3>3. Mute(two, Concerning(i))
      BY <1>8, <1>9, <3>1, <3>2, SaidAfter
    <3> HIDE DEF two
    <3> QED
      BY <1>1, <2>2, <3>3
  <2> HIDE DEF two
  <2> QED
    BY <1>1, <2>1, <2>2
<1>16. LastIn(two, Aborts, Aborts)
  <2>1. LastIn(<<a>>, Aborts, Aborts)
    BY <1>7, SaidAlone
  <2> QED
    BY <1>8, <1>9, <2>1, SaidAfter
<1>17. \A k \in 1..Len(two) : two[k].name = Abort => two[k].arg \in Nat
  <2>1. /\ Len(two) = Len(row) + Len(<<a>>)
        /\ \A i \in 1..Len(row) : two[i] = row[i]
        /\ \A i \in 1..Len(<<a>>) : two[Len(row) + i] = <<a>>[i]
        /\ \A i \in 1..Len(row) + Len(<<a>>) :
              i \in 1..Len(row) \/ (i - Len(row) \in 1..Len(<<a>>) /\ i = Len(row) + (i - Len(row)))
    BY <1>8, <1>9, Parts
  <2>2. \A i \in 1..Len(<<a>>) : <<a>>[i] = a
    OBVIOUS
  <2>3. \A i \in 1..Len(row) : row[i].name # Abort
    BY <1>3, <1>8, RestApart, MilestoneEffects DEF Named
  <2> SUFFICES ASSUME NEW k \in 1..Len(row) + Len(<<a>>), two[k].name = Abort PROVE two[k].arg \in Nat
    BY <2>1
  <2> HIDE DEF two
  <2>4. k - Len(row) \in 1..Len(<<a>>) /\ k = Len(row) + (k - Len(row))
    BY <2>1, <2>3
  <2>5. two[k] = a
    BY <2>1, <2>2, <2>4
  <2> QED
    BY <1>1, <1>4, <2>5
<1> HIDE DEF two
<1>18. three \in Seq(AllEvents) /\ Named(three, ({"MilestoneCancelled"} \cup {Abort}) \cup {"Settled"})
  BY <1>10, <1>12, <1>13, ConcatProperties, NamedParts
<1>19. FirstIn(three, Terminals, Saying(Terminals, EndEffect, "refunded"))
  BY <1>10, <1>12, <1>14, SaidAfter
<1>20. ASSUME NEW i \in Nat
       PROVE  /\ ms <= i => LastIn(three, Concerning(i), Saying(Concerning(i), MilestoneEffect, "cancelled"))
              /\ i < ms => Mute(three, Concerning(i))
  BY <1>1, <1>10, <1>12, <1>15, StakeTold, SaidAfter
<1>21. LastIn(three, Aborts, Aborts)
  <2>1. Mute(StakeSettled, Aborts)
    <3>1. Abort \notin {"Settled"}
      BY RestApart
    <3> QED
      BY <1>10, <3>1, Silences
  <2> QED
    BY <1>10, <1>12, <1>16, <2>1, SaidAfter
<1>22. \A k \in 1..Len(three) : three[k].name = Abort => three[k].arg \in Nat
  <2>1. /\ Len(three) = Len(two) + Len(StakeSettled)
        /\ \A i \in 1..Len(two) : three[i] = two[i]
        /\ \A i \in 1..Len(StakeSettled) : three[Len(two) + i] = StakeSettled[i]
        /\ \A i \in 1..Len(two) + Len(StakeSettled) :
              i \in 1..Len(two) \/ (i - Len(two) \in 1..Len(StakeSettled) /\ i = Len(two) + (i - Len(two)))
    BY <1>10, <1>12, Parts
  <2>2. \A i \in 1..Len(StakeSettled) : StakeSettled[i].name # Abort
    BY <1>10, RestApart DEF Named
  <2> SUFFICES ASSUME NEW k \in 1..Len(two) + Len(StakeSettled), three[k].name = Abort PROVE three[k].arg \in Nat
    BY <2>1
  <2> HIDE DEF three
  <2>3. k \in 1..Len(two)
    BY <2>1, <2>2
  <2> QED
    BY <1>17, <2>1, <2>3
<1> HIDE DEF three
<1>23. ev \in Seq(AllEvents) /\ Named(ev, (({"MilestoneCancelled"} \cup {Abort}) \cup {"Settled"}) \cup {"OutcomeRecorded"})
  BY <1>10, <1>18, ConcatProperties, NamedParts
<1>24. FirstIn(ev, Terminals, Saying(Terminals, EndEffect, "refunded"))
  BY <1>10, <1>18, <1>19, SaidAfter
<1>25. ASSUME NEW i \in Nat
       PROVE  /\ ms <= i => LastIn(ev, Concerning(i), Saying(Concerning(i), MilestoneEffect, "cancelled"))
              /\ i < ms => Mute(ev, Concerning(i))
  BY <1>1, <1>10, <1>18, <1>20, StakeTold, SaidAfter
<1>26. LastIn(ev, Aborts, Aborts)
  <2>1. Mute(Outcome, Aborts)
    <3>1. Abort \notin {"OutcomeRecorded"}
      BY RestApart
    <3> QED
      BY <1>10, <3>1, Silences
  <2> QED
    BY <1>10, <1>18, <1>21, <2>1, SaidAfter
<1>27. Placed(ev)
  <2>1. /\ Len(ev) = Len(three) + Len(Outcome)
        /\ \A i \in 1..Len(three) : ev[i] = three[i]
        /\ \A i \in 1..Len(Outcome) : ev[Len(three) + i] = Outcome[i]
        /\ \A i \in 1..Len(three) + Len(Outcome) :
              i \in 1..Len(three) \/ (i - Len(three) \in 1..Len(Outcome) /\ i = Len(three) + (i - Len(three)))
    BY <1>10, <1>18, Parts
  <2>2. \A i \in 1..Len(Outcome) : Outcome[i].name # Abort
    BY <1>10, RestApart DEF Named
  <2> SUFFICES ASSUME NEW k \in 1..Len(three) + Len(Outcome), ev[k].name = Abort PROVE ev[k].arg \in Nat
    BY <2>1 DEF Placed
  <2> HIDE DEF ev
  <2>3. k \in 1..Len(three)
    BY <2>1, <2>2
  <2> QED
    BY <1>22, <2>1, <2>3
<1> HIDE DEF ev
<1>28. onchain'.status = "refunded" /\ onchain'.ms = ms
  BY <1>1, <1>2, ToFields
<1>29. ~Mute(log', Aborts)
  <2>1. Len(ev) \in Nat
    BY <1>23
  <2>2. ~Mute(ev, Aborts)
    BY <1>26 DEF LastIn, Mute
  <2> QED
    BY <1>2, <1>23, <2>2, StillSaid
<1>30. ASSUME NEW i \in 0..onchain.count - 1 PROVE MilestoneSaid(ev, i)
  <2>1. i \in Nat
    BY <1>1
  <2>2. CASE ms <= i
    <3>1. ChainMilestone(onchain', log', i) = "cancelled"
      BY <1>1, <1>28, <1>29, <2>1, <2>2 DEF ChainMilestone
    <3> QED
      BY <1>25, <2>1, <2>2, <3>1 DEF MilestoneSaid, SaidOf
  <2>3. CASE i < ms
    <3>1. ChainMilestone(onchain', log', i) = "settled" /\ ChainMilestone(onchain, log, i) = "settled"
      BY <1>28, <2>3 DEF ChainMilestone
    <3> QED
      BY <1>25, <2>1, <2>3, <3>1 DEF MilestoneSaid, SaidOf
  <2> QED
    BY <1>1, <2>1, <2>2, <2>3
<1> DEFINE names == (({"MilestoneCancelled"} \cup {Abort}) \cup {"Settled"}) \cup {"OutcomeRecorded"}
<1>31. names \cap (OwnerNames2 \cup {"EscrowCreated"}) = {}
  BY <1>3, RestApart
<1>32. "refunded" \in Closed /\ onchain.status \notin Closed \cup {"none"}
  BY <1>2 DEF Closed
<1>33. Named(ev, names)
  BY <1>23
<1> HIDE DEF names
<1>34. Spoken(ev)
  BY <1>2, <1>23, <1>24, <1>27, <1>30, <1>31, <1>32, <1>33, ClosingSaid
<1> QED
  BY <1>34

LEMMA EmergencySpoken ==
    ASSUME ChainInv, EmergencyResolve
    PROVE  \E ev : Spoken(ev)
<1> DEFINE ms == onchain.ms
           told == Escrow("EmergencyResolved", "")
           last == Factory("EmergencyResolved", "")
           end == Escrow("Cancelled", "")
           left == onchain.count - onchain.ms
           row == [i \in 1..left |-> Escrow("MilestoneSettled", ms + i - 1)]
           middle == IF onchain.count = 1 THEN <<Escrow("Settled", "")>> ELSE MilestonesSettled
           two == <<told>> \o middle
           three == two \o Outcome
           ev == three \o <<last>>
<1>1. ms \in Nat /\ onchain.count \in Nat /\ left \in Int /\ OnchainOK /\ onchain.status \notin Closed \cup {"none"}
  <2>1. ms \in Nat /\ onchain.count \in Nat /\ OnchainOK
    BY DEF ChainInv, OnchainOK
  <2>2. left \in Int
    BY <2>1
  <2>3. onchain.status \notin Closed \cup {"none"}
    BY DEF EmergencyResolve, ChainInv, OnchainOK
  <2> QED
    BY <2>1, <2>2, <2>3
<1>2. \/ onchain' = To("cancelled") /\ Adds(<<end, last>>)
      \/ onchain' = To("settled") /\ Adds(ev)
  BY MinedAdds DEF EmergencyResolve
<1>3. told \in AllEvents /\ last \in AllEvents /\ end \in AllEvents
      /\ told.name = "EmergencyResolved" /\ last.name = "EmergencyResolved" /\ end.name = "Cancelled"
  BY EscrowEvents, EventSets DEF Escrow, Factory, EndingNames
<1>4. Word(end) \in Saying(Terminals, EndEffect, "cancelled") /\ Word(Escrow("Settled", "")) \in Saying(Terminals, EndEffect, "settled")
  <2>1. "" \in Arguments /\ "Cancelled" \in TerminalNames /\ "Settled" \in TerminalNames
    BY DEF Arguments, TerminalNames
  <2> QED
    BY <2>1, Speaks, Effects
<1> HIDE DEF told, last, end, left
<1>5. {"EmergencyResolved"} \cap TerminalNames = {} /\ {"EmergencyResolved"} \cap (MilestoneNames \cup {Abort}) = {}
  BY RestApart
<1>6. Named(<<told>>, {"EmergencyResolved"}) /\ Named(<<last>>, {"EmergencyResolved"})
      /\ <<told>> \in Seq(AllEvents) /\ <<last>> \in Seq(AllEvents)
  BY <1>3, NamedShort, Short
<1>7. Mute(<<told>>, Terminals) /\ Mute(<<last>>, Terminals)
      /\ \A i : Mute(<<told>>, Concerning(i)) /\ Mute(<<last>>, Concerning(i))
  BY <1>5, <1>6, Silences
<1>8. /\ Outcome \in Seq(AllEvents) /\ Named(Outcome, {"OutcomeRecorded"})
      /\ StakeSettled \in Seq(AllEvents) /\ Named(StakeSettled, {"Settled"})
  BY <1>1, NamedRest
<1>9. CASE onchain' = To("cancelled") /\ Adds(<<end, last>>)
  <2> DEFINE both == <<end, last>>
  <2>1. both \in Seq(AllEvents)
    BY <1>3, Short
  <2>2. Named(both, {"Cancelled", "EmergencyResolved"})
    <3>1. Named(both, {end.name, last.name})
      BY NamedShort
    <3> QED
      BY <1>3, <3>1
  <2>3. FirstIn(both, Terminals, Saying(Terminals, EndEffect, "cancelled"))
    BY <1>4, SaidAlone
  <2> HIDE DEF both
  <2>4. {"Cancelled", "EmergencyResolved"} \cap NoTopic = {}
    BY TopicsApart
  <2>5. "cancelled" \in Closed /\ "cancelled" # "settled" /\ EndEffect["Cancelled"] = "cancelled"
    BY Effects DEF Closed
  <2>6. Adds(both) /\ onchain' = To("cancelled")
    BY <1>9 DEF both
  <2>7. Spoken(both)
    BY <1>1, <2>1, <2>2, <2>3, <2>4, <2>5, <2>6, EndSaid
  <2> QED
    BY <2>7
<1>10. CASE onchain' = To("settled") /\ Adds(ev)
  <2>1. "MilestoneSettled" \in MilestoneNames
    BY MilestoneEffects
  <2>2. /\ row \in Seq(AllEvents) /\ Named(row, {"MilestoneSettled"})
        /\ \A i \in Nat : i < ms => Mute(row, Concerning(i))
        /\ \A i \in Nat : ms <= i /\ i < ms + left =>
              LastIn(row, Concerning(i), Saying(Concerning(i), MilestoneEffect, "settled"))
    BY <1>1, <2>1, RowSaid, MilestoneEffects
  <2>3. MilestonesSettled = row \o StakeSettled
    BY DEF MilestonesSettled, left
  <2> HIDE DEF row
  <2>4. Mute(row, Terminals)
    <3>1. {"MilestoneSettled"} \cap TerminalNames = {}
      BY <2>1, RestApart
    <3> QED
      BY <2>2, <3>1, Silences
  <2> DEFINE names == {"MilestoneSettled"} \cup {"Settled"}
  <2>5. /\ middle \in Seq(AllEvents) /\ Named(middle, names)
        /\ FirstIn(middle, Terminals, Saying(Terminals, EndEffect, "settled")) \/ Mute(middle, Terminals)
        /\ onchain.count > 1 =>
              \A i \in 0..onchain.count - 1 :
                 IF i < ms THEN Mute(middle, Concerning(i))
                 ELSE LastIn(middle, Concerning(i), Saying(Concerning(i), MilestoneEffect, "settled"))
    <3>1. CASE onchain.count = 1
      <4> DEFINE a == Escrow("Settled", "")
      <4>1. middle = <<a>>
        BY <3>1
      <4>2. a \in AllEvents /\ a.name = "Settled"
        BY EscrowEvents, EventSets DEF Escrow
      <4> HIDE DEF a
      <4>3. <<a>> \in Seq(AllEvents) /\ Named(<<a>>, {"Settled"})
        BY <4>2, NamedShort, Short
      <4>4. FirstIn(<<a>>, Terminals, Saying(Terminals, EndEffect, "settled"))
        BY <1>4, SaidAlone DEF a
      <4> HIDE DEF middle
      <4>5. Named(middle, names)
        BY <4>1, <4>3 DEF Named
      <4> QED
        BY <3>1, <4>1, <4>3, <4>4, <4>5
    <3>2. CASE onchain.count # 1
      <4>1. middle = row \o StakeSettled
        BY <2>3, <3>2
      <4> HIDE DEF middle
      <4>2. middle \in Seq(AllEvents)
        BY <1>8, <2>2, <4>1, ConcatProperties
      <4>3. Named(middle, names)
        BY <1>8, <2>2, <4>1, NamedParts
      <4>4. FirstIn(middle, Terminals, Saying(Terminals, EndEffect, "settled")) \/ Mute(middle, Terminals)
        BY <1>1, <1>8, <2>2, <2>4, <4>1, StakeTold, SaidAfter
      <4>5. ASSUME NEW i \in 0..onchain.count - 1
            PROVE  IF i < ms THEN Mute(middle, Concerning(i))
                   ELSE LastIn(middle, Concerning(i), Saying(Concerning(i), MilestoneEffect, "settled"))
        <5>1. i \in Nat /\ (~(i < ms) => ms <= i /\ i < ms + left)
          BY <1>1 DEF left
        <5>2. Mute(StakeSettled, Concerning(i))
          BY <1>1, StakeTold
        <5>3. CASE i < ms
          BY <1>8, <2>2, <4>1, <5>1, <5>2, <5>3, SaidAfter
        <5>4. CASE ~(i < ms)
          <6>1. LastIn(row, Concerning(i), Saying(Concerning(i), MilestoneEffect, "settled"))
            BY <2>2, <5>1, <5>4
          <6> QED
            BY <1>8, <2>2, <4>1, <5>2, <5>4, <6>1, SaidAfter
        <5> QED
          BY <5>3, <5>4
      <4> QED
        BY <4>2, <4>3, <4>4, <4>5
    <3> QED
      BY <3>1, <3>2
  <2> HIDE DEF middle
  <2>6. two \in Seq(AllEvents) /\ Named(two, {"EmergencyResolved"} \cup names)
    BY <1>6, <2>5, ConcatProperties, NamedParts
  <2>7. FirstIn(two, Terminals, Saying(Terminals, EndEffect, "settled")) \/ Mute(two, Terminals)
    BY <1>6, <1>7, <2>5, SaidAfter
  <2>8. ASSUME onchain.count > 1, NEW i \in 0..onchain.count - 1
        PROVE  IF i < ms THEN Mute(two, Concerning(i))
               ELSE LastIn(two, Concerning(i), Saying(Concerning(i), MilestoneEffect, "settled"))
    <3>1. CASE i < ms
      <4>1. Mute(middle, Concerning(i)) /\ Mute(<<told>>, Concerning(i))
        BY <1>7, <2>5, <2>8, <3>1
      <4> QED
        BY <1>6, <2>5, <3>1, <4>1, SaidAfter
    <3>2. CASE ~(i < ms)
      <4>1. LastIn(middle, Concerning(i), Saying(Concerning(i), MilestoneEffect, "settled"))
        BY <2>5, <2>8, <3>2
      <4> QED
        BY <1>6, <2>5, <3>2, <4>1, SaidAfter
    <3> QED
      BY <3>1, <3>2
  <2> HIDE DEF two
  <2>9. three \in Seq(AllEvents) /\ Named(three, ({"EmergencyResolved"} \cup names) \cup {"OutcomeRecorded"})
    BY <1>8, <2>6, ConcatProperties, NamedParts
  <2>10. Mute(Outcome, Terminals) /\ \A i : Mute(Outcome, Concerning(i))
    BY <1>1, StakeTold
  <2>11. FirstIn(three, Terminals, Saying(Terminals, EndEffect, "settled")) \/ Mute(three, Terminals)
    BY <1>8, <2>6, <2>7, <2>10, SaidAfter
  <2>12. ASSUME onchain.count > 1, NEW i \in 0..onchain.count - 1
         PROVE  IF i < ms THEN Mute(three, Concerning(i))
                ELSE LastIn(three, Concerning(i), Saying(Concerning(i), MilestoneEffect, "settled"))
    <3>1. CASE i < ms
      <4>1. Mute(two, Concerning(i)) /\ Mute(Outcome, Concerning(i))
        BY <2>8, <2>10, <2>12, <3>1
      <4> QED
        BY <1>8, <2>6, <3>1, <4>1, SaidAfter
    <3>2. CASE ~(i < ms)
      <4>1. LastIn(two, Concerning(i), Saying(Concerning(i), MilestoneEffect, "settled")) /\ Mute(Outcome, Concerning(i))
        BY <2>8, <2>10, <2>12, <3>2
      <4> QED
        BY <1>8, <2>6, <3>2, <4>1, SaidAfter
    <3> QED
      BY <3>1, <3>2
  <2> HIDE DEF three
  <2> DEFINE all == (({"EmergencyResolved"} \cup names) \cup {"OutcomeRecorded"}) \cup {"EmergencyResolved"}
  <2>13. ev \in Seq(AllEvents) /\ Named(ev, all)
    BY <1>6, <2>9, ConcatProperties, NamedParts
  <2>14. FirstIn(ev, Terminals, Saying(Terminals, EndEffect, "settled")) \/ Mute(ev, Terminals)
    BY <1>6, <1>7, <2>9, <2>11, SaidAfter
  <2>15. ASSUME onchain.count > 1, NEW i \in 0..onchain.count - 1
         PROVE  IF i < ms THEN Mute(ev, Concerning(i))
                ELSE LastIn(ev, Concerning(i), Saying(Concerning(i), MilestoneEffect, "settled"))
    <3>1. CASE i < ms
      <4>1. Mute(three, Concerning(i)) /\ Mute(<<last>>, Concerning(i))
        BY <1>7, <2>12, <2>15, <3>1
      <4> QED
        BY <1>6, <2>9, <3>1, <4>1, SaidAfter
    <3>2. CASE ~(i < ms)
      <4>1. LastIn(three, Concerning(i), Saying(Concerning(i), MilestoneEffect, "settled")) /\ Mute(<<last>>, Concerning(i))
        BY <1>7, <2>12, <2>15, <3>2
      <4> QED
        BY <1>6, <2>9, <3>2, <4>1, SaidAfter
    <3> QED
      BY <3>1, <3>2
  <2>16. Adds(ev) /\ onchain' = To("settled")
    BY <1>10
  <2> HIDE DEF ev
  <2>17. all \cap (OwnerNames2 \cup {"EscrowCreated"}) = {} /\ Abort \notin all
    BY <2>1, RestApart
  <2>18. Placed(ev)
    <3> HIDE DEF all
    <3> QED
      BY <2>13, <2>17, Silences
  <2>19. onchain'.status = "settled"
    BY <1>1, <2>16, ToFields
  <2>20. ASSUME onchain.count > 1, NEW i \in 0..onchain.count - 1 PROVE MilestoneSaid(ev, i)
    <3>1. ChainMilestone(onchain', log', i) = "settled"
      BY <2>19 DEF ChainMilestone
    <3>2. CASE i < ms
      <4>1. ChainMilestone(onchain, log, i) = "settled"
        BY <3>2 DEF ChainMilestone
      <4>2. Mute(ev, Concerning(i))
        BY <2>15, <2>20, <3>2
      <4> QED
        BY <3>1, <4>1, <4>2 DEF MilestoneSaid, SaidOf
    <3>3. CASE ~(i < ms)
      <4>1. LastIn(ev, Concerning(i), Saying(Concerning(i), MilestoneEffect, "settled"))
        BY <2>15, <2>20, <3>3
      <4> QED
        BY <3>1, <4>1 DEF MilestoneSaid, SaidOf
    <3> QED
      BY <3>2, <3>3
  <2>21. "settled" \in Closed
    BY DEF Closed
  <2> HIDE DEF all
  <2>22. Spoken(ev)
    BY <1>1, <2>13, <2>14, <2>16, <2>17, <2>18, <2>20, <2>21, ClosingSaid
  <2> QED
    BY <2>22
<1> QED
  BY <1>2, <1>9, <1>10

\* Every transaction but the escrow's creation.
LEMMA AllSpoken ==
    ASSUME ChainInv, Mine, ~Create
    PROVE  \E ev : Spoken(ev)
  BY OpenSteps, SilenceSaid, EndsSpoken, OwnerSpoken, MilestoneOneSpoken, MilestonesSpoken, AbortSpoken, EmergencySpoken
  DEF Mine

-----------------------------------------------------------------------------
\* What the chain says of itself.

FreezeTold == Tells(log, Freezes, FreezeEffect, onchain.frozen, {FALSE})
BackupTold == Tells(log, Backups, BackupEffect, onchain.backup, {FALSE})
BarTold == Tells(log, Bars, BarEffect, onchain.barred, {FALSE})
Twins ==
    \A l \in Places : log[l].name \in TwinNames =>
       \E m \in Places : Word(log[m]) \in Freezes /\ log[m].block = log[l].block
ArgsTold == \A l \in Places : log[l].name = Abort => log[l].arg \in Nat
BornTold ==
    onchain.status = "none" =>
       /\ onchain.ms = 0 /\ onchain.msStatus = "pending"
       /\ \A l \in Places : log[l].name # "EscrowCreated"
EndTold ==
    \/ FirstIn(log, Terminals, Saying(Terminals, EndEffect, onchain.status))
    \/ onchain.status = "settled" /\ Mute(log, Terminals)
StatusTold ==
    IF onchain.status \in Closed THEN EndTold
    ELSE Tells(log, Opens, EventStatus, onchain.status, {"none", "created"})
MilestoneTold(i) == Tells(log, Concerning(i), MilestoneEffect, ChainMilestone(onchain, log, i), {"pending"})
MilestonesTold == onchain.count > 1 => \A i \in 0..onchain.count - 1 : MilestoneTold(i)

ChainTold ==
    /\ FreezeTold /\ BackupTold /\ BarTold /\ Twins /\ ArgsTold
    /\ BornTold /\ StatusTold /\ MilestonesTold

LEMMA OpenMute ==
    ASSUME ChainInv, onchain.status \notin Closed
    PROVE  Mute(log, Terminals)
<1>1. \A k \in 1..Len(log) : log[k].name \notin EndingNames
  BY DEF ChainInv, EndsOK, Places
<1>2. \A w \in Terminals : w.name \in EndingNames
  BY DEF Terminals, Events, TerminalNames, EndingNames
<1> QED
  BY <1>1, <1>2 DEF Mute, Word

\* Nothing is said of an escrow that is not there.
LEMMA NoneMute ==
    ASSUME ChainInv, BornTold, onchain.status = "none", NEW C, \A w \in C : w.from = "escrow"
    PROVE  Mute(log, C)
<1>1. \A l \in 1..Len(log) : log[l].from # "escrow"
  BY DEF ChainInv, BornOK, BornTold, Places
<1> QED
  BY <1>1 DEF Mute, Word

LEMMA NoneStep ==
    ASSUME ChainInv, Mine, onchain.status = "none", ~Create
    PROVE  /\ onchain'.status = onchain.status /\ onchain'.ms = onchain.ms
           /\ onchain'.msStatus = onchain.msStatus
<1>1. onchain.frozen # TRUE
  BY DEF ChainInv
<1>2. onchain.frozen \in BOOLEAN
  BY DEF ChainInv, OnchainOK
<1>3. ~(Fund \/ Cancel \/ DepositStake \/ ActivateBackup \/ Submit \/ Approve \/ Dispute \/ EscalateSilence \/ Resolve)
  BY DEF Fund, Cancel, DepositStake, ActivateBackup, Submit, Approve, Dispute, EscalateSilence, Resolve
<1>4. ~(\/ ClaimTimeoutRefund \/ ClaimArbitratorTimeout \/ ClaimMilestoneTimeout
        \/ SubmitMilestone \/ ApproveMilestone \/ DisputeMilestone \/ ResolveMilestone \/ AbortRemainingMilestones)
  BY DEF ClaimTimeoutRefund, ClaimArbitratorTimeout, ClaimMilestoneTimeout, SubmitMilestone, ApproveMilestone,
     DisputeMilestone, ResolveMilestone, AbortRemainingMilestones
<1>5. ~(Freeze \/ Unfreeze \/ EmergencyResolve)
  BY <1>1, <1>2 DEF Freeze, Unfreeze, EmergencyResolve
<1>6. CASE FreezeAddress
  <2>1. onchain' = [onchain EXCEPT !.barred = TRUE]
    BY <1>6, MinedAdds DEF FreezeAddress
  <2> QED
    BY <2>1 DEF ChainInv, OnchainOK
<1>7. CASE UnfreezeAddress
  <2>1. onchain' = [onchain EXCEPT !.barred = FALSE]
    BY <1>7, MinedAdds DEF UnfreezeAddress
  <2> QED
    BY <2>1 DEF ChainInv, OnchainOK
<1> QED
  BY <1>3, <1>4, <1>5, <1>6, <1>7 DEF Mine

LEMMA OwnerTold ==
    ASSUME ChainInv, ChainTold, NEW ev \in Seq(AllEvents), Adds(ev), OwnerSaid(ev), Placed(ev)
    PROVE  FreezeTold' /\ BackupTold' /\ BarTold' /\ Twins' /\ ArgsTold'
<1>1. log \in Seq(Logs) /\ head \in Nat
  BY DEF ChainInv, LogOK
<1>2. OwnerSaid(ev) /\ Placed(ev)
  OBVIOUS
<1>3. FreezeTold'
  BY <1>1, <1>2, TellsOn DEF ChainTold, FreezeTold, OwnerSaid
<1>4. BackupTold'
  BY <1>1, <1>2, TellsOn DEF ChainTold, BackupTold, OwnerSaid
<1>5. BarTold'
  BY <1>1, <1>2, TellsOn DEF ChainTold, BarTold, OwnerSaid
<1>6. /\ Places \subseteq Places' /\ \A l \in Places : log'[l] = log[l]
      /\ \A l \in New : l - Len(log) \in 1..Len(ev) /\ Says(l, ev[l - Len(log)])
      /\ \A l \in New : log'[l].block = head + 1
      /\ \A i \in 1..Len(ev) : Len(log) + i \in New
      /\ Len(log) \in Nat
  BY <1>2, LogStep
<1>7. Twins'
  <2>1. ASSUME NEW l \in Places', log'[l].name \in TwinNames
        PROVE  \E m \in Places' : Word(log'[m]) \in Freezes /\ log'[m].block = log'[l].block
    <3>1. CASE l \in Places
      <4>1. PICK m \in Places : Word(log[m]) \in Freezes /\ log[m].block = log[l].block
        BY <1>6, <2>1, <3>1 DEF ChainTold, Twins
      <4> QED
        BY <1>6, <3>1, <4>1
    <3>2. CASE l \in New
      <4>1. ev[l - Len(log)].name \in TwinNames /\ l - Len(log) \in 1..Len(ev)
        BY <1>6, <2>1, <3>2 DEF Says
      <4>2. PICK j \in 1..Len(ev) : Word(ev[j]) \in Freezes
        BY <1>2, <4>1 DEF OwnerSaid, Twinned
      <4> DEFINE m == Len(log) + j
      <4>3. m \in New /\ m - Len(log) = j
        BY <1>6, <4>2
      <4>4. Says(m, ev[j])
        BY <1>6, <4>3
      <4>5. Word(log'[m]) = Word(ev[j])
        BY <4>4 DEF Says, Word
      <4>6. log'[m].block = log'[l].block /\ m \in Places'
        BY <1>6, <3>2, <4>3 DEF New
      <4> HIDE DEF m
      <4> QED
        BY <4>2, <4>5, <4>6
    <3> QED
      BY <3>1, <3>2 DEF New
  <2> QED
    BY <2>1 DEF Twins
<1>8. ArgsTold'
  <2>1. ASSUME NEW l \in Places', log'[l].name = Abort PROVE log'[l].arg \in Nat
    <3>1. CASE l \in Places
      BY <1>6, <2>1, <3>1 DEF ChainTold, ArgsTold
    <3>2. CASE l \in New
      BY <1>2, <1>6, <2>1, <3>2 DEF Says, Placed
    <3> QED
      BY <3>1, <3>2 DEF New
  <2> QED
    BY <2>1 DEF ArgsTold
<1> QED
  BY <1>3, <1>4, <1>5, <1>7, <1>8

\* A step whose events say it all.
LEMMA SpokenTold ==
    ASSUME ChainInv, ChainTold, NEW ev, Spoken(ev),
           onchain.status = "none" => /\ onchain'.status = "none" /\ onchain'.ms = onchain.ms
                                      /\ onchain'.msStatus = onchain.msStatus
    PROVE  ChainTold' /\ (onchain.status # "none" => onchain'.status # "none") /\ onchain'.count = onchain.count
<1>1. log \in Seq(Logs) /\ head \in Nat
  BY DEF ChainInv, LogOK
<1>2. ev \in Seq(AllEvents) /\ Adds(ev) /\ Unborn(ev) /\ OwnerSaid(ev) /\ StatusSaid(ev) /\ MilestonesSaid(ev)
  BY DEF Spoken
<1>3. FreezeTold' /\ BackupTold' /\ BarTold' /\ Twins' /\ ArgsTold'
  BY <1>2, OwnerTold DEF MilestonesSaid
<1>6. /\ Places \subseteq Places' /\ \A l \in Places : log'[l] = log[l]
      /\ \A l \in New : l - Len(log) \in 1..Len(ev) /\ Says(l, ev[l - Len(log)])
      /\ \A l \in New : log'[l].block = head + 1
      /\ \A i \in 1..Len(ev) : Len(log) + i \in New
      /\ Len(log) \in Nat
  BY <1>2, LogStep
<1>9. onchain.status # "none" => onchain'.status # "none"
  BY <1>2 DEF StatusSaid, Closed
<1>10. BornTold'
  <2> SUFFICES ASSUME onchain'.status = "none"
               PROVE  /\ onchain'.ms = 0 /\ onchain'.msStatus = "pending"
                      /\ \A l \in Places' : log'[l].name # "EscrowCreated"
    BY DEF BornTold
  <2>1. onchain.status = "none"
    BY <1>9
  <2>2. onchain'.ms = 0 /\ onchain'.msStatus = "pending"
    BY <2>1 DEF ChainTold, BornTold
  <2>3. \A l \in Places : log'[l].name # "EscrowCreated"
    BY <1>6, <2>1 DEF ChainTold, BornTold
  <2>4. \A l \in New : log'[l].name # "EscrowCreated"
    BY <1>2, <1>6 DEF Says, Unborn
  <2> QED
    BY <2>2, <2>3, <2>4 DEF New
<1>11. StatusTold'
  <2>1. CASE onchain'.status = onchain.status /\ Mute(ev, Opens) /\ Mute(ev, Terminals)
    <3>1. CASE onchain.status \in Closed
      <4>1. EndTold
        BY <3>1 DEF ChainTold, StatusTold
      <4>2. EndTold'
        <5>1. CASE FirstIn(log, Terminals, Saying(Terminals, EndEffect, onchain.status))
          <6>1. FirstIn(log', Terminals, Saying(Terminals, EndEffect, onchain.status))
            BY <1>1, <1>2, <5>1, SaidNow
          <6> QED
            BY <2>1, <6>1 DEF EndTold
        <5>2. CASE onchain.status = "settled" /\ Mute(log, Terminals)
          <6>1. Mute(log', Terminals)
            BY <1>1, <1>2, <2>1, <5>2, SaidNow
          <6> QED
            BY <2>1, <5>2, <6>1 DEF EndTold
        <5> QED
          BY <4>1, <5>1, <5>2 DEF EndTold
      <4> QED
        BY <2>1, <3>1, <4>2 DEF StatusTold
    <3>2. CASE onchain.status \notin Closed
      <4>1. Tells(log, Opens, EventStatus, onchain.status, {"none", "created"})
        BY <3>2 DEF ChainTold, StatusTold
      <4>2. SaidOf(ev, Opens, EventStatus, onchain.status, onchain'.status)
        BY <2>1 DEF SaidOf
      <4>3. Tells(log', Opens, EventStatus, onchain'.status, {"none", "created"})
        BY <1>1, <1>2, <4>1, <4>2, TellsOn
      <4> QED
        BY <2>1, <3>2, <4>3 DEF StatusTold
    <3> QED
      BY <3>1, <3>2
  <2>2. CASE {onchain.status, onchain'.status} \cap (Closed \cup {"none"}) = {} /\ SaysOpen(ev)
    <3>1. LastIn(log', Opens, Saying(Opens, EventStatus, onchain'.status))
      BY <1>1, <1>2, <2>2, SaidNow DEF SaysOpen
    <3>2. Tells(log', Opens, EventStatus, onchain'.status, {"none", "created"})
      BY <3>1 DEF Tells
    <3>3. onchain'.status \notin Closed
      BY <2>2
    <3> QED
      BY <3>2, <3>3 DEF StatusTold
  <2>3. CASE /\ onchain.status \notin Closed \cup {"none"} /\ onchain'.status \in Closed
             /\ SaysEnd(ev) \/ (onchain'.status = "settled" /\ Mute(ev, Terminals))
    <3>1. Mute(log, Terminals)
      BY <2>3, OpenMute
    <3>2. EndTold'
      <4>1. CASE SaysEnd(ev)
        <5>1. FirstIn(log', Terminals, Saying(Terminals, EndEffect, onchain'.status))
          BY <1>1, <1>2, <3>1, <4>1, SaidNow DEF SaysEnd
        <5> QED
          BY <5>1 DEF EndTold
      <4>2. CASE onchain'.status = "settled" /\ Mute(ev, Terminals)
        <5>1. Mute(log', Terminals)
          BY <1>1, <1>2, <3>1, <4>2, SaidNow
        <5> QED
          BY <4>2, <5>1 DEF EndTold
      <4> QED
        BY <2>3, <4>1, <4>2
    <3> QED
      BY <2>3, <3>2 DEF StatusTold
  <2> QED
    BY <1>2, <2>1, <2>2, <2>3 DEF StatusSaid
<1>12. onchain'.count = onchain.count
  BY <1>2 DEF MilestonesSaid
<1>13. MilestonesTold'
  <2>1. ASSUME onchain'.count > 1, NEW i \in 0..onchain'.count - 1
        PROVE  Tells(log', Concerning(i), MilestoneEffect, ChainMilestone(onchain', log', i), {"pending"})
    <3>1. onchain.count > 1 /\ i \in 0..onchain.count - 1
      BY <1>12, <2>1
    <3>2. MilestoneSaid(ev, i) /\ MilestoneTold(i)
      BY <1>2, <3>1 DEF MilestonesSaid, ChainTold, MilestonesTold
    <3> QED
      BY <1>1, <1>2, <3>2, TellsOn DEF MilestoneSaid, MilestoneTold
  <2> QED
    BY <2>1 DEF MilestonesTold, MilestoneTold
<1> QED
  BY <1>3, <1>9, <1>10, <1>11, <1>12, <1>13 DEF ChainTold

LEMMA CreateTold ==
    ASSUME ChainInv, ChainTold, Create
    PROVE  ChainTold' /\ onchain'.status # "none" /\ onchain.status = "none"
<1> DEFINE a == Factory("EscrowCreated", "")
           ev == <<a>>
<1>1. PICK n \in MilestoneCounts : Mined("create", <<Factory("EscrowCreated", "")>>,
                                         [onchain EXCEPT !.status = "created", !.count = n])
  BY DEF Create
<1>2. Adds(ev) /\ onchain' = [onchain EXCEPT !.status = "created", !.count = n]
      /\ onchain.status = "none" /\ n \in Nat
  BY <1>1, MinedAdds, ChainAssumption DEF Create
<1>3. /\ onchain'.status = "created" /\ onchain'.frozen = onchain.frozen /\ onchain'.backup = onchain.backup
      /\ onchain'.barred = onchain.barred /\ onchain'.ms = onchain.ms /\ onchain'.msStatus = onchain.msStatus
      /\ onchain'.count = n
  BY <1>2 DEF ChainInv, OnchainOK
<1>4. a \in AllEvents /\ a.name = "EscrowCreated"
  BY EscrowEvents, EventSets DEF Factory
<1> HIDE DEF a
<1>5. ev \in Seq(AllEvents) /\ Named(ev, {"EscrowCreated"})
  <2>1. Named(<<a>>, {a.name})
    BY NamedShort
  <2> QED
    BY <1>4, <2>1, Short
<1>6. {"EscrowCreated"} \cap (OwnerNames2 \cup OpenNames \cup MilestoneNames \cup {Abort}) = {}
  BY MilestoneEffects DEF OwnerNames2, OpenNames, FreezeNames, TwinNames, BarNames, Abort
<1>7. {"EscrowCreated"} \cap OwnerNames2 = {} /\ {"EscrowCreated"} \cap OpenNames = {}
      /\ {"EscrowCreated"} \cap (MilestoneNames \cup {Abort}) = {} /\ Abort \notin {"EscrowCreated"}
  BY <1>6
<1> HIDE DEF ev
<1>8. Mute(ev, Opens) /\ Mute(ev, Aborts) /\ Placed(ev) /\ \A i : Mute(ev, Concerning(i))
  BY <1>5, <1>7, Silences
<1>9. OwnerSaid(ev)
  BY <1>3, <1>5, <1>7, OwnerSilent
<1>10. FreezeTold' /\ BackupTold' /\ BarTold' /\ Twins' /\ ArgsTold'
  BY <1>2, <1>5, <1>8, <1>9, OwnerTold
<1>11. log \in Seq(Logs) /\ head \in Nat /\ BornTold
  BY DEF ChainInv, LogOK, ChainTold
<1>12. Mute(log, Opens) /\ Mute(log, Aborts) /\ \A i : Mute(log, Concerning(i))
  <2>1. \A w \in Opens : w.from = "escrow"
    BY DEF Opens, Events
  <2>2. \A w \in Aborts : w.from = "escrow"
    BY DEF Aborts, Events
  <2>3. \A i : \A w \in Concerning(i) : w.from = "escrow"
    BY DEF Concerning
  <2> QED
    BY <1>2, <1>11, <2>1, <2>2, <2>3, NoneMute
<1>13. Mute(log', Opens) /\ Mute(log', Aborts) /\ \A i : Mute(log', Concerning(i))
  BY <1>2, <1>5, <1>8, <1>11, <1>12, SaidNow
<1>14. BornTold'
  BY <1>3 DEF BornTold
<1>15. StatusTold'
  <2>1. Tells(log', Opens, EventStatus, onchain'.status, {"none", "created"})
    BY <1>3, <1>13 DEF Tells
  <2> QED
    BY <1>3, <2>1 DEF StatusTold, Closed
<1>16. MilestonesTold'
  <2>1. onchain'.ms = 0 /\ onchain'.msStatus = "pending"
    BY <1>2, <1>3, <1>11 DEF BornTold
  <2>2. ASSUME NEW i \in 0..onchain'.count - 1
        PROVE  Tells(log', Concerning(i), MilestoneEffect, ChainMilestone(onchain', log', i), {"pending"})
    <3>1. ~(i < 0)
      OBVIOUS
    <3>2. ChainMilestone(onchain', log', i) = "pending"
      BY <1>3, <1>13, <2>1, <3>1 DEF ChainMilestone
    <3> QED
      BY <1>13, <3>2 DEF Tells
  <2> QED
    BY <2>2 DEF MilestonesTold, MilestoneTold
<1> QED
  BY <1>2, <1>3, <1>10, <1>14, <1>15, <1>16 DEF ChainTold

LEMMA ChainToldStep ==
    ASSUME ChainInv, ChainTold, Mine
    PROVE  /\ ChainTold'
           /\ onchain.status # "none" => onchain'.status # "none" /\ onchain'.count = onchain.count
<1>1. CASE Create
  BY <1>1, CreateTold
<1>2. CASE ~Create
  <2>1. PICK ev : Spoken(ev)
    BY <1>2, AllSpoken
  <2>2. onchain.status = "none" => /\ onchain'.status = "none" /\ onchain'.ms = onchain.ms
                                   /\ onchain'.msStatus = onchain.msStatus
    BY <1>2, NoneStep
  <2> QED
    BY <2>1, <2>2, SpokenTold
<1> QED
  BY <1>1, <1>2

LEMMA ChainToldRests == ASSUME ChainTold, UNCHANGED chainVars PROVE ChainTold'
<1>1. onchain' = onchain /\ log' = log /\ head' = head
  BY DEF chainVars
<1>2. FreezeTold' /\ BackupTold' /\ BarTold' /\ Twins' /\ ArgsTold' /\ BornTold'
  BY <1>1 DEF ChainTold, FreezeTold, BackupTold, BarTold, Twins, ArgsTold, BornTold, Places
<1>3. StatusTold'
  BY <1>1 DEF ChainTold, StatusTold, EndTold
<1>4. MilestonesTold'
  BY <1>1 DEF ChainTold, MilestonesTold, MilestoneTold
<1> QED
  BY <1>2, <1>3, <1>4 DEF ChainTold

LEMMA ChainToldStarts == ChainInit => ChainTold
<1> SUFFICES ASSUME ChainInit PROVE ChainTold
  OBVIOUS
<1>1. /\ onchain.frozen = FALSE /\ onchain.backup = FALSE /\ onchain.barred = FALSE /\ onchain.status = "none"
      /\ onchain.ms = 0 /\ onchain.msStatus = "pending" /\ ~(onchain.count > 1) /\ Len(log) = 0
  BY DEF ChainInit
<1>2. \A C : Mute(log, C)
  BY <1>1 DEF Mute
<1>3. FreezeTold /\ BackupTold /\ BarTold
  BY <1>1, <1>2 DEF FreezeTold, BackupTold, BarTold, Tells
<1>4. Twins /\ ArgsTold /\ BornTold /\ MilestonesTold
  BY <1>1 DEF Twins, ArgsTold, BornTold, MilestonesTold, Places
<1>5. StatusTold
  BY <1>1, <1>2 DEF StatusTold, Tells, Closed
<1> QED
  BY <1>3, <1>4, <1>5 DEF ChainTold

-----------------------------------------------------------------------------
\* What a table has taken from the logs R that it has seen: when it has seen all
\* of a subject it holds what the last of them says.

SeenIn(s, R, C) == \A l \in 1..Len(s) : Word(s[l]) \in C => l \in R
HoldsIn(s, R, C, eff, x, X) == SeenIn(s, R, C) => Tells(s, C, eff, x, X)
Less(R, due, c) == R \ (IF due THEN {c} ELSE {})

\* Nothing of the subject was seen since.
LEMMA HoldsOn ==
    ASSUME NEW s, NEW R, NEW Q, NEW C, NEW eff, NEW x, NEW X, HoldsIn(s, R, C, eff, x, X),
           \A l \in 1..Len(s) : (Word(s[l]) \in C /\ l \in Q) => l \in R
    PROVE  HoldsIn(s, Q, C, eff, x, X)
<1>1. SeenIn(s, Q, C) => SeenIn(s, R, C)
  BY DEF SeenIn
<1> QED
  BY <1>1 DEF HoldsIn

\* The last of it was seen now, and taken.
LEMMA HoldsLast ==
    ASSUME NEW s, NEW Q, NEW C, NEW eff, NEW x, NEW X,
           NEW l \in 1..Len(s), Word(s[l]) \in Saying(C, eff, x),
           \A m \in 1..Len(s) : (Word(s[m]) \in C /\ m \in Q) => ~(l < m)
    PROVE  HoldsIn(s, Q, C, eff, x, X)
<1> SUFFICES ASSUME SeenIn(s, Q, C) PROVE LastIn(s, C, Saying(C, eff, x))
  BY DEF HoldsIn, Tells
<1>1. ASSUME NEW j \in 1..Len(s), j > l PROVE Word(s[j]) \notin C
  <2>1. l < j
    BY <1>1
  <2> QED
    BY <2>1 DEF SeenIn
<1> QED
  BY <1>1 DEF LastIn

\* None of it was seen yet.
LEMMA HoldsFresh ==
    ASSUME NEW s, NEW Q, NEW C, NEW eff, NEW X, NEW x \in X,
           \A m \in 1..Len(s) : Word(s[m]) \in C => m \notin Q
    PROVE  HoldsIn(s, Q, C, eff, x, X)
  BY DEF HoldsIn, SeenIn, Tells, Mute

\* Some of it was not.
LEMMA HoldsUnseen ==
    ASSUME NEW s, NEW Q, NEW C, NEW eff, NEW X, NEW x, NEW m \in 1..Len(s), Word(s[m]) \in C, m \notin Q
    PROVE  HoldsIn(s, Q, C, eff, x, X)
  BY DEF HoldsIn, SeenIn

\* The chain grows.
LEMMA MinedLater ==
    ASSUME Grows, NEW C
    PROVE  /\ (\A l \in New : Word(log'[l]) \notin C) =>
                 /\ Mute(log, C) => Mute(log', C)
                 /\ \A D : LastIn(log, C, D) => LastIn(log', C, D)
           /\ Mute(log', C) => Mute(log, C)
           /\ \A D : FirstIn(log, C, D) => FirstIn(log', C, D)
<1>1. /\ \A l \in Places : l \in Places' /\ log'[l] = log[l]
      /\ \A l \in Places, m \in New : l < m
      /\ \A l \in Places' : l \in Places \/ l \in New
  BY DEF Grows, New
<1>2. ASSUME \A l \in New : Word(log'[l]) \notin C, Mute(log, C) PROVE Mute(log', C)
  BY <1>1, <1>2 DEF Mute, Places
<1>3. ASSUME \A l \in New : Word(log'[l]) \notin C, NEW D, LastIn(log, C, D) PROVE LastIn(log', C, D)
  <2>1. PICK k \in Places : Word(log[k]) \in D /\ \A j \in Places : j > k => Word(log[j]) \notin C
    BY <1>3 DEF LastIn, Places
  <2>2. Word(log'[k]) \in D /\ k \in Places'
    BY <1>1, <2>1
  <2>3. ASSUME NEW j \in Places', j > k PROVE Word(log'[j]) \notin C
    <3>1. CASE j \in Places
      BY <1>1, <2>1, <2>3, <3>1
    <3>2. CASE j \in New
      BY <1>3, <3>2
    <3> QED
      BY <1>1, <3>1, <3>2
  <2> QED
    BY <2>2, <2>3 DEF LastIn, Places
<1>4. Mute(log', C) => Mute(log, C)
  BY <1>1 DEF Mute, Places
<1>5. ASSUME NEW D, FirstIn(log, C, D) PROVE FirstIn(log', C, D)
  <2>1. PICK k \in Places : Word(log[k]) \in D /\ \A j \in Places : j < k => Word(log[j]) \notin C
    BY <1>5 DEF FirstIn, Places
  <2>2. Word(log'[k]) \in D /\ k \in Places'
    BY <1>1, <2>1
  <2>3. ASSUME NEW j \in Places', j < k PROVE Word(log'[j]) \notin C
    <3>1. CASE j \in Places
      BY <1>1, <2>1, <2>3, <3>1
    <3>2. CASE j \in New
      <4>1. k < j /\ k \in Int /\ j \in Int
        BY <1>1, <3>2 DEF Places, New
      <4> QED
        BY <2>3, <4>1
    <3> QED
      BY <1>1, <3>1, <3>2
  <2> QED
    BY <2>2, <2>3 DEF FirstIn, Places
<1> QED
  BY <1>2, <1>3, <1>4, <1>5

LEMMA HoldsMined ==
    ASSUME Grows, NEW R, R \subseteq Places, NEW C, NEW eff, NEW x, NEW X, HoldsIn(log, R, C, eff, x, X)
    PROVE  HoldsIn(log', R, C, eff, x, X)
<1>1. /\ \A l \in Places : l \in Places' /\ log'[l] = log[l]
      /\ \A l \in New : l \in Places' /\ l \notin R
  BY DEF Grows, New
<1>2. CASE \E l \in New : Word(log'[l]) \in C
  BY <1>1, <1>2, HoldsUnseen DEF Places
<1>3. CASE \A l \in New : Word(log'[l]) \notin C
  <2>1. SeenIn(log', R, C) => SeenIn(log, R, C)
    BY <1>1 DEF SeenIn, Places
  <2>2. Tells(log, C, eff, x, X) => Tells(log', C, eff, x, X)
    BY <1>3, MinedLater DEF Tells
  <2> QED
    BY <2>1, <2>2 DEF HoldsIn
<1> QED
  BY <1>2, <1>3

-----------------------------------------------------------------------------
\* The fields of the row that a step writes.

RowFields == {"by", "status", "frozen", "backup", "current", "milestones", "submissions", "disputes",
              "tokens", "barred"}
NoTokens == {}
Same(r, s, F) == \A f \in RowFields : f \notin F => s[f] = r[f]

LEMMA SameFields ==
    ASSUME NEW r, NEW s, NEW F, Same(r, s, F)
    PROVE  /\ "by" \notin F => s.by = r.by
           /\ "status" \notin F => s.status = r.status
           /\ "frozen" \notin F => s.frozen = r.frozen
           /\ "backup" \notin F => s.backup = r.backup
           /\ "milestones" \notin F => s.milestones = r.milestones
           /\ "submissions" \notin F => s.submissions = r.submissions
           /\ "tokens" \notin F => s.tokens = r.tokens
           /\ "barred" \notin F => s.barred = r.barred
  BY DEF Same, RowFields

LEMMA SameThrough ==
    ASSUME NEW r, NEW s, NEW t, NEW F, NEW G, Same(r, s, F), Same(s, t, G)
    PROVE  Same(r, t, F \cup G)
  BY DEF Same

LEMMA Edits ==
    ASSUME NEW r, WholeRow(r), NEW x
    PROVE  /\ Same(r, [r EXCEPT !.status = x], {"status"}) /\ Same(r, [r EXCEPT !.tokens = x], {"tokens"})
           /\ Same(r, [r EXCEPT !.submissions = x], {"submissions"})
           /\ Same(r, [r EXCEPT !.disputes = x], {"disputes"})
           /\ Same(r, [r EXCEPT !.backup = x], {"backup"}) /\ Same(r, [r EXCEPT !.frozen = x], {"frozen"})
           /\ Same(r, [r EXCEPT !.barred = x], {"barred"})
           /\ Same(r, [r EXCEPT !.milestones = x], {"milestones"})
           /\ Same(r, [r EXCEPT !.current = x], {"current"})
           /\ [r EXCEPT !.tokens = x].tokens = x /\ [r EXCEPT !.submissions = x].submissions = x
           /\ [r EXCEPT !.backup = x].backup = x /\ [r EXCEPT !.frozen = x].frozen = x
           /\ [r EXCEPT !.barred = x].barred = x /\ [r EXCEPT !.milestones = x].milestones = x
<1>1. DOMAIN r = RowFields
  BY DEF WholeRow, RowFields
<1>2. /\ Same(r, [r EXCEPT !.status = x], {"status"}) /\ Same(r, [r EXCEPT !.tokens = x], {"tokens"})
      /\ Same(r, [r EXCEPT !.submissions = x], {"submissions"})
  BY <1>1 DEF Same
<1>3. /\ Same(r, [r EXCEPT !.disputes = x], {"disputes"}) /\ Same(r, [r EXCEPT !.backup = x], {"backup"})
      /\ Same(r, [r EXCEPT !.frozen = x], {"frozen"})
  BY <1>1 DEF Same
<1>4. /\ Same(r, [r EXCEPT !.barred = x], {"barred"}) /\ Same(r, [r EXCEPT !.milestones = x], {"milestones"})
      /\ Same(r, [r EXCEPT !.current = x], {"current"})
  BY <1>1 DEF Same
<1>5. /\ "tokens" \in DOMAIN r /\ "submissions" \in DOMAIN r /\ "backup" \in DOMAIN r /\ "frozen" \in DOMAIN r
      /\ "barred" \in DOMAIN r /\ "milestones" \in DOMAIN r
  BY <1>1 DEF RowFields
<1>6. /\ [r EXCEPT !.tokens = x].tokens = x /\ [r EXCEPT !.submissions = x].submissions = x
      /\ [r EXCEPT !.backup = x].backup = x
  BY <1>5
<1>7. /\ [r EXCEPT !.frozen = x].frozen = x
      /\ [r EXCEPT !.barred = x].barred = x /\ [r EXCEPT !.milestones = x].milestones = x
  BY <1>5
<1> QED
  BY <1>2, <1>3, <1>4, <1>6, <1>7

LEMMA EnteredFields ==
    ASSUME NEW creator, NEW milestones
    PROVE  LET r == Inserted(creator, milestones)
           IN  /\ r.frozen = FALSE /\ r.backup = FALSE /\ r.submissions = 0 /\ r.tokens = NoTokens
               /\ r.barred = db.barred /\ r.milestones = milestones
<1> DEFINE r == Row(creator, milestones)
           x == db.barred
<1>1. /\ WholeRow(r) /\ r.frozen = FALSE /\ r.backup = FALSE /\ r.submissions = 0 /\ r.tokens = NoTokens
      /\ r.milestones = milestones
  BY DEF WholeRow, Row, NoTokens
<1>2. Inserted(creator, milestones) = [r EXCEPT !.barred = x]
  BY DEF Inserted
<1> HIDE DEF r, x
<1>3. Same(r, [r EXCEPT !.barred = x], {"barred"}) /\ [r EXCEPT !.barred = x].barred = x
  BY <1>1, Edits
<1> QED
  BY <1>1, <1>2, <1>3, SameFields DEF x

\* The row of the escrow is entered, by whoever comes first.
Enters ==
    /\ ~HasRow
    /\ \E creator, milestones :
          /\ creator # "nobody" /\ db' = Inserted(creator, milestones)
          /\ milestones = NoMilestones \/ (onchain.count > 1 /\ milestones = PendingMilestones)

LEMMA EnteredRow ==
    ASSUME Enters
    PROVE  /\ HasRow' /\ db'.status = "created" /\ db'.frozen = FALSE /\ db'.backup = FALSE
           /\ db'.submissions = 0 /\ db'.tokens = NoTokens /\ db'.barred = db.barred
           /\ db'.milestones = NoMilestones \/ (onchain.count > 1 /\ db'.milestones = PendingMilestones)
<1>1. PICK creator, milestones :
          /\ creator # "nobody" /\ db' = Inserted(creator, milestones)
          /\ milestones = NoMilestones \/ (onchain.count > 1 /\ milestones = PendingMilestones)
  BY DEF Enters
<1>2. db'.by = creator /\ db'.status = "created"
  BY <1>1, RowEntered
<1>3. /\ db'.frozen = FALSE /\ db'.backup = FALSE /\ db'.submissions = 0 /\ db'.tokens = NoTokens
      /\ db'.barred = db.barred /\ db'.milestones = milestones
  <2> DEFINE r == Inserted(creator, milestones)
  <2>1. /\ r.frozen = FALSE /\ r.backup = FALSE /\ r.submissions = 0 /\ r.tokens = NoTokens
        /\ r.barred = db.barred /\ r.milestones = milestones
    BY EnteredFields
  <2>2. db' = r
    BY <1>1
  <2> HIDE DEF r
  <2> QED
    BY <2>1, <2>2, Zenon
<1> QED
  BY <1>1, <1>2, <1>3 DEF HasRow

LEMMA MilestoneSame ==
    ASSUME NEW e, WholeRow(db)
    PROVE  /\ Same(db, WithMilestone(e), {"milestones", "current"})
           /\ WithMilestone(e).milestones =
                 IF e.name \in DOMAIN MilestoneEventStatus /\ e.arg \in DOMAIN db.milestones
                 THEN [db.milestones EXCEPT ![e.arg] = MilestoneEventStatus[e.name]] ELSE db.milestones
<1> DEFINE x == MilestoneEventStatus[e.name]
           y == IF x \in PastMilestone THEN e.arg + 1 ELSE db.current
           m == [db.milestones EXCEPT ![e.arg] = x]
           a == [db EXCEPT !.milestones = m]
           b == [a EXCEPT !.current = y]
<1>1. WithMilestone(e) = IF e.name \in DOMAIN MilestoneEventStatus /\ e.arg \in DOMAIN db.milestones
                         THEN b ELSE db
  BY DEF WithMilestone
<1> HIDE DEF m, y
<1>2. WholeRow(a) /\ Same(db, a, {"milestones"}) /\ a.milestones = m
  BY RowWritten, Edits
<1> HIDE DEF a
<1>3. Same(a, b, {"current"})
  BY <1>2, Edits
<1> HIDE DEF b
<1>4. Same(db, b, {"milestones"} \cup {"current"}) /\ b.milestones = m
  BY <1>2, <1>3, SameThrough, SameFields
<1>5. {"milestones"} \cup {"current"} = {"milestones", "current"}
  OBVIOUS
<1>6. Same(db, db, {"milestones", "current"})
  BY DEF Same
<1> QED
  BY <1>1, <1>4, <1>5, <1>6 DEF m

LEMMA AbortSame ==
    ASSUME NEW p, WholeRow(db), HandleRemainingMilestonesAborted(p)
    PROVE  /\ Same(db, db', {"status", "milestones"})
           /\ db'.milestones = [i \in DOMAIN db.milestones |-> IF i >= Event(p).arg THEN "cancelled"
                                                              ELSE db.milestones[i]]
<1> DEFINE m == [i \in DOMAIN db.milestones |-> IF i >= Event(p).arg THEN "cancelled" ELSE db.milestones[i]]
           x == "refunded"
           a == [db EXCEPT !.status = x]
<1>1. db' = [a EXCEPT !.milestones = m]
  <2>1. db' = [db EXCEPT !.status = x, !.milestones = [i \in DOMAIN @ |-> IF i >= Event(p).arg
                                                                           THEN "cancelled" ELSE @[i]]]
    BY DEF HandleRemainingMilestonesAborted, Writes
  <2>2. a.milestones = db.milestones
    BY Edits, SameFields
  <2> QED
    BY <2>1, <2>2
<1>2. WholeRow(a) /\ Same(db, a, {"status"})
  BY RowWritten, Edits
<1> HIDE DEF m, a, x
<1>3. Same(a, db', {"milestones"}) /\ db'.milestones = m
  BY <1>1, <1>2, Edits
<1>4. Same(db, db', {"status"} \cup {"milestones"})
  BY <1>2, <1>3, SameThrough
<1>5. {"status"} \cup {"milestones"} = {"status", "milestones"}
  OBVIOUS
<1> QED
  BY <1>3, <1>4, <1>5 DEF m

FieldsMove(p) ==
    /\ db'.frozen = db.frozen \/ HandleEscrowFrozenEscrow(p) \/ HandleEscrowFrozenFactory(p) \/ Enters
    /\ db'.backup = db.backup \/ HandleBackupActivated(p) \/ Enters
    /\ db'.submissions = db.submissions \/ HandleSubmission(p) \/ Enters
    /\ db'.barred = db.barred \/ HandleAddressFrozen(p)
    /\ db'.milestones = db.milestones \/ WriteMilestone(p) \/ HandleMilestoneSubmission(p)
          \/ HandleRemainingMilestonesAborted(p) \/ Enters
    /\ db'.tokens = db.tokens \/ db'.tokens = NoTokens
    /\ db'.by = db.by \/ (Enters /\ InsertEscrow(p))

LEMMA FieldMoves ==
    ASSUME NEW p \in Passes, WholeRow(db), Step(p)
    PROVE  FieldsMove(p)
<1>1. ASSUME db' = db PROVE FieldsMove(p)
  BY <1>1 DEF FieldsMove
<1>2. ASSUME NEW F, Same(db, db', F), F \cap {"by", "frozen", "backup", "submissions", "barred", "milestones", "tokens"} = {}
      PROVE  FieldsMove(p)
  BY <1>2, SameFields DEF FieldsMove
<1>3. Tick(p) \/ ReadCursor(p) \/ NothingNew(p) \/ ListEscrows(p) \/ SaveCursor(p) \/ CheckLog(p) \/ RecordLog(p)
        \/ ReadStatus(p) => db' = db
  BY DEF Tick, ReadCursor, NothingNew, ListEscrows, SaveCursor, CheckLog, RecordLog, ReadStatus, tables
<1>4. CASE RevokeTokens(p) \/ RevokeResolved(p)
  <2> DEFINE x == {}
  <2>1. db' = [db EXCEPT !.tokens = x]
    BY <1>4 DEF RevokeTokens, RevokeResolved, Writes
  <2> HIDE DEF x
  <2>2. Same(db, db', {"tokens"}) /\ db'.tokens = x
    BY <2>1, Edits
  <2>3. /\ db'.by = db.by /\ db'.frozen = db.frozen /\ db'.backup = db.backup /\ db'.submissions = db.submissions
        /\ db'.barred = db.barred /\ db'.milestones = db.milestones
    BY <2>2, SameFields
  <2> QED
    BY <2>2, <2>3 DEF FieldsMove, x, NoTokens
<1>5. CASE WriteStatus(p)
  <2> DEFINE x == EventStatus[Event(p).name]
  <2>1. db' = [db EXCEPT !.status = x]
    BY <1>5 DEF WriteStatus
  <2> HIDE DEF x
  <2>2. Same(db, db', {"status"})
    BY <2>1, Edits
  <2> QED
    BY <1>2, <2>2
<1>6. CASE WriteMilestone(p)
  <2>1. Same(db, db', {"milestones", "current"})
    BY <1>6, MilestoneSame DEF WriteMilestone
  <2>2. /\ db'.by = db.by /\ db'.frozen = db.frozen /\ db'.backup = db.backup /\ db'.submissions = db.submissions
        /\ db'.barred = db.barred /\ db'.tokens = db.tokens
    BY <2>1, SameFields
  <2> QED
    BY <1>6, <2>2 DEF FieldsMove
<1>7. CASE HandleSubmission(p)
  <2> DEFINE x == db.submissions + 1
  <2>1. db' = [db EXCEPT !.submissions = x]
    BY <1>7 DEF HandleSubmission, Writes
  <2> HIDE DEF x
  <2>2. Same(db, db', {"submissions"})
    BY <2>1, Edits
  <2>3. /\ db'.by = db.by /\ db'.frozen = db.frozen /\ db'.backup = db.backup /\ db'.milestones = db.milestones
        /\ db'.barred = db.barred /\ db'.tokens = db.tokens
    BY <2>2, SameFields
  <2> QED
    BY <1>7, <2>3 DEF FieldsMove
<1>8. CASE HandleDispute(p) \/ HandleMilestoneDispute(p)
  <2> DEFINE x == Append(db.disputes, "open")
  <2>1. db' = [db EXCEPT !.disputes = x]
    BY <1>8 DEF HandleDispute, HandleMilestoneDispute, Writes
  <2> HIDE DEF x
  <2>2. Same(db, db', {"disputes"})
    BY <2>1, Edits
  <2> QED
    BY <1>2, <2>2
<1>9. CASE HandleDisputeResolved(p) \/ HandleMilestoneDisputeResolved(p)
  <2> DEFINE x == DisputeClosed(db.disputes)
  <2>1. db' = [db EXCEPT !.disputes = x]
    BY <1>9 DEF HandleDisputeResolved, HandleMilestoneDisputeResolved, Writes
  <2> HIDE DEF x
  <2>2. Same(db, db', {"disputes"})
    BY <2>1, Edits
  <2> QED
    BY <1>2, <2>2
<1>10. CASE HandleMilestoneSubmission(p)
  <2> DEFINE x == [db.milestones EXCEPT ![Event(p).arg] = "submitted"]
  <2>1. db' = [db EXCEPT !.milestones = x] \/ db' = db
    BY <1>10 DEF HandleMilestoneSubmission, Writes, GivesUp, tables
  <2> HIDE DEF x
  <2>2. Same(db, [db EXCEPT !.milestones = x], {"milestones"})
    BY Edits
  <2>3. ASSUME Same(db, db', {"milestones"}) PROVE FieldsMove(p)
    <3>1. /\ db'.by = db.by /\ db'.frozen = db.frozen /\ db'.backup = db.backup /\ db'.submissions = db.submissions
          /\ db'.barred = db.barred /\ db'.tokens = db.tokens
      BY <2>3, SameFields
    <3> QED
      BY <1>10, <3>1 DEF FieldsMove
  <2> QED
    BY <1>1, <2>1, <2>2, <2>3, Zenon
<1>11. CASE HandleRemainingMilestonesAborted(p)
  <2>1. Same(db, db', {"status", "milestones"})
    BY <1>11, AbortSame
  <2>2. /\ db'.by = db.by /\ db'.frozen = db.frozen /\ db'.backup = db.backup /\ db'.submissions = db.submissions
        /\ db'.barred = db.barred /\ db'.tokens = db.tokens
    BY <2>1, SameFields
  <2> QED
    BY <1>11, <2>2 DEF FieldsMove
<1>12. CASE HandleBackupActivated(p)
  <2> DEFINE x == TRUE
  <2>1. db' = [db EXCEPT !.backup = x]
    BY <1>12 DEF HandleBackupActivated, Writes
  <2> HIDE DEF x
  <2>2. Same(db, db', {"backup"})
    BY <2>1, Edits
  <2>3. /\ db'.by = db.by /\ db'.frozen = db.frozen /\ db'.submissions = db.submissions /\ db'.milestones = db.milestones
        /\ db'.barred = db.barred /\ db'.tokens = db.tokens
    BY <2>2, SameFields
  <2> QED
    BY <1>12, <2>3 DEF FieldsMove
<1>13. ASSUME NEW x, db' = [db EXCEPT !.frozen = x], HandleEscrowFrozenEscrow(p) \/ HandleEscrowFrozenFactory(p)
       PROVE  FieldsMove(p)
  <2>2. Same(db, db', {"frozen"})
    BY <1>13, Edits
  <2>3. /\ db'.by = db.by /\ db'.backup = db.backup /\ db'.submissions = db.submissions /\ db'.milestones = db.milestones
        /\ db'.barred = db.barred /\ db'.tokens = db.tokens
    BY <2>2, SameFields
  <2> QED
    BY <1>13, <2>3 DEF FieldsMove
<1>14. CASE HandleEscrowFrozenEscrow(p)
  <2>1. db' = [db EXCEPT !.frozen = (Event(p).name = "EmergencyFrozen")]
    BY <1>14 DEF HandleEscrowFrozenEscrow, Writes
  <2> QED
    BY <1>13, <1>14, <2>1
<1>15. CASE HandleEscrowFrozenFactory(p)
  <2>1. db' = [db EXCEPT !.frozen = (Event(p).name = "EscrowFrozen")] \/ db' = db
    BY <1>15 DEF HandleEscrowFrozenFactory, Writes, GivesUp, tables
  <2> QED
    BY <1>1, <1>13, <1>15, <2>1
<1>16. CASE HandleAddressFrozen(p)
  <2> DEFINE x == Event(p).name = "AddressFrozen"
  <2>1. db' = [db EXCEPT !.barred = x]
    BY <1>16 DEF HandleAddressFrozen, Writes
  <2> HIDE DEF x
  <2>2. Same(db, db', {"barred"})
    BY <2>1, Edits
  <2>3. /\ db'.by = db.by /\ db'.frozen = db.frozen /\ db'.submissions = db.submissions /\ db'.milestones = db.milestones
        /\ db'.backup = db.backup /\ db'.tokens = db.tokens
    BY <2>2, SameFields
  <2> QED
    BY <1>16, <2>3 DEF FieldsMove
<1>17. HandleOther(p) \/ HandleOutcomeRecorded(p) \/ HandleEscrowCreated(p) => db' = db
  BY DEF HandleOther, HandleOutcomeRecorded, HandleEscrowCreated, Writes, tables
<1>18. CASE HandleEmergencyResolved(p)
  <2> DEFINE x == "resolved"
  <2>1. db' = [db EXCEPT !.status = x] \/ db' = db
    BY <1>18 DEF HandleEmergencyResolved, GivesUp, tables
  <2> HIDE DEF x
  <2>2. Same(db, [db EXCEPT !.status = x], {"status"})
    BY Edits
  <2>3. Same(db, db', {"status"}) => FieldsMove(p)
    BY <1>2
  <2> QED
    BY <1>1, <2>1, <2>2, <2>3, Zenon
<1>19. CASE InsertEscrow(p) /\ HasRow
  BY <1>1, <1>19 DEF InsertEscrow, GivesUp, tables
<1>20. CASE InsertEscrow(p) /\ ~HasRow
  <2>1. db' = Inserted("indexer", NoMilestones)
    BY <1>20 DEF InsertEscrow, Writes
  <2>2. Enters
    BY <1>20, <2>1 DEF Enters
  <2>3. db'.barred = db.barred /\ db'.tokens = NoTokens
    BY <2>2, EnteredRow
  <2> QED
    BY <1>20, <2>2, <2>3 DEF FieldsMove
<1> QED
  BY <1>1, <1>3, <1>4, <1>5, <1>6, <1>7, <1>8, <1>9, <1>10, <1>11, <1>12, <1>14, <1>15, <1>16, <1>17, <1>18,
     <1>19, <1>20 DEF Step

-----------------------------------------------------------------------------
\* Which step a pass takes where it is.

AtHandle(p) ==
    \/ HandleSubmission(p) \/ HandleDispute(p) \/ HandleDisputeResolved(p)
    \/ HandleMilestoneDispute(p) \/ HandleMilestoneDisputeResolved(p)
    \/ HandleMilestoneSubmission(p) \/ HandleRemainingMilestonesAborted(p)
    \/ HandleBackupActivated(p) \/ HandleEscrowFrozenEscrow(p) \/ HandleEscrowFrozenFactory(p)
    \/ HandleAddressFrozen(p) \/ HandleEmergencyResolved(p)
    \/ HandleOther(p) \/ HandleOutcomeRecorded(p) \/ HandleEscrowCreated(p)

LEMMA PointOf ==
    ASSUME NEW p, Step(p)
    PROVE  /\ At(p, "status") => ReadStatus(p)
           /\ At(p, "write") => WriteStatus(p)
           /\ At(p, "revoke") => RevokeTokens(p)
           /\ At(p, "milestone") => WriteMilestone(p)
           /\ At(p, "insert") => InsertEscrow(p)
           /\ At(p, "revokeResolved") => RevokeResolved(p)
           /\ At(p, "handle") => AtHandle(p)
<1> DEFINE pc == pass[p].pc
<1>1. (Tick(p) => pc = "idle") /\ (ReadCursor(p) \/ NothingNew(p) => pc = "cursor")
  BY DEF Tick, ReadCursor, NothingNew, At
<1>2. ListEscrows(p) \/ SaveCursor(p) \/ CheckLog(p) => pc = "next"
  BY DEF ListEscrows, SaveCursor, CheckLog, PartDone, At
<1>3. /\ RecordLog(p) => pc = "record"
      /\ ReadStatus(p) => pc = "status"
      /\ WriteStatus(p) => pc = "write"
      /\ RevokeTokens(p) => pc = "revoke"
      /\ WriteMilestone(p) => pc = "milestone"
      /\ InsertEscrow(p) => pc = "insert"
      /\ RevokeResolved(p) => pc = "revokeResolved"
  BY DEF RecordLog, ReadStatus, WriteStatus, RevokeTokens, WriteMilestone, InsertEscrow, RevokeResolved, At
<1>4. AtHandle(p) => pc = "handle"
  BY DEF AtHandle, HandleSubmission, HandleDispute, HandleDisputeResolved, HandleMilestoneDispute,
     HandleMilestoneDisputeResolved, HandleMilestoneSubmission, HandleRemainingMilestonesAborted,
     HandleBackupActivated, HandleEscrowFrozenEscrow, HandleEscrowFrozenFactory,
     HandleAddressFrozen, HandleEmergencyResolved, HandleOther, HandleOutcomeRecorded, HandleEscrowCreated,
     Handling, At
<1>5. \/ Tick(p) \/ ReadCursor(p) \/ NothingNew(p) \/ ListEscrows(p) \/ SaveCursor(p) \/ CheckLog(p) \/ RecordLog(p)
      \/ ReadStatus(p) \/ WriteStatus(p) \/ RevokeTokens(p) \/ WriteMilestone(p) \/ InsertEscrow(p)
      \/ RevokeResolved(p) \/ AtHandle(p)
  BY DEF Step, AtHandle
<1> HIDE DEF pc
<1> QED
  BY <1>1, <1>2, <1>3, <1>4, <1>5 DEF At, pc

LEMMA HandlerOf ==
    ASSUME NEW p, AtHandle(p)
    PROVE  /\ Event(p).from = "escrow" =>
                /\ Event(p).name \in FreezeNames => HandleEscrowFrozenEscrow(p)
                /\ Event(p).name = "BackupActivated" => HandleBackupActivated(p)
                /\ Event(p).name = "SubmissionMade" => HandleSubmission(p)
                /\ Event(p).name = Abort => HandleRemainingMilestonesAborted(p)
           /\ Event(p).from = "factory" /\ Event(p).name \in BarNames => HandleAddressFrozen(p)
<1> DEFINE n == Event(p).name
           f == Event(p).from
<1>1. /\ HandleSubmission(p) => f = "escrow" /\ n = "SubmissionMade"
      /\ HandleRemainingMilestonesAborted(p) => f = "escrow" /\ n = Abort
      /\ HandleBackupActivated(p) => f = "escrow" /\ n = "BackupActivated"
      /\ HandleEscrowFrozenEscrow(p) => f = "escrow" /\ n \in FreezeNames
      /\ HandleAddressFrozen(p) => f = "factory" /\ n \in BarNames
  BY DEF HandleSubmission, HandleRemainingMilestonesAborted, HandleBackupActivated, HandleEscrowFrozenEscrow,
     HandleAddressFrozen, Handling, Abort, FreezeNames, BarNames
<1>2. /\ HandleDispute(p) \/ HandleDisputeResolved(p) \/ HandleMilestoneDispute(p)
           \/ HandleMilestoneDisputeResolved(p) \/ HandleMilestoneSubmission(p) =>
           f = "escrow" /\ n \in {"Disputed", "SilenceEscalated", "MilestoneDisputed", "DisputeResolved",
                                  "MilestoneDisputeResolved", "MilestoneSubmitted"}
      /\ HandleEscrowFrozenFactory(p) => f = "factory" /\ n \in TwinNames
      /\ HandleEmergencyResolved(p) => n = "EmergencyResolved"
      /\ HandleOutcomeRecorded(p) \/ HandleEscrowCreated(p) =>
           f = "factory" /\ n \in {"OutcomeRecorded", "EscrowCreated"}
      /\ HandleOther(p) =>
           f = "escrow" /\ n \in {"EscrowFunded", "Cancelled", "WorkerStakeDeposited", "Approved",
                                  "Settled", "Refunded", "ArbitratorTimeoutClaimed", "MilestoneApproved",
                                  "MilestoneSettled", "MilestoneCancelled"}
  BY DEF HandleDispute, HandleDisputeResolved, HandleMilestoneDispute, HandleMilestoneDisputeResolved,
     HandleMilestoneSubmission, HandleEscrowFrozenFactory, HandleEmergencyResolved, HandleOutcomeRecorded,
     HandleEscrowCreated, HandleOther, Handling, TwinNames
<1> HIDE DEF n, f
<1>3. f = "escrow" =>
        /\ n \in FreezeNames => HandleEscrowFrozenEscrow(p)
        /\ n = "BackupActivated" => HandleBackupActivated(p)
  BY <1>1, <1>2 DEF AtHandle, FreezeNames, Abort, BarNames, TwinNames
<1>4. f = "escrow" =>
        /\ n = "SubmissionMade" => HandleSubmission(p)
        /\ n = Abort => HandleRemainingMilestonesAborted(p)
  BY <1>1, <1>2 DEF AtHandle, FreezeNames, Abort, BarNames, TwinNames
<1>5. f = "factory" /\ n \in BarNames => HandleAddressFrozen(p)
  BY <1>1, <1>2 DEF AtHandle, FreezeNames, Abort, BarNames, TwinNames
<1> QED
  BY <1>3, <1>4, <1>5 DEF n, f

-----------------------------------------------------------------------------
\* What the tables have taken up: all that is recorded, but for the log that the
\* poller is at until it has written what it says.

Busy == pass[Poller].pc \in Beyond
StatusDue == pass[Poller].pc \in {"status", "write"} \/ (Busy /\ Event(Poller).name = Abort)
MilestoneDue == pass[Poller].pc = "milestone" \/ (Busy /\ Event(Poller).name = Abort)
Handled == Less(chainLogs, Busy, Current(Poller))
StatusSeen == Less(chainLogs, StatusDue, Current(Poller))
MilestonesSeen == Less(chainLogs, MilestoneDue, Current(Poller))

SameLog == Current(Poller)' = Current(Poller) /\ Event(Poller)' = Event(Poller)
Turn ==
    \/ UNCHANGED <<chainLogs, db>> /\ ~Busy /\ ~Busy'
    \/ /\ RecordLog(Poller) /\ db' = db /\ ~Busy /\ SameLog
       /\ chainLogs' = chainLogs \cup {Current(Poller)}
       /\ pass'[Poller].pc = FirstStep(Event(Poller))
    \/ Busy /\ Busy' /\ SameLog /\ chainLogs' = chainLogs /\ Current(Poller) \in chainLogs
    \/ Busy /\ ~Busy' /\ pass'[Poller].pc = "next" /\ chainLogs' = chainLogs /\ Current(Poller) \in chainLogs

LEMMA Turns ==
    ASSUME TypeInv, WalkInv, Step(Poller)
    PROVE  Turn /\ UNCHANGED chainVars /\ (pass[Poller].pc \in AtLog => Current(Poller) \in Places)
<1> DEFINE p == Poller
<1>1. p \in Passes /\ PassesOK /\ PassOK(p) /\ WholeRow(db) /\ WalkOK(p) /\ ChainInv
  BY IndexerAssumption DEF TypeInv, TablesOK, PassesOK, WalkInv
<1>2. UNCHANGED chainVars
  BY <1>1, StepTables
<1>3. ASSUME NEW pc, Goto(p, pc) PROVE SameLog /\ pass'[p].pc = pc
  <2>1. pass'[p].todo = pass[p].todo /\ pass'[p].pc = pc
    BY <1>1, <1>3, GoesOn
  <2>2. log' = log
    BY <1>2 DEF chainVars
  <2> QED
    BY <2>1, <2>2 DEF SameLog, Current, Event
<1>4. CASE Tick(p) \/ ReadCursor(p) \/ NothingNew(p) \/ ListEscrows(p) \/ SaveCursor(p)
  <2>1. pass'[p].pc \in {"idle", "cursor", "next"}
    BY <1>1, <1>4, BetweenLogs
  <2>2. UNCHANGED <<chainLogs, db>> /\ pass[p].pc \in {"idle", "cursor", "next"}
    BY <1>4 DEF Tick, ReadCursor, NothingNew, ListEscrows, SaveCursor, tables, At, PartDone
  <2> QED
    BY <1>2, <2>1, <2>2 DEF Turn, Busy, Beyond, AtLog
<1>5. CASE CheckLog(p)
  <2>1. pass'[p].pc \in {"next", "record"}
    BY <1>1, <1>5, GoesNext, GoesOn DEF CheckLog
  <2>2. UNCHANGED <<chainLogs, db>> /\ pass[p].pc = "next"
    BY <1>5 DEF CheckLog, tables, At
  <2> QED
    BY <1>2, <2>1, <2>2 DEF Turn, Busy, Beyond, AtLog
<1>6. pass[p].pc \in AtLog => Current(p) \in Places
  BY <1>1, CurrentFirst DEF PassOK
<1>7. CASE RecordLog(p)
  <2>1. /\ db' = db /\ pass[p].pc = "record" /\ chainLogs' = chainLogs \cup {Current(p)}
        /\ Goto(p, FirstStep(Event(p)))
    BY <1>7 DEF RecordLog, At
  <2>2. SameLog /\ pass'[p].pc = FirstStep(Event(p))
    BY <1>3, <2>1
  <2> QED
    BY <1>2, <1>6, <1>7, <2>1, <2>2 DEF Turn, Busy, Beyond
<1>8. pass[p].pc \in Beyond => Current(p) \in chainLogs
  BY <1>1 DEF WalkOK, Past, At, Beyond
<1>9. CASE Works(p)
  <2>1. CASE Continues(p)
    <3>1. PICK pc \in Beyond : Goto(p, pc) /\ pass[p].pc \in Beyond /\ chainLogs' = chainLogs
      BY <2>1 DEF Continues
    <3>2. SameLog /\ pass'[p].pc = pc
      BY <1>3, <3>1
    <3> QED
      BY <1>2, <1>6, <1>8, <3>1, <3>2 DEF Turn, Busy
  <2>2. CASE Finishes(p)
    <3>1. NextLog(p) /\ pass[p].pc \in Beyond /\ chainLogs' = chainLogs
      BY <2>2 DEF Finishes
    <3>2. pass'[p].pc = "next"
      BY <1>1, <3>1, GoesNext
    <3> QED
      BY <1>2, <1>6, <1>8, <3>1, <3>2 DEF Turn, Busy, Beyond
  <2> QED
    BY <1>9, <2>1, <2>2 DEF Works
<1> QED
  BY <1>1, <1>4, <1>5, <1>7, <1>9, PassSteps

LEMMA FromNames ==
    ASSUME ChainInv, NEW l \in Places
    PROVE  /\ log[l].from \in {"escrow", "factory"} /\ log[l].arg \in Arguments /\ log[l].block \in Nat /\ l \in Nat
           /\ log[l].name \in MilestoneNames \cup TerminalNames \cup {Abort, "SubmissionMade"} => log[l].from = "escrow"
<1>1. Told(l) \in AllEvents /\ log \in Seq(Logs) /\ l \in Nat
  BY PlacesNat DEF ChainInv, LogOK
<1>2. log[l] \in Logs
  BY <1>1 DEF Places
<1>3. Told(l).from = log[l].from /\ Told(l).name = log[l].name
  BY DEF Told
<1>4. \A e \in AllEvents : e.from = "factory" =>
         e.name \in OwnerNames \cup {"OutcomeRecorded", "EmergencyResolved", "EscrowCreated"}
  BY DEF AllEvents, Plain, Owned, Ending, Late, Births, Reports, Events
<1>5. (MilestoneNames \cup TerminalNames \cup {Abort, "SubmissionMade"})
        \cap (OwnerNames \cup {"OutcomeRecorded", "EmergencyResolved", "EscrowCreated"}) = {}
  BY MilestoneEffects DEF TerminalNames, OwnerNames, BarNames, Abort
<1>6. log[l].from \in {"escrow", "factory"} /\ log[l].arg \in Arguments /\ log[l].block \in Nat
  BY <1>2 DEF Logs
<1> QED
  BY <1>1, <1>3, <1>4, <1>5, <1>6

LEMMA Finishing ==
    ASSUME TypeInv, Step(Poller), Busy, pass'[Poller].pc = "next"
    PROVE  AtHandle(Poller) \/ Event(Poller).name \in {"EscrowCreated", "EmergencyResolved"}
<1> DEFINE p == Poller
<1>1. p \in Passes /\ PassesOK /\ PassOK(p)
  BY IndexerAssumption DEF TypeInv, PassesOK
<1>2. \A pc : Goto(p, pc) => pc = "next"
  BY <1>1, GoesOn
<1>3. ~(ReadStatus(p) \/ WriteStatus(p) \/ RevokeTokens(p) \/ WriteMilestone(p))
  BY <1>2 DEF ReadStatus, WriteStatus, RevokeTokens, WriteMilestone
<1>4. /\ pass[p].pc = "insert" => Event(p).name = "EscrowCreated"
      /\ pass[p].pc = "revokeResolved" => Event(p).name = "EmergencyResolved"
  BY <1>1 DEF PassOK, PointOK, ForLog
<1> QED
  BY <1>3, <1>4, PointOf DEF Busy, Beyond, At

LEMMA HandledMoves ==
    ASSUME TypeInv, WalkInv, Step(Poller)
    PROVE  \/ Handled' \subseteq Handled
           \/ /\ Busy /\ pass'[Poller].pc = "next" /\ chainLogs' = chainLogs /\ Current(Poller) \in chainLogs
              /\ Handled' = Handled \cup {Current(Poller)} /\ Current(Poller) \notin Handled
<1>1. Turn
  BY Turns
<1>2. CASE RecordLog(Poller) /\ ~Busy /\ SameLog /\ chainLogs' = chainLogs \cup {Current(Poller)}
           /\ pass'[Poller].pc = FirstStep(Event(Poller))
  <2>1. Busy'
    BY <1>2 DEF FirstStep, Busy, Beyond
  <2> QED
    BY <1>2, <2>1 DEF Handled, Less, SameLog
<1>3. CASE UNCHANGED <<chainLogs, db>> /\ ~Busy /\ ~Busy'
  BY <1>3 DEF Handled, Less
<1>4. CASE Busy /\ Busy' /\ SameLog /\ chainLogs' = chainLogs
  BY <1>4 DEF Handled, Less, SameLog
<1>5. CASE Busy /\ ~Busy' /\ pass'[Poller].pc = "next" /\ chainLogs' = chainLogs /\ Current(Poller) \in chainLogs
  BY <1>5 DEF Handled, Less
<1> QED
  BY <1>1, <1>2, <1>3, <1>4, <1>5 DEF Turn

StatusTaken ==
    \/ RecordLog(Poller) /\ FirstStep(Event(Poller)) # "status" /\ Event(Poller).name # Abort
    \/ ReadStatus(Poller) /\ db.status \in TerminalStatuses
    \/ WriteStatus(Poller)
    \/ HandleRemainingMilestonesAborted(Poller)
MilestoneTaken ==
    \/ RecordLog(Poller) /\ Event(Poller).name \notin MilestoneNames \cup {Abort}
    \/ WriteMilestone(Poller)
    \/ HandleRemainingMilestonesAborted(Poller)

LEMMA AbortTaken ==
    ASSUME TypeInv, WalkInv, Step(Poller), Busy, pass'[Poller].pc = "next", Event(Poller).name = Abort
    PROVE  HandleRemainingMilestonesAborted(Poller)
<1>1. ChainInv /\ Current(Poller) \in Places
  BY Turns DEF TypeInv, Busy, AtLog
<1>2. Event(Poller).from = "escrow"
  BY <1>1, FromNames DEF Event
<1>3. AtHandle(Poller)
  BY Finishing DEF Abort
<1> QED
  BY <1>2, <1>3, HandlerOf

LEMMA StatusSeenMoves ==
    ASSUME TypeInv, WalkInv, Step(Poller), NEW l \in StatusSeen'
    PROVE  l \in StatusSeen \/ (l = Current(Poller) /\ l \in Places /\ StatusTaken)
<1> DEFINE p == Poller
           c == Current(Poller)
<1>1. Turn /\ (pass[p].pc \in AtLog => c \in Places) /\ PassesOK /\ p \in Passes
  BY Turns, IndexerAssumption DEF TypeInv
<1>2. StatusDue => Busy
  BY DEF StatusDue, Busy, Beyond
<1>3. CASE UNCHANGED <<chainLogs, db>> /\ ~Busy /\ ~Busy'
  BY <1>2, <1>3 DEF StatusSeen, Less
<1>4. CASE RecordLog(p) /\ ~Busy /\ SameLog /\ chainLogs' = chainLogs \cup {c}
           /\ pass'[p].pc = FirstStep(Event(p))
  <2>1. Busy' /\ c \in Places
    BY <1>1, <1>4 DEF FirstStep, Busy, Beyond, RecordLog, At, AtLog
  <2>2. l \in chainLogs \/ l = c
    BY <1>4 DEF StatusSeen, Less
  <2>3. l \in chainLogs => l \in StatusSeen
    BY <1>2, <1>4 DEF StatusSeen, Less
  <2>4. ASSUME l = c, l \notin chainLogs PROVE ~StatusDue'
    BY <1>4, <2>4 DEF StatusSeen, Less, SameLog
  <2>5. ~StatusDue' => FirstStep(Event(p)) # "status" /\ Event(p).name # Abort
    BY <1>4, <2>1 DEF StatusDue, SameLog
  <2> QED
    BY <1>4, <2>1, <2>2, <2>3, <2>4, <2>5 DEF StatusTaken
<1>5. ASSUME Busy, chainLogs' = chainLogs, l \notin StatusSeen
      PROVE  l = c /\ StatusDue /\ c \in Places
  BY <1>1, <1>5 DEF StatusSeen, Less, Busy, AtLog
<1>6. \A pc : Goto(p, pc) => pass'[p].pc = pc
  BY <1>1, GoesOn
<1>7. ReadStatus(p) /\ pass'[p].pc # "write" => db.status \in TerminalStatuses
  BY <1>6 DEF ReadStatus
<1>8. CASE Busy /\ Busy' /\ SameLog /\ chainLogs' = chainLogs
  <2> SUFFICES ASSUME l \notin StatusSeen PROVE StatusTaken
    BY <1>5, <1>8
  <2>1. l = c /\ StatusDue
    BY <1>5, <1>8
  <2>2. ~StatusDue'
    BY <1>8, <2>1 DEF StatusSeen, Less, SameLog
  <2>3. Event(p).name # Abort /\ pass'[p].pc # "write"
    BY <1>8, <2>2 DEF StatusDue, SameLog
  <2>4. pass[p].pc \in {"status", "write"}
    BY <2>1, <2>3 DEF StatusDue
  <2> QED
    BY <1>7, <2>3, <2>4, PointOf DEF StatusTaken, At
<1>9. CASE Busy /\ pass'[p].pc = "next" /\ chainLogs' = chainLogs
  <2> SUFFICES ASSUME l \notin StatusSeen PROVE StatusTaken
    BY <1>5, <1>9
  <2>1. StatusDue
    BY <1>5, <1>9
  <2>2. CASE Event(p).name = Abort
    BY <1>9, <2>2, AbortTaken DEF StatusTaken
  <2>3. CASE pass[p].pc \in {"status", "write"}
    BY <1>7, <1>9, <2>3, PointOf DEF StatusTaken, At
  <2> QED
    BY <2>1, <2>2, <2>3 DEF StatusDue
<1> QED
  BY <1>1, <1>3, <1>4, <1>8, <1>9 DEF Turn

LEMMA MilestonesSeenMoves ==
    ASSUME TypeInv, WalkInv, Step(Poller), NEW l \in MilestonesSeen'
    PROVE  l \in MilestonesSeen \/ (l = Current(Poller) /\ l \in Places /\ MilestoneTaken)
<1> DEFINE p == Poller
           c == Current(Poller)
<1>1. Turn /\ (pass[p].pc \in AtLog => c \in Places) /\ PassesOK /\ p \in Passes /\ ChainInv
  BY Turns, IndexerAssumption DEF TypeInv
<1>2. MilestoneDue => Busy
  BY DEF MilestoneDue, Busy, Beyond
<1>3. CASE UNCHANGED <<chainLogs, db>> /\ ~Busy /\ ~Busy'
  BY <1>2, <1>3 DEF MilestonesSeen, Less
<1>4. CASE RecordLog(p) /\ ~Busy /\ SameLog /\ chainLogs' = chainLogs \cup {c}
           /\ pass'[p].pc = FirstStep(Event(p))
  <2>1. Busy' /\ c \in Places
    BY <1>1, <1>4 DEF FirstStep, Busy, Beyond, RecordLog, At, AtLog
  <2>2. l \in chainLogs \/ l = c
    BY <1>4 DEF MilestonesSeen, Less
  <2>3. l \in chainLogs => l \in MilestonesSeen
    BY <1>2, <1>4 DEF MilestonesSeen, Less
  <2>4. ASSUME l = c, l \notin chainLogs PROVE ~MilestoneDue'
    BY <1>4, <2>4 DEF MilestonesSeen, Less, SameLog
  <2>5. ~MilestoneDue' => FirstStep(Event(p)) # "milestone" /\ Event(p).name # Abort
    BY <1>4, <2>1 DEF MilestoneDue, SameLog
  <2>6. Event(p).name \in MilestoneNames => FirstStep(Event(p)) = "milestone"
    <3>1. MilestoneNames \cap DOMAIN EventStatus = {}
      BY MilestoneEffects DEF EventStatus
    <3> QED
      BY <3>1 DEF FirstStep, MilestoneNames
  <2> QED
    BY <1>4, <2>1, <2>2, <2>3, <2>4, <2>5, <2>6 DEF MilestoneTaken
<1>5. ASSUME Busy, chainLogs' = chainLogs, l \notin MilestonesSeen
      PROVE  l = c /\ MilestoneDue /\ c \in Places
  BY <1>1, <1>5 DEF MilestonesSeen, Less, Busy, AtLog
<1>6. CASE Busy /\ Busy' /\ SameLog /\ chainLogs' = chainLogs
  <2> SUFFICES ASSUME l \notin MilestonesSeen PROVE MilestoneTaken
    BY <1>5, <1>6
  <2>1. l = c /\ MilestoneDue
    BY <1>5, <1>6
  <2>2. ~MilestoneDue'
    BY <1>6, <2>1 DEF MilestonesSeen, Less, SameLog
  <2>3. Event(p).name # Abort
    BY <1>6, <2>2 DEF MilestoneDue, SameLog
  <2>4. pass[p].pc = "milestone"
    BY <2>1, <2>3 DEF MilestoneDue
  <2> QED
    BY <2>4, PointOf DEF MilestoneTaken, At
<1>7. CASE Busy /\ pass'[p].pc = "next" /\ chainLogs' = chainLogs
  <2> SUFFICES ASSUME l \notin MilestonesSeen PROVE MilestoneTaken
    BY <1>5, <1>7
  <2>1. MilestoneDue
    BY <1>5, <1>7
  <2>2. CASE Event(p).name = Abort
    BY <1>7, <2>2, AbortTaken DEF MilestoneTaken
  <2>3. CASE pass[p].pc = "milestone"
    BY <2>3, PointOf DEF MilestoneTaken, At
  <2> QED
    BY <2>1, <2>2, <2>3 DEF MilestoneDue
<1> QED
  BY <1>1, <1>3, <1>4, <1>6, <1>7 DEF Turn

\* The poller's log is the last it has seen of its contract.
LEMMA LastSeen ==
    ASSUME NEW kinds, OrderInv(kinds), Busy, Event(Poller).from \in kinds
    PROVE  \A m \in chainLogs : log[m].from = Event(Poller).from => ~(Current(Poller) < m)
  BY DEF OrderInv, Precedes, Busy, AtLog, Event

-----------------------------------------------------------------------------
\* What the tables say of the logs they have taken up.

OfEscrow(C) == \A w \in C : w.from = "escrow"
OnlyFactory(R) == \A l \in R : log[l].from = "factory"

RowFirst == ~HasRow => OnlyFactory(chainLogs)
RowBorn == HasRow => onchain.status # "none"
FreshRecord == (At(Poller, "record") /\ Event(Poller).from = "escrow") => Current(Poller) \notin chainLogs
FrozenHolds == HoldsIn(log, Handled, Freezes, FreezeEffect, db.frozen, {FALSE})
BackupHolds == HoldsIn(log, Handled, Backups, BackupEffect, db.backup, {FALSE})
BarredHolds == HoldsIn(log, Handled, Bars, BarEffect, db.barred, {FALSE})
Submissions == {l \in Handled : log[l].name = "SubmissionMade"}
SubmissionsHold == db.submissions = Cardinality(Submissions)
EndHolds == db.status \in TerminalStatuses => FirstIn(log, Terminals, Saying(Terminals, EndEffect, db.status))
EndTaken == (\E l \in StatusSeen : Word(log[l]) \in Terminals) => db.status \in TerminalStatuses
StillOpen == \A l \in Places : log[l].name \notin EndingNames
StatusHolds == HasRow /\ StillOpen => HoldsIn(log, StatusSeen, Opens, EventStatus, db.status, {"created"})
MilestoneRows == \A i \in DOMAIN db.milestones : HasRow /\ onchain.count > 1 /\ i \in 0..onchain.count - 1
MilestonesHold ==
    \A i \in DOMAIN db.milestones :
        HoldsIn(log, MilestonesSeen, Concerning(i), MilestoneEffect, db.milestones[i], {"pending"})
TokensHold == db.status \in TerminalStatuses /\ ~Happened(Abort) => "open" \notin db.tokens \/ At(Poller, "revoke")

LEMMA TopicOf ==
    /\ OfEscrow(Freezes) /\ OfEscrow(Backups) /\ OfEscrow(Opens) /\ OfEscrow(Terminals)
    /\ \A i : OfEscrow(Concerning(i))
    /\ \A w \in Bars : w.from = "factory"
    /\ \A w \in Freezes : w.name \in FreezeNames
    /\ \A w \in Backups : w.name = "BackupActivated"
    /\ \A w \in Bars : w.name \in BarNames
    /\ \A w \in Opens : w.name \in OpenNames
    /\ \A w \in Terminals : w.name \in TerminalNames
<1>1. OfEscrow(Freezes) /\ OfEscrow(Backups) /\ OfEscrow(Opens) /\ OfEscrow(Terminals)
  BY DEF OfEscrow, Freezes, Backups, Opens, Terminals, Events
<1>2. \A i : OfEscrow(Concerning(i))
  BY DEF OfEscrow, Concerning
<1>3. \A w \in Bars : w.from = "factory" /\ w.name \in BarNames
  BY DEF Bars, Events
<1>4. /\ \A w \in Freezes : w.name \in FreezeNames
      /\ \A w \in Backups : w.name = "BackupActivated"
  BY DEF Freezes, Backups, Events
<1>5. /\ \A w \in Opens : w.name \in OpenNames
      /\ \A w \in Terminals : w.name \in TerminalNames
  BY DEF Opens, Terminals, Events
<1> QED
  BY <1>1, <1>2, <1>3, <1>4, <1>5

\* The poller takes up a log of the subject, or another.
LEMMA TopicStep ==
    ASSUME TypeInv, WalkInv, NEW kinds, OrderInv(kinds), Step(Poller),
           NEW C, NEW eff, NEW x, NEW y, NEW X, NEW from \in kinds,
           HoldsIn(log, Handled, C, eff, x, X),
           y = x \/ (Busy /\ Word(Event(Poller)) \in Saying(C, eff, y)),
           Word(Event(Poller)) \in C /\ AtHandle(Poller) => Word(Event(Poller)) \in Saying(C, eff, y),
           \A w \in C : w.from = from /\ w.name \notin {"EscrowCreated", "EmergencyResolved"}
    PROVE  HoldsIn(log, Handled', C, eff, y, X)
<1> DEFINE c == Current(Poller)
           e == Event(Poller)
<1>1. Turn /\ (Busy => c \in Places)
  BY Turns DEF Busy, AtLog
<1>2. Word(e).from = e.from /\ Word(e).name = e.name /\ e = log[c] /\ \A m : Word(log[m]).from = log[m].from
  BY DEF Word, Event
<1>3. ASSUME Busy, Word(e) \in Saying(C, eff, y) PROVE HoldsIn(log, Handled', C, eff, y, X)
  <2>1. Word(e) \in C /\ e.from = from
    BY <1>2, <1>3 DEF Saying
  <2>2. \A m \in chainLogs : log[m].from = from => ~(c < m)
    BY <1>3, <2>1, LastSeen
  <2>3. Handled' \subseteq chainLogs
    <3>1. chainLogs' = chainLogs
      BY <1>1, <1>3 DEF Turn
    <3> QED
      BY <3>1 DEF Handled, Less
  <2>4. \A m \in 1..Len(log) : (Word(log[m]) \in C /\ m \in Handled') => ~(c < m)
    BY <1>2, <2>2, <2>3
  <2>5. c \in 1..Len(log)
    BY <1>1, <1>3 DEF Places
  <2> QED
    BY <1>2, <1>3, <2>4, <2>5, HoldsLast
<1>4. ASSUME y = x PROVE HoldsIn(log, Handled', C, eff, y, X)
  <2>1. CASE Handled' \subseteq Handled
    BY <1>4, <2>1, HoldsOn
  <2>2. CASE Busy /\ pass'[Poller].pc = "next" /\ Handled' = Handled \cup {c}
    <3>1. CASE Word(e) \in C
      <4>1. e.name \notin {"EscrowCreated", "EmergencyResolved"}
        BY <1>2, <3>1
      <4>2. AtHandle(Poller)
        BY <2>2, <4>1, Finishing
      <4> QED
        BY <1>3, <2>2, <3>1, <4>2
    <3>2. CASE Word(e) \notin C
      <4>1. \A l \in 1..Len(log) : (Word(log[l]) \in C /\ l \in Handled') => l \in Handled
        BY <1>2, <2>2, <3>2
      <4> QED
        BY <1>4, <4>1, HoldsOn
    <3> QED
      BY <3>1, <3>2
  <2> QED
    BY <2>1, <2>2, HandledMoves
<1> QED
  BY <1>3, <1>4

\* A row is entered before a log of the escrow is seen.
LEMMA EntersFirst ==
    ASSUME TypeInv, WalkInv, RowFirst, Step(Poller), Enters
    PROVE  OnlyFactory(chainLogs') /\ chainLogs' = chainLogs /\ UNCHANGED chainVars
<1>1. Turn /\ UNCHANGED chainVars
  BY Turns
<1>2. db' # db
  BY EnteredRow DEF Enters, HasRow
<1>3. chainLogs' = chainLogs
  BY <1>1, <1>2 DEF Turn
<1> QED
  BY <1>1, <1>3 DEF RowFirst, OnlyFactory, Enters

LEMMA FactoryFresh ==
    ASSUME NEW R, OnlyFactory(R), NEW due, NEW c, NEW C, OfEscrow(C), NEW eff, NEW X, NEW x \in X
    PROVE  HoldsIn(log, Less(R, due, c), C, eff, x, X)
<1>1. \A m \in 1..Len(log) : Word(log[m]) \in C => m \notin Less(R, due, c)
  BY DEF OfEscrow, OnlyFactory, Word, Less
<1> QED
  BY <1>1, HoldsFresh

LEMMA FreezeStep ==
    ASSUME TypeInv, WalkInv, OrderInv({"escrow"}), ChainTold, RowFirst, FrozenHolds, Step(Poller)
    PROVE  FrozenHolds'
<1> DEFINE c == Current(Poller)
           e == Event(Poller)
<1>1. ChainInv /\ WholeRow(db) /\ Poller \in Passes /\ FieldsMove(Poller) /\ UNCHANGED chainVars
      /\ (Busy => c \in Places)
  BY FieldMoves, IndexerAssumption, Turns DEF TypeInv, TablesOK, Busy, AtLog
<1>2. log' = log
  BY <1>1 DEF chainVars
<1> SUFFICES HoldsIn(log, Handled', Freezes, FreezeEffect, db'.frozen, {FALSE})
  BY <1>2 DEF FrozenHolds
<1>3. HandleEscrowFrozenEscrow(Poller) => Busy /\ Word(e) \in Saying(Freezes, FreezeEffect, db'.frozen)
  <2> SUFFICES ASSUME HandleEscrowFrozenEscrow(Poller)
               PROVE  Busy /\ Word(e) \in Saying(Freezes, FreezeEffect, db'.frozen)
    OBVIOUS
  <2> DEFINE x == e.name = "EmergencyFrozen"
  <2>1. Busy /\ e.from = "escrow" /\ e.name \in FreezeNames
    BY DEF HandleEscrowFrozenEscrow, Handling, At, Busy, Beyond, FreezeNames
  <2>2. db' = [db EXCEPT !.frozen = x]
    BY DEF HandleEscrowFrozenEscrow, Writes
  <2>3. x = FreezeEffect[e.name]
    BY <2>1, Effects DEF FreezeNames
  <2> HIDE DEF x
  <2>4. db'.frozen = x
    BY <1>1, <2>2, Edits
  <2>5. e.arg \in Arguments
    BY <1>1, <2>1, FromNames DEF Event
  <2>6. Word(e) \in Freezes /\ Word(e).name = e.name
    BY <2>1, <2>5 DEF Freezes, Events, Word
  <2> QED
    BY <2>1, <2>3, <2>4, <2>6 DEF Saying
<1>4. Word(e) \in Freezes /\ AtHandle(Poller) => HandleEscrowFrozenEscrow(Poller)
  <2>1. Word(e) \in Freezes => e.from = "escrow" /\ e.name \in FreezeNames
    BY DEF Freezes, Events, Word
  <2> QED
    BY <2>1, HandlerOf
<1>5. \A w \in Freezes : w.from = "escrow" /\ w.name \notin {"EscrowCreated", "EmergencyResolved"}
  BY TopicOf DEF OfEscrow, FreezeNames
<1>6. CASE db'.frozen = db.frozen \/ HandleEscrowFrozenEscrow(Poller)
  BY <1>3, <1>4, <1>5, <1>6, TopicStep DEF FrozenHolds
<1>7. CASE HandleEscrowFrozenFactory(Poller)
  <2>1. pass[Poller].pc \in AtLog /\ Busy /\ e.from = "factory" /\ e.name \in TwinNames
    BY <1>7 DEF HandleEscrowFrozenFactory, Handling, At, AtLog, Beyond, Busy, TwinNames
  <2>2. PICK m \in Places : Word(log[m]) \in Freezes /\ log[m].block = log[c].block
    BY <1>1, <2>1 DEF ChainTold, Twins, Event
  <2>3. log[m].from = "escrow"
    BY <2>2 DEF Freezes, Events, Word
  <2>4. log[c].block <= log[m].block
    BY <1>1, <2>1, <2>2, FromNames
  <2>5. m \notin chainLogs
    BY <2>1, <2>3, <2>4 DEF OrderInv, Precedes, Event
  <2>6. Handled' \subseteq chainLogs
    BY <2>1, Turns DEF Handled, Less, Turn
  <2> QED
    BY <2>2, <2>5, <2>6, HoldsUnseen DEF Places
<1>8. CASE Enters
  <2>1. OnlyFactory(chainLogs') /\ db'.frozen = FALSE
    BY <1>8, EntersFirst, EnteredRow
  <2>2. Handled' = Less(chainLogs', Busy', Current(Poller)')
    BY DEF Handled
  <2> QED
    BY <2>1, <2>2, FactoryFresh, TopicOf
<1> QED
  BY <1>1, <1>6, <1>7, <1>8 DEF FieldsMove

LEMMA BackupStep ==
    ASSUME TypeInv, WalkInv, OrderInv({"escrow"}), RowFirst, BackupHolds, Step(Poller)
    PROVE  BackupHolds'
<1> DEFINE c == Current(Poller)
           e == Event(Poller)
<1>1. ChainInv /\ WholeRow(db) /\ Poller \in Passes /\ FieldsMove(Poller) /\ UNCHANGED chainVars
      /\ (Busy => c \in Places)
  BY FieldMoves, IndexerAssumption, Turns DEF TypeInv, TablesOK, Busy, AtLog
<1>2. log' = log
  BY <1>1 DEF chainVars
<1> SUFFICES HoldsIn(log, Handled', Backups, BackupEffect, db'.backup, {FALSE})
  BY <1>2 DEF BackupHolds
<1>3. HandleBackupActivated(Poller) => Busy /\ Word(e) \in Saying(Backups, BackupEffect, db'.backup)
  <2> SUFFICES ASSUME HandleBackupActivated(Poller)
               PROVE  Busy /\ Word(e) \in Saying(Backups, BackupEffect, db'.backup)
    OBVIOUS
  <2> DEFINE x == TRUE
  <2>1. Busy /\ e.from = "escrow" /\ e.name = "BackupActivated"
    BY DEF HandleBackupActivated, Handling, At, Busy, Beyond
  <2>2. db' = [db EXCEPT !.backup = x]
    BY DEF HandleBackupActivated, Writes
  <2>3. x = BackupEffect[e.name]
    BY <2>1, Effects
  <2> HIDE DEF x
  <2>4. db'.backup = x
    BY <1>1, <2>2, Edits
  <2>5. e.arg \in Arguments
    BY <1>1, <2>1, FromNames DEF Event
  <2>6. Word(e) \in Backups /\ Word(e).name = e.name
    BY <2>1, <2>5 DEF Backups, Events, Word
  <2> QED
    BY <2>1, <2>3, <2>4, <2>6 DEF Saying
<1>4. Word(e) \in Backups /\ AtHandle(Poller) => HandleBackupActivated(Poller)
  <2>1. Word(e) \in Backups => e.from = "escrow" /\ e.name = "BackupActivated"
    BY DEF Backups, Events, Word
  <2> QED
    BY <2>1, HandlerOf
<1>5. \A w \in Backups : w.from = "escrow" /\ w.name \notin {"EscrowCreated", "EmergencyResolved"}
  BY TopicOf DEF OfEscrow
<1>6. CASE db'.backup = db.backup \/ HandleBackupActivated(Poller)
  BY <1>3, <1>4, <1>5, <1>6, TopicStep DEF BackupHolds
<1>7. CASE Enters
  <2>1. OnlyFactory(chainLogs') /\ db'.backup = FALSE
    BY <1>7, EntersFirst, EnteredRow
  <2>2. Handled' = Less(chainLogs', Busy', Current(Poller)')
    BY DEF Handled
  <2> QED
    BY <2>1, <2>2, FactoryFresh, TopicOf
<1> QED
  BY <1>1, <1>6, <1>7 DEF FieldsMove

LEMMA BarStep ==
    ASSUME TypeInv, WalkInv, OrderInv(BothContracts), BarredHolds, Step(Poller)
    PROVE  BarredHolds'
<1> DEFINE c == Current(Poller)
           e == Event(Poller)
<1>1. ChainInv /\ WholeRow(db) /\ Poller \in Passes /\ FieldsMove(Poller) /\ UNCHANGED chainVars
      /\ (Busy => c \in Places)
  BY FieldMoves, IndexerAssumption, Turns DEF TypeInv, TablesOK, Busy, AtLog
<1>2. log' = log
  BY <1>1 DEF chainVars
<1> SUFFICES HoldsIn(log, Handled', Bars, BarEffect, db'.barred, {FALSE})
  BY <1>2 DEF BarredHolds
<1>3. HandleAddressFrozen(Poller) => Busy /\ Word(e) \in Saying(Bars, BarEffect, db'.barred)
  <2> SUFFICES ASSUME HandleAddressFrozen(Poller)
               PROVE  Busy /\ Word(e) \in Saying(Bars, BarEffect, db'.barred)
    OBVIOUS
  <2> DEFINE x == e.name = "AddressFrozen"
  <2>1. Busy /\ e.from = "factory" /\ e.name \in BarNames
    BY DEF HandleAddressFrozen, Handling, At, Busy, Beyond, BarNames
  <2>2. db' = [db EXCEPT !.barred = x]
    BY DEF HandleAddressFrozen, Writes
  <2>3. x = BarEffect[e.name]
    BY <2>1, Effects DEF BarNames
  <2> HIDE DEF x
  <2>4. db'.barred = x
    BY <1>1, <2>2, Edits
  <2>5. e.arg \in Arguments
    BY <1>1, <2>1, FromNames DEF Event
  <2>6. Word(e) \in Bars /\ Word(e).name = e.name
    BY <2>1, <2>5 DEF Bars, Events, Word
  <2> QED
    BY <2>1, <2>3, <2>4, <2>6 DEF Saying
<1>4. Word(e) \in Bars /\ AtHandle(Poller) => HandleAddressFrozen(Poller)
  <2>1. Word(e) \in Bars => e.from = "factory" /\ e.name \in BarNames
    BY DEF Bars, Events, Word
  <2> QED
    BY <2>1, HandlerOf
<1>5. \A w \in Bars : w.from = "factory" /\ w.name \notin {"EscrowCreated", "EmergencyResolved"}
  BY TopicOf DEF BarNames
<1>6. "factory" \in BothContracts
  BY DEF BothContracts
<1>7. db'.barred = db.barred \/ HandleAddressFrozen(Poller)
  BY <1>1 DEF FieldsMove
<1> QED
  BY <1>3, <1>4, <1>5, <1>6, <1>7, TopicStep DEF BarredHolds

LEMMA PollerIs ==
    ASSUME TypeInv, WalkInv
    PROVE  /\ Poller \in Passes /\ PassesOK /\ PassOK(Poller) /\ WholeRow(db) /\ WalkOK(Poller) /\ ChainInv
           /\ chainLogs \subseteq Places
           /\ pass[Poller].pc \in AtLog =>
                 /\ Current(Poller) \in Places /\ Current(Poller) \in pass[Poller].todo
                 /\ \A m \in pass[Poller].todo : Current(Poller) <= m
                 /\ Event(Poller).from = pass[Poller].part /\ Event(Poller).block \in Span(Poller)
                 /\ Past(Poller) /\ pass[Poller].todo # {}
<1>1. /\ Poller \in Passes /\ PassesOK /\ PassOK(Poller) /\ WholeRow(db) /\ WalkOK(Poller) /\ ChainInv
      /\ chainLogs \subseteq Places
  BY IndexerAssumption DEF TypeInv, TablesOK, PassesOK, WalkInv
<1>2. pass[Poller].pc \in AtLog => Past(Poller) /\ pass[Poller].todo # {}
  BY <1>1 DEF PassOK, AtLog, Beyond, Past, At
<1> QED
  BY <1>1, <1>2, CurrentFirst DEF Event

LEMMA RowFirstStep ==
    ASSUME TypeInv, WalkInv, Kept, RowFirst, Step(Poller)
    PROVE  RowFirst'
<1>1. Turn /\ UNCHANGED chainVars
  BY Turns
<1> SUFFICES ASSUME ~HasRow' PROVE OnlyFactory(chainLogs')
  BY <1>1 DEF RowFirst, OnlyFactory, chainVars
<1>2. ~HasRow /\ OnlyFactory(chainLogs)
  BY DEF Kept, RowFirst
<1>3. CASE RecordLog(Poller) /\ chainLogs' = chainLogs \cup {Current(Poller)}
  <2>1. pass[Poller].pc \in AtLog
    BY <1>3 DEF RecordLog, At, AtLog
  <2>2. Event(Poller).from # "escrow" /\ Current(Poller) \in Places /\ ChainInv
    BY <1>2, <2>1, PollerIs DEF WalkOK
  <2>3. log[Current(Poller)].from = "factory"
    BY <2>2, FromNames DEF Event
  <2> QED
    BY <1>2, <1>3, <2>3 DEF OnlyFactory
<1>4. chainLogs' = chainLogs \/ (RecordLog(Poller) /\ chainLogs' = chainLogs \cup {Current(Poller)})
  BY <1>1 DEF Turn
<1> QED
  BY <1>2, <1>3, <1>4

LEMMA RowBornStep ==
    ASSUME TypeInv, WalkInv, ChainTold, RowBorn, Step(Poller)
    PROVE  RowBorn'
<1>1. UNCHANGED chainVars
  BY Turns
<1>2. WholeRow(db) /\ Poller \in Passes /\ PassOK(Poller)
  BY PollerIs
<1>3. db'.by = db.by \/ InsertEscrow(Poller)
  BY <1>2, FieldMoves DEF FieldsMove
<1>4. ASSUME InsertEscrow(Poller) PROVE onchain.status # "none"
  <2>1. pass[Poller].pc = "insert"
    BY <1>4 DEF InsertEscrow, At
  <2>2. Event(Poller).name = "EscrowCreated" /\ Current(Poller) \in Places
    BY <1>2, <2>1, PollerIs DEF PassOK, PointOK, ForLog, AtLog, Beyond
  <2> QED
    BY <2>2 DEF ChainTold, BornTold, Event
<1> QED
  BY <1>1, <1>3, <1>4 DEF RowBorn, HasRow, chainVars

LEMMA FreshStep ==
    ASSUME TypeInv, WalkInv, Step(Poller)
    PROVE  FreshRecord'
<1> DEFINE p == Poller
<1>1. p \in Passes /\ PassesOK /\ PassOK(p) /\ WholeRow(db)
  BY PollerIs
<1> SUFFICES ASSUME pass'[p].pc = "record" PROVE Current(p)' \notin chainLogs'
  BY DEF FreshRecord, At
<1>2. ~(Tick(p) \/ ReadCursor(p) \/ NothingNew(p) \/ ListEscrows(p) \/ SaveCursor(p))
  BY <1>1, BetweenLogs
<1>3. \A pc : Goto(p, pc) => pc = "record" /\ pass'[p].todo = pass[p].todo
  BY <1>1, GoesOn
<1>4. ~NextLog(p)
  BY <1>1, GoesNext
<1>5. ~RecordLog(p)
  BY <1>3 DEF RecordLog, FirstStep
<1>6. ~Works(p)
  BY <1>3, <1>4 DEF Works, Continues, Finishes, Beyond
<1>7. CheckLog(p)
  BY <1>1, <1>2, <1>5, <1>6, PassSteps
<1> QED
  BY <1>3, <1>4, <1>7 DEF CheckLog, tables, Current

LEMMA SubmissionsMove ==
    ASSUME TypeInv, WalkInv, FreshRecord, Step(Poller)
    PROVE  \/ ~HandleSubmission(Poller) /\ Submissions' = Submissions
           \/ /\ HandleSubmission(Poller)
              /\ Submissions' = Submissions \cup {Current(Poller)} /\ Current(Poller) \notin Submissions
<1> DEFINE c == Current(Poller)
           e == Event(Poller)
<1>1. Turn /\ UNCHANGED chainVars
  BY Turns
<1>2. log' = log /\ ChainInv
  BY <1>1 DEF chainVars, TypeInv
<1>3. HandleSubmission(Poller) => Busy /\ pass'[Poller].pc = "next" /\ log[c].name = "SubmissionMade"
  BY PollerIs, GoesNext DEF HandleSubmission, Handling, Writes, Done, At, Busy, Beyond, Event
<1>4. CASE UNCHANGED <<chainLogs, db>> /\ ~Busy /\ ~Busy'
  <2>1. Handled' = Handled
    BY <1>4 DEF Handled, Less
  <2> QED
    BY <1>2, <1>3, <1>4, <2>1 DEF Submissions
<1>5. CASE RecordLog(Poller) /\ ~Busy /\ SameLog /\ chainLogs' = chainLogs \cup {c}
           /\ pass'[Poller].pc = FirstStep(e)
  <2>1. Busy' /\ At(Poller, "record") /\ c \in Places
    BY <1>5, PollerIs DEF FirstStep, Busy, Beyond, RecordLog, At, AtLog
  <2>2. Handled' = chainLogs \ {c} /\ Handled = chainLogs
    BY <1>5, <2>1 DEF Handled, Less, SameLog
  <2>3. c \in chainLogs => log[c].name # "SubmissionMade"
    BY <1>2, <2>1, FromNames DEF FreshRecord, Event
  <2> QED
    BY <1>2, <1>3, <1>5, <2>2, <2>3 DEF Submissions
<1>6. CASE Busy /\ Busy' /\ SameLog /\ chainLogs' = chainLogs
  <2>1. Handled' = Handled
    BY <1>6 DEF Handled, Less, SameLog
  <2>2. ~HandleSubmission(Poller)
    BY <1>3, <1>6 DEF Busy, Beyond
  <2> QED
    BY <1>2, <2>1, <2>2 DEF Submissions
<1>7. CASE Busy /\ ~Busy' /\ pass'[Poller].pc = "next" /\ chainLogs' = chainLogs /\ c \in chainLogs
  <2>1. Handled' = Handled \cup {c} /\ c \notin Handled /\ c \in Places
    BY <1>7, PollerIs DEF Handled, Less
  <2>2. CASE log[c].name = "SubmissionMade"
    <3>1. AtHandle(Poller) /\ e.from = "escrow" /\ e.name = "SubmissionMade"
      BY <1>2, <1>7, <2>1, <2>2, Finishing, FromNames DEF Event
    <3>2. HandleSubmission(Poller)
      BY <3>1, HandlerOf
    <3> QED
      BY <1>2, <2>1, <2>2, <3>2 DEF Submissions
  <2>3. CASE log[c].name # "SubmissionMade"
    BY <1>2, <1>3, <2>1, <2>3 DEF Submissions
  <2> QED
    BY <2>2, <2>3
<1> QED
  BY <1>1, <1>4, <1>5, <1>6, <1>7 DEF Turn

LEMMA SubmissionsFinite ==
    ASSUME TypeInv
    PROVE  IsFiniteSet(Submissions) /\ Cardinality(Submissions) \in Nat
<1>1. Submissions \subseteq 1..Len(log) /\ Len(log) \in Nat
  BY PlacesNat DEF TypeInv, TablesOK, Submissions, Handled, Less, Places
<1>2. IsFiniteSet(1..Len(log))
  BY <1>1, FS_Interval
<1>3. IsFiniteSet(Submissions)
  BY <1>1, <1>2, FS_Subset
<1> QED
  BY <1>3, FS_CardinalityType

LEMMA NoneSubmitted ==
    ASSUME ChainInv, NEW R, R \subseteq Places, OnlyFactory(R), NEW due, NEW c
    PROVE  Cardinality({l \in Less(R, due, c) : log[l].name = "SubmissionMade"}) = 0
<1>1. {l \in Less(R, due, c) : log[l].name = "SubmissionMade"} = {}
  BY FromNames DEF Less, OnlyFactory
<1> QED
  BY <1>1, FS_EmptySet

LEMMA SubmissionsStep ==
    ASSUME TypeInv, WalkInv, RowFirst, FreshRecord, SubmissionsHold, Step(Poller)
    PROVE  SubmissionsHold'
<1> DEFINE c == Current(Poller)
<1>1. WholeRow(db) /\ Poller \in Passes /\ ChainInv
  BY PollerIs
<1>2. db'.submissions = db.submissions \/ HandleSubmission(Poller) \/ Enters
  BY <1>1, FieldMoves DEF FieldsMove
<1>3. CASE HandleSubmission(Poller)
  <2> DEFINE x == db.submissions + 1
  <2>1. Submissions' = Submissions \cup {c} /\ c \notin Submissions
    BY <1>3, SubmissionsMove
  <2>2. Cardinality(Submissions') = Cardinality(Submissions) + 1
    BY <2>1, SubmissionsFinite, FS_AddElement
  <2>3. db' = [db EXCEPT !.submissions = x]
    BY <1>3 DEF HandleSubmission, Writes
  <2> HIDE DEF x
  <2>4. db'.submissions = x
    BY <1>1, <2>3, Edits
  <2> QED
    BY <2>2, <2>4 DEF x, SubmissionsHold
<1>4. CASE Enters
  <2>1. OnlyFactory(chainLogs') /\ chainLogs' = chainLogs /\ UNCHANGED chainVars
    BY <1>4, EntersFirst
  <2>2. chainLogs' \subseteq Places /\ log' = log
    BY <2>1, PollerIs DEF chainVars
  <2>3. Submissions' = {l \in Less(chainLogs', Busy', Current(Poller)') : log[l].name = "SubmissionMade"}
    BY <2>2 DEF Submissions, Handled
  <2>4. Cardinality(Submissions') = 0
    BY <1>1, <2>1, <2>2, <2>3, NoneSubmitted
  <2>5. db'.submissions = 0
    BY <1>4, EnteredRow
  <2> QED
    BY <2>4, <2>5 DEF SubmissionsHold
<1>5. CASE ~HandleSubmission(Poller) /\ db'.submissions = db.submissions
  <2>1. Submissions' = Submissions
    BY <1>5, SubmissionsMove
  <2> QED
    BY <1>5, <2>1 DEF SubmissionsHold
<1> QED
  BY <1>2, <1>3, <1>4, <1>5

-----------------------------------------------------------------------------
\* The end of the escrow: the first of its last events decides.

\* Before the log of the escrow that the poller is at, all is recorded.
LEMMA SeenBefore ==
    ASSUME FromTheStart, TypeInv, WalkInv, EscrowInv, pass[Poller].pc \in AtLog, Event(Poller).from = "escrow",
           NEW j \in Places, log[j].from = "escrow", j < Current(Poller)
    PROVE  j \in chainLogs
<1> DEFINE p == Poller
           c == Current(p)
<1>1. /\ PassOK(p) /\ ChainInv /\ c \in Places /\ (\A m \in pass[p].todo : c <= m)
      /\ pass[p].part = "escrow" /\ log[c].block \in Span(p) /\ Past(p)
  BY PollerIs DEF Event
<1>2. /\ j \in Nat /\ c \in Nat /\ log[j].block \in Nat /\ log[c].block \in Nat /\ log[j].block <= log[c].block
      /\ pass[p].from \in Nat /\ pass[p].to \in Nat /\ DOMAIN log = Places
  BY <1>1, BlocksNat, PlacesNat DEF PassOK
<1>3. CASE log[j].block < pass[p].from
  <2>1. FirstBlock(0) \in Nat /\ FirstBlock(0) <= 1 /\ log[j].block \in 1..head /\ head \in Nat
    BY <1>1, FirstBlockNat DEF FromTheStart, ChainInv, LogOK
  <2>2. log[j].block \in FirstBlock(0)..pass[p].from - 1
    BY <1>2, <1>3, <2>1
  <2> QED
    BY <1>1, <1>2, <2>2 DEF EscrowInv, EscrowUpTo
<1>4. CASE ~(log[j].block < pass[p].from)
  <2>1. log[j].block \in pass[p].from..pass[p].to
    BY <1>1, <1>2, <1>4 DEF Span
  <2>2. j \in FilterLogs("escrow", pass[p].from, pass[p].to)
    BY <1>2, <2>1 DEF FilterLogs
  <2>3. j \in chainLogs \/ j \in pass[p].todo
    BY <1>1, <2>2 DEF EscrowInv
  <2>4. j \notin pass[p].todo
    BY <1>1, <1>2
  <2> QED
    BY <2>3, <2>4
<1> QED
  BY <1>3, <1>4

LEMMA NoEndBefore ==
    ASSUME FromTheStart, TypeInv, WalkInv, EscrowInv, EndTaken, pass[Poller].pc \in AtLog,
           Event(Poller).from = "escrow", db.status \notin TerminalStatuses
    PROVE  \A j \in 1..Len(log) : j < Current(Poller) => Word(log[j]) \notin Terminals
<1> SUFFICES ASSUME NEW j \in 1..Len(log), j < Current(Poller), Word(log[j]) \in Terminals PROVE FALSE
  OBVIOUS
<1>1. log[j].from = "escrow"
  BY TopicOf DEF OfEscrow, Word
<1>2. j \in chainLogs
  BY <1>1, SeenBefore DEF Places
<1>3. j # Current(Poller)
  BY PollerIs, PlacesNat DEF Places
<1>4. j \in StatusSeen
  BY <1>2, <1>3 DEF StatusSeen, Less
<1> QED
  BY <1>4 DEF EndTaken

\* What the status step writes.
LEMMA EndNames ==
    /\ \A name \in DOMAIN EventStatus :
          EventStatus[name] \in TerminalStatuses =>
             name \in TerminalNames /\ name # Abort /\ EndEffect[name] = EventStatus[name]
    /\ \A name \in TerminalNames \ {Abort} :
          name \in DOMAIN EventStatus /\ EventStatus[name] \in TerminalStatuses
    /\ \A name \in DOMAIN EventStatus : EventStatus[name] \notin TerminalStatuses =>
          name \in OpenNames \/ name = "EmergencyResolved"
    /\ \A name \in OpenNames : name \in DOMAIN EventStatus /\ EventStatus[name] \notin TerminalStatuses
    /\ Abort \in TerminalNames /\ EndEffect[Abort] = "refunded" /\ "refunded" \in TerminalStatuses
    /\ TerminalStatuses = Closed
    /\ Abort \notin DOMAIN EventStatus
<1>1. \A name \in DOMAIN EventStatus :
         EventStatus[name] \in TerminalStatuses =>
            name \in TerminalNames /\ name # Abort /\ EndEffect[name] = EventStatus[name]
  BY DEF EventStatus, TerminalStatuses, TerminalNames, Abort, EndEffect
<1>2. \A name \in TerminalNames \ {Abort} :
         name \in DOMAIN EventStatus /\ EventStatus[name] \in TerminalStatuses
  BY DEF EventStatus, TerminalStatuses, TerminalNames, Abort
<1>3. \A name \in DOMAIN EventStatus : EventStatus[name] \notin TerminalStatuses =>
         name \in OpenNames \/ name = "EmergencyResolved"
  BY DEF EventStatus, TerminalStatuses, OpenNames
<1>4. \A name \in OpenNames : name \in DOMAIN EventStatus /\ EventStatus[name] \notin TerminalStatuses
  BY DEF EventStatus, TerminalStatuses, OpenNames
<1>5. Abort \in TerminalNames /\ EndEffect[Abort] = "refunded" /\ "refunded" \in TerminalStatuses
  BY Effects DEF TerminalNames, TerminalStatuses, Abort
<1>6. TerminalStatuses = Closed /\ Abort \notin DOMAIN EventStatus
  BY DEF TerminalStatuses, Closed, EventStatus, Abort
<1> QED
  BY <1>1, <1>2, <1>3, <1>4, <1>5, <1>6

\* The writes of the poller to the status, and the log that each is about.
LEMMA StatusWritten ==
    ASSUME TypeInv, WalkInv, Step(Poller), db'.status # db.status
    PROVE  /\ \/ WriteStatus(Poller) /\ db'.status = EventStatus[Event(Poller).name]
              \/ HandleRemainingMilestonesAborted(Poller) /\ db'.status = "refunded"
              \/ HandleEmergencyResolved(Poller) /\ HasRow /\ db'.status = "resolved"
              \/ InsertEscrow(Poller) /\ ~HasRow /\ db'.status = "created"
           /\ pass[Poller].pc \in AtLog
           /\ WriteStatus(Poller) => Event(Poller).from = "escrow" /\ Event(Poller).name \in DOMAIN EventStatus
           /\ HandleRemainingMilestonesAborted(Poller) => Event(Poller).from = "escrow" /\ Event(Poller).name = Abort
           /\ HandleEmergencyResolved(Poller) => Event(Poller).name = "EmergencyResolved"
<1>1. Poller \in Passes /\ PassOK(Poller) /\ WholeRow(db)
  BY PollerIs
<1>2. WritesStatus(Poller)
  BY <1>1, StatusMoves
<1>3. pass[Poller].pc \in AtLog
  BY <1>2 DEF WritesStatus, WriteStatus, HandleRemainingMilestonesAborted, HandleEmergencyResolved, InsertEscrow,
     Handling, At, AtLog, Beyond
<1>4. WriteStatus(Poller) => Event(Poller).from = "escrow" /\ Event(Poller).name \in DOMAIN EventStatus
  BY <1>1 DEF WriteStatus, At, PassOK, PointOK, ForLog
<1>5. HandleRemainingMilestonesAborted(Poller) => Event(Poller).from = "escrow" /\ Event(Poller).name = Abort
  BY DEF HandleRemainingMilestonesAborted, Handling, Abort
<1>6. HandleEmergencyResolved(Poller) => Event(Poller).name = "EmergencyResolved"
  BY DEF HandleEmergencyResolved
<1> QED
  BY <1>1, <1>2, <1>3, <1>4, <1>5, <1>6, StatusSet

\* A log and the word that it is.
LEMMA WordOf ==
    ASSUME ChainInv, NEW l \in Places, NEW from, NEW names
    PROVE  /\ Word(log[l]) \in Events(from, names) <=> log[l].from = from /\ log[l].name \in names
           /\ Word(log[l]).from = log[l].from /\ Word(log[l]).name = log[l].name /\ Word(log[l]).arg = log[l].arg
<1>1. log[l].arg \in Arguments
  BY FromNames
<1> QED
  BY <1>1 DEF Word, Events

LEMMA EndStep ==
    ASSUME FromTheStart, TypeInv, WalkInv, EscrowInv, OthersIdle, OthersIdle', suffered'["request"] = 0,
           OrderInv({"escrow"}), StatusInv, [Next]_vars, EndHolds, EndTaken, Step(Poller)
    PROVE  EndHolds'
<1> DEFINE c == Current(Poller)
           e == Event(Poller)
<1>1. log' = log /\ ChainInv
  BY Turns DEF chainVars, TypeInv
<1> SUFFICES ASSUME db'.status \in TerminalStatuses
             PROVE  FirstIn(log, Terminals, Saying(Terminals, EndEffect, db'.status))
  BY <1>1 DEF EndHolds
<1>2. CASE db'.status = db.status
  BY <1>2 DEF EndHolds
<1>3. CASE db'.status # db.status
  <2>1. db.status \notin TerminalStatuses
    BY <1>3, TerminalStays
  <2>2. pass[Poller].pc \in AtLog /\ e.from = "escrow" /\ e.name \in TerminalNames /\ EndEffect[e.name] = db'.status
    <3>1. "resolved" \notin TerminalStatuses /\ "created" \notin TerminalStatuses
      BY DEF TerminalStatuses
    <3> QED
      BY <1>3, <3>1, StatusWritten, EndNames
  <2>3. c \in Places /\ e = log[c]
    BY <2>2, PollerIs DEF Event
  <2>4. Word(log[c]) \in Saying(Terminals, EndEffect, db'.status)
    BY <1>1, <2>2, <2>3, WordOf DEF Saying, Terminals
  <2>5. \A j \in 1..Len(log) : j < c => Word(log[j]) \notin Terminals
    BY <2>1, <2>2, NoEndBefore
  <2> QED
    BY <2>3, <2>4, <2>5 DEF FirstIn, Places
<1> QED
  BY <1>2, <1>3

LEMMA EndTakenStep ==
    ASSUME TypeInv, WalkInv, OthersIdle, OthersIdle', suffered'["request"] = 0,
           OrderInv({"escrow"}), StatusInv, [Next]_vars, EndTaken, Step(Poller)
    PROVE  EndTaken'
<1> DEFINE c == Current(Poller)
           e == Event(Poller)
<1>1. log' = log /\ ChainInv /\ WholeRow(db) /\ Poller \in Passes /\ PassOK(Poller)
  BY Turns, PollerIs DEF chainVars
<1> SUFFICES ASSUME NEW l \in StatusSeen', Word(log[l]) \in Terminals
             PROVE  db'.status \in TerminalStatuses
  BY <1>1 DEF EndTaken
<1>2. CASE db.status \in TerminalStatuses
  BY <1>2, TerminalStays
<1>3. CASE l \in StatusSeen
  BY <1>2, <1>3 DEF EndTaken
<1>4. CASE db.status \notin TerminalStatuses /\ l = c /\ l \in Places /\ StatusTaken
  <2>1. e.from = "escrow" /\ e.name \in TerminalNames
    BY <1>1, <1>4, WordOf DEF Terminals, Event
  <2>2. ~(RecordLog(Poller) /\ FirstStep(e) # "status" /\ e.name # Abort)
    <3> DEFINE n == e.name
    <3>1. n # Abort => n \in DOMAIN EventStatus /\ n \notin MilestoneNames
      BY <2>1, EndNames, RestApart
    <3>2. n # Abort => FirstStep(e) = "status"
      BY <2>1, <3>1 DEF FirstStep, MilestoneNames
    <3> QED
      BY <3>2
  <2>3. CASE WriteStatus(Poller)
    <3>1. db'.status = EventStatus[e.name] /\ e.name \in DOMAIN EventStatus
      BY <1>1, <2>3, StatusSet DEF WritesStatus, WriteStatus, At, PassOK, PointOK, ForLog
    <3> QED
      BY <2>1, <3>1, EndNames
  <2>4. CASE HandleRemainingMilestonesAborted(Poller)
    <3>1. db'.status = "refunded"
      <4> DEFINE x == "refunded"
      <4>1. e.name = Abort /\ pass[Poller].pc = "handle"
        BY <2>4 DEF HandleRemainingMilestonesAborted, Handling, At, Abort
      <4>2. ~WriteStatus(Poller) /\ ~HandleEmergencyResolved(Poller) /\ ~InsertEscrow(Poller)
        BY <4>1 DEF WriteStatus, HandleEmergencyResolved, InsertEscrow, At, Abort
      <4> QED
        BY <1>1, <2>4, <4>2, StatusSet DEF WritesStatus
    <3> QED
      BY <3>1, EndNames
  <2> QED
    BY <1>4, <2>2, <2>3, <2>4 DEF StatusTaken
<1> QED
  BY <1>2, <1>3, <1>4, StatusSeenMoves

-----------------------------------------------------------------------------
\* The status of an escrow that is still open.

LEMMA OpenSet ==
    ASSUME TypeInv, WalkInv, WriteStatus(Poller)
    PROVE  /\ db'.status = EventStatus[Event(Poller).name]
           /\ Event(Poller).from = "escrow" /\ Event(Poller).name \in DOMAIN EventStatus
           /\ Busy /\ Current(Poller) \in Places
<1>1. Poller \in Passes /\ PassOK(Poller) /\ WholeRow(db)
  BY PollerIs
<1>2. pass[Poller].pc = "write"
  BY DEF WriteStatus, At
<1>3. ~HandleRemainingMilestonesAborted(Poller) /\ ~HandleEmergencyResolved(Poller) /\ ~InsertEscrow(Poller)
  BY <1>2 DEF HandleRemainingMilestonesAborted, HandleEmergencyResolved, InsertEscrow, Handling, At
<1>4. db'.status = EventStatus[Event(Poller).name]
  BY <1>1, <1>3, StatusSet DEF WritesStatus
<1>5. Event(Poller).from = "escrow" /\ Event(Poller).name \in DOMAIN EventStatus
  BY <1>1, <1>2 DEF PassOK, PointOK, ForLog
<1>6. Busy /\ Current(Poller) \in Places
  BY <1>2, PollerIs DEF Busy, Beyond, AtLog
<1> QED
  BY <1>4, <1>5, <1>6

LEMMA NotEnded ==
    ASSUME EndHolds, StillOpen
    PROVE  db.status \notin TerminalStatuses
<1> SUFFICES ASSUME db.status \in TerminalStatuses PROVE FALSE
  OBVIOUS
<1>1. PICK k \in 1..Len(log) : Word(log[k]) \in Saying(Terminals, EndEffect, db.status)
  BY DEF EndHolds, FirstIn
<1>2. log[k].name \in TerminalNames
  BY <1>1, TopicOf DEF Saying, Word
<1> QED
  BY <1>2 DEF StillOpen, Places, TerminalNames, EndingNames

LEMMA OpenStep ==
    ASSUME TypeInv, WalkInv, OrderInv({"escrow"}), RowFirst, EndHolds, StatusHolds, Kept, Step(Poller)
    PROVE  StatusHolds'
<1> DEFINE c == Current(Poller)
           e == Event(Poller)
<1>1. log' = log /\ ChainInv /\ WholeRow(db) /\ Poller \in Passes /\ Turn /\ FieldsMove(Poller)
  BY Turns, PollerIs, FieldMoves DEF chainVars
<1> SUFFICES ASSUME HasRow', StillOpen
             PROVE  HoldsIn(log, StatusSeen', Opens, EventStatus, db'.status, {"created"})
  BY <1>1 DEF StatusHolds, StillOpen, Places
<1>2. CASE ~HasRow
  <2>1. Enters
    BY <1>1, <1>2 DEF FieldsMove, HasRow
  <2>2. OnlyFactory(chainLogs') /\ db'.status = "created"
    BY <2>1, EntersFirst, EnteredRow
  <2>3. StatusSeen' = Less(chainLogs', StatusDue', Current(Poller)')
    BY DEF StatusSeen
  <2> QED
    BY <2>2, <2>3, FactoryFresh, TopicOf
<1>3. CASE WriteStatus(Poller)
  <2>1. /\ db'.status = EventStatus[e.name] /\ e.from = "escrow" /\ e.name \in DOMAIN EventStatus
        /\ Busy /\ c \in Places /\ e = log[c]
    BY <1>3, OpenSet DEF Event
  <2>2. e.name \notin EndingNames
    BY <2>1 DEF StillOpen
  <2>3. e.name \in OpenNames
    BY <2>1, <2>2, EndNames DEF EndingNames, TerminalNames
  <2>4. Word(log[c]) \in Saying(Opens, EventStatus, db'.status)
    BY <1>1, <2>1, <2>3, WordOf DEF Saying, Opens
  <2>5. StatusSeen' \subseteq chainLogs
    <3>1. chainLogs' = chainLogs
      BY <1>1, <2>1 DEF Turn
    <3> QED
      BY <3>1 DEF StatusSeen, Less
  <2>6. \A m \in chainLogs : log[m].from = "escrow" => ~(c < m)
    BY <2>1, LastSeen
  <2>7. \A m \in 1..Len(log) : (Word(log[m]) \in Opens /\ m \in StatusSeen') => ~(c < m)
    BY <2>5, <2>6, TopicOf DEF OfEscrow, Word
  <2> QED
    BY <2>1, <2>4, <2>7, HoldsLast DEF Places
<1>4. CASE HasRow /\ ~WriteStatus(Poller)
  <2>1. db.status \notin TerminalStatuses
    BY NotEnded
  <2>2. db'.status = db.status
    <3> SUFFICES ASSUME db'.status # db.status PROVE FALSE
      OBVIOUS
    <3>1. e.name \in {Abort, "EmergencyResolved"} /\ pass[Poller].pc \in AtLog
      BY <1>4, StatusWritten
    <3>2. c \in Places /\ e = log[c]
      BY <3>1, PollerIs DEF Event
    <3> QED
      BY <3>1, <3>2 DEF StillOpen, EndingNames, Abort
  <2>3. ASSUME NEW l \in 1..Len(log), Word(log[l]) \in Opens, l \in StatusSeen' PROVE l \in StatusSeen
    <3> SUFFICES ASSUME l = c, StatusTaken PROVE FALSE
      BY <2>3, StatusSeenMoves
    <3> DEFINE n == e.name
    <3>1. n \in OpenNames /\ e.from = "escrow"
      BY <1>1, <2>3, WordOf DEF Opens, Event, Places
    <3>2. n \in DOMAIN EventStatus /\ n # Abort
      BY <3>1, EndNames, RestApart DEF OpenNames, Abort
    <3>3. n \notin MilestoneNames
      BY <3>1, MilestoneEffects DEF OpenNames
    <3>4. FirstStep(e) = "status"
      BY <3>1, <3>2, <3>3 DEF FirstStep, MilestoneNames
    <3>5. ~HandleRemainingMilestonesAborted(Poller)
      BY <3>2 DEF HandleRemainingMilestonesAborted, Handling, Abort
    <3> QED
      BY <1>4, <2>1, <3>4, <3>5 DEF StatusTaken
  <2>4. HoldsIn(log, StatusSeen, Opens, EventStatus, db.status, {"created"})
    BY <1>4 DEF StatusHolds
  <2> QED
    BY <2>2, <2>3, <2>4, HoldsOn
<1> QED
  BY <1>2, <1>3, <1>4

-----------------------------------------------------------------------------
\* The milestones' rows, and the tokens.

\* A milestone's event and the abort, and the milestones that they concern.
LEMMA ConcernsOf ==
    ASSUME ChainInv, ArgsTold, NEW l \in Places, NEW i \in Nat
    PROVE  /\ Word(log[l]) \in Concerning(i) =>
                /\ log[l].from = "escrow" /\ log[l].name \in MilestoneNames \cup {Abort}
                /\ log[l].name # Abort => log[l].arg = i
                /\ log[l].name = Abort => log[l].arg \in Nat /\ log[l].arg <= i
           /\ (log[l].name \in MilestoneNames /\ log[l].arg = i) => Word(log[l]) \in Concerning(i)
           /\ (log[l].name = Abort /\ log[l].arg <= i) => Word(log[l]) \in Concerning(i)
           /\ log[l].name = Abort => log[l].arg \in Nat
<1>1. log[l].name \in MilestoneNames \cup {Abort} => log[l].from = "escrow"
  BY FromNames
<1>2. Word(log[l]).from = log[l].from /\ Word(log[l]).name = log[l].name /\ Word(log[l]).arg = log[l].arg
  BY DEF Word
<1>3. log[l].name = Abort => log[l].arg \in Nat
  BY DEF ArgsTold
<1>4. \A w \in Concerning(i) :
         /\ w.from = "escrow" /\ w.name \in MilestoneNames \cup {Abort}
         /\ w.name # Abort => w.arg = i
         /\ w.name = Abort => w.arg \in Nat /\ w.arg <= i
  BY MilestoneEffects DEF Concerning
<1>5. (log[l].name \in MilestoneNames /\ log[l].arg = i) => Word(log[l]) \in Concerning(i)
  BY <1>1 DEF Word, Concerning
<1>6. (log[l].name = Abort /\ log[l].arg <= i) => Word(log[l]) \in Concerning(i)
  BY <1>1, <1>3 DEF Word, Concerning
<1> QED
  BY <1>2, <1>3, <1>4, <1>5, <1>6

\* What a step makes of one milestone's row.
MilestoneMove(i) ==
    /\ i \in DOMAIN db.milestones
    /\ \/ Busy /\ Word(Event(Poller)) \in Saying(Concerning(i), MilestoneEffect, db'.milestones[i])
       \/ /\ db'.milestones[i] = db.milestones[i]
          /\ Word(Event(Poller)) \in Concerning(i) =>
                ~WriteMilestone(Poller) /\ ~HandleRemainingMilestonesAborted(Poller)

LEMMA MilestoneMoves ==
    ASSUME TypeInv, WalkInv, ArgsTold, MilestoneRows, Step(Poller), ~Enters, NEW i \in DOMAIN db'.milestones
    PROVE  MilestoneMove(i)
<1> DEFINE c == Current(Poller)
           e == Event(Poller)
           m == db.milestones
<1>1. ChainInv /\ WholeRow(db) /\ Poller \in Passes /\ FieldsMove(Poller) /\ PassOK(Poller) /\ e = log[c]
  BY PollerIs, FieldMoves DEF Event
<1>2. DOMAIN db.milestones \subseteq Nat
  BY DEF MilestoneRows
\* One row is written.
<1>3. ASSUME Busy, c \in Places, e.name \in MilestoneNames,
             \/ e.arg \in DOMAIN m /\ db'.milestones = [m EXCEPT ![e.arg] = MilestoneEffect[e.name]]
             \/ e.arg \notin DOMAIN m /\ db'.milestones = m,
             ~HandleRemainingMilestonesAborted(Poller)
      PROVE  MilestoneMove(i)
  <2>1. i \in DOMAIN m /\ i \in Nat
    BY <1>2, <1>3
  <2>2. CASE i = e.arg
    <3>1. db'.milestones[i] = MilestoneEffect[e.name]
      BY <1>3, <2>1, <2>2
    <3>2. Word(e) \in Concerning(i) /\ Word(e).name = e.name
      BY <1>1, <1>3, <2>1, <2>2, ConcernsOf DEF Word
    <3> QED
      BY <1>3, <2>1, <3>1, <3>2 DEF MilestoneMove, Saying
  <2>3. CASE i # e.arg
    <3>1. db'.milestones[i] = m[i]
      BY <1>3, <2>1, <2>3
    <3>2. Word(e) \notin Concerning(i)
      BY <1>1, <1>3, <2>1, <2>3, ConcernsOf, MilestoneEffects
    <3> QED
      BY <2>1, <3>1, <3>2 DEF MilestoneMove
  <2> QED
    BY <2>2, <2>3
<1>4. CASE WriteMilestone(Poller)
  <2>1. pass[Poller].pc = "milestone" /\ db' = WithMilestone(e)
    BY <1>4 DEF WriteMilestone, At
  <2>2. e.name \in MilestoneNames /\ Busy /\ c \in Places
    BY <1>1, <2>1, PollerIs DEF PassOK, PointOK, ForLog, MilestoneNames, Busy, Beyond, AtLog
  <2>3. MilestoneEffect[e.name] = MilestoneEventStatus[e.name]
    BY <2>2, MilestoneEffects
  <2>4. db'.milestones = IF e.name \in MilestoneNames /\ e.arg \in DOMAIN m
                         THEN [m EXCEPT ![e.arg] = MilestoneEventStatus[e.name]] ELSE m
    BY <1>1, <2>1, MilestoneSame DEF MilestoneNames
  <2>5. ~HandleRemainingMilestonesAborted(Poller)
    BY <2>1 DEF HandleRemainingMilestonesAborted, Handling, At
  <2> QED
    BY <1>3, <2>2, <2>3, <2>4, <2>5
<1>5. CASE HandleMilestoneSubmission(Poller)
  <2>1. pass[Poller].pc = "handle" /\ e.name = "MilestoneSubmitted"
    BY <1>5 DEF HandleMilestoneSubmission, Handling, At
  <2>2. e.name \in MilestoneNames /\ Busy /\ c \in Places /\ MilestoneEffect[e.name] = "submitted"
    BY <2>1, PollerIs, MilestoneEffects DEF Busy, Beyond, AtLog
  <2>3. \/ e.arg \in DOMAIN m /\ db'.milestones = [m EXCEPT ![e.arg] = "submitted"]
        \/ e.arg \notin DOMAIN m /\ db'.milestones = m
    <3>1. CASE e.arg \notin DOMAIN m
      BY <1>5, <3>1 DEF HandleMilestoneSubmission, GivesUp, tables
    <3>2. CASE e.arg \in DOMAIN m
      <4> DEFINE x == [m EXCEPT ![e.arg] = "submitted"]
      <4>1. db' = [db EXCEPT !.milestones = x]
        BY <1>5, <3>2 DEF HandleMilestoneSubmission, Writes
      <4> HIDE DEF x
      <4>2. db'.milestones = x
        BY <1>1, <4>1, Edits
      <4> QED
        BY <3>2, <4>2 DEF x
    <3> QED
      BY <3>1, <3>2
  <2>4. ~HandleRemainingMilestonesAborted(Poller)
    BY <2>1 DEF HandleRemainingMilestonesAborted, Handling
  <2> QED
    BY <1>3, <2>2, <2>3, <2>4
<1>6. CASE HandleRemainingMilestonesAborted(Poller)
  <2>1. /\ db'.milestones = [j \in DOMAIN m |-> IF j >= e.arg THEN "cancelled" ELSE m[j]]
        /\ pass[Poller].pc = "handle" /\ e.name = Abort
    BY <1>1, <1>6, AbortSame DEF HandleRemainingMilestonesAborted, Handling, At, Abort
  <2>2. Busy /\ c \in Places /\ MilestoneEffect[e.name] = "cancelled"
    BY <2>1, PollerIs, MilestoneEffects DEF Busy, Beyond, AtLog
  <2>3. i \in DOMAIN m /\ i \in Nat /\ e.arg \in Nat
    BY <1>1, <1>2, <2>1, <2>2, ConcernsOf
  <2>4. CASE i >= e.arg
    <3>1. db'.milestones[i] = "cancelled"
      BY <2>1, <2>3, <2>4
    <3>2. Word(e) \in Concerning(i) /\ Word(e).name = e.name
      BY <1>1, <2>1, <2>2, <2>3, <2>4, ConcernsOf DEF Word
    <3> QED
      BY <2>2, <2>3, <3>1, <3>2 DEF MilestoneMove, Saying
  <2>5. CASE ~(i >= e.arg)
    <3>1. db'.milestones[i] = m[i]
      BY <2>1, <2>3, <2>5
    <3>2. Word(e) \notin Concerning(i)
      BY <1>1, <2>1, <2>2, <2>3, <2>5, ConcernsOf
    <3> QED
      BY <2>3, <3>1, <3>2 DEF MilestoneMove
  <2> QED
    BY <2>4, <2>5
<1>7. CASE db'.milestones = m /\ ~WriteMilestone(Poller) /\ ~HandleRemainingMilestonesAborted(Poller)
  BY <1>7 DEF MilestoneMove
<1> QED
  BY <1>1, <1>4, <1>5, <1>6, <1>7 DEF FieldsMove

LEMMA MilestoneRowsStep ==
    ASSUME TypeInv, WalkInv, Kept, ArgsTold, MilestoneRows, Step(Poller)
    PROVE  MilestoneRows'
<1>1. UNCHANGED chainVars
  BY Turns
<1>2. CASE Enters
  BY <1>1, <1>2, EnteredRow DEF MilestoneRows, NoMilestones, PendingMilestones, chainVars
<1>3. CASE ~Enters
  BY <1>1, <1>3, MilestoneMoves DEF MilestoneMove, MilestoneRows, chainVars, Kept
<1> QED
  BY <1>2, <1>3

LEMMA MilestonesStep ==
    ASSUME TypeInv, WalkInv, OrderInv({"escrow"}), ArgsTold, RowFirst, MilestoneRows, MilestonesHold, Step(Poller)
    PROVE  MilestonesHold'
<1> DEFINE c == Current(Poller)
           e == Event(Poller)
<1>1. log' = log /\ ChainInv /\ Turn /\ e = log[c]
  BY Turns, PollerIs DEF chainVars, Event
<1> SUFFICES ASSUME NEW i \in DOMAIN db'.milestones
             PROVE  HoldsIn(log, MilestonesSeen', Concerning(i), MilestoneEffect, db'.milestones[i], {"pending"})
  BY <1>1 DEF MilestonesHold
<1>2. CASE Enters
  <2>1. OnlyFactory(chainLogs')
    BY <1>2, EntersFirst
  <2>2. db'.milestones[i] = "pending"
    BY <1>2, EnteredRow DEF NoMilestones, PendingMilestones
  <2>3. MilestonesSeen' = Less(chainLogs', MilestoneDue', Current(Poller)')
    BY DEF MilestonesSeen
  <2> QED
    BY <2>1, <2>2, <2>3, FactoryFresh, TopicOf
<1>3. CASE ~Enters
  <2>1. MilestoneMove(i) /\ i \in Nat
    BY <1>3, MilestoneMoves DEF MilestoneMove, MilestoneRows
  <2>2. CASE Busy /\ Word(e) \in Saying(Concerning(i), MilestoneEffect, db'.milestones[i])
    <3>1. c \in Places /\ e.from = "escrow"
      BY <2>2, PollerIs, TopicOf DEF Busy, AtLog, Saying, OfEscrow, Word
    <3>2. \A m \in chainLogs : log[m].from = "escrow" => ~(c < m)
      BY <2>2, <3>1, LastSeen
    <3>3. MilestonesSeen' \subseteq chainLogs
      <4>1. chainLogs' = chainLogs
        BY <1>1, <2>2 DEF Turn
      <4> QED
        BY <4>1 DEF MilestonesSeen, Less
    <3>4. \A m \in 1..Len(log) : (Word(log[m]) \in Concerning(i) /\ m \in MilestonesSeen') => ~(c < m)
      BY <3>2, <3>3, TopicOf DEF OfEscrow, Word
    <3> QED
      BY <1>1, <2>2, <3>1, <3>4, HoldsLast DEF Places
  <2>3. CASE /\ db'.milestones[i] = db.milestones[i]
             /\ Word(e) \in Concerning(i) => ~WriteMilestone(Poller) /\ ~HandleRemainingMilestonesAborted(Poller)
    <3>1. ASSUME NEW l \in 1..Len(log), Word(log[l]) \in Concerning(i), l \in MilestonesSeen'
          PROVE  l \in MilestonesSeen
      <4> SUFFICES ASSUME l = c, l \in Places, MilestoneTaken PROVE FALSE
        BY <3>1, MilestonesSeenMoves
      <4>1. e.name \in MilestoneNames \cup {Abort}
        BY <1>1, <3>1, TopicOf DEF Concerning, Word
      <4> QED
        BY <1>1, <2>3, <3>1, <4>1 DEF MilestoneTaken
    <3>2. HoldsIn(log, MilestonesSeen, Concerning(i), MilestoneEffect, db.milestones[i], {"pending"})
      BY <2>1 DEF MilestoneMove, MilestonesHold
    <3> QED
      BY <2>3, <3>1, <3>2, HoldsOn
  <2> QED
    BY <2>1, <2>2, <2>3 DEF MilestoneMove
<1> QED
  BY <1>2, <1>3

LEMMA TokensStep ==
    ASSUME TypeInv, WalkInv, TokensHold, Step(Poller)
    PROVE  TokensHold'
<1> DEFINE e == Event(Poller)
<1>1. log' = log /\ ChainInv /\ WholeRow(db) /\ Poller \in Passes /\ FieldsMove(Poller) /\ PassesOK /\ DOMAIN log = Places
  BY Turns, PollerIs, FieldMoves, PlacesNat DEF chainVars
<1> SUFFICES ASSUME db'.status \in TerminalStatuses, ~Happened(Abort)
             PROVE  "open" \notin db'.tokens \/ pass'[Poller].pc = "revoke"
  BY <1>1 DEF TokensHold, Happened, At
<1>2. CASE db'.status # db.status
  <2>1. "resolved" \notin TerminalStatuses /\ "created" \notin TerminalStatuses
    BY DEF TerminalStatuses
  <2>2. pass[Poller].pc \in AtLog
    BY <1>2, StatusWritten
  <2>3. Current(Poller) \in DOMAIN log
    BY <1>1, <2>2, PollerIs
  <2>4. e.name # Abort
    BY <2>3 DEF Happened, Event
  <2>5. WriteStatus(Poller) /\ db'.status = EventStatus[e.name]
    BY <1>2, <2>1, <2>4, StatusWritten
  <2>6. Goto(Poller, "revoke")
    BY <2>5 DEF WriteStatus
  <2> QED
    BY <1>1, <2>6, GoesOn
<1>3. CASE db'.status = db.status
  <2>1. "open" \notin db.tokens \/ At(Poller, "revoke")
    BY <1>3 DEF TokensHold
  <2>2. CASE "open" \notin db.tokens
    BY <1>1, <2>2 DEF FieldsMove, NoTokens
  <2>3. CASE At(Poller, "revoke")
    <3> DEFINE x == {}
    <3>1. db' = [db EXCEPT !.tokens = x]
      BY <2>3, PointOf DEF RevokeTokens
    <3> HIDE DEF x
    <3>2. db'.tokens = x
      BY <1>1, <3>1, Edits
    <3> QED
      BY <3>2 DEF x
  <2> QED
    BY <2>1, <2>2, <2>3
<1> QED
  BY <1>2, <1>3

-----------------------------------------------------------------------------
\* What goes on beside the poller and the chain: webhook calls, which record
\* events of the factory, the service's own insert, a token that is minted.

Mints ==
    \E x : /\ db' = [db EXCEPT !.tokens = x]
           /\ "open" \in x => "open" \in db.tokens \/ db.status \notin TerminalStatuses
Side ==
    /\ UNCHANGED <<chainVars, pass>>
    /\ chainLogs \subseteq chainLogs' /\ OnlyFactory(chainLogs' \ chainLogs)
    /\ db' = db \/ (Enters /\ onchain.status # "none") \/ Mints

LEMMA SideSteps ==
    ASSUME TypeInv, BornTold, Course, ~Restart, ~Mining, ~\E p \in Passes : Step(p)
    PROVE  Side /\ (HooksIdle /\ suffered["delivery"] = 0 /\ suffered'["delivery"] = 0 => chainLogs' = chainLogs)
<1>1. ASSUME NEW h \in Hooks, HookStep(h)
      PROVE  Side /\ (HooksIdle /\ suffered["delivery"] = 0 => chainLogs' = chainLogs)
  <2>1. /\ UNCHANGED <<chainVars, pass>>
        /\ chainLogs' = chainLogs \/ (HookAt(h, "record") /\ chainLogs' = chainLogs \cup {hook[h].l})
    BY <1>1, HookSteps
  <2>2. HookOK(h)
    BY DEF TypeInv, HooksOK
  <2>3. chainLogs \subseteq chainLogs' /\ OnlyFactory(chainLogs' \ chainLogs)
    BY <2>1, <2>2 DEF HookOK, HookAt, OnlyFactory
  <2>4. db' = db \/ (~HasRow /\ db' = Inserted("webhook", NoMilestones) /\ HookAt(h, "insert"))
    BY <1>1 DEF HookStep, Deliver, HookFails, HookChecks, HookEscrowCreated, HookInserts, HookOutcomeRecorded,
       HookIgnores, HookRecords
  <2>5. HookAt(h, "insert") => onchain.status # "none"
    <3>1. HookAt(h, "insert") => hook[h].l \in Places /\ log[hook[h].l].name = "EscrowCreated"
      BY <2>2 DEF HookOK, HookAt
    <3> QED
      BY <3>1 DEF BornTold
  <2>6. Side
    BY <2>1, <2>3, <2>4, <2>5 DEF Side, Enters
  <2>7. HooksIdle /\ suffered["delivery"] = 0 => ~HookAt(h, "record")
    BY DEF HooksIdle, HookAt
  <2> QED
    BY <2>1, <2>6, <2>7
<1>2. CASE ApiFinalizes
  <2>1. UNCHANGED <<chainVars, pass, chainLogs>> /\ onchain.status # "none" /\ ~HasRow
    BY <1>2 DEF ApiFinalizes, ApiOnly, control
  <2>2. Enters
    <3>1. (db' = Inserted("api", PendingMilestones) /\ onchain.count > 1) \/ db' = Inserted("api", NoMilestones)
      BY <1>2 DEF ApiFinalizes
    <3> QED
      BY <2>1, <3>1 DEF Enters
  <2> QED
    BY <2>1, <2>2 DEF Side, OnlyFactory
<1>3. CASE ApiTokens
  <2>1. PICK m \in Minters : ApiReadsForMint(m) \/ ApiMints(m)
    BY <1>3 DEF ApiTokens
  <2>2. UNCHANGED <<chainVars, pass, chainLogs>>
    BY <2>1 DEF ApiReadsForMint, ApiMints, ApiOnly, control
  <2>3. db' = db \/ Mints
    <3> DEFINE x == db.tokens \cup {IF db.status \in TerminalStatuses THEN "closed" ELSE "open"}
    <3>1. db' = db \/ db' = [db EXCEPT !.tokens = x]
      BY <2>1 DEF ApiReadsForMint, ApiMints
    <3>2. "open" \in x => "open" \in db.tokens \/ db.status \notin TerminalStatuses
      OBVIOUS
    <3> HIDE DEF x
    <3> QED
      BY <3>1, <3>2 DEF Mints
  <2> QED
    BY <2>2, <2>3 DEF Side, OnlyFactory
<1>4. CASE UNCHANGED vars
  BY <1>4 DEF vars, serverVars, tables, control, Side, OnlyFactory
<1> QED
  BY <1>1, <1>2, <1>3, <1>4 DEF Course

LEMMA MintedRow ==
    ASSUME WholeRow(db), Mints
    PROVE  /\ Same(db, db', {"tokens"})
           /\ "open" \in db'.tokens => "open" \in db.tokens \/ db.status \notin TerminalStatuses
<1>1. PICK x : /\ db' = [db EXCEPT !.tokens = x]
               /\ "open" \in x => "open" \in db.tokens \/ db.status \notin TerminalStatuses
  BY DEF Mints
<1>2. Same(db, db', {"tokens"}) /\ db'.tokens = x
  BY <1>1, Edits
<1> QED
  BY <1>1, <1>2

\* What the row says stays, or the row is new.
SideRow ==
    \/ /\ db'.by = db.by /\ db'.status = db.status /\ db'.frozen = db.frozen /\ db'.backup = db.backup
       /\ db'.submissions = db.submissions /\ db'.barred = db.barred /\ db'.milestones = db.milestones
       /\ "open" \in db'.tokens => "open" \in db.tokens \/ db.status \notin TerminalStatuses
    \/ Enters /\ onchain.status # "none"

LEMMA SideRows ==
    ASSUME WholeRow(db), Side
    PROVE  SideRow
<1>1. CASE db' = db \/ (Enters /\ onchain.status # "none")
  BY <1>1 DEF SideRow
<1>2. CASE Mints
  <2>1. /\ db'.by = db.by /\ db'.status = db.status /\ db'.frozen = db.frozen /\ db'.backup = db.backup
        /\ db'.submissions = db.submissions /\ db'.barred = db.barred /\ db'.milestones = db.milestones
    BY <1>2, MintedRow, SameFields
  <2> QED
    BY <1>2, <2>1, MintedRow DEF SideRow
<1> QED
  BY <1>1, <1>2 DEF Side

\* Of an escrow's subject the tables have seen no more than before.
LEMMA SideHolds ==
    ASSUME Side, NEW due, NEW C, OfEscrow(C), NEW eff, NEW x, NEW X
    PROVE  /\ HoldsIn(log, Less(chainLogs, due, Current(Poller)), C, eff, x, X) =>
                 HoldsIn(log, Less(chainLogs', due, Current(Poller)), C, eff, x, X)
           /\ RowFirst /\ Enters /\ x \in X =>
                 HoldsIn(log, Less(chainLogs', due, Current(Poller)), C, eff, x, X)
<1>1. ASSUME NEW l \in 1..Len(log), Word(log[l]) \in C, l \in Less(chainLogs', due, Current(Poller))
      PROVE  l \in Less(chainLogs, due, Current(Poller))
  <2>1. log[l].from = "escrow"
    BY <1>1 DEF OfEscrow, Word
  <2> QED
    BY <1>1, <2>1 DEF Side, OnlyFactory, Less
<1>2. RowFirst /\ Enters => OnlyFactory(chainLogs')
  BY DEF RowFirst, Enters, Side, OnlyFactory
<1> QED
  BY <1>1, <1>2, HoldsOn, FactoryFresh

LEMMA SideKept ==
    ASSUME Side
    PROVE  /\ log' = log /\ onchain' = onchain /\ pass' = pass
           /\ Current(Poller)' = Current(Poller) /\ Event(Poller)' = Event(Poller) /\ Busy' = Busy
           /\ StatusDue' = StatusDue /\ MilestoneDue' = MilestoneDue
           /\ Handled' = Less(chainLogs', Busy, Current(Poller))
           /\ StatusSeen' = Less(chainLogs', StatusDue, Current(Poller))
           /\ MilestonesSeen' = Less(chainLogs', MilestoneDue, Current(Poller))
<1>1. log' = log /\ onchain' = onchain /\ pass' = pass
  BY DEF Side, chainVars
<1>2. Current(Poller)' = Current(Poller) /\ Event(Poller)' = Event(Poller) /\ Busy' = Busy
  BY <1>1 DEF Current, Event, Busy
<1>3. StatusDue' = StatusDue /\ MilestoneDue' = MilestoneDue
  BY <1>1, <1>2 DEF StatusDue, MilestoneDue
<1> QED
  BY <1>1, <1>2, <1>3 DEF Handled, StatusSeen, MilestonesSeen

LEMMA SideKeepsRow ==
    ASSUME TypeInv, Kept, RowFirst, RowBorn, FreshRecord, Side
    PROVE  RowFirst' /\ RowBorn' /\ FreshRecord'
<1>1. log' = log /\ onchain' = onchain /\ pass' = pass /\ Current(Poller)' = Current(Poller)
      /\ Event(Poller)' = Event(Poller)
  BY SideKept
<1>2. RowFirst'
  BY <1>1 DEF Side, RowFirst, OnlyFactory, Kept
<1>3. RowBorn'
  <2>1. HasRow' => HasRow \/ onchain.status # "none"
    <3>1. WholeRow(db)
      BY DEF TypeInv, TablesOK
    <3>2. SideRow
      BY <3>1, SideRows
    <3> QED
      BY <3>2 DEF SideRow, HasRow
  <2> QED
    BY <1>1, <2>1 DEF RowBorn
<1>4. FreshRecord'
  BY <1>1 DEF FreshRecord, At, Side, OnlyFactory, Event
<1> QED
  BY <1>2, <1>3, <1>4

LEMMA SideKeepsFlags ==
    ASSUME TypeInv, RowFirst, Side, FrozenHolds, BackupHolds
    PROVE  FrozenHolds' /\ BackupHolds'
<1>1. WholeRow(db)
  BY DEF TypeInv, TablesOK
<1>2. SideRow /\ (Enters => db'.frozen = FALSE /\ db'.backup = FALSE)
  BY <1>1, SideRows, EnteredRow
<1>3. log' = log /\ Handled' = Less(chainLogs', Busy, Current(Poller))
  BY SideKept
<1>4. OfEscrow(Freezes) /\ OfEscrow(Backups)
  BY TopicOf
<1>5. HoldsIn(log, Less(chainLogs', Busy, Current(Poller)), Freezes, FreezeEffect, db'.frozen, {FALSE})
  <2>1. CASE db'.frozen = db.frozen
    <3>1. HoldsIn(log, Less(chainLogs, Busy, Current(Poller)), Freezes, FreezeEffect, db'.frozen, {FALSE})
      BY <2>1 DEF FrozenHolds, Handled
    <3> QED
      BY <1>4, <3>1, SideHolds
  <2>2. CASE Enters
    <3>1. db'.frozen \in {FALSE}
      BY <1>2, <2>2
    <3> QED
      BY <1>4, <2>2, <3>1, SideHolds
  <2> QED
    BY <1>2, <2>1, <2>2 DEF SideRow
<1>6. HoldsIn(log, Less(chainLogs', Busy, Current(Poller)), Backups, BackupEffect, db'.backup, {FALSE})
  <2>1. CASE db'.backup = db.backup
    <3>1. HoldsIn(log, Less(chainLogs, Busy, Current(Poller)), Backups, BackupEffect, db'.backup, {FALSE})
      BY <2>1 DEF BackupHolds, Handled
    <3> QED
      BY <1>4, <3>1, SideHolds
  <2>2. CASE Enters
    <3>1. db'.backup \in {FALSE}
      BY <1>2, <2>2
    <3> QED
      BY <1>4, <2>2, <3>1, SideHolds
  <2> QED
    BY <1>2, <2>1, <2>2 DEF SideRow
<1> QED
  BY <1>3, <1>5, <1>6 DEF FrozenHolds, BackupHolds

LEMMA SideKeepsBars ==
    ASSUME TypeInv, Side, chainLogs' = chainLogs, BarredHolds
    PROVE  BarredHolds'
<1>1. WholeRow(db)
  BY DEF TypeInv, TablesOK
<1>2. db'.barred = db.barred
  BY <1>1, SideRows, EnteredRow DEF SideRow
<1>3. log' = log /\ Handled' = Handled
  BY SideKept DEF Handled
<1> QED
  BY <1>2, <1>3 DEF BarredHolds

LEMMA SideKeepsSubmissions ==
    ASSUME TypeInv, TypeInv', RowFirst, Side, SubmissionsHold
    PROVE  SubmissionsHold'
<1>1. WholeRow(db) /\ ChainInv /\ chainLogs' \subseteq Places
  <2>1. log' = log
    BY SideKept
  <2> QED
    BY <2>1 DEF TypeInv, TablesOK, Places
<1>2. log' = log /\ Handled' = Less(chainLogs', Busy, Current(Poller))
  BY SideKept
<1>3. Submissions' = {l \in Less(chainLogs', Busy, Current(Poller)) : log[l].name = "SubmissionMade"}
  BY <1>2 DEF Submissions
<1>4. CASE db'.submissions = db.submissions
  <2>1. \A l \in chainLogs' : log[l].name = "SubmissionMade" => l \in chainLogs
    BY <1>1, FromNames DEF Side, OnlyFactory
  <2>2. Submissions' = Submissions
    BY <1>3, <2>1 DEF Submissions, Handled, Less, Side
  <2> QED
    BY <1>4, <2>2 DEF SubmissionsHold
<1>5. CASE Enters
  <2>1. db'.submissions = 0
    BY <1>5, EnteredRow
  <2>2. OnlyFactory(chainLogs')
    BY <1>5 DEF Enters, RowFirst, Side, OnlyFactory
  <2>3. Cardinality(Submissions') = 0
    BY <1>1, <1>3, <2>2, NoneSubmitted
  <2> QED
    BY <2>1, <2>3 DEF SubmissionsHold
<1>6. SideRow
  BY <1>1, SideRows
<1> QED
  BY <1>4, <1>5, <1>6 DEF SideRow

LEMMA SideKeepsEnd ==
    ASSUME TypeInv, RowFirst, Side, EndHolds, EndTaken
    PROVE  EndHolds' /\ EndTaken'
<1>1. WholeRow(db)
  BY DEF TypeInv, TablesOK
<1>2. log' = log /\ StatusSeen' = Less(chainLogs', StatusDue, Current(Poller))
  BY SideKept
<1>3. SideRow
  BY <1>1, SideRows
<1>4. "created" \notin TerminalStatuses
  BY DEF TerminalStatuses
<1>5. Enters => db'.status = "created" /\ OnlyFactory(chainLogs')
  BY EnteredRow DEF Enters, RowFirst, Side, OnlyFactory
<1>6. EndHolds'
  BY <1>2, <1>3, <1>4, <1>5 DEF SideRow, EndHolds
<1>7. ASSUME NEW l \in Less(chainLogs', StatusDue, Current(Poller)), Word(log[l]) \in Terminals
      PROVE  db'.status \in TerminalStatuses
  <2>1. log[l].from = "escrow"
    BY <1>7, TopicOf DEF OfEscrow, Word
  <2>2. l \in chainLogs
    BY <1>7, <2>1 DEF Side, OnlyFactory, Less
  <2>3. ~Enters
    BY <1>5, <1>7, <2>1 DEF OnlyFactory, Less
  <2>4. l \in StatusSeen
    BY <1>7, <2>2 DEF StatusSeen, Less
  <2> QED
    BY <1>3, <1>7, <2>3, <2>4 DEF SideRow, EndTaken
<1>8. EndTaken'
  BY <1>2, <1>7 DEF EndTaken
<1> QED
  BY <1>6, <1>8

LEMMA SideKeepsStatus ==
    ASSUME TypeInv, RowFirst, Side, StatusHolds
    PROVE  StatusHolds'
<1>1. WholeRow(db)
  BY DEF TypeInv, TablesOK
<1>2. /\ log' = log /\ StatusSeen' = Less(chainLogs', StatusDue, Current(Poller))
      /\ OfEscrow(Opens) /\ (Enters => db'.status = "created")
  BY SideKept, TopicOf, EnteredRow
<1>3. SideRow
  BY <1>1, SideRows
<1> SUFFICES ASSUME HasRow', StillOpen
             PROVE  HoldsIn(log, Less(chainLogs', StatusDue, Current(Poller)), Opens, EventStatus, db'.status, {"created"})
  BY <1>2 DEF StatusHolds, StillOpen, Places
<1>4. CASE Enters
  <2>1. db'.status \in {"created"}
    BY <1>2, <1>4
  <2> QED
    BY <1>2, <1>4, <2>1, SideHolds
<1>5. CASE HasRow /\ db'.status = db.status
  <2>1. HoldsIn(log, Less(chainLogs, StatusDue, Current(Poller)), Opens, EventStatus, db'.status, {"created"})
    BY <1>5 DEF StatusHolds, StatusSeen
  <2> QED
    BY <1>2, <2>1, SideHolds
<1> QED
  BY <1>3, <1>4, <1>5 DEF SideRow, HasRow

LEMMA SideKeepsMilestones ==
    ASSUME TypeInv, Kept, RowFirst, Side, MilestoneRows, MilestonesHold
    PROVE  MilestoneRows' /\ MilestonesHold'
<1>1. WholeRow(db)
  BY DEF TypeInv, TablesOK
<1>2. /\ log' = log /\ onchain' = onchain
      /\ MilestonesSeen' = Less(chainLogs', MilestoneDue, Current(Poller))
  BY SideKept
<1>3. SideRow /\ (HasRow => HasRow')
  BY <1>1, SideRows DEF Kept
<1>4. \A i : OfEscrow(Concerning(i))
  BY TopicOf
<1>5. CASE db'.milestones = db.milestones
  <2>1. MilestoneRows'
    BY <1>2, <1>3, <1>5 DEF MilestoneRows
  <2>2. ASSUME NEW i \in DOMAIN db.milestones
        PROVE  HoldsIn(log, Less(chainLogs', MilestoneDue, Current(Poller)), Concerning(i), MilestoneEffect,
                       db.milestones[i], {"pending"})
    <3>1. HoldsIn(log, Less(chainLogs, MilestoneDue, Current(Poller)), Concerning(i), MilestoneEffect,
                  db.milestones[i], {"pending"})
      BY <2>2 DEF MilestonesHold, MilestonesSeen
    <3>2. OfEscrow(Concerning(i))
      BY <1>4
    <3> QED
      BY <3>1, <3>2, SideHolds
  <2> QED
    BY <1>2, <1>5, <2>1, <2>2 DEF MilestonesHold
<1>6. CASE Enters
  <2>1. HasRow' /\ (db'.milestones = NoMilestones \/ (onchain.count > 1 /\ db'.milestones = PendingMilestones))
    BY <1>6, EnteredRow
  <2>2. MilestoneRows'
    BY <1>2, <2>1 DEF MilestoneRows, NoMilestones, PendingMilestones
  <2>3. ASSUME NEW i \in DOMAIN db'.milestones
        PROVE  HoldsIn(log, Less(chainLogs', MilestoneDue, Current(Poller)), Concerning(i), MilestoneEffect,
                       db'.milestones[i], {"pending"})
    <3>1. db'.milestones[i] \in {"pending"}
      BY <2>1, <2>3 DEF NoMilestones, PendingMilestones
    <3>2. OfEscrow(Concerning(i))
      BY <1>4
    <3> QED
      BY <1>6, <3>1, <3>2, SideHolds
  <2> QED
    BY <1>2, <2>2, <2>3 DEF MilestonesHold
<1> QED
  BY <1>3, <1>5, <1>6 DEF SideRow

LEMMA SideKeepsTokens ==
    ASSUME TypeInv, Side, TokensHold
    PROVE  TokensHold'
<1>1. WholeRow(db)
  BY DEF TypeInv, TablesOK
<1>2. SideRow /\ log' = log /\ pass' = pass /\ (Enters => db'.status = "created")
  BY <1>1, SideRows, SideKept, EnteredRow
<1>3. "created" \notin TerminalStatuses
  BY DEF TerminalStatuses
<1> QED
  BY <1>2, <1>3 DEF SideRow, TokensHold, Happened, At

-----------------------------------------------------------------------------
\* A transaction is mined: the tables stay, the log grows past all that they have
\* taken up.

Mines == Mining /\ Grows /\ UNCHANGED <<pass, db, chainLogs>>

LEMMA MinesIs == ASSUME TypeInv, Mining PROVE Mines /\ Mine /\ ChainInv
<1>1. Mine /\ ChainInv /\ UNCHANGED <<pass, db, chainLogs>>
  BY DEF Mining, serverVars, tables, control, TypeInv
<1> QED
  BY <1>1, MineGrows DEF Mines

LEMMA MinedSeen ==
    ASSUME TypeInv, WalkInv, Mines
    PROVE  /\ Current(Poller)' = Current(Poller) /\ Busy' = Busy
           /\ (pass[Poller].pc \in AtLog => Event(Poller)' = Event(Poller) /\ Current(Poller) \in Places)
           /\ StatusDue' = StatusDue /\ MilestoneDue' = MilestoneDue
           /\ Handled' = Handled /\ StatusSeen' = StatusSeen /\ MilestonesSeen' = MilestonesSeen
           /\ Handled \subseteq Places /\ StatusSeen \subseteq Places /\ MilestonesSeen \subseteq Places
<1>1. pass' = pass /\ chainLogs' = chainLogs /\ chainLogs \subseteq Places
  BY DEF Mines, TypeInv, TablesOK
<1>2. Current(Poller)' = Current(Poller) /\ Busy' = Busy
  BY <1>1 DEF Current, Busy
<1>3. pass[Poller].pc \in AtLog => Event(Poller)' = Event(Poller) /\ Current(Poller) \in Places
  BY <1>2, PollerIs DEF Event, Mines, Grows
<1>4. Busy => Event(Poller)' = Event(Poller)
  BY <1>3 DEF Busy, AtLog
<1>5. StatusDue' = StatusDue /\ MilestoneDue' = MilestoneDue
  BY <1>1, <1>2, <1>4 DEF StatusDue, MilestoneDue
<1>6. Handled' = Handled /\ StatusSeen' = StatusSeen /\ MilestonesSeen' = MilestonesSeen
  BY <1>1, <1>2, <1>5 DEF Handled, StatusSeen, MilestonesSeen
<1>7. Handled \subseteq Places /\ StatusSeen \subseteq Places /\ MilestonesSeen \subseteq Places
  BY <1>1 DEF Handled, StatusSeen, MilestonesSeen, Less
<1> QED
  BY <1>2, <1>3, <1>5, <1>6, <1>7

LEMMA MinesKeepsRow ==
    ASSUME TypeInv, WalkInv, ChainTold, RowFirst, RowBorn, FreshRecord, MilestoneRows, Mines
    PROVE  RowFirst' /\ RowBorn' /\ FreshRecord' /\ MilestoneRows'
<1>1. /\ db' = db /\ chainLogs' = chainLogs /\ pass' = pass /\ chainLogs \subseteq Places
      /\ \A l \in Places : log'[l] = log[l]
  BY DEF Mines, Grows, TypeInv, TablesOK
<1>2. onchain.status # "none" => onchain'.status # "none" /\ onchain'.count = onchain.count
  BY ChainToldStep, MinesIs DEF Mines
<1>3. RowFirst'
  BY <1>1 DEF RowFirst, HasRow, OnlyFactory
<1>4. RowBorn' /\ MilestoneRows'
  BY <1>1, <1>2 DEF RowBorn, MilestoneRows, HasRow
<1>5. FreshRecord'
  BY <1>1, MinedSeen DEF FreshRecord, At, AtLog
<1> QED
  BY <1>3, <1>4, <1>5

LEMMA MinesKeepsHolds ==
    ASSUME TypeInv, WalkInv, Mines
    PROVE  /\ FrozenHolds => FrozenHolds'
           /\ BackupHolds => BackupHolds'
           /\ BarredHolds => BarredHolds'
           /\ StatusHolds => StatusHolds'
           /\ MilestonesHold => MilestonesHold'
<1>1. /\ Grows /\ db' = db /\ Handled' = Handled /\ StatusSeen' = StatusSeen /\ MilestonesSeen' = MilestonesSeen
      /\ Handled \subseteq Places /\ StatusSeen \subseteq Places /\ MilestonesSeen \subseteq Places
  BY MinedSeen DEF Mines
<1>2. FrozenHolds => FrozenHolds'
  BY <1>1, HoldsMined DEF FrozenHolds
<1>3. BackupHolds => BackupHolds'
  BY <1>1, HoldsMined DEF BackupHolds
<1>4. BarredHolds => BarredHolds'
  BY <1>1, HoldsMined DEF BarredHolds
<1>5. StillOpen' => StillOpen
  BY <1>1 DEF StillOpen, Grows
<1>6. StatusHolds => StatusHolds'
  <2> SUFFICES ASSUME StatusHolds, HasRow', StillOpen'
               PROVE  HoldsIn(log', StatusSeen, Opens, EventStatus, db.status, {"created"})
    BY <1>1 DEF StatusHolds
  <2>1. HoldsIn(log, StatusSeen, Opens, EventStatus, db.status, {"created"})
    BY <1>1, <1>5 DEF StatusHolds, HasRow
  <2> QED
    BY <1>1, <2>1, HoldsMined
<1>7. MilestonesHold => MilestonesHold'
  <2> SUFFICES ASSUME MilestonesHold, NEW i \in DOMAIN db.milestones
               PROVE  HoldsIn(log', MilestonesSeen, Concerning(i), MilestoneEffect, db.milestones[i], {"pending"})
    BY <1>1 DEF MilestonesHold
  <2>1. HoldsIn(log, MilestonesSeen, Concerning(i), MilestoneEffect, db.milestones[i], {"pending"})
    BY DEF MilestonesHold
  <2> QED
    BY <1>1, <2>1, HoldsMined
<1> QED
  BY <1>2, <1>3, <1>4, <1>6, <1>7

LEMMA MinesKeepsEnd ==
    ASSUME TypeInv, WalkInv, Mines
    PROVE  /\ SubmissionsHold => SubmissionsHold'
           /\ EndHolds => EndHolds'
           /\ EndTaken => EndTaken'
           /\ TokensHold => TokensHold'
<1>1. /\ Grows /\ db' = db /\ pass' = pass /\ Handled' = Handled /\ StatusSeen' = StatusSeen
      /\ Handled \subseteq Places /\ StatusSeen \subseteq Places
  BY MinedSeen DEF Mines
<1>2. \A l \in Places : log'[l] = log[l]
  BY <1>1 DEF Grows
<1>3. Submissions' = Submissions
  BY <1>1, <1>2 DEF Submissions
<1>4. SubmissionsHold => SubmissionsHold'
  BY <1>1, <1>3 DEF SubmissionsHold
<1>5. EndHolds => EndHolds'
  BY <1>1, MinedLater DEF EndHolds
<1>6. EndTaken => EndTaken'
  BY <1>1, <1>2 DEF EndTaken
<1>7. Happened(Abort) => Happened(Abort)'
  <2>1. ChainInv /\ ChainInv'
    BY MinesIs, MineGrows DEF Mines
  <2>2. DOMAIN log = Places /\ DOMAIN log' = Places'
    BY <2>1 DEF ChainInv, LogOK, Places
  <2> QED
    BY <1>1, <1>2, <2>2 DEF Happened, Grows
<1>8. TokensHold => TokensHold'
  BY <1>1, <1>7 DEF TokensHold, At
<1> QED
  BY <1>4, <1>5, <1>6, <1>8

-----------------------------------------------------------------------------
\* All of it together.

RowInv ==
    /\ RowFirst /\ RowBorn /\ FreshRecord /\ FrozenHolds /\ BackupHolds /\ SubmissionsHold
    /\ EndHolds /\ EndTaken /\ StatusHolds /\ MilestoneRows /\ MilestonesHold /\ TokensHold

ReconInv ==
    /\ CursorInv /\ HooksIdle /\ ChainTold
    /\ suffered["request"] = 0 /\ suffered["fault"] = 0 /\ suffered["crash"] = 0 =>
         /\ OrderInv({"escrow"}) /\ StatusInv /\ RowInv
         /\ suffered["delivery"] = 0 => OrderInv(BothContracts) /\ BarredHolds

LEMMA ChainToldKept ==
    ASSUME TypeInv, ChainTold, [Next]_vars
    PROVE  ChainTold'
<1>1. CASE Mining
  BY <1>1, ChainToldStep DEF Mining, TypeInv
<1>2. CASE ~Mining
  <2>1. ASSUME NEW p \in Passes, Step(p) PROVE UNCHANGED chainVars
    BY <2>1, StepTables
  <2>2. ASSUME NEW p \in Passes, PassFails(p) \/ EscrowSkipped(p) \/ LogSkipped(p) \/ ReadFails(p)
        PROVE  UNCHANGED chainVars
    BY <2>2, FaultKeeps
  <2>3. ASSUME NEW h \in Hooks, HookStep(h) PROVE UNCHANGED chainVars
    BY <2>3, HookSteps
  <2>4. ApiFinalizes \/ ApiTokens \/ Restart \/ UNCHANGED vars => UNCHANGED chainVars
    BY DEF ApiFinalizes, ApiTokens, ApiReadsForMint, ApiMints, ApiOnly, Restart, vars
  <2>5. UNCHANGED chainVars
    BY <1>2, <2>1, <2>2, <2>3, <2>4 DEF Next, ApiTokens
  <2> QED
    BY <2>5, ChainToldRests
<1> QED
  BY <1>1, <1>2

LEMMA RowFollows ==
    ASSUME FromTheStart, TypeInv, TypeInv', WalkInv, EscrowInv, OthersIdle, OthersIdle', suffered'["request"] = 0,
           ChainTold, OrderInv({"escrow"}), StatusInv, Course, ~Restart, [Next]_vars, RowInv
    PROVE  RowInv'
<1>1. Kept /\ ArgsTold /\ BornTold
  BY NothingForgotten DEF ChainTold
<1>2. CASE Mining
  <2>1. Mines
    BY <1>2, MinesIs
  <2> QED
    BY <2>1, MinesKeepsRow, MinesKeepsHolds, MinesKeepsEnd DEF RowInv
<1>3. CASE \E p \in Passes : Step(p)
  <2>1. Step(Poller)
    BY <1>3, OnlyPoller
  <2>2. RowFirst' /\ RowBorn' /\ FreshRecord'
    BY <1>1, <2>1, RowFirstStep, RowBornStep, FreshStep DEF RowInv
  <2>3. FrozenHolds' /\ BackupHolds' /\ SubmissionsHold'
    BY <1>1, <2>1, FreezeStep, BackupStep, SubmissionsStep DEF RowInv
  <2>4. EndHolds' /\ EndTaken' /\ StatusHolds'
    BY <1>1, <2>1, EndStep, EndTakenStep, OpenStep DEF RowInv
  <2>5. MilestoneRows' /\ MilestonesHold' /\ TokensHold'
    BY <1>1, <2>1, MilestoneRowsStep, MilestonesStep, TokensStep DEF RowInv
  <2> QED
    BY <2>2, <2>3, <2>4, <2>5 DEF RowInv
<1>4. CASE ~Mining /\ ~\E p \in Passes : Step(p)
  <2>1. Side
    BY <1>1, <1>4, SideSteps
  <2>2. RowFirst' /\ RowBorn' /\ FreshRecord' /\ FrozenHolds' /\ BackupHolds' /\ SubmissionsHold'
    BY <1>1, <2>1, SideKeepsRow, SideKeepsFlags, SideKeepsSubmissions DEF RowInv
  <2>3. EndHolds' /\ EndTaken' /\ StatusHolds' /\ MilestoneRows' /\ MilestonesHold' /\ TokensHold'
    BY <1>1, <2>1, SideKeepsEnd, SideKeepsStatus, SideKeepsMilestones, SideKeepsTokens DEF RowInv
  <2> QED
    BY <2>2, <2>3 DEF RowInv
<1> QED
  BY <1>2, <1>3, <1>4

LEMMA BarsFollow ==
    ASSUME TypeInv, WalkInv, OthersIdle, OthersIdle', HooksIdle, suffered'["request"] = 0,
           suffered["delivery"] = 0, suffered'["delivery"] = 0,
           ChainTold, OrderInv(BothContracts), Course, ~Restart, [Next]_vars, BarredHolds
    PROVE  BarredHolds'
<1>1. CASE Mining
  BY <1>1, MinesIs, MinesKeepsHolds
<1>2. CASE \E p \in Passes : Step(p)
  <2>1. Step(Poller)
    BY <1>2, OnlyPoller
  <2> QED
    BY <2>1, BarStep
<1>3. CASE ~Mining /\ ~\E p \in Passes : Step(p)
  <2>1. Side /\ chainLogs' = chainLogs
    BY <1>3, SideSteps DEF ChainTold
  <2> QED
    BY <2>1, SideKeepsBars
<1> QED
  BY <1>1, <1>2, <1>3

LEMMA ReconStep ==
    ASSUME FromTheStart, ReconInv, [Next]_vars
    PROVE  ReconInv'
<1>1. TypeInv /\ TypeInv' /\ OthersIdle /\ OthersIdle' /\ HooksIdle /\ HooksIdle' /\ CursorInv' /\ ChainTold'
  <2>1. TypeInv /\ CursorInv /\ ChainTold /\ HooksIdle /\ OthersIdle
    BY DEF ReconInv, CursorInv, OutcomesInv, FactoryInv
  <2>2. TypeInv' /\ CursorInv' /\ OthersIdle'
    BY <2>1, TypeKept, CursorStep, OthersIdleStep
  <2>3. HooksIdle' /\ ChainTold'
    BY <2>1, HooksIdleStep, ChainToldKept
  <2> QED
    BY <2>1, <2>2, <2>3
<1> SUFFICES ASSUME suffered'["request"] = 0, suffered'["fault"] = 0, suffered'["crash"] = 0
             PROVE  /\ OrderInv({"escrow"})' /\ StatusInv' /\ RowInv'
                    /\ suffered'["delivery"] = 0 => OrderInv(BothContracts)' /\ BarredHolds'
  BY <1>1 DEF ReconInv
<1>2. {"request", "fault", "crash", "delivery"} \subseteq Disruption
  BY DEF Disruption
<1>3. /\ suffered["request"] = 0 /\ suffered["fault"] = 0 /\ suffered["crash"] = 0
      /\ suffered'["delivery"] = 0 => suffered["delivery"] = 0
  BY <1>1, <1>2, Calmer
<1>4. /\ Course /\ WalkInv /\ EscrowInv /\ ChainTold /\ OrderInv({"escrow"}) /\ StatusInv /\ RowInv
      /\ suffered["delivery"] = 0 => OrderInv(BothContracts) /\ BarredHolds
  BY <1>1, <1>3, FaultFree DEF ReconInv, CursorInv, OutcomesInv, FactoryInv
<1>5. ~Restart
  <2>1. Restart => Suffer("crash")
    BY DEF Restart
  <2> QED
    BY <1>1, <1>2, <2>1, SufferKeeps DEF TypeInv, TablesOK
<1>6. OrderInv({"escrow"})' /\ StatusInv'
  <2>1. OrderInv({"escrow"})'
    BY <1>1, <1>4, OrderStep
  <2>2. StatusInv'
    BY <1>1, <1>4, StatusStep
  <2> QED
    BY <2>1, <2>2
<1>7. RowInv'
  BY <1>1, <1>4, <1>5, RowFollows
<1>8. ASSUME suffered'["delivery"] = 0 PROVE OrderInv(BothContracts)' /\ BarredHolds'
  <2>1. suffered["delivery"] = 0 /\ OrderInv(BothContracts) /\ BarredHolds
    BY <1>3, <1>4, <1>8
  <2>2. OrderInv(BothContracts)'
    BY <1>1, <1>4, <2>1, OrderStep DEF BothContracts
  <2>3. BarredHolds'
    BY <1>1, <1>4, <1>5, <1>8, <2>1, BarsFollow
  <2> QED
    BY <2>2, <2>3
<1> QED
  BY <1>6, <1>7, <1>8

LEMMA ReconStarts == ASSUME Init PROVE ReconInv
<1>1. TypeInv /\ WalkInv /\ OrderInv({"escrow"}) /\ OrderInv(BothContracts) /\ ChainTold
  BY TypeStarts, WalkStarts, OrderStarts, ChainToldStarts DEF Init
<1>2. OutcomesInv
  BY TypeStarts, WalkStarts, CoverStarts, CountStarts
     DEF OutcomesInv, FactoryInv, Init, HooksHandled, HookAt, HandledInv
<1>3. (\A p \in Passes : pass[p].pc = "idle") /\ (\A h \in Hooks : hook[h].pc = "idle")
  BY DEF Init, Idle
<1>4. Len(log) = 0 /\ DOMAIN log = {} /\ pass[Poller].pc = "idle" /\ chainLogs = {}
  BY <1>3, IndexerAssumption DEF Init, ChainInit
<1>5. EscrowInv
  BY <1>4 DEF EscrowInv, EscrowUpTo, Past, At
<1>6. /\ db.by = "nobody" /\ db.status = "none" /\ db.frozen = FALSE /\ db.backup = FALSE /\ db.submissions = 0
      /\ db.barred = FALSE /\ DOMAIN db.milestones = {}
  BY DEF Init, Row, NoMilestones
<1>7. \A C : Mute(log, C)
  BY <1>4 DEF Mute
<1>8. FrozenHolds /\ BackupHolds /\ BarredHolds
  BY <1>6, <1>7 DEF FrozenHolds, BackupHolds, BarredHolds, HoldsIn, Tells
<1>9. SubmissionsHold
  <2>1. Submissions = {}
    BY <1>4 DEF Submissions, Handled, Less
  <2> QED
    BY <1>6, <2>1, FS_EmptySet DEF SubmissionsHold
<1>10. "none" \notin TerminalStatuses
  BY DEF TerminalStatuses
<1>11. EndHolds /\ EndTaken /\ TokensHold /\ StatusInv
  <2>1. StatusSeen = {}
    BY <1>4 DEF StatusSeen, Less
  <2> QED
    BY <1>4, <1>6, <1>10, <2>1 DEF EndHolds, EndTaken, TokensHold, StatusInv, At
<1>12. RowFirst /\ RowBorn /\ FreshRecord /\ StatusHolds /\ MilestoneRows /\ MilestonesHold
  BY <1>4, <1>6 DEF RowFirst, OnlyFactory, RowBorn, FreshRecord, StatusHolds, MilestoneRows, MilestonesHold,
                    HasRow, At
<1>13. RowInv
  BY <1>8, <1>9, <1>11, <1>12 DEF RowInv
<1> QED
  BY <1>1, <1>2, <1>3, <1>5, <1>8, <1>11, <1>13 DEF ReconInv, CursorInv, OthersIdle, HooksIdle, At, HookAt

-----------------------------------------------------------------------------
\* When all is done the tables have taken up every log.

AtRest ==
    /\ Quiet /\ suffered["request"] = 0 /\ suffered["fault"] = 0 /\ suffered["crash"] = 0
    /\ FromTheStart /\ ReconInv

LEMMA QuietSeen ==
    ASSUME AtRest
    PROVE  /\ TypeInv /\ ChainInv /\ ChainTold /\ HandledInv /\ StatusInv /\ RowInv
           /\ suffered["delivery"] = 0 => BarredHolds
           /\ DOMAIN log = Places /\ Len(log) \in Nat /\ chainLogs = Places
           /\ \A p \in Passes : pass[p].pc = "idle"
           /\ pass[Poller].pc = "idle"
           /\ Handled = Places /\ StatusSeen = Places /\ MilestonesSeen = Places
<1>1. /\ TypeInv /\ ChainInv /\ ChainTold /\ HandledInv /\ StatusInv /\ RowInv /\ CoverInv /\ EscrowInv
      /\ suffered["delivery"] = 0 => BarredHolds
  BY DEF AtRest, ReconInv, CursorInv, OutcomesInv, FactoryInv, TypeInv
<1>2. (\A p \in Passes : pass[p].pc = "idle") /\ pass[Poller].pc = "idle" /\ cursor = head
  BY IndexerAssumption DEF AtRest, Quiet, At
<1>3. DOMAIN log = Places /\ Len(log) \in Nat /\ chainLogs \subseteq Places /\ FirstBlock(0) \in Nat
      /\ FirstBlock(0) <= 1 /\ head \in Nat
  BY <1>1, PlacesNat, FirstBlockNat DEF TypeInv, TablesOK, AtRest, FromTheStart, ChainInv
<1>4. ASSUME NEW l \in Places PROVE l \in chainLogs
  <2>1. log[l].from \in {"escrow", "factory"} /\ log[l].block \in 1..head
    BY <1>1, <1>4, FromNames DEF ChainInv, LogOK
  <2>2. log[l].block \in FirstBlock(0)..cursor
    BY <1>2, <1>3, <2>1
  <2> QED
    BY <1>1, <1>3, <1>4, <2>1, <2>2 DEF CoverInv, RecordedUpTo, EscrowInv, EscrowUpTo
<1>5. ~Busy /\ ~StatusDue /\ ~MilestoneDue
  BY <1>2 DEF Busy, StatusDue, MilestoneDue, Beyond
<1>6. chainLogs = Places
  BY <1>3, <1>4
<1>7. Handled = Places /\ StatusSeen = Places /\ MilestonesSeen = Places
  BY <1>5, <1>6 DEF Handled, StatusSeen, MilestonesSeen, Less
<1> QED
  BY <1>1, <1>2, <1>3, <1>6, <1>7

LEMMA SeenAll ==
    ASSUME NEW C, NEW eff, NEW x, NEW X, HoldsIn(log, Places, C, eff, x, X)
    PROVE  Tells(log, C, eff, x, X)
  BY DEF HoldsIn, SeenIn, Places

LEMMA SameTold ==
    ASSUME NEW C, NEW eff, NEW x, NEW y, NEW z, Len(log) \in Nat,
           Tells(log, C, eff, x, {z}), Tells(log, C, eff, y, {z})
    PROVE  x = y
<1> DEFINE Z == {z}
<1>1. Tells(log, C, eff, x, Z) /\ Tells(log, C, eff, y, Z)
  OBVIOUS
<1> HIDE DEF Z
<1>2. x = y \/ (x \in Z /\ y \in Z)
  BY <1>1, TellsAgree
<1>3. (x \in Z /\ y \in Z) => x = y
  BY DEF Z
<1> QED
  BY <1>2, <1>3

LEMMA FlagsAgree ==
    ASSUME AtRest
    PROVE  /\ db.frozen = onchain.frozen /\ db.backup = onchain.backup
           /\ suffered["delivery"] = 0 => db.barred = onchain.barred
<1>1. /\ ChainTold /\ RowInv /\ (suffered["delivery"] = 0 => BarredHolds)
      /\ Handled = Places /\ Len(log) \in Nat
  BY QuietSeen
<1>2. db.frozen = onchain.frozen
  <2>1. Tells(log, Freezes, FreezeEffect, db.frozen, {FALSE})
    BY <1>1, SeenAll DEF RowInv, FrozenHolds
  <2>2. Tells(log, Freezes, FreezeEffect, onchain.frozen, {FALSE})
    BY <1>1 DEF ChainTold, FreezeTold
  <2> QED
    BY <1>1, <2>1, <2>2, SameTold
<1>3. db.backup = onchain.backup
  <2>1. Tells(log, Backups, BackupEffect, db.backup, {FALSE})
    BY <1>1, SeenAll DEF RowInv, BackupHolds
  <2>2. Tells(log, Backups, BackupEffect, onchain.backup, {FALSE})
    BY <1>1 DEF ChainTold, BackupTold
  <2> QED
    BY <1>1, <2>1, <2>2, SameTold
<1>4. ASSUME suffered["delivery"] = 0 PROVE db.barred = onchain.barred
  <2>1. Tells(log, Bars, BarEffect, db.barred, {FALSE})
    BY <1>1, <1>4, SeenAll DEF BarredHolds
  <2>2. Tells(log, Bars, BarEffect, onchain.barred, {FALSE})
    BY <1>1 DEF ChainTold, BarTold
  <2> QED
    BY <1>1, <2>1, <2>2, SameTold
<1> QED
  BY <1>2, <1>3, <1>4

\* An escrow that was created has a row.
LEMMA RowThere ==
    ASSUME AtRest, onchain.status # "none"
    PROVE  HasRow
<1>1. PICK k \in Places : log[k].name = "EscrowCreated"
  BY QuietSeen DEF ChainInv, BornOK
<1>2. HandledInv /\ chainLogs = Places /\ \A p \in Passes : pass[p].pc = "idle"
  BY QuietSeen
<1>3. ~OnIt(k)
  BY <1>2 DEF OnIt, Beyond
<1> QED
  BY <1>1, <1>2, <1>3 DEF HandledInv, DealtWith

LEMMA StatusAgrees ==
    ASSUME AtRest, ClosingTold
    PROVE  db.status = onchain.status
<1>1. /\ ChainTold /\ ChainInv /\ RowInv /\ StatusInv /\ StatusSeen = Places /\ Len(log) \in Nat /\ DOMAIN log = Places
  BY QuietSeen
<1>2. CASE ~HasRow
  BY <1>1, <1>2, RowThere DEF StatusInv
<1>3. CASE HasRow /\ onchain.status \notin Closed
  <2>1. StillOpen
    BY <1>1, <1>3 DEF StillOpen, ChainInv, EndsOK
  <2>2. Tells(log, Opens, EventStatus, db.status, {"created"})
    BY <1>1, <1>3, <2>1, SeenAll DEF RowInv, StatusHolds
  <2>3. Tells(log, Opens, EventStatus, onchain.status, {"none", "created"})
    BY <1>1, <1>3 DEF ChainTold, StatusTold
  <2>4. db.status = onchain.status \/ (db.status \in {"created"} /\ onchain.status \in {"none", "created"})
    BY <1>1, <2>2, <2>3, TellsAgree
  <2>5. onchain.status # "none"
    BY <1>1, <1>3 DEF RowInv, RowBorn
  <2> QED
    BY <2>4, <2>5
<1>4. CASE onchain.status \in Closed
  <2> DEFINE D == Saying(Terminals, EndEffect, onchain.status)
             E == Saying(Terminals, EndEffect, db.status)
  <2>1. EndTold
    BY <1>1, <1>4 DEF ChainTold, StatusTold
  <2>2. ~(onchain.status = "settled" /\ Mute(log, Terminals))
    <3> SUFFICES ASSUME onchain.status = "settled" PROVE ~Mute(log, Terminals)
      OBVIOUS
    <3>1. PICK l \in Places : log[l].name = "Settled"
      BY <1>1 DEF ClosingTold, Happened
    <3>2. log[l].from = "escrow" /\ log[l].name \in TerminalNames
      BY <1>1, <3>1, FromNames DEF TerminalNames
    <3>3. Word(log[l]) \in Terminals
      BY <1>1, <3>2, WordOf DEF Terminals
    <3> QED
      BY <3>3 DEF Mute, Places
  <2>3. FirstIn(log, Terminals, D)
    BY <2>1, <2>2 DEF EndTold
  <2>4. PICK k \in Places : Word(log[k]) \in Terminals
    BY <2>3 DEF FirstIn, Saying, Places
  <2>5. db.status \in TerminalStatuses
    BY <1>1, <2>4 DEF RowInv, EndTaken
  <2>6. FirstIn(log, Terminals, E)
    BY <1>1, <2>5 DEF RowInv, EndHolds
  <2>7. D \subseteq Terminals /\ E \subseteq Terminals
    BY DEF Saying
  <2> HIDE DEF D, E
  <2>8. D \cap E # {}
    BY <1>1, <2>3, <2>6, <2>7, SaidOnce
  <2> QED
    BY <2>8 DEF D, E, Saying
<1> QED
  BY <1>2, <1>3, <1>4

LEMMA MilestonesAgree ==
    ASSUME AtRest
    PROVE  MilestonesReconciled
<1>1. /\ ChainTold /\ ChainInv /\ RowInv /\ MilestonesSeen = Places /\ Len(log) \in Nat /\ DOMAIN log = Places
  BY QuietSeen
<1>2. Happened(Abort) <=> ~Mute(log, Aborts)
  <2>1. \A l \in Places : log[l].name = Abort <=> Word(log[l]) \in Aborts
    <3> SUFFICES ASSUME NEW l \in Places PROVE log[l].name = Abort <=> Word(log[l]) \in Aborts
      OBVIOUS
    <3>1. log[l].name = Abort => log[l].from = "escrow"
      BY <1>1, FromNames
    <3> QED
      BY <1>1, <3>1, WordOf DEF Aborts
  <2> QED
    BY <1>1, <2>1 DEF Happened, Mute, Places
<1>3. ASSUME NEW i \in DOMAIN db.milestones PROVE db.milestones[i] = ChainMilestone(onchain, log, i)
  <2>1. onchain.count > 1 /\ i \in 0..onchain.count - 1
    BY <1>1 DEF RowInv, MilestoneRows
  <2>2. Tells(log, Concerning(i), MilestoneEffect, ChainMilestone(onchain, log, i), {"pending"})
    BY <1>1, <2>1 DEF ChainTold, MilestonesTold, MilestoneTold
  <2>3. Tells(log, Concerning(i), MilestoneEffect, db.milestones[i], {"pending"})
    BY <1>1, SeenAll DEF RowInv, MilestonesHold
  <2> QED
    BY <1>1, <2>2, <2>3, SameTold
<1> QED
  BY <1>2, <1>3 DEF MilestonesReconciled, ChainMilestone, Abort

LEMMA AllAgrees ==
    ASSUME FromTheStart, ReconInv
    PROVE  Reconciled
<1> SUFFICES ASSUME Quiet, Undisturbed({"request", "fault", "crash"})
             PROVE  RowReconciled /\ MilestonesReconciled /\ TokensRevoked
  BY DEF Reconciled
<1>1. AtRest
  BY DEF AtRest, Undisturbed
<1>2. /\ RowInv /\ Handled = Places /\ DOMAIN log = Places /\ pass[Poller].pc = "idle"
  BY <1>1, QuietSeen
<1>3. db.submissions = Cardinality({l \in DOMAIN log : log[l].name = "SubmissionMade"})
  BY <1>2 DEF RowInv, SubmissionsHold, Submissions
<1>4. RowReconciled
  BY <1>1, <1>3, FlagsAgree, StatusAgrees DEF RowReconciled, Undisturbed
<1>5. TokensRevoked
  BY <1>2 DEF TokensRevoked, RowInv, TokensHold, Abort, At
<1> QED
  BY <1>1, <1>4, <1>5, MilestonesAgree

\* When the poller has caught up and nothing is under way, the row of the escrow,
\* its milestones and the table of frozen addresses say what the chain says, and the
\* tokens that a closed escrow had are revoked, though the poller may have raced with
\* the webhook, the service's own insert and requests for tokens all along
\* (RunOnce, ProcessEscrowLog and its handlers, Escrow.CreateEscrow, Mint).
THEOREM DatabaseReconciled ==
    ASSUME FromTheStart
    PROVE  Spec => []Reconciled
<1>1. Init => ReconInv
  BY ReconStarts
<1>2. ReconInv /\ [Next]_vars => ReconInv'
  BY ReconStep
<1>3. ReconInv => Reconciled
  BY AllAgrees
<1> QED
  BY <1>1, <1>2, <1>3, PTL DEF Spec
=============================================================================
