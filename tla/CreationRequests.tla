-------------------------- MODULE CreationRequests --------------------------
\* What becomes of a request for a new escrow before anything is written or sent:
\* the HTTP handler, the MCP tool and the checkout each check it by themselves,
\* the service checks it again and derives the intent from it (module
\* EscrowCreation goes on from there), and the factory and the escrow's
\* constructor have the last word.
\* Texts are what they parse to: an address is a name, "zero" (the zero address
\* as it is usually written), "bare" (the same without its prefix), "bad" (none
\* at all) or "none" (left out).  Numbers are small, Malformed when they do not
\* parse, and do not fit the database above IntMax.
EXTENDS Integers, Sequences, FiniteSets

CONSTANTS
    Requests,     \* the requests that may come
    ServerFloor,  \* the complexity floor of the server's configuration
    ChainFloor,   \* and of the factory
    Now,          \* the time of the block
    IntMax

Malformed == -9
Absent == -8

\* Every field of a request is what its text parses to.
Terms ==
    [buyer : STRING, worker : STRING, arbitrator : STRING, panel : Seq(STRING),
     count : Int, threshold : Int, amount : Int, deadline : Int, stake : Int, token : STRING,
     milestones : Seq([amount : Int, deadline : Int]), backup : STRING, extension : Int,
     zk : STRING, circuit : STRING, tier : Int, parent : STRING]

ASSUME TermsAssumption == Requests \subseteq Terms
ASSUME RequestsAssumption == {ServerFloor, ChainFloor, Now, IntMax} \subseteq Nat /\ Now < IntMax

VARIABLES
    asked,      \* the request
    parent,     \* the active worker of the parent escrow: on the chain, in the row
    doorAnswer  \* what each door has made of the request

requestVars == <<asked, parent, doorAnswer>>

Doors == {"http", "mcp", "ucp"}
NoDecision == [verdict |-> "none", intent |-> <<>>, unfair |-> FALSE]

RequestsInit ==
    /\ asked \in Requests
    /\ parent = [chain |-> "buyer", row |-> "buyer"]
    /\ doorAnswer = [d \in Doors |-> NoDecision]

IsHexAddress(text) == text \notin {"bad", "none"}
HexToAddress(text) == IF text \in {"bare", "none"} THEN "zero" ELSE text

\* isValidAddress: only the usual form of the zero address is told.
IsValidAddress(text) == IsHexAddress(text) /\ text # "zero"

IsAddress(text) == IsHexAddress(text) /\ HexToAddress(text) # "zero"
Unsigned(n) == n >= 0
UnsignedOrAbsent(n) == Unsigned(n) \/ n = Absent

Parties3(p) == {p.buyer, p.worker, p.arbitrator}
Panel(p) == SubSeq(p.panel, 1, p.count)

BuggyQuorum(p) ==  \* a quorum must be less than all
    p.count \in 1..7 /\ p.threshold \in 1..p.count - 1 /\ Len(p.panel) \in p.count..7

Quorum(p) == p.count \in 1..7 /\ p.threshold \in 1..p.count /\ Len(p.panel) \in p.count..7

\* Those of the panel that count are different, and none of the parties.
PanelApart(p) ==
    \A i \in 1..p.count :
        /\ HexToAddress(p.panel[i]) \notin {HexToAddress(a) : a \in Parties3(p)}
        /\ \A j \in 1..i - 1 : HexToAddress(p.panel[i]) # HexToAddress(p.panel[j])

PartiesApart(p) ==
    Cardinality({HexToAddress(p.buyer), HexToAddress(p.worker), HexToAddress(p.arbitrator)}) = 3

\* ValidateComplexityFloor.
MeetsFloor(amount) == ServerFloor = 0 \/ amount >= ServerFloor

\* The verifier and its circuit, by the text of the one and the value of the other.
CircuitPaired(p) ==
    /\ p.zk = "none" \/ IsHexAddress(p.zk)
    /\ p.circuit # "bad"
    /\ (HexToAddress(p.zk) = "zero") = (p.circuit = "none")

\* Sub-delegation: an escrow of this factory, whose worker, as the row has it, is the buyer.
ParentAdmits(p) ==
    \/ p.parent = "none"
    \/ p.parent = "ours" /\ HexToAddress(p.buyer) = parent.row

-----------------------------------------------------------------------------
\* The doors.

\* Handlers.CreateEscrow.
HandlerRoles(p) ==
    /\ p.amount # Malformed /\ MeetsFloor(p.amount) /\ Unsigned(p.deadline)
    /\ \A a \in Parties3(p) : IsValidAddress(a)
    /\ Quorum(p)
    /\ \A i \in 1..p.count : IsValidAddress(p.panel[i])
    /\ PanelApart(p)

HandlerTerms(p) ==
    /\ UnsignedOrAbsent(p.stake)
    /\ p.token = "none" \/ IsHexAddress(p.token)
    /\ \A i \in DOMAIN p.milestones : Unsigned(p.milestones[i].amount) /\ Unsigned(p.milestones[i].deadline)
    /\ p.backup = "none" \/ IsValidAddress(p.backup)
    /\ p.extension # Absent => Unsigned(p.extension) /\ HexToAddress(p.backup) # "zero"
    /\ CircuitPaired(p)
    /\ p.tier \in {0, 1}

HandlerNumbers(p) ==
    /\ ParentAdmits(p)
    /\ p.deadline <= IntMax /\ p.extension <= IntMax
    /\ \A i \in DOMAIN p.milestones : p.milestones[i].deadline <= IntMax

\* Server.handleCreateEscrow.
ToolRoles(p) ==
    /\ \A a \in Parties3(p) : IsAddress(a)
    /\ PartiesApart(p)
    /\ p.amount # Malformed /\ MeetsFloor(p.amount) /\ Unsigned(p.deadline)
    /\ UnsignedOrAbsent(p.stake)
    /\ Quorum(p)
    /\ \A i \in 1..p.count : IsAddress(p.panel[i])
    /\ PanelApart(p)

ToolTerms(p) ==
    /\ p.token = "none" \/ IsHexAddress(p.token)
    /\ \A i \in DOMAIN p.milestones : Unsigned(p.milestones[i].amount) /\ Unsigned(p.milestones[i].deadline)
    /\ p.backup = "none" \/ IsHexAddress(p.backup)
    /\ UnsignedOrAbsent(p.extension)
    /\ p.extension > 0 => HexToAddress(p.backup) # "zero"
    /\ CircuitPaired(p)
    /\ p.tier \in {0, 1}

ToolNumbers(p) == HandlerNumbers(p)

\* Service.createEscrowFromPayload.
PayloadRoles(p) ==
    /\ Unsigned(p.amount) /\ MeetsFloor(p.amount) /\ Unsigned(p.deadline)
    /\ \A a \in Parties3(p) : IsValidAddress(a)
    /\ Quorum(p)
    /\ PartiesApart(p)
    /\ \A i \in 1..p.count : IsValidAddress(p.panel[i])
    /\ PanelApart(p)

PayloadTerms(p) ==
    /\ UnsignedOrAbsent(p.stake)
    /\ p.token = "none" \/ IsHexAddress(p.token)
    /\ \A i \in DOMAIN p.milestones :
          Unsigned(p.milestones[i].amount) /\ p.milestones[i].deadline \in 0..IntMax
    /\ p.backup = "none" \/ IsValidAddress(p.backup)
    /\ p.extension # Absent => Unsigned(p.extension) /\ HexToAddress(p.backup) # "zero"
    /\ CircuitPaired(p)
    /\ p.tier \in {0, 1}

PayloadNumbers(p) == ParentAdmits(p) /\ p.deadline <= IntMax /\ p.extension <= IntMax

\* What the service gets: a checkout hands on the part of the panel that counts.
DoorTakes(d, p) ==
    CASE d = "http" -> HandlerRoles(p) /\ HandlerTerms(p) /\ HandlerNumbers(p)
      [] d = "mcp"  -> ToolRoles(p) /\ ToolTerms(p) /\ ToolNumbers(p)
      [] d = "ucp"  -> PayloadRoles(p) /\ PayloadTerms(p) /\ PayloadNumbers(p)

HandedOn(d, p) == IF d = "ucp" THEN [p EXCEPT !.panel = Panel(p)] ELSE p

-----------------------------------------------------------------------------
\* Service.CreateEscrow.

ServiceTakes(p) ==
    /\ Quorum(p) /\ Unsigned(p.amount)
    /\ \A a \in Parties3(p) : IsAddress(a)
    /\ PartiesApart(p)
    /\ \A i \in 1..p.count : IsAddress(p.panel[i])
    /\ PanelApart(p)

BuggyIntent(p) ==  \* the panel as it came
    [p EXCEPT !.extension = IF @ = Absent THEN 0 ELSE @, !.stake = IF @ = Absent THEN 0 ELSE @,
              !.backup = HexToAddress(@), !.token = HexToAddress(@), !.zk = HexToAddress(@)]

\* buildCreateEscrowIntentID: the terms in their canonical form.
Intent(p) ==
    [p EXCEPT !.panel = Panel(p),
              !.extension = IF @ = Absent THEN 0 ELSE @, !.stake = IF @ = Absent THEN 0 ELSE @,
              !.backup = HexToAddress(@), !.token = HexToAddress(@), !.zk = HexToAddress(@)]

-----------------------------------------------------------------------------
\* The contracts, for terms that can be put into a call.

Expressible(p) ==
    /\ \A a \in Parties3(p) \cup {p.panel[i] : i \in DOMAIN p.panel} : IsHexAddress(a)
    /\ \A a \in {p.backup, p.token, p.zk} : a # "bad"
    /\ {p.amount, p.deadline, p.count, p.threshold, p.tier} \subseteq Nat
    /\ p.circuit # "bad"
    /\ UnsignedOrAbsent(p.stake) /\ UnsignedOrAbsent(p.extension)
    /\ \A i \in DOMAIN p.milestones : {p.milestones[i].amount, p.milestones[i].deadline} \subseteq Nat
    /\ Len(p.panel) \in p.count..7

RolesCollide(p) ==
    \/ ~PartiesApart(p) \/ ~PanelApart(p)
    \/ /\ HexToAddress(p.backup) # "zero"
       /\ p.backup \in Parties3(p) \cup {p.panel[i] : i \in 1..p.count}
    \/ \E i \in 1..p.count : HexToAddress(p.panel[i]) = "zero"

\* TaskEscrowFactory.createEscrow; nobody is frozen.
FactoryTakes(p) ==
    /\ p.amount > 0 /\ p.amount >= ChainFloor
    /\ p.deadline > Now
    /\ p.tier <= 1
    /\ p.count \in 1..7 /\ p.threshold \in 1..p.count
    /\ ~RolesCollide(p)
    /\ p.parent = "none" \/ (p.parent = "ours" /\ p.buyer = parent.chain)

\* The constructor.
EscrowTakes(p) ==
    /\ \A a \in Parties3(p) : HexToAddress(a) # "zero"
    /\ (HexToAddress(p.zk) # "zero") = (p.circuit \notin {"none", "zero"})

Total[milestones \in Seq([amount : Nat, deadline : Nat])] ==
    IF milestones = << >> THEN 0 ELSE Head(milestones).amount + Total[Tail(milestones)]

\* _initMilestones.
MilestonesTaken(p) ==
    p.milestones # << >> =>
        /\ \A i \in DOMAIN p.milestones :
              /\ p.milestones[i].deadline > Now
              /\ i > 1 => p.milestones[i].deadline > p.milestones[i - 1].deadline
        /\ Total[p.milestones] = p.amount

ChainTakes(p) == Expressible(p) /\ FactoryTakes(p) /\ EscrowTakes(p) /\ MilestonesTaken(p)

-----------------------------------------------------------------------------
\* Where a door is stricter than the chain: the server has a floor of its own, the
\* database is narrower, an extension wants a backup worker (the tool lets one of
\* 0 pass), a circuit that is given wants a verifier, the row may lag behind.
Stricter(d, p) ==
    \/ ~MeetsFloor(p.amount)
    \/ p.deadline > IntMax \/ p.extension > IntMax
    \/ \E i \in DOMAIN p.milestones : p.milestones[i].deadline > IntMax
    \/ p.extension >= (IF d = "mcp" THEN 1 ELSE 0) /\ HexToAddress(p.backup) = "zero"
    \/ d # "mcp" /\ p.backup = "zero"
    \/ p.circuit = "zero" /\ HexToAddress(p.zk) = "zero"
    \/ p.parent = "ours" /\ parent.row # parent.chain

\* The request comes through a door.
Decide(d) ==
    /\ doorAnswer[d].verdict = "none"
    /\ doorAnswer' = [doorAnswer EXCEPT ![d] =
          IF DoorTakes(d, asked) /\ ServiceTakes(HandedOn(d, asked))
          THEN [verdict |-> "taken", intent |-> Intent(HandedOn(d, asked)), unfair |-> FALSE]
          ELSE [verdict |-> "refused", intent |-> <<>>,
                unfair |-> ChainTakes(asked) /\ ~Stricter(d, asked)]]
    /\ UNCHANGED <<asked, parent>>

\* The backup of the parent's worker takes over; later the indexer tells.
ParentReplaced ==
    /\ asked.parent = "ours"
    /\ \/ parent' = [parent EXCEPT !.chain = "backup"]
       \/ parent' = [parent EXCEPT !.row = parent.chain]
    /\ UNCHANGED <<asked, doorAnswer>>

RequestsNext == ParentReplaced \/ \E d \in Doors : Decide(d)

RequestsSpec == RequestsInit /\ [][RequestsNext]_requestVars

-----------------------------------------------------------------------------
\* Properties.

\* A door refuses nothing that the contracts would take, but for the reasons it
\* has of its own: three copies of the checks and the contracts' agree.
RefusedForCause == \A d \in Doors : ~doorAnswer[d].unfair

\* Through whichever door a request comes, and comes again, it is the same
\* intent, so that it makes one escrow (buildCreateEscrowIntentID).
SameIntentAtEveryDoor ==
    \A d, e \in Doors :
        doorAnswer[d].verdict = "taken" /\ doorAnswer[e].verdict = "taken" =>
            doorAnswer[d].intent = doorAnswer[e].intent
=============================================================================
