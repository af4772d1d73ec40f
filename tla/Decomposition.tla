--------------------------- MODULE Decomposition ----------------------------
\* Task decompositions (internal/decomposition): a buyer proposes a tree of
\* sub-tasks, which is stored and judged, and later finalized: every leaf becomes
\* an RFQ (module Bidding).  Both are single database transactions; finalizing
\* reads first and goes by what it has read.
\* One decomposition.  Titles, budgets and the market context of the answer are
\* left out.
EXTENDS Naturals, Sequences, FiniteSets

CONSTANTS
    Planners,   \* requests that may be under way at a time
    Proposals,  \* the trees that may be proposed, as sequences of sub-tasks
    Panels,     \* numbers of verifiers a request to finalize may name
    NoParent

ASSUME PlanAssumption == \A proposal \in Proposals : IsFiniteSet(DOMAIN proposal)

VerificationTypes == {"optimistic", "quorum", "zk_proof", "unit_test"}

VARIABLES
    plan,    \* the row of decompositions
    nodes,   \* decomposition_nodes: by temporary id, the node
    offers,  \* the RFQs made from it
    planner  \* what each request is at

planVars == <<plan, nodes, offers, planner>>

NotPlanning == [pc |-> "idle", panel |-> 0, quorum |-> 0, leaves |-> << >>]

PlanInit ==
    /\ plan = [status |-> "none", rfqs |-> << >>]
    /\ nodes = << >> /\ offers = << >>
    /\ planner = [p \in Planners |-> NotPlanning]

Planning(p, pc) == planner[p].pc = pc
PlanEnds(p) == planner' = [planner EXCEPT ![p] = NotPlanning]

-----------------------------------------------------------------------------
\* Proposing.

TempIDs(proposal) == {proposal[i].id : i \in DOMAIN proposal}

\* The checks before anything is stored.
WellFormed(proposal) ==
    /\ proposal # << >>
    /\ \A i \in DOMAIN proposal :
          /\ \A j \in 1..i - 1 : proposal[j].id # proposal[i].id
          /\ proposal[i].parent \in TempIDs(proposal) \cup {NoParent}
          /\ proposal[i].type \in VerificationTypes \cup {"none"}
          /\ proposal[i].preference => proposal[i].id \notin {proposal[j].parent : j \in DOMAIN proposal}

\* One turn of the loop that inserts those whose parent is in already.
Inserted(proposal) ==
    LET in[n \in 0..Len(proposal)] ==
            IF n = 0 THEN {NoParent}
            ELSE in[n - 1] \cup {proposal[i].id : i \in {j \in DOMAIN proposal : proposal[j].parent \in in[n - 1]}}
    IN  in[Len(proposal)] \ {NoParent}

\* Otherwise some parents go round in a circle.
Acyclic(proposal) == Inserted(proposal) = TempIDs(proposal)

Leaves(tree) == {n \in DOMAIN tree : \A m \in DOMAIN tree : tree[m].parent # n}

\* validateLeafNodes.
Settleable(node) ==
    /\ node.type # "none" /\ ~node.further
    /\ node.type = "zk_proof" => node.circuit

\* CreateDecomposition.
CreateDecomposition(p) ==
    /\ Planning(p, "create") /\ plan.status = "none"
    /\ \E proposal \in Proposals :
          /\ WellFormed(proposal) /\ Acyclic(proposal)
          /\ nodes' = [n \in TempIDs(proposal) |->
                LET sub == CHOOSE s \in {proposal[i] : i \in DOMAIN proposal} : s.id = n
                IN  [parent |-> sub.parent, type |-> sub.type, further |-> sub.further,
                     circuit |-> sub.circuit, rfq |-> 0]]
          /\ plan' = [plan EXCEPT !.status =
                IF \A n \in Leaves(nodes') : Settleable(nodes'[n]) THEN "valid" ELSE "draft"]
    /\ PlanEnds(p)
    /\ UNCHANGED offers

-----------------------------------------------------------------------------
\* Finalizing.

\* buildRFQParamsForLeaf: the one verifier is the first of the panel.
Buildable(node, panel, quorum) ==
    /\ node.type \in {"quorum", "zk_proof"} => panel > 0
    /\ node.type = "quorum" => quorum \in 1..panel

RFQOf(n, node) ==
    [leaf |-> n,
     tier |-> IF node.type \in {"quorum", "zk_proof"} THEN 1 ELSE 0,
     mode |-> IF node.type \in {"quorum", "zk_proof"} THEN "sealed" ELSE "open",
     verifier |-> node.type \in {"quorum", "zk_proof"}]

\* The decomposition and its nodes; the leaves are put in the order of their
\* depth, here in any.
FinalizeReads(p) ==
    /\ Planning(p, "finalize") /\ plan.status = "valid"
    /\ \A n \in Leaves(nodes) : Buildable(nodes[n], planner[p].panel, planner[p].quorum)
    /\ \E order \in [1..Cardinality(Leaves(nodes)) -> Leaves(nodes)] :
          /\ {order[i] : i \in DOMAIN order} = Leaves(nodes)
          /\ planner' = [planner EXCEPT ![p].pc = "commit", ![p].leaves = order]
    /\ UNCHANGED <<plan, nodes, offers>>

BuggyFinalizeCommits(p) ==  \* the RFQs are made outside of the transaction
    LET leaves == planner[p].leaves
    IN  /\ Planning(p, "commit")
        /\ offers' = offers \o [i \in DOMAIN leaves |-> RFQOf(leaves[i], nodes[leaves[i]])]
        /\ IF plan.status = "valid"
           THEN /\ plan' = [status |-> "finalized", rfqs |-> [i \in DOMAIN leaves |-> Len(offers) + i]]
                /\ nodes' = [n \in DOMAIN nodes |-> [nodes[n] EXCEPT !.rfq =
                      IF \E i \in DOMAIN leaves : leaves[i] = n
                      THEN Len(offers) + CHOOSE i \in DOMAIN leaves : leaves[i] = n ELSE @]]
           ELSE UNCHANGED <<plan, nodes>>
        /\ PlanEnds(p)

\* FinalizeDecomposition's transaction: the status only if it is still valid, an
\* RFQ for every leaf, the link to it only where there is none, the list of them.
FinalizeCommits(p) ==
    LET leaves == planner[p].leaves
    IN  /\ Planning(p, "commit") /\ plan.status = "valid"
        /\ \A i \in DOMAIN leaves : nodes[leaves[i]].rfq = 0
        /\ offers' = offers \o [i \in DOMAIN leaves |-> RFQOf(leaves[i], nodes[leaves[i]])]
        /\ plan' = [status |-> "finalized", rfqs |-> [i \in DOMAIN leaves |-> Len(offers) + i]]
        /\ nodes' = [n \in DOMAIN nodes |-> [nodes[n] EXCEPT !.rfq =
              IF \E i \in DOMAIN leaves : leaves[i] = n
              THEN Len(offers) + CHOOSE i \in DOMAIN leaves : leaves[i] = n ELSE @]]
        /\ PlanEnds(p)

\* A refusal, a time of the RFQs that is over by now, a failing statement: the
\* transaction is rolled back.
PlanFails(p) ==
    /\ ~Planning(p, "idle")
    /\ PlanEnds(p)
    /\ UNCHANGED <<plan, nodes, offers>>

-----------------------------------------------------------------------------
\* The doors parse and hand on.

ComesTo(p, request) ==
    /\ Planning(p, "idle")
    /\ planner' = [planner EXCEPT ![p] = request]
    /\ UNCHANGED <<plan, nodes, offers>>

HandlerCreates(p) == ComesTo(p, [NotPlanning EXCEPT !.pc = "create"])
ToolCreates(p) == ComesTo(p, [NotPlanning EXCEPT !.pc = "create"])

HandlerFinalizes(p) ==
    \E panel \in Panels, quorum \in Panels :
        ComesTo(p, [NotPlanning EXCEPT !.pc = "finalize", !.panel = panel, !.quorum = quorum])
ToolFinalizes(p) ==
    \E panel \in Panels, quorum \in Panels :
        ComesTo(p, [NotPlanning EXCEPT !.pc = "finalize", !.panel = panel, !.quorum = quorum])

PlanNext ==
    \E p \in Planners :
        \/ HandlerCreates(p) \/ ToolCreates(p) \/ HandlerFinalizes(p) \/ ToolFinalizes(p)
        \/ CreateDecomposition(p) \/ FinalizeReads(p) \/ FinalizeCommits(p) \/ PlanFails(p)

PlanSpec == PlanInit /\ [][PlanNext]_planVars

-----------------------------------------------------------------------------
\* Properties.

\* However often and by however many requests a decomposition is finalized, each
\* leaf has one RFQ and nothing else has one; before there are none, and none is
\* left without its leaf (FinalizeDecomposition).
LeavesOffered ==
    IF plan.status = "finalized"
    THEN /\ Len(offers) = Cardinality(Leaves(nodes))
         /\ \A n \in DOMAIN nodes :
               IF n \in Leaves(nodes) THEN nodes[n].rfq \in DOMAIN offers /\ offers[nodes[n].rfq].leaf = n
               ELSE nodes[n].rfq = 0
         /\ {plan.rfqs[i] : i \in DOMAIN plan.rfqs} = DOMAIN offers
    ELSE offers = << >> /\ \A n \in DOMAIN nodes : nodes[n].rfq = 0
=============================================================================
