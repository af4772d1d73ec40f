----------------------------- MODULE MCServices -----------------------------
\* The server's services around one escrow, one after the other: "focus" is the
\* service whose requests come; the others rest.
EXTENDS EscrowCalls, Checkout, CreationRequests, Decomposition, A2ATasks, TLC

VARIABLE focus

servicesVars == <<focus, callVars, checkoutVars, requestVars, planVars, a2aVars>>

-----------------------------------------------------------------------------
\* Values.

\* Every party's key, with a token and without, in one piece and in milestones,
\* with a backup and stakes and without.
Agreed(key, token, multi, backup, workerStake, verifierStake) ==
    [key |-> key, token |-> token, multi |-> multi, backup |-> backup,
     workerStake |-> workerStake, verifierStake |-> verifierStake]

SomeAgreements ==
    {Agreed("buyer", TRUE, TRUE, TRUE, FALSE, FALSE), Agreed("buyer", FALSE, FALSE, FALSE, FALSE, FALSE),
     Agreed("worker", FALSE, TRUE, FALSE, TRUE, FALSE), Agreed("backup", TRUE, FALSE, TRUE, TRUE, FALSE),
     Agreed("verifier", TRUE, FALSE, FALSE, FALSE, TRUE), Agreed("arbitrator", FALSE, TRUE, FALSE, FALSE, FALSE)}

\* One authorization in two envelopes.
Envelope(type) == [signer |-> "buyer", to |-> "escrow", value |-> 1, type |-> type]
TwoEnvelopes == {Envelope("intent"), Envelope("payment")}

\* A plain request for an escrow, and all that differ from it in two fields.
Plain ==
    [buyer |-> "buyer", worker |-> "worker", arbitrator |-> "arbitrator",
     panel |-> <<"v1", "v2">>, count |-> 1, threshold |-> 1, amount |-> 4, deadline |-> 6,
     stake |-> Absent, token |-> "none", milestones |-> << >>, backup |-> "none",
     extension |-> Absent, zk |-> "none", circuit |-> "none", tier |-> 0, parent |-> "none"]

Stage(amount, deadline) == [amount |-> amount, deadline |-> deadline]

Options ==
    [buyer |-> {"worker", "zero", "bare", "bad"}, worker |-> {"arbitrator", "bare"}, arbitrator |-> {"zero", "bad"},
     panel |-> {<< >>, <<"v1">>, <<"v1", "v1">>, <<"worker", "v1">>, <<"v1", "bad">>, <<"bare">>,
                <<"v1", "v2", "v3", "v4", "v5", "v6", "v7", "v8">>},
     count |-> {0, 2, 8}, threshold |-> {0, 2}, amount |-> {Malformed, -1, 0, 1, 3},
     deadline |-> {Malformed, 5, 21}, stake |-> {Malformed, -1, 0, 1}, token |-> {"token", "zero", "bad"},
     milestones |-> {<<Stage(2, 6), Stage(2, 7)>>, <<Stage(2, 7), Stage(2, 6)>>, <<Stage(2, 6)>>,
                     <<Stage(-1, 6), Stage(5, 7)>>, <<Stage(4, 5)>>, <<Stage(2, 6), Stage(2, 21)>>,
                     <<Stage(Malformed, 6)>>},
     backup |-> {"backup", "worker", "v1", "zero", "bare", "bad"}, extension |-> {Malformed, 0, 1, 21},
     zk |-> {"zk", "zero", "bad"}, circuit |-> {"circuit", "zero", "bad"}, tier |-> {-1, 1, 2},
     parent |-> {"ours", "unknown"}]

SomeRequests ==
    {Plain} \cup UNION {UNION {{[[Plain EXCEPT ![f] = x] EXCEPT ![g] = y]
                                : x \in Options[f], y \in Options[g]} : g \in DOMAIN Plain} : f \in DOMAIN Plain}

\* Trees, and what is none.
Sub(id, above, type) ==
    [id |-> id, parent |-> above, type |-> type, further |-> FALSE, circuit |-> TRUE, preference |-> FALSE]

SomeProposals ==
    {<<Sub("a", NoParent, "none"), Sub("b", "a", "quorum"), Sub("c", "a", "optimistic")>>,
     <<Sub("b", "a", "zk_proof"), Sub("a", NoParent, "none")>>,
     <<[Sub("a", NoParent, "zk_proof") EXCEPT !.circuit = FALSE]>>,
     <<[Sub("a", NoParent, "unit_test") EXCEPT !.further = TRUE]>>,
     <<Sub("a", "b", "none"), Sub("b", "a", "none")>>,
     <<Sub("a", "z", "unit_test")>>, <<Sub("a", NoParent, "unit_test"), Sub("a", NoParent, "optimistic")>>,
     <<[Sub("a", NoParent, "unit_test") EXCEPT !.preference = TRUE], Sub("b", "a", "unit_test")>>,
     <<Sub("a", NoParent, "unit_test")>>, << >>}

Interchangeable == Permutations(CallRequests) \cup Permutations(Shoppers) \cup Permutations(Processes)

-----------------------------------------------------------------------------

Services == {"calls", "mandates", "checkout", "requests", "plans", "a2a"}

\* Requests that present mandates come two at a time, the others one at a time.
Comes ==
    LET busy == {q \in CallRequests : caller'[q].pc # "idle"}
    IN  IF focus = "mandates" THEN \A q \in busy : caller'[q].may = {"mandate"}
        ELSE Cardinality(busy) <= 1 /\ \A q \in busy : caller'[q].may # {"mandate"}

ServicesInit ==
    /\ focus \in Services
    /\ CallsInit /\ (focus = "mandates" => terms.token)
    /\ (focus \notin {"calls", "mandates"} => terms = (CHOOSE t \in Agreements : TRUE) /\ row = RegisteredRow)
    /\ CheckoutInit /\ (focus # "checkout" => escrow = "none")
    /\ RequestsInit /\ (focus # "requests" => asked = Plain)
    /\ PlanInit /\ A2AInit

ServicesNext ==
    /\ UNCHANGED focus
    /\ \/ /\ focus \in {"calls", "mandates"} /\ CallsNext /\ Comes
          /\ UNCHANGED <<checkoutVars, requestVars, planVars, a2aVars>>
       \/ /\ focus = "checkout" /\ CheckoutNext
          /\ UNCHANGED <<callVars, requestVars, planVars, a2aVars>>
       \/ /\ focus = "requests" /\ RequestsNext
          /\ UNCHANGED <<callVars, checkoutVars, planVars, a2aVars>>
       \/ /\ focus = "plans" /\ PlanNext
          /\ UNCHANGED <<callVars, checkoutVars, requestVars, a2aVars>>
       \/ /\ focus = "a2a" /\ A2ANext
          /\ UNCHANGED <<callVars, checkoutVars, requestVars, planVars>>

ServicesSpec == ServicesInit /\ [][ServicesNext]_servicesVars
=============================================================================
