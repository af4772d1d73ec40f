------------------------------ MODULE MCTokens ------------------------------
\* Capability tokens by themselves, while others write the escrow's row in any
\* way; or one token, with the emergency handlers and the indexer as the others.
EXTENDS Emergency, TLC

VARIABLE focus

focusVars == <<focus, tokenVars, emergencyVars>>

\* A right less, a shorter life, or both.
SomeGrants ==
    {[rights |-> {"fund", "submit"}, expires |-> 2], [rights |-> {"fund"}, expires |-> 2],
     [rights |-> {"submit"}, expires |-> 1], [rights |-> {"fund"}, expires |-> 1]}

Interchangeable == Permutations(Responders)

FocusInit ==
    /\ focus \in {"tokens", "emergency"}
    /\ EmergencyInit
    /\ IF focus = "tokens" THEN TokensInit /\ disturbed = TRUE
       ELSE OneToken /\ dctToken[1].rights = {"fund", "submit"}

\* A behaviour is about the escrow or about the address, and then the parties
\* rest: the two share neither a flag nor an event.
Related ==
    LET address == {i \in DOMAIN txs' : txs'[i].action \in {"freeze_address", "unfreeze_address"}}
    IN  address = {} \/ (address = DOMAIN txs' /\ contract'.status = "funded")

FocusNext ==
    /\ UNCHANGED focus
    /\ \/ focus = "tokens" /\ TokensNext /\ UNCHANGED emergencyVars
       \/ focus = "emergency" /\ ~disturbed /\ EmergencyStep /\ Related

FocusSpec == FocusInit /\ [][FocusNext]_focusVars
=============================================================================
