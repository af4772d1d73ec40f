------------------------- MODULE DelegationTokens --------------------------
\* Delegation capability tokens (internal/dct) with their authorization
\* (internal/authz): minting by the buyer, attenuated delegation along a chain,
\* introspection of a chain, revocation, and the emergency override, while others
\* write the escrow's row (module Emergency has the emergency handlers and the
\* indexer, and extends this one).
\* A step is one statement, with the checks in memory around it.  A request
\* that is refused writes nothing but a row of the audit log that nobody reads;
\* it is left out, and so are secrets and their hashes: a token is presented by
\* who holds it.
EXTENDS Naturals, Sequences, FiniteSets

CONSTANTS
    Principals,     \* addresses
    Anonymous,      \* a caller that is not authenticated, as every HTTP caller
    Buyer, FactoryOwner,
    NamedIssuers,   \* issuers a request may name; it need not name one
    Grants,         \* what requests ask for: operations and resources, and expires_at
    TokenRequests,  \* requests that may be under way at a time, to issue or introspect
    Revocations,    \* and to revoke
    MaxRoots, MaxTokens, MaxClock  \* bounds: of minted tokens, of all, of time

ASSUME TokensAssumption ==
    /\ {Buyer, FactoryOwner} \cup NamedIssuers \subseteq Principals /\ Anonymous \notin Principals
    /\ \A g \in Grants : g.rights # {} /\ g.expires \in Nat
    /\ {MaxRoots, MaxTokens, MaxClock} \subseteq Nat

VARIABLES
    clock,
    escrowRow,  \* the escrow in the database, and the frozen_addresses row
    dctToken,   \* dct_tokens; "by" is the caller in the audit row of the decision
    dctRequest  \* what each request is at

tokenVars == <<clock, escrowRow, dctToken, dctRequest>>

\* A token's id is its place in dctToken; parent 0 is none.
Token == [parent : Nat, subject : Principals, issuer : Principals,
          rights : SUBSET UNION {g.rights : g \in Grants}, expires : Nat,
          revoked : BOOLEAN, by : Principals]

\* A request for a token, and how far along its chain; "reasons": whether the
\* verdict has found any; "doomed": whether the chain was revoked or expired
\* before the request came.
Chain(pc, token, at, reasons, doomed) ==
    [pc |-> pc, token |-> token, at |-> at, reasons |-> reasons, doomed |-> doomed, new |-> <<>>]

\* A request with a token to insert.
Insertion(new) ==
    [pc |-> "insert", token |-> 0, at |-> 0, reasons |-> FALSE, doomed |-> FALSE, new |-> new]

NoRequest == Chain("idle", 0, 0, FALSE, FALSE)

TokensInit ==
    /\ escrowRow = [status |-> "funded", frozen |-> FALSE, barred |-> FALSE]
    /\ clock = 0 /\ dctToken = << >>
    /\ dctRequest = [q \in TokenRequests \cup Revocations |-> NoRequest]

Requesting(q, pc) == dctRequest[q].pc = pc
RequestAt(q, r) == dctRequest' = [dctRequest EXCEPT ![q] = r]
RequestEnds(q) == RequestAt(q, NoRequest)
RequestOnly == UNCHANGED <<clock, escrowRow, dctToken>>

\* isEscrowInactive, the frozen flag aside.
InactiveStatuses == {"settled", "refunded", "cancelled", "resolved"}

\* RevokeDCTTokensByEscrow.
RevokeByEscrow == dctToken' = [t \in DOMAIN dctToken |-> [dctToken[t] EXCEPT !.revoked = TRUE]]

-----------------------------------------------------------------------------
\* Decisions.

\* Authorize: default deny; a frozen or closed escrow admits nothing.  (The
\* principal's own frozen flag is never set.)
Authorize(op, caller, token) ==
    /\ caller # Anonymous
    /\ ~escrowRow.frozen /\ escrowRow.status \notin InactiveStatuses
    /\ op = "mint" => caller = Buyer
    /\ op = "delegate" => caller = token.subject
    /\ op = "revoke" => caller \in {token.issuer, Buyer}

\* A new row; LogAuthzDecision has written the caller before.
Issue(parent, subject, issuer, grant, caller) ==
    [parent |-> parent, subject |-> subject, issuer |-> issuer, rights |-> grant.rights,
     expires |-> grant.expires, revoked |-> FALSE, by |-> caller]

BuggyStrictAttenuation(grant, parent) ==  \* fewer rights, not a part of them
    /\ Cardinality(grant.rights) <= Cardinality(parent.rights) /\ grant.expires <= parent.expires
    /\ Cardinality(grant.rights) < Cardinality(parent.rights) \/ grant.expires < parent.expires

StrictAttenuation(grant, parent) ==
    /\ grant.rights \subseteq parent.rights /\ grant.expires <= parent.expires
    /\ grant.rights # parent.rights \/ grant.expires < parent.expires

\* What is wrong with a token by itself.
Dead(token) == token.revoked \/ token.expires <= clock

\* validateChain, for one link: the escrow of parent and child is the same by
\* construction.
BadLink(child, parent) ==
    \/ Dead(parent)
    \/ child.issuer # parent.subject
    \/ child.expires > parent.expires
    \/ ~(child.rights \subseteq parent.rights)

-----------------------------------------------------------------------------
\* Mint.

\* GetEscrow, Authorize and the audit row; then the expiry.  The issuer is what
\* the request says, and the subject when it says nothing.
MintChecks(q) ==
    /\ Requesting(q, "idle")
    /\ Cardinality({t \in DOMAIN dctToken : dctToken[t].parent = 0}) < MaxRoots
    /\ \E caller, subject \in Principals, grant \in Grants :
       \E issuer \in {subject} \cup NamedIssuers :
          /\ Authorize("mint", caller, <<>>)
          /\ grant.expires > clock
          /\ RequestAt(q, Insertion(Issue(0, subject, issuer, grant, caller)))
    /\ UNCHANGED <<clock, escrowRow, dctToken>>

\* CreateDCTToken, of Mint and of Delegate.
InsertToken(q) ==
    /\ Requesting(q, "insert") /\ Len(dctToken) < MaxTokens
    /\ dctToken' = Append(dctToken, dctRequest[q].new)
    /\ RequestEnds(q)
    /\ UNCHANGED <<clock, escrowRow>>

-----------------------------------------------------------------------------
\* Introspect, by itself and as the first half of Delegate.

\* The parents of those in S are in S.
ParentClosed(S) == \A t \in S : dctToken[t].parent # 0 => dctToken[t].parent \in S

\* The ancestors of a token, itself included: what the loop of validateChain goes through.
Line(t) == {a \in DOMAIN dctToken : \A S \in SUBSET DOMAIN dctToken : t \in S /\ ParentClosed(S) => a \in S}

\* GetDCTTokenByTokenID, for the token that is presented.  Who presents it, and
\* whether for a delegation, matters at the verdict.
IntrospectReads(q) ==
    /\ Requesting(q, "idle")
    /\ \E t \in DOMAIN dctToken :
          RequestAt(q, Chain("escrow", t, t, Dead(dctToken[t]),
                             \E a \in Line(t) : Dead(dctToken[a])))
    /\ RequestOnly

\* validateChain's GetEscrow.
ChainReadsEscrow(q) ==
    LET r == dctRequest[q]
        inactive == escrowRow.frozen \/ escrowRow.status \in InactiveStatuses
    IN  /\ Requesting(q, "escrow")
        /\ RequestAt(q, Chain("ancestors", r.token, r.at, r.reasons \/ inactive, r.doomed))
        /\ RequestOnly

BuggyChainReadsParent(q) ==  \* one link is enough
    LET r == dctRequest[q]
        child == dctToken[r.at]
    IN  /\ Requesting(q, "ancestors") /\ child.parent # 0
        /\ RequestAt(q, Chain("verdict", r.token, child.parent,
                              r.reasons \/ BadLink(child, dctToken[child.parent]), r.doomed))
        /\ RequestOnly

\* One turn of its loop.
ChainReadsParent(q) ==
    LET r == dctRequest[q]
        child == dctToken[r.at]
    IN  /\ Requesting(q, "ancestors") /\ child.parent # 0
        /\ RequestAt(q, Chain("ancestors", r.token, child.parent,
                              r.reasons \/ BadLink(child, dctToken[child.parent]), r.doomed))
        /\ RequestOnly

ChainReadsRoot(q) ==
    LET r == dctRequest[q]
    IN  /\ Requesting(q, "ancestors") /\ dctToken[r.at].parent = 0
        /\ RequestAt(q, Chain("verdict", r.token, r.at, r.reasons, r.doomed))
        /\ RequestOnly

\* The answer to an introspection.
Introspected(q) ==
    /\ Requesting(q, "verdict")
    /\ RequestEnds(q)
    /\ RequestOnly

\* GetEscrow, Authorize and the audit row; then the verdict and attenuation.
\* The issuer is what the request says, and the parent's subject when it says
\* nothing; another one makes a token that no chain check accepts.
DelegateChecks(q) ==
    LET r == dctRequest[q]
        parent == dctToken[r.token]
    IN  /\ Requesting(q, "verdict") /\ ~r.reasons
        /\ \E caller, subject \in Principals, issuer \in {parent.subject} \cup NamedIssuers,
              grant \in Grants :
              /\ Authorize("delegate", caller, parent)
              /\ grant.expires > clock /\ StrictAttenuation(grant, parent)
              /\ RequestAt(q, Insertion(Issue(r.token, subject, issuer, grant, caller)))
        /\ UNCHANGED <<clock, escrowRow, dctToken>>

-----------------------------------------------------------------------------
\* Revocation.

\* The token, its escrow, Authorize and the audit row.
RevokeChecks(q) ==
    /\ Requesting(q, "idle")
    /\ \E caller \in Principals, t \in DOMAIN dctToken :
          /\ Authorize("revoke", caller, dctToken[t])
          /\ RequestAt(q, Chain("revoke", t, t, FALSE, FALSE))
    /\ RequestOnly

BuggyRevoke(q) ==  \* a second revocation undoes the first
    /\ Requesting(q, "revoke")
    /\ dctToken' = [dctToken EXCEPT ![dctRequest[q].token].revoked = ~@]
    /\ RequestEnds(q)
    /\ UNCHANGED <<clock, escrowRow>>

\* RevokeDCTToken: a token that is revoked already stays as it is.
Revoke(q) ==
    /\ Requesting(q, "revoke")
    /\ dctToken' = [dctToken EXCEPT ![dctRequest[q].token].revoked = TRUE]
    /\ RequestEnds(q)
    /\ UNCHANGED <<clock, escrowRow>>

\* EmergencyOverride, "revoke_all": of the factory's owner, whatever the state
\* of the escrow.
OverrideChecks(q) ==
    /\ Requesting(q, "idle")
    /\ RequestAt(q, Chain("override", 0, 0, FALSE, FALSE))
    /\ RequestOnly

EmergencyOverride(q) ==
    /\ Requesting(q, "override")
    /\ RevokeByEscrow
    /\ RequestEnds(q)
    /\ UNCHANGED <<clock, escrowRow>>

\* A refusal after the first read, or a failing statement.
RequestFails(q) ==
    /\ ~Requesting(q, "idle")
    /\ RequestEnds(q)
    /\ RequestOnly

\* What others do to the row and to all tokens at once: whoever closes the row
\* revokes them, a freeze does when it came through this server.
OthersWrite(row) ==
    /\ escrowRow' = row
    /\ \/ RevokeByEscrow
       \/ UNCHANGED dctToken /\ (row.status \in InactiveStatuses => escrowRow.status \in InactiveStatuses)

RowChanges ==
    /\ \E status \in {"funded", "settled"}, frozen \in BOOLEAN :
          OthersWrite([escrowRow EXCEPT !.status = status, !.frozen = frozen])
    /\ UNCHANGED <<clock, dctRequest>>

IssuingStep(q) ==
    \/ MintChecks(q) \/ InsertToken(q)
    \/ IntrospectReads(q) \/ ChainReadsEscrow(q) \/ ChainReadsParent(q) \/ ChainReadsRoot(q)
    \/ Introspected(q) \/ DelegateChecks(q)

RevokingStep(q) ==
    RevokeChecks(q) \/ Revoke(q) \/ OverrideChecks(q) \/ EmergencyOverride(q)

Tick == clock < MaxClock /\ clock' = clock + 1 /\ UNCHANGED <<escrowRow, dctToken, dctRequest>>

TokensNext ==
    \/ \E q \in TokenRequests : IssuingStep(q)
    \/ \E q \in Revocations : RevokingStep(q)
    \/ \E q \in TokenRequests \cup Revocations : RequestFails(q)
    \/ RowChanges
    \/ Tick

TokensSpec == TokensInit /\ [][TokensNext]_tokenVars

-----------------------------------------------------------------------------
\* Properties.

\* The shape of the tables: a parent is older than its child.
TokensTypeOK ==
    /\ dctToken \in Seq(Token)
    /\ \A t \in DOMAIN dctToken : dctToken[t].parent < t
    /\ clock \in Nat

\* A token grants no more, and no longer, than any token above it, and less
\* than its own parent (Delegate, strictAttenuation): no chain of delegations
\* regains what one of its links gave up.
ChainAttenuates ==
    \A t \in DOMAIN dctToken : \A a \in Line(t) \ {t} :
        /\ dctToken[t].rights \subseteq dctToken[a].rights
        /\ dctToken[t].expires <= dctToken[a].expires
        /\ dctToken[t].rights # dctToken[a].rights \/ dctToken[t].expires < dctToken[a].expires

\* A verdict "active" is never given of a chain of which some token was revoked
\* or expired before the request came (Introspect, validateChain): the answer
\* is put together from reads at different times.
VerdictsCurrent ==
    \A q \in TokenRequests :
        Requesting(q, "verdict") /\ dctRequest[q].doomed => dctRequest[q].reasons

\* Every token was asked for by the one who may ask: a root by the buyer, a
\* child by the holder of its parent, and the audit log says so (Authorize,
\* LogAuthzDecision).
GrantsAuthorized ==
    \A t \in DOMAIN dctToken :
        dctToken[t].by = IF dctToken[t].parent = 0 THEN Buyer
                         ELSE dctToken[dctToken[t].parent].subject

\* A token stays as it was issued, and once revoked stays revoked: no handler
\* that works from an older read brings it back (RevokeDCTToken,
\* RevokeDCTTokensByEscrow).
RevokedForGood ==
    [][\A t \in DOMAIN dctToken :
          /\ t \in DOMAIN dctToken'
          /\ dctToken[t].revoked => dctToken'[t] = dctToken[t]
          /\ [dctToken'[t] EXCEPT !.revoked = FALSE] = [dctToken[t] EXCEPT !.revoked = FALSE]]_dctToken
=============================================================================
