-------------------------- MODULE EscrowLifecycle --------------------------
(***************************************************************************)
(* The abstract specification of one escrow: it is funded or cancelled,    *)
(* gets its backup worker at most once, and closes once with one outcome.  *)
(***************************************************************************)
EXTENDS EscrowLife

VARIABLE life

Init == life = Deployed

Next ==
    \/ Funding(life, life')
    \/ Cancellation(life, life')
    \/ BackupActivation(life, life')
    \/ Closing(life, life')
    \/ Freezing(life, life')

Spec == Init /\ [][Next]_life
=============================================================================
