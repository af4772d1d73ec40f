----------------------------- MODULE EscrowLife -----------------------------
(***************************************************************************)
(* What the factory may rely on in an escrow, whatever its milestones,     *)
(* votes and stakes: the life of the contract as relations between the     *)
(* record l before a step and the record m after it.  EscrowLifecycle      *)
(* makes a specification of it, TaskEscrow implements it, and              *)
(* TaskEscrowFactory composes many of them.                                *)
(***************************************************************************)

Outcome == {"completed", "disputed", "failed"}
Life == [phase   : {"Created", "Open", "Closed"},
         frozen  : BOOLEAN,
         backup  : BOOLEAN,                  \* the backup worker is active
         outcome : Outcome \cup {"none"}]    \* what was recorded at closing

Deployed == [phase |-> "Created", frozen |-> FALSE, backup |-> FALSE, outcome |-> "none"]

Funding(l, m) ==
    /\ l.phase = "Created"
    /\ ~l.frozen
    /\ m = [l EXCEPT !.phase = "Open"]

\* Before funding: by the buyer, or the emergency resolution.
Cancellation(l, m) ==
    /\ l.phase = "Created"
    /\ m = [l EXCEPT !.phase = "Closed"]

BackupActivation(l, m) ==
    /\ l.phase = "Open"
    /\ ~l.frozen
    /\ ~l.backup
    /\ m = [l EXCEPT !.backup = TRUE]

\* A funded escrow closes once, with one outcome; a frozen one never as a
\* success.
Closing(l, m) ==
    \E o \in Outcome :
        /\ l.phase = "Open"
        /\ l.frozen => o # "completed"
        /\ m = [l EXCEPT !.phase = "Closed", !.outcome = o]

Freezing(l, m) == m = [l EXCEPT !.frozen = ~l.frozen]

\* emergencyResolve, which the factory forwards to a frozen escrow only.
EmergencyResolution(l, m) ==
    /\ l.frozen
    /\ \/ Cancellation(l, m)
       \/ Closing(l, m) /\ m.outcome = "disputed"
=============================================================================
