------------------------ MODULE MCTaskEscrowFactory ------------------------
(***************************************************************************)
(* Two small instances of TaskEscrowFactory for TLC, side by side: one with*)
(* many escrows under an owner who changes the settings, one with few that *)
(* run their lives.  The settings are those of the .cfg file.              *)
(***************************************************************************)
EXTENDS TaskEscrowFactory

\* ann hires bob with cyd in reserve; bob or cyd hires on; eve judges.
AnnHires == [buyer |-> "ann", worker |-> "bob", backup |-> "cyd", staff |-> {"eve"}]
BobHires == [buyer |-> "bob", worker |-> "cyd", backup |-> "nobody", staff |-> {"eve"}]
CydHires == [buyer |-> "cyd", worker |-> "bob", backup |-> "nobody", staff |-> {"eve"}]
SelfDeal == [buyer |-> "bob", worker |-> "bob", backup |-> "nobody", staff |-> {"eve"}]

Everyone    == {"ann", "bob", "cyd", "eve"}
HiringCasts == {AnnHires, BobHires, CydHires}
FeeCasts    == {AnnHires, BobHires, SelfDeal}

\* Both escrows move, accounts can be frozen, and the fees stay at zero.
Careers == INSTANCE TaskEscrowFactory WITH
    Casts <- HiringCasts, Suspects <- {"bob"}, Heirs <- {}, TierChoices <- {1, 2},
    Amounts <- {0, 1, 2}, FeeChoices <- {0}, Windows <- {1}, MaxEscrows <- 2,
    Moving <- {1, 2}, MaxTime <- 1

VARIABLE view                  \* the instance that runs
MCInit ==
    \/ view = "settings" /\ Init
    \/ view = "careers" /\ Careers!Init
MCNext ==
    /\ UNCHANGED view
    /\ \/ view = "settings" /\ Next
       \/ view = "careers" /\ Careers!Next
MCSpec == MCInit /\ [][MCNext]_<<vars, view>>
=============================================================================
