---------------------------- MODULE MCTaskEscrow ----------------------------
(***************************************************************************)
(* Small instances of TaskEscrow for TLC.                                  *)
(***************************************************************************)
EXTENDS TaskEscrow, TLC

\* Single-shot: one milestone that carries the whole amount.
OneAmount   == <<7>>
OneDeadline == <<1>>

\* Two milestones whose fees and awards round differently.
TwoAmounts     == <<3, 4>>
TwoDeadlines   == <<1, 3>>
ShortDeadlines == <<1, 2>>

\* Verifiers are interchangeable.
Symmetry == Permutations(Verifiers)
=============================================================================
