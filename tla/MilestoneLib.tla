---------------------------- MODULE MilestoneLib ----------------------------
(***************************************************************************)
(* The settlement arithmetic of src/src/MilestoneLib.sol.  Every division  *)
(* floors, as Solidity's does; amounts are far below 2^256 / 10_000, so    *)
(* the checked multiplications never revert and the width is left out.     *)
(***************************************************************************)
EXTENDS Integers

\* The denominator of every basis-point rate.
BPS == 10000

\* (x * bps) / 10_000, rounded down.
BpsOf(x, bps) == (x * bps) \div BPS

\* settleApproved and settleMilestoneApproved: the worker earns the whole amount
\* less the protocol fee.
SettleApproved(amount, feeBps) ==
    [workerNet |-> amount - BpsOf(amount, feeBps),
     fee       |-> BpsOf(amount, feeBps)]

\* settleResolved and settleMilestoneResolved: the award splits the amount,
\* the fee comes out of the worker's part, rounding favours the buyer.
SettleResolved(amount, awardBps, feeBps) ==
    LET workerGross == BpsOf(amount, awardBps)
    IN  [workerNet   |-> workerGross - BpsOf(workerGross, feeBps),
         buyerRefund |-> amount - workerGross,
         fee         |-> BpsOf(workerGross, feeBps)]

\* The stake part of settleApproved and settleResolved: what returns to the
\* worker when awardBps of the task is awarded; the rest is forfeited.
StakeReturn(stake, awardBps) == BpsOf(stake, awardBps)
=============================================================================
