----------------------------- MODULE MCPanicMode -----------------------------
(***************************************************************************)
(* A small instance of panic mode: two loans of one collateral.            *)
(***************************************************************************)
EXTENDS PanicMode, TLC

CONSTANTS l1, l2, c1

MCCdps == {l1, l2}
MCCollateralOf == [id \in MCCdps |-> c1]
MCPeriods == {<<2, 1>>}

\* The loans are alike.
LoanSymmetry == Permutations(MCCdps)

=============================================================================
