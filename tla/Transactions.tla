---------------------------- MODULE Transactions ----------------------------
(***************************************************************************)
(* The users of the components: the fUSD they own, and the calls on Flux   *)
(* that the proxy passes on for anyone.  A transaction is a number of      *)
(* calls, of which each may spend what the earlier ones returned; one that *)
(* fails leaves no trace, and so nothing is said of it.                    *)
(***************************************************************************)
EXTENDS Flux

VARIABLE wallet    \* the fUSD in accounts and on the worktop of a transaction

\* Users lose what they pay to a component and gain what it returns.
Receive(amount) ==
  /\ wallet + amount >= 0
  /\ wallet' = wallet + amount

UserCall ==
  /\ \/ \E id \in Loans :
          \/ CloseCdp(id)
          \/ RetrieveLeftoverCollateral(id)
          \/ \E i \in Interests, b \in Registered \cup {Nobody}, price \in Prices :
               ChangeCdpInterest(id, i, b, price)
     \/ \E c \in Listed, deposit \in Deposits, mint \in Mints, i \in Interests,
           b \in Registered \cup {Nobody}, price \in Prices :
          OpenCdp(c, deposit, mint, i, b, price)
  /\ Receive(held' - held)

=============================================================================
