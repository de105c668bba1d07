------------------------- MODULE ProtocolProperties -------------------------
(***************************************************************************)
(* What the components promise together: every fUSD in any of their vaults *)
(* is owed by a loan, a flash loan is gone when its transaction ends, and  *)
(* a share of a stability pool keeps its worth.                            *)
(***************************************************************************)
EXTENDS Protocol

CONSTANT Dust   \* what truncated quotients of one call may lose

-----------------------------------------------------------------------------
(* Type invariant of what the composed modules add to Flux.                *)

\* Vaults and units are never negative, a pool is of a listed collateral, was
\* created in the past and remembers rates that loans had, and only a
\* transaction that is recorded has minted units of a pool.
ProtocolTypeOK ==
  /\ wallet \in Nat /\ payoutVault \in Nat
  /\ DOMAIN pools = Listed
  /\ \A c \in DOMAIN pools : pools[c] \in Pool /\ pools[c].created <= now
  /\ poolParameters \in PoolParameters
  /\ allowMultiple \in BOOLEAN /\ hashed \in BOOLEAN
  /\ joined \subseteq DOMAIN pools /\ (joined # {} => hashed)
  /\ flash \in [interest : Nat, enabled : BOOLEAN, vault : Nat]
  /\ receipts \in Seq([amount : Nat, interest : Nat])
  /\ payout \in [fusd : Nat, payments : 0 .. MaxPayments, required : Nat \ {0},
                 burn : BOOLEAN]
  /\ edits \in 0 .. MaxEdits

-----------------------------------------------------------------------------
(* Invariant and action properties.                                        *)

\* The fUSD that users, pools and the vaults of the other components hold,
\* together with the fees that Flux has yet to mint, is what loans owe and
\* what the outstanding receipts will burn.  So when no receipt is left, which
\* is when a transaction ends, every fUSD is owed by a loan: no split of
\* interest, no liquidation, sale or claim and no order of flash loans leaves
\* any over, whatever their interest is set to in between.
EveryFusdOwed ==
  wallet + SumFunction([c \in DOMAIN pools |-> pools[c].fusd + pools[c].rewards])
    + payoutVault + payout.fusd + flash.vault
    + SumFunction([c \in Listed |-> flux.collaterals[c].uncharged])
  = flux.circulating + SumFunction([n \in DOMAIN receipts |-> receipts[n].amount])

\* The worth of a pool in fUSD when its collateral counts for this price.
Worth(p, price) == p.fusd + Mul(p.coll, price)

\* No contribution, withdrawal, purchase or interest charge lowers what one
\* unit of a pool is worth, its collateral counted at the price of the call
\* less the discount at which the pool sells: whoever buys in pays for it, and
\* whoever leaves takes no more than a part.  (For liquidations there is
\* LiquidationPays.)
SharesKeepWorth ==
  [][\A c \in DOMAIN pools : \E price \in Prices :
       LET p == pools[c] q == pools'[c] modified == Mul(price, Modifier(c))
       IN  flux.cdps = flux'.cdps /\ p.units > 0 /\ q.units > 0
           => (Worth(q, modified) + Dust) * p.units >= Worth(p, modified) * q.units
    ]_protocolVars

\* A pool that pays for a liquidation gets collateral that is worth what it
\* pays, as long as the loan has it; the liquidator's fee is taken from the
\* fine only.
LiquidationPays ==
  [][\A id \in Loans :
       LET d == flux.cdps[id]
           c == d.collateral
           price == flux'.collaterals[c].price
       IN  /\ Active(d) /\ flux'.cdps[id].status = "Liquidated"
           /\ Mul(d.amount, price) >= held - held'
           => Worth(pools'[c], price) + Dust >= Worth(pools[c], price)]_protocolVars

\* While multiple actions are not allowed, a transaction that minted units of
\* a pool charges no interest, so no units are there only for the moment in
\* which interest is shared out.
ContributorsWait ==
  [][joined # {} /\ flux.tiers # flux'.tiers /\ flux.cdps = flux'.cdps => allowMultiple
    ]_protocolVars

\* After interest was charged, the rate irredeemable loans pay next is not
\* below the lowest rate that standard loans had then: the history of lowest
\* rates catches up with a rise at once, whatever its length and interval.
IrredeemableRateFollows ==
  [][\A c \in DOMAIN pools, lowest \in Rates :
       /\ LowestInterest(flux, c, lowest)
       /\ poolParameters.historyLength > 0
       /\ MaxOf(pools'[c].history) < lowest
       => \A range \in ChargeRanges : ~ChargePoolInterest(c, range)]_protocolVars

=============================================================================
