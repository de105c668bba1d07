------------------------------- MODULE Oracle -------------------------------
(***************************************************************************)
(* The Oracle component (src/oracle_component): it turns signed messages   *)
(* about markets into prices of collaterals, and values the LSU pool's     *)
(* token with the price of XRD and a multiplier that it keeps for a time.  *)
(*                                                                         *)
(* Who signs messages and what the LSU pool is worth are outside: a market *)
(* has one message for each tick.                                          *)
(***************************************************************************)
EXTENDS FluxLedger

CONSTANTS
  Xrd, LsuLp,        \* the resources whose prices are derived from XRD's
  NoPrice,           \* None
  Markets,           \* market ids
  Quote,             \* Quote[market][t]: the price in the message of tick t
  LsuValue,          \* LsuValue[t]: XRD per LSU pool token at tick t
  InitialIdentifiers,   \* the market of each resource when the first is listed
  InitialPriceAge, InitialMultiplierAge,   \* the ages after instantiate_oracle
  NewIdentifiers,    \* arguments of add_morpher_identifier
  PriceAges,         \* arguments of set_max_price_age
  MultiplierAges     \* arguments of set_max_lsu_multiplier_age

VARIABLE oracle

ASSUME OracleAssumption ==
  /\ NoPrice \notin Nat
  /\ Quote \in [Markets -> [0 .. MaxTime -> Nat \ {0}]]
  /\ LsuValue \in [0 .. MaxTime -> Nat \ {0}]
  /\ PriceAges \subseteq Nat /\ MultiplierAges \subseteq Nat
  /\ InitialPriceAge \in Nat /\ InitialMultiplierAge \in Nat
\* instantiate_oracle gives the LSU pool's token the market of XRD.
ASSUME IdentifierAssumption ==
  /\ \A c \in DOMAIN InitialIdentifiers : InitialIdentifiers[c] \in Markets
  /\ {Xrd, LsuLp} \subseteq DOMAIN InitialIdentifiers
  /\ InitialIdentifiers[LsuLp] = InitialIdentifiers[Xrd]
  /\ \A id \in NewIdentifiers : id[2] \in Markets

OracleInit ==
  oracle = [identifiers |-> InitialIdentifiers, maxPriceAge |-> InitialPriceAge,
            multiplier |-> LsuValue[0], updated |-> 0,
            maxMultiplierAge |-> InitialMultiplierAge]

\* The messages signed so far.
Messages == [market : Markets, created : 0 .. now]

\* check_message_validity.
CheckMessageValidity(o, c, message) ==
  /\ c \in DOMAIN o.identifiers
  /\ o.identifiers[c] = message.market
  /\ message.created + o.maxPriceAge > now

\* Fault: the time of the next update is kept as that of the last.
UpdatedMultiplierAhead(o) ==
  [o EXCEPT !.multiplier = LsuValue[now], !.updated = now + o.maxMultiplierAge]

UpdatedMultiplier(o) == [o EXCEPT !.multiplier = LsuValue[now], !.updated = now]

\* check_for_lsu_multiplier_update.
CheckForLsuMultiplierUpdate(o) ==
  IF now > o.updated + o.maxMultiplierAge THEN UpdatedMultiplier(o) ELSE o

\* Fault: the multiplier is only refreshed together with the price of XRD.
PriceStepCachedWhole(s, input) ==
  LET c == input.collateral
      derived == c \in {Xrd, LsuLp}
      known == derived /\ s.xrd # NoPrice
      o == IF c = LsuLp /\ ~known THEN CheckForLsuMultiplierUpdate(s.oracle) ELSE s.oracle
      base == IF known THEN s.xrd ELSE Quote[input.message.market][input.message.created]
      price == IF c = LsuLp THEN Mul(base, o.multiplier) ELSE base
  IN  [valid |-> s.valid /\ (known \/ CheckMessageValidity(o, c, input.message)),
       oracle |-> o,
       xrd |-> IF derived THEN base ELSE s.xrd,
       prices |-> IF c \in DOMAIN s.prices THEN s.prices ELSE With(s.prices, c, price)]

\* One message of a batch.  Once XRD's price is known, from a message for XRD
\* or for the LSU pool's token, the messages for either are not looked at.  Of
\* two prices for one collateral callers use the first.
PriceStep(s, input) ==
  LET c == input.collateral
      derived == c \in {Xrd, LsuLp}
      known == derived /\ s.xrd # NoPrice
      o == IF c = LsuLp THEN CheckForLsuMultiplierUpdate(s.oracle) ELSE s.oracle
      base == IF known THEN s.xrd ELSE Quote[input.message.market][input.message.created]
      price == IF c = LsuLp THEN Mul(base, o.multiplier) ELSE base
  IN  [valid |-> s.valid /\ (known \/ CheckMessageValidity(o, c, input.message)),
       oracle |-> o,
       xrd |-> IF derived THEN base ELSE s.xrd,
       prices |-> IF c \in DOMAIN s.prices THEN s.prices ELSE With(s.prices, c, price)]

\* check_price_inputs, and check_price_input, which does the same for one.
CheckPriceInputs(inputs) ==
  LET start == [valid |-> TRUE, oracle |-> oracle, xrd |-> NoPrice, prices |-> <<>>]
      checked[n \in 0 .. Len(inputs)] ==
        IF n = 0 THEN start ELSE PriceStep(checked[n - 1], inputs[n])
  IN  checked[Len(inputs)]
CheckPriceInput(c, message) ==
  CheckPriceInputs(<<[collateral |-> c, message |-> message]>>)

AddMorpherIdentifier(c, market) ==
  oracle' = [oracle EXCEPT !.identifiers = With(@, c, market)]
SetMaxPriceAge(age) == oracle' = [oracle EXCEPT !.maxPriceAge = age]
SetMaxLsuMultiplierAge(age) == oracle' = [oracle EXCEPT !.maxMultiplierAge = age]
UpdateLsuMultiplier == oracle' = UpdatedMultiplier(oracle)

OracleOwnerCall ==
  \/ \E id \in NewIdentifiers : AddMorpherIdentifier(id[1], id[2])
  \/ \E age \in PriceAges : SetMaxPriceAge(age)
  \/ \E age \in MultiplierAges : SetMaxLsuMultiplierAge(age)

=============================================================================
