------------------------------- MODULE Pricing -------------------------------
(***************************************************************************)
(* Prices (services/platform_billing/pricing.py) and rate cards: a capture *)
(* is priced by the card that is active when it is made, each token count  *)
(* rounded up on its own.                                                  *)
(*                                                                         *)
(* A rate card is [id, version, effective, prices]; prices maps a key (the *)
(* product, model, provider and region) to [input, output, fixed] rates.   *)
(* A usage is [input, output] tokens.                                      *)
(***************************************************************************)
EXTENDS Integers

TokenRateUnit == 1000

\* round_up_ratio
RoundUp(quantity, rate) == (quantity * rate + TokenRateUnit - 1) \div TokenRateUnit

Priced(card, key) == key \in DOMAIN card.prices

\* calculate_charge, for a key that the card has a price of.
Charge(card, key, usage) ==
    LET price == card.prices[key] IN
    RoundUp(usage.input, price.input) + RoundUp(usage.output, price.output) + price.fixed

\* add refuses a second card of one version or of one effective time in a family.
Addable(cards, card) ==
    \A c \in cards : c.id = card.id =>
        c.version # card.version /\ c.effective # card.effective

\* The order of max in active_at; ids are ordered as numbers here.
Before(c, d) ==
    \/ c.effective < d.effective
    \/ c.effective = d.effective /\ c.id < d.id
    \/ c.effective = d.effective /\ c.id = d.id /\ c.version < d.version

Active(cards, now, card) ==
    /\ card \in cards /\ card.effective <= now
    /\ \A c \in cards : c.effective <= now => ~Before(card, c)

\* active_at, for a time at which some card is effective.
ActiveAt(cards, now) == CHOOSE card \in cards : Active(cards, now, card)
=============================================================================
