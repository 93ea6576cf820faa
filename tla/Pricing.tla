------------------------------- MODULE Pricing -------------------------------
(***************************************************************************)
(* Prices, exchange rates and totals: what the checkout page shows         *)
(* (internal/modules/cart/service.go, buildCartSummary) and what the order *)
(* charges (internal/modules/orders/service.go).  Variants are priced in   *)
(* the base currency; amounts are whole cents and a rate is a fraction of  *)
(* whole numbers.                                                          *)
(***************************************************************************)
EXTENDS Integers, FiniteSetsExt, Functions

CONSTANTS
  Variants,           \* ids of product variants
  Currencies,
  Base,               \* CURRENCY_BASE
  DefaultDisplay,     \* CURRENCY_DEFAULT_DISPLAY
  DisplayCurrencies,  \* CURRENCY_ALLOWED
  ChargeCurrencies,   \* CURRENCY_CHARGE
  NoRate,             \* a currency with no row in fx_rates
  Methods,            \* shipping methods
  ShippingCents       \* what each costs, in the base currency

(* What is left of the settings: the default may be shown; the currencies  *)
(* that may be shown or charged need not include the base.                 *)
Configured ==
  /\ Base \in Currencies /\ DefaultDisplay \in DisplayCurrencies
  /\ DisplayCurrencies \subseteq Currencies
  /\ ChargeCurrencies \subseteq Currencies /\ ChargeCurrencies # {}

(* A rate is a decimal of fixed point and not negative.                    *)
Quotes == [num : Nat, den : Nat \ {0}]

ASSUME PricingAssumption ==
  /\ Configured /\ ShippingCents \in [Methods -> Nat]
  /\ IsFiniteSet(Variants) /\ NoRate \notin Quotes

Items(lines) == {v \in Variants : lines[v] > 0}

(* math.Round of an amount that is not negative.                           *)
Convert(cents, rate) == (2 * cents * rate.num + rate.den) \div (2 * rate.den)

Par == [num |-> 1, den |-> 1]
Rate(rates, cur) == IF cur = Base THEN Par ELSE rates[cur]

(* The worker stores a rate of zero as it comes; the cart and the order do *)
(* not take it for a rate, the other pages do.                             *)
Usable(rate) == rate # NoRate /\ rate.num > 0

(* The display currency: the preference if it is allowed, or the default.  *)
NormalizeDisplay(cur) == IF cur \in DisplayCurrencies THEN cur ELSE DefaultDisplay
ChooseChargeCurrency(cur) == IF cur \in ChargeCurrencies THEN cur ELSE Base

LineCents(sale, v) == sale.price[v] * sale.lines[v]
BaseSubtotal(sale) ==
  SumFunctionOnSet([v \in Variants |-> LineCents(sale, v)], Items(sale.lines))
-----------------------------------------------------------------------------
(* A sale is the lines, the prices, the rates, the customer's currency and *)
(* the shipping method.  ConvertDisplay shows an amount in the display     *)
(* currency, or, with no rate, as it is.                                   *)
DisplayRate(sale) == Rate(sale.rates, NormalizeDisplay(sale.pref))
Displayed(sale, cents) ==
  Convert(cents, IF DisplayRate(sale) = NoRate THEN Par ELSE DisplayRate(sale))

(* The page of a product shows the price of one unit of each variant; the  *)
(* checkout page converts the shipping and every line of the cart, which   *)
(* is left as it is at a rate of zero too, and adds.                       *)
UnitShown(sale, v) == Displayed(sale, sale.price[v])
PageShipping(sale) == Displayed(sale, ShippingCents[sale.method])
PageLine(sale, v) ==
  Convert(LineCents(sale, v), IF Usable(DisplayRate(sale)) THEN DisplayRate(sale) ELSE Par)
PageTotal(sale) ==
  [currency |-> NormalizeDisplay(sale.pref),
   total |-> SumFunctionOnSet([v \in Variants |-> PageLine(sale, v)], Items(sale.lines))
               + PageShipping(sale)]

(* A faulty OrderCurrency: a rate of zero is taken for one.                *)
OrderCurrencyAtZero(sale) ==
  LET wish == ChooseChargeCurrency(NormalizeDisplay(sale.pref))
  IN  IF Rate(sale.rates, wish) = NoRate THEN Base ELSE wish

(* The order's currency: the customer's if it can be charged and has a     *)
(* rate that is not zero, or the base currency.                            *)
OrderCurrency(sale) ==
  LET wish == ChooseChargeCurrency(NormalizeDisplay(sale.pref))
  IN  IF Usable(Rate(sale.rates, wish)) THEN wish ELSE Base

(* The order converts the lines, the subtotal, the shipping and the total, *)
(* each on its own.                                                        *)
OrderTotal(sale) ==
  LET cur  == OrderCurrency(sale)
      rate == Rate(sale.rates, cur)
      ship == ShippingCents[sale.method]
  IN  [currency |-> cur,
       lines    |-> [v \in Items(sale.lines) |-> Convert(LineCents(sale, v), rate)],
       subtotal |-> Convert(BaseSubtotal(sale), rate),
       shipping |-> Convert(ship, rate),
       total    |-> Convert(BaseSubtotal(sale) + ship, rate)]
=============================================================================
