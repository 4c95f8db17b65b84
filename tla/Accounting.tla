----------------------------- MODULE Accounting -----------------------------
(***************************************************************************)
(* The arithmetic of an order: margin rules, reservation, slippage, limit  *)
(* and trigger conditions, exact cost basis and the position transition.   *)
(* Amounts are integers (paise); int64 overflow, which the code refuses    *)
(* with an error at every step, is left to the amounts chosen by an        *)
(* instance, all far below 2^63.                                           *)
(***************************************************************************)
EXTENDS Integers

CONSTANTS MISLeverage,              \* product.Rules.MISLeverage
          FuturesMarginPercent,     \* product.Rules.FuturesMarginPercent
          OptionSellMarginPercent   \* product.Rules.OptionSellMarginPercent

ASSUME RulesAssumption ==
  /\ MISLeverage \in Nat \ {0}
  /\ FuturesMarginPercent \in 1..100
  /\ OptionSellMarginPercent \in 1..100

(* A position row is identified by user, symbol and product.  A book is one *)
(* symbol of one product; F&O is split by the kind of its instrument.       *)
MarginBooks == {"INTRADAY", "FUTURE", "OPTION"}
Books == {"DELIVERY"} \cup MarginBooks
Sides == {"BUY", "SELL"}
Types == {"MARKET", "LIMIT", "SL", "SL-M"}

Magnitude(n) == IF n < 0 THEN -n ELSE n
Smaller(a, b) == IF a < b THEN a ELSE b

(* Margin of a notional that an order or a position on a side ties up. *)
Margin(book, side, notional) ==
  CASE book = "INTRADAY" -> notional \div MISLeverage
    [] book = "FUTURE"   -> (notional * FuturesMarginPercent) \div 100
    [] book = "OPTION"   -> IF side = "BUY" THEN notional
                            ELSE (notional * OptionSellMarginPercent) \div 100
    [] OTHER             -> 0

(* A long option is paid in full from cash and blocks nothing. *)
MarginForPosition(book, qty, avg) ==
  IF qty = 0 \/ (book = "OPTION" /\ qty > 0) THEN 0
  ELSE Margin(book, IF qty < 0 THEN "SELL" ELSE "BUY", Magnitude(qty) * avg)

(* The price a reservation is computed from: the trigger of an SL-M, which *)
(* has no limit price.                                                     *)
BasePrice(r) == IF r.type = "SL-M" THEN r.trigger ELSE r.price
BasePathPrice(price) == IF price <= 0 THEN 100 ELSE price

Reservation(r) ==
  LET notional == r.qty * BasePathPrice(BasePrice(r))
  IN  IF r.type = "MARKET" \/ (r.book = "DELIVERY" /\ r.side = "SELL") THEN 0
      ELSE IF r.book = "DELIVERY" THEN notional
      ELSE Margin(r.book, r.side, notional)

(* Market impact of orders above 50 units: 2 to 6 basis points, at least   *)
(* one tick of 5 paise.                                                    *)
Slippage(qty, ltp, side) ==
  LET bps  == Smaller(2 + qty \div 250, 6)
      raw  == (ltp * bps) \div 10000
      slip == IF raw < 5 THEN 5 ELSE raw
  IN  IF qty <= 50 \/ ltp <= 0 THEN ltp
      ELSE IF side = "BUY" THEN ltp + slip
      ELSE IF ltp - slip <= 0 THEN 5 ELSE ltp - slip

FillPrice(ord, ltp) ==
  IF ord.type \in {"MARKET", "SL-M"} THEN Slippage(ord.qty, ltp, ord.side) ELSE ltp

LimitSatisfied(ord, price) ==
  /\ ord.type \in {"LIMIT", "SL"}
  /\ ord.price > 0 /\ price > 0
  /\ \/ ord.side = "BUY" /\ price <= ord.price
     \/ ord.side = "SELL" /\ price >= ord.price

TriggerSatisfied(ord, price) ==
  /\ ord.type \in {"SL", "SL-M"}
  /\ ord.trigger > 0 /\ price > 0
  /\ \/ ord.side = "BUY" /\ price >= ord.trigger
     \/ ord.side = "SELL" /\ price <= ord.trigger

(* Fault: the cost of one share is rounded first. *)
CostByAverage(cost, sold, held) == sold * (cost \div held)

(* The share of the cost basis that leaves with a sale; the last sale      *)
(* takes the residual, so no paise is lost to rounding.                    *)
ProportionalCostBasis(cost, sold, held) ==
  IF sold = held THEN cost ELSE (cost * sold) \div held

Delta(side, qty) == IF side = "BUY" THEN qty ELSE -qty

(* A fill against a net position: it opens or increases, or it opposes and *)
(* reduces, flattens or reverses across zero.                              *)
Opposes(oldQty, delta) == (oldQty > 0 /\ delta < 0) \/ (oldQty < 0 /\ delta > 0)

(* Fault: a reversal stops at zero. *)
TransitionQtyToFlat(oldQty, qty, side) ==
  IF Opposes(oldQty, Delta(side, qty)) /\ qty > Magnitude(oldQty) THEN 0
  ELSE oldQty + Delta(side, qty)

TransitionQty(oldQty, qty, side) == oldQty + Delta(side, qty)

TransitionAverage(oldQty, oldAvg, qty, price, side) ==
  LET newQty == TransitionQty(oldQty, qty, side)
  IN  IF Opposes(oldQty, Delta(side, qty))
      THEN IF newQty = 0 THEN 0
           ELSE IF (oldQty > 0) = (newQty > 0) THEN oldAvg ELSE price
      ELSE IF oldQty = 0 THEN price
      ELSE (Magnitude(oldQty) * oldAvg + qty * price) \div Magnitude(newQty)

TransitionRealized(oldQty, oldAvg, qty, price, side) ==
  LET closed == Smaller(qty, Magnitude(oldQty))
  IN  IF ~ Opposes(oldQty, Delta(side, qty)) THEN 0
      ELSE IF oldQty > 0 THEN closed * price - closed * oldAvg
      ELSE closed * oldAvg - closed * price
=============================================================================
