--------------------------- MODULE DecimalHelpers ---------------------------
(***************************************************************************)
(* The money-math primitives of shared/polymarket/decimal_helpers.py over  *)
(* integers.  A price is a number of raw price units of which PriceTick    *)
(* make one CLOB tick (0.001), a share size a number of raw size units of  *)
(* which SizeTick make one micro-share; a product of the two is cash, of   *)
(* which CashTick units make one micro-USDC.  A raw unit is whatever finer *)
(* resolution a Decimal carries, so the conversions really lose something. *)
(***************************************************************************)
EXTENDS Integers

CONSTANTS PriceTick, SizeTick, CashTick

ASSUME TicksAssumption == /\ PriceTick \in Nat \ {0}
                          /\ SizeTick \in Nat \ {0}
                          /\ CashTick \in Nat \ {0}

(* Faulty: ROUND_UP. *)
RoundUp(value, tick) == ((value + tick - 1) \div tick) * tick

(* ROUND_DOWN is towards zero; every value quantized here is non-negative. *)
RoundDown(value, tick) == (value \div tick) * tick

quantize_price(value) == RoundDown(value, PriceTick)
quantize_size(value) == RoundDown(value, SizeTick)
quantize_cash(value) == RoundDown(value, CashTick)
=============================================================================
