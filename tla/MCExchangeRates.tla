---------------------------- MODULE MCExchangeRates ----------------------------
(* Model-checking instances of ExchangeRates. *)
EXTENDS ExchangeRates, TLC

TwoKeys == <<"usd_rub", "btc_usd">>
Times == [{"usd_rub", "btc_usd"} -> 0..MaxTime]
NoTimes == [k \in {"usd_rub", "btc_usd"} |-> 0]
OneKey == <<"btc_usd">>
TimesOfOne == [{"btc_usd"} -> 0..MaxTime]
NoTimeOfOne == [k \in {"btc_usd"} |-> 0]
Either == BOOLEAN
Symmetry == Permutations(Row)
================================================================================
