----------------------------- MODULE MCRiskGate -----------------------------
(***************************************************************************)
(* Small instances of RiskGate.  Intents are numbers; the attribute tables *)
(* below give intent i its i-th entry.                                     *)
(***************************************************************************)
EXTENDS RiskGate, Sequences

Three == 1..3
Four == 1..4

Column(table) == [i \in Intents |-> table[i]]

\* Three idiosyncratic intents, two of them on one coin, then a correlated one.
MixedSymbols == Column(<<"x", "x", "y", "z">>)
MixedModes == Column(<<"idiosyncratic", "idiosyncratic", "idiosyncratic", "correlated">>)
MixedBars == Column(<<0, 0, 1, 0>>)

\* Correlated intents of two successive candles, the second too large for one
\* coin together with the idiosyncratic one of the third.
StreamSymbols == Column(<<"y", "x", "x", "z">>)
StreamModes == Column(<<"correlated", "correlated", "idiosyncratic", "idiosyncratic">>)
StreamBars == Column(<<0, 1, 2, 2>>)
StreamNotional == Column(<<1, 2, 1, 1>>)

AllLong == [i \in Intents |-> "long"]
UnitNotional == [i \in Intents |-> 1]
RankById == [i \in Intents |-> i]
AllEligible == Intents

AllFaults == FaultKinds
DropOnly == {"drop"}
=============================================================================
