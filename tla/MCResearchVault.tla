--------------------------- MODULE MCResearchVault ---------------------------
(* The research vault for TLC. *)
EXTENDS ResearchVault, TLC

CONSTANTS a1, a2, c1, c2

TwoAgents == {a1, a2}
TwoConcepts == {c1, c2}
SomeAnswers == {"open", "inconclusive"}

==============================================================================
