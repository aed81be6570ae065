------------------------------- MODULE MCParts -------------------------------
(* Parts of the system that have no state in common, for TLC, side by side: a *)
(* behaviour is one of one part, and the others keep still.                   *)
EXTENDS StrategyTargets, BacktestEngine, RateLimit, SecretsVault, TLC

CONSTANTS r1, r2, t1, c1, c2, w1, w2, n1, n2, s1, p1, p2

TwoRequests == {r1, r2}
OneTarget == {t1}
Outcome(ok, sharpe, return, count, deepest) ==
  [passed |-> ok, sharpe |-> sharpe, return |-> return, trades |-> count,
   drawdown |-> deepest]
SomeResults == {Outcome(FALSE, "strong", "gain", "most", "mild"),
                Outcome(FALSE, "fair", "flat", "half", "medium"),
                Outcome(FALSE, "negative", "loss", "most", "deep")}
SomePatches == {[status |-> "keep", paper |-> "on"], [status |-> "keep", paper |-> "off"],
                [status |-> "candidate", paper |-> "keep"]}

Rule(op, lo, hi) == [op |-> op, lo |-> lo, hi |-> hi]
Threshold ==
  [filters |-> {Rule("neq", 2, 2)}, long |-> {Rule("gt", 0, 0)},
   short |-> {Rule("lte", -1, -1), Rule("lt", 0, 0)}, exitLong |-> {}, exitShort |-> {}]
Crossing ==
  [filters |-> {Rule("between", -1, 1)}, long |-> {Rule("crossover", 0, 0)},
   short |-> {Rule("crossunder", 0, 0)}, exitLong |-> {Rule("eq", 0, 0)},
   exitShort |-> {Rule("gte", 1, 1)}]
SomeStrategies == {Threshold, Crossing}
AroundZero == -1..1
SomeFrames == {60, 61, 79, 90} \X {1, 4, 7}

TwoWriters == {w1, w2}
TwoNames == {n1, n2}
OneSecret == {s1}
TwoPassphrases == {p1, p2}
TwoCallers == {c1, c2}

VARIABLE part

Init ==
  /\ part \in {"targets", "engine", "rate", "vault"}
  /\ TargetsInit /\ EngineInit /\ RateInit /\ VaultInit

TargetsPart ==
  part = "targets" /\ TargetsNext /\ UNCHANGED <<part, engineVars, rateVars, vaultVars>>
EnginePart ==
  part = "engine" /\ EngineNext /\ UNCHANGED <<part, targetVars, rateVars, vaultVars>>
RatePart ==
  part = "rate" /\ RateNext /\ UNCHANGED <<part, targetVars, engineVars, vaultVars>>
VaultPart ==
  part = "vault" /\ VaultNext /\ UNCHANGED <<part, targetVars, engineVars, rateVars>>

Spec == Init /\ [][TargetsPart \/ EnginePart \/ RatePart \/ VaultPart]_
                 <<part, targetVars, engineVars, rateVars, vaultVars>>
==============================================================================
