---------------------------- MODULE MCPaperRunner ---------------------------
(* Small instances of PaperRunner for TLC. *)
EXTENDS PaperRunner, TLC

CONSTANTS w1, w2, t1, t2, i1, i2

RunnerSymmetry == Permutations({w1, w2})
OneOrThree == {1, 3}
OneRunner == {w1}
TwoRunners == {w1, w2}
TwoTargets == {t1, t2}
TwoInstruments == {i1, i2}
OneEach == (t1 :> i1) @@ (t2 :> i2)
OneInstrument == {i1}
OneTarget == {t1}
OnlyOne == (t1 :> i1)
TwoBars == (i1 :> 2)
OneBarEach == (i1 :> 1) @@ (i2 :> 1)
TwoAndOneBar == (i1 :> 2) @@ (i2 :> 1)
OneSize == {1}
OnlyLoss == {-1}
TicksDie == {"die"}
NoFault == {}
=============================================================================
