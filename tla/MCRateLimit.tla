---------------------------- MODULE MCRateLimit ----------------------------
EXTENDS RateLimit, TLC

CONSTANTS g1, g2, c1, c2, uc, other

\* Two members of one use case, served by one process or by two; one of them
\* is throttled at times.
MCHomes == {c1 :> g1 @@ c2 :> g1, c1 :> g1 @@ c2 :> g2}
MCBinding == c1 :> {uc} @@ c2 :> {uc}
MCExtra == c1 :> {other} @@ c2 :> {}
MCCapacity == uc :> 2 @@ other :> 1
MCRate == uc :> 4 @@ other :> 1
MCWeights == c1 :> {1, 2} @@ c2 :> {1}
MCConfigs == <<{uc}, {}>>
=============================================================================
