--------------------------- MODULE MCIndexPipeline ---------------------------
(***************************************************************************)
(* Small instances of IndexPipeline for TLC: one or two ticks of an index, *)
(* a minute of two clock units and a day of two minutes, so that a tick    *)
(* may fall before or after a boundary, a minute bar may hold one tick or  *)
(* two and a day may hold two minute bars.                                 *)
(***************************************************************************)
EXTENDS IndexQuery, TLC

CONSTANTS t1, t2

MCTicks == {t1, t2}
MCIndexOf == (t1 :> "nifty50") @@ (t2 :> "nifty50")

MCOneTick == {t1}
MCOneTickIndexOf == (t1 :> "nifty50")

SameIndex == Permutations({t1, t2})

=============================================================================
