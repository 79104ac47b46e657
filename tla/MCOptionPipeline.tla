--------------------------- MODULE MCOptionPipeline ---------------------------
(***************************************************************************)
(* Small instances of OptionPipeline for TLC: a minute of two clock units, *)
(* a day of two minutes, which is also the bucket asked for.  The near     *)
(* contract expires on the first day; the far one, whose expiry string     *)
(* does not parse, is followed after a restart on a later day.  Prices     *)
(* differ, and a message may carry one leg or both.                        *)
(***************************************************************************)
EXTENDS OptionPipeline, TLC

CONSTANTS near, far

NearAndFar == {near, far}
NearFirst == (near :> 0) @@ (far :> 50)
NearParses == {near}
SomeLegs == {[CE |-> 1, PE |-> 2], [CE |-> 3, PE |-> NoPrice]}

=============================================================================
