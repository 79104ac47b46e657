---------------------------- MODULE MCTickWriter ----------------------------
(***************************************************************************)
(* A small instance of TickWriter for TLC: two streamers with three rows   *)
(* each share a channel of one, so that a streamer blocks; a batch of      *)
(* three fills up, and may also end on a gap with room left, or be kept    *)
(* waiting by rows that come just within the gap.                          *)
(***************************************************************************)
EXTENDS TickWriter, TLC

CONSTANTS s1, s2

TwoStreamers == {s1, s2}

=============================================================================
