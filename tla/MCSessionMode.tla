---------------------------- MODULE MCSessionMode ----------------------------
(***************************************************************************)
(* Small instances of SessionMode for TLC: two streamers, a day of eight   *)
(* units with a window of four, so that the session can fall quiet and a   *)
(* sleeping streamer can wake inside the window, and both can happen       *)
(* overnight.                                                              *)
(***************************************************************************)
EXTENDS SessionMode, TLC

CONSTANTS s1, s2

TwoStreamers == {s1, s2}

=============================================================================
