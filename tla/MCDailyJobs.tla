---------------------------- MODULE MCDailyJobs ----------------------------
(***************************************************************************)
(* A small instance of DailyJobs for TLC: a second is four units, so that  *)
(* a sleep may begin and end at any fraction of one, and a day six         *)
(* seconds; the NSE clock is up to a second and a quarter ahead or behind, *)
(* and may change by that much twice in a day.                             *)
(***************************************************************************)
EXTENDS DailyJobs

ClocksDiffer == -5 .. 5

=============================================================================
