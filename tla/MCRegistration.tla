---------------------------- MODULE MCRegistration ----------------------------
(***************************************************************************)
(* A small instance of Registration for TLC: four calls, of which two at a *)
(* time, for three usernames from two networks with a limit of one.  Two   *)
(* calls can race for one username and for one network's last place, and   *)
(* the others can follow before or after the race.                         *)
(***************************************************************************)
EXTENDS Registration, TLC

CONSTANTS c1, c2, c3, c4, u1, u2, u3, n1, n2

FourCalls == {c1, c2, c3, c4}
ThreeUsers == {u1, u2, u3}
TwoNetworks == {n1, n2}
AnyNames == Permutations(FourCalls) \cup Permutations(ThreeUsers) \cup Permutations(TwoNetworks)

=============================================================================
