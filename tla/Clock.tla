------------------------------- MODULE Clock -------------------------------
(***************************************************************************)
(* Instants as the roze crates use them: a deadline is kept as the time    *)
(* LEFT until it is reached (0 once it is, None when there is none), so    *)
(* that time is unbounded although every state is small.                   *)
(***************************************************************************)
EXTENDS Integers, Option

ASSUME NoneIsNoTime == None \notin Int

Time == Nat \cup {None}

CountDown(time) == IF time = None \/ time = 0 THEN time ELSE time - 1

Reached(time) == time = None \/ time = 0

\* usize::max(1), u32::max(1), u64::max(1)
AtLeastOne(n) == IF n = 0 THEN 1 ELSE n

\* saturating_sub(1)
OneFewer(n) == IF n = 0 THEN 0 ELSE n - 1

=============================================================================
