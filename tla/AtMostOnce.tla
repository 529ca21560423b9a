---------------------------- MODULE AtMostOnce ----------------------------
(* What "claim first, then send" promises of a notice, with no rounds, rows or
   crashes in sight: it is taken once, and then it is told once or lost for good.
   GuildNews and DmNotices implement it. *)
CONSTANT Notices

VARIABLE fate        \* "waiting", "taken", "told", "lost"

Init == fate = [n \in Notices |-> "waiting"]

\* The notices of ns go from one fate to another; a batch goes together.
Turn(ns, from, to) ==
  /\ \A n \in ns : fate[n] \in from
  /\ fate' = [n \in Notices |-> IF n \in ns THEN to ELSE fate[n]]

Take(ns) == Turn(ns, {"waiting"}, "taken")
Tell(n) == Turn({n}, {"taken"}, "told")
Lose(ns) == Turn(ns, {"waiting", "taken"}, "lost")

Next == \/ \E n \in Notices : Tell(n)
        \/ \E ns \in SUBSET Notices : Take(ns) \/ Lose(ns)

Spec == Init /\ [][Next]_fate
=============================================================================
