----------------------------- MODULE MCAdapters -----------------------------
(* Adapters on small instances. *)
EXTENDS Adapters, TLC

CONSTANTS a1, a2, a3, n1, n2, r1

\* The first note is a peer's, the second the lead's.
MCLetters == {l \in Kinds \X Notes : l[2] = n1 <=> l[1] \in {"note", "aside"}}

\* A team of two with all tasks where nobody is killed, or the whole team with
\* one task.
TeamInit ==
  \/ \E a \in Agents \ {a1} : Start({a1, a}, Tasks, MaxKills)
  \/ Start(Agents, {1}, 0)
TeamSpec == TeamInit /\ [][Next]_vars

\* The two that have no mid-turn hook are alike.
Alike == Permutations({a2, a3})
=============================================================================
