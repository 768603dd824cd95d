----------------------------- MODULE MessageSets -----------------------------
(***************************************************************************)
(* The messages of one channel as a set: the order they stand in, and what *)
(* the action of a message means for them, whatever keeps them.            *)
(***************************************************************************)
EXTENDS Messages, FiniteSets

\* By cursor, and by arrival among equal cursors.
Before(x, y) == x.cursor < y.cursor \/ (x.cursor = y.cursor /\ x.arrival < y.arrival)

\* The n last messages of S.
Latest(n, S) == {x \in S : Cardinality({y \in S : Before(x, y)}) < n}

Others(S, m) == {x \in S : x.identity # m.identity}

Same(S, m) == S \ Others(S, m)

\* The messages of S after the action of m at time t.
Effect(S, m, t) ==
  LET added == {Born(m, t)}
      lasting == IF m.lifetime # 0 THEN added ELSE {}
  IN  CASE m.action = "publish" -> S \cup added
        [] m.action = "replace" -> Others(S, m) \cup added
        [] m.action = "remove"  -> Others(S, m) \cup lasting
        [] m.action = "update"  -> IF Same(S, m) = {} THEN S \cup lasting
                                   ELSE Others(S, m) \cup {Updated(x, m) : x \in Same(S, m)}
        [] m.action = "modify"  -> IF Same(S, m) = {} THEN S \cup lasting
                                   ELSE Others(S, m) \cup {Modified(x, m) : x \in Same(S, m)}
=============================================================================
