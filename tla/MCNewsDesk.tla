---- MODULE MCNewsDesk ----
EXTENDS NewsDesk
CONSTANTS a1, a2, m1, m2
MCStory == [a \in Article |-> "s"]
MCRank == [a \in Article |-> IF a = a1 THEN 1 ELSE 2]
MCLinks == {<<a, m, r>> \in Article \X Market \X (1 .. MaxRevision) : ~(m = m1 /\ r = 3) /\ ~(a = a2 /\ m = m2)}
====
