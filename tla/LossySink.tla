----------------------------- MODULE LossySink -----------------------------
(***************************************************************************)
(* What a caller may rely on when it hands a row to a batching writer: the *)
(* rows of a table are stored in the order they were handed over, each at  *)
(* most once for each time it was taken.  The oldest may be given up, and  *)
(* all that wait when the process ends, but none is stored twice, none     *)
(* overtakes an older one of its table, and none comes from nowhere.       *)
(***************************************************************************)
EXTENDS Naturals, FiniteSets, Sequences

CONSTANTS Row, Table, TableOf

VARIABLES
  waiting,   \* waiting[t]: rows of table t taken and not settled, oldest first
  accepted,  \* accepted[r]: how often r was taken
  inserted,  \* inserted[r]: how often r was stored
  lost       \* lost[r]: how often r was given up

vars == <<waiting, accepted, inserted, lost>>

None == [r \in Row |-> 0]
Nothing == [t \in Table |-> <<>>]
Init == waiting = Nothing /\ accepted = None /\ inserted = None /\ lost = None

\* A row is taken, behind the others of its table.
Accept(r) ==
  /\ accepted' = [accepted EXCEPT ![r] = @ + 1]
  /\ waiting' = [waiting EXCEPT ![TableOf[r]] = Append(@, r)]
  /\ UNCHANGED <<inserted, lost>>

Copies(s, r) == Cardinality({i \in DOMAIN s : s[i] = r})

\* The n oldest rows of table t are stored, or they are given up.
Settle(t, n, stored) ==
  /\ n <= Len(waiting[t])
  /\ LET Add(f) == [r \in Row |-> f[r] + Copies(SubSeq(waiting[t], 1, n), r)] IN
     IF stored THEN inserted' = Add(inserted) /\ UNCHANGED lost
               ELSE lost' = Add(lost) /\ UNCHANGED inserted
  /\ waiting' = [waiting EXCEPT ![t] = SubSeq(@, n + 1, Len(@))]
  /\ UNCHANGED accepted

\* Whatever was not stored by now never will be.
GiveUp ==
  /\ waiting' = Nothing
  /\ lost' = [r \in Row |-> accepted[r] - inserted[r]]
  /\ UNCHANGED <<accepted, inserted>>

Next ==
  \/ \E r \in Row : Accept(r)
  \/ \E t \in Table, stored \in BOOLEAN :
       \E n \in 0 .. Len(waiting[t]) : Settle(t, n, stored)
  \/ GiveUp
Spec == Init /\ [][Next]_vars
=============================================================================
