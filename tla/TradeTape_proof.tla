-------------------------- MODULE TradeTape_proof --------------------------
(***************************************************************************)
(* What the raw tape promises for any number of workers, messages and      *)
(* deliveries, any size of the queue and of the buffers, and any failures: *)
(* the batcher loses no row unaccounted and keeps the order of each table, *)
(* a trade counts once, ClickHouse is offered what PostgreSQL holds, and   *)
(* the market of a handled trade is known.                                 *)
(***************************************************************************)
EXTENDS TradeTape, FiniteSetTheorems, WellFoundedInduction, SequenceTheorems,
        TLAPS

-----------------------------------------------------------------------------
(* The inductive invariants.                                               *)

\* A buffer holds rows of its table only.
Sorted ==
  \A t \in Table : \A i \in DOMAIN buffers[t] : TableOf[buffers[t][i]] = t

\* The last flush has every table with rows ahead of it.
LastFlush == thread = "last" => Filled \subseteq todo
BatcherInv == BatcherTypeOK /\ Sorted /\ LastFlush /\ RowAccounted

Opened(w, x) == work[w].at = "open" /\ work[w].msg = x

\* PostgreSQL lets one transaction at a time insert a key, and it finds the
\* key new exactly if no other has committed it.
OpenAlone ==
  WriteRawPostgres =>
    \A x \in Row : \A v, w \in Worker : Opened(v, x) /\ Opened(w, x) => v = w
WroteNew ==
  WriteRawPostgres =>
    \A t \in Trade : \A w \in Worker : Opened(w, t) => (work[w].wrote <=> t \notin tape)

\* A book message is with one worker at most, and with none before it comes
\* and after it was stored.
BookOnce ==
  \A b \in Book :
    /\ delivered[b] <= 1
    /\ b \in tape => delivered[b] = 1 /\ \A w \in Busy : work[w].msg # b
    /\ \A w \in Busy : work[w].msg = b => delivered[b] = 1
    /\ \A v, w \in Busy : work[v].msg = b /\ work[w].msg = b => v = w

\* What PostgreSQL holds or is about to was offered to the batcher, and the
\* copies that count are of attempts that handed theirs over.
Offers ==
  backend = "dual" =>
    \A x \in Row :
      /\ x \in tape \/ (\E w \in Worker : Opened(w, x)) => accepted[x] + dropped[x] > 0
      /\ accepted[x] <= undone[x] + IF \/ x \in tape
                                       \/ \E w \in Worker : Opened(w, x) /\ work[w].sent
                                    THEN 1 ELSE 0

\* The market of a trade in the works is known or made by its transaction.
MarketMade ==
  \A w \in Worker :
    work[w].at \in {"insert", "open"} /\ work[w].msg \in Trade =>
      MarketOf[work[w].msg] \in known \union {work[w].makes}

TapeInv ==
  /\ TypeOK /\ IsFiniteSet(tape)
  /\ OpenAlone /\ WroteNew /\ TradeCountedOnce /\ BookOnce /\ Offers
  /\ MarketMade /\ SeenMarketsKnown

-----------------------------------------------------------------------------
(* How often a row occurs in a sequence.                                   *)

\* The places of a value in a sequence are finitely many.
LEMMA RowsType ==
  ASSUME NEW S, NEW s \in Seq(S), NEW r
  PROVE  /\ IsFiniteSet({i \in DOMAIN s : s[i] = r})
         /\ Rows(s, r) \in Nat
<1>1. DOMAIN s = 1..Len(s) /\ Len(s) \in Nat
  OBVIOUS
<1>2. IsFiniteSet(1..Len(s))
  BY <1>1, FS_Interval
<1>3. IsFiniteSet({i \in DOMAIN s : s[i] = r})
  BY <1>1, <1>2, FS_Subset
<1> QED BY <1>3, FS_CardinalityType DEF Rows

\* What does not occur in a sequence has no place in it.
LEMMA RowsNone ==
  ASSUME NEW s, NEW r, \A i \in DOMAIN s : s[i] # r
  PROVE  Rows(s, r) = 0
<1>1. {i \in DOMAIN s : s[i] = r} = {}
  OBVIOUS
<1> QED BY <1>1, FS_EmptySet DEF Rows

\* An empty buffer holds no copy of a row.
LEMMA RowsEmpty == \A r : Rows(<<>>, r) = 0
BY RowsNone

\* What Append and Tail return.
LEMMA AppendFacts ==
  ASSUME NEW S, NEW s \in Seq(S), NEW e \in S
  PROVE  /\ Append(s, e) \in Seq(S) /\ Append(s, e) # <<>>
         /\ Len(Append(s, e)) = Len(s) + 1
         /\ \A i \in 1..Len(s) : Append(s, e)[i] = s[i]
         /\ Append(s, e)[Len(s) + 1] = e
OBVIOUS

\* What is left of a sequence without its first element.
LEMMA TailFacts ==
  ASSUME NEW S, NEW s \in Seq(S), s # <<>>
  PROVE  /\ Tail(s) \in Seq(S) /\ Len(Tail(s)) = Len(s) - 1
         /\ Len(s) \in Nat \ {0} /\ Head(s) \in S
OBVIOUS

\* Append adds one place for the value it appends.
LEMMA RowsAppend ==
  ASSUME NEW S, NEW s \in Seq(S), NEW e \in S, NEW r
  PROVE  Rows(Append(s, e), r) = Rows(s, r) + IF e = r THEN 1 ELSE 0
<1> DEFINE P == {i \in DOMAIN s : s[i] = r}
           n == Len(s) + 1
           Q == {i \in DOMAIN Append(s, e) : Append(s, e)[i] = r}
<1>1. n \notin P /\ Q = IF e = r THEN P \union {n} ELSE P
  OBVIOUS
<1>2. IsFiniteSet(P) /\ Cardinality(P) \in Nat
  BY RowsType DEF Rows
<1>3. Cardinality(P \union {n}) = Cardinality(P) + 1
  BY <1>1, <1>2, FS_AddElement
<1>4. Rows(Append(s, e), r) = Cardinality(Q) /\ Rows(s, r) = Cardinality(P)
  BY DEF Rows
<1> HIDE DEF P, Q, n
<1> QED BY <1>1, <1>2, <1>3, <1>4

\* Tail gives up the place of the head.
LEMMA RowsTail ==
  ASSUME NEW S, NEW s \in Seq(S), s # <<>>, NEW r
  PROVE  Rows(s, r) = Rows(Tail(s), r) + IF Head(s) = r THEN 1 ELSE 0
<1> DEFINE P == {i \in DOMAIN Tail(s) : Tail(s)[i] = r}
           R == {i \in 2..Len(s) : s[i] = r}
           Q == {i \in DOMAIN s : s[i] = r}
           f == [i \in P |-> i + 1]
<1>1. /\ Tail(s) \in Seq(S) /\ Len(s) \in Nat \ {0}
      /\ DOMAIN Tail(s) = 1..(Len(s) - 1)
      /\ \A i \in 1..(Len(s) - 1) : Tail(s)[i] = s[i + 1]
  OBVIOUS
<1>2. IsFiniteSet(P) /\ Cardinality(P) \in Nat
  BY <1>1, RowsType DEF Rows
<1>3. f \in Bijection(P, R)
  <2>1. f \in [P -> R]
    BY <1>1
  <2>2. \A i, j \in P : f[i] = f[j] => i = j
    BY <1>1
  <2>3. \A k \in R : \E i \in P : f[i] = k
    <3> TAKE k \in R
    <3>1. k - 1 \in P /\ f[k - 1] = k
      BY <1>1
    <3> QED BY <3>1
  <2> HIDE DEF f, P, R
  <2>4. DOMAIN f = P
    BY <2>1
  <2> QED BY <2>1, <2>2, <2>3, <2>4 DEF Bijection, Injection, Surjection, IsInjective
<1>4. IsFiniteSet(R) /\ Cardinality(R) = Cardinality(P)
  BY <1>2, <1>3, FS_Bijection DEF ExistsBijection
<1>5. 1 \notin R /\ Q = IF Head(s) = r THEN R \union {1} ELSE R
  BY <1>1
<1>6. Cardinality(R \union {1}) = Cardinality(R) + 1
  BY <1>4, <1>5, FS_AddElement
<1>7. Rows(s, r) = Cardinality(Q) /\ Rows(Tail(s), r) = Cardinality(P)
  BY DEF Rows
<1> HIDE DEF P, Q, R
<1> QED BY <1>2, <1>4, <1>5, <1>6, <1>7

-----------------------------------------------------------------------------
(* The rows of a table in a queue, and their order.                        *)

\* Induction over the natural numbers, for a set: its least missing number would
\* follow one that is there.
LEMMA Induction ==
  ASSUME NEW S, 0 \in S, \A i \in Nat : i \in S => i + 1 \in S
  PROVE  \A i \in Nat : i \in S
<1> SUFFICES ASSUME NEW n \in Nat, n \notin S
             PROVE  FALSE
  OBVIOUS
<1>1. PICK k \in Nat \ S : \A j \in Nat \ S : ~(<<j, k>> \in OpToRel(<, Nat))
  <2>1. Nat \ S \subseteq Nat /\ Nat \ S # {}
    OBVIOUS
  <2> QED
    BY <2>1, NatLessThanWellFounded, WFMin
<1>2. \A j \in Nat \ S : ~(j < k)
  BY <1>1 DEF OpToRel
<1>3. k # 0 /\ k - 1 \in Nat
  OBVIOUS
<1>4. k - 1 \in S
  BY <1>2, <1>3
<1>5. k - 1 + 1 \in S
  BY <1>3, <1>4
<1> QED
  BY <1>5

\* What is appended to the second of two sequences comes last in both.
LEMMA ConcatAppend ==
  ASSUME NEW S, NEW a \in Seq(S), NEW b \in Seq(S), NEW e \in S
  PROVE  a \o Append(b, e) = Append(a \o b, e)
<1>1. /\ a \o b \in Seq(S) /\ <<e>> \in Seq(S)
      /\ Append(a \o b, e) = (a \o b) \o <<e>> /\ Append(b, e) = b \o <<e>>
  BY ConcatProperties, AppendIsConcat
<1> QED BY <1>1, ConcatAssociative

\* The same for rows.
LEMMA RowsConcat ==
  \A a, b \in Seq(Row) : \A e \in Row : a \o Append(b, e) = Append(a \o b, e)
BY ConcatAppend

\* Two sequences that were joined, taken apart.
LEMMA Halves ==
  ASSUME NEW S, NEW a \in Seq(S), NEW b \in Seq(S)
  PROVE  /\ SubSeq(a \o b, 1, Len(a)) = a
         /\ SubSeq(a \o b, Len(a) + 1, Len(a \o b)) = b
OBVIOUS

\* The queue, and one element of it.
Item == Row \union {Pill}
Queued == Seq(Item)
Ours(t, e) == e # Pill /\ TableOf[e] = t

\* f[n] is what the first n elements of q hold of table t.
Collects(t, q, f) ==
  f = [n \in 0 .. Len(q) |->
         IF n = 0 THEN <<>>
         ELSE IF q[n] # Pill /\ TableOf[q[n]] = t THEN Append(f[n - 1], q[n])
         ELSE f[n - 1]]

\* Another way to say so.
Grows(t, q, f, k) ==
  /\ f[0] = <<>>
  /\ \A n \in Nat :
       n < k => f[n + 1] = IF Ours(t, q[n + 1]) THEN Append(f[n], q[n + 1]) ELSE f[n]

\* Such an f exists.
LEMMA Growth ==
  ASSUME NEW t, NEW q \in Queued, NEW k \in 0 .. Len(q)
  PROVE  \E f \in [0 .. k -> Seq(Row)] : Grows(t, q, f, k)
<1> DEFINE K == {j \in Nat : j <= Len(q) =>
                   \E f \in [0 .. j -> Seq(Row)] : Grows(t, q, f, j)}
<1>0. Len(q) \in Nat
  BY DEF Queued
<1>1. 0 \in K
  <2> DEFINE f == [n \in 0 .. 0 |-> <<>>]
  <2>1. f \in [0 .. 0 -> Seq(Row)] /\ Grows(t, q, f, 0)
    BY DEF Grows
  <2> QED BY <2>1
<1>2. ASSUME NEW j \in Nat, j \in K
      PROVE  j + 1 \in K
  <2> SUFFICES ASSUME j + 1 <= Len(q)
               PROVE  \E f \in [0 .. j + 1 -> Seq(Row)] : Grows(t, q, f, j + 1)
    OBVIOUS
  <2>1. PICK f \in [0 .. j -> Seq(Row)] : Grows(t, q, f, j)
    BY <1>0, <1>2
  <2> DEFINE e == IF Ours(t, q[j + 1]) THEN Append(f[j], q[j + 1]) ELSE f[j]
             g == [n \in 0 .. j + 1 |-> IF n = j + 1 THEN e ELSE f[n]]
  <2>2. q[j + 1] \in Item
    BY <1>0 DEF Queued
  <2>3. e \in Seq(Row)
    BY <2>2, AppendFacts DEF Item, Ours
  <2> HIDE DEF e
  <2>4. g \in [0 .. j + 1 -> Seq(Row)]
    BY <2>3
  <2>5. g[0] = <<>>
    BY <2>1 DEF Grows
  <2>6. ASSUME NEW n \in Nat, n < j + 1
        PROVE  g[n + 1] = IF Ours(t, q[n + 1]) THEN Append(g[n], q[n + 1]) ELSE g[n]
    <3>1. CASE n = j
      BY <3>1 DEF e
    <3>2. CASE n # j
      <4>1. n < j /\ g[n] = f[n] /\ g[n + 1] = f[n + 1]
        BY <3>2
      <4> QED BY <2>1, <4>1 DEF Grows
    <3> QED BY <3>1, <3>2
  <2> HIDE DEF g
  <2>8. Grows(t, q, g, j + 1)
    BY <2>5, <2>6 DEF Grows
  <2> QED BY <2>4, <2>8
<1>3. k \in K
  <2> HIDE DEF K
  <2> QED BY <1>0, <1>1, <1>2, Induction
<1> QED BY <1>0, <1>3

\* q and p begin alike.
Alike(q, p, k) == \A i \in 1 .. k : p[i] = q[i]

\* And there is one only.
LEMMA SameGrowth ==
  ASSUME NEW t, NEW q, NEW p, NEW k \in Nat, NEW f, NEW g,
         Grows(t, q, f, k), Grows(t, p, g, k), Alike(q, p, k)
  PROVE  f[k] = g[k]
<1> DEFINE K == {n \in Nat : n <= k => f[n] = g[n]}
<1>1. 0 \in K
  BY DEF Grows
<1>2. ASSUME NEW n \in Nat, n \in K
      PROVE  n + 1 \in K
  <2> SUFFICES ASSUME n + 1 <= k PROVE f[n + 1] = g[n + 1]
    OBVIOUS
  <2>1. n < k /\ n + 1 \in 1 .. k /\ f[n] = g[n]
    BY <1>2
  <2> QED BY <2>1 DEF Grows, Alike
<1> HIDE DEF K
<1>3. \A n \in Nat : n \in K
  BY <1>1, <1>2, Induction
<1> QED BY <1>3 DEF K

\* OfTable is where it ends.
LEMMA OfTableIs ==
  ASSUME NEW t, NEW q \in Queued
  PROVE  \E f \in [0 .. Len(q) -> Seq(Row)] :
           Grows(t, q, f, Len(q)) /\ OfTable(t, q) = f[Len(q)]
<1>0. Len(q) \in Nat
  BY DEF Queued
<1>1. PICK f \in [0 .. Len(q) -> Seq(Row)] : Grows(t, q, f, Len(q))
  <2>1. Len(q) \in 0 .. Len(q)
    BY <1>0
  <2> QED BY <2>1, Growth
<1>2. Collects(t, q, f)
  <2>1. ASSUME NEW n \in 0 .. Len(q)
        PROVE  f[n] = IF n = 0 THEN <<>>
                      ELSE IF q[n] # Pill /\ TableOf[q[n]] = t THEN Append(f[n - 1], q[n])
                      ELSE f[n - 1]
    <3>1. CASE n = 0
      BY <1>1, <3>1 DEF Grows
    <3>2. CASE n # 0
      <4>1. n - 1 \in Nat /\ n - 1 < Len(q) /\ n - 1 + 1 = n
        BY <1>0, <3>2
      <4> QED BY <1>1, <3>2, <4>1 DEF Grows, Ours
    <3> QED BY <3>1, <3>2
  <2> QED BY <2>1 DEF Collects
<1> DEFINE g == CHOOSE h : Collects(t, q, h)
<1>3. Collects(t, q, g)
  BY <1>2
<1>4. OfTable(t, q) = g[Len(q)]
  BY DEF OfTable, Collects
<1> HIDE DEF g
<1>5. Grows(t, q, g, Len(q))
  <2>1. g[0] = <<>>
    BY <1>0, <1>3 DEF Collects
  <2>2. ASSUME NEW n \in Nat, n < Len(q)
        PROVE  g[n + 1] = IF Ours(t, q[n + 1]) THEN Append(g[n], q[n + 1]) ELSE g[n]
    <3> DEFINE m == n + 1
    <3>1. m \in 0 .. Len(q) /\ m # 0 /\ m - 1 = n
      BY <1>0, <2>2
    <3> HIDE DEF m
    <3>2. g[m] = IF Ours(t, q[m]) THEN Append(g[m - 1], q[m]) ELSE g[m - 1]
      BY <1>3, <3>1 DEF Collects, Ours
    <3> QED BY <3>1, <3>2 DEF m
  <2> QED BY <2>1, <2>2 DEF Grows
<1>6. f[Len(q)] = g[Len(q)]
  BY <1>0, <1>1, <1>5, SameGrowth DEF Alike
<1> QED BY <1>1, <1>4, <1>6

\* Nothing waits in an empty queue.
LEMMA OfTableEmpty ==
  ASSUME NEW t
  PROVE  OfTable(t, <<>>) = <<>>
<1>1. <<>> \in Queued /\ Len(<<>>) = 0
  BY DEF Queued
<1> QED BY <1>1, OfTableIs DEF Grows

\* A row comes behind those of its table; a pill changes nothing.
LEMMA OfTableAppend ==
  ASSUME NEW t, NEW q \in Queued, NEW e \in Item
  PROVE  /\ OfTable(t, q) \in Seq(Row)
         /\ OfTable(t, Append(q, e)) =
              IF Ours(t, e) THEN Append(OfTable(t, q), e) ELSE OfTable(t, q)
<1> SUFFICES ASSUME NEW m, m = Len(q), NEW p, p = Append(q, e)
             PROVE  /\ OfTable(t, q) \in Seq(Row)
                    /\ OfTable(t, p) = IF Ours(t, e) THEN Append(OfTable(t, q), e)
                                        ELSE OfTable(t, q)
  OBVIOUS
<1>1. /\ m \in Nat /\ p \in Queued /\ Len(p) = m + 1
      /\ (\A i \in 1 .. m : p[i] = q[i]) /\ p[m + 1] = e
  BY AppendFacts DEF Queued
<1>2. PICK f \in [0 .. m -> Seq(Row)] : Grows(t, q, f, m) /\ OfTable(t, q) = f[m]
  BY OfTableIs
<1>3. PICK g \in [0 .. m + 1 -> Seq(Row)] :
        Grows(t, p, g, m + 1) /\ OfTable(t, p) = g[m + 1]
  BY <1>1, OfTableIs
<1>4. Grows(t, p, g, m)
  <2>1. Grows(t, p, g, m + 1)
    BY <1>3
  <2>2. \A i \in Nat : i < m => i < m + 1
    BY <1>1
  <2>3. g[0] = <<>>
    BY <2>1 DEF Grows
  <2>4. \A i \in Nat :
          i < m + 1 => g[i + 1] = IF Ours(t, p[i + 1]) THEN Append(g[i], p[i + 1]) ELSE g[i]
    BY <2>1 DEF Grows
  <2>5. \A i \in Nat :
          i < m => g[i + 1] = IF Ours(t, p[i + 1]) THEN Append(g[i], p[i + 1]) ELSE g[i]
    BY <2>2, <2>4
  <2> QED BY <2>3, <2>5 DEF Grows
<1>5. f[m] = g[m]
  <2>1. Grows(t, q, f, m) /\ Alike(q, p, m) /\ m \in Nat
    BY <1>1, <1>2 DEF Alike
  <2> QED BY <1>4, <2>1, SameGrowth
<1>6. g[m + 1] = IF Ours(t, p[m + 1]) THEN Append(g[m], p[m + 1]) ELSE g[m]
  BY <1>1, <1>3 DEF Grows
<1>7. f[m] \in Seq(Row)
  BY <1>1, <1>2
<1> QED BY <1>1, <1>2, <1>3, <1>5, <1>6, <1>7

\* The first of the queue comes before the others of its table.
LEMMA OfTableTail ==
  ASSUME NEW t, NEW q \in Queued, q # <<>>
  PROVE  OfTable(t, q) =
           (IF Ours(t, Head(q)) THEN <<Head(q)>> ELSE <<>>) \o OfTable(t, Tail(q))
<1> DEFINE n == Len(q)
           p == Tail(q)
           first == IF Ours(t, Head(q)) THEN <<Head(q)>> ELSE <<>>
<1>1. /\ n \in Nat \ {0} /\ p \in Queued /\ Len(p) = n - 1
      /\ (\A i \in 1 .. n - 1 : p[i] = q[i + 1]) /\ Head(q) = q[1] /\ Head(q) \in Item
  BY DEF Queued
<1>2. first \in Seq(Row)
  BY <1>1 DEF Item, Ours
<1>3. PICK f \in [0 .. n -> Seq(Row)] : Grows(t, q, f, n) /\ OfTable(t, q) = f[n]
  BY OfTableIs
<1>4. PICK g \in [0 .. n - 1 -> Seq(Row)] :
        Grows(t, p, g, n - 1) /\ OfTable(t, p) = g[n - 1]
  <2>1. \E g \in [0 .. Len(p) -> Seq(Row)] :
          Grows(t, p, g, Len(p)) /\ OfTable(t, p) = g[Len(p)]
    BY <1>1, OfTableIs
  <2> QED BY <1>1, <2>1
<1>5. f[1] = first
  <2>0. 0 \in Nat /\ 0 < n /\ 0 + 1 = 1
    BY <1>1
  <2>1. f[0] = <<>> /\ f[1] = IF Ours(t, q[1]) THEN Append(f[0], q[1]) ELSE f[0]
    <3> HIDE DEF n
    <3>1. Grows(t, q, f, n)
      BY <1>3 DEF n
    <3> QED BY <2>0, <3>1 DEF Grows
  <2>2. Append(<<>>, q[1]) = <<q[1]>>
    BY <1>1
  <2> QED BY <1>1, <2>1, <2>2
<1> HIDE DEF n, p, first
<1>0. Grows(t, q, f, n) /\ OfTable(t, q) = f[n]
  BY <1>3 DEF n
<1> DEFINE K == {i \in Nat : i <= n - 1 => f[i + 1] = first \o g[i]}
<1>6. 0 \in K
  <2>1. g[0] = <<>>
    BY <1>4 DEF Grows
  <2> QED BY <1>2, <1>5, <2>1
<1>7. ASSUME NEW i \in Nat, i \in K
      PROVE  i + 1 \in K
  <2> SUFFICES ASSUME i + 1 <= n - 1 PROVE f[i + 1 + 1] = first \o g[i + 1]
    OBVIOUS
  <2>1. /\ i < n - 1 /\ i + 1 \in 0 .. n - 1 /\ i + 1 \in 1 .. n - 1
        /\ f[i + 1] = first \o g[i] /\ p[i + 1] = q[i + 1 + 1]
    <3>1. i <= n - 1 /\ i < n - 1 /\ i + 1 \in 0 .. n - 1 /\ i + 1 \in 1 .. n - 1
      BY <1>1
    <3>2. f[i + 1] = first \o g[i]
      BY <1>7, <3>1
    <3>3. p[i + 1] = q[i + 1 + 1]
      BY <1>1, <3>1
    <3> QED BY <3>1, <3>2, <3>3
  <2>2. g[i + 1] = IF Ours(t, p[i + 1]) THEN Append(g[i], p[i + 1]) ELSE g[i]
    BY <1>4, <2>1 DEF Grows
  <2>3. f[i + 1 + 1] =
          IF Ours(t, q[i + 1 + 1]) THEN Append(f[i + 1], q[i + 1 + 1]) ELSE f[i + 1]
    <3>1. i + 1 \in Nat /\ i + 1 < n
      BY <1>1, <2>1
    <3> QED BY <1>0, <3>1 DEF Grows
  <2>4. g[i] \in Seq(Row) /\ p[i + 1] \in Item
    <3>1. i \in 0 .. n - 1 /\ i + 1 \in 1 .. Len(p) /\ p \in Seq(Item)
      BY <1>1, <2>1 DEF Queued
    <3> QED BY <1>4, <3>1
  <2>5. Ours(t, p[i + 1]) => Append(first \o g[i], p[i + 1]) = first \o Append(g[i], p[i + 1])
    <3> DEFINE e == p[i + 1]
               s == g[i]
    <3>1. Ours(t, e) => e \in Row
      BY <2>4 DEF Item, Ours
    <3>2. s \in Seq(Row)
      BY <2>4
    <3> HIDE DEF e, s
    <3>3. e \in Row => Append(first \o s, e) = first \o Append(s, e)
      BY <1>2, <3>2, RowsConcat
    <3> QED BY <3>1, <3>3 DEF e, s
  <2> QED BY <2>1, <2>2, <2>3, <2>5
<1>8. n - 1 \in K
  <2> HIDE DEF K
  <2>1. \A i \in Nat : i \in K
    BY <1>6, <1>7, Induction
  <2>2. n - 1 \in Nat
    BY <1>1
  <2> QED BY <2>1, <2>2
<1>9. f[n] = first \o g[n - 1]
  BY <1>1, <1>8
<1> QED BY <1>3, <1>4, <1>9 DEF p, first

-----------------------------------------------------------------------------
(* The batcher.                                                            *)

\* A buffer holds no row of another table.
LEMMA OtherTable ==
  ASSUME BatcherTypeOK, Sorted, NEW r \in Row, NEW t \in Table, t # TableOf[r]
  PROVE  Rows(buffers[t], r) = 0
<1>1. \A i \in DOMAIN buffers[t] : buffers[t][i] # r
  BY DEF Sorted
<1> QED BY <1>1, RowsNone

\* The counts of rows are numbers.
LEMMA BufferCounts ==
  ASSUME BatcherTypeOK, NEW r \in Row
  PROVE  /\ Rows(queue, r) \in Nat
         /\ \A t \in Table : Rows(buffers[t], r) \in Nat
         /\ accepted[r] \in Nat /\ inserted[r] \in Nat /\ lost[r] \in Nat
<1>1. queue \in Seq(Row \union {Pill}) /\ \A t \in Table : buffers[t] \in Seq(Row)
  BY DEF BatcherTypeOK
<1>2. Rows(queue, r) \in Nat
  BY <1>1, RowsType
<1>3. \A t \in Table : Rows(buffers[t], r) \in Nat
  BY <1>1, RowsType
<1> QED BY <1>2, <1>3 DEF BatcherTypeOK

\* A process begins with nothing in the batcher.
LEMMA BatcherStarts == BatcherInit => BatcherInv
<1> SUFFICES ASSUME BatcherInit PROVE BatcherInv
  OBVIOUS
<1>1. BatcherTypeOK
  <2>1. queue \in Seq(Row \union {Pill}) /\ Len(queue) <= QueueSize
    BY BatcherAssumption DEF BatcherInit
  <2>2. buffers \in [Table -> Seq(Row)]
    BY DEF BatcherInit, NoBuffers
  <2>3. accepted \in [Row -> Nat] /\ inserted \in [Row -> Nat] /\ lost \in [Row -> Nat]
    BY DEF BatcherInit
  <2> QED BY <2>1, <2>2, <2>3 DEF BatcherInit, BatcherTypeOK
<1>2. Sorted /\ LastFlush /\ Filled = {}
  BY DEF BatcherInit, Sorted, LastFlush, Filled, NoBuffers
<1>3. \A r \in Row : Rows(queue, r) = 0 /\ Rows(buffers[TableOf[r]], r) = 0
  BY BatcherAssumption, RowsEmpty DEF BatcherInit, NoBuffers
<1>4. RowAccounted
  BY <1>2, <1>3 DEF BatcherInit, RowAccounted
<1> QED BY <1>1, <1>2, <1>4 DEF BatcherInv

\* A row handed over is in the queue, or was not accepted.
LEMMA EnqueueKeeps ==
  ASSUME BatcherInv, NEW x \in Row, Enqueue(x)
  PROVE  BatcherInv'
<1> USE DEF BatcherInv
<1>1. BatcherTypeOK'
  <2>1. Fits => Append(queue, x) \in Seq(Row \union {Pill})
                /\ Len(Append(queue, x)) = Len(queue) + 1
    BY DEF BatcherTypeOK
  <2>2. (queue \in Seq(Row \union {Pill}) /\ Len(queue) <= QueueSize)'
    <3>1. queue \in Seq(Row \union {Pill}) /\ Len(queue) <= QueueSize
          /\ Len(queue) \in Nat /\ QueueSize \in Nat
      BY BatcherAssumption DEF BatcherTypeOK
    <3>2. \/ Len(queue) < QueueSize /\ queue' = Append(queue, x)
          \/ queue' = queue
      BY DEF Enqueue, Fits
    <3> QED BY <2>1, <3>1, <3>2 DEF Fits
  <2>3. (accepted \in [Row -> Nat])'
    BY DEF Enqueue, BatcherTypeOK
  <2> QED BY <2>2, <2>3 DEF Enqueue, BatcherTypeOK
<1>2. Sorted' /\ LastFlush' /\ (thread' = "ended" => Filled' = {})
  BY DEF Enqueue, Sorted, LastFlush, Filled, BatcherTypeOK
<1>3. ASSUME NEW r \in Row
      PROVE  (accepted[r] = Rows(queue, r) + Rows(buffers[TableOf[r]], r)
                            + inserted[r] + lost[r])'
  <2>1. queue \in Seq(Row \union {Pill}) /\ accepted \in [Row -> Nat]
    BY DEF BatcherTypeOK
  <2>2. Rows(Append(queue, x), r) = Rows(queue, r) + IF x = r THEN 1 ELSE 0
    BY <2>1, RowsAppend
  <2>0. TableOf[r] \in Table
    BY BatcherAssumption
  <2>3. /\ buffers' = buffers /\ inserted' = inserted /\ lost' = lost
        /\ \/ queue' = Append(queue, x) /\ accepted' = [accepted EXCEPT ![x] = @ + 1]
           \/ queue' = queue /\ accepted' = accepted
    BY DEF Enqueue
  <2>4. accepted[r] = Rows(queue, r) + Rows(buffers[TableOf[r]], r) + inserted[r] + lost[r]
    BY DEF RowAccounted
  <2>5. accepted[r] \in Nat /\ Rows(queue, r) \in Nat /\ inserted[r] \in Nat
        /\ lost[r] \in Nat /\ Rows(buffers[TableOf[r]], r) \in Nat
    BY <2>0, BufferCounts
  <2> CASE queue' = queue /\ accepted' = accepted
    BY <2>3, <2>4
  <2> CASE queue' = Append(queue, x) /\ accepted' = [accepted EXCEPT ![x] = @ + 1]
    <3>1. accepted'[r] = accepted[r] + IF x = r THEN 1 ELSE 0
      BY <2>1, <2>5
    <3> QED BY <2>2, <2>3, <2>4, <2>5, <3>1
  <2> QED BY <2>3
<1> QED BY <1>1, <1>2, <1>3 DEF RowAccounted

\* The thread moves the oldest row from the queue to the buffer of its table.
LEMMA TakeKeeps == BatcherInv /\ Take => BatcherInv'
<1> SUFFICES ASSUME BatcherInv, Take PROVE BatcherInv'
  OBVIOUS
<1> USE DEF BatcherInv
<1> DEFINE x == Head(queue)
           s == TableOf[x]
<1>1. /\ queue \in Seq(Row \union {Pill}) /\ queue # <<>> /\ x # Pill
      /\ buffers \in [Table -> Seq(Row)] /\ todo \subseteq Table
      /\ queue' = Tail(queue)
      /\ buffers' = [buffers EXCEPT ![s] = Append(@, x)]
      /\ UNCHANGED <<stopping, history>>
      /\ \/ thread' = "flush" /\ todo' = {s}
         \/ thread' = LoopOn /\ todo' = IF stopping THEN Filled \union {s} ELSE {}
  BY DEF Take, BatcherTypeOK
<1>2. x \in Row /\ s \in Table
  BY <1>1, BatcherAssumption
<1> HIDE DEF x, s
<1>3. /\ Append(buffers[s], x) \in Seq(Row) /\ Append(buffers[s], x) # <<>>
      /\ Len(Append(buffers[s], x)) = Len(buffers[s]) + 1
      /\ \A i \in 1..Len(buffers[s]) : Append(buffers[s], x)[i] = buffers[s][i]
      /\ Append(buffers[s], x)[Len(buffers[s]) + 1] = x
  <2>1. buffers[s] \in Seq(Row)
    BY <1>1, <1>2
  <2> QED BY <1>2, <2>1, AppendFacts
<1>4. BatcherTypeOK'
  <2>1. Tail(queue) \in Seq(Row \union {Pill}) /\ Len(Tail(queue)) <= Len(queue)
        /\ Len(queue) \in Nat /\ Len(Tail(queue)) \in Nat
    BY <1>1
  <2>2. Len(queue) <= QueueSize /\ QueueSize \in Nat
    BY BatcherAssumption DEF BatcherTypeOK
  <2>3. (queue \in Seq(Row \union {Pill}) /\ Len(queue) <= QueueSize)'
    BY <1>1, <2>1, <2>2
  <2>4. (buffers \in [Table -> Seq(Row)])'
    BY <1>1, <1>3
  <2>5. (todo \subseteq Table /\ thread \in {"none", "get", "flush", "last", "ended"})'
    BY <1>1, <1>2 DEF LoopOn, Filled
  <2> QED BY <1>1, <2>3, <2>4, <2>5 DEF BatcherTypeOK, history
<1>5. Sorted'
  <2> SUFFICES ASSUME NEW t \in Table, NEW i \in DOMAIN buffers'[t]
               PROVE  TableOf[buffers'[t][i]] = t
    BY DEF Sorted
  <2>1. CASE t # s
    BY <1>1, <2>1 DEF Sorted
  <2>2. CASE t = s
    <3>1. buffers'[t] = Append(buffers[s], x)
      BY <1>1, <2>2, <1>2
    <3>2. i \in 1..Len(buffers[s]) \/ i = Len(buffers[s]) + 1
      BY <1>1, <1>2, <1>3, <3>1
    <3>3. DOMAIN buffers[s] = 1..Len(buffers[s])
      BY <1>1, <1>2
    <3> QED BY <1>2, <1>3, <2>2, <3>1, <3>2, <3>3 DEF Sorted, s
  <2> QED BY <2>1, <2>2
<1>6. Filled' \subseteq Filled \union {s}
  BY <1>1 DEF Filled
<1>7. LastFlush' /\ (thread' = "ended" => Filled' = {})
  BY <1>1, <1>6 DEF LastFlush, LoopOn
<1>8. ASSUME NEW r \in Row
      PROVE  (accepted[r] = Rows(queue, r) + Rows(buffers[TableOf[r]], r)
                            + inserted[r] + lost[r])'
  <2> DEFINE one == IF x = r THEN 1 ELSE 0
             b == TableOf[r]
  <2>0. b \in Table
    BY BatcherAssumption
  <2>1. Rows(queue, r) = Rows(Tail(queue), r) + one
    BY <1>1, RowsTail DEF x
  <2>2. Rows(Append(buffers[s], x), r) = Rows(buffers[s], r) + one
    BY <1>1, <1>2, RowsAppend
  <2>3. buffers'[b] = IF b = s THEN Append(buffers[s], x) ELSE buffers[b]
    BY <1>1, <1>2, <2>0
  <2>4. b # s => one = 0
    BY DEF s
  <2>5. Rows(buffers[b], r) \in Nat /\ Rows(Tail(queue), r) \in Nat
    <3>1. Tail(queue) \in Seq(Row \union {Pill})
      BY <1>1
    <3> QED BY <2>0, <3>1, BufferCounts, RowsType
  <2>6. accepted[r] \in Nat /\ inserted[r] \in Nat /\ lost[r] \in Nat
    BY BufferCounts
  <2>7. accepted[r] = Rows(queue, r) + Rows(buffers[b], r) + inserted[r] + lost[r]
    BY DEF RowAccounted
  <2>8. Rows(buffers'[b], r) = Rows(buffers[b], r) + one
    <3> HIDE DEF one, b
    <3>1. CASE b = s
      BY <2>2, <2>3, <3>1
    <3>2. CASE b # s
      BY <2>3, <2>4, <2>5, <3>2
    <3> QED BY <3>1, <3>2
  <2>9. /\ queue' = Tail(queue) /\ accepted' = accepted
        /\ inserted' = inserted /\ lost' = lost
    BY <1>1 DEF history
  <2>10. one \in Nat
    OBVIOUS
  <2> HIDE DEF one
  <2> QED BY <2>1, <2>5, <2>6, <2>7, <2>8, <2>9, <2>10
<1> QED BY <1>4, <1>5, <1>7, <1>8 DEF RowAccounted

\* A flush that begins and one that ends move no row, nor does the pill.
LEMMA FlushKeeps ==
  BatcherInv /\ (Idle \/ TakePill \/ FlushDone) => BatcherInv'
<1> SUFFICES ASSUME BatcherInv, Idle \/ TakePill \/ FlushDone PROVE BatcherInv'
  OBVIOUS
<1> USE DEF BatcherInv
<1>1. /\ UNCHANGED <<buffers, stopping, history>>
      /\ queue' = queue \/ (queue # <<>> /\ Head(queue) = Pill /\ queue' = Tail(queue))
      /\ todo' \subseteq Table
      /\ thread' \in {"none", "get", "flush", "last", "ended"}
  BY DEF Idle, TakePill, FlushDone, FlushDue, Filled, LoopOn, BatcherTypeOK, threadVars
<1>2. /\ thread' = "last" => Filled \subseteq todo'
      /\ thread' = "ended" => Filled = {}
  BY DEF Idle, TakePill, FlushDone, FlushDue, LoopOn, LastFlush, RowAccounted, threadVars
<1>3. queue \in Seq(Row \union {Pill}) /\ Len(queue) <= QueueSize
  BY DEF BatcherTypeOK
<1>4. BatcherTypeOK'
  <2>1. queue # <<>> => Tail(queue) \in Seq(Row \union {Pill})
                        /\ Len(Tail(queue)) = Len(queue) - 1
                        /\ Len(queue) \in Nat
    BY <1>3, TailFacts
  <2>2. (queue \in Seq(Row \union {Pill}) /\ Len(queue) <= QueueSize)'
    <3>1. CASE queue' = queue
      BY <1>3, <3>1
    <3>2. CASE queue # <<>> /\ queue' = Tail(queue)
      <4>1. QueueSize \in Nat
        BY BatcherAssumption
      <4> QED BY <1>3, <2>1, <3>2, <4>1
    <3> QED BY <1>1, <3>1, <3>2
  <2> QED BY <1>1, <2>2 DEF BatcherTypeOK, history
<1>5. Sorted' /\ LastFlush' /\ (thread' = "ended" => Filled' = {})
  BY <1>1, <1>2 DEF Sorted, LastFlush, Filled
<1>6. \A r \in Row : Rows(queue', r) = Rows(queue, r)
  <2> SUFFICES ASSUME NEW r \in Row, queue # <<>>, Head(queue) = Pill
               PROVE  Rows(Tail(queue), r) = Rows(queue, r)
    BY <1>1
  <2>1. Pill # r
    BY BatcherAssumption DEF Pill
  <2>2. Rows(queue, r) = Rows(Tail(queue), r) + IF Head(queue) = r THEN 1 ELSE 0
    BY <1>3, RowsTail
  <2>3. Rows(Tail(queue), r) \in Nat
    <3>1. Tail(queue) \in Seq(Row \union {Pill})
      BY <1>3
    <3> QED BY <3>1, RowsType
  <2> QED BY <2>1, <2>2, <2>3
<1>7. RowAccounted'
  BY <1>1, <1>5, <1>6 DEF RowAccounted, history
<1> QED BY <1>4, <1>5, <1>7

\* An insert moves what the buffer holds to ClickHouse or gives it up, all of
\* it once.
LEMMA FlushTableKeeps ==
  ASSUME BatcherInv, NEW s \in Table, NEW stored \in BOOLEAN, FlushTable(s, stored)
  PROVE  BatcherInv'
<1> USE DEF BatcherInv
<1> DEFINE Add(f) == [r \in Row |-> f[r] + Rows(buffers[s], r)]
<1>1. /\ thread \in {"flush", "last"} /\ s \in todo
      /\ buffers \in [Table -> Seq(Row)]
      /\ buffers' = [buffers EXCEPT ![s] = <<>>] /\ todo' = todo \ {s}
      /\ \/ inserted' = Add(inserted) /\ lost' = lost
         \/ lost' = Add(lost) /\ inserted' = inserted
      /\ UNCHANGED <<queue, thread, stopping, accepted>>
  BY DEF FlushTable, Cleared, BatcherTypeOK
<1>2. inserted \in [Row -> Nat] /\ lost \in [Row -> Nat] /\ accepted \in [Row -> Nat]
  BY DEF BatcherTypeOK
<1>3. \A r \in Row : Rows(buffers[s], r) \in Nat
  BY BufferCounts
<1>4. inserted' \in [Row -> Nat] /\ lost' \in [Row -> Nat]
  <2>1. Add(inserted) \in [Row -> Nat] /\ Add(lost) \in [Row -> Nat]
    BY <1>2, <1>3
  <2> HIDE DEF Add
  <2> QED BY <1>1, <1>2, <2>1
<1>5. BatcherTypeOK'
  <2>1. (buffers \in [Table -> Seq(Row)])'
    <3>1. <<>> \in Seq(Row)
      OBVIOUS
    <3> QED BY <1>1, <3>1
  <2> QED BY <1>1, <1>4, <2>1 DEF BatcherTypeOK
<1>6. Sorted'
  BY <1>1 DEF Sorted
<1>7. Filled' \subseteq Filled \ {s}
  BY <1>1 DEF Filled
<1>8. LastFlush' /\ (thread' = "ended" => Filled' = {})
  BY <1>1, <1>7 DEF LastFlush
<1>9. ASSUME NEW r \in Row
      PROVE  (accepted[r] = Rows(queue, r) + Rows(buffers[TableOf[r]], r)
                            + inserted[r] + lost[r])'
  <2> DEFINE b == TableOf[r]
             n == Rows(buffers[s], r)
  <2>0. b \in Table
    BY BatcherAssumption
  <2>1. /\ accepted[r] \in Nat /\ inserted[r] \in Nat /\ lost[r] \in Nat /\ n \in Nat
        /\ Rows(buffers[b], r) \in Nat /\ Rows(queue, r) \in Nat
    BY <2>0, BufferCounts
  <2>2. accepted[r] = Rows(queue, r) + Rows(buffers[b], r) + inserted[r] + lost[r]
    BY DEF RowAccounted
  <2>3. \/ inserted'[r] = inserted[r] + n /\ lost'[r] = lost[r]
        \/ lost'[r] = lost[r] + n /\ inserted'[r] = inserted[r]
    BY <1>1
  <2>4. Rows(buffers'[b], r) = Rows(buffers[b], r) - n
    <3>1. CASE b = s
      <4>1. buffers'[b] = <<>>
        BY <1>1, <3>1
      <4>2. n = Rows(buffers[b], r)
        BY <3>1
      <4> HIDE DEF n, b
      <4> QED BY <2>1, <4>1, <4>2, RowsEmpty
    <3>2. CASE b # s
      <4>1. buffers'[b] = buffers[b]
        BY <1>1, <2>0, <3>2
      <4>2. n = 0
        BY <3>2, OtherTable
      <4> HIDE DEF n, b
      <4> QED BY <2>1, <4>1, <4>2
    <3> QED BY <3>1, <3>2
  <2>5. queue' = queue /\ accepted' = accepted
    BY <1>1
  <2> HIDE DEF n, b
  <2>6. /\ Rows(queue', r) = Rows(queue, r) /\ accepted'[r] = accepted[r]
    BY <2>5
  <2>7. Rows(buffers'[b], r) \in Nat
    <3>1. (buffers \in [Table -> Seq(Row)])'
      BY <1>5 DEF BatcherTypeOK
    <3> QED BY <2>0, <3>1, RowsType
  <2>8. accepted'[r] = Rows(queue', r) + Rows(buffers'[b], r) + inserted'[r] + lost'[r]
    BY <2>1, <2>2, <2>3, <2>4, <2>6
  <2> QED BY <2>8 DEF b
<1> QED BY <1>5, <1>6, <1>8, <1>9 DEF RowAccounted

\* The pill that stop() adds is no row.
LEMMA StopKeeps == BatcherInv /\ Stop => BatcherInv'
<1> SUFFICES ASSUME BatcherInv, Stop PROVE BatcherInv'
  OBVIOUS
<1> USE DEF BatcherInv
<1>1. /\ UNCHANGED <<buffers, thread, todo, history>> /\ stopping' = TRUE
      /\ \/ queue' = queue
         \/ Len(queue) < QueueSize /\ queue' = Append(queue, Pill)
  BY DEF Stop, Fits, threadVars
<1>2. queue \in Seq(Row \union {Pill}) /\ Len(queue) <= QueueSize
      /\ QueueSize \in Nat /\ Len(queue) \in Nat
  BY BatcherAssumption DEF BatcherTypeOK
<1>3. Append(queue, Pill) \in Seq(Row \union {Pill})
      /\ Len(Append(queue, Pill)) = Len(queue) + 1
  BY <1>2, AppendFacts
<1>4. BatcherTypeOK'
  <2>1. (queue \in Seq(Row \union {Pill}) /\ Len(queue) <= QueueSize)'
    BY <1>1, <1>2, <1>3
  <2> QED BY <1>1, <2>1 DEF BatcherTypeOK, history
<1>5. Sorted' /\ LastFlush' /\ (thread' = "ended" => Filled' = {})
  BY <1>1 DEF Sorted, LastFlush, RowAccounted, Filled
<1>6. \A r \in Row : Rows(queue', r) = Rows(queue, r)
  <2> SUFFICES ASSUME NEW r \in Row PROVE Rows(Append(queue, Pill), r) = Rows(queue, r)
    BY <1>1
  <2>1. Rows(Append(queue, Pill), r) = Rows(queue, r) + IF Pill = r THEN 1 ELSE 0
    BY <1>2, RowsAppend
  <2>2. Pill # r
    BY BatcherAssumption DEF Pill
  <2> QED BY <2>1, <2>2, BufferCounts
<1>7. RowAccounted'
  BY <1>1, <1>5, <1>6 DEF RowAccounted, history
<1> QED BY <1>4, <1>5, <1>7

\* What the process held when it ended is lost, and only that.
LEMMA GoneKeeps == BatcherInv /\ Gone => BatcherInv'
<1> SUFFICES ASSUME BatcherInv, Gone PROVE BatcherInv'
  OBVIOUS
<1> USE DEF BatcherInv
<1>1. /\ lost' = [r \in Row |-> accepted[r] - inserted[r]]
      /\ queue' = <<>> /\ buffers' = [t \in Table |-> <<>>]
      /\ thread' = "none" /\ todo' = {} /\ stopping' = FALSE
      /\ accepted' = accepted /\ inserted' = inserted
  BY DEF Gone, NoBuffers
<1>2. ASSUME NEW r \in Row
      PROVE  /\ accepted[r] - inserted[r] \in Nat /\ lost'[r] >= lost[r]
             /\ accepted[r] \in Nat /\ inserted[r] \in Nat
             /\ inserted[r] + lost'[r] = accepted[r]
  <2>1. accepted[r] = Rows(queue, r) + Rows(buffers[TableOf[r]], r) + inserted[r] + lost[r]
    BY DEF RowAccounted
  <2>2. TableOf[r] \in Table
    BY BatcherAssumption
  <2>3. /\ accepted[r] \in Nat /\ inserted[r] \in Nat /\ lost[r] \in Nat
        /\ Rows(buffers[TableOf[r]], r) \in Nat /\ Rows(queue, r) \in Nat
    BY <2>2, BufferCounts
  <2>4. lost'[r] = accepted[r] - inserted[r]
    BY <1>1
  <2> QED BY <2>1, <2>3, <2>4
<1>3. (accepted \in [Row -> Nat] /\ inserted \in [Row -> Nat] /\ lost \in [Row -> Nat])'
  BY <1>1, <1>2 DEF BatcherTypeOK
<1>4. BatcherTypeOK'
  <2>1. <<>> \in Seq(Row) /\ <<>> \in Seq(Row \union {Pill}) /\ Len(<<>>) = 0
    OBVIOUS
  <2>2. (buffers \in [Table -> Seq(Row)])'
    BY <1>1, <2>1
  <2>3. (queue \in Seq(Row \union {Pill}) /\ Len(queue) <= QueueSize)'
    BY <1>1, <2>1, BatcherAssumption
  <2> QED BY <1>1, <1>3, <2>2, <2>3 DEF BatcherTypeOK
<1>5. Sorted' /\ LastFlush' /\ Filled' = {}
  BY <1>1 DEF Sorted, LastFlush, Filled
<1>6. ASSUME NEW r \in Row
      PROVE  (accepted[r] = Rows(queue, r) + Rows(buffers[TableOf[r]], r)
                            + inserted[r] + lost[r])'
  <2>1. Rows(queue', r) = 0 /\ Rows(buffers'[TableOf[r]], r) = 0
    BY <1>1, RowsEmpty, BatcherAssumption
  <2>2. lost'[r] = accepted[r] - inserted[r]
    BY <1>1
  <2> QED BY <1>1, <1>2, <2>1, <2>2
<1> QED BY <1>4, <1>5, <1>6 DEF RowAccounted

-----------------------------------------------------------------------------
(* The batcher as a sink.                                                  *)

\* The queue and the buffers hold what they should.
LEMMA WaitTypes ==
  ASSUME BatcherTypeOK
  PROVE  /\ queue \in Queued
         /\ \A t \in Table : buffers[t] \in Seq(Row) /\ OfTable(t, queue) \in Seq(Row)
<1>1. queue \in Queued /\ Pill \in Item
  BY DEF BatcherTypeOK, Queued, Item
<1>2. \A t : OfTable(t, queue) \in Seq(Row)
  BY <1>1, OfTableAppend
<1> QED BY <1>1, <1>2 DEF BatcherTypeOK

\* A row that is handed over waits behind the others of its table.
LEMMA EnqueueAccepts ==
  ASSUME BatcherTypeOK, NEW x \in Row, Enqueue(x)
  PROVE  Sink!Accept(x) \/ UNCHANGED Sink!vars
<1>1. CASE queue' = queue /\ accepted' = accepted
  <2>1. Waiting' = Waiting
    BY <1>1 DEF Enqueue, Waiting
  <2> QED BY <1>1, <2>1 DEF Enqueue, Sink!vars
<1>2. CASE queue' = Append(queue, x) /\ accepted' = [accepted EXCEPT ![x] = @ + 1]
  <2>1. x \in Item /\ x # Pill /\ TableOf[x] \in Table
    BY BatcherAssumption DEF Item, Pill
  <2>2. ASSUME NEW t \in Table
        PROVE  buffers[t] \o OfTable(t, queue') =
                 IF t = TableOf[x] THEN Append(buffers[t] \o OfTable(t, queue), x)
                 ELSE buffers[t] \o OfTable(t, queue)
    <3>1. OfTable(t, queue') =
            IF t = TableOf[x] THEN Append(OfTable(t, queue), x) ELSE OfTable(t, queue)
      <4>1. queue \in Queued
        BY WaitTypes
      <4> QED BY <1>2, <2>1, <4>1, OfTableAppend DEF Ours
    <3>2. buffers[t] \o Append(OfTable(t, queue), x) =
            Append(buffers[t] \o OfTable(t, queue), x)
      <4>1. buffers[t] \in Seq(Row) /\ OfTable(t, queue) \in Seq(Row)
        BY WaitTypes
      <4> QED BY <4>1, RowsConcat
    <3> QED BY <3>1, <3>2
  <2>3. Waiting' = [Waiting EXCEPT ![TableOf[x]] = Append(@, x)]
    <3>1. buffers' = buffers
      BY DEF Enqueue
    <3>2. Waiting' = [t \in Table |-> buffers[t] \o OfTable(t, queue')]
      BY <3>1 DEF Waiting
    <3>3. Waiting = [t \in Table |-> buffers[t] \o OfTable(t, queue)]
      BY DEF Waiting
    <3> HIDE DEF Waiting
    <3> QED BY <2>1, <2>2, <3>2, <3>3
  <2> QED BY <1>2, <2>3 DEF Enqueue, Sink!Accept
<1> QED BY <1>1, <1>2 DEF Enqueue

\* The row that leaves the queue comes behind those of its table that left
\* before it, and ahead of those that have not.
LEMMA TakeWaits ==
  ASSUME BatcherTypeOK, Take
  PROVE  UNCHANGED Sink!vars
<1> DEFINE x == Head(queue)
           s == TableOf[x]
<1>1. /\ queue \in Queued /\ queue # <<>> /\ x # Pill /\ queue' = Tail(queue)
      /\ buffers \in [Table -> Seq(Row)]
      /\ buffers' = [buffers EXCEPT ![s] = Append(@, x)]
      /\ UNCHANGED <<accepted, inserted, lost>>
  BY WaitTypes DEF Take, BatcherTypeOK, history
<1>2. x \in Row /\ s \in Table /\ Tail(queue) \in Queued
  BY <1>1, BatcherAssumption DEF Queued, Item
<1> HIDE DEF x, s
<1>3. ASSUME NEW t \in Table
      PROVE  buffers'[t] \o OfTable(t, Tail(queue)) = buffers[t] \o OfTable(t, queue)
  <2>1. OfTable(t, Tail(queue)) \in Seq(Row) /\ buffers[t] \in Seq(Row)
    <3>1. Pill \in Item
      BY DEF Item
    <3> QED BY <1>1, <1>2, <3>1, OfTableAppend
  <2>2. OfTable(t, queue) =
          (IF Ours(t, x) THEN <<x>> ELSE <<>>) \o OfTable(t, Tail(queue))
    BY <1>1, OfTableTail DEF x
  <2>3. CASE t = s
    <3>1. OfTable(t, queue) = <<x>> \o OfTable(t, Tail(queue))
      BY <1>1, <2>2, <2>3 DEF Ours, s
    <3>2. buffers'[t] = Append(buffers[t], x)
      BY <1>1, <2>3
    <3>3. buffers'[t] = buffers[t] \o <<x>> /\ <<x>> \in Seq(Row)
      BY <1>2, <2>1, <3>2, AppendIsConcat
    <3>4. ASSUME NEW a \in Seq(Row), NEW m \in Seq(Row), NEW z \in Seq(Row)
          PROVE  (a \o m) \o z = a \o (m \o z)
      BY ConcatAssociative
    <3>5. (buffers[t] \o <<x>>) \o OfTable(t, Tail(queue)) =
            buffers[t] \o (<<x>> \o OfTable(t, Tail(queue)))
      BY <2>1, <3>3, <3>4
    <3> QED BY <3>1, <3>3, <3>5
  <2>4. CASE t # s
    <3>1. OfTable(t, queue) = <<>> \o OfTable(t, Tail(queue))
      BY <2>2, <2>4 DEF Ours, s
    <3>2. buffers'[t] = buffers[t]
      BY <1>1, <2>4
    <3> QED BY <2>1, <3>1, <3>2, ConcatEmptySeq
  <2> QED BY <2>3, <2>4
<1>4. Waiting' = Waiting
  BY <1>1, <1>3 DEF Waiting
<1> QED BY <1>1, <1>4 DEF Sink!vars

\* A pill that comes or goes concerns no row.
LEMMA PillWaits ==
  ASSUME BatcherTypeOK, UNCHANGED <<buffers, history>>,
         \/ queue' = queue
         \/ queue # <<>> /\ Head(queue) = Pill /\ queue' = Tail(queue)
         \/ queue' = Append(queue, Pill)
  PROVE  UNCHANGED Sink!vars
<1>1. queue \in Queued /\ Pill \in Item /\ \A t : ~Ours(t, Pill)
  BY WaitTypes DEF Item, Ours
<1>2. \A t : OfTable(t, Append(queue, Pill)) = OfTable(t, queue)
  BY <1>1, OfTableAppend
<1>3. ASSUME queue # <<>>, Head(queue) = Pill, NEW t
      PROVE  OfTable(t, Tail(queue)) = OfTable(t, queue)
  <2>1. Tail(queue) \in Queued
    BY <1>1, <1>3 DEF Queued
  <2>2. OfTable(t, Tail(queue)) \in Seq(Row)
    BY <1>1, <2>1, OfTableAppend
  <2>3. OfTable(t, queue) = <<>> \o OfTable(t, Tail(queue))
    BY <1>1, <1>3, OfTableTail
  <2> QED BY <2>2, <2>3, ConcatEmptySeq
<1>4. \A t : OfTable(t, queue') = OfTable(t, queue)
  BY <1>2, <1>3
<1>5. Waiting' = Waiting
  BY <1>4 DEF Waiting
<1> QED BY <1>5 DEF Sink!vars, history

\* An insert settles what the buffer holds, the oldest that wait.
LEMMA FlushTableSettles ==
  ASSUME BatcherTypeOK, NEW s \in Table, NEW stored \in BOOLEAN, FlushTable(s, stored)
  PROVE  \E n \in 0 .. Len(Waiting[s]) : Sink!Settle(s, n, stored)
<1> DEFINE b == buffers[s]
           rest == OfTable(s, queue)
           n == Len(b)
<1>1. b \in Seq(Row) /\ rest \in Seq(Row) /\ n \in Nat
  BY WaitTypes
<1>2. Waiting[s] = b \o rest
  BY DEF Waiting
<1>3. Len(Waiting[s]) = n + Len(rest) /\ n \in 0 .. Len(Waiting[s])
  BY <1>1, <1>2
<1>4. SubSeq(Waiting[s], 1, n) = b /\ SubSeq(Waiting[s], n + 1, Len(Waiting[s])) = rest
  BY <1>1, <1>2, <1>3, Halves
<1>5. \A r : Sink!Copies(b, r) = Rows(b, r)
  <2> HIDE DEF b
  <2> QED BY DEF Sink!Copies, Rows, Sink!Cardinality, Cardinality
<1>6. Waiting' = [Waiting EXCEPT ![s] = rest]
  <2>1. queue' = queue /\ buffers' = [buffers EXCEPT ![s] = <<>>]
        /\ buffers \in [Table -> Seq(Row)]
    BY DEF FlushTable, Cleared, BatcherTypeOK
  <2>2. ASSUME NEW t \in Table
        PROVE  buffers'[t] \o OfTable(t, queue') =
                 IF t = s THEN rest ELSE buffers[t] \o OfTable(t, queue)
    <3>1. CASE t = s
      <4>1. buffers'[t] = <<>> /\ OfTable(t, queue') = rest
        BY <2>1, <3>1
      <4> QED BY <1>1, <3>1, <4>1, ConcatEmptySeq
    <3>2. CASE t # s
      BY <2>1, <3>2
    <3> QED BY <3>1, <3>2
  <2>3. Waiting' = [t \in Table |-> buffers'[t] \o OfTable(t, queue')]
    BY DEF Waiting
  <2>4. Waiting = [t \in Table |-> buffers[t] \o OfTable(t, queue)]
    BY DEF Waiting
  <2> HIDE DEF Waiting, rest
  <2> QED BY <2>2, <2>3, <2>4
<1>7. /\ \/ /\ stored /\ lost' = lost
            /\ inserted' = [r \in Row |-> inserted[r] + Rows(b, r)]
         \/ /\ ~stored /\ inserted' = inserted
            /\ lost' = [r \in Row |-> lost[r] + Rows(b, r)]
      /\ accepted' = accepted
  BY DEF FlushTable
<1>8. /\ stored => inserted' = [r \in Row |-> inserted[r] + Sink!Copies(b, r)]
                   /\ lost' = lost
      /\ ~stored => lost' = [r \in Row |-> lost[r] + Sink!Copies(b, r)]
                    /\ inserted' = inserted
  BY <1>5, <1>7
<1> HIDE DEF b, rest, n, Waiting
<1>9. n <= Len(Waiting[s])
  BY <1>3
<1>10. Sink!Settle(s, n, stored)
  BY <1>4, <1>6, <1>7, <1>8, <1>9 DEF Sink!Settle
<1> QED BY <1>3, <1>10

\* The end of the process settles all that wait.
LEMMA GoneGivesUp ==
  ASSUME Gone
  PROVE  Sink!GiveUp
<1>1. queue' = <<>> /\ buffers' = [t \in Table |-> <<>>]
  BY DEF Gone, NoBuffers
<1>2. <<>> \o <<>> = <<>>
  OBVIOUS
<1>3. Waiting' = [t \in Table |-> <<>>]
  BY <1>1, <1>2, OfTableEmpty DEF Waiting
<1> QED BY <1>3 DEF Gone, Sink!GiveUp, Sink!Nothing

-----------------------------------------------------------------------------
(* The handlers.                                                           *)

\* The fields of a transaction at each of its stages.
LEMMA Stages ==
  ASSUME TypeOK, NEW w \in Worker
  PROVE  /\ work[w].at \in {"idle", "retry", "insert", "open"}
         /\ work[w].at = "idle" <=> work[w] = Idling
         /\ work[w].at # "idle" => work[w].msg \in Row
         /\ work[w].at \in {"insert", "open"} =>
              work[w].attempt \in {1, 2} /\ work[w].makes \in Market \union {Pill}
         /\ work[w].at = "open" => work[w].wrote \in BOOLEAN /\ work[w].sent \in BOOLEAN
<1>1. work[w] \in Transaction
  BY DEF TypeOK
<1> QED BY <1>1 DEF Transaction, Idling

\* A message is a trade or a book message.
LEMMA Messages ==
  /\ \A x \in Row : x \in Trade <=> x \notin Book
  /\ \A x \in Row : MarketOf[x] \in Market
  /\ Trade \subseteq Row /\ Book \subseteq Row
BY TapeAssumption

\* What the invariants of the handlers read.
tapeState == <<backend, known, tape, tradeCount, charted, work, delivered, finished,
               undone, dropped, accepted>>
HandlerInv ==
  /\ IsFiniteSet(tape)
  /\ OpenAlone /\ WroteNew /\ TradeCountedOnce /\ BookOnce /\ Offers
  /\ MarketMade /\ SeenMarketsKnown

\* Steps that leave all of that alone.
LEMMA Unmoved == HandlerInv /\ UNCHANGED tapeState => HandlerInv'
BY DEF HandlerInv, tapeState, OpenAlone, WroteNew, TradeCountedOnce, BookOnce, Offers,
       MarketMade, SeenMarketsKnown, Opened, Busy, WriteRawPostgres

\* A worker that begins: what TradeBegin and BookBegin have in common.
Begins(w, x, keep) ==
  /\ work[w] = Idling \/ (work[w].at = "retry" /\ work[w].msg = x)
  /\ work[w] = Idling => delivered[x] < MaxDeliver[x]
  /\ Delivered(w, x)
  /\ UNCHANGED <<backend, tape, tradeCount, charted, undone, dropped, accepted>>
  /\ IF keep
     THEN \E p \in Market \union {Pill} :
            /\ work' = [work EXCEPT ![w] =
                         [at |-> "insert", msg |-> x, attempt |-> Attempt(w), makes |-> p]]
            /\ x \in Trade => MarketOf[x] \in known \/ p = MarketOf[x]
            /\ known' = known /\ finished' = finished
     ELSE /\ work' = [work EXCEPT ![w] = Idling]
          /\ known \subseteq known'
          /\ \/ finished' = finished
             \/ finished' = finished \union {x}
                /\ (~InScope(Class[MarketOf[x]]) \/ MarketOf[x] \in known')

\* A trade begins a transaction of one of two kinds.
LEMMA TradeBegins ==
  ASSUME NEW w \in Worker, NEW t \in Trade, TradeBegin(w, t)
  PROVE  \E keep \in BOOLEAN : Begins(w, t, keep)
<1> DEFINE m == MarketOf[t]
           d == MarketDecision(m)
           kept == d.raw /\ SampleEvent(t, d.rate, Hashed)
<1>0. t \in Row /\ m \in Market
  BY Messages
<1>1. /\ Deliverable(w, t) /\ Delivered(w, t)
      /\ UNCHANGED <<batcherVars, backend, metric, alerts, flags, tape, tradeCount,
                     charted, undone, dropped, upsets>>
  BY DEF TradeBegin
<1>2. /\ work[w] = Idling \/ (work[w].at = "retry" /\ work[w].msg = t)
      /\ work[w] = Idling => delivered[t] < MaxDeliver[t]
  BY <1>1 DEF Deliverable, Idling
<1>3. CASE m \notin known /\ ~InScope(Class[m])
  <2>1. Skip(w) /\ finished' = finished \union {t} /\ known' = known
    BY <1>3 DEF TradeBegin
  <2>2. Begins(w, t, FALSE)
    BY <1>1, <1>2, <1>3, <2>1 DEF Begins, Skip, batcherVars
  <2> QED BY <2>2
<1>4. CASE ~ (m \notin known /\ ~InScope(Class[m])) /\ kept
  <2>1. /\ work' = [work EXCEPT ![w] =
             [at |-> "insert", msg |-> t, attempt |-> Attempt(w),
              makes |-> IF m \in known THEN Pill ELSE m]]
        /\ known' = known /\ finished' = finished
    BY <1>4 DEF TradeBegin
  <2>2. Begins(w, t, TRUE)
    BY <1>0, <1>1, <1>2, <2>1 DEF Begins, batcherVars
  <2> QED BY <2>2
<1>5. CASE ~ (m \notin known /\ ~InScope(Class[m])) /\ ~kept
  <2>1. Skip(w) /\ finished' = finished \union {t} /\ known' = known \union {m}
    BY <1>5 DEF TradeBegin, KnownAfterDrop
  <2>2. Begins(w, t, FALSE)
    BY <1>1, <1>2, <2>1 DEF Begins, Skip, batcherVars
  <2> QED BY <2>2
<1> QED BY <1>3, <1>4, <1>5

\* So does a book event.
LEMMA BookBegins ==
  ASSUME NEW w \in Worker, NEW b \in Book, BookBegin(w, b)
  PROVE  \E keep \in BOOLEAN : Begins(w, b, keep)
<1> DEFINE m == MarketOf[b]
           d == MarketDecision(m)
           kept == d.raw /\ SampleEvent(b, d.rate, Hashed)
<1>0. b \in Row /\ b \notin Trade
  BY Messages
<1>1. /\ Deliverable(w, b) /\ Delivered(w, b)
      /\ UNCHANGED <<batcherVars, backend, dbVars, finished, undone, dropped, upsets>>
  BY DEF BookBegin
<1>2. /\ work[w] = Idling \/ (work[w].at = "retry" /\ work[w].msg = b)
      /\ work[w] = Idling => delivered[b] < MaxDeliver[b]
  BY <1>1 DEF Deliverable, Idling
<1>3. CASE m \in known /\ kept
  <2>1. work' = [work EXCEPT ![w] =
          [at |-> "insert", msg |-> b, attempt |-> Attempt(w), makes |-> Pill]]
    BY <1>3 DEF BookBegin
  <2>2. Begins(w, b, TRUE)
    BY <1>0, <1>1, <1>2, <2>1 DEF Begins, batcherVars, dbVars
  <2> QED BY <2>2
<1>4. CASE ~ (m \in known /\ kept)
  <2>1. Skip(w)
    BY <1>4 DEF BookBegin
  <2>2. Begins(w, b, FALSE)
    BY <1>1, <1>2, <2>1 DEF Begins, Skip, batcherVars, dbVars
  <2> QED BY <2>2
<1> QED BY <1>3, <1>4

\* A worker that begins has nothing open, before or after.
LEMMA BeginKeeps ==
  ASSUME TypeOK, HandlerInv, NEW w \in Worker, NEW x \in Row, NEW keep \in BOOLEAN,
         Begins(w, x, keep)
  PROVE  HandlerInv'
<1> USE DEF HandlerInv
<1>0. work \in [Worker -> Transaction] /\ delivered \in [Row -> Nat]
  BY DEF TypeOK
<1>1. work[w].at \in {"idle", "retry"} /\ (work[w].at = "retry" => work[w].msg = x)
  BY Stages DEF Begins, Idling
<1>2. /\ \A v \in Worker : v # w => work'[v] = work[v]
      /\ work'[w].at \in {"idle", "insert"}
      /\ work'[w].at = "insert" => work'[w].msg = x
  BY <1>0 DEF Begins, Idling
<1>3. /\ UNCHANGED <<backend, tape, tradeCount, charted, undone, dropped, accepted>>
      /\ known \subseteq known' /\ (WriteRawPostgres' <=> WriteRawPostgres)
  BY DEF Begins, WriteRawPostgres
<1>4. \A v \in Worker, y \in Row : Opened(v, y)' <=> Opened(v, y)
  BY <1>1, <1>2 DEF Opened
<1>5. \A v \in Worker, y \in Row : Opened(v, y) => work'[v] = work[v]
  BY <1>1, <1>2 DEF Opened
<1>6. OpenAlone'
  BY <1>3, <1>4 DEF OpenAlone
<1>7. WroteNew'
  BY <1>3, <1>4, <1>5, Messages DEF WroteNew
<1>8. TradeCountedOnce'
  BY <1>3 DEF TradeCountedOnce
<1>9. Offers'
  <2>1. \A y \in Row : (\E v \in Worker : Opened(v, y))' <=> \E v \in Worker : Opened(v, y)
    BY <1>4
  <2>2. \A y \in Row : (\E v \in Worker : Opened(v, y) /\ work[v].sent)'
                       <=> \E v \in Worker : Opened(v, y) /\ work[v].sent
    BY <1>4, <1>5
  <2> QED BY <1>3, <2>1, <2>2 DEF Offers
<1>10. MarketMade'
  <2> SUFFICES ASSUME NEW v \in Worker, work'[v].at \in {"insert", "open"},
                      work'[v].msg \in Trade
               PROVE  MarketOf[work'[v].msg] \in known' \union {work'[v].makes}
    BY DEF MarketMade
  <2>1. CASE v # w
    BY <1>2, <1>3, <2>1 DEF MarketMade
  <2>2. CASE v = w
    <3>1. keep
      BY <1>0, <2>2 DEF Begins, Idling
    <3> QED BY <1>0, <1>3, <2>2, <3>1 DEF Begins
  <2> QED BY <2>1, <2>2
<1>11. SeenMarketsKnown'
  <2>1. \A t \in finished' : t \in finished \/ (t = x /\ (~InScope(Class[MarketOf[x]])
                                                         \/ MarketOf[x] \in known'))
    BY DEF Begins
  <2> QED BY <1>3, <2>1 DEF SeenMarketsKnown
<1>12. BookOnce'
  <2> SUFFICES ASSUME NEW b \in Book
        PROVE /\ delivered'[b] <= 1
              /\ b \in tape' => delivered'[b] = 1 /\ \A v \in Busy' : work'[v].msg # b
              /\ \A v \in Busy' : work'[v].msg = b => delivered'[b] = 1
              /\ \A u, v \in Busy' : work'[u].msg = b /\ work'[v].msg = b => u = v
    BY DEF BookOnce
  <2>0. /\ b \in Row /\ delivered[b] \in Nat /\ MaxDeliver[b] <= 1 /\ MaxDeliver[b] \in Nat
    BY <1>0, Messages, TapeAssumption
  <2>1. /\ delivered[b] <= 1
        /\ b \in tape => delivered[b] = 1 /\ \A v \in Busy : work[v].msg # b
        /\ \A v \in Busy : work[v].msg = b => delivered[b] = 1
        /\ \A u, v \in Busy : work[u].msg = b /\ work[v].msg = b => u = v
    BY DEF BookOnce
  <2>2. \A v \in Busy' : v # w => v \in Busy /\ work'[v].msg = work[v].msg
    BY <1>2 DEF Busy
  <2>3. w \in Busy' => work'[w].msg = x
    BY <1>2 DEF Busy
  <2>4. CASE b # x
    <3>1. delivered'[b] = delivered[b]
      BY <1>0, <2>0, <2>4 DEF Begins, Delivered
    <3> QED BY <1>3, <2>1, <2>2, <2>3, <2>4, <3>1
  <2>5. CASE b = x /\ work[w] = Idling
    <3>1. delivered[b] = 0 /\ delivered'[b] = 1
      BY <1>0, <2>0, <2>5 DEF Begins, Delivered
    <3>2. b \notin tape /\ \A v \in Busy : work[v].msg # b
      BY <2>1, <3>1
    <3> QED BY <1>3, <2>2, <2>3, <3>1, <3>2
  <2>6. CASE b = x /\ work[w].at = "retry"
    <3>1. delivered'[b] = delivered[b] /\ w \in Busy /\ work[w].msg = b
      BY <1>1, <2>6 DEF Begins, Delivered, Busy, Idling
    <3> QED BY <1>3, <2>1, <2>2, <2>3, <2>6, <3>1
  <2> QED BY <1>1, <2>4, <2>5, <2>6, Stages
<1> QED BY <1>3, <1>6, <1>7, <1>8, <1>9, <1>10, <1>11, <1>12

\* The insert: another transaction with the same key is over.
LEMMA InsertKeeps ==
  ASSUME TypeOK, HandlerInv, NEW w \in Worker, Insert(w)
  PROVE  HandlerInv'
<1> USE DEF HandlerInv
<1> DEFINE x == work[w].msg
           new == WriteRawPostgres /\ x \notin tape
           send == Sends(x, new)
<1>0. /\ work \in [Worker -> Transaction] /\ accepted \in [Row -> Nat]
      /\ dropped \in [Row -> Nat] /\ undone \in [Row -> Nat]
      /\ backend \in Backends
  BY DEF TypeOK, BatcherTypeOK
<1>1. /\ work[w].at = "insert"
      /\ WriteRawPostgres => \A v \in Busy : work[v].at = "open" => work[v].msg # x
      /\ IF send THEN HandOver(x) ELSE NoHandOver
      /\ work' = [work EXCEPT ![w] =
           [at |-> "open", msg |-> x, attempt |-> work[w].attempt, makes |-> work[w].makes,
            wrote |-> Wrote(x, new, send), sent |-> send /\ Fits]]
      /\ UNCHANGED <<backend, dbVars, hint, delivered, finished, undone, upsets>>
  BY DEF Insert
<1>2. x \in Row
  BY <1>1, Stages
<1>3. /\ \A v \in Worker : v # w => work'[v] = work[v]
      /\ work'[w].at = "open" /\ work'[w].msg = x /\ work'[w].makes = work[w].makes
      /\ work'[w].wrote = Wrote(x, new, send) /\ work'[w].sent = (send /\ Fits)
  BY <1>0, <1>1
<1>4. /\ UNCHANGED <<backend, tape, known, tradeCount, charted, undone, delivered, finished>>
      /\ (WriteRawPostgres' <=> WriteRawPostgres)
  BY <1>1 DEF dbVars, WriteRawPostgres
<1>5. /\ ~Opened(w, x) /\ Opened(w, x)'
      /\ \A y \in Row : ~Opened(w, y) /\ (Opened(w, y)' <=> y = x)
      /\ \A v \in Worker, y \in Row : v # w => (Opened(v, y)' <=> Opened(v, y))
  BY <1>1, <1>3 DEF Opened
<1>6. WriteRawPostgres => \A v \in Worker : ~Opened(v, x)
  BY <1>1 DEF Opened, Busy
<1>7. \/ send /\ Fits /\ accepted' = [accepted EXCEPT ![x] = @ + 1] /\ dropped' = dropped
      \/ send /\ ~Fits /\ accepted' = accepted /\ dropped' = [dropped EXCEPT ![x] = @ + 1]
      \/ ~send /\ accepted' = accepted /\ dropped' = dropped
  BY <1>1 DEF HandOver, NoHandOver, Enqueue, batcherVars
<1>8. OpenAlone'
  BY <1>4, <1>5, <1>6 DEF OpenAlone
<1>9. WroteNew'
  <2>1. WriteRawPostgres /\ x \in Trade => (Wrote(x, new, send) <=> x \notin tape)
    BY <1>2, Messages DEF Wrote, Sends
  <2>2. \A t \in Trade : t \in Row
    BY Messages
  <2> QED BY <1>3, <1>4, <1>5, <2>1, <2>2 DEF WroteNew
<1>10. TradeCountedOnce'
  BY <1>4 DEF TradeCountedOnce
<1>11. MarketMade'
  <2> SUFFICES ASSUME NEW v \in Worker, work'[v].at \in {"insert", "open"},
                      work'[v].msg \in Trade
               PROVE  MarketOf[work'[v].msg] \in known' \union {work'[v].makes}
    BY DEF MarketMade
  <2> QED BY <1>1, <1>3, <1>4 DEF MarketMade
<1>12. SeenMarketsKnown'
  BY <1>4 DEF SeenMarketsKnown
<1>13. BookOnce'
  <2>1. Busy' = Busy /\ \A v \in Busy : work'[v].msg = work[v].msg
    BY <1>1, <1>3 DEF Busy
  <2> QED BY <1>4, <2>1 DEF BookOnce
<1>14. Offers'
  <2> SUFFICES ASSUME backend = "dual", NEW y \in Row
        PROVE /\ y \in tape \/ (\E v \in Worker : Opened(v, y)') =>
                   accepted'[y] + dropped'[y] > 0
              /\ accepted'[y] <= undone[y] +
                   IF y \in tape \/ \E v \in Worker : Opened(v, y)' /\ work'[v].sent
                   THEN 1 ELSE 0
    BY <1>4 DEF Offers
  <2>0. /\ accepted[y] \in Nat /\ dropped[y] \in Nat /\ undone[y] \in Nat
        /\ WriteRawPostgres /\ WriteRawClickhouse
    BY <1>0 DEF WriteRawPostgres, WriteRawClickhouse
  <2>1. /\ y \in tape \/ (\E v \in Worker : Opened(v, y)) => accepted[y] + dropped[y] > 0
        /\ accepted[y] <= undone[y] +
             IF y \in tape \/ \E v \in Worker : Opened(v, y) /\ work[v].sent THEN 1 ELSE 0
    BY DEF Offers
  <2>2. CASE y # x
    <3>1. accepted'[y] = accepted[y] /\ dropped'[y] = dropped[y]
      BY <1>0, <1>7, <2>2
    <3>2. \A v \in Worker : /\ Opened(v, y)' <=> Opened(v, y)
                            /\ Opened(v, y) => work'[v].sent = work[v].sent
      BY <1>3, <1>5, <2>2
    <3> QED BY <2>1, <3>1, <3>2
  <2>3. CASE y = x
    <3>1. send <=> (x \in Book \/ x \notin tape)
      BY <2>0 DEF Sends
    <3>2. x \in Book => x \notin tape
      BY <1>1 DEF BookOnce, Busy
    <3>3. CASE x \in tape
      <4>1. accepted' = accepted /\ dropped' = dropped
        BY <1>7, <3>1, <3>2, <3>3
      <4> QED BY <2>1, <2>3, <3>3, <4>1
    <3>4. CASE x \notin tape
      <4>1. send /\ accepted[x] <= undone[x]
        BY <1>6, <2>0, <2>1, <2>3, <3>1, <3>4
      <4>2. \/ accepted'[x] = accepted[x] + 1 /\ dropped'[x] = dropped[x] /\ work'[w].sent
            \/ accepted'[x] = accepted[x] /\ dropped'[x] = dropped[x] + 1
        BY <1>0, <1>2, <1>3, <1>7, <4>1
      <4> HIDE DEF x, send
      <4> QED BY <1>5, <2>0, <2>3, <4>1, <4>2
    <3> QED BY <3>3, <3>4
  <2> QED BY <2>2, <2>3
<1> QED BY <1>4, <1>8, <1>9, <1>10, <1>11, <1>12, <1>13, <1>14

\* The commit: no other transaction has the same key.
LEMMA CommitKeeps ==
  ASSUME TypeOK, HandlerInv, NEW w \in Worker, Commit(w)
  PROVE  HandlerInv'
<1> USE DEF HandlerInv
<1> DEFINE x == work[w].msg
<1>0. /\ work \in [Worker -> Transaction] /\ charted \in [Trade -> Nat]
      /\ tradeCount \in Nat /\ accepted \in [Row -> Nat] /\ dropped \in [Row -> Nat]
      /\ undone \in [Row -> Nat]
  BY DEF TypeOK, BatcherTypeOK
<1>1. /\ work[w].at = "open" /\ work' = [work EXCEPT ![w] = Idling]
      /\ known' = known \union ({work[w].makes} \ {Pill})
      /\ tape' = IF WriteRawPostgres THEN tape \union {x} ELSE tape
      /\ IF x \in Trade /\ work[w].wrote
         THEN tradeCount' = tradeCount + 1 /\ charted' = [charted EXCEPT ![x] = @ + 1]
         ELSE tradeCount' = tradeCount /\ charted' = charted
      /\ finished' = finished \union ({x} \intersect Trade)
      /\ UNCHANGED <<batcherVars, backend, delivered, undone, dropped>>
  BY DEF Commit, Skip
<1>2. x \in Row /\ Opened(w, x) /\ w \in Busy
  BY <1>1, Stages DEF Opened, Busy
<1>3. /\ \A v \in Worker : v # w => work'[v] = work[v]
      /\ work'[w] = Idling
  BY <1>0, <1>1
<1>4. /\ (WriteRawPostgres' <=> WriteRawPostgres) /\ backend' = backend
      /\ accepted' = accepted /\ tape \subseteq tape' /\ known \subseteq known'
  BY <1>1 DEF WriteRawPostgres, batcherVars
<1>5. \A v \in Worker, y \in Row : Opened(v, y)' <=> v # w /\ Opened(v, y)
  BY <1>3 DEF Opened, Idling
<1>6. IsFiniteSet(tape')
  BY <1>1, FS_AddElement
<1>7. OpenAlone'
  BY <1>4, <1>5 DEF OpenAlone
<1>8. WroteNew'
  <2> SUFFICES ASSUME WriteRawPostgres, NEW t \in Trade, NEW v \in Worker, Opened(v, t)'
               PROVE  work'[v].wrote <=> t \notin tape'
    BY <1>4 DEF WroteNew
  <2>1. v # w /\ Opened(v, t) /\ t # x
    BY <1>2, <1>5, Messages DEF OpenAlone
  <2> QED BY <1>1, <1>3, <2>1 DEF WroteNew
<1>9. TradeCountedOnce'
  <2> SUFFICES ASSUME WriteRawPostgres
               PROVE  /\ tradeCount' = Cardinality(tape' \intersect Trade)
                      /\ \A t \in Trade : charted'[t] = IF t \in tape' THEN 1 ELSE 0
    BY <1>4 DEF TradeCountedOnce
  <2>1. /\ tradeCount = Cardinality(tape \intersect Trade)
        /\ \A t \in Trade : charted[t] = IF t \in tape THEN 1 ELSE 0
    BY DEF TradeCountedOnce
  <2>2. x \in Trade => (work[w].wrote <=> x \notin tape)
    BY <1>2 DEF WroteNew
  <2>3. tape' = tape \union {x}
    BY <1>1
  <2>4. IsFiniteSet(tape \intersect Trade)
    BY FS_Subset
  <2>5. CASE x \in Trade /\ x \notin tape
    <3>1. tape' \intersect Trade = (tape \intersect Trade) \union {x}
      BY <2>3, <2>5
    <3>2. Cardinality((tape \intersect Trade) \union {x}) = Cardinality(tape \intersect Trade) + 1
      BY <2>4, <2>5, FS_AddElement
    <3>3. tradeCount' = tradeCount + 1 /\ charted' = [charted EXCEPT ![x] = @ + 1]
      BY <1>1, <2>2, <2>5
    <3>4. \A t \in Trade : charted'[t] = IF t \in tape' THEN 1 ELSE 0
      BY <1>0, <2>1, <2>3, <2>5, <3>3
    <3> QED BY <2>1, <3>1, <3>2, <3>3, <3>4
  <2>6. CASE ~ (x \in Trade /\ x \notin tape)
    <3>1. tape' \intersect Trade = tape \intersect Trade
      BY <2>3, <2>6
    <3>2. tradeCount' = tradeCount /\ charted' = charted
      BY <1>1, <2>2, <2>6
    <3> QED BY <2>1, <2>3, <2>6, <3>1, <3>2
  <2> QED BY <2>5, <2>6
<1>10. BookOnce'
  <2>1. Busy' = Busy \ {w} /\ \A v \in Busy' : work'[v].msg = work[v].msg
    BY <1>3 DEF Busy, Idling
  <2>2. delivered' = delivered
    BY <1>1
  <2>3. \A b \in tape' : b \in tape \/ b = x
    BY <1>1
  <2> QED BY <1>2, <2>1, <2>2, <2>3 DEF BookOnce
<1>11. Offers'
  <2> SUFFICES ASSUME backend = "dual", NEW y \in Row
        PROVE /\ y \in tape' \/ (\E v \in Worker : Opened(v, y)') =>
                   accepted[y] + dropped[y] > 0
              /\ accepted[y] <= undone[y] +
                   IF y \in tape' \/ \E v \in Worker : Opened(v, y)' /\ work'[v].sent
                   THEN 1 ELSE 0
    BY <1>1, <1>4 DEF Offers
  <2>1. /\ y \in tape \/ (\E v \in Worker : Opened(v, y)) => accepted[y] + dropped[y] > 0
        /\ accepted[y] <= undone[y] +
             IF y \in tape \/ \E v \in Worker : Opened(v, y) /\ work[v].sent THEN 1 ELSE 0
    BY DEF Offers
  <2>2. tape' = tape \union {x}
    BY <1>1 DEF WriteRawPostgres
  <2>3. \A v \in Worker : v # w => (Opened(v, y)' <=> Opened(v, y)) /\ work'[v] = work[v]
    BY <1>3, <1>5
  <2>4. Opened(w, y) => y = x
    BY DEF Opened
  <2>5. accepted[y] \in Nat /\ undone[y] \in Nat
    BY <1>0
  <2> HIDE DEF x
  <2>6. y \in tape' \/ (\E v \in Worker : Opened(v, y)') => accepted[y] + dropped[y] > 0
    BY <1>2, <1>5, <2>1, <2>2, <2>4
  <2>7. (y \in tape \/ \E v \in Worker : Opened(v, y) /\ work[v].sent) =>
          (y \in tape' \/ \E v \in Worker : Opened(v, y)' /\ work'[v].sent)
    BY <2>2, <2>3, <2>4
  <2> QED BY <2>1, <2>5, <2>6, <2>7
<1>12. MarketMade'
  <2> SUFFICES ASSUME NEW v \in Worker, work'[v].at \in {"insert", "open"},
                      work'[v].msg \in Trade
               PROVE  MarketOf[work'[v].msg] \in known' \union {work'[v].makes}
    BY DEF MarketMade
  <2> QED BY <1>3, <1>4 DEF MarketMade, Idling
<1>13. SeenMarketsKnown'
  <2> SUFFICES ASSUME NEW t \in finished', InScope(Class[MarketOf[t]])
               PROVE  MarketOf[t] \in known'
    BY DEF SeenMarketsKnown
  <2>1. CASE t \in finished
    BY <1>4, <2>1 DEF SeenMarketsKnown
  <2>2. CASE t = x /\ x \in Trade
    <3>1. MarketOf[x] \in known \union {work[w].makes}
      BY <1>1, <2>2 DEF MarketMade
    <3>2. MarketOf[x] # Pill
      BY <1>2, Messages, TapeAssumption DEF Pill
    <3> QED BY <1>1, <2>2, <3>1, <3>2
  <2> QED BY <1>1, <2>1, <2>2
<1> QED BY <1>6, <1>7, <1>8, <1>9, <1>10, <1>11, <1>12, <1>13

\* The rollback leaves a copy with the batcher, and counts it.
LEMMA RollbackKeeps ==
  ASSUME TypeOK, HandlerInv, NEW w \in Worker, NEW deadlock \in BOOLEAN,
         Rollback(w, deadlock)
  PROVE  HandlerInv'
<1> USE DEF HandlerInv
<1> DEFINE x == work[w].msg
<1>0. /\ work \in [Worker -> Transaction] /\ accepted \in [Row -> Nat]
      /\ undone \in [Row -> Nat]
  BY DEF TypeOK, BatcherTypeOK
<1>1. /\ work[w].at = "open"
      /\ undone' = IF work[w].sent THEN [undone EXCEPT ![x] = @ + 1] ELSE undone
      /\ \/ work' = [work EXCEPT ![w] = [at |-> "retry", msg |-> x]]
         \/ work' = [work EXCEPT ![w] = Idling]
      /\ UNCHANGED <<batcherVars, backend, dbVars, delivered, finished, dropped>>
  BY DEF Rollback
<1>2. x \in Row /\ Opened(w, x) /\ w \in Busy
  BY <1>1, Stages DEF Opened, Busy
<1>3. /\ \A v \in Worker : v # w => work'[v] = work[v]
      /\ work'[w] = Idling \/ work'[w] = [at |-> "retry", msg |-> x]
  BY <1>0, <1>1
<1>4. /\ (WriteRawPostgres' <=> WriteRawPostgres) /\ backend' = backend
      /\ accepted' = accepted /\ dropped' = dropped
      /\ UNCHANGED <<known, tape, tradeCount, charted, delivered, finished>>
  BY <1>1 DEF WriteRawPostgres, batcherVars, dbVars
<1>5. \A v \in Worker, y \in Row : Opened(v, y)' <=> v # w /\ Opened(v, y)
  BY <1>3 DEF Opened, Idling
<1>6. IsFiniteSet(tape') /\ OpenAlone' /\ TradeCountedOnce' /\ SeenMarketsKnown'
  BY <1>4, <1>5 DEF OpenAlone, TradeCountedOnce, SeenMarketsKnown
<1>7. WroteNew'
  BY <1>3, <1>4, <1>5, Messages DEF WroteNew
<1>8. BookOnce'
  <2>1. Busy' \subseteq Busy /\ \A v \in Busy' : work'[v].msg = work[v].msg
    BY <1>2, <1>3 DEF Busy, Idling
  <2> QED BY <1>4, <2>1 DEF BookOnce
<1>9. MarketMade'
  BY <1>3, <1>4 DEF MarketMade, Idling
<1>10. Offers'
  <2> SUFFICES ASSUME backend = "dual", NEW y \in Row
        PROVE /\ y \in tape \/ (\E v \in Worker : Opened(v, y)') =>
                   accepted[y] + dropped[y] > 0
              /\ accepted[y] <= undone'[y] +
                   IF y \in tape \/ \E v \in Worker : Opened(v, y)' /\ work'[v].sent
                   THEN 1 ELSE 0
    BY <1>1, <1>4 DEF Offers
  <2>0. accepted[y] \in Nat /\ undone[y] \in Nat
    BY <1>0
  <2>1. /\ y \in tape \/ (\E v \in Worker : Opened(v, y)) => accepted[y] + dropped[y] > 0
        /\ accepted[y] <= undone[y] +
             IF y \in tape \/ \E v \in Worker : Opened(v, y) /\ work[v].sent THEN 1 ELSE 0
    BY DEF Offers
  <2>2. \A v \in Worker : v # w => (Opened(v, y)' <=> Opened(v, y)) /\ work'[v] = work[v]
    BY <1>3, <1>5
  <2>3. CASE Opened(w, y) /\ work[w].sent
    <3>1. undone'[y] = undone[y] + 1
      BY <1>0, <1>1, <2>3 DEF Opened
    <3>2. (\E v \in Worker : Opened(v, y)') => \E v \in Worker : Opened(v, y)
      BY <1>5
    <3> QED BY <2>0, <2>1, <3>1, <3>2
  <2>4. CASE ~ (Opened(w, y) /\ work[w].sent)
    <3>1. undone'[y] = undone[y]
      BY <1>0, <1>1, <1>2, <2>4 DEF Opened
    <3>2. (\E v \in Worker : Opened(v, y) /\ work[v].sent) =>
            \E v \in Worker : Opened(v, y)' /\ work'[v].sent
      BY <2>2, <2>4
    <3>3. (\E v \in Worker : Opened(v, y)') => \E v \in Worker : Opened(v, y)
      BY <1>5
    <3> QED BY <2>0, <2>1, <3>1, <3>2, <3>3
  <2> QED BY <2>3, <2>4
<1> QED BY <1>6, <1>7, <1>8, <1>9, <1>10

\* The end of the process counts every copy an open transaction had handed over.
LEMMA RestartKeeps ==
  ASSUME TypeOK, HandlerInv, NEW killed \in BOOLEAN, Restart(killed)
  PROVE  HandlerInv' /\ undone' \in [Row -> Nat]
<1> USE DEF HandlerInv
<1> DEFINE Copies(x) == {w \in Busy : work[w].at = "open" /\ work[w].msg = x /\ work[w].sent}
<1>0. /\ work \in [Worker -> Transaction] /\ accepted \in [Row -> Nat]
      /\ undone \in [Row -> Nat]
  BY DEF TypeOK, BatcherTypeOK
<1>1. /\ undone' = [x \in Row |-> undone[x] + Cardinality(Copies(x))]
      /\ work' = [w \in Worker |-> Idling]
      /\ accepted' = accepted
      /\ UNCHANGED <<backend, known, tape, tradeCount, charted, delivered, finished, dropped>>
  BY DEF Restart, Gone, dbVars
<1>2. \A x \in Row : Cardinality(Copies(x)) \in Nat
                     /\ (Copies(x) # {} => Cardinality(Copies(x)) >= 1)
  <2> TAKE x \in Row
  <2>1. IsFiniteSet(Copies(x))
    <3>1. Copies(x) \in SUBSET Worker
      BY DEF Busy
    <3> QED BY <3>1, TapeAssumption, FS_Subset
  <2> HIDE DEF Copies
  <2>2. Cardinality(Copies(x)) \in Nat /\ (Cardinality(Copies(x)) = 0 <=> Copies(x) = {})
    BY <2>1, FS_CardinalityType, FS_EmptySet
  <2> QED BY <2>2
<1>3. undone' \in [Row -> Nat]
  <2> HIDE DEF Copies
  <2> QED BY <1>0, <1>1, <1>2
<1>4. Busy' = {} /\ \A v \in Worker : work'[v] = Idling
  BY <1>1 DEF Busy, Idling
<1>5. \A v \in Worker, y \in Row : ~Opened(v, y)'
  BY <1>4 DEF Opened, Idling
<1>6. IsFiniteSet(tape') /\ OpenAlone' /\ TradeCountedOnce' /\ SeenMarketsKnown'
  BY <1>1, <1>5 DEF OpenAlone, TradeCountedOnce, SeenMarketsKnown, WriteRawPostgres
<1>7. WroteNew' /\ MarketMade'
  BY <1>4, <1>5, Messages DEF WroteNew, MarketMade, Idling
<1>8. BookOnce'
  BY <1>1, <1>4 DEF BookOnce
<1>9. Offers'
  <2> SUFFICES ASSUME backend = "dual", NEW y \in Row
        PROVE /\ y \in tape => accepted[y] + dropped[y] > 0
              /\ accepted[y] <= undone'[y] + IF y \in tape THEN 1 ELSE 0
    BY <1>0, <1>1, <1>5 DEF Offers
  <2>1. /\ y \in tape => accepted[y] + dropped[y] > 0
        /\ accepted[y] <= undone[y] +
             IF y \in tape \/ \E v \in Worker : Opened(v, y) /\ work[v].sent THEN 1 ELSE 0
    BY DEF Offers
  <2>2. (\E v \in Worker : Opened(v, y) /\ work[v].sent) => Copies(y) # {}
    BY DEF Opened, Busy
  <2>3. undone'[y] = undone[y] + Cardinality(Copies(y))
    BY <1>1
  <2>4. accepted[y] \in Nat /\ undone[y] \in Nat
    BY <1>0
  <2> HIDE DEF Copies
  <2> QED BY <1>2, <2>1, <2>2, <2>3, <2>4
<1> QED BY <1>3, <1>6, <1>7, <1>8, <1>9


-----------------------------------------------------------------------------
(* The types.                                                              *)

\* The hints of a market are reasons.
LEMMA HintsAreReasons ==
  ASSUME TypeOK, NEW m \in Market
  PROVE  TapeHints(m) \in SUBSET Reason
BY DEF TypeOK, TapeHints

\* A transaction that begins keeps the types.
LEMMA BeginTypes ==
  ASSUME TypeOK, NEW w \in Worker,
         \/ \E t \in Trade : TradeBegin(w, t)
         \/ \E b \in Book : BookBegin(w, b)
  PROVE  TypeOK'
<1>1. PICK x \in Row : \/ x \in Trade /\ TradeBegin(w, x)
                       \/ x \in Book /\ BookBegin(w, x)
  BY Messages
<1> DEFINE m == MarketOf[x]
<1>2. m \in Market
  BY Messages
<1>3. PICK keep \in BOOLEAN : Begins(w, x, keep)
  BY <1>1, TradeBegins, BookBegins
<1>4. /\ UNCHANGED <<batcherVars, metric>>
      /\ hint' = hint \/ hint' = [hint EXCEPT ![m] = TapeHints(m)]
      /\ known' \subseteq known \union {m}
  BY <1>1 DEF TradeBegin, BookBegin, CacheHints, KnownAfterDrop, dbVars
<1>5. BatcherTypeOK'
  BY <1>4 DEF TypeOK, BatcherTypeOK, batcherVars
<1>6. (hint \in [Market -> (SUBSET Reason) \union {NoHint}])'
  <2>1. hint \in [Market -> (SUBSET Reason) \union {NoHint}]
    BY DEF TypeOK
  <2> QED BY <1>2, <1>4, <2>1, HintsAreReasons
<1>7. (delivered \in [Row -> Nat])'
  BY <1>3 DEF Begins, Delivered, TypeOK
<1>8. (work \in [Worker -> Transaction])'
  <2>1. Attempt(w) \in {1, 2}
    BY DEF Attempt
  <2>2. \A p \in Market \union {Pill} :
          [at |-> "insert", msg |-> x, attempt |-> Attempt(w), makes |-> p] \in Transaction
    BY <2>1 DEF Transaction
  <2>3. Idling \in Transaction /\ work \in [Worker -> Transaction]
    BY DEF Transaction, TypeOK
  <2> HIDE DEF Transaction
  <2> QED BY <1>3, <2>2, <2>3 DEF Begins
<1>9. (known \subseteq Market /\ metric \in [Market -> SUBSET Reason])'
  BY <1>2, <1>4 DEF TypeOK
<1> QED BY <1>3, <1>5, <1>6, <1>7, <1>8, <1>9 DEF Begins, TypeOK

\* So does one that inserts.
LEMMA InsertTypes ==
  ASSUME TypeOK, BatcherTypeOK', NEW w \in Worker, Insert(w)
  PROVE  TypeOK'
<1> DEFINE x == work[w].msg
           new == WriteRawPostgres /\ x \notin tape
           send == Sends(x, new)
<1>1. /\ IF send THEN HandOver(x) ELSE NoHandOver
      /\ work' = [work EXCEPT ![w] =
           [at |-> "open", msg |-> x, attempt |-> work[w].attempt, makes |-> work[w].makes,
            wrote |-> Wrote(x, new, send), sent |-> send /\ Fits]]
      /\ UNCHANGED <<backend, dbVars, hint, delivered, finished, undone, upsets>>
      /\ work[w].at = "insert"
  BY DEF Insert
<1>2. /\ x \in Row /\ work[w].attempt \in {1, 2} /\ work[w].makes \in Market \union {Pill}
  BY <1>1, Stages
<1>3. (dropped \in [Row -> Nat])'
  BY <1>1, <1>2 DEF HandOver, NoHandOver, TypeOK
<1>4. (work \in [Worker -> Transaction])'
  <2>1. Wrote(x, new, send) \in BOOLEAN /\ (send /\ Fits) \in BOOLEAN
    BY DEF Wrote
  <2>2. [at |-> "open", msg |-> x, attempt |-> work[w].attempt, makes |-> work[w].makes,
         wrote |-> Wrote(x, new, send), sent |-> send /\ Fits] \in Transaction
    BY <1>2, <2>1 DEF Transaction
  <2> QED BY <1>1, <2>2 DEF TypeOK
<1> QED BY <1>1, <1>3, <1>4 DEF TypeOK, dbVars

\* So does one that commits.
LEMMA CommitTypes ==
  ASSUME TypeOK, NEW w \in Worker, Commit(w)
  PROVE  TypeOK'
<1>1. /\ work[w].at = "open" /\ work' = [work EXCEPT ![w] = Idling]
      /\ known' = known \union ({work[w].makes} \ {Pill})
      /\ tape' \subseteq tape \union {work[w].msg}
      /\ \/ tradeCount' = tradeCount + 1
            /\ charted' = [charted EXCEPT ![work[w].msg] = @ + 1]
         \/ tradeCount' = tradeCount /\ charted' = charted
      /\ UNCHANGED <<batcherVars, backend, metric, hint, delivered, undone, dropped>>
  BY DEF Commit, Skip
<1>2. work[w].msg \in Row /\ work[w].makes \in Market \union {Pill}
  BY <1>1, Stages
<1>3. BatcherTypeOK'
  BY <1>1 DEF TypeOK, BatcherTypeOK, batcherVars
<1>4. (work \in [Worker -> Transaction])'
  BY <1>1 DEF TypeOK, Transaction
<1>5. (known \subseteq Market /\ tape \subseteq Row)'
  BY <1>1, <1>2 DEF TypeOK
<1>6. (tradeCount \in Nat /\ charted \in [Trade -> Nat])'
  BY <1>1 DEF TypeOK
<1> QED BY <1>1, <1>3, <1>4, <1>5, <1>6 DEF TypeOK

\* So does one that is rolled back.
LEMMA RollbackTypes ==
  ASSUME TypeOK, NEW w \in Worker, NEW deadlock \in BOOLEAN, Rollback(w, deadlock)
  PROVE  TypeOK'
<1> DEFINE x == work[w].msg
<1>1. /\ work[w].at = "open"
      /\ undone' = IF work[w].sent THEN [undone EXCEPT ![x] = @ + 1] ELSE undone
      /\ \/ work' = [work EXCEPT ![w] = [at |-> "retry", msg |-> x]]
         \/ work' = [work EXCEPT ![w] = Idling]
      /\ UNCHANGED <<batcherVars, backend, dbVars, hint, delivered, dropped>>
  BY DEF Rollback
<1>2. x \in Row
  BY <1>1, Stages
<1>3. BatcherTypeOK'
  BY <1>1 DEF TypeOK, BatcherTypeOK, batcherVars
<1>4. (work \in [Worker -> Transaction])'
  <2>1. Idling \in Transaction /\ [at |-> "retry", msg |-> x] \in Transaction
    BY <1>2 DEF Transaction
  <2> QED BY <1>1, <2>1 DEF TypeOK
<1>5. (undone \in [Row -> Nat])'
  <2>1. undone \in [Row -> Nat]
    BY DEF TypeOK
  <2>2. [undone EXCEPT ![x] = @ + 1] \in [Row -> Nat]
    BY <1>2, <2>1
  <2> QED BY <1>1, <2>1, <2>2
<1> QED BY <1>1, <1>3, <1>4, <1>5 DEF TypeOK, dbVars

\* So does a restart.
LEMMA RestartTypes ==
  ASSUME TypeOK, BatcherTypeOK', undone' \in [Row -> Nat],
         NEW killed \in BOOLEAN, Restart(killed)
  PROVE  TypeOK'
<1>1. /\ hint' = [m \in Market |-> NoHint] /\ work' = [w \in Worker |-> Idling]
      /\ UNCHANGED <<backend, dbVars, delivered, dropped>>
  BY DEF Restart
<1> QED BY <1>1 DEF TypeOK, dbVars, Transaction

\* The steps that touch nothing but the metrics, the cached hints, the alerts
\* and the flags.
LEMMA SignalTypes ==
  ASSUME TypeOK, NEW m \in Market,
         HintExpires(m) \/ Signal(m) \/ \E r \in Levels : Quote(m, r)
  PROVE  TypeOK' /\ UNCHANGED tapeState /\ UNCHANGED batcherVars
<1>1. /\ UNCHANGED <<batcherVars, backend, known, tape, tradeCount, charted, work, runVars>>
      /\ metric' = metric \/ \E r \in SUBSET Reason : metric' = [metric EXCEPT ![m] = r]
      /\ \/ hint' = hint
         \/ \E r \in (SUBSET Reason) \union {NoHint} : hint' = [hint EXCEPT ![m] = r]
  BY TapeAssumption DEF HintExpires, Signal, Quote, dbVars
<1>2. (metric \in [Market -> SUBSET Reason])'
  BY <1>1 DEF TypeOK
<1>3. (hint \in [Market -> (SUBSET Reason) \union {NoHint}])'
  BY <1>1 DEF TypeOK
<1>4. UNCHANGED tapeState
  BY <1>1 DEF tapeState, runVars, batcherVars
<1> QED BY <1>1, <1>2, <1>3, <1>4 DEF TypeOK, BatcherTypeOK, batcherVars, runVars


-----------------------------------------------------------------------------
(* The steps of the batcher, and the sink.                                 *)

\* A step leaves the batcher alone, or is one of its operations.
LEMMA BatcherSteps ==
  ASSUME TypeOK, [Next]_vars
  PROVE  \/ UNCHANGED batcherVars
         \/ \E x \in Row : Enqueue(x)
         \/ Take \/ Idle \/ TakePill \/ FlushDone
         \/ \E t \in Table, stored \in BOOLEAN : FlushTable(t, stored)
         \/ Stop
         \/ Gone
<1>1. ASSUME NEW w \in Worker, WorkerStep(w)
      PROVE  UNCHANGED batcherVars \/ \E x \in Row : Enqueue(x)
  <2>1. CASE Insert(w)
    <3>1. work[w].msg \in Row
      BY <2>1, Stages DEF Insert
    <3> QED BY <2>1, <3>1 DEF Insert, HandOver, NoHandOver
  <2>2. CASE ~Insert(w)
    BY <1>1, <2>2 DEF WorkerStep, TradeBegin, BookBegin, Commit, Rollback
  <2> QED BY <2>1, <2>2
<1>2. ASSUME NEW m \in Market, HintExpires(m) \/ Signal(m) \/ \E r \in Levels : Quote(m, r)
      PROVE  UNCHANGED batcherVars
  BY <1>2, SignalTypes
<1>3. ASSUME UNCHANGED vars
      PROVE  UNCHANGED batcherVars
  BY <1>3 DEF vars
<1> QED BY <1>1, <1>2, <1>3 DEF Next, Batch, BatchThread, Shutdown, Restart

\* Every step keeps the batcher's invariant, and is a step of the sink.
LEMMA BatcherKeeps ==
  TypeOK /\ BatcherInv /\ [Next]_vars => BatcherInv' /\ [Sink!Next]_(Sink!vars)
<1> SUFFICES ASSUME TypeOK, BatcherInv, [Next]_vars
             PROVE  BatcherInv' /\ [Sink!Next]_(Sink!vars)
  OBVIOUS
<1>0. BatcherTypeOK
  BY DEF BatcherInv
<1>1. CASE UNCHANGED batcherVars
  <2>1. BatcherInv'
    BY <1>1 DEF batcherVars, BatcherInv, BatcherTypeOK, Sorted, LastFlush, RowAccounted,
                Filled
  <2>2. Waiting' = Waiting
    BY <1>1 DEF batcherVars, Waiting
  <2> QED BY <1>1, <2>1, <2>2 DEF batcherVars, Sink!vars
<1>2. ASSUME NEW x \in Row, Enqueue(x)
      PROVE  BatcherInv' /\ [Sink!Next]_(Sink!vars)
  BY <1>0, <1>2, EnqueueKeeps, EnqueueAccepts DEF Sink!Next
<1>3. CASE Take
  BY <1>0, <1>3, TakeKeeps, TakeWaits
<1>4. CASE Idle \/ TakePill \/ FlushDone
  <2>1. /\ UNCHANGED <<buffers, history>>
        /\ \/ queue' = queue
           \/ queue # <<>> /\ Head(queue) = Pill /\ queue' = Tail(queue)
    BY <1>4 DEF Idle, TakePill, FlushDone, FlushDue, history, threadVars
  <2> QED BY <1>0, <1>4, <2>1, FlushKeeps, PillWaits
<1>5. ASSUME NEW t \in Table, NEW stored \in BOOLEAN, FlushTable(t, stored)
      PROVE  BatcherInv' /\ [Sink!Next]_(Sink!vars)
  <2>1. BatcherInv'
    BY <1>5, FlushTableKeeps
  <2>2. \E n \in 0 .. Len(Waiting[t]) : Sink!Settle(t, n, stored)
    BY <1>0, <1>5, FlushTableSettles
  <2> QED BY <2>1, <2>2 DEF Sink!Next
<1>6. CASE Stop
  <2>1. /\ UNCHANGED <<buffers, history>>
        /\ queue' = queue \/ queue' = Append(queue, Pill)
    BY <1>6 DEF Stop, threadVars, history
  <2> QED BY <1>0, <1>6, <2>1, StopKeeps, PillWaits
<1>7. CASE Gone
  BY <1>7, GoneKeeps, GoneGivesUp DEF Sink!Next
<1> QED BY <1>1, <1>2, <1>3, <1>4, <1>5, <1>6, <1>7, BatcherSteps

-----------------------------------------------------------------------------
(* The inductive invariant.                                                *)

\* The invariant holds at first.
LEMMA TapeInit == Init => TypeOK /\ BatcherInv /\ HandlerInv
<1> SUFFICES ASSUME Init PROVE TypeOK /\ BatcherInv /\ HandlerInv
  OBVIOUS
<1>1. BatcherInv
  BY BatcherStarts DEF Init
<1>2. TypeOK
  <2>1. (known \subseteq Market) /\ tape \subseteq Row /\ backend \in Backends
    BY DEF Init
  <2>2. metric \in [Market -> SUBSET Reason] /\ hint \in [Market -> (SUBSET Reason) \union {NoHint}]
    BY DEF Init
  <2>3. tradeCount \in Nat /\ charted \in [Trade -> Nat]
        /\ delivered \in [Row -> Nat] /\ undone \in [Row -> Nat] /\ dropped \in [Row -> Nat]
    BY DEF Init
  <2>4. work \in [Worker -> Transaction]
    BY DEF Init, Transaction
  <2> QED BY <1>1, <2>1, <2>2, <2>3, <2>4 DEF TypeOK, BatcherInv
<1>3. Busy = {} /\ \A w \in Worker : work[w].at = "idle"
  BY DEF Init, Busy, Idling
<1>4. \A w \in Worker, x \in Row : ~Opened(w, x)
  BY <1>3 DEF Opened
<1>5. IsFiniteSet(tape) /\ TradeCountedOnce
  <2>1. tape = {} /\ tradeCount = 0 /\ charted = [t \in Trade |-> 0]
    BY DEF Init
  <2>2. tape \intersect Trade = {}
    BY <2>1
  <2> QED BY <2>1, <2>2, FS_EmptySet DEF TradeCountedOnce
<1>6. OpenAlone /\ WroteNew
  BY <1>4, Messages DEF OpenAlone, WroteNew
<1>7. BookOnce
  BY <1>3, Messages DEF Init, BookOnce
<1>8. Offers
  <2>1. /\ tape = {} /\ \A x \in Row : accepted[x] = 0 /\ undone[x] = 0
    BY DEF Init, BatcherInit
  <2> QED BY <1>4, <2>1 DEF Offers
<1>9. MarketMade /\ SeenMarketsKnown
  BY <1>3 DEF Init, MarketMade, SeenMarketsKnown
<1> QED BY <1>1, <1>2, <1>5, <1>6, <1>7, <1>8, <1>9 DEF HandlerInv

\* No step breaks it.
LEMMA TapeStep ==
  TypeOK /\ BatcherInv /\ HandlerInv /\ [Next]_vars => TypeOK' /\ BatcherInv' /\ HandlerInv'
<1> SUFFICES ASSUME TypeOK, BatcherInv, HandlerInv, [Next]_vars
             PROVE  TypeOK' /\ HandlerInv'
  BY BatcherKeeps
<1>0. BatcherTypeOK'
  BY BatcherKeeps DEF BatcherInv
<1>1. ASSUME NEW w \in Worker, WorkerStep(w)
      PROVE  TypeOK' /\ HandlerInv'
  <2>1. ASSUME NEW t \in Trade, TradeBegin(w, t)
        PROVE  TypeOK' /\ HandlerInv'
    BY <2>1, TradeBegins, BeginKeeps, BeginTypes, Messages
  <2>2. ASSUME NEW b \in Book, BookBegin(w, b)
        PROVE  TypeOK' /\ HandlerInv'
    BY <2>2, BookBegins, BeginKeeps, BeginTypes, Messages
  <2>3. CASE Insert(w)
    BY <1>0, <2>3, InsertKeeps, InsertTypes
  <2>4. CASE Commit(w)
    BY <2>4, CommitKeeps, CommitTypes
  <2>5. ASSUME NEW deadlock \in BOOLEAN, Rollback(w, deadlock)
        PROVE  TypeOK' /\ HandlerInv'
    BY <2>5, RollbackKeeps, RollbackTypes
  <2> QED BY <1>1, <2>1, <2>2, <2>3, <2>4, <2>5 DEF WorkerStep
<1>2. ASSUME NEW m \in Market, HintExpires(m) \/ Signal(m) \/ \E r \in Levels : Quote(m, r)
      PROVE  TypeOK' /\ HandlerInv'
  BY <1>2, SignalTypes, Unmoved
<1>3. ASSUME UNCHANGED <<backend, dbVars, hint, work, runVars>> /\ accepted' = accepted
      PROVE  TypeOK' /\ HandlerInv'
  <2>1. UNCHANGED tapeState
    BY <1>3 DEF tapeState, dbVars, runVars
  <2> QED BY <1>0, <1>3, <2>1, Unmoved DEF TypeOK, dbVars, runVars
<1>4. CASE Batch
  <2>1. accepted' = accepted
    BY <1>4 DEF Batch, BatchThread, Take, Idle, TakePill, FlushDone, FlushDue, FlushTable,
                threadVars, history
  <2> QED BY <1>3, <1>4, <2>1 DEF Batch
<1>5. CASE Shutdown
  BY <1>3, <1>5 DEF Shutdown, Stop, history
<1>6. ASSUME NEW killed \in BOOLEAN, Restart(killed)
      PROVE  TypeOK' /\ HandlerInv'
  BY <1>0, <1>6, RestartKeeps, RestartTypes
<1>7. CASE UNCHANGED vars
  BY <1>3, <1>7 DEF vars, batcherVars
<1> QED BY <1>1, <1>2, <1>4, <1>5, <1>6, <1>7 DEF Next

\* It holds in every state.
LEMMA TapeInvariant == Spec => [](TypeOK /\ BatcherInv /\ HandlerInv)
BY TapeInit, TapeStep, PTL DEF Spec

-----------------------------------------------------------------------------
(* The theorems.                                                           *)

\* Every variable keeps its type, whatever the workers, messages and failures.
THEOREM TypeCorrect == Spec => []TypeOK
BY TapeInvariant, PTL

\* No row that the batcher took disappears without being counted as inserted
\* or lost (clickhouse_writer.py), for any size of the queue and the buffers.
THEOREM RowsAccounted == Spec => []RowAccounted
<1>1. BatcherInv => RowAccounted
  BY DEF BatcherInv
<1> QED BY <1>1, TapeInvariant, PTL

\* The batcher beside the handlers implements the abstract lossy sink: a row is
\* stored at most once for each time it was accepted, and the rows of a table in
\* the order they were handed over, whatever was given up between them
\* (clickhouse_writer.py).
THEOREM SinkImplemented == Spec => ImplementsSink
<1>1. Init => Sink!Init
  <2> SUFFICES ASSUME Init PROVE Sink!Init
    OBVIOUS
  <2>1. queue = <<>> /\ buffers = [t \in Table |-> <<>>]
    BY DEF Init, BatcherInit, NoBuffers
  <2>2. <<>> \o <<>> = <<>>
    OBVIOUS
  <2>3. Waiting = [t \in Table |-> <<>>]
    BY <2>1, <2>2, OfTableEmpty DEF Waiting
  <2> QED BY <2>3 DEF Init, BatcherInit, Sink!Init, Sink!None, Sink!Nothing
<1>2. TypeOK /\ BatcherInv /\ [Next]_vars => [Sink!Next]_(Sink!vars)
  BY BatcherKeeps
<1> QED BY <1>1, <1>2, TapeInvariant, PTL DEF Spec, ImplementsSink, Sink!Spec

\* handle_trade_message counts a trade once over redeliveries, deadlock retries,
\* rollbacks and restarts, with any number of workers on the same trade.
THEOREM CountedOnce == Spec => []TradeCountedOnce
<1>1. HandlerInv => TradeCountedOnce
  BY DEF HandlerInv
<1> QED BY <1>1, TapeInvariant, PTL

\* With both raw stores ClickHouse is offered each row that PostgreSQL holds,
\* and a second copy only where an attempt was rolled back.
THEOREM RowsOfferedOnce == Spec => []OfferedOnce
<1>1. TypeOK /\ HandlerInv => OfferedOnce
  <2> SUFFICES ASSUME TypeOK, HandlerInv, backend = "dual", NEW x \in Row
        PROVE  /\ x \in tape => accepted[x] + dropped[x] > 0
               /\ accepted[x] <= undone[x] + IF x \in tape \/ \E w \in Busy :
                           work[w].at = "open" /\ work[w].msg = x THEN 1 ELSE 0
    BY DEF OfferedOnce
  <2>1. /\ x \in tape => accepted[x] + dropped[x] > 0
        /\ accepted[x] <= undone[x] +
             IF x \in tape \/ \E w \in Worker : Opened(w, x) /\ work[w].sent THEN 1 ELSE 0
    BY DEF HandlerInv, Offers
  <2>2. accepted[x] \in Nat /\ undone[x] \in Nat
    BY DEF TypeOK, BatcherTypeOK
  <2>3. \A w \in Worker : Opened(w, x) => w \in Busy
    BY DEF Opened, Busy
  <2> QED BY <2>1, <2>2, <2>3 DEF Opened
<1> QED BY <1>1, TapeInvariant, PTL

\* A market in scope is known once a trade of it was handled, kept or not.
THEOREM SeenKnown == Spec => []SeenMarketsKnown
<1>1. HandlerInv => SeenMarketsKnown
  BY DEF HandlerInv
<1> QED BY <1>1, TapeInvariant, PTL
=============================================================================
