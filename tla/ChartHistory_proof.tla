------------------------- MODULE ChartHistory_proof -------------------------
(***************************************************************************)
(* The chart ledger is exact for every set of observations, markets,       *)
(* intervals and compactors: proofs about ChartHistory; the two merges of a *)
(* row are one, and associative: proofs about ChartRow; and the quotes that *)
(* the rows of market_metrics show, and the holes of the chart, for every   *)
(* gate, gap and length of a transaction: proofs about QuoteTape.  Last,    *)
(* that compaction is faithful: the rows left tell what was observed, for   *)
(* every width, price and cut: proofs about ChartMerge.                     *)
(***************************************************************************)
EXTENDS Charts, ChartRow, Sequences, FiniteSetTheorems, WellFoundedInduction, TLAPS

\* A bucket begins less than its width before the observation.
LEMMA BucketNear ==
  ASSUME NEW t \in Nat, NEW w \in Nat \ {0}
  PROVE  t - (t % w) \in Int /\ t - w < t - (t % w)
OBVIOUS

\* An entry of a sequence belongs to what the sequence is over.
LEMMA EntryOf ==
  ASSUME NEW S, NEW s \in Seq(S), NEW i \in 1..Len(s)
  PROVE  s[i] \in S /\ i \in DOMAIN s
OBVIOUS

\* A wider interval than another one is neither that one nor the narrowest.
LEMMA Wider ==
  ASSUME NEW n \in Nat \ {0}, NEW k \in Nat \ {0}, n < k
  PROVE  n # k /\ k # 1
OBVIOUS

\* The policy of a run, and its intervals.
LEMMA PolicyOf ==
  ASSUME TypeOK, NEW c \in Compactor, policy[c] >= 1
  PROVE  /\ Source(c) \in Interval /\ Target(c) \in Interval
         /\ Source(c) # Target(c) /\ Target(c) # LiveInterval
         /\ Policies[policy[c]].grace \in Nat
         /\ Source(c) = LiveInterval
              => Policies[policy[c]].grace >= MaxLag + Width[LiveInterval]
<1> DEFINE P == [source : Interval, target : Interval, grace : Nat,
                 closedOnly : BOOLEAN]
<1>1. policy[c] \in 1..Len(Policies)
  BY ConstantsOk DEF TypeOK
<1>2. Policies \in Seq(P)
  BY ConstantsOk
<1>3. Policies[policy[c]] \in P /\ policy[c] \in DOMAIN Policies
  <2> HIDE DEF P
  <2> QED BY <1>1, <1>2, EntryOf
<1>4. Interval \subseteq Nat \ {0}
  BY ConstantsOk
<1>5. /\ Policies[policy[c]].source < Policies[policy[c]].target
      /\ Policies[policy[c]].source = LiveInterval
           => Policies[policy[c]].grace >= MaxLag + Width[LiveInterval]
  BY <1>3, ConstantsOk
<1>6. /\ Source(c) \in Interval /\ Target(c) \in Interval
      /\ Policies[policy[c]].grace \in Nat
  BY <1>3 DEF Source, Target
<1>7. Source(c) < Target(c)
  BY <1>5 DEF Source, Target
<1>8. Source(c) \in Nat \ {0} /\ Target(c) \in Nat \ {0}
  <2> HIDE DEF P
  <2> QED BY <1>4, <1>6
<1>9. Source(c) # Target(c) /\ Target(c) # 1
  <2> HIDE DEF P
  <2> QED BY <1>7, <1>8, Wider
<1> QED BY <1>5, <1>6, <1>9 DEF Source, LiveInterval

\* The initial state.
LEMMA LedgerInit == Init => LedgerInv /\ ReadComplete
<1> SUFFICES ASSUME Init PROVE LedgerInv /\ ReadComplete
  OBVIOUS
<1>1. TypeOK
  BY ConstantsOk DEF Init, TypeOK, NoRows
<1>2. CountedOnce
  BY DEF Init, CountedOnce, NoRows
<1>3. LockHeld /\ PolicyChosen /\ CutoffPast /\ BatchCurrent
  BY ConstantsOk DEF Init, LockHeld, PolicyChosen, CutoffPast, BatchCurrent
<1>4. Together /\ CompactedPast
  BY DEF Init, Together, CompactedPast
<1> QED BY <1>1, <1>2, <1>3, <1>4 DEF Init, LedgerInv, ReadAhead, ReadComplete

\* A request stays as it is if the times of what it has read do.
LEMMA ReadStays ==
  ASSUME ReadComplete, ReadAhead, UNCHANGED request,
         \A o \in recorded : at'[o] = at[o]
  PROVE  ReadComplete'
<1> SUFFICES ASSUME reader = "done" PROVE ReadComplete'
  BY DEF ReadComplete, request
<1>1. gathered' = gathered /\ asked' = asked /\ reader' = reader
  BY DEF request
<1>2. \A c \in gathered : c[2] \in recorded
  BY DEF ReadAhead
<1>3. \A c, d \in gathered : OneRow(c, d)' <=> OneRow(c, d)
  BY <1>2 DEF OneRow, Bucket
<1>4. ASSUME NEW c \in gathered PROVE Latest(c)' = Latest(c) /\ Latest(c) \subseteq gathered
  <2> DEFINE row == {d \in gathered : OneRow(c, d)}
             quotes == {d \in row : d[2] \in QuoteObs}
             timed == IF quotes = {} THEN row ELSE quotes
  <2>1. row' = row
    BY <1>1, <1>3
  <2>2. timed' = timed /\ timed \subseteq gathered
    BY <2>1
  <2>3. Latest(c) = {d \in timed : \A e \in timed : at[e[2]] <= at[d[2]]}
        /\ Latest(c)' = {d \in timed' : \A e \in timed' : at'[e[2]] <= at'[d[2]]}
    BY DEF Latest
  <2> HIDE DEF timed
  <2> QED BY <1>2, <2>2, <2>3
<1>5. \A c \in gathered : Dropped(c)' <=> Dropped(c)
  BY <1>1, <1>2, <1>4 DEF Dropped
<1>6. Shown' = Shown
  BY <1>1, <1>5 DEF Shown
<1> QED BY <1>1, <1>3, <1>6 DEF ReadComplete

\* What the transaction of a compaction does to each row.
LEMMA RewriteRows ==
  ASSUME TypeOK, PolicyChosen, NEW c \in Compactor, Rewrite(c)
  PROVE  /\ rows' \in [Interval -> [Obs -> Nat]]
         /\ \A o \in Obs :
              /\ rows'[Source(c)][o] = IF Compacted(c, o) THEN 0
                                       ELSE rows[Source(c)][o]
              /\ rows'[Target(c)][o] = rows[Target(c)][o] + batch[c][o]
         /\ \A l \in Interval \ {Source(c), Target(c)} : rows'[l] = rows[l]
<1> DEFINE moved == [o \in Obs |-> rows[Target(c)][o] + batch[c][o]]
           left == [o \in Obs |-> IF Compacted(c, o) THEN 0 ELSE rows[Source(c)][o]]
<1>1. policy[c] >= 1
  BY DEF Rewrite, PolicyChosen
<1>2. Source(c) \in Interval /\ Target(c) \in Interval /\ Source(c) # Target(c)
  BY <1>1, PolicyOf
<1>3. rows' = [rows EXCEPT ![Target(c)] = moved, ![Source(c)] = left]
  BY <1>2 DEF Rewrite, TypeOK
<1>4. moved \in [Obs -> Nat] /\ left \in [Obs -> Nat]
  BY <1>2 DEF TypeOK
<1>5. /\ rows'[Source(c)] = left /\ rows'[Target(c)] = moved
      /\ \A l \in Interval \ {Source(c), Target(c)} : rows'[l] = rows[l]
      /\ rows' \in [Interval -> [Obs -> Nat]]
  <2> HIDE DEF moved, left
  <2> QED BY <1>2, <1>3, <1>4 DEF TypeOK
<1> QED BY <1>5

\* TypeOK is preserved by every step.
LEMMA LedgerType == TypeOK /\ PolicyChosen /\ [Next]_vars => TypeOK'
<1> SUFFICES ASSUME TypeOK, PolicyChosen, [Next]_vars PROVE TypeOK'
  OBVIOUS
<1> USE DEF TypeOK, clock, ledger, compactor, request
<1>1. CASE Tick
  <2>1. now' \in Nat
    BY <1>1 DEF Tick
  <2> QED BY <1>1, <2>1 DEF Tick
<1>2. ASSUME NEW m \in Market, CloseMarket(m) PROVE TypeOK'
  BY <1>2 DEF CloseMarket
<1>3. ASSUME NEW o \in Obs, Record(o) PROVE TypeOK'
  <2>1. at' \in [Obs -> Nat]
    BY <1>3, ConstantsOk DEF Record
  <2>2. rows' \in [Interval -> [Obs -> Nat]]
    BY <1>3, ConstantsOk DEF Record
  <2> QED BY <1>3, <2>1, <2>2 DEF Record
<1>4. ASSUME NEW c \in Compactor, Compact(c) PROVE TypeOK'
  <2> USE DEF NoRows
  <2>1. CASE TryLock(c)
    BY <2>1 DEF TryLock
  <2>2. CASE StartPolicy(c)
    <3>1. policy[c] + 1 \in 1..Len(Policies)
      BY <2>2 DEF StartPolicy
    <3>2. Policies[policy[c] + 1].grace \in Nat
      <4> DEFINE P == [source : Interval, target : Interval, grace : Nat,
                       closedOnly : BOOLEAN]
      <4>1. Policies \in Seq(P)
        BY ConstantsOk
      <4>2. Policies[policy[c] + 1] \in P
        <5> HIDE DEF P
        <5> QED BY <3>1, <4>1, EntryOf
      <4> QED BY <4>2
    <3>3. \A p, t : Candidates(p, t) \in SUBSET Market
      BY DEF Candidates, First
    <3> HIDE DEF TypeOK
    <3>4. /\ policy' \in [Compactor -> 0..Len(Policies)]
          /\ cutoff' \in [Compactor -> Int]
          /\ todo' \in [Compactor -> SUBSET Market]
      BY <2>2, <3>1, <3>2, <3>3 DEF StartPolicy, TypeOK
    <3> QED BY <2>2, <3>4 DEF StartPolicy, TypeOK
  <2>3. CASE SelectRows(c)
    <3>1. todo[c] # {} /\ todo' \in [Compactor -> SUBSET Market]
      BY <2>3 DEF SelectRows, First
    <3>2. rows[Source(c)] \in [Obs -> Nat]
      BY <3>1, PolicyOf DEF PolicyChosen
    <3>3. batch' \in [Compactor -> [Obs -> Nat]]
      BY <2>3, <3>2 DEF SelectRows
    <3>4. pc' \in [Compactor -> {"idle", "next", "write"}]
      BY <2>3 DEF SelectRows
    <3> QED BY <2>3, <3>1, <3>3, <3>4 DEF SelectRows
  <2>4. CASE Rewrite(c)
    <3>1. rows' \in [Interval -> [Obs -> Nat]]
      BY <2>4, RewriteRows
    <3> QED BY <2>4, <3>1 DEF Rewrite
  <2>5. CASE Finish(c)
    BY <2>5, ConstantsOk DEF Finish, Leave
  <2> QED BY <1>4, <2>1, <2>2, <2>3, <2>4, <2>5 DEF Compact
<1>5. ASSUME NEW c \in Compactor, Abort(c) PROVE TypeOK'
  BY <1>5, ConstantsOk DEF Abort, Leave, NoRows
<1>6. CASE Read
  <2>1. \A L \in SUBSET Interval : Cells(L) \in SUBSET (Interval \X Obs)
    BY DEF Cells
  <2>2. FirstQuery \in SUBSET Interval /\ Interval \ FirstQuery \in SUBSET Interval
    BY ConstantsOk DEF FirstQuery
  <2> QED BY <1>6, <2>1, <2>2 DEF Read, ReadFirst, ReadSecond, Answer
<1>7. CASE UNCHANGED vars
  BY <1>7 DEF vars
<1> QED
  BY <1>1, <1>2, <1>3, <1>4, <1>5, <1>6, <1>7 DEF Next, Write

\* The live writer adds to no bucket that a run has read.
LEMMA RecordInv ==
  ASSUME LedgerInv, ReadComplete, TypeOK', NEW o \in Obs, Record(o)
  PROVE  LedgerInv' /\ ReadComplete'
<1> USE DEF LedgerInv
<1>0. UNCHANGED <<clock, compactor, request>>
  BY DEF Record
<1>1. /\ o \notin recorded /\ recorded' = recorded \cup {o}
      /\ \A x \in Obs \ {o} : at'[x] = at[x]
      /\ at'[o] \in Nat /\ now - MaxLag <= at'[o]
  BY ConstantsOk DEF Record, TypeOK
<1>2. /\ rows'[LiveInterval][o] = rows[LiveInterval][o] + 1
      /\ \A x \in Obs, l \in Interval :
           x # o \/ l # LiveInterval => rows'[l][x] = rows[l][x]
  BY ConstantsOk DEF Record, TypeOK
<1>3. CountedOnce'
  <2>1. \A l \in Interval : rows[l][o] = 0
    BY <1>1 DEF CountedOnce
  <2>2. \A k \in Interval : rows'[k][o] = IF k = LiveInterval THEN 1 ELSE 0
    BY <1>2, <2>1, ConstantsOk
  <2>3. \A x \in Obs \ {o} : \A l \in Interval : rows'[l][x] = rows[l][x]
    BY <1>2
  <2>4. \A x \in recorded' :
          \E l \in Interval : \A k \in Interval :
            rows'[k][x] = IF k = l THEN 1 ELSE 0
    <3> SUFFICES ASSUME NEW x \in recorded'
                 PROVE  \E l \in Interval : \A k \in Interval :
                          rows'[k][x] = IF k = l THEN 1 ELSE 0
      OBVIOUS
    <3>1. CASE x = o
      BY <2>2, <3>1, ConstantsOk
    <3>2. CASE x # o
      <4>1. x \in recorded /\ x \in Obs \ {o}
        BY <1>1, <3>2 DEF TypeOK
      <4>2. \A k \in Interval : rows'[k][x] = rows[k][x]
        BY <2>3, <4>1
      <4>3. PICK l \in Interval :
              \A k \in Interval : rows[k][x] = IF k = l THEN 1 ELSE 0
        BY <4>1 DEF CountedOnce
      <4> QED BY <4>2, <4>3
    <3> QED BY <3>1, <3>2
  <2>5. \A x \in Obs \ recorded' : \A l \in Interval : rows'[l][x] = 0
    BY <1>1, <2>3 DEF CountedOnce
  <2> QED BY <2>4, <2>5 DEF CountedOnce
<1>4. LockHeld' /\ PolicyChosen' /\ CutoffPast'
  BY <1>0 DEF LockHeld, PolicyChosen, CutoffPast, compactor, clock
<1>5. ASSUME NEW c \in Compactor, pc[c] = "write"
      PROVE  /\ \A x \in Obs : batch[c][x] > 0 => Bucket(x, Source(c))' <= cutoff[c]
             /\ \A x \in Obs :
                  batch[c][x] = IF Compacted(c, x)' THEN rows'[Source(c)][x] ELSE 0
  <2>1. policy[c] >= 1 /\ Source(c) \in Interval
    BY <1>5, PolicyOf DEF PolicyChosen
  <2>2. /\ \A x \in Obs : batch[c][x] > 0 => Bucket(x, Source(c)) <= cutoff[c]
        /\ \A x \in Obs :
             batch[c][x] = IF Compacted(c, x) THEN rows[Source(c)][x] ELSE 0
    BY <1>5 DEF BatchCurrent
  <2>3. batch[c][o] = 0
    BY <1>1, <2>1, <2>2 DEF CountedOnce
  <2>4. Source(c)' = Source(c) /\ batch' = batch /\ cutoff' = cutoff
    BY <1>0 DEF Source, compactor
  <2>5. \A x \in Obs \ {o} : Bucket(x, Source(c))' = Bucket(x, Source(c))
    BY <1>1, <2>4 DEF Bucket
  <2>6. \A x \in Obs \ {o} : Compacted(c, x)' <=> Compacted(c, x)
    <3> SUFFICES ASSUME NEW x \in Obs \ {o}
                 PROVE  Compacted(c, x)' <=> Compacted(c, x)
      OBVIOUS
    <3>1. \A y \in Obs : batch[c][y] > 0 => y # o
      BY <2>3
    <3> QED BY <2>4, <2>5, <3>1 DEF Compacted
  <2>7. Source(c) = LiveInterval => ~Compacted(c, o)'
    <3> SUFFICES ASSUME Source(c) = LiveInterval, NEW y \in Obs, batch[c][y] > 0,
                        Bucket(y, Source(c))' = Bucket(o, Source(c))'
                 PROVE  FALSE
      BY <2>4 DEF Compacted
    <3>1. y # o /\ Bucket(y, Source(c))' <= cutoff[c]
      BY <2>2, <2>3, <2>5
    <3>2. cutoff[c] + MaxLag + Width[LiveInterval] <= now
      <4>1. Policies[policy[c]].grace >= MaxLag + Width[LiveInterval]
            /\ Policies[policy[c]].grace \in Nat
        BY <2>1, PolicyOf
      <4>2. cutoff[c] + Policies[policy[c]].grace <= now
        BY <2>1 DEF CutoffPast
      <4>3. cutoff[c] \in Int /\ now \in Nat /\ MaxLag \in Nat
            /\ Width[LiveInterval] \in Nat
        BY ConstantsOk DEF TypeOK
      <4> QED BY <4>1, <4>2, <4>3
    <3>3. at'[o] - Width[LiveInterval] < Bucket(o, Source(c))'
      <4>1. Width[LiveInterval] \in Nat \ {0}
        BY ConstantsOk
      <4> QED BY <1>1, <2>4, <4>1, BucketNear DEF Bucket
    <3>4. /\ Bucket(o, Source(c))' \in Int /\ cutoff[c] \in Int /\ now \in Nat
          /\ MaxLag \in Nat /\ Width[LiveInterval] \in Nat
      <4>1. Width[LiveInterval] \in Nat \ {0} /\ MaxLag \in Nat
        BY ConstantsOk
      <4> QED BY <1>1, <2>4, <4>1, BucketNear DEF Bucket, TypeOK
    <3> QED BY <1>1, <3>1, <3>2, <3>3, <3>4
  <2>8. Source(c) # LiveInterval => rows'[Source(c)][o] = 0
    BY <1>1, <1>2, <2>1 DEF CountedOnce
  <2>9. \A x \in Obs : batch[c][x] > 0 => Bucket(x, Source(c))' <= cutoff[c]
    BY <2>2, <2>3, <2>5
  <2>10. \A x \in Obs \ {o} : rows'[Source(c)][x] = rows[Source(c)][x]
    BY <1>2, <2>1
  <2>11. \A x \in Obs \ {o} :
           batch[c][x] = IF Compacted(c, x)' THEN rows'[Source(c)][x] ELSE 0
    BY <2>2, <2>6, <2>10
  <2>12. batch[c][o] = IF Compacted(c, o)' THEN rows'[Source(c)][o] ELSE 0
    BY <2>3, <2>7, <2>8
  <2> QED BY <2>9, <2>11, <2>12
<1>6. BatchCurrent'
  BY <1>0, <1>5 DEF BatchCurrent, compactor, Source
<1>7. ReadAhead' /\ ReadComplete' /\ asked' \subseteq recorded'
  <2>1. \A x \in Obs, l \in Interval : rows[l][x] > 0 => rows'[l][x] > 0
    <3>1. \A l \in Interval : rows[l][o] = 0
      BY <1>1 DEF CountedOnce
    <3> QED BY <1>2, <3>1
  <2>2. ReadAhead' /\ asked' \subseteq recorded'
    BY <1>0, <1>1, <2>1 DEF ReadAhead, request, TypeOK, FirstQuery
  <2>3. \A x \in recorded : at'[x] = at[x]
    BY <1>1 DEF TypeOK
  <2> QED BY <1>0, <2>2, <2>3, ReadStays
<1>8. CompactedPast'
  <2> SUFFICES ASSUME NEW x \in recorded', rows'[LiveInterval][x] = 0
               PROVE  Bucket(x, LiveInterval)' + MaxLag + Width[LiveInterval] <= now'
    BY DEF CompactedPast
  <2>1. x # o
    <3>1. rows[LiveInterval][o] = 0
      BY <1>1, ConstantsOk DEF CountedOnce
    <3> QED BY <1>2, <3>1
  <2>2. x \in recorded /\ x \in Obs /\ rows[LiveInterval][x] = 0 /\ at'[x] = at[x]
    BY <1>1, <1>2, <2>1, ConstantsOk DEF TypeOK
  <2> QED BY <1>0, <2>2 DEF CompactedPast, Bucket, clock
<1>9. \A x \in recorded : MarketOf[x] = MarketOf[o] /\ at'[x] = at'[o] =>
                           \A l \in Interval : rows'[l][x] = rows'[l][o]
  <2> SUFFICES ASSUME NEW x \in recorded, at'[x] = at'[o], NEW l \in Interval
               PROVE  rows'[l][x] = rows'[l][o]
    OBVIOUS
  <2>1. x \in Obs /\ x # o /\ at[x] \in Nat /\ at[x] + MaxLag >= now /\ now \in Nat
        /\ MaxLag \in Nat /\ Width[LiveInterval] \in Nat \ {0}
    <3>1. x \in Obs /\ x # o /\ at[x] \in Nat /\ at'[x] = at[x] /\ now \in Nat
      BY <1>1 DEF TypeOK
    <3>2. MaxLag \in Nat /\ Width[LiveInterval] \in Nat \ {0}
      BY ConstantsOk
    <3> QED BY <1>1, <3>1, <3>2
  <2>2. rows[LiveInterval][x] # 0
    <3> SUFFICES ASSUME rows[LiveInterval][x] = 0 PROVE FALSE
      OBVIOUS
    <3>1. Bucket(x, LiveInterval) + MaxLag + Width[LiveInterval] <= now
      BY DEF CompactedPast
    <3>2. Bucket(x, LiveInterval) \in Int
          /\ at[x] - Width[LiveInterval] < Bucket(x, LiveInterval)
      BY <2>1, BucketNear DEF Bucket
    <3> QED BY <2>1, <3>1, <3>2
  <2>3. rows[l][x] = (IF l = LiveInterval THEN 1 ELSE 0) /\ rows[l][o] = 0
        /\ rows[LiveInterval][o] = 0
    BY <1>1, <2>2, ConstantsOk DEF CountedOnce
  <2> QED BY <1>2, <2>1, <2>3
<1>10. Together'
  <2> SUFFICES ASSUME NEW x \in recorded', NEW y \in recorded',
                      MarketOf[x] = MarketOf[y], at'[x] = at'[y]
               PROVE  \A l \in Interval : rows'[l][x] = rows'[l][y]
    BY DEF Together
  <2>1. CASE x = o \/ y = o
    BY <1>1, <1>9, <2>1
  <2>2. CASE x # o /\ y # o
    <3>1. x \in recorded /\ y \in recorded /\ x \in Obs \ {o} /\ y \in Obs \ {o}
      BY <1>1, <2>2 DEF TypeOK
    <3>2. \A l \in Interval : rows[l][x] = rows[l][y]
      BY <1>1, <3>1 DEF Together
    <3> QED BY <1>2, <3>1, <3>2
  <2> QED BY <2>1, <2>2
<1> QED BY <1>3, <1>4, <1>6, <1>7, <1>8, <1>10

\* A step of a compactor that moves no row.
LEMMA RowsStay ==
  ASSUME LedgerInv, ReadComplete, UNCHANGED <<ledger, request>>, now <= now', now' \in Nat
  PROVE  /\ CountedOnce' /\ Together' /\ CompactedPast'
         /\ ReadAhead' /\ ReadComplete' /\ (asked \subseteq recorded)'
<1>1. CountedOnce' /\ Together' /\ ReadAhead' /\ (asked \subseteq recorded)'
  BY DEF LedgerInv, ledger, request, CountedOnce, Together, ReadAhead, FirstQuery
<1>2. CompactedPast'
  <2> SUFFICES ASSUME NEW o \in recorded, rows[LiveInterval][o] = 0
               PROVE  Bucket(o, LiveInterval) + MaxLag + Width[LiveInterval] <= now'
    BY DEF CompactedPast, ledger, Bucket
  <2>1. Bucket(o, LiveInterval) + MaxLag + Width[LiveInterval] <= now
    BY DEF LedgerInv, CompactedPast
  <2>2. Bucket(o, LiveInterval) \in Int /\ MaxLag \in Nat /\ Width[LiveInterval] \in Nat
        /\ now \in Nat
    <3>1. at[o] \in Nat /\ Width[LiveInterval] \in Nat \ {0} /\ MaxLag \in Nat
      BY ConstantsOk DEF LedgerInv, TypeOK
    <3> QED BY <3>1, BucketNear DEF Bucket, LedgerInv, TypeOK
  <2> QED BY <2>1, <2>2
<1>3. ReadComplete'
  BY ReadStays DEF LedgerInv, ledger
<1> QED BY <1>1, <1>2, <1>3

\* BatchCurrent of the runs that a step does not touch.
LEMMA OtherBatches ==
  ASSUME LedgerInv, UNCHANGED ledger, NEW c \in Compactor,
         pc'[c] = pc[c], policy'[c] = policy[c], cutoff'[c] = cutoff[c],
         batch'[c] = batch[c], pc[c] = "write"
  PROVE  /\ \A o \in Obs : batch'[c][o] > 0 => Bucket(o, Source(c))' <= cutoff'[c]
         /\ \A o \in Obs :
              batch'[c][o] = IF Compacted(c, o)' THEN rows'[Source(c)'][o] ELSE 0
<1>1. Source(c)' = Source(c) /\ \A o \in Obs : Bucket(o, Source(c))' = Bucket(o, Source(c))
  BY DEF Source, Bucket, ledger
<1>2. \A o \in Obs : Compacted(c, o)' <=> Compacted(c, o)
  BY <1>1 DEF Compacted
<1> QED BY <1>1, <1>2 DEF LedgerInv, BatchCurrent, ledger

\* The clock, a close and the reader disturb no run.
LEMMA QuietInv ==
  ASSUME LedgerInv, UNCHANGED <<ledger, compactor>>, now' \in Nat, now <= now'
  PROVE  LockHeld' /\ PolicyChosen' /\ CutoffPast' /\ BatchCurrent' /\ CountedOnce'
<1> USE DEF LedgerInv, compactor
<1>1. LockHeld' /\ PolicyChosen'
  BY DEF LockHeld, PolicyChosen
<1>2. CutoffPast'
  <2> SUFFICES ASSUME NEW c \in Compactor, policy[c] >= 1
               PROVE  cutoff[c] + Policies[policy[c]].grace <= now'
    BY DEF CutoffPast
  <2> QED BY PolicyOf DEF CutoffPast, TypeOK
<1>3. BatchCurrent'
  BY OtherBatches DEF BatchCurrent
<1>4. CountedOnce'
  BY DEF CountedOnce, ledger
<1> QED BY <1>1, <1>2, <1>3, <1>4

\* A run begins, with the lock.
LEMMA TryLockInv ==
  ASSUME LedgerInv, ReadComplete, TypeOK', NEW c \in Compactor, TryLock(c)
  PROVE  LedgerInv' /\ ReadComplete'
<1> USE DEF LedgerInv
<1>0. /\ lock = Nobody /\ lock' = c /\ pc' = [pc EXCEPT ![c] = "next"]
      /\ UNCHANGED <<now, ledger, request, policy, cutoff, todo, batch>>
      /\ pc[c] = "idle"
  BY DEF TryLock, clock
<1>1. LockHeld'
  BY <1>0, ConstantsOk DEF LockHeld, TypeOK
<1>2. PolicyChosen' /\ CutoffPast'
  BY <1>0 DEF PolicyChosen, CutoffPast, TypeOK
<1>3. BatchCurrent'
  <2> SUFFICES ASSUME NEW d \in Compactor, pc'[d] = "write" PROVE d # c
    BY <1>0, OtherBatches DEF BatchCurrent, TypeOK
  <2> QED BY <1>0 DEF TypeOK
<1> QED BY <1>0, <1>1, <1>2, <1>3, RowsStay DEF TypeOK

\* The cutoff of a policy is its grace before the present.
LEMMA StartPolicyInv ==
  ASSUME LedgerInv, ReadComplete, TypeOK', NEW c \in Compactor, StartPolicy(c)
  PROVE  LedgerInv' /\ ReadComplete'
<1> USE DEF LedgerInv
<1>0. /\ pc[c] = "next" /\ policy' = [policy EXCEPT ![c] = policy[c] + 1]
      /\ cutoff' = [cutoff EXCEPT ![c] = now - Policies[policy[c] + 1].grace]
      /\ \A d \in Compactor : d # c => todo'[d] = todo[d]
      /\ UNCHANGED <<now, ledger, request, lock, pc, batch>>
  BY DEF StartPolicy, clock, TypeOK
<1>1. LockHeld'
  BY <1>0 DEF LockHeld
<1>2. PolicyChosen'
  BY <1>0 DEF PolicyChosen, TypeOK
<1>3. CutoffPast'
  <2>1. policy'[c] = policy[c] + 1 /\ policy'[c] >= 1
        /\ cutoff'[c] = now - Policies[policy'[c]].grace
    BY <1>0 DEF TypeOK
  <2>2. Policies[policy'[c]].grace \in Nat
    <3>1. policy'[c] \in 1..Len(Policies)
      BY <2>1, ConstantsOk DEF TypeOK
    <3> DEFINE P == [source : Interval, target : Interval, grace : Nat,
                     closedOnly : BOOLEAN]
    <3>2. Policies \in Seq(P)
      BY ConstantsOk
    <3>3. Policies[policy'[c]] \in P
      <4> HIDE DEF P
      <4> QED BY <3>1, <3>2, EntryOf
    <3> QED BY <3>3
  <2>3. cutoff'[c] + Policies[policy'[c]].grace <= now'
    BY <1>0, <2>1, <2>2 DEF TypeOK
  <2>4. \A d \in Compactor \ {c} : policy'[d] = policy[d] /\ cutoff'[d] = cutoff[d]
    BY <1>0 DEF TypeOK
  <2> QED BY <1>0, <2>3, <2>4 DEF CutoffPast
<1>4. BatchCurrent'
  <2> SUFFICES ASSUME NEW d \in Compactor, pc'[d] = "write" PROVE d # c
    BY <1>0, OtherBatches DEF BatchCurrent, TypeOK
  <2> QED BY <1>0 DEF TypeOK
<1> QED BY <1>0, <1>1, <1>2, <1>3, <1>4, RowsStay DEF TypeOK

\* What a run reads is the source rows of whole buckets before the cutoff.
LEMMA SelectRowsInv ==
  ASSUME LedgerInv, ReadComplete, TypeOK', NEW c \in Compactor, SelectRows(c)
  PROVE  LedgerInv' /\ ReadComplete'
<1> USE DEF LedgerInv
<1>a. PICK m \in First(todo[c], 1) :
        /\ todo' = [todo EXCEPT ![c] = todo[c] \ {m}]
        /\ batch' = [batch EXCEPT ![c] =
             [o \in Obs |->
                IF MarketOf[o] = m /\ Bucket(o, Source(c)) \in SourceBuckets(c, m)
                  THEN rows[Source(c)][o] ELSE 0]]
        /\ pc' = [pc EXCEPT ![c] =
             IF SourceBuckets(c, m) = {} THEN "next" ELSE "write"]
  BY DEF SelectRows
<1> DEFINE sel == SourceBuckets(c, m)
<1>b. m \in todo[c] /\ sel \subseteq OldBuckets(m, Source(c), cutoff[c])
  BY DEF First, SourceBuckets
<1>1. /\ sel \subseteq OldBuckets(m, Source(c), cutoff[c])
      /\ todo' = [todo EXCEPT ![c] = todo[c] \ {m}]
      /\ batch' = [batch EXCEPT ![c] =
           [o \in Obs |-> IF MarketOf[o] = m /\ Bucket(o, Source(c)) \in sel
                            THEN rows[Source(c)][o] ELSE 0]]
      /\ pc' = [pc EXCEPT ![c] = IF sel = {} THEN "next" ELSE "write"]
      /\ todo[c] # {}
  BY <1>a, <1>b
<1> HIDE DEF sel
<1>2. /\ pc[c] = "next" /\ UNCHANGED <<now, ledger, request, lock, policy, cutoff>>
      /\ policy[c] >= 1
  BY <1>1 DEF SelectRows, clock, PolicyChosen
<1>3. LockHeld'
  BY <1>1, <1>2 DEF LockHeld, TypeOK
<1>4. \A o \in Obs : batch'[c][o] = IF MarketOf[o] = m /\ Bucket(o, Source(c)) \in sel
                                   THEN rows[Source(c)][o] ELSE 0
  BY <1>1 DEF TypeOK
<1>5. PolicyChosen'
  <2>1. pc'[c] # "write" => batch'[c] = NoRows
    BY <1>1 DEF TypeOK, NoRows
  <2>2. \A d \in Compactor \ {c} :
          pc'[d] = pc[d] /\ todo'[d] = todo[d] /\ batch'[d] = batch[d]
    BY <1>1 DEF TypeOK
  <2> QED BY <1>2, <2>1, <2>2 DEF PolicyChosen
<1>6. CutoffPast'
  BY <1>2 DEF CutoffPast
<1>7. Source(c)' = Source(c) /\ \A o \in Obs : Bucket(o, Source(c))' = Bucket(o, Source(c))
  BY <1>2 DEF Source, Bucket, ledger
<1>8. \A o \in Obs : batch'[c][o] > 0 => Bucket(o, Source(c))' <= cutoff'[c]
  <2>1. \A b \in sel : b <= cutoff[c]
    BY <1>1 DEF OldBuckets
  <2> QED BY <1>2, <1>4, <1>7, <2>1
<1>9. \A o \in Obs :
        batch'[c][o] = IF Compacted(c, o)' THEN rows'[Source(c)'][o] ELSE 0
  <2> SUFFICES ASSUME NEW o \in Obs
               PROVE  batch'[c][o] = IF Compacted(c, o)' THEN rows'[Source(c)'][o] ELSE 0
    OBVIOUS
  <2>0. rows[Source(c)] \in [Obs -> Nat] /\ rows' = rows
    BY <1>2, PolicyOf DEF TypeOK, ledger
  <2>1. CASE MarketOf[o] = m /\ Bucket(o, Source(c)) \in sel
    <3>1. batch'[c][o] = rows[Source(c)][o]
      BY <1>4, <2>1
    <3>2. rows[Source(c)][o] > 0 => Compacted(c, o)'
      BY <1>7, <3>1 DEF Compacted
    <3> QED BY <1>7, <2>0, <3>1, <3>2
  <2>2. CASE ~(MarketOf[o] = m /\ Bucket(o, Source(c)) \in sel)
    <3>1. batch'[c][o] = 0
      BY <1>4, <2>2
    <3>2. ~Compacted(c, o)'
      BY <1>4, <1>7, <2>2 DEF Compacted
    <3> QED BY <3>1, <3>2
  <2> QED BY <2>1, <2>2
<1>10. BatchCurrent'
  <2>1. \A d \in Compactor \ {c} :
          pc'[d] = pc[d] /\ policy'[d] = policy[d] /\ cutoff'[d] = cutoff[d]
            /\ batch'[d] = batch[d]
    BY <1>1, <1>2 DEF TypeOK
  <2> QED BY <1>2, <1>8, <1>9, <2>1, OtherBatches DEF BatchCurrent
<1>11. now \in Nat
  BY DEF TypeOK
<1> QED BY <1>2, <1>3, <1>5, <1>6, <1>10, <1>11, RowsStay

\* The transaction of a compaction moves each count of the batch from the
\* source row to the target row, and touches no other.
LEMMA RewriteInv ==
  ASSUME LedgerInv, ReadComplete, TypeOK', NEW c \in Compactor, Rewrite(c)
  PROVE  LedgerInv' /\ ReadComplete'
<1> USE DEF LedgerInv
<1> DEFINE s == Source(c)
           t == Target(c)
<1>0. /\ pc[c] = "write" /\ pc' = [pc EXCEPT ![c] = "next"]
      /\ batch' = [batch EXCEPT ![c] = NoRows]
      /\ UNCHANGED <<now, at, recorded, lock, policy, cutoff, todo, request>>
  BY DEF Rewrite, clock
<1>1. s \in Interval /\ t \in Interval /\ s # t /\ t # LiveInterval
  BY <1>0, PolicyOf DEF PolicyChosen
<1>2. /\ \A o \in Obs : /\ rows'[s][o] = IF Compacted(c, o) THEN 0 ELSE rows[s][o]
                        /\ rows'[t][o] = rows[t][o] + batch[c][o]
      /\ \A l \in Interval \ {s, t} : rows'[l] = rows[l]
  BY RewriteRows
<1>3. \A o \in Obs : batch[c][o] = IF Compacted(c, o) THEN rows[s][o] ELSE 0
  BY <1>0 DEF BatchCurrent
<1>r. rows \in [Interval -> [Obs -> Nat]]
  BY DEF TypeOK
<1> HIDE DEF s, t
<1>4. ASSUME NEW o \in Obs, NEW l \in Interval,
             \A k \in Interval : rows[k][o] = IF k = l THEN 1 ELSE 0
      PROVE  \E j \in Interval :
               /\ \A k \in Interval : rows'[k][o] = IF k = j THEN 1 ELSE 0
               /\ j \in {l, t}
  <2>1. CASE Compacted(c, o) /\ l = s
    <3>1. rows'[s][o] = 0 /\ rows'[t][o] = 1
      BY <1>1, <1>2, <1>3, <1>4, <2>1
    <3>2. \A k \in Interval \ {s, t} : rows'[k][o] = 0
      BY <1>2, <1>4, <2>1
    <3> QED BY <1>1, <3>1, <3>2
  <2>2. CASE ~(Compacted(c, o) /\ l = s)
    <3>1. batch[c][o] = 0
      BY <1>1, <1>3, <1>4, <2>2
    <3>2. rows'[s][o] = rows[s][o] /\ rows'[t][o] = rows[t][o]
      BY <1>1, <1>2, <1>3, <1>r, <3>1
    <3>3. \A k \in Interval : rows'[k][o] = rows[k][o]
      BY <1>2, <3>2
    <3> QED BY <1>4, <3>3
  <2> QED BY <2>1, <2>2
<1>5. CountedOnce'
  <2>1. ASSUME NEW o \in Obs \ recorded, NEW l \in Interval PROVE rows'[l][o] = 0
    <3>1. \A k \in Interval : rows[k][o] = 0
      BY DEF CountedOnce
    <3>2. batch[c][o] = 0
      BY <1>1, <1>3, <3>1
    <3> QED BY <1>1, <1>2, <3>1, <3>2
  <2>2. ASSUME NEW o \in recorded
        PROVE  \E j \in Interval : \A k \in Interval :
                 rows'[k][o] = IF k = j THEN 1 ELSE 0
    <3>1. o \in Obs
      BY DEF TypeOK
    <3>2. PICK l \in Interval :
            \A k \in Interval : rows[k][o] = IF k = l THEN 1 ELSE 0
      BY DEF CountedOnce
    <3> QED BY <1>4, <3>1, <3>2
  <2> QED BY <1>0, <2>1, <2>2 DEF CountedOnce
<1>6. LockHeld' /\ PolicyChosen' /\ CutoffPast'
  BY <1>0 DEF LockHeld, PolicyChosen, CutoffPast, TypeOK
<1>7. BatchCurrent'
  <2> SUFFICES ASSUME NEW d \in Compactor, pc'[d] = "write" PROVE FALSE
    BY DEF BatchCurrent
  <2>1. d # c /\ pc[d] = "write"
    BY <1>0 DEF TypeOK
  <2> QED BY <1>0, <2>1 DEF LockHeld
<1>8. ReadAhead'
  <2> SUFFICES ASSUME reader = "half", NEW o \in asked, ~ \E d \in gathered : d[2] = o
               PROVE  \E l \in Interval \ FirstQuery : rows'[l][o] > 0
    BY <1>0 DEF ReadAhead, request, FirstQuery
  <2>1. o \in recorded /\ o \in Obs
    BY DEF TypeOK
  <2>2. PICK l \in Interval \ FirstQuery : rows[l][o] > 0
    BY DEF ReadAhead
  <2>3. PICK k \in Interval : \A j \in Interval : rows[j][o] = IF j = k THEN 1 ELSE 0
    BY <2>1 DEF CountedOnce
  <2>4. k = l
    BY <2>2, <2>3
  <2>5. PICK j \in {l, t} : rows'[j][o] = 1 /\ j \in Interval
    BY <1>4, <2>1, <2>3, <2>4
  <2> QED BY <1>1, <2>2, <2>5 DEF FirstQuery
<1>9. \A o \in Obs : Bucket(o, s)' = Bucket(o, s)
                    /\ Bucket(o, LiveInterval)' = Bucket(o, LiveInterval)
  <2>1. at' = at /\ s' = s
    BY <1>0 DEF s, Source
  <2> QED BY <2>1 DEF Bucket
<1>10. Together'
  <2> SUFFICES ASSUME NEW o \in recorded, NEW p \in recorded,
                      MarketOf[o] = MarketOf[p], at[o] = at[p], NEW l \in Interval
               PROVE  rows'[l][o] = rows'[l][p]
    BY <1>0 DEF Together
  <2>1. o \in Obs /\ p \in Obs /\ \A k \in Interval : rows[k][o] = rows[k][p]
    BY DEF TypeOK, Together
  <2>2. Compacted(c, o) <=> Compacted(c, p)
    BY DEF Compacted, Bucket
  <2>3. batch[c][o] = batch[c][p]
    BY <1>1, <1>3, <2>1, <2>2
  <2> QED BY <1>1, <1>2, <2>1, <2>2, <2>3
<1>11. CompactedPast'
  <2> SUFFICES ASSUME NEW o \in recorded, rows'[LiveInterval][o] = 0
               PROVE  Bucket(o, LiveInterval) + MaxLag + Width[LiveInterval] <= now
    BY <1>0, <1>9 DEF CompactedPast, TypeOK
  <2>1. CASE rows[LiveInterval][o] = 0
    BY <2>1 DEF CompactedPast
  <2>2. CASE rows[LiveInterval][o] # 0
    <3>1. o \in Obs /\ LiveInterval \in Interval
      BY ConstantsOk DEF TypeOK
    <3>2. s = LiveInterval /\ Compacted(c, o)
      BY <1>1, <1>2, <2>2, <3>1
    <3>3. PICK x \in Obs : batch[c][x] > 0 /\ Bucket(x, s) = Bucket(o, s)
      BY <3>2 DEF Compacted, s
    <3>4. Bucket(o, LiveInterval) <= cutoff[c]
      BY <1>0, <3>2, <3>3 DEF BatchCurrent, s
    <3>5. /\ Policies[policy[c]].grace \in Nat
          /\ Policies[policy[c]].grace >= MaxLag + Width[LiveInterval]
          /\ cutoff[c] + Policies[policy[c]].grace <= now
      BY <1>0, <3>2, PolicyOf DEF PolicyChosen, CutoffPast, s
    <3>6. /\ Bucket(o, LiveInterval) \in Int /\ cutoff[c] \in Int /\ now \in Nat
          /\ MaxLag \in Nat /\ Width[LiveInterval] \in Nat
      <4>1. at[o] \in Nat /\ Width[LiveInterval] \in Nat \ {0} /\ MaxLag \in Nat
        BY <3>1, ConstantsOk DEF TypeOK
      <4> QED BY <4>1, BucketNear DEF Bucket, TypeOK
    <3> QED BY <3>4, <3>5, <3>6
  <2> QED BY <2>1, <2>2
<1>12. ReadComplete'
  BY <1>0, ReadStays
<1> QED BY <1>0, <1>5, <1>6, <1>7, <1>8, <1>10, <1>11, <1>12 DEF request

\* A run ends, by itself or not.
LEMMA LeaveInv ==
  ASSUME LedgerInv, ReadComplete, TypeOK', NEW c \in Compactor, Finish(c) \/ Abort(c)
  PROVE  LedgerInv' /\ ReadComplete'
<1> USE DEF LedgerInv
<1>0. /\ lock = c /\ lock' = Nobody
      /\ pc' = [pc EXCEPT ![c] = "idle"]
      /\ policy' = [policy EXCEPT ![c] = 0]
      /\ cutoff' = [cutoff EXCEPT ![c] = 0]
      /\ todo' = [todo EXCEPT ![c] = {}]
      /\ batch' = [batch EXCEPT ![c] = NoRows]
      /\ UNCHANGED <<now, ledger, request>>
  BY DEF Finish, Abort, Leave, clock, LockHeld
<1>1. \A d \in Compactor \ {c} :
        /\ pc'[d] = pc[d] /\ policy'[d] = policy[d] /\ cutoff'[d] = cutoff[d]
        /\ todo'[d] = todo[d] /\ batch'[d] = batch[d]
  BY <1>0 DEF TypeOK
<1>2. pc'[c] = "idle" /\ policy'[c] = 0 /\ todo'[c] = {} /\ batch'[c] = NoRows
  BY <1>0 DEF TypeOK
<1>3. LockHeld'
  BY <1>0, <1>1, <1>2, ConstantsOk DEF LockHeld
<1>4. PolicyChosen'
  BY <1>1, <1>2 DEF PolicyChosen
<1>5. CutoffPast'
  BY <1>0, <1>1, <1>2 DEF CutoffPast
<1>6. BatchCurrent'
  BY <1>0, <1>1, <1>2, OtherBatches DEF BatchCurrent
<1>7. now \in Nat
  BY DEF TypeOK
<1> QED BY <1>0, <1>3, <1>4, <1>5, <1>6, <1>7, RowsStay

\* The answer of a request: a row that it drops has the timestamp of a live
\* row, whose last observation is therefore in the dropped row too.
LEMMA AnswerComplete ==
  ASSUME LedgerInv, ReadSecond
  PROVE  ReadComplete'
<1> USE DEF LedgerInv
<1> DEFINE wider == Interval \ {LiveInterval}
<1>1. /\ UNCHANGED <<at, rows, recorded, asked>> /\ gathered' = gathered \cup Cells(wider)
      /\ gathered \subseteq {LiveInterval} \X recorded
      /\ recorded \subseteq Obs /\ asked \subseteq recorded
  BY DEF ReadSecond, ReadAhead, FirstQuery, ledger, TypeOK
<1>2. \A l \in wider, o \in Obs : <<l, o>> \in gathered' <=> rows[l][o] > 0
  BY <1>1 DEF Cells
<1>3. ASSUME NEW d \in gathered'
      PROVE  /\ d[1] \in Interval /\ d[2] \in recorded
             /\ d[1] # LiveInterval => rows[d[1]][d[2]] > 0
             /\ d[1] = LiveInterval => <<LiveInterval, d[2]>> \in gathered'
  <2>1. CASE d \in gathered
    BY <1>1, <2>1, ConstantsOk
  <2>2. CASE d \in Cells(wider)
    <3>1. d \in wider \X Obs /\ rows[d[1]][d[2]] > 0
      BY <2>2 DEF Cells
    <3>2. d[1] \in wider /\ d[2] \in recorded
      BY <3>1 DEF CountedOnce
    <3> QED BY <3>1, <3>2
  <2> QED BY <1>1, <2>1, <2>2
<1>t. \A l \in Interval : l \in Nat \ {0}
  BY ConstantsOk
<1>4. \A c \in gathered' : \A x \in Latest(c)' : x \in gathered' /\ OneRow(c, x)'
  BY DEF Latest
<1> HIDE DEF wider
<1>5. ASSUME NEW c \in gathered', Dropped(c)'
      PROVE  \E d \in gathered' :
               /\ OneRow(c, d)' /\ c[1] # LiveInterval
               /\ <<LiveInterval, d[2]>> \in gathered'
  <2>0. PICK d \in gathered' :
          /\ d[1] < c[1] /\ MarketOf[d[2]] = MarketOf[c[2]]
          /\ \E x \in Latest(c)', y \in Latest(d)' : at[x[2]] = at[y[2]]
    BY <1>1, <1>5 DEF Dropped
  <2>1. PICK x \in Latest(c)', y \in Latest(d)' : at[x[2]] = at[y[2]]
    BY <2>0
  <2>2. /\ x \in gathered' /\ c[1] = x[1] /\ MarketOf[c[2]] = MarketOf[x[2]]
        /\ Bucket(c[2], c[1])' = Bucket(x[2], c[1])'
        /\ y \in gathered' /\ d[1] = y[1] /\ MarketOf[d[2]] = MarketOf[y[2]]
    BY <1>4, <2>0, <2>1 DEF OneRow
  <2>3. c[1] # LiveInterval /\ c[1] \in wider /\ c[1] # y[1]
    <3>1. c[1] \in Nat \ {0} /\ d[1] \in Nat \ {0} /\ c[1] \in Interval
      BY <1>3, <1>t
    <3> QED BY <2>0, <2>2, <3>1 DEF LiveInterval, wider
  <2>4. /\ x[2] \in recorded /\ y[2] \in recorded /\ y[1] \in Interval
        /\ \A l \in Interval : rows[l][x[2]] = rows[l][y[2]]
    <3>1. x[2] \in recorded /\ y[2] \in recorded /\ y[1] \in Interval
      BY <1>3, <2>2
    <3>2. MarketOf[x[2]] = MarketOf[y[2]] /\ at[x[2]] = at[y[2]]
      BY <2>0, <2>1, <2>2
    <3> QED BY <3>1, <3>2 DEF Together
  <2>5. rows[c[1]][x[2]] > 0 /\ rows[c[1]][y[2]] > 0
    BY <1>3, <2>2, <2>3, <2>4
  <2>6. y[1] = LiveInterval
    <3> SUFFICES ASSUME y[1] # LiveInterval PROVE FALSE
      OBVIOUS
    <3>1. rows[y[1]][y[2]] > 0
      BY <1>3, <2>2
    <3>2. c[1] \in Interval
      BY <1>3, <1>t
    <3> QED BY <2>3, <2>4, <2>5, <3>1, <3>2 DEF CountedOnce
  <2>7. <<c[1], y[2]>> \in gathered' /\ <<LiveInterval, y[2]>> \in gathered'
    <3>1. <<c[1], y[2]>> \in gathered'
      BY <1>1, <1>2, <2>3, <2>4, <2>5
    <3>2. <<LiveInterval, y[2]>> \in gathered'
      BY <1>3, <2>2, <2>6
    <3> QED BY <3>1, <3>2
  <2>8. OneRow(c, <<c[1], y[2]>>)'
    <3>1. at[x[2]] = at[y[2]] /\ MarketOf[c[2]] = MarketOf[y[2]] /\ at' = at
      BY <1>1, <2>0, <2>1, <2>2
    <3>2. at[c[2]] - (at[c[2]] % Width[c[1]]) = at[y[2]] - (at[y[2]] % Width[c[1]])
      BY <2>2, <3>1 DEF Bucket
    <3> DEFINE z == <<c[1], y[2]>>
    <3>3. z[1] = c[1] /\ z[2] = y[2]
      OBVIOUS
    <3> HIDE DEF z
    <3>4. OneRow(c, z)'
      BY <3>1, <3>2, <3>3 DEF OneRow, Bucket
    <3> QED BY <3>4 DEF z
  <2> QED BY <2>3, <2>7, <2>8
<1>6. ASSUME NEW o \in asked PROVE \E c \in gathered' : c[2] = o
  <2>1. CASE \E c \in gathered : c[2] = o
    BY <1>1, <2>1
  <2>2. CASE \E l \in Interval \ FirstQuery : rows[l][o] > 0
    <3>1. PICK l \in wider : rows[l][o] > 0
      BY <2>2 DEF FirstQuery, wider
    <3>2. <<l, o>> \in gathered' /\ <<l, o>>[2] = o
      BY <1>1, <1>2, <3>1
    <3> QED BY <3>2
  <2> QED BY <2>1, <2>2 DEF ReadSecond, ReadAhead
<1>7. ASSUME NEW o \in asked, o \notin Shown'
      PROVE  \E c, d \in gathered' :
               /\ c[2] = o /\ OneRow(c, d)'
               /\ c[1] # LiveInterval /\ <<LiveInterval, d[2]>> \in gathered'
  <2>1. PICK c \in gathered' : c[2] = o
    BY <1>6
  <2>2. Dropped(c)'
    BY <1>7, <2>1 DEF Shown
  <2> QED BY <1>5, <2>1, <2>2
<1> QED BY <1>1, <1>7 DEF ReadComplete

\* A request: what it has not seen in the first query is where the second
\* query looks, and stays there.
LEMMA ReadInv ==
  ASSUME LedgerInv, ReadComplete, TypeOK', Read
  PROVE  LedgerInv' /\ ReadComplete'
<1> USE DEF LedgerInv
<1>1. UNCHANGED <<ledger, compactor>> /\ now' = now
  BY DEF Read, ReadFirst, ReadSecond, Answer, clock
<1>2. /\ LockHeld' /\ PolicyChosen' /\ CutoffPast' /\ BatchCurrent' /\ CountedOnce'
      /\ Together' /\ CompactedPast'
  <2>1. LockHeld' /\ PolicyChosen' /\ CutoffPast' /\ BatchCurrent' /\ CountedOnce'
    BY <1>1, QuietInv DEF TypeOK
  <2>2. Together' /\ CompactedPast'
    BY <1>1 DEF Together, CompactedPast, Bucket, ledger
  <2> QED BY <2>1, <2>2
<1>3. recorded' = recorded /\ rows' = rows
  BY <1>1 DEF ledger
<1>4. CASE ReadFirst
  <2>1. ASSUME NEW o \in recorded, ~ \E c \in Cells(FirstQuery) : c[2] = o
        PROVE  \E l \in Interval \ FirstQuery : rows[l][o] > 0
    <3>1. PICK l \in Interval : \A k \in Interval : rows[k][o] = IF k = l THEN 1 ELSE 0
      BY DEF CountedOnce
    <3>2. o \in Obs
      BY DEF TypeOK
    <3>3. l \notin FirstQuery
      <4> SUFFICES ASSUME l \in FirstQuery PROVE FALSE
        OBVIOUS
      <4>1. <<l, o>> \in Cells(FirstQuery) /\ <<l, o>>[2] = o
        BY <3>1, <3>2 DEF Cells
      <4> QED BY <2>1, <4>1
    <3> QED BY <3>1, <3>3
  <2>2. Cells(FirstQuery) \subseteq FirstQuery \X recorded /\ FirstQuery \subseteq Interval
    BY ConstantsOk DEF Cells, CountedOnce, FirstQuery
  <2>3. ReadAhead'
    BY <1>3, <1>4, <2>1, <2>2 DEF ReadFirst, ReadAhead, FirstQuery
  <2> QED BY <1>2, <1>3, <1>4, <2>3 DEF ReadFirst, ReadComplete
<1>5. CASE ReadSecond
  <2>1. Cells(Interval \ FirstQuery) \subseteq Interval \X recorded
    BY DEF Cells, CountedOnce
  <2>2. ReadAhead'
    BY <1>3, <1>5, <2>1 DEF ReadSecond, ReadAhead
  <2> QED BY <1>2, <1>3, <1>5, <2>2, AnswerComplete DEF ReadSecond
<1>6. CASE Answer
  BY <1>2, <1>3, <1>6 DEF Answer, ReadAhead, ReadComplete
<1> QED BY <1>4, <1>5, <1>6 DEF Read

-----------------------------------------------------------------------------
\* The ledger invariant holds in every reachable state.
THEOREM ChartLedger == Spec => [](LedgerInv /\ ReadComplete)
<1>1. LedgerInv /\ ReadComplete /\ [Next]_vars => (LedgerInv /\ ReadComplete)'
  <2> SUFFICES ASSUME LedgerInv, ReadComplete, [Next]_vars
               PROVE  LedgerInv' /\ ReadComplete'
    OBVIOUS
  <2>0. TypeOK'
    BY LedgerType DEF LedgerInv
  <2>1. CASE Tick \/ (\E m \in Market : CloseMarket(m)) \/ UNCHANGED vars
    <3>1. /\ UNCHANGED <<ledger, compactor, request>>
          /\ now' \in Nat /\ now <= now'
      BY <2>1 DEF Tick, CloseMarket, vars, clock, LedgerInv, TypeOK
    <3>2. LockHeld' /\ PolicyChosen' /\ CutoffPast' /\ BatchCurrent'
      BY <3>1, QuietInv
    <3> QED BY <2>0, <3>1, <3>2, RowsStay DEF LedgerInv
  <2>2. CASE \E o \in Obs : Record(o)
    BY <2>0, <2>2, RecordInv
  <2>3. ASSUME NEW c \in Compactor, Compact(c) \/ Abort(c)
        PROVE  LedgerInv' /\ ReadComplete'
    BY <2>0, <2>3, TryLockInv, StartPolicyInv, SelectRowsInv, RewriteInv, LeaveInv
       DEF Compact
  <2>4. CASE Read
    BY <2>0, <2>4, ReadInv
  <2> QED BY <2>1, <2>2, <2>3, <2>4 DEF Next, Write
<1> QED BY <1>1, LedgerInit, PTL DEF Spec

\* Every recorded observation is counted exactly once, whatever the compactors
\* do, fail or leave half done.
THEOREM ChartCountedOnce == Spec => []CountedOnce
<1>1. LedgerInv /\ ReadComplete => CountedOnce
  BY DEF LedgerInv
<1> QED BY <1>1, ChartLedger, PTL

\* A series request shows every observation recorded before it began, or has
\* it in a row that a compaction between its queries added to and the endpoint
\* drops for the live row with the same timestamp.
THEOREM ChartReadComplete == Spec => []ReadComplete
BY ChartLedger, PTL

----------------------------------------------------------------------------
(* Rows. The two ways to merge chart rows are one operation, and the cut of *)
(* a compaction does not show in its result, for all prices and times.      *)

\* A field of a row is a number or Null.
LEMMA RowFields ==
  ASSUME NEW r \in Row
  PROVE  /\ r.rank \in 0..3
         /\ \A v \in {r.open, r.high, r.low, r.close, r.first, r.last,
                      r.bidOpen, r.bidHigh, r.bidLow, r.bidClose,
                      r.bidFirst, r.bidLast} : v \in Int /\ v >= Null
BY DEF Row, Value, Null

\* The price that closes a row is chosen alike by SQL and by Python.
LEMMA CloseAgrees ==
  ASSUME NEW x, NEW y, WellFormed(x), WellFormed(y)
  PROVE  ClosePriceIsBetter(x, y) <=> PriceRowWins(y, x)
BY RowFields DEF WellFormed, ClosePriceIsBetter, PriceRowWins, NotBefore, Null

\* So is the quote.
LEMMA QuoteAgrees ==
  ASSUME NEW x, NEW y, WellFormed(x), WellFormed(y)
  PROVE  QuoteIsNewer(x, y) <=> QuoteRowIsNewer(y, x)
BY RowFields DEF WellFormed, QuoteIsNewer, QuoteRowIsNewer, NotBefore, Null

\* The open fields are chosen alike, or are Null in both rows.
LEMMA OpenAgrees ==
  ASSUME NEW x, NEW y, WellFormed(x), WellFormed(y)
  PROVE  /\ (IF x.first = Null \/ Before(y.first, x.first) THEN y.open ELSE x.open)
              = (IF HasEarlierTs(y.first, x.first) THEN y.open ELSE x.open)
         /\ (IF x.bidFirst = Null \/ Before(y.bidFirst, x.bidFirst)
               THEN y.bidOpen ELSE x.bidOpen)
              = (IF HasEarlierTs(y.bidFirst, x.bidFirst) THEN y.bidOpen ELSE x.bidOpen)
BY RowFields DEF WellFormed, HasEarlierTs, Before, Null

\* The upsert and the Python merge are the same function of two rows that the
\* service can write: it does not matter which rows share a statement.
THEOREM SqlIsPython ==
  \A x, y : WellFormed(x) /\ WellFormed(y) => SqlMerge(x, y) = PyMerge(x, y)
BY CloseAgrees, QuoteAgrees, OpenAgrees DEF SqlMerge, PyMerge

\* Two rows that agree in every field are one row.
LEMMA SameRow ==
  ASSUME NEW a \in Row, NEW b \in Row,
         a.open = b.open, a.high = b.high, a.low = b.low, a.close = b.close,
         a.rank = b.rank, a.first = b.first, a.last = b.last,
         a.bidOpen = b.bidOpen, a.bidHigh = b.bidHigh, a.bidLow = b.bidLow,
         a.bidClose = b.bidClose, a.bidFirst = b.bidFirst, a.bidLast = b.bidLast
  PROVE  a = b
BY DEF Row

\* A merge of two well-formed rows is well formed.
THEOREM MergeWellFormed ==
  \A x, y : WellFormed(x) /\ WellFormed(y) => WellFormed(SqlMerge(x, y))
<1> SUFFICES ASSUME NEW x, NEW y, WellFormed(x), WellFormed(y)
             PROVE  WellFormed(SqlMerge(x, y))
  OBVIOUS
<1> DEFINE z == SqlMerge(x, y)
<1>0. x \in Row /\ y \in Row
  BY DEF WellFormed
<1>1. z \in Row
  BY <1>0 DEF SqlMerge, Row, Value, Greatest, Least
<1>2. \/ z.rank > 0 /\ z.open # Null /\ z.high # Null /\ z.low # Null
           /\ z.close # Null /\ z.first # Null /\ z.first <= z.last
      \/ z.rank = 0 /\ z.open = Null /\ z.high = Null /\ z.low = Null
           /\ z.close = Null /\ z.first = Null /\ z.last = Null
  <2>1. /\ z.open \in {x.open, y.open} /\ z.high = Greatest(x.high, y.high)
        /\ z.low = Least(x.low, y.low)
        /\ z.first = Least(x.first, y.first) /\ z.last = Greatest(x.last, y.last)
        /\ (x.first = Null \/ Before(y.first, x.first)) => z.open = y.open
        /\ ~(x.first = Null \/ Before(y.first, x.first)) => z.open = x.open
    BY DEF SqlMerge
  <2>2. /\ ClosePriceIsBetter(x, y) => z.close = y.close /\ z.rank = y.rank
        /\ ~ClosePriceIsBetter(x, y) => z.close = x.close /\ z.rank = x.rank
    BY DEF SqlMerge
  <2> HIDE DEF z
  <2>3. /\ x.rank = 0 /\ y.rank # 0 => ClosePriceIsBetter(x, y)
        /\ y.rank = 0 => ~ClosePriceIsBetter(x, y)
    BY <1>0, RowFields DEF WellFormed, ClosePriceIsBetter, NotBefore, Null
  <2>4. (z.rank = 0 <=> x.rank = 0 /\ y.rank = 0) /\ z.rank \in 0..3
    BY <2>2, <2>3, <1>0, RowFields
  <2>5. CASE x.rank = 0 /\ y.rank = 0
    BY <2>1, <2>2, <2>3, <2>4, <2>5, <1>0, RowFields
       DEF WellFormed, Before, Greatest, Least, Null
  <2>6. CASE x.rank = 0 /\ y.rank > 0
    BY <2>1, <2>2, <2>3, <2>4, <2>6, <1>0, RowFields
       DEF WellFormed, Before, Greatest, Least, Null
  <2>7. CASE x.rank > 0 /\ y.rank = 0
    BY <2>1, <2>2, <2>3, <2>4, <2>7, <1>0, RowFields
       DEF WellFormed, Before, Greatest, Least, Null
  <2>8. CASE x.rank > 0 /\ y.rank > 0
    BY <2>1, <2>2, <2>4, <2>8, <1>0, RowFields
       DEF WellFormed, Before, Greatest, Least, Null
  <2>9. x.rank \in 0..3 /\ y.rank \in 0..3
    BY <1>0, RowFields
  <2> QED BY <2>5, <2>6, <2>7, <2>8, <2>9
<1>3. \/ z.bidFirst # Null /\ z.bidFirst <= z.bidLast
      \/ z.bidFirst = Null /\ z.bidLast = Null /\ z.bidOpen = Null
           /\ z.bidHigh = Null /\ z.bidLow = Null /\ z.bidClose = Null
  BY <1>0, RowFields
     DEF WellFormed, SqlMerge, QuoteIsNewer, Before, NotBefore, Greatest, Least, Null
<1> QED BY <1>1, <1>2, <1>3 DEF WellFormed

\* Maxima and minima with Null are associative.
LEMMA ExtremesAssociate ==
  \A x, y, z \in Value :
    /\ Greatest(Greatest(x, y), z) = Greatest(x, Greatest(y, z))
    /\ Least(Least(x, y), z) = Least(x, Least(y, z))
BY DEF Greatest, Least, Value, Null

\* What a merge of two rows in the order of time amounts to.
LEMMA OrderedMerge ==
  ASSUME NEW x, NEW y, WellFormed(x), WellFormed(y), Follows(x, y)
  PROVE  LET z == SqlMerge(x, y)
             later == y.rank # 0 /\ y.rank >= x.rank
         IN  /\ z.open = IF x.first = Null THEN y.open ELSE x.open
             /\ z.close = IF later THEN y.close ELSE x.close
             /\ z.rank = IF later THEN y.rank ELSE x.rank
             /\ z.bidOpen = IF x.bidFirst = Null THEN y.bidOpen ELSE x.bidOpen
             /\ z.bidClose = IF y.bidClose # Null THEN y.bidClose ELSE x.bidClose
             /\ z.high = Greatest(x.high, y.high) /\ z.low = Least(x.low, y.low)
             /\ z.first = Least(x.first, y.first) /\ z.last = Greatest(x.last, y.last)
             /\ z.bidHigh = Greatest(x.bidHigh, y.bidHigh)
             /\ z.bidLow = Least(x.bidLow, y.bidLow)
             /\ z.bidFirst = Least(x.bidFirst, y.bidFirst)
             /\ z.bidLast = Greatest(x.bidLast, y.bidLast)
<1>0. x \in Row /\ y \in Row
  BY DEF WellFormed
<1>1. ClosePriceIsBetter(x, y) <=> y.rank # 0 /\ y.rank >= x.rank
  BY <1>0, RowFields DEF WellFormed, Follows, ClosePriceIsBetter, NotBefore, Null
<1>2. x.first # Null => ~Before(y.first, x.first)
  BY <1>0, RowFields DEF WellFormed, Follows, Before, Null
<1>3. x.bidFirst # Null => ~Before(y.bidFirst, x.bidFirst)
  BY <1>0, RowFields DEF WellFormed, Follows, Before, Null
<1>4. y.bidClose # Null => QuoteIsNewer(x, y)
  BY <1>0, RowFields DEF WellFormed, Follows, QuoteIsNewer, NotBefore, Null
<1> QED BY <1>1, <1>2, <1>3, <1>4 DEF SqlMerge

\* The order of time survives a merge.
LEMMA FollowsMerge ==
  ASSUME NEW x, NEW y, NEW z, WellFormed(x), WellFormed(y), WellFormed(z),
         Follows(x, y), Follows(y, z), Follows(x, z)
  PROVE  Follows(SqlMerge(x, y), z) /\ Follows(x, SqlMerge(y, z))
<1>0. x \in Row /\ y \in Row /\ z \in Row
  BY DEF WellFormed
<1>1. Follows(SqlMerge(x, y), z)
  BY <1>0, RowFields DEF WellFormed, Follows, SqlMerge, Greatest, Null
<1>2. Follows(x, SqlMerge(y, z))
  BY <1>0, RowFields DEF WellFormed, Follows, SqlMerge, Least, Null
<1> QED BY <1>1, <1>2

\* For rows in the order of time it does not matter which two are merged
\* first: a compaction may take the source rows of a wide bucket in any number
\* of runs, and read them with any limit.
THEOREM MergeAssociates ==
  \A x, y, z :
    /\ WellFormed(x) /\ WellFormed(y) /\ WellFormed(z)
    /\ Follows(x, y) /\ Follows(y, z) /\ Follows(x, z)
    => SqlMerge(SqlMerge(x, y), z) = SqlMerge(x, SqlMerge(y, z))
<1> SUFFICES ASSUME NEW x, NEW y, NEW z,
                    WellFormed(x), WellFormed(y), WellFormed(z),
                    Follows(x, y), Follows(y, z), Follows(x, z)
             PROVE  SqlMerge(SqlMerge(x, y), z) = SqlMerge(x, SqlMerge(y, z))
  OBVIOUS
<1> DEFINE xy == SqlMerge(x, y)
           yz == SqlMerge(y, z)
           l == SqlMerge(xy, z)
           r == SqlMerge(x, yz)
<1>0. x \in Row /\ y \in Row /\ z \in Row
  BY DEF WellFormed
<1>1. WellFormed(xy) /\ WellFormed(yz) /\ Follows(xy, z) /\ Follows(x, yz)
  BY MergeWellFormed, FollowsMerge
<1>2. l.open = r.open
  <2>1. /\ l.open = IF xy.first = Null THEN z.open ELSE xy.open
        /\ r.open = IF x.first = Null THEN yz.open ELSE x.open
        /\ xy.open = IF x.first = Null THEN y.open ELSE x.open
        /\ yz.open = IF y.first = Null THEN z.open ELSE y.open
        /\ xy.first = Least(x.first, y.first)
    BY <1>1, OrderedMerge
  <2> QED BY <1>0, <2>1, RowFields DEF Least, Null
<1>3. l.bidOpen = r.bidOpen
  <2>1. /\ l.bidOpen = IF xy.bidFirst = Null THEN z.bidOpen ELSE xy.bidOpen
        /\ r.bidOpen = IF x.bidFirst = Null THEN yz.bidOpen ELSE x.bidOpen
        /\ xy.bidOpen = IF x.bidFirst = Null THEN y.bidOpen ELSE x.bidOpen
        /\ yz.bidOpen = IF y.bidFirst = Null THEN z.bidOpen ELSE y.bidOpen
        /\ xy.bidFirst = Least(x.bidFirst, y.bidFirst)
    BY <1>1, OrderedMerge
  <2> QED BY <1>0, <2>1, RowFields DEF Least, Null
<1>4. l.close = r.close /\ l.rank = r.rank
  <2>1. /\ l.close = IF z.rank # 0 /\ z.rank >= xy.rank THEN z.close ELSE xy.close
        /\ l.rank = IF z.rank # 0 /\ z.rank >= xy.rank THEN z.rank ELSE xy.rank
        /\ r.close = IF yz.rank # 0 /\ yz.rank >= x.rank THEN yz.close ELSE x.close
        /\ r.rank = IF yz.rank # 0 /\ yz.rank >= x.rank THEN yz.rank ELSE x.rank
        /\ xy.close = IF y.rank # 0 /\ y.rank >= x.rank THEN y.close ELSE x.close
        /\ xy.rank = IF y.rank # 0 /\ y.rank >= x.rank THEN y.rank ELSE x.rank
        /\ yz.close = IF z.rank # 0 /\ z.rank >= y.rank THEN z.close ELSE y.close
        /\ yz.rank = IF z.rank # 0 /\ z.rank >= y.rank THEN z.rank ELSE y.rank
    BY <1>1, OrderedMerge
  <2>2. x.rank \in 0..3 /\ y.rank \in 0..3 /\ z.rank \in 0..3
    BY <1>0, RowFields
  <2> HIDE DEF xy, yz, l, r
  <2> QED BY <2>1, <2>2
<1>5. l.bidClose = r.bidClose
  <2>1. /\ l.bidClose = IF z.bidClose # Null THEN z.bidClose ELSE xy.bidClose
        /\ r.bidClose = IF yz.bidClose # Null THEN yz.bidClose ELSE x.bidClose
        /\ xy.bidClose = IF y.bidClose # Null THEN y.bidClose ELSE x.bidClose
        /\ yz.bidClose = IF z.bidClose # Null THEN z.bidClose ELSE y.bidClose
    BY <1>1, OrderedMerge
  <2> HIDE DEF xy, yz, l, r
  <2> QED BY <2>1
<1>6. /\ l.high = r.high /\ l.low = r.low
      /\ l.first = r.first /\ l.last = r.last
      /\ l.bidHigh = r.bidHigh /\ l.bidLow = r.bidLow
      /\ l.bidFirst = r.bidFirst /\ l.bidLast = r.bidLast
  <2>1. \A v \in Row : /\ v.high \in Value /\ v.low \in Value
                      /\ v.first \in Value /\ v.last \in Value
                      /\ v.bidHigh \in Value /\ v.bidLow \in Value
                      /\ v.bidFirst \in Value /\ v.bidLast \in Value
    BY DEF Row
  <2>2. /\ l.high = Greatest(Greatest(x.high, y.high), z.high)
        /\ r.high = Greatest(x.high, Greatest(y.high, z.high))
        /\ l.low = Least(Least(x.low, y.low), z.low)
        /\ r.low = Least(x.low, Least(y.low, z.low))
        /\ l.first = Least(Least(x.first, y.first), z.first)
        /\ r.first = Least(x.first, Least(y.first, z.first))
        /\ l.last = Greatest(Greatest(x.last, y.last), z.last)
        /\ r.last = Greatest(x.last, Greatest(y.last, z.last))
    BY <1>1, OrderedMerge
  <2>3. /\ l.bidHigh = Greatest(Greatest(x.bidHigh, y.bidHigh), z.bidHigh)
        /\ r.bidHigh = Greatest(x.bidHigh, Greatest(y.bidHigh, z.bidHigh))
        /\ l.bidLow = Least(Least(x.bidLow, y.bidLow), z.bidLow)
        /\ r.bidLow = Least(x.bidLow, Least(y.bidLow, z.bidLow))
        /\ l.bidFirst = Least(Least(x.bidFirst, y.bidFirst), z.bidFirst)
        /\ r.bidFirst = Least(x.bidFirst, Least(y.bidFirst, z.bidFirst))
        /\ l.bidLast = Greatest(Greatest(x.bidLast, y.bidLast), z.bidLast)
        /\ r.bidLast = Greatest(x.bidLast, Greatest(y.bidLast, z.bidLast))
    BY <1>1, OrderedMerge
  <2> HIDE DEF l, r
  <2>4. Greatest(Greatest(x.high, y.high), z.high) = Greatest(x.high, Greatest(y.high, z.high))
    BY <1>0, <2>1, ExtremesAssociate
  <2>5. Least(Least(x.low, y.low), z.low) = Least(x.low, Least(y.low, z.low))
    BY <1>0, <2>1, ExtremesAssociate
  <2>6. Least(Least(x.first, y.first), z.first) = Least(x.first, Least(y.first, z.first))
    BY <1>0, <2>1, ExtremesAssociate
  <2>7. Greatest(Greatest(x.last, y.last), z.last) = Greatest(x.last, Greatest(y.last, z.last))
    BY <1>0, <2>1, ExtremesAssociate
  <2>8. Greatest(Greatest(x.bidHigh, y.bidHigh), z.bidHigh) = Greatest(x.bidHigh, Greatest(y.bidHigh, z.bidHigh))
    BY <1>0, <2>1, ExtremesAssociate
  <2>9. Least(Least(x.bidLow, y.bidLow), z.bidLow) = Least(x.bidLow, Least(y.bidLow, z.bidLow))
    BY <1>0, <2>1, ExtremesAssociate
  <2>10. Least(Least(x.bidFirst, y.bidFirst), z.bidFirst) = Least(x.bidFirst, Least(y.bidFirst, z.bidFirst))
    BY <1>0, <2>1, ExtremesAssociate
  <2>11. Greatest(Greatest(x.bidLast, y.bidLast), z.bidLast) = Greatest(x.bidLast, Greatest(y.bidLast, z.bidLast))
    BY <1>0, <2>1, ExtremesAssociate
  <2> QED BY <2>2, <2>3, <2>4, <2>5, <2>6, <2>7, <2>8, <2>9, <2>10, <2>11
<1>7. l \in Row /\ r \in Row
  <2>1. WellFormed(l) /\ WellFormed(r)
    BY <1>1, MergeWellFormed
  <2> QED BY <2>1 DEF WellFormed
<1> HIDE DEF l, r
<1>8. l = r
  BY <1>2, <1>3, <1>4, <1>5, <1>6, <1>7, SameRow
<1> QED BY <1>8 DEF l, r, xy, yz

(* ---- Quotes: QuoteTape --------------------------------------------------- *)

QuoteTypes ==
  /\ minute \in Int
  /\ metric \in [Ticked -> {Absent} \union [quote : Offer, updated : Int]]
  /\ told \in [Ticked -> {Absent} \union [quote : Offer, at : Int]]
  /\ mark \in [Ticked -> {Absent} \union Int] /\ bump \in [Ticked -> {Absent} \union Int]
  /\ \A m \in Ticked : bump[m] # Absent => minute - bump[m] <= MaxTxn

\* The row of a market that ticked is no older than the tick, but for the slack.
ToldKnown ==
  \A m \in Ticked :
    told[m] # Absent => /\ told[m].at <= minute /\ metric[m] # Absent
                        /\ metric[m].updated >= told[m].at - Quotes!Slack

\* A tick behind the gate finds its quote in place, unless the poller passed it.
HandlerKnown ==
  /\ handler.at \in {"idle", "open", "again"}
  /\ handler.at # "idle" =>
       /\ DOMAIN handler.batch \subseteq Ticked
       /\ \A m \in DOMAIN handler.batch : handler.batch[m] \in Offer
  /\ handler.at = "open" =>
       /\ handler = [at |-> "open", batch |-> handler.batch, attempt |-> handler.attempt,
                     read |-> handler.read, puts |-> handler.puts, snaps |-> handler.snaps,
                     rows |-> handler.rows, passed |-> handler.passed]
       /\ handler.read \in Int /\ handler.read <= minute
       /\ handler.puts \subseteq DOMAIN handler.batch
       /\ \A m \in DOMAIN handler.batch \ handler.puts :
            /\ metric[m] # Absent /\ metric[m].updated >= handler.read - Quotes!Slack
            /\ m \in handler.passed \/ metric[m].quote = handler.batch[m]

\* The poller overwrites a quote that was old when it looked, or ticked since.
PollerKnown ==
  /\ poller.at \in {"idle", "open"}
  /\ poller.at = "open" =>
       /\ poller = [at |-> "open", page |-> poller.page, read |-> poller.read,
                    puts |-> poller.puts, rows |-> poller.rows, passed |-> poller.passed]
       /\ poller.read \in Int /\ minute - poller.read <= MaxTxn
       /\ \A m \in Ticked : poller.page[m] \in Offer
       /\ \A m \in poller.puts \intersect Ticked :
            told[m] # Absent => \/ m \in poller.passed
                                \/ poller.read - told[m].at >= Fresh - Quotes!Slack

\* A mark of the throttle stands for a chart row, written or about to be, unless it
\* came to nothing; a tick that is throttled has such a mark in its bucket.
MarksKnown ==
  /\ \A m \in Ticked :
       mark[m] # Absent /\ m \notin spent =>
         \/ <<m, Quotes!Bucket(mark[m])>> \in chart
         \/ handler.at = "open" /\ <<m, Quotes!Bucket(mark[m])>> \in handler.rows
  /\ handler.at = "open" =>
       \A m \in DOMAIN handler.batch :
         handler.batch[m] # NoQuote =>
           \/ <<m, Quotes!Bucket(handler.read)>> \in handler.rows
           \/ /\ mark[m] # Absent /\ Quotes!Bucket(mark[m]) = Quotes!Bucket(handler.read)
              /\ handler.read - mark[m] < MinGap

QuoteInv == QuoteTypes /\ ToldKnown /\ HandlerKnown /\ PollerKnown /\ MarksKnown

\* The constants of QuoteTape, one by one.
LEMMA QuoteSizes ==
  ASSUME Quotes!QuoteConstants
  PROVE  /\ Gate \in Nat /\ MinGap \in Nat /\ Fresh \in Nat /\ MaxTxn \in Nat
         /\ Quotes!Slack \in Nat /\ Gate <= Quotes!Slack /\ MaxTxn <= Quotes!Slack
         /\ NoQuote \in Offer /\ Absent \notin Int
         /\ Absent \notin [quote : Offer, updated : Int]
         /\ Absent \notin [quote : Offer, at : Int]
BY DEF Quotes!QuoteConstants, Quotes!Slack

\* The handler looks: what it leaves alone is as new as its quote.
LEMMA BeginKnown ==
  ASSUME Quotes!QuoteConstants, QuoteInv, handler.at # "open",
         NEW ticks, DOMAIN ticks \subseteq Ticked,
         \A m \in DOMAIN ticks : ticks[m] \in Offer,
         NEW attempt, Quotes!BeginTicks(ticks, attempt)
  PROVE  QuoteInv'
<1> DEFINE S == DOMAIN ticks
           charted == {m \in S : Quotes!MayChart(m)}
<1>1. /\ handler' = [at |-> "open", batch |-> ticks, attempt |-> attempt, read |-> minute,
                     puts |-> {m \in S : Quotes!MayUpsert(m, ticks[m])},
                     snaps |-> {m \in S : Quotes!MaySnapshot(m, ticks[m])},
                     rows |-> Quotes!ChartRows(ticks, charted), passed |-> {}]
      /\ mark' = [m \in Ticked |-> IF m \in charted THEN minute ELSE mark[m]]
      /\ spent' = (spent \ charted) \union {m \in charted : ticks[m] = NoQuote}
      /\ UNCHANGED <<minute, metric, chart, poller, bump, told>>
  BY DEF Quotes!BeginTicks
<1>2. QuoteTypes /\ ToldKnown /\ HandlerKnown /\ PollerKnown /\ MarksKnown
  BY DEF QuoteInv
<1>3. minute \in Int /\ mark \in [Ticked -> {Absent} \union Int]
  BY <1>2 DEF QuoteTypes
<1>4. QuoteTypes'
  <2>1. mark' \in [Ticked -> {Absent} \union Int]
    <3> HIDE DEF charted
    <3> QED
      BY <1>1, <1>3
  <2> QED
    BY <1>1, <1>2, <2>1 DEF QuoteTypes
<1>5. ToldKnown' /\ PollerKnown'
  BY <1>1, <1>2 DEF ToldKnown, PollerKnown
<1>6. ASSUME NEW m \in S, ~Quotes!MayUpsert(m, ticks[m])
      PROVE  /\ metric[m] # Absent /\ metric[m].quote = ticks[m]
             /\ metric[m].updated >= minute - Quotes!Slack
  <2>1. /\ metric[m] # Absent /\ metric[m].quote = ticks[m]
        /\ ~(minute - metric[m].updated >= Gate)
    BY <1>6 DEF Quotes!MayUpsert
  <2>2. metric[m].updated \in Int
    BY <1>2, <2>1 DEF QuoteTypes
  <2> QED
    BY <1>3, <2>1, <2>2, QuoteSizes
<1>7. HandlerKnown'
  <2>1. /\ handler'.at = "open" /\ handler'.batch = ticks /\ handler'.read = minute
        /\ handler'.puts = {m \in S : Quotes!MayUpsert(m, ticks[m])}
    BY <1>1
  <2>2. handler' = [at |-> "open", batch |-> handler'.batch, attempt |-> handler'.attempt,
                    read |-> handler'.read, puts |-> handler'.puts,
                    snaps |-> handler'.snaps, rows |-> handler'.rows,
                    passed |-> handler'.passed]
    BY <1>1
  <2>3. \A m \in S \ handler'.puts :
          /\ metric'[m] # Absent /\ metric'[m].updated >= minute - Quotes!Slack
          /\ metric'[m].quote = ticks[m]
    BY <1>1, <1>6, <2>1
  <2> QED
    BY <1>1, <1>3, <2>1, <2>2, <2>3 DEF HandlerKnown
<1>8. MarksKnown'
  <2>1. handler'.rows = {<<m, Quotes!Bucket(minute)>> : m \in {n \in charted : ticks[n] # NoQuote}}
    BY <1>1 DEF Quotes!ChartRows
  <2>2. ASSUME NEW m \in Ticked, mark'[m] # Absent, m \notin spent'
        PROVE  <<m, Quotes!Bucket(mark'[m])>> \in chart \union handler'.rows
    <3>1. CASE m \in charted
      <4>1. ticks[m] # NoQuote /\ mark'[m] = minute
        BY <1>1, <2>2, <3>1
      <4> QED
        BY <2>1, <3>1, <4>1
    <3>2. CASE m \notin charted
      <4>1. mark'[m] = mark[m] /\ m \notin spent
        BY <1>1, <2>2, <3>2
      <4> QED
        BY <1>2, <2>2, <4>1 DEF MarksKnown
    <3> QED
      BY <3>1, <3>2
  <2>3. ASSUME NEW m \in S, ticks[m] # NoQuote
        PROVE  \/ <<m, Quotes!Bucket(minute)>> \in handler'.rows
               \/ /\ mark'[m] # Absent /\ Quotes!Bucket(mark'[m]) = Quotes!Bucket(minute)
                  /\ minute - mark'[m] < MinGap
    <3>1. CASE m \in charted
      BY <2>1, <2>3, <3>1
    <3>2. CASE m \notin charted
      <4>1. mark'[m] = mark[m] /\ m \in Ticked
        BY <1>1, <3>2
      <4>2. /\ mark[m] # Absent /\ Quotes!Bucket(mark[m]) = Quotes!Bucket(minute)
            /\ ~(minute - mark[m] >= MinGap)
        BY <3>2 DEF Quotes!MayChart
      <4>3. mark[m] \in Int /\ MinGap \in Int
        BY <1>3, <4>1, <4>2, QuoteSizes
      <4> QED
        BY <1>3, <4>1, <4>2, <4>3
    <3> QED
      BY <3>1, <3>2
  <2>4. handler'.at = "open" /\ handler'.batch = ticks /\ handler'.read = minute
        /\ chart' = chart
    BY <1>1
  <2> QED
    BY <2>2, <2>3, <2>4 DEF MarksKnown
<1> QED
  BY <1>4, <1>5, <1>7, <1>8 DEF QuoteInv

\* What an upsert makes of the rows.
LEMMA UpsertedOf ==
  ASSUME Quotes!QuoteConstants, QuoteTypes, NEW page, NEW S, NEW start \in Int,
         \A m \in S \intersect Ticked : page[m] \in Offer,
         metric' = Quotes!Upserted(page, S, start)
  PROVE  /\ metric' \in [Ticked -> {Absent} \union [quote : Offer, updated : Int]]
         /\ \A m \in Ticked \ S : metric'[m] = metric[m]
         /\ \A m \in Ticked \intersect S :
              metric'[m] = [quote |-> page[m], updated |-> start] /\ metric'[m] # Absent
<1>1. \A m \in Ticked : metric[m] \in {Absent} \union [quote : Offer, updated : Int]
  BY DEF QuoteTypes
<1>2. metric' = [m \in Ticked |->
        IF m \in S THEN [quote |-> page[m], updated |-> start] ELSE metric[m]]
  BY DEF Quotes!Upserted
<1>3. Absent \notin [quote : Offer, updated : Int]
  BY QuoteSizes
<1>4. \A m \in Ticked \intersect S :
        [quote |-> page[m], updated |-> start] \in [quote : Offer, updated : Int]
  OBVIOUS
<1> QED
  BY <1>1, <1>2, <1>3, <1>4

\* The handler commits.
LEMMA CommitKnown ==
  ASSUME Quotes!QuoteConstants, QuoteInv, Quotes!CommitTicks
  PROVE  QuoteInv'
<1>1. /\ handler.at = "open" /\ handler' = [at |-> "idle"]
      /\ metric' = Quotes!Upserted(handler.batch, handler.puts, handler.read)
      /\ chart' = chart \union handler.rows
      /\ told' = [m \in Ticked |-> IF m \in DOMAIN handler.batch
                   THEN [quote |-> handler.batch[m], at |-> handler.read] ELSE told[m]]
      /\ poller' = IF poller.at = "open"
                   THEN [poller EXCEPT !.passed = @ \union DOMAIN handler.batch] ELSE poller
      /\ UNCHANGED <<minute, mark, bump, spent>>
  BY DEF Quotes!CommitTicks, Quotes!Idle
<1>2. QuoteTypes /\ ToldKnown /\ HandlerKnown /\ PollerKnown /\ MarksKnown
  BY DEF QuoteInv
<1>3. /\ DOMAIN handler.batch \subseteq Ticked /\ handler.puts \subseteq DOMAIN handler.batch
      /\ handler.read \in Int /\ handler.read <= minute
      /\ \A m \in DOMAIN handler.batch : handler.batch[m] \in Offer
      /\ \A m \in DOMAIN handler.batch \ handler.puts :
           metric[m] # Absent /\ metric[m].updated >= handler.read - Quotes!Slack
  BY <1>1, <1>2 DEF HandlerKnown
<1>4. /\ metric' \in [Ticked -> {Absent} \union [quote : Offer, updated : Int]]
      /\ \A m \in Ticked \ handler.puts : metric'[m] = metric[m]
      /\ \A m \in handler.puts :
           metric'[m] = [quote |-> handler.batch[m], updated |-> handler.read]
           /\ metric'[m] # Absent
  BY <1>1, <1>2, <1>3, UpsertedOf
<1>5. told' \in [Ticked -> {Absent} \union [quote : Offer, at : Int]]
  <2>1. \A m \in DOMAIN handler.batch :
          [quote |-> handler.batch[m], at |-> handler.read] \in [quote : Offer, at : Int]
    BY <1>3
  <2> QED
    BY <1>1, <1>2, <2>1 DEF QuoteTypes
<1>6. QuoteTypes'
  BY <1>1, <1>2, <1>4, <1>5 DEF QuoteTypes
<1>7. ASSUME NEW m \in Ticked, told'[m] # Absent
      PROVE  /\ told'[m].at <= minute /\ metric'[m] # Absent
             /\ metric'[m].updated >= told'[m].at - Quotes!Slack
  <2>1. CASE m \in handler.puts
    <3>1. told'[m] = [quote |-> handler.batch[m], at |-> handler.read]
          /\ metric'[m] = [quote |-> handler.batch[m], updated |-> handler.read]
          /\ metric'[m] # Absent
      <4>1. m \in DOMAIN handler.batch
        BY <1>3, <2>1
      <4>2. told'[m] = [quote |-> handler.batch[m], at |-> handler.read]
        BY <1>1, <4>1
      <4> QED
        BY <1>4, <2>1, <4>2
    <3> QED
      BY <1>3, <3>1, QuoteSizes
  <2>2. CASE m \in DOMAIN handler.batch \ handler.puts
    <3>1. metric'[m] = metric[m] /\ told'[m].at = handler.read
      BY <1>1, <1>4, <2>2
    <3> QED
      BY <1>3, <2>2, <3>1
  <2>3. CASE m \notin DOMAIN handler.batch
    <3>1. metric'[m] = metric[m] /\ told'[m] = told[m]
      BY <1>1, <1>3, <1>4, <2>3
    <3> QED
      BY <1>2, <1>7, <3>1 DEF ToldKnown
  <2> QED
    BY <2>1, <2>2, <2>3
<1>8. ToldKnown'
  BY <1>1, <1>7 DEF ToldKnown
<1>9. PollerKnown'
  <2>1. CASE poller.at = "open"
    <3>1. PICK page, read, puts, lines, passed :
            poller = [at |-> "open", page |-> page, read |-> read, puts |-> puts,
                      rows |-> lines, passed |-> passed]
      BY <1>2, <2>1 DEF PollerKnown
    <3>2. poller' = [at |-> "open", page |-> page, read |-> read, puts |-> puts,
                     rows |-> lines, passed |-> passed \union DOMAIN handler.batch]
      BY <1>1, <3>1
    <3>3. /\ read \in Int /\ minute - read <= MaxTxn /\ \A m \in Ticked : page[m] \in Offer
          /\ \A m \in puts \intersect Ticked :
               told[m] # Absent => m \in passed \/ read - told[m].at >= Fresh - Quotes!Slack
      BY <1>2, <3>1 DEF PollerKnown
    <3>4. \A m \in puts \intersect Ticked :
            told'[m] # Absent => \/ m \in passed \union DOMAIN handler.batch
                                 \/ read - told'[m].at >= Fresh - Quotes!Slack
      BY <1>1, <3>3
    <3>5. /\ poller'.at = "open" /\ poller'.page = page /\ poller'.read = read
          /\ poller'.puts = puts /\ poller'.passed = passed \union DOMAIN handler.batch
          /\ poller' = [at |-> "open", page |-> poller'.page, read |-> poller'.read,
                        puts |-> poller'.puts, rows |-> poller'.rows,
                        passed |-> poller'.passed]
      BY <3>2
    <3> QED
      BY <1>1, <3>3, <3>4, <3>5 DEF PollerKnown
  <2>2. CASE poller.at # "open"
    BY <1>1, <1>2, <2>2 DEF PollerKnown
  <2> QED
    BY <2>1, <2>2
<1>10. HandlerKnown' /\ MarksKnown'
  BY <1>1, <1>2 DEF HandlerKnown, MarksKnown
<1> QED
  BY <1>6, <1>8, <1>9, <1>10 DEF QuoteInv

\* A transaction of the handler is rolled back, or its process ends.
LEMMA FailKnown ==
  ASSUME Quotes!QuoteConstants, QuoteInv,
         (\E deadlock \in BOOLEAN : Quotes!FailTicks(deadlock)) \/ Quotes!Restart
  PROVE  QuoteInv'
<1>1. QuoteTypes /\ ToldKnown /\ HandlerKnown /\ PollerKnown /\ MarksKnown
  BY DEF QuoteInv
<1>2. CASE Quotes!Restart
  <2>1. /\ handler' = [at |-> "idle"] /\ mark' = [m \in Ticked |-> Absent]
        /\ UNCHANGED <<minute, metric, chart, poller, bump, told>>
    BY <1>2 DEF Quotes!Restart, Quotes!Idle, Quotes!dbVars
  <2> QED
    BY <1>1, <2>1 DEF QuoteInv, QuoteTypes, ToldKnown, HandlerKnown, PollerKnown, MarksKnown
<1>3. ASSUME NEW deadlock \in BOOLEAN, Quotes!FailTicks(deadlock)
      PROVE  QuoteInv'
  <2>1. /\ handler.at = "open"
        /\ spent' = spent \union {row[1] : row \in handler.rows}
        /\ \/ handler' = [at |-> "again", batch |-> handler.batch]
           \/ handler' = [at |-> "idle"]
        /\ UNCHANGED <<minute, metric, chart, mark, poller, bump, told>>
    BY <1>3 DEF Quotes!FailTicks, Quotes!Idle, Quotes!dbVars
  <2>2. QuoteTypes' /\ ToldKnown' /\ PollerKnown'
    BY <1>1, <2>1 DEF QuoteTypes, ToldKnown, PollerKnown
  <2>3. HandlerKnown'
    BY <1>1, <2>1 DEF HandlerKnown
  <2>4. MarksKnown'
    <3>1. ASSUME NEW m \in Ticked, mark[m] # Absent, m \notin spent'
          PROVE  <<m, Quotes!Bucket(mark[m])>> \in chart
      <4>1. m \notin spent
        BY <2>1, <3>1
      <4>2. <<m, Quotes!Bucket(mark[m])>> \notin handler.rows
        <5>1. ASSUME NEW b, <<m, b>> \in handler.rows
              PROVE  m \in spent'
          <6>1. <<m, b>>[1] = m
            OBVIOUS
          <6> QED
            BY <2>1, <5>1, <6>1
        <5> QED
          BY <3>1, <5>1
      <4> QED
        BY <1>1, <3>1, <4>1, <4>2 DEF MarksKnown
    <3>2. handler'.at # "open"
      BY <2>1
    <3> QED
      BY <2>1, <3>1, <3>2 DEF MarksKnown
  <2> QED
    BY <2>2, <2>3, <2>4 DEF QuoteInv
<1> QED
  BY <1>2, <1>3

\* The poller looks: a row that is stale was not ticked for as long, but for the slack.
LEMMA ReadKnown ==
  ASSUME Quotes!QuoteConstants, QuoteInv, NEW page \in [Ticked -> Offer],
         Quotes!ReadMetrics(page)
  PROVE  QuoteInv'
<1>1. QuoteTypes /\ ToldKnown /\ HandlerKnown /\ PollerKnown /\ MarksKnown
  BY DEF QuoteInv
<1>2. PICK charted :
        /\ poller' = [at |-> "open", page |-> page, read |-> minute,
                      puts |-> {m \in Ticked : ~Quotes!MetricIsFresh(m)},
                      rows |-> Quotes!ChartRows(page, charted), passed |-> {}]
        /\ UNCHANGED <<minute, metric, chart, mark, handler, bump, told, spent>>
  BY DEF Quotes!ReadMetrics, Quotes!dbVars, Quotes!historyVars
<1>3. ASSUME NEW m \in Ticked, ~Quotes!MetricIsFresh(m), told[m] # Absent
      PROVE  minute - told[m].at >= Fresh - Quotes!Slack
  <2>1. metric[m] # Absent /\ metric[m].updated >= told[m].at - Quotes!Slack
    BY <1>1, <1>3 DEF ToldKnown
  <2>2. ~(minute - metric[m].updated < Fresh)
    BY <1>3, <2>1 DEF Quotes!MetricIsFresh
  <2>3. metric[m].updated \in Int /\ told[m].at \in Int /\ minute \in Int
    BY <1>1, <1>3, <2>1 DEF QuoteTypes
  <2> QED
    BY <2>1, <2>2, <2>3, QuoteSizes
<1>4. PollerKnown'
  <2>1. minute \in Int /\ minute - minute <= MaxTxn
    BY <1>1, QuoteSizes DEF QuoteTypes
  <2>2. /\ poller'.at = "open" /\ poller'.page = page /\ poller'.read = minute
        /\ poller'.puts = {m \in Ticked : ~Quotes!MetricIsFresh(m)}
        /\ poller' = [at |-> "open", page |-> poller'.page, read |-> poller'.read,
                      puts |-> poller'.puts, rows |-> poller'.rows,
                      passed |-> poller'.passed]
    BY <1>2
  <2>3. \A m \in poller'.puts \intersect Ticked :
          told[m] # Absent => minute - told[m].at >= Fresh - Quotes!Slack
    BY <1>3, <2>2
  <2> QED
    BY <1>2, <2>1, <2>2, <2>3 DEF PollerKnown
<1>5. QuoteTypes' /\ ToldKnown' /\ HandlerKnown' /\ MarksKnown'
  BY <1>1, <1>2 DEF QuoteTypes, ToldKnown, HandlerKnown, MarksKnown
<1> QED
  BY <1>4, <1>5 DEF QuoteInv

\* Rows that are written late are not much older than now.
LEMMA WrittenLate ==
  ASSUME Quotes!QuoteConstants, QuoteInv, NEW m \in Ticked,
         NEW row \in [quote : Offer, updated : Int], minute - row.updated <= MaxTxn
  PROVE  /\ told[m] # Absent => row.updated >= told[m].at - Quotes!Slack
         /\ handler.at = "open" => row.updated >= handler.read - Quotes!Slack
<1>1. minute \in Int /\ row.updated \in Int
  BY DEF QuoteInv, QuoteTypes
<1>2. told[m] # Absent => told[m].at \in Int /\ told[m].at <= minute
  BY DEF QuoteInv, QuoteTypes, ToldKnown
<1>3. handler.at = "open" => handler.read \in Int /\ handler.read <= minute
  BY DEF QuoteInv, HandlerKnown
<1> QED
  BY <1>1, <1>2, <1>3, QuoteSizes

\* The poller commits, or fails.
LEMMA PageKnown ==
  ASSUME Quotes!QuoteConstants, QuoteInv, Quotes!CommitPage \/ Quotes!FailPage
  PROVE  QuoteInv'
<1>1. QuoteTypes /\ ToldKnown /\ HandlerKnown /\ PollerKnown /\ MarksKnown
  BY DEF QuoteInv
<1>2. CASE Quotes!FailPage
  <2>1. poller' = [at |-> "idle"]
        /\ UNCHANGED <<minute, metric, chart, mark, handler, bump, told, spent>>
    BY <1>2 DEF Quotes!FailPage, Quotes!Idle, Quotes!dbVars, Quotes!historyVars
  <2> QED
    BY <1>1, <2>1 DEF QuoteInv, QuoteTypes, ToldKnown, HandlerKnown, PollerKnown, MarksKnown
<1>3. CASE Quotes!CommitPage
  <2>1. /\ poller.at = "open" /\ poller' = [at |-> "idle"]
        /\ metric' = Quotes!Upserted(poller.page, poller.puts, poller.read)
        /\ chart' = chart \union poller.rows
        /\ handler' = IF handler.at = "open"
                      THEN [handler EXCEPT !.passed = @ \union poller.puts] ELSE handler
        /\ UNCHANGED <<minute, mark, bump, told, spent>>
    BY <1>3 DEF Quotes!CommitPage, Quotes!Idle, Quotes!historyVars
  <2>2. /\ poller.read \in Int /\ minute - poller.read <= MaxTxn
        /\ \A m \in Ticked : poller.page[m] \in Offer
    BY <1>1, <2>1 DEF PollerKnown
  <2>3. /\ metric' \in [Ticked -> {Absent} \union [quote : Offer, updated : Int]]
        /\ \A m \in Ticked \ poller.puts : metric'[m] = metric[m]
        /\ \A m \in Ticked \intersect poller.puts :
             metric'[m] = [quote |-> poller.page[m], updated |-> poller.read]
             /\ metric'[m] # Absent
    BY <1>1, <2>1, <2>2, UpsertedOf
  <2>4. ASSUME NEW m \in Ticked \intersect poller.puts
        PROVE  /\ told[m] # Absent => metric'[m].updated >= told[m].at - Quotes!Slack
               /\ handler.at = "open" => metric'[m].updated >= handler.read - Quotes!Slack
    <3>1. PICK row \in [quote : Offer, updated : Int] :
            row = metric'[m] /\ minute - row.updated <= MaxTxn
      BY <2>2, <2>3
    <3> QED
      BY <3>1, WrittenLate
  <2>5. QuoteTypes'
    BY <1>1, <2>1, <2>3 DEF QuoteTypes
  <2>6. ToldKnown'
    BY <1>1, <2>1, <2>3, <2>4 DEF ToldKnown
  <2>7. PollerKnown'
    BY <2>1 DEF PollerKnown
  <2>8. CASE handler.at # "open"
    BY <1>1, <2>1, <2>5, <2>6, <2>7, <2>8 DEF QuoteInv, HandlerKnown, MarksKnown
  <2>9. CASE handler.at = "open"
    <3>1. PICK ticks, attempt, read, puts, snaps, lines, passed :
            handler = [at |-> "open", batch |-> ticks, attempt |-> attempt, read |-> read,
                       puts |-> puts, snaps |-> snaps, rows |-> lines, passed |-> passed]
      BY <1>1, <2>9 DEF HandlerKnown
    <3>2. handler' = [at |-> "open", batch |-> ticks, attempt |-> attempt, read |-> read,
                      puts |-> puts, snaps |-> snaps, rows |-> lines,
                      passed |-> passed \union poller.puts]
      BY <2>1, <3>1
    <3>3. /\ handler'.at = "open" /\ handler'.batch = ticks /\ handler'.read = read
          /\ handler'.puts = puts /\ handler'.passed = passed \union poller.puts
          /\ handler'.rows = lines
          /\ handler' = [at |-> "open", batch |-> handler'.batch,
                         attempt |-> handler'.attempt, read |-> handler'.read,
                         puts |-> handler'.puts, snaps |-> handler'.snaps,
                         rows |-> handler'.rows, passed |-> handler'.passed]
      BY <3>2
    <3>4. /\ handler.batch = ticks /\ handler.read = read /\ handler.puts = puts
          /\ handler.rows = lines /\ handler.passed = passed
      BY <3>1
    <3>5. ASSUME NEW m \in DOMAIN ticks \ puts
          PROVE  /\ metric'[m] # Absent /\ metric'[m].updated >= read - Quotes!Slack
                 /\ m \in passed \union poller.puts \/ metric'[m].quote = ticks[m]
      <4>1. /\ m \in Ticked /\ metric[m] # Absent
            /\ metric[m].updated >= read - Quotes!Slack
            /\ m \in passed \/ metric[m].quote = ticks[m]
        BY <1>1, <2>9, <3>4 DEF HandlerKnown
      <4>2. CASE m \in poller.puts
        BY <2>3, <2>4, <2>9, <3>4, <4>1, <4>2
      <4>3. CASE m \notin poller.puts
        BY <2>3, <4>1, <4>3
      <4> QED
        BY <4>2, <4>3
    <3>6. /\ DOMAIN ticks \subseteq Ticked /\ \A m \in DOMAIN ticks : ticks[m] \in Offer
          /\ read \in Int /\ read <= minute /\ puts \subseteq DOMAIN ticks
      BY <1>1, <2>9, <3>4 DEF HandlerKnown
    <3>7. HandlerKnown'
      BY <2>1, <3>3, <3>5, <3>6 DEF HandlerKnown
    <3>8. MarksKnown'
      BY <1>1, <2>1, <2>9, <3>3, <3>4 DEF MarksKnown
    <3> QED
      BY <2>5, <2>6, <2>7, <3>7, <3>8 DEF QuoteInv
  <2> QED
    BY <2>8, <2>9
<1> QED
  BY <1>2, <1>3

\* Counters renew the time of a row and leave its quote.
LEMMA BumpKnown ==
  ASSUME Quotes!QuoteConstants, QuoteInv, NEW k \in Ticked,
         Quotes!BeginBump(k) \/ Quotes!CommitBump(k)
  PROVE  QuoteInv'
<1>1. QuoteTypes /\ ToldKnown /\ HandlerKnown /\ PollerKnown /\ MarksKnown
  BY DEF QuoteInv
<1>2. CASE Quotes!BeginBump(k)
  <2>1. /\ bump' = [bump EXCEPT ![k] = minute]
        /\ UNCHANGED <<minute, metric, chart, mark, handler, poller, told, spent>>
    BY <1>2 DEF Quotes!BeginBump, Quotes!dbVars, Quotes!historyVars
  <2>2. minute \in Int /\ minute - minute <= MaxTxn
    BY <1>1, QuoteSizes DEF QuoteTypes
  <2>3. QuoteTypes'
    BY <1>1, <2>1, <2>2 DEF QuoteTypes
  <2> QED
    BY <1>1, <2>1, <2>3 DEF QuoteInv, ToldKnown, HandlerKnown, PollerKnown, MarksKnown
<1>3. CASE Quotes!CommitBump(k)
  <2>1. /\ bump[k] # Absent /\ bump' = [bump EXCEPT ![k] = Absent]
        /\ metric' = [metric EXCEPT ![k] =
             [quote |-> IF metric[k] = Absent THEN NoQuote ELSE metric[k].quote,
              updated |-> bump[k]]]
        /\ UNCHANGED <<minute, chart, mark, handler, poller, told, spent>>
    BY <1>3 DEF Quotes!CommitBump, Quotes!historyVars
  <2>2. bump[k] \in Int /\ minute - bump[k] <= MaxTxn
    BY <1>1, <2>1 DEF QuoteTypes
  <2>3. PICK row \in [quote : Offer, updated : Int] :
          /\ row = [quote |-> IF metric[k] = Absent THEN NoQuote ELSE metric[k].quote,
                    updated |-> bump[k]]
          /\ row # Absent /\ minute - row.updated <= MaxTxn
          /\ metric[k] # Absent => row.quote = metric[k].quote
    <3>1. (IF metric[k] = Absent THEN NoQuote ELSE metric[k].quote) \in Offer
      BY <1>1, QuoteSizes DEF QuoteTypes
    <3>2. PICK q \in Offer : q = IF metric[k] = Absent THEN NoQuote ELSE metric[k].quote
      BY <3>1
    <3>3. [quote |-> q, updated |-> bump[k]] \in [quote : Offer, updated : Int]
      BY <2>2
    <3>4. [quote |-> q, updated |-> bump[k]] # Absent
      BY <3>3, QuoteSizes
    <3> QED
      BY <2>2, <3>2, <3>3, <3>4
  <2>4. metric' = [metric EXCEPT ![k] = row]
    BY <2>1, <2>3
  <2>5. /\ metric' \in [Ticked -> {Absent} \union [quote : Offer, updated : Int]]
        /\ metric'[k] = row /\ \A m \in Ticked \ {k} : metric'[m] = metric[m]
    BY <1>1, <2>4 DEF QuoteTypes
  <2>6. QuoteTypes'
    BY <1>1, <2>1, <2>5 DEF QuoteTypes
  <2>7. /\ told[k] # Absent => row.updated >= told[k].at - Quotes!Slack
        /\ handler.at = "open" => row.updated >= handler.read - Quotes!Slack
    BY <2>3, WrittenLate
  <2>8. ToldKnown'
    BY <1>1, <2>1, <2>3, <2>5, <2>7 DEF ToldKnown
  <2>9. HandlerKnown'
    BY <1>1, <2>1, <2>3, <2>5, <2>7 DEF HandlerKnown
  <2> QED
    BY <1>1, <2>1, <2>6, <2>8, <2>9 DEF QuoteInv, PollerKnown, MarksKnown
<1> QED
  BY <1>2, <1>3

\* The clock waits for transactions that are open.
LEMMA TickKnown ==
  ASSUME Quotes!QuoteConstants, QuoteInv, Quotes!Tick
  PROVE  QuoteInv'
<1>1. QuoteTypes /\ ToldKnown /\ HandlerKnown /\ PollerKnown /\ MarksKnown
  BY DEF QuoteInv
<1>2. /\ minute' = minute + 1 /\ \A start \in Quotes!Open : minute - start < MaxTxn
      /\ UNCHANGED <<metric, chart, mark, handler, poller, bump, told, spent>>
  BY DEF Quotes!Tick, Quotes!dbVars, Quotes!historyVars
<1>3. minute \in Int /\ MaxTxn \in Nat
  BY <1>1, QuoteSizes DEF QuoteTypes
<1>4. ASSUME NEW m \in Ticked, bump[m] # Absent
      PROVE  minute + 1 - bump[m] <= MaxTxn
  <2>1. bump[m] \in Quotes!Open
    BY <1>4 DEF Quotes!Open
  <2>2. bump[m] \in Int
    BY <1>1, <1>4 DEF QuoteTypes
  <2> QED
    BY <1>2, <1>3, <2>1, <2>2
<1>5. ASSUME poller.at = "open"
      PROVE  minute + 1 - poller.read <= MaxTxn
  <2>1. poller.read \in Quotes!Open
    BY <1>5 DEF Quotes!Open
  <2>2. poller.read \in Int
    BY <1>1, <1>5 DEF PollerKnown
  <2> QED
    BY <1>2, <1>3, <2>1, <2>2
<1>6. QuoteTypes'
  BY <1>1, <1>2, <1>3, <1>4 DEF QuoteTypes
<1>7. ToldKnown'
  BY <1>1, <1>2, <1>3 DEF QuoteTypes, ToldKnown
<1>8. HandlerKnown'
  BY <1>1, <1>2, <1>3 DEF HandlerKnown
<1>9. PollerKnown'
  <2>1. CASE poller.at = "open"
    <3>1. minute' \in Int /\ poller.read \in Int /\ minute' - poller.read <= MaxTxn
      BY <1>1, <1>2, <1>3, <1>5, <2>1 DEF PollerKnown
    <3> QED
      BY <1>1, <1>2, <2>1, <3>1 DEF PollerKnown
  <2>2. CASE poller.at # "open"
    BY <1>1, <1>2, <2>2 DEF PollerKnown
  <2> QED
    BY <2>1, <2>2
<1> QED
  BY <1>1, <1>2, <1>6, <1>7, <1>8, <1>9 DEF QuoteInv, MarksKnown

\* Every step keeps what is known of quotes.
LEMMA QuoteStep ==
  ASSUME Quotes!QuoteConstants, QuoteInv, [Quotes!Next]_Quotes!vars
  PROVE  QuoteInv'
<1>1. CASE UNCHANGED Quotes!vars
  BY <1>1 DEF Quotes!vars, QuoteInv, QuoteTypes, ToldKnown, HandlerKnown, PollerKnown, MarksKnown
<1>2. CASE Quotes!TakeTicks
  <2>1. PICK S \in SUBSET Ticked :
          \E ticks \in [S -> Offer] : Quotes!BeginTicks(ticks, 1)
    BY <1>2 DEF Quotes!TakeTicks
  <2>2. handler.at # "open"
    BY <1>2 DEF Quotes!TakeTicks, Quotes!Idle
  <2>3. PICK ticks \in [S -> Offer] : Quotes!BeginTicks(ticks, 1)
    BY <2>1
  <2>4. DOMAIN ticks \subseteq Ticked /\ \A m \in DOMAIN ticks : ticks[m] \in Offer
    OBVIOUS
  <2> QED
    BY <2>2, <2>3, <2>4, BeginKnown
<1>3. CASE Quotes!RetryTicks
  <2>1. handler.at = "again" /\ Quotes!BeginTicks(handler.batch, 2)
    BY <1>3 DEF Quotes!RetryTicks
  <2>2. /\ DOMAIN handler.batch \subseteq Ticked
        /\ \A m \in DOMAIN handler.batch : handler.batch[m] \in Offer
    BY <2>1 DEF QuoteInv, HandlerKnown
  <2> QED
    BY <2>1, <2>2, BeginKnown
<1>4. CASE Quotes!CommitTicks
  BY <1>4, CommitKnown
<1>5. CASE (\E deadlock \in BOOLEAN : Quotes!FailTicks(deadlock)) \/ Quotes!Restart
  BY <1>5, FailKnown
<1>6. CASE \E page \in [Ticked -> Offer] : Quotes!ReadMetrics(page)
  BY <1>6, ReadKnown
<1>7. CASE Quotes!CommitPage \/ Quotes!FailPage
  BY <1>7, PageKnown
<1>8. CASE \E m \in Ticked : Quotes!BeginBump(m) \/ Quotes!CommitBump(m)
  BY <1>8, BumpKnown
<1>9. CASE Quotes!Tick
  BY <1>9, TickKnown
<1> QED
  BY <1>1, <1>2, <1>3, <1>4, <1>5, <1>6, <1>7, <1>8, <1>9 DEF Quotes!Next

\* What is known of quotes holds from the start.
LEMMA QuoteStart ==
  ASSUME Quotes!QuoteConstants, Quotes!Init
  PROVE  QuoteInv
<1>1. /\ minute = 0 /\ handler = [at |-> "idle"] /\ poller = [at |-> "idle"]
      /\ metric = [m \in Ticked |-> Absent] /\ told = [m \in Ticked |-> Absent]
      /\ mark = [m \in Ticked |-> Absent] /\ bump = [m \in Ticked |-> Absent]
  BY DEF Quotes!Init, Quotes!Idle
<1>2. QuoteTypes
  BY <1>1 DEF QuoteTypes
<1> QED
  BY <1>1, <1>2 DEF QuoteInv, ToldKnown, HandlerKnown, PollerKnown, MarksKnown

\* A tick that is handled has a row in its bucket, or its mark came to nothing.
LEMMA HoleStep ==
  ASSUME Quotes!QuoteConstants, QuoteInv, [Quotes!Next]_Quotes!vars,
         NEW m \in Ticked, told'[m] # told[m], told'[m].quote # NoQuote
  PROVE  \/ <<m, Quotes!Bucket(told'[m].at)>> \in chart'
         \/ /\ m \in spent /\ Quotes!Bucket(mark[m]) = Quotes!Bucket(told'[m].at)
            /\ told'[m].at - mark[m] < MinGap
<1>1. Quotes!CommitTicks
  BY DEF Quotes!Next, Quotes!vars, Quotes!TakeTicks, Quotes!RetryTicks, Quotes!BeginTicks,
         Quotes!FailTicks, Quotes!Restart, Quotes!ReadMetrics, Quotes!CommitPage,
         Quotes!FailPage, Quotes!BeginBump, Quotes!CommitBump, Quotes!Tick,
         Quotes!historyVars
<1>2. /\ handler.at = "open" /\ chart' = chart \union handler.rows
      /\ told' = [n \in Ticked |-> IF n \in DOMAIN handler.batch
                   THEN [quote |-> handler.batch[n], at |-> handler.read] ELSE told[n]]
  BY <1>1 DEF Quotes!CommitTicks
<1>3. /\ m \in DOMAIN handler.batch
      /\ told'[m] = [quote |-> handler.batch[m], at |-> handler.read]
  BY <1>2
<1>4. handler.batch[m] # NoQuote
  BY <1>3
<1>5. \/ <<m, Quotes!Bucket(handler.read)>> \in handler.rows
      \/ /\ mark[m] # Absent /\ Quotes!Bucket(mark[m]) = Quotes!Bucket(handler.read)
         /\ handler.read - mark[m] < MinGap
  BY <1>2, <1>3, <1>4 DEF QuoteInv, MarksKnown
<1>6. mark[m] # Absent /\ m \notin spent => <<m, Quotes!Bucket(mark[m])>> \in chart'
  BY <1>2 DEF QuoteInv, MarksKnown
<1>7. told'[m].at = handler.read
  BY <1>3
<1> QED
  BY <1>2, <1>5, <1>6, <1>7

\* The steps that change the quote of a row or handle a tick.
LEMMA FollowStep ==
  ASSUME Quotes!QuoteConstants, QuoteInv, [Quotes!Next]_Quotes!vars, NEW m \in Ticked,
         told'[m] # Absent,
         Quotes!Shown(m)' # Quotes!Shown(m) \/ told'[m] # told[m]
  PROVE  \/ Quotes!Shown(m)' = told'[m].quote
         \/ handler.at = "open" /\ m \in handler.passed
         \/ handler'.at = "open" /\ m \in handler'.passed
         \/ poller.at = "open" /\ m \in poller.passed
         \/ poller.at = "open" /\ poller.read - told'[m].at >= Fresh - Quotes!Slack
<1>1. QuoteTypes /\ ToldKnown /\ HandlerKnown /\ PollerKnown
  BY DEF QuoteInv
<1>2. ~UNCHANGED <<metric, told>>
  BY DEF Quotes!Shown
<1>3. \/ Quotes!CommitTicks \/ Quotes!CommitPage
      \/ \E k \in Ticked : Quotes!CommitBump(k)
  BY <1>2 DEF Quotes!Next, Quotes!vars, Quotes!TakeTicks, Quotes!RetryTicks,
         Quotes!BeginTicks, Quotes!FailTicks, Quotes!Restart, Quotes!ReadMetrics,
         Quotes!FailPage, Quotes!BeginBump, Quotes!Tick, Quotes!dbVars, Quotes!historyVars
<1>4. CASE Quotes!CommitTicks
  <2>1. /\ handler.at = "open"
        /\ metric' = Quotes!Upserted(handler.batch, handler.puts, handler.read)
        /\ told' = [n \in Ticked |-> IF n \in DOMAIN handler.batch
                     THEN [quote |-> handler.batch[n], at |-> handler.read] ELSE told[n]]
    BY <1>4 DEF Quotes!CommitTicks
  <2>2. /\ handler.puts \subseteq DOMAIN handler.batch /\ handler.read \in Int
        /\ \A n \in DOMAIN handler.batch : handler.batch[n] \in Offer
    BY <1>1, <2>1 DEF HandlerKnown
  <2>3. /\ m \notin handler.puts => metric'[m] = metric[m]
        /\ m \in handler.puts =>
             /\ metric'[m] = [quote |-> handler.batch[m], updated |-> handler.read]
             /\ metric'[m] # Absent
    BY <1>1, <2>1, <2>2, UpsertedOf
  <2>4. m \in DOMAIN handler.batch
    BY <2>1, <2>2, <2>3 DEF Quotes!Shown
  <2>5. told'[m].quote = handler.batch[m]
    BY <2>1, <2>4
  <2>6. CASE m \in handler.puts
    BY <2>3, <2>5, <2>6 DEF Quotes!Shown
  <2>7. CASE m \notin handler.puts
    <3>1. metric[m] # Absent /\ (m \in handler.passed \/ metric[m].quote = handler.batch[m])
      BY <1>1, <2>1, <2>4, <2>7 DEF HandlerKnown
    <3> QED
      BY <2>1, <2>3, <2>5, <2>7, <3>1 DEF Quotes!Shown
  <2> QED
    BY <2>6, <2>7
<1>5. CASE Quotes!CommitPage
  <2>1. /\ poller.at = "open" /\ told' = told
        /\ metric' = Quotes!Upserted(poller.page, poller.puts, poller.read)
        /\ handler' = IF handler.at = "open"
                      THEN [handler EXCEPT !.passed = @ \union poller.puts] ELSE handler
    BY <1>5 DEF Quotes!CommitPage, Quotes!historyVars
  <2>2. poller.read \in Int /\ \A n \in Ticked : poller.page[n] \in Offer
    BY <1>1, <2>1 DEF PollerKnown
  <2>3. m \notin poller.puts => metric'[m] = metric[m]
    BY <1>1, <2>1, <2>2, UpsertedOf
  <2>4. m \in poller.puts
    BY <2>1, <2>3 DEF Quotes!Shown
  <2> QED
    BY <1>1, <2>1, <2>4 DEF PollerKnown
<1>6. CASE \E k \in Ticked : Quotes!CommitBump(k)
  <2>1. PICK k \in Ticked :
          /\ told' = told /\ bump[k] # Absent
          /\ metric' = [metric EXCEPT ![k] =
               [quote |-> IF metric[k] = Absent THEN NoQuote ELSE metric[k].quote,
                updated |-> bump[k]]]
    BY <1>6 DEF Quotes!CommitBump, Quotes!historyVars
  <2>2. CASE m # k
    BY <1>1, <2>1, <2>2 DEF QuoteTypes, Quotes!Shown
  <2>3. CASE m = k
    <3>1. metric'[m] = [quote |-> Quotes!Shown(m), updated |-> bump[k]]
      BY <1>1, <2>1, <2>3 DEF QuoteTypes, Quotes!Shown
    <3>2. metric'[m].quote = Quotes!Shown(m)
      BY <3>1
    <3>3. metric[m] # Absent
      BY <1>1, <2>1 DEF ToldKnown
    <3>4. metric'[m].quote = metric[m].quote
      BY <3>2, <3>3 DEF Quotes!Shown
    <3>5. metric'[m] # Absent
      <4>1. metric[m] \in [quote : Offer, updated : Int] /\ bump[k] \in Int
        BY <1>1, <2>1, <3>3 DEF QuoteTypes
      <4>2. Quotes!Shown(m) \in Offer
        BY <3>3, <4>1 DEF Quotes!Shown
      <4>3. [quote |-> Quotes!Shown(m), updated |-> bump[k]] \in [quote : Offer, updated : Int]
        BY <4>1, <4>2
      <4> QED
        BY <3>1, <4>3, QuoteSizes
    <3> QED
      BY <2>1, <3>3, <3>4, <3>5 DEF Quotes!Shown
  <2> QED
    BY <2>2, <2>3
<1> QED
  BY <1>3, <1>4, <1>5, <1>6

\* A handled tick has its row on the chart, but after a mark that came to nothing: the
\* throttle and the rows it answers for never part, whatever rolls back or dies between.
THEOREM HolesBounded ==
  ASSUME Quotes!QuoteConstants PROVE Quotes!Spec => HoleBounded
<1>1. Quotes!Init => QuoteInv
  BY QuoteStart
<1>2. QuoteInv /\ [Quotes!Next]_Quotes!vars => QuoteInv'
  BY QuoteStep
<1>3. QuoteInv /\ [Quotes!Next]_Quotes!vars =>
        [\A m \in Ticked :
           told'[m] # told[m] /\ told'[m].quote # NoQuote =>
             \/ <<m, Quotes!Bucket(told'[m].at)>> \in chart'
             \/ /\ m \in spent /\ Quotes!Bucket(mark[m]) = Quotes!Bucket(told'[m].at)
                /\ told'[m].at - mark[m] < MinGap]_Quotes!vars
  BY HoleStep
<1> QED
  BY <1>1, <1>2, <1>3, PTL DEF Quotes!Spec, HoleBounded, Quotes!HoleBounded

\* The quote of a row is that of the last tick, unless the poller wrote it after that,
\* and the poller does so only to a row it had reason to take for stale.
THEOREM QuotesFollow ==
  ASSUME Quotes!QuoteConstants PROVE Quotes!Spec => QuoteFollows
<1>1. Quotes!Init => QuoteInv
  BY QuoteStart
<1>2. QuoteInv /\ [Quotes!Next]_Quotes!vars => QuoteInv'
  BY QuoteStep
<1>3. QuoteInv /\ [Quotes!Next]_Quotes!vars =>
        [\A m \in Ticked :
           told'[m] # Absent /\ (Quotes!Shown(m)' # Quotes!Shown(m) \/ told'[m] # told[m]) =>
             \/ Quotes!Shown(m)' = told'[m].quote
             \/ handler.at = "open" /\ m \in handler.passed
             \/ handler'.at = "open" /\ m \in handler'.passed
             \/ poller.at = "open" /\ m \in poller.passed
             \/ poller.at = "open" /\ poller.read - told'[m].at >= Fresh - Quotes!Slack]_Quotes!vars
  BY FollowStep
<1> QED
  BY <1>1, <1>2, <1>3, PTL DEF Quotes!Spec, QuoteFollows, Quotes!QuoteFollows

----------------------------------------------------------------------------
(* Folds: the recursion of a fold has a solution, so a fold is a run.      *)

\* Induction over the natural numbers, for a set: its least missing number would
\* follow one that is there.
LEMMA Induction ==
  ASSUME NEW S, 0 \in S, \A i \in Nat : i \in S => i + 1 \in S
  PROVE  \A i \in Nat : i \in S
<1> SUFFICES ASSUME NEW n \in Nat, n \notin S
             PROVE  FALSE
  OBVIOUS
<1>1. PICK k \in Nat \ S : \A j \in Nat \ S : ~(<<j, k>> \in OpToRel(<, Nat))
  <2>1. Nat \ S \subseteq Nat /\ Nat \ S # {}
    OBVIOUS
  <2> QED
    BY <2>1, NatLessThanWellFounded, WFMin
<1>2. \A j \in Nat \ S : ~(j < k)
  BY <1>1 DEF OpToRel
<1>3. k # 0 /\ k - 1 \in Nat
  OBVIOUS
<1>4. k - 1 \in S
  BY <1>2, <1>3
<1>5. k - 1 + 1 \in S
  BY <1>3, <1>4
<1> QED
  BY <1>5

\* The greatest element, as folds choose it.
Largest(S) == CHOOSE x \in S : \A y \in S : x >= y

\* It is the one that no other exceeds.
LEMMA LargestIs ==
  ASSUME NEW k \in Int, NEW S \in SUBSET Int, k \in S, \A x \in S : x <= k
  PROVE  Largest(S) = k
<1>1. \A x \in S : x >= k => x = k
  OBVIOUS
<1> QED
  BY <1>1 DEF Largest

\* A set of positions has one.
LEMMA LargestIn ==
  ASSUME NEW n \in Nat
  PROVE  \A S \in SUBSET (1 .. n) : S # {} => Largest(S) \in S
<1> DEFINE K == {k \in Nat : \A S \in SUBSET (1 .. k) : S # {} => Largest(S) \in S}
<1>1. 0 \in K
  <2>1. \A S \in SUBSET (1 .. 0) : S = {}
    OBVIOUS
  <2> QED
    BY <2>1
<1>2. ASSUME NEW k \in Nat, k \in K
      PROVE  k + 1 \in K
  <2>1. ASSUME NEW S \in SUBSET (1 .. k + 1), S # {}
        PROVE  Largest(S) \in S
    <3>1. CASE k + 1 \in S
      BY <3>1, LargestIs
    <3>2. CASE k + 1 \notin S
      <4>1. S \in SUBSET (1 .. k)
        BY <3>2
      <4> QED
        BY <1>2, <2>1, <4>1
    <3> QED
      BY <3>1, <3>2
  <2> QED
    BY <2>1
<1> HIDE DEF K
<1>3. n \in K
  BY <1>1, <1>2, Induction
<1> QED
  BY <1>3 DEF K

\* A fold over 1 .. k: G[i][d] is what element i makes of d.
Folding(f, base, G, k) ==
  f = [S \in SUBSET (1 .. k) |->
         IF S = {} THEN base ELSE G[Largest(S)][f[S \ {Largest(S)}]]]

CanFold(k, D, base, G) ==
  \E f \in [SUBSET (1 .. k) -> D] : Folding(f, base, G, k)

\* The recursion of a fold has a solution.
LEMMA FoldDefined ==
  ASSUME NEW n \in Nat, NEW D, NEW base \in D, NEW G \in [1 .. n -> [D -> D]]
  PROVE  CanFold(n, D, base, G)
<1> DEFINE K == {k \in Nat : k <= n => CanFold(k, D, base, G)}
<1>1. 0 \in K
  <2> DEFINE f == [S \in SUBSET (1 .. 0) |-> base]
  <2>1. \A S \in SUBSET (1 .. 0) : S = {}
    OBVIOUS
  <2>2. Folding(f, base, G, 0)
    BY <2>1 DEF Folding
  <2> QED
    BY <2>2 DEF CanFold
<1>2. ASSUME NEW k \in Nat, k \in K
      PROVE  k + 1 \in K
  <2> SUFFICES ASSUME k + 1 <= n
               PROVE  CanFold(k + 1, D, base, G)
    OBVIOUS
  <2>0. CanFold(k, D, base, G)
    BY <1>2
  <2>1. PICK f \in [SUBSET (1 .. k) -> D] : Folding(f, base, G, k)
    BY <2>0 DEF CanFold
  <2> DEFINE g == [S \in SUBSET (1 .. k + 1) |->
                     IF k + 1 \in S THEN G[k + 1][f[S \ {k + 1}]] ELSE f[S]]
  <2>2. \A S \in SUBSET (1 .. k + 1) : S \ {k + 1} \in SUBSET (1 .. k)
    OBVIOUS
  <2>3. \A S \in SUBSET (1 .. k + 1) : k + 1 \notin S => S \in SUBSET (1 .. k)
    OBVIOUS
  <2>4. g \in [SUBSET (1 .. k + 1) -> D]
    BY <2>2, <2>3
  <2>5. ASSUME NEW S \in SUBSET (1 .. k + 1)
        PROVE  g[S] = IF S = {} THEN base ELSE G[Largest(S)][g[S \ {Largest(S)}]]
    <3>1. CASE k + 1 \in S
      <4>1. Largest(S) = k + 1
        BY <3>1, LargestIs
      <4>2. g[S \ {k + 1}] = f[S \ {k + 1}]
        BY <2>2
      <4> QED
        BY <3>1, <4>1, <4>2
    <3>2. CASE k + 1 \notin S
      <4>1. S \in SUBSET (1 .. k) /\ S \ {Largest(S)} \in SUBSET (1 .. k)
        BY <2>3, <3>2
      <4>2. g[S] = f[S] /\ g[S \ {Largest(S)}] = f[S \ {Largest(S)}]
        BY <3>2, <4>1
      <4>3. f[S] = IF S = {} THEN base ELSE G[Largest(S)][f[S \ {Largest(S)}]]
        BY <2>1, <4>1 DEF Folding
      <4> QED
        BY <4>2, <4>3
    <3> QED
      BY <3>1, <3>2
  <2>6. Folding(g, base, G, k + 1)
    <3> HIDE DEF g
    <3>1. g = [S \in SUBSET (1 .. k + 1) |-> g[S]]
      BY <2>4
    <3> QED
      BY <2>5, <3>1 DEF Folding
  <2> QED
    BY <2>4, <2>6 DEF CanFold
<1>3. n \in K
  <2> HIDE DEF K
  <2> QED
    BY <1>1, <1>2, Induction
<1> QED
  BY <1>3

----------------------------------------------------------------------------
(* Runs of the two merges over rows that the service writes.               *)

\* Rows that the service writes.
GoodRow == {r \in Row : WellFormed(r)}

\* ChartMerge merges as ChartRow does, with the same rows.
LEMMA SameMerges ==
  /\ \A x, y : Merge!SqlMerge(x, y) = SqlMerge(x, y) /\ Merge!PyMerge(x, y) = PyMerge(x, y)
  /\ Merge!NoRow = NoRow /\ Merge!Null = Null /\ Merge!Value = Value
  /\ \A t, p : Merge!TradeRow(t, p) = TradeRow(t, p)
  /\ \A t, l, b, a : Merge!QuoteRow(t, l, b, a) = QuoteRow(t, l, b, a)
<1>0. Merge!Null = Null /\ Merge!Value = Value
  BY DEF Merge!Null, Null, Merge!Value, Value
<1>1. Merge!NoRow = NoRow
  BY <1>0 DEF Merge!NoRow, NoRow
<1>2. \A x, y : /\ Merge!Greatest(x, y) = Greatest(x, y) /\ Merge!Least(x, y) = Least(x, y)
                /\ Merge!Before(x, y) = Before(x, y) /\ Merge!NotBefore(x, y) = NotBefore(x, y)
                /\ Merge!HasEarlierTs(x, y) = HasEarlierTs(x, y)
  BY <1>0 DEF Merge!Greatest, Greatest, Merge!Least, Least, Merge!Before, Before,
              Merge!NotBefore, NotBefore, Merge!HasEarlierTs, HasEarlierTs
<1>3. ASSUME NEW x, NEW y
      PROVE  Merge!SqlMerge(x, y) = SqlMerge(x, y)
  <2>1. /\ Merge!ClosePriceIsBetter(x, y) = ClosePriceIsBetter(x, y)
        /\ Merge!QuoteIsNewer(x, y) = QuoteIsNewer(x, y)
    BY <1>0, <1>2 DEF Merge!ClosePriceIsBetter, ClosePriceIsBetter,
                      Merge!QuoteIsNewer, QuoteIsNewer
  <2> QED
    BY <1>0, <1>2, <2>1 DEF Merge!SqlMerge, SqlMerge
<1>4. ASSUME NEW x, NEW y
      PROVE  Merge!PyMerge(x, y) = PyMerge(x, y)
  <2>1. PriceRowWins(y, x) <=> Merge!PriceRowWins(y, x)
    BY <1>0 DEF Merge!PriceRowWins, PriceRowWins
  <2>2. QuoteRowIsNewer(y, x) <=> Merge!QuoteRowIsNewer(y, x)
    BY <1>0 DEF Merge!QuoteRowIsNewer, QuoteRowIsNewer
  <2> QED
    BY <1>0, <1>2, <2>1, <2>2 DEF Merge!PyMerge, PyMerge
<1>5. \A t, p : Merge!TradeRow(t, p) = TradeRow(t, p)
  BY <1>1 DEF Merge!TradeRow, TradeRow
<1>6. ASSUME NEW t, NEW l, NEW b, NEW a
      PROVE  Merge!QuoteRow(t, l, b, a) = QuoteRow(t, l, b, a)
  <2>1. /\ Merge!Rank(l, b, a) = Rank(l, b, a)
        /\ Merge!DisplayPrice(l, b, a) = DisplayPrice(l, b, a)
    BY <1>0 DEF Merge!Rank, Rank, Merge!DisplayPrice, DisplayPrice
  <2> QED
    BY <1>0, <2>1 DEF Merge!QuoteRow, QuoteRow
<1> QED
  BY <1>0, <1>1, <1>3, <1>4, <1>5, <1>6

\* A run of the upsert over rows, one by one.
SqlRun(h, base, s) ==
  /\ DOMAIN h = 0 .. Len(s) /\ h[0] = base
  /\ \A k \in 1 .. Len(s) : h[k] = SqlMerge(h[k - 1], s[k])

\* The same in Python.
PyRun(h, base, s) ==
  /\ DOMAIN h = 0 .. Len(s) /\ h[0] = base
  /\ \A k \in 1 .. Len(s) : h[k] = PyMerge(h[k - 1], s[k])

\* The folds of the two merges over a sequence.
SqlFold(base, s) ==
  CHOOSE f : f = [S \in SUBSET DOMAIN s |->
                    IF S = {} THEN base
                    ELSE Merge!SqlMerge(f[S \ {Largest(S)}], s[Largest(S)])]

PyFold(base, s) ==
  CHOOSE f : f = [S \in SUBSET DOMAIN s |->
                    IF S = {} THEN base
                    ELSE Merge!PyMerge(f[S \ {Largest(S)}], s[Largest(S)])]

\* The folds of the model are those choices of a solution.
LEMMA FoldsAre ==
  ASSUME NEW base, NEW s
  PROVE  /\ Merge!FoldLeft(Merge!SqlMerge, base, s) = SqlFold(base, s)[DOMAIN s]
         /\ Merge!FoldLeft(Merge!PyMerge, base, s) = PyFold(base, s)[DOMAIN s]
BY DEF Merge!FoldLeft, Merge!MapThenFoldSet, Merge!Max, Largest, SqlFold, PyFold

\* Rows that the service can write stay such when they are merged.
LEMMA GoodMerge ==
  ASSUME NEW x \in GoodRow, NEW y \in GoodRow
  PROVE  SqlMerge(x, y) \in GoodRow /\ PyMerge(x, y) = SqlMerge(x, y)
<1>1. WellFormed(x) /\ WellFormed(y)
  BY DEF GoodRow
<1>2. WellFormed(SqlMerge(x, y)) /\ SqlMerge(x, y) = PyMerge(x, y)
  BY <1>1, MergeWellFormed, SqlIsPython
<1> QED
  BY <1>2 DEF WellFormed, GoodRow

\* A fold of the upsert is where its run ends.
LEMMA SqlFoldRuns ==
  ASSUME NEW base \in GoodRow, NEW s \in Seq(GoodRow)
  PROVE  \E h : /\ SqlRun(h, base, s)
                /\ Merge!FoldLeft(Merge!SqlMerge, base, s) = h[Len(s)]
<1> DEFINE n == Len(s)
           G == [i \in 1 .. n |-> [d \in GoodRow |-> SqlMerge(d, s[i])]]
           iter == SqlFold(base, s)
           h == [k \in 0 .. n |-> iter[1 .. k]]
<1>1. n \in Nat /\ DOMAIN s = 1 .. n /\ \A i \in 1 .. n : s[i] \in GoodRow
  OBVIOUS
<1>2. G \in [1 .. n -> [GoodRow -> GoodRow]]
  BY <1>1, GoodMerge
<1>3. PICK f \in [SUBSET (1 .. n) -> GoodRow] : Folding(f, base, G, n)
  <2> HIDE DEF n, G
  <2> QED
    BY <1>1, <1>2, FoldDefined DEF CanFold
<1>4. f = [S \in SUBSET DOMAIN s |->
             IF S = {} THEN base
             ELSE Merge!SqlMerge(f[S \ {Largest(S)}], s[Largest(S)])]
  <2>1. ASSUME NEW S \in SUBSET (1 .. n), S # {}
        PROVE  G[Largest(S)][f[S \ {Largest(S)}]] =
                 Merge!SqlMerge(f[S \ {Largest(S)}], s[Largest(S)])
    <3>1. Largest(S) \in 1 .. n
      BY <1>1, <2>1, LargestIn
    <3>2. f[S \ {Largest(S)}] \in GoodRow
      BY <1>3
    <3> QED
      BY <3>1, <3>2, SameMerges
  <2> HIDE DEF G
  <2> QED
    BY <1>1, <1>3, <2>1 DEF Folding
<1>5. iter = [S \in SUBSET DOMAIN s |->
                IF S = {} THEN base
                ELSE Merge!SqlMerge(iter[S \ {Largest(S)}], s[Largest(S)])]
  BY <1>4 DEF SqlFold
<1> HIDE DEF iter
<1>6. ASSUME NEW k \in 1 .. n
      PROVE  iter[1 .. k] = SqlMerge(iter[1 .. k - 1], s[k])
  <2>1. Largest(1 .. k) = k
    <3>1. 1 .. k \in SUBSET Int /\ k \in 1 .. k /\ \A x \in 1 .. k : x <= k
      BY <1>1
    <3> QED
      BY <3>1, LargestIs
  <2>2. (1 .. k) \ {k} = 1 .. k - 1 /\ 1 .. k \in SUBSET (1 .. n) /\ 1 .. k # {}
    <3>1. n \in Nat /\ k \in Nat /\ 1 <= k /\ k <= n
      BY <1>1
    <3> HIDE DEF n
    <3>2. (1 .. k) \ {k} = 1 .. k - 1
      BY <3>1
    <3>3. 1 .. k \in SUBSET (1 .. n) /\ k \in 1 .. k
      BY <3>1
    <3> QED
      BY <3>2, <3>3
  <2>3. iter[1 .. k] = Merge!SqlMerge(iter[1 .. k - 1], s[k])
    BY <1>1, <1>5, <2>1, <2>2
  <2> QED
    BY <2>3, SameMerges
<1>7. iter[1 .. 0] = base
  <2>1. 1 .. 0 = {}
    OBVIOUS
  <2> QED
    BY <1>1, <1>5, <2>1
<1>8. SqlRun(h, base, s)
  BY <1>1, <1>6, <1>7 DEF SqlRun
<1>9. Merge!FoldLeft(Merge!SqlMerge, base, s) = h[Len(s)]
  BY <1>1, FoldsAre DEF iter
<1> QED
  BY <1>8, <1>9

\* The Python merge keeps rows good.
LEMMA GoodPyMerge ==
  ASSUME NEW x \in GoodRow, NEW y \in GoodRow
  PROVE  PyMerge(x, y) \in GoodRow
BY GoodMerge

\* So is a fold of the Python merge.
LEMMA PyFoldRuns ==
  ASSUME NEW base \in GoodRow, NEW s \in Seq(GoodRow)
  PROVE  \E h : /\ PyRun(h, base, s)
                /\ Merge!FoldLeft(Merge!PyMerge, base, s) = h[Len(s)]
<1> DEFINE n == Len(s)
           G == [i \in 1 .. n |-> [d \in GoodRow |-> PyMerge(d, s[i])]]
           iter == PyFold(base, s)
           h == [k \in 0 .. n |-> iter[1 .. k]]
<1>1. n \in Nat /\ DOMAIN s = 1 .. n /\ \A i \in 1 .. n : s[i] \in GoodRow
  OBVIOUS
<1>2. G \in [1 .. n -> [GoodRow -> GoodRow]]
  BY <1>1, GoodPyMerge
<1>3. PICK f \in [SUBSET (1 .. n) -> GoodRow] : Folding(f, base, G, n)
  <2> HIDE DEF n, G
  <2> QED
    BY <1>1, <1>2, FoldDefined DEF CanFold
<1>4. f = [S \in SUBSET DOMAIN s |->
             IF S = {} THEN base
             ELSE Merge!PyMerge(f[S \ {Largest(S)}], s[Largest(S)])]
  <2>1. ASSUME NEW S \in SUBSET (1 .. n), S # {}
        PROVE  G[Largest(S)][f[S \ {Largest(S)}]] =
                 Merge!PyMerge(f[S \ {Largest(S)}], s[Largest(S)])
    <3>1. Largest(S) \in 1 .. n
      BY <1>1, <2>1, LargestIn
    <3>2. f[S \ {Largest(S)}] \in GoodRow
      BY <1>3
    <3> QED
      BY <3>1, <3>2, SameMerges
  <2> HIDE DEF G
  <2> QED
    BY <1>1, <1>3, <2>1 DEF Folding
<1>5. iter = [S \in SUBSET DOMAIN s |->
                IF S = {} THEN base
                ELSE Merge!PyMerge(iter[S \ {Largest(S)}], s[Largest(S)])]
  BY <1>4 DEF PyFold
<1> HIDE DEF iter
<1>6. ASSUME NEW k \in 1 .. n
      PROVE  iter[1 .. k] = PyMerge(iter[1 .. k - 1], s[k])
  <2>1. Largest(1 .. k) = k
    <3>1. 1 .. k \in SUBSET Int /\ k \in 1 .. k /\ \A x \in 1 .. k : x <= k
      BY <1>1
    <3> QED
      BY <3>1, LargestIs
  <2>2. (1 .. k) \ {k} = 1 .. k - 1 /\ 1 .. k \in SUBSET (1 .. n) /\ 1 .. k # {}
    <3>1. n \in Nat /\ k \in Nat /\ 1 <= k /\ k <= n
      BY <1>1
    <3> HIDE DEF n
    <3>2. (1 .. k) \ {k} = 1 .. k - 1
      BY <3>1
    <3>3. 1 .. k \in SUBSET (1 .. n) /\ k \in 1 .. k
      BY <3>1
    <3> QED
      BY <3>2, <3>3
  <2>3. iter[1 .. k] = Merge!PyMerge(iter[1 .. k - 1], s[k])
    BY <1>1, <1>5, <2>1, <2>2
  <2> QED
    BY <2>3, SameMerges
<1>7. iter[1 .. 0] = base
  <2>1. 1 .. 0 = {}
    OBVIOUS
  <2> QED
    BY <1>1, <1>5, <2>1
<1>8. PyRun(h, base, s)
  BY <1>1, <1>6, <1>7 DEF PyRun
<1>9. Merge!FoldLeft(Merge!PyMerge, base, s) = h[Len(s)]
  BY <1>1, FoldsAre DEF iter
<1> QED
  BY <1>8, <1>9

\* The positions of a set of buckets before bucket i.
CountBelow(S, i) == Cardinality({x \in S : x < i})

\* The instance counts as this module does.
LEMMA SameCardinality ==
  ASSUME NEW S
  PROVE  Merge!Cardinality(S) = Cardinality(S)
BY DEF Merge!Cardinality, Cardinality

\* Counting below goes up by one at each element.
LEMMA CountUp ==
  ASSUME NEW n \in Nat, NEW S \in SUBSET (0 .. n), NEW i \in 0 .. n
  PROVE  /\ CountBelow(S, 0) = 0 /\ CountBelow(S, i) \in Nat
         /\ i \in S => CountBelow(S, i + 1) = CountBelow(S, i) + 1
         /\ i \notin S => CountBelow(S, i + 1) = CountBelow(S, i)
<1> DEFINE B == {x \in S : x < i}
           C == {x \in S : x < i + 1}
<1>1. IsFiniteSet(0 .. n)
  BY FS_Interval
<1>2. IsFiniteSet(B) /\ Cardinality(B) \in Nat
  <2>1. B \in SUBSET (0 .. n)
    OBVIOUS
  <2> HIDE DEF B
  <2> QED
    BY <1>1, <2>1, FS_Subset, FS_CardinalityType
<1>0. \A x \in S : x \in Int /\ 0 <= x
  OBVIOUS
<1>3. {x \in S : x < 0} = {} /\ Cardinality({}) = 0
  <2>1. \A x \in S : ~(x < 0)
    BY <1>0
  <2>2. {x \in S : x < 0} = {}
    BY <2>1
  <2> QED
    BY <2>2, FS_EmptySet
<1>4. i \notin B
  OBVIOUS
<1>5. i \in S => C = B \union {i}
  <2>1. \A x \in S : x < i + 1 <=> x < i \/ x = i
    BY <1>0
  <2> QED
    BY <2>1
<1>6. i \notin S => C = B
  <2>1. \A x \in S : i \notin S => (x < i + 1 <=> x < i)
    BY <1>0
  <2> QED
    BY <2>1
<1> HIDE DEF B, C
<1>7. Cardinality(B \union {i}) = Cardinality(B) + 1
  BY <1>2, <1>4, FS_AddElement
<1> QED
  BY <1>2, <1>3, <1>5, <1>6, <1>7 DEF CountBelow, B, C

\* A later bucket has more below it.
LEMMA CountMore ==
  ASSUME NEW n \in Nat, NEW S \in SUBSET (0 .. n), NEW i \in S, NEW j \in 0 .. n + 1, i < j
  PROVE  CountBelow(S, i) + 1 <= CountBelow(S, j) /\ CountBelow(S, j) \in Nat
<1> DEFINE B == {x \in S : x < i}
           C == {x \in S : x < j}
<1>1. IsFiniteSet(0 .. n)
  BY FS_Interval
<1>2. B \in SUBSET (0 .. n) /\ C \in SUBSET (0 .. n) /\ i \notin B /\ B \union {i} \in SUBSET C
  <2>1. \A x \in S : x < i => x < j
    OBVIOUS
  <2>2. ~(i < i) /\ i \in C
    OBVIOUS
  <2> QED
    BY <2>1, <2>2
<1> HIDE DEF B, C
<1>3. IsFiniteSet(B) /\ IsFiniteSet(C)
  BY <1>1, <1>2, FS_Subset
<1>4. Cardinality(B \union {i}) = Cardinality(B) + 1
  BY <1>2, <1>3, FS_AddElement
<1>5. Cardinality(B \union {i}) <= Cardinality(C)
  BY <1>2, <1>3, FS_Subset
<1>6. Cardinality(C) \in Nat /\ Cardinality(B) \in Nat
  BY <1>3, FS_CardinalityType
<1> QED
  BY <1>4, <1>5, <1>6 DEF CountBelow, B, C

\* The bucket of an entry of a set's rows.
BucketAt(S, i) == CHOOSE b \in S : Merge!Cardinality({x \in S : x < b}) = i - 1

\* It is the one with as many others below it.
LEMMA BucketAtIs ==
  ASSUME NEW n \in Nat, NEW S \in SUBSET (0 .. n), NEW i \in S
  PROVE  BucketAt(S, CountBelow(S, i) + 1) = i
<1>0. CountBelow(S, i) \in Nat
  BY CountUp
<1>1. ASSUME NEW b \in S, CountBelow(S, b) = CountBelow(S, i)
      PROVE  b = i
  <2>1. b \in 0 .. n /\ i \in 0 .. n /\ b \in 0 .. n + 1 /\ i \in 0 .. n + 1
    OBVIOUS
  <2>2. CASE b < i
    <3>1. CountBelow(S, b) + 1 <= CountBelow(S, i) /\ CountBelow(S, i) \in Nat
      BY <2>1, <2>2, CountMore
    <3> QED
      BY <3>1, <1>1
  <2>3. CASE i < b
    <3>1. CountBelow(S, i) + 1 <= CountBelow(S, b) /\ CountBelow(S, b) \in Nat
      BY <2>1, <2>3, CountMore
    <3> QED
      BY <3>1, <1>1
  <2> QED
    BY <2>1, <2>2, <2>3
<1>2. \A b : Merge!Cardinality({x \in S : x < b}) = CountBelow(S, b)
  BY SameCardinality DEF CountBelow
<1>3. CountBelow(S, i) + 1 - 1 = CountBelow(S, i)
  BY <1>0
<1> DEFINE c == CountBelow(S, i) + 1
           P(b) == Merge!Cardinality({x \in S : x < b}) = c - 1
<1>4. \A b \in S : P(b) <=> b = i
  <2>1. \A b : P(b) <=> CountBelow(S, b) = c - 1
    BY <1>2
  <2>2. c - 1 = CountBelow(S, i)
    BY <1>0
  <2> HIDE DEF P, c
  <2>3. \A b \in S : P(b) <=> CountBelow(S, b) = CountBelow(S, i)
    BY <2>1, <2>2
  <2> QED
    BY <1>1, <2>3
<1>5. BucketAt(S, c) = CHOOSE b \in S : P(b)
  BY DEF BucketAt
<1> HIDE DEF P
<1> QED
  BY <1>4, <1>5

\* All buckets have as many below them as their number.
LEMMA CountAll ==
  ASSUME NEW n \in Nat, NEW i \in 0 .. n + 1
  PROVE  CountBelow(0 .. n, i) = i
<1>1. {x \in 0 .. n : x < i} = 0 .. i - 1
  OBVIOUS
<1>2. Cardinality(0 .. i - 1) = i
  <2>1. 0 \in Int /\ i - 1 \in Int
    OBVIOUS
  <2>2. Cardinality(0 .. i - 1) = IF 0 > i - 1 THEN 0 ELSE i - 1 - 0 + 1
    BY <2>1, FS_Interval
  <2> QED
    BY <2>2
<1> QED
  BY <1>1, <1>2 DEF CountBelow

\* The rows of a set of buckets.
RowsIn(f, S) == [i \in 1 .. Cardinality(S) |-> f[BucketAt(S, i)]]

\* Entry by entry.
LEMMA RowsInOrder ==
  ASSUME NEW n \in Nat, NEW S \in SUBSET (0 .. n), NEW f
  PROVE  /\ DOMAIN RowsIn(f, S) = 1 .. CountBelow(S, n + 1)
         /\ CountBelow(S, n + 1) = Cardinality(S) /\ Cardinality(S) \in Nat
         /\ Len(RowsIn(f, S)) = Cardinality(S)
         /\ \A b \in S : /\ RowsIn(f, S)[CountBelow(S, b) + 1] = f[b]
                         /\ CountBelow(S, b) + 1 \in 1 .. Cardinality(S)
<1>0. IsFiniteSet(S)
  <2>1. IsFiniteSet(0 .. n)
    BY FS_Interval
  <2> QED
    BY <2>1, FS_Subset
<1>1. CountBelow(S, n + 1) = Cardinality(S) /\ Cardinality(S) \in Nat
  <2>1. {x \in S : x < n + 1} = S
    <3>1. \A x \in S : x < n + 1
      OBVIOUS
    <3> QED
      BY <3>1
  <2> QED
    BY <1>0, <2>1, FS_CardinalityType DEF CountBelow
<1>2. RowsIn(f, S) = [i \in 1 .. Cardinality(S) |-> f[BucketAt(S, i)]]
  BY DEF RowsIn
<1>3. ASSUME NEW b \in S
      PROVE  /\ RowsIn(f, S)[CountBelow(S, b) + 1] = f[b]
             /\ CountBelow(S, b) + 1 \in 1 .. Cardinality(S)
  <2>1. CountBelow(S, b) + 1 <= CountBelow(S, n + 1)
    <3>1. n + 1 \in 0 .. n + 1 /\ b < n + 1
      OBVIOUS
    <3> QED
      BY <3>1, CountMore
  <2>2. CountBelow(S, b) \in Nat
    BY CountUp
  <2>3. CountBelow(S, b) + 1 \in 1 .. Cardinality(S)
    BY <1>1, <2>1, <2>2
  <2>4. BucketAt(S, CountBelow(S, b) + 1) = b
    BY BucketAtIs
  <2> QED
    BY <1>2, <2>3, <2>4
<1>4. DOMAIN RowsIn(f, S) = 1 .. Cardinality(S) /\ Len(RowsIn(f, S)) = Cardinality(S)
  BY <1>1, <1>2
<1> QED
  BY <1>1, <1>3, <1>4

----------------------------------------------------------------------------
(* What a history tells: the reference, and how a row more changes it.     *)

\* A row of one observation: one price or none, one quote or none.
Single(r) ==
  /\ r \in GoodRow
  /\ r.open = r.close /\ r.high = r.close /\ r.low = r.close /\ r.first = r.last
  /\ r.bidOpen = r.bidClose /\ r.bidHigh = r.bidClose /\ r.bidLow = r.bidClose
  /\ r.bidFirst = r.bidLast

\* The entries of a history with a price, those of them with the best source, those
\* with a quote, and those with a bid.
Priced(h) == {i \in DOMAIN h : h[i].close # Null}
Best(h) == {i \in Priced(h) : \A j \in Priced(h) : h[j].rank <= h[i].rank}
Quoted(h) == {i \in DOMAIN h : h[i].bidFirst # Null}
Bidden(h) == {i \in Quoted(h) : h[i].bidClose # Null}
PricesOf(h) == {h[i].close : i \in Priced(h)}
BidsOf(h) == {h[i].bidClose : i \in Bidden(h)}

Smallest(S) == CHOOSE x \in S : \A y \in S : x =< y

\* The reference, field by field.
LEMMA ReferenceIs ==
  ASSUME NEW h
  PROVE  LET R == Merge!Reference(h)
         IN  /\ R.open = IF Priced(h) = {} THEN Null ELSE h[Smallest(Priced(h))].open
             /\ R.high = IF PricesOf(h) = {} THEN Null ELSE Largest(PricesOf(h))
             /\ R.low = IF PricesOf(h) = {} THEN Null ELSE Smallest(PricesOf(h))
             /\ R.close = IF Best(h) = {} THEN Null ELSE h[Largest(Best(h))].close
             /\ R.rank = IF Best(h) = {} THEN 0 ELSE h[Largest(Best(h))].rank
             /\ R.first = IF Priced(h) = {} THEN Null ELSE h[Smallest(Priced(h))].first
             /\ R.last = IF Priced(h) = {} THEN Null ELSE h[Largest(Priced(h))].last
             /\ R.bidOpen = IF Quoted(h) = {} THEN Null ELSE h[Smallest(Quoted(h))].bidOpen
             /\ R.bidHigh = IF BidsOf(h) = {} THEN Null ELSE Largest(BidsOf(h))
             /\ R.bidLow = IF BidsOf(h) = {} THEN Null ELSE Smallest(BidsOf(h))
             /\ R.bidClose = IF Bidden(h) = {} THEN Null ELSE h[Largest(Bidden(h))].bidClose
             /\ R.bidFirst = IF Quoted(h) = {} THEN Null ELSE h[Smallest(Quoted(h))].bidFirst
             /\ R.bidLast = IF Quoted(h) = {} THEN Null ELSE h[Largest(Quoted(h))].bidLast
<1>1. /\ \A S : Merge!Min(S) = Smallest(S) /\ Merge!Max(S) = Largest(S)
      /\ Merge!Null = Null
  BY DEF Merge!Min, Smallest, Merge!Max, Largest, Merge!Null, Null
<1> HIDE DEF Smallest, Largest
<1> QED
  BY <1>1 DEF Merge!Reference, Priced, Best, Quoted, Bidden, PricesOf, BidsOf

\* Numbers with a greatest and a least one among them, if there are any.
Extremes(S) ==
  S # {} => /\ \E m \in S : \A y \in S : y <= m
            /\ \E m \in S : \A y \in S : m <= y

\* Those are the ones that a choice finds.
LEMMA ExtremesAre ==
  ASSUME NEW S \in SUBSET Nat, Extremes(S), S # {}
  PROVE  /\ Largest(S) \in S /\ \A y \in S : y <= Largest(S)
         /\ Smallest(S) \in S /\ \A y \in S : Smallest(S) <= y
<1>1. PICK m \in S : \A y \in S : y <= m
  BY DEF Extremes
<1>2. PICK l \in S : \A y \in S : l <= y
  BY DEF Extremes
<1>3. Largest(S) = m
  BY <1>1, LargestIs
<1>4. Smallest(S) = l
  <2>1. \A y \in S : (\A z \in S : y =< z) => y = l
    BY <1>2
  <2> QED
    BY <1>2, <2>1 DEF Smallest
<1> QED
  BY <1>1, <1>2, <1>3, <1>4

\* The extremes when a number joins them.
LEMMA LaterValue ==
  ASSUME NEW S \in SUBSET Nat, Extremes(S), NEW x \in Nat
  PROVE  /\ Extremes(S \union {x})
         /\ Largest(S \union {x}) = Greatest(IF S = {} THEN Null ELSE Largest(S), x)
         /\ Smallest(S \union {x}) = Least(IF S = {} THEN Null ELSE Smallest(S), x)
<1> DEFINE g == Greatest(IF S = {} THEN Null ELSE Largest(S), x)
           l == Least(IF S = {} THEN Null ELSE Smallest(S), x)
<1>0. S # {} => /\ Largest(S) \in Nat /\ Smallest(S) \in Nat
                /\ Largest(S) # Null /\ Smallest(S) # Null /\ x # Null
  <2>1. \A y \in Nat : y # Null
    BY DEF Null
  <2>2. S # {} => Largest(S) \in S /\ Smallest(S) \in S
    BY ExtremesAre
  <2> QED
    BY <2>1, <2>2
<1>1. g \in S \union {x} /\ g \in Nat /\ \A y \in S \union {x} : y <= g
  <2>1. CASE S = {}
    BY <2>1 DEF Greatest
  <2>2. CASE S # {}
    <3>1. g = IF Largest(S) >= x THEN Largest(S) ELSE x
      BY <1>0, <2>2 DEF Greatest
    <3> HIDE DEF g
    <3> QED
      BY <1>0, <2>2, <3>1, ExtremesAre
  <2> QED
    BY <2>1, <2>2
<1>2. l \in S \union {x} /\ l \in Nat /\ \A y \in S \union {x} : l <= y
  <2>1. CASE S = {}
    BY <2>1 DEF Least
  <2>2. CASE S # {}
    <3>1. l = IF Smallest(S) <= x THEN Smallest(S) ELSE x
      BY <1>0, <2>2 DEF Least
    <3> HIDE DEF l
    <3> QED
      BY <1>0, <2>2, <3>1, ExtremesAre
  <2> QED
    BY <2>1, <2>2
<1> HIDE DEF g, l
<1>3. Extremes(S \union {x})
  BY <1>1, <1>2 DEF Extremes
<1>4. Largest(S \union {x}) = g
  BY <1>1, LargestIs
<1>5. Smallest(S \union {x}) = l
  <2>1. \A y \in S \union {x} : (\A z \in S \union {x} : y =< z) => y = l
    BY <1>1, <1>2
  <2> QED
    BY <1>2, <2>1 DEF Smallest
<1> QED
  BY <1>3, <1>4, <1>5 DEF g, l

\* With a later position the least one stays, and the later one is the greatest.
LEMMA LaterPosition ==
  ASSUME NEW n \in Nat, NEW S \in SUBSET (1 .. n), Extremes(S)
  PROVE  /\ Extremes(S \union {n + 1}) /\ n + 1 \in S \union {n + 1}
         /\ Smallest(S \union {n + 1}) = IF S = {} THEN n + 1 ELSE Smallest(S)
         /\ Largest(S \union {n + 1}) = n + 1
         /\ S # {} => Smallest(S) \in 1 .. n /\ Largest(S) \in 1 .. n
<1>1. S \in SUBSET Nat /\ n + 1 \in Nat /\ n + 1 # Null
  BY DEF Null
<1>2. /\ Extremes(S \union {n + 1})
      /\ Largest(S \union {n + 1}) = Greatest(IF S = {} THEN Null ELSE Largest(S), n + 1)
      /\ Smallest(S \union {n + 1}) = Least(IF S = {} THEN Null ELSE Smallest(S), n + 1)
  BY <1>1, LaterValue
<1>3. CASE S = {}
  BY <1>1, <1>2, <1>3 DEF Greatest, Least
<1>4. CASE S # {}
  <2>1. Smallest(S) \in S /\ Largest(S) \in S
    BY <1>1, <1>4, ExtremesAre
  <2>2. /\ Smallest(S) \in 1 .. n /\ Largest(S) \in 1 .. n
        /\ Smallest(S) # Null /\ Largest(S) # Null
    <3>1. \A y \in 1 .. n : y # Null
      BY DEF Null
    <3> QED
      BY <2>1, <3>1
  <2>3. Greatest(Largest(S), n + 1) = n + 1 /\ Least(Smallest(S), n + 1) = Smallest(S)
    BY <1>1, <2>2 DEF Greatest, Least
  <2> QED
    BY <1>2, <1>4, <2>2, <2>3
<1> QED
  BY <1>3, <1>4

SingleRow == {r \in GoodRow : Single(r)}

\* What choices in a history rest on.
Told(h) ==
  /\ Extremes(Priced(h)) /\ Extremes(Best(h)) /\ Extremes(Quoted(h)) /\ Extremes(Bidden(h))
  /\ Extremes(PricesOf(h)) /\ Extremes(BidsOf(h))
  /\ Priced(h) # {} => Best(h) # {}

\* An entry more.
LEMMA OneMore ==
  ASSUME NEW h \in Seq(SingleRow), NEW row \in SingleRow
  PROVE  LET n == Len(h)
             g == Append(h, row)
         IN  /\ n \in Nat /\ DOMAIN h = 1 .. n /\ DOMAIN g = 1 .. n + 1
             /\ \A i \in 1 .. n : g[i] = h[i] /\ h[i] \in SingleRow
             /\ g[n + 1] = row /\ n + 1 \notin 1 .. n
             /\ 1 .. n + 1 = (1 .. n) \union {n + 1}
OBVIOUS

\* Where its choices are made.
LEMMA ChoicesIn ==
  ASSUME NEW h \in Seq(SingleRow)
  PROVE  /\ Priced(h) \in SUBSET (1 .. Len(h)) /\ Best(h) \in SUBSET Priced(h)
         /\ Quoted(h) \in SUBSET (1 .. Len(h)) /\ Bidden(h) \in SUBSET Quoted(h)
         /\ PricesOf(h) \in SUBSET Nat /\ BidsOf(h) \in SUBSET Nat
         /\ \A i \in 1 .. Len(h) : h[i] \in SingleRow /\ WellFormed(h[i]) /\ h[i] \in Row
<1>1. /\ Len(h) \in Nat /\ DOMAIN h = 1 .. Len(h)
      /\ \A i \in 1 .. Len(h) : h[i] \in SingleRow
  OBVIOUS
<1>2. \A i \in 1 .. Len(h) : WellFormed(h[i]) /\ h[i] \in Row
  BY <1>1 DEF SingleRow, GoodRow
<1>3. \A i \in 1 .. Len(h) : h[i].close \in Value /\ h[i].bidClose \in Value
  BY <1>2 DEF Row
<1>4. \A v \in Value : v # Null => v \in Nat
  BY DEF Value
<1>5. /\ Priced(h) \in SUBSET (1 .. Len(h)) /\ Best(h) \in SUBSET Priced(h)
      /\ Quoted(h) \in SUBSET (1 .. Len(h)) /\ Bidden(h) \in SUBSET Quoted(h)
  BY <1>1 DEF Priced, Best, Quoted, Bidden
<1>6. PricesOf(h) \in SUBSET Nat
  BY <1>1, <1>3, <1>4 DEF PricesOf, Priced
<1>7. BidsOf(h) \in SUBSET Nat
  BY <1>1, <1>3, <1>4 DEF BidsOf, Bidden, Quoted
<1> QED
  BY <1>1, <1>2, <1>5, <1>6, <1>7

\* The choices with an entry more.
LEMMA ChoicesNext ==
  ASSUME NEW h \in Seq(SingleRow), NEW row \in SingleRow
  PROVE  LET n == Len(h)
             g == Append(h, row)
         IN  /\ Priced(g) = IF row.close # Null THEN Priced(h) \union {n + 1} ELSE Priced(h)
             /\ Quoted(g) = IF row.bidFirst # Null THEN Quoted(h) \union {n + 1} ELSE Quoted(h)
             /\ Bidden(g) = IF row.bidClose # Null THEN Bidden(h) \union {n + 1} ELSE Bidden(h)
             /\ PricesOf(g) = IF row.close # Null THEN PricesOf(h) \union {row.close}
                              ELSE PricesOf(h)
             /\ BidsOf(g) = IF row.bidClose # Null THEN BidsOf(h) \union {row.bidClose}
                            ELSE BidsOf(h)
             /\ row.bidClose # Null => row.bidFirst # Null
<1> DEFINE n == Len(h)
           g == Append(h, row)
<1>1. /\ n \in Nat /\ DOMAIN h = 1 .. n /\ DOMAIN g = 1 .. n + 1
      /\ \A i \in 1 .. n : g[i] = h[i]
      /\ g[n + 1] = row /\ n + 1 \notin 1 .. n
      /\ 1 .. n + 1 = (1 .. n) \union {n + 1}
  BY OneMore
<1>2. row.bidClose # Null => row.bidFirst # Null
  BY DEF SingleRow, GoodRow, WellFormed
<1> HIDE DEF n, g
<1>3. Priced(g) = IF row.close # Null THEN Priced(h) \union {n + 1} ELSE Priced(h)
  BY <1>1 DEF Priced
<1>4. Quoted(g) = IF row.bidFirst # Null THEN Quoted(h) \union {n + 1} ELSE Quoted(h)
  BY <1>1 DEF Quoted
<1>5. Bidden(g) = IF row.bidClose # Null THEN Bidden(h) \union {n + 1} ELSE Bidden(h)
  <2>1. \A i \in 1 .. n : i \in Quoted(h) => (g[i].bidClose # Null <=> h[i].bidClose # Null)
    BY <1>1
  <2>2. Quoted(h) \in SUBSET (1 .. n)
    BY <1>1 DEF Quoted
  <2> QED
    BY <1>1, <1>2, <1>4, <2>1, <2>2 DEF Bidden
<1>6. PricesOf(g) = IF row.close # Null THEN PricesOf(h) \union {row.close} ELSE PricesOf(h)
  <2>1. Priced(h) \in SUBSET (1 .. n)
    BY <1>1 DEF Priced
  <2>2. \A i \in Priced(h) : g[i] = h[i]
    BY <1>1, <2>1
  <2> QED
    BY <1>1, <1>3, <2>2 DEF PricesOf
<1>7. BidsOf(g) = IF row.bidClose # Null THEN BidsOf(h) \union {row.bidClose} ELSE BidsOf(h)
  <2>1. Bidden(h) \in SUBSET (1 .. n)
    BY <1>1 DEF Bidden, Quoted
  <2>2. \A i \in Bidden(h) : g[i] = h[i]
    BY <1>1, <2>1
  <2> QED
    BY <1>1, <1>5, <2>2 DEF BidsOf
<1> QED
  BY <1>2, <1>3, <1>4, <1>5, <1>6, <1>7 DEF n, g

\* The entries with the best source share its rank, and it is the rank of the reference.
LEMMA BestRank ==
  ASSUME NEW h \in Seq(SingleRow), Told(h), Priced(h) # {}
  PROVE  LET b == h[Largest(Best(h))].rank
         IN  /\ b \in 1 .. 3 /\ Largest(Best(h)) \in Best(h)
             /\ \A i \in Priced(h) : h[i].rank \in 1 .. 3 /\ h[i].rank <= b
             /\ \A i \in Best(h) : h[i].rank = b
             /\ \A i \in Priced(h) : h[i].rank = b => i \in Best(h)
<1> DEFINE l == Largest(Best(h))
<1>1. /\ Best(h) # {} /\ Extremes(Best(h)) /\ Best(h) \in SUBSET Priced(h)
      /\ Priced(h) \in SUBSET (1 .. Len(h)) /\ Len(h) \in Nat
  BY ChoicesIn DEF Told
<1>2. l \in Best(h)
  <2>1. Best(h) \in SUBSET Nat
    BY <1>1
  <2> QED
    BY <1>1, <2>1, ExtremesAre
<1>3. \A i \in Priced(h) : h[i].rank \in 1 .. 3
  <2>1. \A i \in Priced(h) : WellFormed(h[i]) /\ h[i] \in Row /\ h[i].close # Null
    BY <1>1, ChoicesIn DEF Priced
  <2>2. \A i \in Priced(h) : h[i].rank > 0 /\ h[i].rank \in 0 .. 3
    BY <2>1 DEF WellFormed, Row
  <2> QED
    BY <2>2
<1> HIDE DEF l
<1>4. \A j \in Priced(h) : h[j].rank <= h[l].rank
  BY <1>2 DEF Best
<1>5. \A i \in Best(h) : h[l].rank <= h[i].rank
  BY <1>1, <1>2 DEF Best
<1>6. \A i \in Best(h) : h[i].rank = h[l].rank
  BY <1>1, <1>2, <1>3, <1>4, <1>5
<1>7. \A i \in Priced(h) : h[i].rank = h[l].rank => i \in Best(h)
  BY <1>4 DEF Best
<1> QED
  BY <1>1, <1>2, <1>3, <1>4, <1>6, <1>7 DEF l

\* The entries with the best source, with an entry more.
LEMMA BestNext ==
  ASSUME NEW h \in Seq(SingleRow), NEW row \in SingleRow, Told(h)
  PROVE  LET n == Len(h)
             g == Append(h, row)
             b == IF Best(h) = {} THEN 0 ELSE h[Largest(Best(h))].rank
         IN  /\ row.close = Null => Best(g) = Best(h)
             /\ row.close # Null /\ row.rank < b => Best(g) = Best(h)
             /\ row.close # Null /\ row.rank = b => Best(g) = Best(h) \union {n + 1}
             /\ row.close # Null /\ row.rank > b => Best(g) = {n + 1}
             /\ row.close # Null <=> row.rank # 0
             /\ row.rank \in 0 .. 3 /\ b \in 0 .. 3
             /\ Best(h) = {} <=> Priced(h) = {}
             /\ Best(h) # {} => b # 0
<1> DEFINE n == Len(h)
           g == Append(h, row)
           b == IF Best(h) = {} THEN 0 ELSE h[Largest(Best(h))].rank
<1>1. /\ n \in Nat /\ \A i \in 1 .. n : g[i] = h[i]
      /\ g[n + 1] = row /\ n + 1 \notin 1 .. n
  BY OneMore
<1>2. /\ Priced(g) = IF row.close # Null THEN Priced(h) \union {n + 1} ELSE Priced(h)
      /\ Priced(h) \in SUBSET (1 .. n)
      /\ Best(h) \in SUBSET Priced(h) /\ (Priced(h) # {} => Best(h) # {})
  BY ChoicesNext, ChoicesIn DEF Told
<1>3. /\ row.close # Null <=> row.rank # 0
      /\ row.rank \in 0 .. 3
  BY DEF SingleRow, GoodRow, WellFormed, Row
<1>4. Priced(h) # {} =>
        /\ b \in 1 .. 3
        /\ \A i \in Priced(h) : h[i].rank \in 1 .. 3 /\ h[i].rank <= b
        /\ \A i \in Best(h) : h[i].rank = b
        /\ \A i \in Priced(h) : h[i].rank = b => i \in Best(h)
        /\ \E i \in Priced(h) : h[i].rank = b
  <2>1. CASE Priced(h) # {}
    <3>1. /\ h[Largest(Best(h))].rank \in 1 .. 3 /\ Largest(Best(h)) \in Best(h)
          /\ \A i \in Priced(h) : h[i].rank \in 1 .. 3 /\ h[i].rank <= h[Largest(Best(h))].rank
          /\ \A i \in Best(h) : h[i].rank = h[Largest(Best(h))].rank
          /\ \A i \in Priced(h) : h[i].rank = h[Largest(Best(h))].rank => i \in Best(h)
      BY <2>1, BestRank
    <3>2. b = h[Largest(Best(h))].rank
      BY <1>2, <2>1
    <3> HIDE DEF b
    <3> QED
      BY <1>2, <3>1, <3>2
  <2> QED
    BY <2>1
<1>5. Priced(h) = {} => b = 0 /\ Best(h) = {}
  BY <1>2
<1>6. \A i \in Priced(h) : g[i] = h[i] /\ i # n + 1
  BY <1>1, <1>2
<1>7. \A S : S = Priced(g) => Best(g) = {i \in S : \A j \in S : g[j].rank <= g[i].rank}
  BY DEF Best
<1>8. Best(h) = {i \in Priced(h) : \A j \in Priced(h) : h[j].rank <= h[i].rank}
  BY DEF Best
<1> HIDE DEF n, g, b
<1>9. row.close = Null => Best(g) = Best(h)
  BY <1>2, <1>6, <1>7, <1>8
<1> DEFINE T == Priced(h) \union {n + 1}
<1>10. row.close # Null => Best(g) = {i \in T : \A j \in T : g[j].rank <= g[i].rank}
  BY <1>2, <1>7
<1>11. ASSUME row.close # Null, row.rank < b
       PROVE  Best(g) = Best(h)
  <2>1. Priced(h) # {}
    BY <1>3, <1>5, <1>11
  <2>2. ASSUME NEW i \in T
        PROVE  (\A j \in T : g[j].rank <= g[i].rank) <=> i \in Best(h)
    <3>1. CASE i = n + 1
      <4>1. PICK j \in Priced(h) : h[j].rank = b
        BY <1>4, <2>1
      <4>2. ~(g[j].rank <= g[i].rank)
        <5>1. b \in 1 .. 3 /\ g[j].rank = b /\ g[i].rank = row.rank
          BY <1>1, <1>4, <1>6, <2>1, <3>1, <4>1
        <5> QED
          BY <1>3, <1>11, <5>1
      <4>3. i \notin Best(h)
        BY <1>1, <1>2, <3>1
      <4> QED
        BY <4>1, <4>2, <4>3
    <3>2. CASE i \in Priced(h)
      <4>1. i \in Best(h) <=> h[i].rank = b
        BY <1>4, <2>1, <3>2
      <4>2. PICK k \in Priced(h) : h[k].rank = b
        BY <1>4, <2>1
      <4>3. (\A j \in T : g[j].rank <= g[i].rank) => h[i].rank = b
        <5>1. /\ g[k].rank = b /\ g[i].rank = h[i].rank /\ h[i].rank <= b
              /\ h[i].rank \in 1 .. 3 /\ b \in 1 .. 3
          BY <1>4, <1>6, <2>1, <3>2, <4>2
        <5> QED
          BY <4>2, <5>1
      <4>4. h[i].rank = b => \A j \in T : g[j].rank <= g[i].rank
        <5>1. g[i].rank = h[i].rank /\ g[n + 1].rank = row.rank /\ row.rank <= b
          BY <1>1, <1>3, <1>4, <1>6, <1>11, <2>1, <3>2
        <5>2. \A j \in Priced(h) : g[j].rank <= b
          BY <1>4, <1>6, <2>1
        <5> QED
          BY <5>1, <5>2
      <4> QED
        BY <4>1, <4>3, <4>4
    <3> QED
      BY <3>1, <3>2
  <2>3. Best(h) \in SUBSET T
    BY <1>2
  <2> HIDE DEF T
  <2> QED
    BY <1>10, <1>11, <2>2, <2>3
<1>12. ASSUME row.close # Null, row.rank = b
       PROVE  Best(g) = Best(h) \union {n + 1}
  <2>1. Priced(h) # {} /\ b \in 1 .. 3
    BY <1>3, <1>4, <1>5, <1>12
  <2>2. ASSUME NEW i \in T
        PROVE  (\A j \in T : g[j].rank <= g[i].rank) <=> i \in Best(h) \union {n + 1}
    <3>1. /\ g[n + 1].rank = b
          /\ \A j \in Priced(h) : g[j].rank <= b /\ g[j].rank \in 1 .. 3
      BY <1>1, <1>4, <1>6, <1>12, <2>1
    <3>2. CASE i = n + 1
      BY <2>1, <3>1, <3>2
    <3>3. CASE i \in Priced(h)
      <4>1. i \in Best(h) <=> g[i].rank = b
        BY <1>4, <1>6, <2>1, <3>3
      <4>2. i # n + 1
        BY <1>6, <3>3
      <4>3. (\A j \in T : g[j].rank <= g[i].rank) => b <= g[i].rank
        BY <3>1
      <4>4. g[i].rank = b => \A j \in T : g[j].rank <= g[i].rank
        BY <2>1, <3>1
      <4>5. g[i].rank <= b /\ g[i].rank \in 1 .. 3
        BY <3>1, <3>3
      <4> QED
        BY <2>1, <4>1, <4>2, <4>3, <4>4, <4>5
    <3> QED
      BY <3>2, <3>3
  <2>3. Best(h) \union {n + 1} \in SUBSET T
    BY <1>2
  <2> HIDE DEF T
  <2> QED
    BY <1>10, <1>12, <2>2, <2>3
<1>13. ASSUME row.close # Null, row.rank > b
       PROVE  Best(g) = {n + 1}
  <2>1. /\ g[n + 1].rank = row.rank /\ row.rank \in 1 .. 3
        /\ \A j \in Priced(h) : g[j].rank \in 1 .. 3 /\ g[j].rank < row.rank
    BY <1>1, <1>3, <1>4, <1>6, <1>13
  <2>2. ASSUME NEW i \in T
        PROVE  (\A j \in T : g[j].rank <= g[i].rank) <=> i = n + 1
    <3>1. CASE i = n + 1
      BY <2>1, <3>1
    <3>2. CASE i \in Priced(h)
      <4>1. i # n + 1
        BY <1>6, <3>2
      <4>2. ~(g[n + 1].rank <= g[i].rank)
        BY <2>1, <3>2
      <4> QED
        BY <4>1, <4>2
    <3> QED
      BY <3>1, <3>2
  <2>3. {n + 1} \in SUBSET T
    OBVIOUS
  <2> HIDE DEF T
  <2> QED
    BY <1>10, <1>13, <2>2, <2>3
<1>14. /\ b \in 0 .. 3 /\ (Best(h) = {} <=> Priced(h) = {})
       /\ Best(h) # {} => b # 0
  BY <1>2, <1>4, <1>5
<1> QED
  BY <1>3, <1>9, <1>11, <1>12, <1>13, <1>14 DEF n, g, b

\* The choices of a history can be made after any row.
LEMMA ToldNext ==
  ASSUME NEW h \in Seq(SingleRow), NEW row \in SingleRow, Told(h)
  PROVE  Told(Append(h, row))
<1> DEFINE n == Len(h)
           g == Append(h, row)
           b == IF Best(h) = {} THEN 0 ELSE h[Largest(Best(h))].rank
<1>1. /\ n \in Nat
      /\ Priced(h) \in SUBSET (1 .. n) /\ Quoted(h) \in SUBSET (1 .. n)
      /\ Best(h) \in SUBSET (1 .. n) /\ Bidden(h) \in SUBSET (1 .. n)
      /\ PricesOf(h) \in SUBSET Nat /\ BidsOf(h) \in SUBSET Nat
  BY ChoicesIn
<1>2. /\ Extremes(Priced(h)) /\ Extremes(Best(h)) /\ Extremes(Quoted(h))
      /\ Extremes(Bidden(h)) /\ Extremes(PricesOf(h)) /\ Extremes(BidsOf(h))
      /\ (Priced(h) # {} => Best(h) # {})
  BY DEF Told
<1>3. /\ Priced(g) = IF row.close # Null THEN Priced(h) \union {n + 1} ELSE Priced(h)
      /\ Quoted(g) = IF row.bidFirst # Null THEN Quoted(h) \union {n + 1} ELSE Quoted(h)
      /\ Bidden(g) = IF row.bidClose # Null THEN Bidden(h) \union {n + 1} ELSE Bidden(h)
      /\ PricesOf(g) = IF row.close # Null THEN PricesOf(h) \union {row.close}
                       ELSE PricesOf(h)
      /\ BidsOf(g) = IF row.bidClose # Null THEN BidsOf(h) \union {row.bidClose}
                     ELSE BidsOf(h)
  BY ChoicesNext
<1>4. /\ row.close = Null => Best(g) = Best(h)
      /\ row.close # Null /\ row.rank < b => Best(g) = Best(h)
      /\ row.close # Null /\ row.rank = b => Best(g) = Best(h) \union {n + 1}
      /\ row.close # Null /\ row.rank > b => Best(g) = {n + 1}
      /\ row.rank \in 0 .. 3 /\ b \in 0 .. 3
      /\ Best(h) # {} => b # 0
      /\ row.close # Null <=> row.rank # 0
  BY BestNext
<1>5. /\ row.close # Null => row.close \in Nat
      /\ row.bidClose # Null => row.bidClose \in Nat
  BY DEF SingleRow, GoodRow, Row, Value
<1> HIDE DEF n, g, b
<1>6. \A S \in SUBSET (1 .. n) : Extremes(S) => Extremes(S \union {n + 1})
  BY <1>1, LaterPosition
<1>7. Extremes({n + 1})
  BY <1>1 DEF Extremes
<1>8. Extremes(Priced(g)) /\ Extremes(Quoted(g)) /\ Extremes(Bidden(g))
  BY <1>1, <1>2, <1>3, <1>6
<1>9. Extremes(PricesOf(g)) /\ Extremes(BidsOf(g))
  BY <1>1, <1>2, <1>3, <1>5, LaterValue
<1>10. \/ Best(g) = Best(h) /\ (row.close = Null \/ Best(h) # {})
       \/ Best(g) = Best(h) \union {n + 1}
       \/ Best(g) = {n + 1}
  <2>1. row.close # Null /\ row.rank < b => Best(h) # {}
    BY <1>4 DEF b
  <2>2. row.rank < b \/ row.rank = b \/ row.rank > b
    BY <1>4
  <2> QED
    BY <1>4, <2>1, <2>2
<1>11. Extremes(Best(g))
  BY <1>1, <1>2, <1>6, <1>7, <1>10
<1>12. Priced(g) # {} => Best(g) # {}
  BY <1>2, <1>3, <1>10
<1> QED
  BY <1>8, <1>9, <1>11, <1>12 DEF Told, g

\* What the prices of the history tell after a row is what a merge of the row makes of
\* what they told before.
LEMMA PriceNext ==
  ASSUME NEW h \in Seq(SingleRow), NEW row \in SingleRow, Told(h),
         WellFormed(Merge!Reference(h)), Follows(Merge!Reference(h), row)
  PROVE  LET R == Merge!Reference(h)
             Q == Merge!Reference(Append(h, row))
             z == SqlMerge(R, row)
         IN  /\ Q.open = z.open /\ Q.high = z.high /\ Q.low = z.low
             /\ Q.close = z.close /\ Q.rank = z.rank
             /\ Q.first = z.first /\ Q.last = z.last
<1> DEFINE n == Len(h)
           g == Append(h, row)
           R == Merge!Reference(h)
           Q == Merge!Reference(g)
           z == SqlMerge(R, row)
           b == IF Best(h) = {} THEN 0 ELSE h[Largest(Best(h))].rank
<1>1. /\ n \in Nat /\ g[n + 1] = row /\ n + 1 \notin 1 .. n
      /\ \A i \in 1 .. n : g[i] = h[i]
  BY OneMore
<1>2. /\ Priced(h) \in SUBSET (1 .. n) /\ Best(h) \in SUBSET (1 .. n)
      /\ PricesOf(h) \in SUBSET Nat
      /\ Extremes(Priced(h)) /\ Extremes(Best(h)) /\ Extremes(PricesOf(h))
      /\ \A i \in 1 .. n : WellFormed(h[i])
  BY ChoicesIn DEF Told
<1>3. /\ Priced(g) = IF row.close # Null THEN Priced(h) \union {n + 1} ELSE Priced(h)
      /\ PricesOf(g) = IF row.close # Null THEN PricesOf(h) \union {row.close}
                       ELSE PricesOf(h)
  BY ChoicesNext
<1>4. /\ row.close = Null => Best(g) = Best(h)
      /\ row.close # Null /\ row.rank < b => Best(g) = Best(h)
      /\ row.close # Null /\ row.rank = b => Best(g) = Best(h) \union {n + 1}
      /\ row.close # Null /\ row.rank > b => Best(g) = {n + 1}
      /\ row.close # Null <=> row.rank # 0
      /\ row.rank \in 0 .. 3 /\ b \in 0 .. 3
      /\ Best(h) = {} <=> Priced(h) = {}
      /\ Best(h) # {} => b # 0
  BY BestNext
<1>5. /\ row \in Row /\ WellFormed(row) /\ row.open = row.close /\ row.high = row.close
      /\ row.low = row.close /\ row.first = row.last
  BY DEF SingleRow, GoodRow, Single
<1>6. /\ R.open = IF Priced(h) = {} THEN Null ELSE h[Smallest(Priced(h))].open
      /\ R.high = IF PricesOf(h) = {} THEN Null ELSE Largest(PricesOf(h))
      /\ R.low = IF PricesOf(h) = {} THEN Null ELSE Smallest(PricesOf(h))
      /\ R.close = IF Best(h) = {} THEN Null ELSE h[Largest(Best(h))].close
      /\ R.rank = IF Best(h) = {} THEN 0 ELSE h[Largest(Best(h))].rank
      /\ R.first = IF Priced(h) = {} THEN Null ELSE h[Smallest(Priced(h))].first
      /\ R.last = IF Priced(h) = {} THEN Null ELSE h[Largest(Priced(h))].last
  BY ReferenceIs
<1>7. /\ Q.open = IF Priced(g) = {} THEN Null ELSE g[Smallest(Priced(g))].open
      /\ Q.high = IF PricesOf(g) = {} THEN Null ELSE Largest(PricesOf(g))
      /\ Q.low = IF PricesOf(g) = {} THEN Null ELSE Smallest(PricesOf(g))
      /\ Q.close = IF Best(g) = {} THEN Null ELSE g[Largest(Best(g))].close
      /\ Q.rank = IF Best(g) = {} THEN 0 ELSE g[Largest(Best(g))].rank
      /\ Q.first = IF Priced(g) = {} THEN Null ELSE g[Smallest(Priced(g))].first
      /\ Q.last = IF Priced(g) = {} THEN Null ELSE g[Largest(Priced(g))].last
  BY ReferenceIs
<1>8. /\ z.open = IF R.first = Null THEN row.open ELSE R.open
      /\ z.close = IF row.rank # 0 /\ row.rank >= R.rank THEN row.close ELSE R.close
      /\ z.rank = IF row.rank # 0 /\ row.rank >= R.rank THEN row.rank ELSE R.rank
      /\ z.high = Greatest(R.high, row.high) /\ z.low = Least(R.low, row.low)
      /\ z.first = Least(R.first, row.first) /\ z.last = Greatest(R.last, row.last)
  BY <1>5, OrderedMerge
<1>9. /\ R \in Row
      /\ R.first # Null => R.last # Null /\ R.first <= R.last
      /\ R.first = Null <=> R.last = Null
      /\ row.close = Null => row.first = Null /\ row.last = Null
      /\ row.close # Null => row.first # Null /\ row.last # Null
  <2>1. \A r : WellFormed(r) =>
          /\ r \in Row
          /\ r.first # Null => r.last # Null /\ r.first <= r.last
          /\ r.first = Null <=> r.last = Null
          /\ r.close = Null <=> r.first = Null
    <3> SUFFICES ASSUME NEW r, WellFormed(r)
                 PROVE  /\ r \in Row
                        /\ r.first # Null => r.last # Null /\ r.first <= r.last
                        /\ r.first = Null <=> r.last = Null
                        /\ r.close = Null <=> r.first = Null
      OBVIOUS
    <3>1. r \in Row
      BY DEF WellFormed
    <3>2. r.first \in Int /\ r.first >= -1 /\ r.last \in Int /\ r.rank \in 0 .. 3
      BY <3>1, RowFields DEF Null
    <3> QED
      BY <3>1, <3>2 DEF WellFormed, Null
  <2> HIDE DEF R
  <2>2. WellFormed(R)
    BY DEF R
  <2> QED
    BY <1>5, <2>1, <2>2
<1>10. R.last # Null /\ row.first # Null => R.last <= row.first
  BY DEF Follows
<1>11. /\ R.first \in Value /\ R.last \in Value /\ R.high \in Value /\ R.low \in Value
       /\ row.first \in Value /\ row.close \in Value
  BY <1>5, <1>9 DEF Row
<1> HIDE DEF n, g, R, Q, z, b
<1>12. Priced(h) = {} <=> R.first = Null
  <2>1. CASE Priced(h) # {}
    <3>1. Smallest(Priced(h)) \in Priced(h)
      <4>1. Priced(h) \in SUBSET Nat
        BY <1>1, <1>2
      <4> QED
        BY <1>2, <2>1, <4>1, ExtremesAre
    <3>2. /\ h[Smallest(Priced(h))].close # Null
          /\ WellFormed(h[Smallest(Priced(h))])
      BY <1>2, <3>1 DEF Priced
    <3>3. h[Smallest(Priced(h))].first # Null
      BY <3>2 DEF WellFormed
    <3> QED
      BY <1>6, <2>1, <3>3
  <2> QED
    BY <1>6, <2>1
<1>13. PricesOf(h) = {} <=> Priced(h) = {}
  BY DEF PricesOf
<1>14. CASE row.close = Null
  <2>1. /\ Priced(h) # {} => Smallest(Priced(h)) \in 1 .. n /\ Largest(Priced(h)) \in 1 .. n
        /\ Best(h) # {} => Largest(Best(h)) \in 1 .. n
    BY <1>1, <1>2, LaterPosition
  <2>2. /\ Q.open = R.open /\ Q.high = R.high /\ Q.low = R.low /\ Q.close = R.close
        /\ Q.rank = R.rank /\ Q.first = R.first /\ Q.last = R.last
    BY <1>1, <1>3, <1>4, <1>6, <1>7, <1>14, <2>1
  <2>3. z.high = R.high /\ z.low = R.low /\ z.first = R.first /\ z.last = R.last
    BY <1>5, <1>8, <1>9, <1>14 DEF Greatest, Least
  <2>4. z.close = R.close /\ z.rank = R.rank
    BY <1>4, <1>8, <1>14
  <2>5. z.open = R.open
    <3>1. R.first = Null => R.open = Null
      BY <1>6, <1>12
    <3> QED
      BY <1>5, <1>8, <1>14, <3>1
  <2> QED
    BY <2>2, <2>3, <2>4, <2>5 DEF Q, z, R, g
<1>15. CASE row.close # Null
  <2>0. Priced(g) = Priced(h) \union {n + 1} /\ PricesOf(g) = PricesOf(h) \union {row.close}
    BY <1>3, <1>15
  <2>1. /\ Smallest(Priced(g)) = IF Priced(h) = {} THEN n + 1 ELSE Smallest(Priced(h))
        /\ Largest(Priced(g)) = n + 1 /\ Priced(g) # {}
        /\ Priced(h) # {} => Smallest(Priced(h)) \in 1 .. n
    BY <1>1, <1>2, <2>0, LaterPosition
  <2>2. Q.open = z.open
    BY <1>1, <1>6, <1>7, <1>8, <1>12, <2>1
  <2>3. Q.first = z.first
    <3>1. Q.first = IF R.first = Null THEN row.first ELSE R.first
      BY <1>1, <1>6, <1>7, <1>12, <2>1
    <3>2. R.first # Null => R.first \in Int /\ R.last \in Int /\ row.first \in Int
      BY <1>11 DEF Value, Null
    <3>3. R.first # Null => R.first <= row.first
      BY <1>9, <1>10, <1>15, <3>2
    <3> QED
      BY <1>8, <1>9, <1>15, <3>1, <3>3 DEF Least
  <2>4. Q.last = z.last
    <3>1. Q.last = row.last
      BY <1>1, <1>7, <2>1
    <3>2. R.last \in Int /\ row.last \in Int
      BY <1>5, <1>11 DEF Value, Null
    <3> QED
      BY <1>5, <1>8, <1>9, <1>10, <1>15, <3>1, <3>2 DEF Greatest
  <2>5. Q.high = z.high /\ Q.low = z.low
    <3>1. row.close \in Nat
      BY <1>11, <1>15 DEF Value
    <3>2. PricesOf(g) # {}
      BY <2>0
    <3> QED
      BY <1>2, <1>5, <1>6, <1>7, <1>8, <2>0, <3>1, <3>2, LaterValue
  <2>6. Q.close = z.close /\ Q.rank = z.rank
    <3>0. R.rank = b
      BY <1>6 DEF b
    <3>1. CASE row.rank < b
      <4>1. Best(g) = Best(h) /\ Best(h) # {}
        BY <1>4, <1>15, <3>1 DEF b
      <4>2. Largest(Best(h)) \in 1 .. n
        BY <1>1, <1>2, <4>1, LaterPosition
      <4>3. Q.close = R.close /\ Q.rank = R.rank
        BY <1>1, <1>6, <1>7, <4>1, <4>2
      <4> QED
        BY <1>4, <1>8, <3>0, <3>1, <4>3
    <3>2. CASE row.rank = b
      <4>1. Best(g) = Best(h) \union {n + 1}
        BY <1>4, <1>15, <3>2
      <4>2. Largest(Best(g)) = n + 1 /\ Best(g) # {}
        BY <1>1, <1>2, <4>1, LaterPosition
      <4> QED
        BY <1>1, <1>4, <1>7, <1>8, <1>15, <3>0, <3>2, <4>2
    <3>3. CASE row.rank > b
      <4>1. Best(g) = {n + 1}
        BY <1>4, <1>15, <3>3
      <4>2. Largest({n + 1}) = n + 1
        BY <1>1, LargestIs
      <4> QED
        BY <1>1, <1>4, <1>7, <1>8, <1>15, <3>0, <3>3, <4>1, <4>2
    <3> QED
      BY <1>4, <3>1, <3>2, <3>3
  <2> QED
    BY <2>2, <2>3, <2>4, <2>5, <2>6 DEF Q, z, R, g
<1> QED
  BY <1>14, <1>15

\* So is what its quotes tell.
LEMMA QuoteNext ==
  ASSUME NEW h \in Seq(SingleRow), NEW row \in SingleRow, Told(h),
         WellFormed(Merge!Reference(h)), Follows(Merge!Reference(h), row)
  PROVE  LET R == Merge!Reference(h)
             Q == Merge!Reference(Append(h, row))
             z == SqlMerge(R, row)
         IN  /\ Q.bidOpen = z.bidOpen /\ Q.bidHigh = z.bidHigh /\ Q.bidLow = z.bidLow
             /\ Q.bidClose = z.bidClose
             /\ Q.bidFirst = z.bidFirst /\ Q.bidLast = z.bidLast
<1> DEFINE n == Len(h)
           g == Append(h, row)
           R == Merge!Reference(h)
           Q == Merge!Reference(g)
           z == SqlMerge(R, row)
<1>1. /\ n \in Nat /\ g[n + 1] = row /\ n + 1 \notin 1 .. n
      /\ \A i \in 1 .. n : g[i] = h[i]
  BY OneMore
<1>2. /\ Quoted(h) \in SUBSET (1 .. n) /\ Bidden(h) \in SUBSET (1 .. n)
      /\ BidsOf(h) \in SUBSET Nat
      /\ Extremes(Quoted(h)) /\ Extremes(Bidden(h)) /\ Extremes(BidsOf(h))
      /\ \A i \in 1 .. n : WellFormed(h[i])
  BY ChoicesIn DEF Told
<1>3. /\ Quoted(g) = IF row.bidFirst # Null THEN Quoted(h) \union {n + 1} ELSE Quoted(h)
      /\ Bidden(g) = IF row.bidClose # Null THEN Bidden(h) \union {n + 1} ELSE Bidden(h)
      /\ BidsOf(g) = IF row.bidClose # Null THEN BidsOf(h) \union {row.bidClose}
                     ELSE BidsOf(h)
      /\ row.bidClose # Null => row.bidFirst # Null
  BY ChoicesNext
<1>5. /\ row \in Row /\ WellFormed(row) /\ row.bidOpen = row.bidClose
      /\ row.bidHigh = row.bidClose /\ row.bidLow = row.bidClose
      /\ row.bidFirst = row.bidLast
  BY DEF SingleRow, GoodRow, Single
<1>6. /\ R.bidOpen = IF Quoted(h) = {} THEN Null ELSE h[Smallest(Quoted(h))].bidOpen
      /\ R.bidHigh = IF BidsOf(h) = {} THEN Null ELSE Largest(BidsOf(h))
      /\ R.bidLow = IF BidsOf(h) = {} THEN Null ELSE Smallest(BidsOf(h))
      /\ R.bidClose = IF Bidden(h) = {} THEN Null ELSE h[Largest(Bidden(h))].bidClose
      /\ R.bidFirst = IF Quoted(h) = {} THEN Null ELSE h[Smallest(Quoted(h))].bidFirst
      /\ R.bidLast = IF Quoted(h) = {} THEN Null ELSE h[Largest(Quoted(h))].bidLast
  BY ReferenceIs
<1>7. /\ Q.bidOpen = IF Quoted(g) = {} THEN Null ELSE g[Smallest(Quoted(g))].bidOpen
      /\ Q.bidHigh = IF BidsOf(g) = {} THEN Null ELSE Largest(BidsOf(g))
      /\ Q.bidLow = IF BidsOf(g) = {} THEN Null ELSE Smallest(BidsOf(g))
      /\ Q.bidClose = IF Bidden(g) = {} THEN Null ELSE g[Largest(Bidden(g))].bidClose
      /\ Q.bidFirst = IF Quoted(g) = {} THEN Null ELSE g[Smallest(Quoted(g))].bidFirst
      /\ Q.bidLast = IF Quoted(g) = {} THEN Null ELSE g[Largest(Quoted(g))].bidLast
  BY ReferenceIs
<1>8. /\ z.bidOpen = IF R.bidFirst = Null THEN row.bidOpen ELSE R.bidOpen
      /\ z.bidClose = IF row.bidClose # Null THEN row.bidClose ELSE R.bidClose
      /\ z.bidHigh = Greatest(R.bidHigh, row.bidHigh)
      /\ z.bidLow = Least(R.bidLow, row.bidLow)
      /\ z.bidFirst = Least(R.bidFirst, row.bidFirst)
      /\ z.bidLast = Greatest(R.bidLast, row.bidLast)
  BY <1>5, OrderedMerge
<1>9. /\ R \in Row
      /\ R.bidFirst # Null => R.bidLast # Null /\ R.bidFirst <= R.bidLast
      /\ R.bidFirst = Null <=> R.bidLast = Null
      /\ R.bidFirst = Null => R.bidOpen = Null
  <2>1. \A r : WellFormed(r) =>
          /\ r \in Row
          /\ r.bidFirst # Null => r.bidLast # Null /\ r.bidFirst <= r.bidLast
          /\ r.bidFirst = Null <=> r.bidLast = Null
          /\ r.bidFirst = Null => r.bidOpen = Null
    <3> SUFFICES ASSUME NEW r, WellFormed(r)
                 PROVE  /\ r \in Row
                        /\ r.bidFirst # Null => r.bidLast # Null /\ r.bidFirst <= r.bidLast
                        /\ r.bidFirst = Null <=> r.bidLast = Null
                        /\ r.bidFirst = Null => r.bidOpen = Null
      OBVIOUS
    <3>1. r \in Row
      BY DEF WellFormed
    <3>2. r.bidFirst \in Int /\ r.bidFirst >= -1 /\ r.bidLast \in Int
      BY <3>1, RowFields DEF Null
    <3> QED
      BY <3>1, <3>2 DEF WellFormed, Null
  <2> HIDE DEF R
  <2>2. WellFormed(R)
    BY DEF R
  <2> QED
    BY <2>1, <2>2
<1>10. R.bidLast # Null /\ row.bidFirst # Null => R.bidLast <= row.bidFirst
  BY DEF Follows
<1>11. /\ R.bidFirst \in Value /\ R.bidLast \in Value
       /\ row.bidFirst \in Value /\ row.bidClose \in Value
  BY <1>5, <1>9 DEF Row
<1> HIDE DEF n, g, R, Q, z
<1>12. Quoted(h) = {} <=> R.bidFirst = Null
  <2>1. CASE Quoted(h) # {}
    <3>1. Smallest(Quoted(h)) \in Quoted(h)
      <4>1. Quoted(h) \in SUBSET Nat
        BY <1>1, <1>2
      <4> QED
        BY <1>2, <2>1, <4>1, ExtremesAre
    <3>2. h[Smallest(Quoted(h))].bidFirst # Null
      BY <3>1 DEF Quoted
    <3> QED
      BY <1>6, <2>1, <3>2
  <2> QED
    BY <1>6, <2>1
<1>13. /\ Quoted(h) # {} => Smallest(Quoted(h)) \in 1 .. n /\ Largest(Quoted(h)) \in 1 .. n
       /\ Bidden(h) # {} => Largest(Bidden(h)) \in 1 .. n
  BY <1>1, <1>2, LaterPosition
<1>14. Q.bidClose = z.bidClose /\ Q.bidHigh = z.bidHigh /\ Q.bidLow = z.bidLow
  <2>1. CASE row.bidClose = Null
    <3>1. Q.bidClose = R.bidClose /\ Q.bidHigh = R.bidHigh /\ Q.bidLow = R.bidLow
      BY <1>1, <1>3, <1>6, <1>7, <1>13, <2>1
    <3>2. z.bidClose = R.bidClose /\ z.bidHigh = R.bidHigh /\ z.bidLow = R.bidLow
      BY <1>5, <1>8, <2>1 DEF Greatest, Least
    <3> QED
      BY <3>1, <3>2
  <2>2. CASE row.bidClose # Null
    <3>1. row.bidClose \in Nat
      BY <1>11, <2>2 DEF Value
    <3>2. Bidden(g) = Bidden(h) \union {n + 1} /\ BidsOf(g) = BidsOf(h) \union {row.bidClose}
      BY <1>3, <2>2
    <3>3. Largest(Bidden(g)) = n + 1 /\ Bidden(g) # {} /\ BidsOf(g) # {}
      BY <1>1, <1>2, <3>2, LaterPosition
    <3>4. Q.bidClose = z.bidClose
      BY <1>1, <1>7, <1>8, <2>2, <3>3
    <3> QED
      BY <1>2, <1>5, <1>6, <1>7, <1>8, <3>1, <3>2, <3>3, <3>4, LaterValue
  <2> QED
    BY <2>1, <2>2
<1>15. Q.bidOpen = z.bidOpen /\ Q.bidFirst = z.bidFirst /\ Q.bidLast = z.bidLast
  <2>1. CASE row.bidFirst = Null
    <3>0. row.bidLast = Null /\ row.bidOpen = Null
      BY <1>3, <1>5, <2>1
    <3>1. Q.bidOpen = R.bidOpen /\ Q.bidFirst = R.bidFirst /\ Q.bidLast = R.bidLast
      BY <1>1, <1>3, <1>6, <1>7, <1>13, <2>1
    <3>2. z.bidFirst = R.bidFirst /\ z.bidLast = R.bidLast
      BY <1>5, <1>8, <2>1 DEF Greatest, Least
    <3>3. z.bidOpen = R.bidOpen
      BY <1>8, <1>9, <3>0
    <3> QED
      BY <3>1, <3>2, <3>3
  <2>2. CASE row.bidFirst # Null
    <3>1. Quoted(g) = Quoted(h) \union {n + 1}
      BY <1>3, <2>2
    <3>2. /\ Smallest(Quoted(g)) = IF Quoted(h) = {} THEN n + 1 ELSE Smallest(Quoted(h))
          /\ Largest(Quoted(g)) = n + 1 /\ Quoted(g) # {}
      BY <1>1, <1>2, <3>1, LaterPosition
    <3>3. Q.bidOpen = z.bidOpen
      BY <1>1, <1>6, <1>7, <1>8, <1>12, <1>13, <3>2
    <3>4. /\ Q.bidFirst = IF R.bidFirst = Null THEN row.bidFirst ELSE R.bidFirst
          /\ Q.bidLast = row.bidFirst
      BY <1>1, <1>5, <1>6, <1>7, <1>12, <1>13, <3>2
    <3>5. R.bidFirst \in Int /\ R.bidLast \in Int /\ row.bidFirst \in Int
      BY <1>11 DEF Value, Null
    <3>6. Q.bidFirst = z.bidFirst
      <4>1. R.bidFirst # Null => R.bidFirst <= row.bidFirst
        BY <1>9, <1>10, <2>2, <3>5
      <4> QED
        BY <1>8, <2>2, <3>4, <4>1 DEF Least
    <3>7. Q.bidLast = z.bidLast
      BY <1>5, <1>8, <1>10, <2>2, <3>4, <3>5 DEF Greatest
    <3> QED
      BY <3>3, <3>6, <3>7
  <2> QED
    BY <2>1, <2>2
<1> QED
  BY <1>14, <1>15 DEF Q, z, R, g

\* One row more in the history is one merge more.
LEMMA ReferenceNext ==
  ASSUME NEW h \in Seq(SingleRow), NEW row \in SingleRow, Told(h),
         WellFormed(Merge!Reference(h)), Follows(Merge!Reference(h), row)
  PROVE  Merge!Reference(Append(h, row)) = SqlMerge(Merge!Reference(h), row)
<1> DEFINE R == Merge!Reference(h)
           Q == Merge!Reference(Append(h, row))
           z == SqlMerge(R, row)
<1>1. Q = [open |-> Q.open, high |-> Q.high, low |-> Q.low, close |-> Q.close,
           rank |-> Q.rank, first |-> Q.first, last |-> Q.last,
           bidOpen |-> Q.bidOpen, bidHigh |-> Q.bidHigh, bidLow |-> Q.bidLow,
           bidClose |-> Q.bidClose, bidFirst |-> Q.bidFirst, bidLast |-> Q.bidLast]
  BY DEF Merge!Reference
<1>2. z = [open |-> z.open, high |-> z.high, low |-> z.low, close |-> z.close,
           rank |-> z.rank, first |-> z.first, last |-> z.last,
           bidOpen |-> z.bidOpen, bidHigh |-> z.bidHigh, bidLow |-> z.bidLow,
           bidClose |-> z.bidClose, bidFirst |-> z.bidFirst, bidLast |-> z.bidLast]
  BY DEF SqlMerge
<1>3. /\ Q.open = z.open /\ Q.high = z.high /\ Q.low = z.low
      /\ Q.close = z.close /\ Q.rank = z.rank
      /\ Q.first = z.first /\ Q.last = z.last
  BY PriceNext
<1>4. /\ Q.bidOpen = z.bidOpen /\ Q.bidHigh = z.bidHigh /\ Q.bidLow = z.bidLow
      /\ Q.bidClose = z.bidClose
      /\ Q.bidFirst = z.bidFirst /\ Q.bidLast = z.bidLast
  BY QuoteNext
<1> HIDE DEF Q, z
<1>5. Q = z
  BY <1>1, <1>2, <1>3, <1>4
<1> QED
  BY <1>5 DEF Q, z

----------------------------------------------------------------------------
(* The wide row and the fine rows, and how they tell it.                   *)

\* No time of a row is after t.
Past(r, t) == r.last <= t /\ r.bidLast <= t

\* A row of one observation is of its hour.
At(r, t) == r.first \in {t, Null} /\ r.bidFirst \in {t, Null}

\* Merging nothing changes nothing.
LEMMA MergeNothing ==
  /\ NoRow \in SingleRow
  /\ \A x \in GoodRow : /\ SqlMerge(x, NoRow) = x /\ SqlMerge(NoRow, x) = x
                        /\ Follows(x, NoRow) /\ Follows(NoRow, x)
<1>1. NoRow \in SingleRow
  <2>1. NoRow \in Row
    BY DEF NoRow, Row, Value, Null
  <2> QED
    BY <2>1 DEF NoRow, SingleRow, Single, GoodRow, WellFormed
<1>2. ASSUME NEW x \in GoodRow
      PROVE  Follows(x, NoRow) /\ Follows(NoRow, x)
  BY DEF Follows, NoRow
<1>3. ASSUME NEW x \in GoodRow
      PROVE  SqlMerge(x, NoRow) = x
  <2> DEFINE z == SqlMerge(x, NoRow)
  <2>1. x \in Row /\ WellFormed(x) /\ WellFormed(NoRow)
    BY <1>1 DEF GoodRow, SingleRow
  <2>2. WellFormed(z)
    BY <2>1, MergeWellFormed
  <2>3. z \in Row
    BY <2>2 DEF WellFormed
  <2>4. /\ ~ClosePriceIsBetter(x, NoRow) /\ ~QuoteIsNewer(x, NoRow)
        /\ ~Before(NoRow.first, x.first) /\ ~Before(NoRow.bidFirst, x.bidFirst)
    BY DEF ClosePriceIsBetter, QuoteIsNewer, NoRow, Before
  <2>5. \A v : Greatest(v, Null) = v /\ Least(v, Null) = v
    BY DEF Greatest, Least
  <2>6. x.first = Null => x.open = Null
    BY <2>1 DEF WellFormed
  <2>7. x.bidFirst = Null => x.bidOpen = Null
    BY <2>1 DEF WellFormed
  <2>8. /\ z.open = x.open /\ z.high = x.high /\ z.low = x.low /\ z.close = x.close
        /\ z.rank = x.rank /\ z.first = x.first /\ z.last = x.last
    BY <2>4, <2>5, <2>6 DEF SqlMerge, NoRow
  <2>9. /\ z.bidOpen = x.bidOpen /\ z.bidHigh = x.bidHigh /\ z.bidLow = x.bidLow
        /\ z.bidClose = x.bidClose /\ z.bidFirst = x.bidFirst /\ z.bidLast = x.bidLast
    BY <2>4, <2>5, <2>7 DEF SqlMerge, NoRow
  <2> HIDE DEF z
  <2>10. z = x
    BY <2>1, <2>3, <2>8, <2>9, SameRow
  <2> QED
    BY <2>10 DEF z
<1>4. ASSUME NEW x \in GoodRow
      PROVE  SqlMerge(NoRow, x) = x
  <2> DEFINE z == SqlMerge(NoRow, x)
  <2>1. x \in Row /\ WellFormed(x) /\ WellFormed(NoRow)
    BY <1>1 DEF GoodRow, SingleRow
  <2>2. WellFormed(z)
    BY <2>1, MergeWellFormed
  <2>3. z \in Row
    BY <2>2 DEF WellFormed
  <2>4. /\ x.close # Null => ClosePriceIsBetter(NoRow, x)
        /\ x.bidLast # Null => QuoteIsNewer(NoRow, x)
    BY DEF ClosePriceIsBetter, QuoteIsNewer, NoRow
  <2>5. \A v : Greatest(Null, v) = v /\ Least(Null, v) = v
    BY DEF Greatest, Least
  <2>6. x.close = Null => ~ClosePriceIsBetter(NoRow, x) /\ x.rank = 0
    BY <2>1 DEF ClosePriceIsBetter, WellFormed
  <2>7. /\ z.open = x.open /\ z.high = x.high /\ z.low = x.low /\ z.close = x.close
        /\ z.rank = x.rank /\ z.first = x.first /\ z.last = x.last
    BY <2>4, <2>5, <2>6 DEF SqlMerge, NoRow
  <2>8. x.bidLast = Null => x.bidClose = Null
    <3>1. x.bidFirst # Null => x.bidLast # Null
      <4>1. x.bidFirst \in Int /\ x.bidFirst >= -1 /\ x.bidLast \in Int
        BY <2>1, RowFields DEF Null
      <4> QED
        BY <2>1, <4>1 DEF WellFormed, Null
    <3> QED
      BY <2>1, <3>1 DEF WellFormed
  <2>9. /\ z.bidOpen = x.bidOpen /\ z.bidHigh = x.bidHigh /\ z.bidLow = x.bidLow
        /\ z.bidClose = x.bidClose /\ z.bidFirst = x.bidFirst /\ z.bidLast = x.bidLast
    BY <2>4, <2>5, <2>8 DEF SqlMerge, NoRow
  <2> HIDE DEF z
  <2>10. z = x
    BY <2>1, <2>3, <2>7, <2>9, SameRow
  <2> QED
    BY <2>10 DEF z
<1> QED
  BY <1>1, <1>2, <1>3, <1>4

\* Good rows merge to good rows, of no later time.
LEMMA PastMerge ==
  ASSUME NEW x \in GoodRow, NEW y \in GoodRow, NEW t \in Nat, Past(x, t), Past(y, t)
  PROVE  Past(SqlMerge(x, y), t)
<1>1. x \in Row /\ y \in Row
  BY DEF GoodRow
<1>2. \A u, v : Greatest(u, v) = u \/ Greatest(u, v) = v
  BY DEF Greatest
<1> QED
  BY <1>2 DEF Past, SqlMerge

\* A new row follows all that is past.
LEMMA FollowsPast ==
  ASSUME NEW x \in GoodRow, NEW row \in SingleRow, NEW t \in Nat, Past(x, t), At(row, t)
  PROVE  Follows(x, row)
BY DEF Follows, Past, At

\* A row of the present is past when it is written.
LEMMA PastRow ==
  ASSUME NEW row \in SingleRow, NEW t \in Nat, At(row, t)
  PROVE  Past(row, t)
<1>1. WellFormed(row) /\ row.first = row.last /\ row.bidFirst = row.bidLast
  BY DEF SingleRow, Single, GoodRow
<1> QED
  BY <1>1 DEF Past, At, Null

\* What is past stays past.
LEMMA PastLater ==
  ASSUME NEW x \in GoodRow, NEW t \in Nat, Past(x, t)
  PROVE  Past(x, t + 1)
<1>1. x.last \in Int /\ x.bidLast \in Int
  BY RowFields DEF GoodRow
<1> QED
  BY <1>1 DEF Past

\* Later times are not in earlier buckets.
LEMMA LaterBucket ==
  ASSUME NEW a \in Nat, NEW b \in Nat, NEW w \in Nat \ {0}, a <= b
  PROVE  a \div w \in Nat /\ a \div w <= b \div w /\ b \div w \in Nat
OBVIOUS

\* A trade or a quote makes a row of one observation, of its hour.
LEMMA RowsSingle ==
  ASSUME NEW t \in Nat
  PROVE  /\ \A p \in Nat : TradeRow(t, p) \in SingleRow /\ At(TradeRow(t, p), t)
         /\ \A last \in Value, bid \in Value, ask \in Value :
              QuoteRow(t, last, bid, ask) \in SingleRow /\ At(QuoteRow(t, last, bid, ask), t)
<1>1. ASSUME NEW p \in Nat
      PROVE  TradeRow(t, p) \in SingleRow /\ At(TradeRow(t, p), t)
  <2> DEFINE r == TradeRow(t, p)
  <2>1. /\ r.open = p /\ r.high = p /\ r.low = p /\ r.close = p /\ r.rank = 3
        /\ r.first = t /\ r.last = t
    BY DEF TradeRow, NoRow
  <2>2. /\ r.bidOpen = Null /\ r.bidHigh = Null /\ r.bidLow = Null
        /\ r.bidClose = Null /\ r.bidFirst = Null /\ r.bidLast = Null
    BY DEF TradeRow, NoRow
  <2>3. r \in Row
    <3>1. NoRow \in Row /\ p \in Value /\ t \in Value
      BY MergeNothing DEF SingleRow, GoodRow, Value
    <3>2. \A x \in Row, v \in Value :
            /\ [x EXCEPT !.open = v] \in Row /\ [x EXCEPT !.high = v] \in Row
            /\ [x EXCEPT !.low = v] \in Row /\ [x EXCEPT !.close = v] \in Row
            /\ [x EXCEPT !.first = v] \in Row /\ [x EXCEPT !.last = v] \in Row
            /\ [x EXCEPT !.rank = 3] \in Row
      BY DEF Row
    <3> DEFINE r3 == [[[NoRow EXCEPT !.open = p] EXCEPT !.high = p] EXCEPT !.low = p]
               r5 == [[r3 EXCEPT !.close = p] EXCEPT !.rank = 3]
    <3>3. r3 \in Row
      BY <3>1, <3>2
    <3>4. r = [[r5 EXCEPT !.first = t] EXCEPT !.last = t]
      BY DEF TradeRow
    <3> HIDE DEF r3
    <3>5. r5 \in Row
      BY <3>1, <3>2, <3>3
    <3> HIDE DEF r5, r
    <3> QED
      BY <3>1, <3>2, <3>4, <3>5
  <2> HIDE DEF r
  <2>4. p # Null /\ t # Null
    BY DEF Null
  <2>5. WellFormed(r)
    BY <2>1, <2>2, <2>3, <2>4 DEF WellFormed
  <2>6. r \in SingleRow /\ At(r, t)
    BY <2>1, <2>2, <2>3, <2>5 DEF SingleRow, Single, GoodRow, At
  <2> QED
    BY <2>6 DEF r
<1>2. ASSUME NEW last \in Value, NEW bid \in Value, NEW ask \in Value
      PROVE  QuoteRow(t, last, bid, ask) \in SingleRow /\ At(QuoteRow(t, last, bid, ask), t)
  <2> DEFINE price == DisplayPrice(last, bid, ask)
             rank == Rank(last, bid, ask)
             priceTs == IF price = Null THEN Null ELSE t
             q == QuoteRow(t, last, bid, ask)
  <2>1. price \in Value
    <3>1. bid \in Nat /\ ask \in Nat => (bid + ask) \div 2 \in Nat
      OBVIOUS
    <3>2. \A v \in Value : v # Null => v \in Nat
      BY DEF Value
    <3> QED
      BY <3>1, <3>2 DEF DisplayPrice, Value
  <2>2. rank \in 0 .. 3 /\ (rank > 0 <=> price # Null)
    <3>1. bid \in Nat /\ ask \in Nat => (bid + ask) \div 2 # Null
      BY DEF Null
    <3>2. \A v \in Value : v # Null => v \in Nat
      BY DEF Value
    <3> QED
      BY <3>1, <3>2 DEF DisplayPrice, Rank
  <2>3. q = [open |-> price, high |-> price, low |-> price, close |-> price,
             rank |-> rank, first |-> priceTs, last |-> priceTs,
             bidOpen |-> bid, bidHigh |-> bid, bidLow |-> bid, bidClose |-> bid,
             bidFirst |-> t, bidLast |-> t]
    BY DEF QuoteRow
  <2>4. priceTs \in Value /\ t # Null
    BY DEF Value, Null
  <2>5. priceTs = Null <=> price = Null
    BY <2>4
  <2>6. priceTs # Null => priceTs = t
    OBVIOUS
  <2> HIDE DEF price, rank, priceTs, q
  <2>7. q \in Row
    BY <2>1, <2>2, <2>3, <2>4 DEF Row, Value
  <2>8. WellFormed(q)
    BY <2>2, <2>3, <2>4, <2>5, <2>6, <2>7 DEF WellFormed
  <2>9. At(q, t)
    BY <2>3, <2>6 DEF At
  <2>10. q \in SingleRow
    BY <2>3, <2>7, <2>8 DEF SingleRow, Single, GoodRow
  <2> QED
    BY <2>9, <2>10 DEF q
<1> QED
  BY <1>1, <1>2

\* A chain of upserts: the row after the buckets 0 .. k - 1 were merged into the base.
Chain(h, base, f, n) ==
  h[0] = base /\ \A k \in 0 .. n : h[k + 1] = SqlMerge(h[k], f[k])

\* The rows of all buckets are their rows.
LEMMA AllRows ==
  ASSUME NEW n \in Nat, NEW f \in [0 .. n -> GoodRow]
  PROVE  /\ RowsIn(f, 0 .. n) \in Seq(GoodRow) /\ Len(RowsIn(f, 0 .. n)) = n + 1
         /\ \A k \in 0 .. n : RowsIn(f, 0 .. n)[k + 1] = f[k]
<1> DEFINE s == RowsIn(f, 0 .. n)
<1>1. CountBelow(0 .. n, n + 1) = n + 1 /\ \A k \in 0 .. n : CountBelow(0 .. n, k) = k
  BY CountAll
<1>2. /\ DOMAIN s = 1 .. n + 1 /\ Len(s) = n + 1
      /\ \A k \in 0 .. n : s[CountBelow(0 .. n, k) + 1] = f[k]
  <2> DEFINE S == 0 .. n
  <2>1. S \in SUBSET (0 .. n)
    OBVIOUS
  <2>2. CountBelow(S, n + 1) = n + 1
    BY <1>1
  <2> HIDE DEF S
  <2>3. /\ DOMAIN RowsIn(f, S) = 1 .. CountBelow(S, n + 1)
        /\ CountBelow(S, n + 1) = Cardinality(S)
        /\ Len(RowsIn(f, S)) = Cardinality(S)
        /\ \A b \in S : RowsIn(f, S)[CountBelow(S, b) + 1] = f[b]
    BY <2>1, RowsInOrder
  <2>4. /\ DOMAIN RowsIn(f, S) = 1 .. n + 1 /\ Len(RowsIn(f, S)) = n + 1
        /\ \A b \in S : RowsIn(f, S)[CountBelow(S, b) + 1] = f[b]
    BY <2>2, <2>3
  <2> QED
    BY <2>4 DEF S
<1>3. \A k \in 0 .. n : s[k + 1] = f[k]
  BY <1>1, <1>2
<1>4. s = [i \in 1 .. n + 1 |-> s[i]]
  BY <1>2 DEF RowsIn
<1> HIDE DEF s
<1>5. \A i \in 1 .. n + 1 : s[i] \in GoodRow
  <2>1. ASSUME NEW i \in 1 .. n + 1
        PROVE  s[i] \in GoodRow
    <3>1. i - 1 \in 0 .. n /\ i - 1 + 1 = i
      OBVIOUS
    <3>2. s[i - 1 + 1] = f[i - 1]
      BY <1>3, <3>1
    <3> QED
      BY <3>1, <3>2
  <2> QED
    BY <2>1
<1>6. s \in Seq(GoodRow)
  BY <1>4, <1>5
<1> QED
  BY <1>2, <1>3, <1>6 DEF s

\* What the wide row and the fine rows tell together is where a chain ends.
LEMMA TotalRuns ==
  ASSUME NEW n \in Nat, NEW base \in GoodRow, NEW f \in [0 .. n -> GoodRow]
  PROVE  \E h : /\ Chain(h, base, f, n)
                /\ Merge!FoldLeft(Merge!SqlMerge, base, RowsIn(f, 0 .. n)) = h[n + 1]
<1> DEFINE s == RowsIn(f, 0 .. n)
<1>1. s \in Seq(GoodRow) /\ Len(s) = n + 1 /\ \A k \in 0 .. n : s[k + 1] = f[k]
  BY AllRows
<1> HIDE DEF s
<1>2. PICK h : SqlRun(h, base, s) /\ Merge!FoldLeft(Merge!SqlMerge, base, s) = h[Len(s)]
  BY <1>1, SqlFoldRuns
<1>3. ASSUME NEW k \in 0 .. n
      PROVE  h[k + 1] = SqlMerge(h[k], f[k])
  <2>1. k + 1 \in 1 .. n + 1 /\ k + 1 - 1 = k
    OBVIOUS
  <2>2. h[k + 1] = SqlMerge(h[k + 1 - 1], s[k + 1])
    BY <1>1, <1>2, <2>1 DEF SqlRun
  <2> QED
    BY <1>1, <2>1, <2>2
<1>4. Chain(h, base, f, n)
  BY <1>2, <1>3 DEF Chain, SqlRun
<1> QED
  BY <1>1, <1>2, <1>4 DEF s

\* Rows in the order of time.
InOrder(base, f, n) ==
  /\ \A k \in 0 .. n : Follows(base, f[k])
  /\ \A k, l \in 0 .. n : k < l => Follows(f[k], f[l])

\* Along a chain over rows in the order of time every row is good and followed by those
\* that are still to come.
LEMMA ChainFollows ==
  ASSUME NEW n \in Nat, NEW t \in Nat, NEW base \in GoodRow, NEW f \in [0 .. n -> GoodRow],
         NEW h, Chain(h, base, f, n), InOrder(base, f, n),
         Past(base, t), \A k \in 0 .. n : Past(f[k], t)
  PROVE  \A k \in 0 .. n + 1 : /\ h[k] \in GoodRow /\ Past(h[k], t)
                               /\ \A l \in k .. n : Follows(h[k], f[l])
<1> DEFINE P(k) == /\ h[k] \in GoodRow /\ Past(h[k], t)
                   /\ \A l \in k .. n : Follows(h[k], f[l])
           K == {k \in Nat : k <= n + 1 => P(k)}
<1>1. P(0)
  BY DEF Chain, InOrder
<1>2. ASSUME NEW k \in 0 .. n, P(k)
      PROVE  P(k + 1)
  <2>1. h[k] \in GoodRow /\ f[k] \in GoodRow /\ Past(h[k], t) /\ Past(f[k], t)
    BY <1>2
  <2>2. h[k + 1] = SqlMerge(h[k], f[k])
    BY DEF Chain
  <2>3. h[k + 1] \in GoodRow /\ Past(h[k + 1], t)
    BY <2>1, <2>2, GoodMerge, PastMerge
  <2>4. ASSUME NEW l \in k + 1 .. n
        PROVE  Follows(h[k + 1], f[l])
    <3>1. l \in k .. n /\ k \in k .. n /\ l \in 0 .. n /\ k < l
      OBVIOUS
    <3>2. Follows(h[k], f[l]) /\ Follows(h[k], f[k]) /\ Follows(f[k], f[l])
      BY <1>2, <3>1 DEF InOrder
    <3>3. WellFormed(h[k]) /\ WellFormed(f[k]) /\ WellFormed(f[l])
      BY <2>1, <3>1 DEF GoodRow
    <3> QED
      BY <2>2, <3>2, <3>3, FollowsMerge
  <2> QED
    BY <2>3, <2>4
<1> HIDE DEF P
<1>3. 0 \in K
  BY <1>1
<1>4. ASSUME NEW k \in Nat, k \in K
      PROVE  k + 1 \in K
  <2>1. k + 1 <= n + 1 => k \in 0 .. n /\ k <= n + 1
    OBVIOUS
  <2> QED
    BY <1>2, <1>4, <2>1
<1>5. \A k \in Nat : k \in K
  <2> HIDE DEF K
  <2> QED
    BY <1>3, <1>4, Induction
<1>6. \A k \in 0 .. n + 1 : P(k)
  BY <1>5
<1> QED
  BY <1>6 DEF P

\* Chains that agree at one bucket agree as long as their rows do.
LEMMA ChainsMeet ==
  ASSUME NEW n \in Nat, NEW c \in 0 .. n + 1, NEW base, NEW f, NEW h, Chain(h, base, f, n),
         NEW base2, NEW f2, NEW h2, Chain(h2, base2, f2, n),
         h2[c] = h[c], NEW d \in c .. n + 1, \A k \in c .. d - 1 : f2[k] = f[k]
  PROVE  h2[d] = h[d]
<1> DEFINE K == {k \in Nat : c <= k /\ k <= d => h2[k] = h[k]}
<1>1. 0 \in K
  BY DEF K
<1>2. ASSUME NEW k \in Nat, k \in K
      PROVE  k + 1 \in K
  <2>1. ASSUME c <= k + 1, k + 1 <= d
        PROVE  h2[k + 1] = h[k + 1]
    <3>1. CASE c = k + 1
      BY <3>1
    <3>2. CASE c <= k
      <4>1. k \in c .. d - 1 /\ k \in 0 .. n /\ k <= d
        BY <2>1, <3>2
      <4>2. h2[k] = h[k]
        BY <1>2, <3>2, <4>1
      <4>3. h2[k + 1] = SqlMerge(h2[k], f2[k]) /\ h[k + 1] = SqlMerge(h[k], f[k])
        BY <4>1 DEF Chain
      <4> QED
        BY <4>1, <4>2, <4>3
    <3> QED
      BY <2>1, <3>1, <3>2
  <2> QED
    BY <2>1
<1> HIDE DEF K
<1>3. d \in K
  BY <1>1, <1>2, Induction
<1> QED
  BY <1>3 DEF K

\* A chain over empty buckets stays where it is.
LEMMA ChainStays ==
  ASSUME NEW n \in Nat, NEW c \in 0 .. n + 1, NEW base, NEW f, NEW h, Chain(h, base, f, n),
         h[c] \in GoodRow, NEW d \in c .. n + 1, \A k \in c .. d - 1 : f[k] = NoRow
  PROVE  h[d] = h[c]
<1> DEFINE K == {k \in Nat : c <= k /\ k <= d => h[k] = h[c]}
<1>1. 0 \in K
  BY DEF K
<1>2. ASSUME NEW k \in Nat, k \in K
      PROVE  k + 1 \in K
  <2>1. ASSUME c <= k + 1, k + 1 <= d
        PROVE  h[k + 1] = h[c]
    <3>1. CASE c = k + 1
      BY <3>1
    <3>2. CASE c <= k
      <4>1. k \in c .. d - 1 /\ k \in 0 .. n /\ k <= d
        BY <2>1, <3>2
      <4>2. h[k] = h[c]
        BY <1>2, <3>2, <4>1
      <4>3. h[k + 1] = SqlMerge(h[k], f[k])
        BY <4>1 DEF Chain
      <4> QED
        BY <4>1, <4>2, <4>3, MergeNothing
    <3> QED
      BY <2>1, <3>1, <3>2
  <2> QED
    BY <2>1
<1> HIDE DEF K
<1>3. d \in K
  BY <1>1, <1>2, Induction
<1> QED
  BY <1>3 DEF K

\* Chains from one base agree as long as their rows do.
LEMMA ChainsStart ==
  ASSUME NEW n \in Nat, NEW base, NEW f, NEW h, Chain(h, base, f, n),
         NEW f2, NEW h2, Chain(h2, base, f2, n),
         NEW d \in 0 .. n + 1, \A k \in 0 .. d - 1 : f2[k] = f[k]
  PROVE  h2[d] = h[d]
<1> DEFINE c == 0
<1>1. c \in 0 .. n + 1 /\ d \in c .. n + 1 /\ \A k \in c .. d - 1 : f2[k] = f[k]
  OBVIOUS
<1>2. h2[c] = h[c]
  BY DEF Chain
<1> HIDE DEF c
<1> QED
  BY <1>1, <1>2, ChainsMeet

\* Rows up to the bucket c of time t, one of which a row of that time is merged into.
Upserted(n, t, c, base, f, row, f2) ==
  /\ n \in Nat /\ t \in Nat /\ c \in 0 .. n /\ base \in GoodRow
  /\ f \in [0 .. n -> GoodRow] /\ row \in SingleRow /\ At(row, t)
  /\ InOrder(base, f, n) /\ Past(base, t) /\ (\A k \in 0 .. n : Past(f[k], t))
  /\ \A k \in c + 1 .. n : f[k] = NoRow
  /\ f2 = [f EXCEPT ![c] = SqlMerge(f[c], row)]

\* A row of the present, merged into the last bucket that has any, is merged into the end
\* of the chain.
LEMMA UpsertTold ==
  ASSUME NEW n, NEW t, NEW c, NEW base, NEW f, NEW row, NEW f2,
         Upserted(n, t, c, base, f, row, f2),
         NEW h, Chain(h, base, f, n), NEW h2, Chain(h2, base, f2, n)
  PROVE  h2[n + 1] = SqlMerge(h[n + 1], row)
<1> /\ n \in Nat /\ t \in Nat /\ c \in 0 .. n /\ base \in GoodRow
    /\ f \in [0 .. n -> GoodRow] /\ row \in SingleRow /\ At(row, t)
    /\ InOrder(base, f, n) /\ Past(base, t) /\ (\A k \in 0 .. n : Past(f[k], t))
    /\ \A k \in c + 1 .. n : f[k] = NoRow
  BY DEF Upserted
<1> f2[c] = SqlMerge(f[c], row) /\ \A k \in 0 .. n : k # c => f2[k] = f[k]
  BY DEF Upserted
<1>1. \A k \in 0 .. n + 1 : /\ h[k] \in GoodRow /\ Past(h[k], t)
                            /\ \A l \in k .. n : Follows(h[k], f[l])
  BY ChainFollows
<1>2. h2[c] = h[c]
  <2>1. c \in 0 .. n + 1 /\ \A k \in 0 .. c - 1 : f2[k] = f[k]
    OBVIOUS
  <2> QED
    BY <2>1, ChainsStart
<1>3. h[c + 1] = SqlMerge(h[c], f[c]) /\ h2[c + 1] = SqlMerge(h2[c], f2[c])
  BY DEF Chain
<1>4. c \in 0 .. n + 1 /\ c \in c .. n /\ c + 1 \in 0 .. n + 1 /\ n + 1 \in c + 1 .. n + 1
  OBVIOUS
<1>5. h[c] \in GoodRow /\ f[c] \in GoodRow /\ row \in GoodRow /\ Follows(h[c], f[c])
  BY <1>1, <1>4 DEF SingleRow
<1>6. Follows(h[c], row) /\ Follows(f[c], row)
  BY <1>1, <1>4, <1>5, FollowsPast
<1>7. WellFormed(h[c]) /\ WellFormed(f[c]) /\ WellFormed(row)
  BY <1>5 DEF GoodRow
<1>8. h2[c + 1] = SqlMerge(h[c + 1], row)
  <2>1. SqlMerge(SqlMerge(h[c], f[c]), row) = SqlMerge(h[c], SqlMerge(f[c], row))
    BY <1>5, <1>6, <1>7, MergeAssociates
  <2> QED
    BY <1>2, <1>3, <2>1
<1>9. n + 1 - 1 = n
  OBVIOUS
<1>10. h[n + 1] = h[c + 1]
  BY <1>1, <1>4, <1>9, ChainStays
<1>11. h2[n + 1] = h2[c + 1]
  <2>1. \A k \in c + 1 .. n : f2[k] = NoRow
    OBVIOUS
  <2>2. h2[c + 1] \in GoodRow
    BY <1>1, <1>4, <1>5, <1>8, GoodMerge
  <2> QED
    BY <1>4, <1>9, <2>1, <2>2, ChainStays
<1> QED
  BY <1>8, <1>10, <1>11

\* The rows stay in order.
LEMMA UpsertInOrder ==
  ASSUME NEW n, NEW t, NEW c, NEW base, NEW f, NEW row, NEW f2,
         Upserted(n, t, c, base, f, row, f2)
  PROVE  /\ f2 \in [0 .. n -> GoodRow] /\ InOrder(base, f2, n)
         /\ \A k \in 0 .. n : Past(f2[k], t)
         /\ \A k \in c + 1 .. n : f2[k] = NoRow
<1> /\ n \in Nat /\ t \in Nat /\ c \in 0 .. n /\ base \in GoodRow
    /\ f \in [0 .. n -> GoodRow] /\ row \in SingleRow /\ At(row, t)
    /\ InOrder(base, f, n) /\ Past(base, t) /\ (\A k \in 0 .. n : Past(f[k], t))
    /\ \A k \in c + 1 .. n : f[k] = NoRow
  BY DEF Upserted
<1>0. /\ \A k \in 0 .. n : k # c => f2[k] = f[k]
      /\ f2[c] = SqlMerge(f[c], row) /\ DOMAIN f2 = 0 .. n
      /\ f2 = [k \in 0 .. n |-> f2[k]]
  BY DEF Upserted
<1>1. row \in GoodRow /\ Past(row, t)
  BY PastRow DEF SingleRow
<1>2. f2[c] \in GoodRow /\ Past(f2[c], t)
  BY <1>0, <1>1, GoodMerge, PastMerge
<1>3. \A k \in 0 .. n : f2[k] \in GoodRow /\ Past(f2[k], t)
  BY <1>0, <1>2
<1>4. \A k \in c + 1 .. n : f2[k] = NoRow
  BY <1>0
<1>5. ASSUME NEW x \in GoodRow, Past(x, t), Follows(x, f[c])
      PROVE  Follows(x, f2[c])
  <2>1. Follows(x, row) /\ Follows(f[c], row)
    BY <1>5, FollowsPast
  <2>2. WellFormed(x) /\ WellFormed(f[c]) /\ WellFormed(row)
    BY <1>1, <1>5 DEF GoodRow
  <2> QED
    BY <1>0, <1>5, <2>1, <2>2, FollowsMerge
<1>6. \A k \in 0 .. n : Follows(base, f2[k])
  BY <1>0, <1>5 DEF InOrder
<1>7. ASSUME NEW k \in 0 .. n, NEW l \in 0 .. n, k < l
      PROVE  Follows(f2[k], f2[l])
  <2>1. CASE l = c
    <3>1. Follows(f[k], f[c])
      BY <1>7, <2>1 DEF InOrder
    <3>2. f2[k] = f[k]
      BY <1>0, <1>7, <2>1
    <3> QED
      BY <1>5, <2>1, <3>1, <3>2
  <2>2. CASE k = c
    <3>1. l \in c + 1 .. n
      BY <1>7, <2>2
    <3> QED
      BY <1>3, <1>4, <3>1, MergeNothing
  <2>3. CASE l # c /\ k # c
    BY <1>0, <1>7, <2>3 DEF InOrder
  <2> QED
    BY <2>1, <2>2, <2>3
<1>8. InOrder(base, f2, n)
  BY <1>6, <1>7 DEF InOrder
<1>9. f2 \in [0 .. n -> GoodRow]
  BY <1>0, <1>3
<1> QED
  BY <1>3, <1>4, <1>8, <1>9

\* The rows stay such, and their end takes the row.
LEMMA UpsertRuns ==
  ASSUME NEW n, NEW t, NEW c, NEW base, NEW f, NEW row, NEW f2,
         Upserted(n, t, c, base, f, row, f2)
  PROVE  /\ f2 \in [0 .. n -> GoodRow] /\ InOrder(base, f2, n)
         /\ \A k \in 0 .. n : Past(f2[k], t)
         /\ \A k \in c + 1 .. n : f2[k] = NoRow
         /\ \A h, h2 : Chain(h, base, f, n) /\ Chain(h2, base, f2, n) =>
                         h2[n + 1] = SqlMerge(h[n + 1], row)
BY UpsertInOrder, UpsertTold

\* The rows that a compaction coalesces.
Coalescing(g, r) ==
  g[0] = r[1] /\ \A k \in 1 .. Len(r) - 1 : g[k] = SqlMerge(g[k - 1], r[k + 1])

\* The Python fold over them is the same chain of merges.
LEMMA CoalescedRuns ==
  ASSUME NEW r \in Seq(GoodRow), r # <<>>
  PROVE  \E g : /\ Coalescing(g, r) /\ \A k \in 0 .. Len(r) - 1 : g[k] \in GoodRow
                /\ Merge!Coalesced(r) = g[Len(r) - 1]
<1> DEFINE m == Len(r)
           s == Tail(r)
<1>1. /\ m \in Nat \ {0} /\ s \in Seq(GoodRow) /\ Len(s) = m - 1
      /\ \A k \in 1 .. m - 1 : s[k] = r[k + 1]
      /\ Head(r) = r[1] /\ r[1] \in GoodRow
      /\ \A k \in 1 .. m : r[k] \in GoodRow
  OBVIOUS
<1>2. Merge!Coalesced(r) = Merge!FoldLeft(Merge!PyMerge, r[1], s)
  BY <1>1 DEF Merge!Coalesced
<1> HIDE DEF s
<1>3. PICK g : /\ PyRun(g, r[1], s)
               /\ Merge!FoldLeft(Merge!PyMerge, r[1], s) = g[Len(s)]
  BY <1>1, PyFoldRuns
<1>4. g[0] = r[1] /\ \A k \in 1 .. m - 1 : g[k] = PyMerge(g[k - 1], r[k + 1])
  BY <1>1, <1>3 DEF PyRun
<1> DEFINE K == {k \in Nat : k <= m - 1 => g[k] \in GoodRow}
<1>5. 0 \in K
  BY <1>1, <1>4
<1>6. ASSUME NEW k \in Nat, k \in K
      PROVE  k + 1 \in K
  <2>1. ASSUME k + 1 <= m - 1
        PROVE  g[k + 1] \in GoodRow
    <3>1. k <= m - 1 /\ k + 1 \in 1 .. m - 1 /\ k + 1 - 1 = k /\ k + 1 + 1 \in 1 .. m
      BY <1>1, <2>1
    <3>2. g[k] \in GoodRow
      BY <1>6, <3>1
    <3>3. g[k + 1] = PyMerge(g[k], r[k + 1 + 1])
      BY <1>4, <3>1
    <3>4. r[k + 1 + 1] \in GoodRow
      BY <1>1, <3>1
    <3> QED
      BY <3>2, <3>3, <3>4, GoodPyMerge
  <2> QED
    BY <2>1
<1>7. \A k \in Nat : k \in K
  <2> HIDE DEF K
  <2> QED
    BY <1>5, <1>6, Induction
<1>8. \A k \in 0 .. m - 1 : g[k] \in GoodRow
  BY <1>7
<1>9. ASSUME NEW k \in 1 .. m - 1
      PROVE  g[k] = SqlMerge(g[k - 1], r[k + 1])
  <2>1. k - 1 \in 0 .. m - 1 /\ k + 1 \in 1 .. m
    BY <1>1
  <2>2. g[k - 1] \in GoodRow /\ r[k + 1] \in GoodRow
    BY <1>1, <1>8, <2>1
  <2> QED
    BY <1>4, <2>2, GoodMerge
<1>10. Coalescing(g, r)
  BY <1>4, <1>9 DEF Coalescing
<1>11. Merge!Coalesced(r) = g[m - 1]
  BY <1>1, <1>2, <1>3
<1> QED
  BY <1>8, <1>10, <1>11

\* The rows r of the buckets old, up to bucket b, in order.
Taken(r, f, old, b, n) ==
  /\ r \in Seq(GoodRow) /\ r # <<>> /\ Len(r) \in Nat \ {0}
  /\ CountBelow(old, 0) = 0 /\ CountBelow(old, b + 1) = Len(r)
  /\ \A i \in 0 .. n :
       /\ CountBelow(old, i) \in Nat
       /\ i \in old => /\ CountBelow(old, i + 1) = CountBelow(old, i) + 1
                       /\ r[CountBelow(old, i) + 1] = f[i]
                       /\ CountBelow(old, i) + 1 <= Len(r)
       /\ i \notin old => CountBelow(old, i + 1) = CountBelow(old, i)

\* Those that a compaction takes.
LEMMA OldRows ==
  ASSUME NEW n \in Nat, NEW f \in [0 .. n -> GoodRow], NEW b \in 0 .. n,
         NEW old \in SUBSET (0 .. n), old # {},
         \A x \in 0 .. n : x \in old <=> x <= b /\ f[x] # NoRow
  PROVE  Taken(RowsIn(f, old), f, old, b, n)
<1> DEFINE r == RowsIn(f, old)
<1>1. \A x \in old : x < b + 1 /\ x \in 0 .. n
  OBVIOUS
<1>2. {x \in old : x < b + 1} = old
  BY <1>1
<1>3. /\ Cardinality(old) \in Nat /\ DOMAIN r = 1 .. Cardinality(old) /\ Len(r) = Cardinality(old)
      /\ \A i \in old : /\ r[CountBelow(old, i) + 1] = f[i]
                        /\ CountBelow(old, i) + 1 \in 1 .. Cardinality(old)
  BY <1>1, RowsInOrder
<1>4. CountBelow(old, b + 1) = Cardinality(old)
  BY <1>2 DEF CountBelow
<1>5. Cardinality(old) # 0
  <2>1. PICK i \in old : TRUE
    OBVIOUS
  <2>2. CountBelow(old, i) + 1 \in 1 .. Cardinality(old)
    BY <1>3
  <2> QED
    BY <2>2
<1>6. ASSUME NEW i \in 0 .. n
      PROVE  /\ CountBelow(old, 0) = 0 /\ CountBelow(old, i) \in Nat
             /\ i \in old => CountBelow(old, i + 1) = CountBelow(old, i) + 1
             /\ i \notin old => CountBelow(old, i + 1) = CountBelow(old, i)
  BY <1>1, CountUp
<1>7. r = [i \in 1 .. Cardinality(old) |-> f[BucketAt(old, i)]]
  BY DEF RowsIn
<1> HIDE DEF r
<1>8. r \in Seq(GoodRow)
  <2>1. ASSUME NEW i \in 1 .. Cardinality(old)
        PROVE  \E x \in old : i = CountBelow(old, x) + 1
    <3> DEFINE K == {k \in Nat : k <= n + 1 /\ i <= CountBelow(old, k) =>
                                   \E x \in old : i = CountBelow(old, x) + 1}
    <3>1. 0 \in K
      <4>1. CountBelow(old, 0) = 0
        BY <1>6
      <4>2. ~(i <= 0)
        OBVIOUS
      <4> QED
        BY <4>1, <4>2
    <3>2. ASSUME NEW k \in Nat, k \in K
          PROVE  k + 1 \in K
      <4>1. ASSUME k + 1 <= n + 1, i <= CountBelow(old, k + 1)
            PROVE  \E x \in old : i = CountBelow(old, x) + 1
        <5>1. k \in 0 .. n /\ k <= n + 1
          BY <4>1
        <5>2. CASE i <= CountBelow(old, k)
          BY <3>2, <5>1, <5>2
        <5>3. CASE ~(i <= CountBelow(old, k))
          <6>1. CountBelow(old, k) \in Nat /\ i \in Nat
            BY <1>6, <5>1, <1>3
          <6>2. k \in old
            BY <1>6, <4>1, <5>1, <5>3
          <6>3. CountBelow(old, k + 1) = CountBelow(old, k) + 1
            BY <1>6, <5>1, <6>2
          <6>4. i = CountBelow(old, k) + 1
            BY <4>1, <5>3, <6>1, <6>3
          <6> QED
            BY <6>2, <6>4
        <5> QED
          BY <5>2, <5>3
      <4> QED
        BY <4>1
    <3> HIDE DEF K
    <3>3. b + 1 \in K
      <4>1. b + 1 \in Nat
        OBVIOUS
      <4> QED
        BY <3>1, <3>2, <4>1, Induction
    <3>4. b + 1 <= n + 1 /\ i <= CountBelow(old, b + 1)
      BY <1>4
    <3> QED
      BY <3>3, <3>4 DEF K
  <2>2. \A i \in 1 .. Cardinality(old) : r[i] \in GoodRow
    <3>1. ASSUME NEW i \in 1 .. Cardinality(old)
          PROVE  r[i] \in GoodRow
      <4>1. PICK x \in old : i = CountBelow(old, x) + 1
        BY <2>1
      <4>2. r[i] = f[x]
        BY <1>3, <4>1
      <4> QED
        BY <4>2
    <3> QED
      BY <3>1
  <2>3. DOMAIN r = 1 .. Cardinality(old) /\ r = [i \in 1 .. Cardinality(old) |-> r[i]]
    BY <1>7
  <2> QED
    BY <1>3, <2>2, <2>3
<1>9. r # <<>>
  <2>1. Len(r) # 0
    BY <1>3, <1>5
  <2> QED
    BY <2>1
<1>10. CountBelow(old, 0) = 0
  <2>1. 0 \in 0 .. n
    OBVIOUS
  <2> QED
    BY <1>6, <2>1
<1>11. ASSUME NEW i \in old
       PROVE  CountBelow(old, i) + 1 <= Len(r)
  <2>1. CountBelow(old, i) + 1 \in 1 .. Cardinality(old)
    BY <1>3
  <2> QED
    BY <1>3, <2>1
<1> QED
  BY <1>3, <1>4, <1>5, <1>6, <1>8, <1>9, <1>10, <1>11 DEF Taken, r

\* Rows in order, of which those of the buckets up to b are the buckets old.
Compactable(n, t, base, f, b, old) ==
  /\ n \in Nat /\ t \in Nat /\ base \in GoodRow /\ f \in [0 .. n -> GoodRow]
  /\ InOrder(base, f, n) /\ Past(base, t) /\ (\A k \in 0 .. n : Past(f[k], t))
  /\ b \in 0 .. n /\ old \in SUBSET (0 .. n) /\ old # {}
  /\ \A x \in 0 .. n : x \in old <=> x <= b /\ f[x] # NoRow

\* What a compaction writes is where the chain stands after the buckets that it takes,
\* and follows from the rows before it.
LEMMA CompactTold ==
  ASSUME NEW n, NEW t, NEW base, NEW f, NEW b, NEW old,
         Compactable(n, t, base, f, b, old),
         NEW h, Chain(h, base, f, n)
  PROVE  LET w == SqlMerge(base, Merge!Coalesced(RowsIn(f, old)))
         IN  /\ h[b + 1] = w /\ w \in GoodRow /\ Past(w, t)
             /\ \A l \in b + 1 .. n : Follows(w, f[l])
<1> /\ n \in Nat /\ t \in Nat /\ base \in GoodRow /\ f \in [0 .. n -> GoodRow]
    /\ InOrder(base, f, n) /\ Past(base, t) /\ (\A k \in 0 .. n : Past(f[k], t))
    /\ b \in 0 .. n /\ old \in SUBSET (0 .. n) /\ old # {}
    /\ \A x \in 0 .. n : x \in old <=> x <= b /\ f[x] # NoRow
  BY DEF Compactable
<1> DEFINE r == RowsIn(f, old)
           m == Len(r)
           C(i) == CountBelow(old, i)
<1>0. Taken(r, f, old, b, n)
  BY OldRows
<1> HIDE DEF r
<1>1. /\ r \in Seq(GoodRow) /\ r # <<>> /\ m \in Nat \ {0}
      /\ C(0) = 0 /\ C(b + 1) = m
      /\ \A i \in 0 .. n :
           /\ C(i) \in Nat
           /\ i \in old => /\ C(i + 1) = C(i) + 1
                           /\ r[C(i) + 1] = f[i]
                           /\ C(i) + 1 <= m
           /\ i \notin old => C(i + 1) = C(i)
  BY <1>0 DEF Taken
<1>2. \A i \in 0 .. b : i \in 0 .. n /\ (i \notin old => f[i] = NoRow)
  OBVIOUS
<1>3. PICK g : /\ Coalescing(g, r) /\ \A k \in 0 .. Len(r) - 1 : g[k] \in GoodRow
               /\ Merge!Coalesced(r) = g[Len(r) - 1]
  BY <1>1, CoalescedRuns
<1> DEFINE P(i) == \/ C(i) = 0 /\ h[i] = base
                   \/ /\ C(i) \in 1 .. m /\ Past(g[C(i) - 1], t)
                      /\ g[C(i) - 1] \in GoodRow
                      /\ Follows(base, g[C(i) - 1])
                      /\ \A l \in i .. n : Follows(g[C(i) - 1], f[l])
                      /\ h[i] = SqlMerge(base, g[C(i) - 1])
<1>4. P(0)
  BY <1>1 DEF Chain
<1>5. ASSUME NEW i \in 0 .. b, P(i)
      PROVE  P(i + 1)
  <2>0. /\ i \in 0 .. n /\ h[i + 1] = SqlMerge(h[i], f[i]) /\ f[i] \in GoodRow /\ Past(f[i], t)
        /\ Follows(base, f[i]) /\ \A l \in i + 1 .. n : Follows(f[i], f[l]) /\ l \in i .. n
        /\ i \in i .. n
    BY <1>2 DEF Chain, InOrder
  <2>1. CASE i \notin old
    <3>1. f[i] = NoRow /\ C(i + 1) = C(i)
      BY <1>1, <1>2, <2>1
    <3>2. h[i] \in GoodRow
      BY <1>5, GoodMerge
    <3>3. h[i + 1] = h[i]
      BY <2>0, <3>1, <3>2, MergeNothing
    <3> HIDE DEF C
    <3>4. CASE C(i) = 0 /\ h[i] = base
      BY <3>1, <3>3, <3>4
    <3>5. CASE ~(C(i) = 0 /\ h[i] = base)
      BY <1>5, <2>0, <3>1, <3>3, <3>5
    <3> QED
      BY <3>4, <3>5
  <2>2. CASE i \in old
    <3>1. C(i) \in Nat /\ C(i + 1) = C(i) + 1 /\ r[C(i) + 1] = f[i] /\ C(i) + 1 <= m
      BY <1>1, <2>0, <2>2
    <3> HIDE DEF C
    <3>2. C(i + 1) \in 1 .. m /\ C(i + 1) - 1 = C(i)
      <4> DEFINE c == C(i)
                 d == C(i + 1)
      <4>1. c \in Nat /\ d = c + 1 /\ c + 1 <= m /\ m \in Nat
        BY <1>1, <3>1
      <4> HIDE DEF c, d, m
      <4>2. d \in 1 .. m /\ d - 1 = c
        BY <4>1
      <4> QED
        BY <4>2 DEF c, d
    <3>3. CASE C(i) = 0 /\ h[i] = base
      <4>1. g[C(i)] = f[i]
        BY <1>3, <3>1, <3>3 DEF Coalescing
      <4> QED
        BY <2>0, <3>2, <3>3, <4>1
    <3>4. CASE ~(C(i) = 0 /\ h[i] = base)
      <4> DEFINE x == g[C(i) - 1]
      <4>1. /\ C(i) \in 1 .. m /\ Past(x, t) /\ x \in GoodRow /\ Follows(base, x)
            /\ \A l \in i .. n : Follows(x, f[l])
            /\ h[i] = SqlMerge(base, x)
        BY <1>5, <3>4
      <4>2. g[C(i)] = SqlMerge(x, f[i])
        <5>1. C(i) \in 1 .. m - 1
          BY <1>1, <3>1, <4>1
        <5> QED
          BY <1>3, <3>1, <5>1 DEF Coalescing
      <4> HIDE DEF x
      <4>3. Follows(x, f[i])
        BY <2>0, <4>1
      <4>4. WellFormed(base) /\ WellFormed(x) /\ WellFormed(f[i])
        BY <2>0, <4>1 DEF GoodRow
      <4>5. h[i + 1] = SqlMerge(base, g[C(i)])
        BY <2>0, <4>1, <4>2, <4>3, <4>4, MergeAssociates
      <4>6. Follows(base, g[C(i)])
        BY <2>0, <4>1, <4>2, <4>3, <4>4, FollowsMerge
      <4>7. g[C(i)] \in GoodRow /\ Past(g[C(i)], t)
        BY <2>0, <4>1, <4>2, GoodMerge, PastMerge
      <4>8. ASSUME NEW l \in i + 1 .. n
            PROVE  Follows(g[C(i)], f[l])
        <5>1. Follows(x, f[l]) /\ Follows(f[i], f[l])
          BY <2>0, <4>1
        <5>2. WellFormed(f[l])
          <6>1. l \in 0 .. n
            OBVIOUS
          <6> QED
            BY <6>1 DEF GoodRow
        <5> QED
          BY <4>2, <4>3, <4>4, <5>1, <5>2, FollowsMerge
      <4> QED
        BY <3>2, <4>5, <4>6, <4>7, <4>8
    <3> QED
      BY <3>3, <3>4
  <2> QED
    BY <2>1, <2>2
<1> DEFINE K == {k \in Nat : k <= b + 1 => P(k)}
<1> HIDE DEF P
<1>6. 0 \in K
  BY <1>4
<1>7. ASSUME NEW k \in Nat, k \in K
      PROVE  k + 1 \in K
  <2>1. k + 1 <= b + 1 => k \in 0 .. b /\ k <= b + 1
    OBVIOUS
  <2> QED
    BY <1>5, <1>7, <2>1
<1>8. b + 1 \in K
  <2>1. b + 1 \in Nat
    OBVIOUS
  <2> HIDE DEF K
  <2> QED
    BY <1>6, <1>7, <2>1, Induction
<1>9. P(b + 1)
  BY <1>8
<1> HIDE DEF C
<1> DEFINE v == g[m - 1]
<1>10. /\ Past(v, t) /\ v \in GoodRow /\ Follows(base, v)
       /\ \A l \in b + 1 .. n : Follows(v, f[l])
       /\ h[b + 1] = SqlMerge(base, v)
  <2>1. C(b + 1) = m /\ m # 0
    BY <1>1
  <2> QED
    BY <1>9, <2>1 DEF P
<1> HIDE DEF v
<1>11. SqlMerge(base, v) \in GoodRow /\ Past(SqlMerge(base, v), t)
  BY <1>10, GoodMerge, PastMerge
<1>12. ASSUME NEW l \in b + 1 .. n
       PROVE  Follows(SqlMerge(base, v), f[l])
  <2>1. l \in 0 .. n
    OBVIOUS
  <2>2. WellFormed(base) /\ WellFormed(v) /\ WellFormed(f[l])
    BY <1>10, <2>1 DEF GoodRow
  <2> QED
    BY <1>10, <2>1, <2>2, FollowsMerge DEF InOrder
<1>13. Merge!Coalesced(RowsIn(f, old)) = v
  BY <1>3 DEF v, r
<1> QED
  BY <1>10, <1>11, <1>12, <1>13

\* The rows after it are in order, and a chain over them ends where it did.
LEMMA CompactRuns ==
  ASSUME NEW n, NEW t, NEW base, NEW f, NEW b, NEW old,
         Compactable(n, t, base, f, b, old)
  PROVE  LET w == SqlMerge(base, Merge!Coalesced(RowsIn(f, old)))
             f2 == [x \in 0 .. n |-> IF x \in old THEN NoRow ELSE f[x]]
         IN  /\ w \in GoodRow /\ Past(w, t)
             /\ f2 \in [0 .. n -> GoodRow] /\ InOrder(w, f2, n)
             /\ \A k \in 0 .. n : Past(f2[k], t) /\ (f[k] = NoRow => f2[k] = NoRow)
             /\ \A h, h2 : Chain(h, base, f, n) /\ Chain(h2, w, f2, n) =>
                             h2[n + 1] = h[n + 1]
<1> DEFINE w == SqlMerge(base, Merge!Coalesced(RowsIn(f, old)))
           f2 == [x \in 0 .. n |-> IF x \in old THEN NoRow ELSE f[x]]
<1>1. /\ n \in Nat /\ t \in Nat /\ base \in GoodRow /\ f \in [0 .. n -> GoodRow]
      /\ InOrder(base, f, n) /\ (\A k \in 0 .. n : Past(f[k], t))
      /\ b \in 0 .. n /\ old \in SUBSET (0 .. n)
      /\ \A x \in 0 .. n : x \in old <=> x <= b /\ f[x] # NoRow
  BY DEF Compactable
<1>2. /\ \A k \in 0 .. n : k <= b => f2[k] = NoRow
      /\ \A k \in 0 .. n : b < k => f2[k] = f[k]
      /\ \A k \in 0 .. n : f2[k] = NoRow \/ f2[k] = f[k]
  BY <1>1
<1>3. NoRow \in GoodRow /\ \A x \in GoodRow : Follows(x, NoRow) /\ Follows(NoRow, x)
  BY MergeNothing DEF SingleRow
<1>4. Past(NoRow, t)
  BY <1>1 DEF Past, NoRow, Null
<1>5. f2 \in [0 .. n -> GoodRow]
  BY <1>1, <1>3
<1>6. PICK h0 : Chain(h0, base, f, n)
  <2>1. \E h0 : /\ Chain(h0, base, f, n)
                /\ Merge!FoldLeft(Merge!SqlMerge, base, RowsIn(f, 0 .. n)) = h0[n + 1]
    BY <1>1, TotalRuns
  <2> QED
    BY <2>1
<1>7. /\ w \in GoodRow /\ Past(w, t)
      /\ \A l \in b + 1 .. n : Follows(w, f[l])
  BY <1>6, CompactTold
<1> HIDE DEF w, f2
<1>8. \A k \in 0 .. n : Past(f2[k], t) /\ (f[k] = NoRow => f2[k] = NoRow)
  BY <1>1, <1>2, <1>4
<1>9. InOrder(w, f2, n)
  <2>1. ASSUME NEW k \in 0 .. n
        PROVE  Follows(w, f2[k])
    <3>1. CASE k <= b
      BY <1>2, <1>3, <1>7, <3>1
    <3>2. CASE b < k
      <4>1. k \in b + 1 .. n
        BY <1>1, <3>2
      <4> QED
        BY <1>2, <1>7, <3>2, <4>1
    <3> QED
      BY <1>1, <3>1, <3>2
  <2>2. ASSUME NEW k \in 0 .. n, NEW l \in 0 .. n, k < l
        PROVE  Follows(f2[k], f2[l])
    <3>1. Follows(f[k], f[l]) /\ f2[k] \in GoodRow /\ f2[l] \in GoodRow
      BY <1>1, <1>5, <2>2 DEF InOrder
    <3> QED
      BY <1>2, <1>3, <3>1
  <2> QED
    BY <2>1, <2>2 DEF InOrder
<1>10. ASSUME NEW h, NEW h2, Chain(h, base, f, n), Chain(h2, w, f2, n)
       PROVE  h2[n + 1] = h[n + 1]
  <2>1. h[b + 1] = w
    BY <1>10, CompactTold DEF w
  <2>2. h2[0] = w
    BY <1>10 DEF Chain
  <2>3. h2[b + 1] = h2[0]
    <3> DEFINE c == 0
               d == b + 1
    <3>1. c \in 0 .. n + 1 /\ d \in c .. n + 1 /\ \A k \in c .. d - 1 : f2[k] = NoRow
      BY <1>1, <1>2
    <3>2. h2[c] \in GoodRow
      BY <1>7, <2>2
    <3> HIDE DEF c, d
    <3>3. h2[d] = h2[c]
      BY <1>1, <1>10, <3>1, <3>2, ChainStays
    <3> QED
      BY <3>3 DEF c, d
  <2> DEFINE c == b + 1
             d == n + 1
  <2>4. c \in 0 .. n + 1 /\ d \in c .. n + 1 /\ \A k \in c .. d - 1 : f2[k] = f[k]
    <3>1. \A k \in b + 1 .. n : k \in 0 .. n /\ b < k
      BY <1>1
    <3>2. n + 1 - 1 = n
      BY <1>1
    <3> QED
      BY <1>1, <1>2, <3>1, <3>2
  <2>5. h2[c] = h[c]
    BY <2>1, <2>2, <2>3
  <2> HIDE DEF c, d
  <2>6. h2[d] = h[d]
    BY <1>1, <1>10, <2>4, <2>5, ChainsMeet
  <2> QED
    BY <2>6 DEF d
<1> QED
  BY <1>5, <1>7, <1>8, <1>9, <1>10 DEF w, f2

\* The last bucket.
LastBucket == Merge!BucketOf(WideTime)

\* A wide row and fine rows that tell what a history tells.
Tells(w, f, h) ==
  Merge!FoldLeft(Merge!SqlMerge, w, RowsIn(f, 0 .. LastBucket)) = Merge!Reference(h)

\* That is what is claimed of the state.
LEMMA TellsIs ==
  /\ CompactionFaithful <=> Tells(wide, fine, history)
  /\ CompactionFaithful' <=> Tells(wide', fine', history')
<1>1. /\ Merge!Buckets = 0 .. LastBucket
      /\ \A S : /\ Merge!RowsOf(S) = RowsIn(fine, S)
                /\ Merge!RowsOf(S)' = RowsIn(fine', S)
  <2>1. \A S : Merge!Cardinality(S) = Cardinality(S)
    BY SameCardinality
  <2>2. \A S : Merge!RowsOf(S) = RowsIn(fine, S)
    BY <2>1 DEF Merge!RowsOf, RowsIn, BucketAt
  <2>3. \A S : Merge!RowsOf(S)' = RowsIn(fine', S)
    BY <2>1 DEF Merge!RowsOf, RowsIn, BucketAt
  <2> QED
    BY <2>2, <2>3 DEF Merge!Buckets, LastBucket
<1>2. CompactionFaithful <=> Tells(wide, fine, history)
  BY <1>1 DEF CompactionFaithful, Merge!CompactionFaithful, Tells
<1>3. CompactionFaithful' <=> Tells(wide', fine', history')
  BY <1>1 DEF CompactionFaithful, Merge!CompactionFaithful, Tells
<1> QED
  BY <1>2, <1>3

\* What the proof that compaction is faithful carries along: the rows are good, none is
\* of the future, and they are in the order of time.
MergeInv ==
  /\ hour \in Nat /\ hour <= WideTime
  /\ wide \in GoodRow /\ Past(wide, hour)
  /\ fine \in [Merge!Buckets -> GoodRow]
  /\ \A b \in Merge!Buckets : Past(fine[b], hour)
  /\ InOrder(wide, fine, LastBucket)
  /\ \A b \in Merge!Buckets : b > Merge!BucketOf(hour) => fine[b] = NoRow
  /\ history \in Seq(SingleRow) /\ Told(history)
  /\ CompactionFaithful

\* The sizes.
LEMMA MergeSizes ==
  ASSUME Merge!MergeConstants
  PROVE  /\ FineWidth \in Nat \ {0} /\ WideTime \in Nat /\ LastBucket \in Nat
         /\ Merge!Buckets = 0 .. LastBucket
         /\ Price \subseteq Nat /\ Bid \subseteq Value
         /\ \A t : Merge!BucketOf(t) = t \div FineWidth
<1>1. FineWidth \in Nat \ {0} /\ WideTime \in Nat /\ Price \subseteq Nat /\ Bid \subseteq Value
  BY SameMerges DEF Merge!MergeConstants
<1>2. \A t : Merge!BucketOf(t) = t \div FineWidth
  BY DEF Merge!BucketOf
<1>3. LastBucket \in Nat
  BY <1>1, <1>2, LaterBucket DEF LastBucket
<1> QED
  BY <1>1, <1>2, <1>3 DEF Merge!Buckets, LastBucket

\* It holds when nothing is written.
LEMMA MergeStart ==
  ASSUME Merge!MergeConstants PROVE Merge!Init => MergeInv
<1> SUFFICES ASSUME Merge!Init
             PROVE  MergeInv
  OBVIOUS
<1> DEFINE N == LastBucket
<1>1. /\ WideTime \in Nat /\ N \in Nat /\ Merge!Buckets = 0 .. N
  BY MergeSizes
<1>2. /\ hour = 0 /\ fine = [b \in 0 .. N |-> NoRow] /\ wide = NoRow /\ history = <<>>
  BY <1>1, SameMerges DEF Merge!Init
<1>3. NoRow \in GoodRow /\ NoRow \in SingleRow /\ Follows(NoRow, NoRow)
  BY MergeNothing DEF SingleRow
<1>4. Past(NoRow, 0)
  BY DEF Past, NoRow, Null
<1> HIDE DEF N
<1>5. fine \in [0 .. N -> GoodRow] /\ \A k \in 0 .. N : fine[k] = NoRow
  BY <1>2, <1>3
<1>6. InOrder(wide, fine, N)
  BY <1>2, <1>3, <1>5 DEF InOrder
<1>7. history \in Seq(SingleRow)
  BY <1>2
<1>8. /\ Priced(history) = {} /\ Best(history) = {} /\ Quoted(history) = {}
      /\ Bidden(history) = {} /\ PricesOf(history) = {} /\ BidsOf(history) = {}
  <2>1. DOMAIN history = {}
    BY <1>2
  <2>2. Priced(history) = {} /\ Quoted(history) = {}
    BY <2>1 DEF Priced, Quoted
  <2> QED
    BY <2>2 DEF Best, Bidden, PricesOf, BidsOf
<1>9. Told(history)
  BY <1>8 DEF Told, Extremes
<1>10. Merge!Reference(history) = NoRow
  <2> DEFINE R == Merge!Reference(history)
  <2>1. R = [open |-> R.open, high |-> R.high, low |-> R.low, close |-> R.close,
             rank |-> R.rank, first |-> R.first, last |-> R.last,
             bidOpen |-> R.bidOpen, bidHigh |-> R.bidHigh, bidLow |-> R.bidLow,
             bidClose |-> R.bidClose, bidFirst |-> R.bidFirst, bidLast |-> R.bidLast]
    BY DEF Merge!Reference
  <2>2. /\ R.open = Null /\ R.high = Null /\ R.low = Null /\ R.close = Null /\ R.rank = 0
        /\ R.first = Null /\ R.last = Null
        /\ R.bidOpen = Null /\ R.bidHigh = Null /\ R.bidLow = Null
        /\ R.bidClose = Null /\ R.bidFirst = Null /\ R.bidLast = Null
    BY <1>8, ReferenceIs
  <2> HIDE DEF R
  <2>3. R = NoRow
    BY <2>1, <2>2 DEF NoRow
  <2> QED
    BY <2>3 DEF R
<1>11. Tells(wide, fine, history)
  <2>1. PICK h : /\ Chain(h, wide, fine, N)
                 /\ Merge!FoldLeft(Merge!SqlMerge, wide, RowsIn(fine, 0 .. N)) = h[N + 1]
    BY <1>1, <1>2, <1>3, <1>5, TotalRuns
  <2>2. h[0] = NoRow
    BY <1>2, <2>1 DEF Chain
  <2>3. h[N + 1] = h[0]
    <3> DEFINE c == 0
               d == N + 1
    <3>1. c \in 0 .. N + 1 /\ d \in c .. N + 1 /\ \A k \in c .. d - 1 : fine[k] = NoRow
      BY <1>1, <1>5
    <3>2. h[c] \in GoodRow
      BY <1>3, <2>2
    <3> HIDE DEF c, d
    <3>3. h[d] = h[c]
      BY <1>1, <2>1, <3>1, <3>2, ChainStays
    <3> QED
      BY <3>3 DEF c, d
  <2> QED
    BY <1>10, <2>1, <2>2, <2>3 DEF Tells, N
<1> QED
  BY <1>1, <1>2, <1>3, <1>4, <1>5, <1>6, <1>7, <1>9, <1>11, TellsIs DEF MergeInv, N

\* An observation keeps it.
LEMMA UpsertKeeps ==
  ASSUME Merge!MergeConstants, MergeInv, NEW row \in SingleRow, At(row, hour),
         Merge!Upsert(row)
  PROVE  MergeInv'
<1> DEFINE N == LastBucket
           c == Merge!BucketOf(hour)
<1>1. /\ FineWidth \in Nat \ {0} /\ WideTime \in Nat /\ N \in Nat
      /\ Merge!Buckets = 0 .. N /\ Merge!Buckets' = 0 .. N
      /\ \A t : Merge!BucketOf(t) = t \div FineWidth
  BY MergeSizes DEF Merge!Buckets
<1>2. /\ hour \in Nat /\ hour <= WideTime
      /\ wide \in GoodRow /\ Past(wide, hour)
      /\ fine \in [0 .. N -> GoodRow]
      /\ \A b \in 0 .. N : Past(fine[b], hour)
      /\ InOrder(wide, fine, N)
      /\ \A b \in 0 .. N : b > c => fine[b] = NoRow
      /\ history \in Seq(SingleRow) /\ Told(history)
      /\ Tells(wide, fine, history)
  BY <1>1, TellsIs DEF MergeInv
<1>3. c \in 0 .. N
  <2>1. hour \div FineWidth \in Nat /\ hour \div FineWidth <= WideTime \div FineWidth
    BY <1>1, <1>2, LaterBucket
  <2>2. N = WideTime \div FineWidth
    BY <1>1 DEF LastBucket
  <2> QED
    BY <1>1, <2>1, <2>2
<1>4. /\ fine' = [fine EXCEPT ![c] = SqlMerge(fine[c], row)]
      /\ history' = Append(history, row)
      /\ hour' = hour /\ wide' = wide
  BY SameMerges DEF Merge!Upsert
<1> HIDE DEF N, c
<1>5. \A k \in c + 1 .. N : fine[k] = NoRow
  BY <1>1, <1>2, <1>3
<1>61. Upserted(N, hour, c, wide, fine, row, fine')
  BY <1>1, <1>2, <1>3, <1>4, <1>5 DEF Upserted
<1>6. /\ fine' \in [0 .. N -> GoodRow] /\ InOrder(wide, fine', N)
      /\ \A k \in 0 .. N : Past(fine'[k], hour)
      /\ \A k \in c + 1 .. N : fine'[k] = NoRow
  BY <1>61, UpsertRuns
<1>7. PICK h : /\ Chain(h, wide, fine, N)
               /\ Merge!FoldLeft(Merge!SqlMerge, wide, RowsIn(fine, 0 .. N)) = h[N + 1]
  BY <1>1, <1>2, TotalRuns
<1>8. PICK h2 : /\ Chain(h2, wide, fine', N)
                /\ Merge!FoldLeft(Merge!SqlMerge, wide, RowsIn(fine', 0 .. N)) = h2[N + 1]
  BY <1>1, <1>2, <1>6, TotalRuns
<1>9. h2[N + 1] = SqlMerge(h[N + 1], row)
  BY <1>61, <1>7, <1>8, UpsertRuns
<1>10. h[N + 1] = Merge!Reference(history)
  BY <1>2, <1>7 DEF Tells, N
<1>11. h[N + 1] \in GoodRow /\ Past(h[N + 1], hour)
  <2>1. N + 1 \in 0 .. N + 1
    BY <1>1
  <2> QED
    BY <1>1, <1>2, <1>7, <2>1, ChainFollows
<1>12. Follows(h[N + 1], row) /\ WellFormed(h[N + 1])
  BY <1>2, <1>11, FollowsPast DEF GoodRow
<1>13. Merge!Reference(history') = SqlMerge(Merge!Reference(history), row)
  BY <1>2, <1>4, <1>10, <1>12, ReferenceNext
<1>14. Tells(wide', fine', history')
  BY <1>4, <1>8, <1>9, <1>10, <1>13 DEF Tells, N
<1>15. history' \in Seq(SingleRow) /\ Told(history')
  <2>1. Append(history, row) \in Seq(SingleRow)
    BY <1>2
  <2> QED
    BY <1>2, <1>4, <2>1, ToldNext
<1>16. \A b \in 0 .. N : b > c => fine'[b] = NoRow
  <2>1. \A b \in 0 .. N : b > c => b \in c + 1 .. N
    BY <1>1, <1>3
  <2> QED
    BY <1>6, <2>1
<1>17. Merge!BucketOf(hour)' = c /\ InOrder(wide, fine, LastBucket)' = InOrder(wide', fine', N)
  BY <1>4 DEF Merge!BucketOf, c, N, LastBucket, InOrder
<1> QED
  BY <1>1, <1>2, <1>4, <1>6, <1>14, <1>15, <1>16, <1>17, TellsIs DEF MergeInv, Past

\* Time keeps it.
LEMMA TickKeeps ==
  ASSUME Merge!MergeConstants, MergeInv, Merge!Tick
  PROVE  MergeInv'
<1>1. /\ FineWidth \in Nat \ {0} /\ WideTime \in Nat
      /\ Merge!Buckets = 0 .. LastBucket
      /\ \A t : Merge!BucketOf(t) = t \div FineWidth
  BY MergeSizes
<1>2. /\ hour \in Nat /\ hour < WideTime /\ hour' = hour + 1
      /\ fine' = fine /\ wide' = wide /\ history' = history
  BY DEF MergeInv, Merge!Tick
<1>3. wide \in GoodRow /\ Past(wide, hour + 1)
  BY <1>2, PastLater DEF MergeInv
<1>4. \A b \in Merge!Buckets : Past(fine[b], hour + 1)
  <2>1. \A b \in Merge!Buckets : fine[b] \in GoodRow /\ Past(fine[b], hour)
    BY DEF MergeInv
  <2> QED
    BY <1>2, <2>1, PastLater
<1>5. \A b \in Merge!Buckets : b > (hour + 1) \div FineWidth => fine[b] = NoRow
  <2>1. /\ hour \div FineWidth <= (hour + 1) \div FineWidth
        /\ hour \div FineWidth \in Nat /\ (hour + 1) \div FineWidth \in Nat
    <3>1. hour + 1 \in Nat /\ hour <= hour + 1
      BY <1>2
    <3> QED
      BY <1>1, <1>2, <3>1, LaterBucket
  <2>2. \A b \in Merge!Buckets : b > hour \div FineWidth => fine[b] = NoRow
    BY <1>1 DEF MergeInv
  <2> DEFINE x == hour \div FineWidth
             y == (hour + 1) \div FineWidth
  <2>3. x \in Nat /\ y \in Nat /\ x <= y
    BY <2>1
  <2> HIDE DEF x, y
  <2>4. \A b \in Merge!Buckets : b > y => b > x
    <3>1. \A b \in Merge!Buckets : b \in Int
      <4>1. LastBucket \in Nat
        BY MergeSizes
      <4> QED
        BY <1>1, <4>1
    <3> QED
      BY <2>3, <3>1
  <2> QED
    BY <2>2, <2>4 DEF x, y
<1>6. CompactionFaithful'
  <2>1. Tells(wide, fine, history)
    BY TellsIs DEF MergeInv
  <2> QED
    BY <1>2, <2>1, TellsIs
<1>7. /\ hour' \in Nat /\ hour' <= WideTime
      /\ wide' \in GoodRow /\ Past(wide', hour')
      /\ \A b \in Merge!Buckets : Past(fine'[b], hour')
  BY <1>1, <1>2, <1>3, <1>4
<1>8. /\ fine' \in [Merge!Buckets -> GoodRow] /\ InOrder(wide', fine', LastBucket)
      /\ history' \in Seq(SingleRow) /\ Told(history')
  BY <1>2 DEF MergeInv
<1>9. \A b \in Merge!Buckets : b > (hour' \div FineWidth) => fine'[b] = NoRow
  BY <1>2, <1>5
<1>10. /\ Merge!Buckets' = Merge!Buckets /\ Merge!BucketOf(hour)' = hour' \div FineWidth
       /\ InOrder(wide, fine, LastBucket)' = InOrder(wide', fine', LastBucket)
  BY <1>2 DEF Merge!Buckets, Merge!BucketOf, InOrder, LastBucket
<1> QED
  BY <1>6, <1>7, <1>8, <1>9, <1>10 DEF MergeInv, Past

\* A compaction keeps it.
LEMMA CompactKeeps ==
  ASSUME Merge!MergeConstants, MergeInv, NEW b \in Merge!Buckets, Merge!Compact(b)
  PROVE  MergeInv'
<1> DEFINE N == LastBucket
           old == {x \in Merge!Buckets : x <= b /\ fine[x] # NoRow}
           w == SqlMerge(wide, Merge!Coalesced(RowsIn(fine, old)))
<1>1. /\ N \in Nat /\ Merge!Buckets = 0 .. N /\ Merge!Buckets' = 0 .. N
  BY MergeSizes DEF Merge!Buckets
<1>2. /\ hour \in Nat /\ hour <= WideTime
      /\ wide \in GoodRow /\ Past(wide, hour)
      /\ fine \in [0 .. N -> GoodRow]
      /\ \A k \in 0 .. N : Past(fine[k], hour)
      /\ InOrder(wide, fine, N)
      /\ \A k \in 0 .. N : k > Merge!BucketOf(hour) => fine[k] = NoRow
      /\ history \in Seq(SingleRow) /\ Told(history)
      /\ Tells(wide, fine, history)
  BY <1>1, TellsIs DEF MergeInv
<1>3. /\ old # {} /\ wide' = w
      /\ fine' = [x \in 0 .. N |-> IF x \in old THEN NoRow ELSE fine[x]]
      /\ hour' = hour /\ history' = history
  <2>1. Merge!RowsOf(old) = RowsIn(fine, old)
    <3>1. \A S : Merge!Cardinality(S) = Cardinality(S)
      BY SameCardinality
    <3>2. \A S : Merge!RowsOf(S) = RowsIn(fine, S)
      BY <3>1 DEF Merge!RowsOf, RowsIn, BucketAt
    <3> QED
      BY <3>2
  <2>2. old = {x \in Merge!Buckets : x <= b /\ fine[x] # Merge!NoRow}
    BY SameMerges
  <2> HIDE DEF old
  <2>3. /\ old # {} /\ wide' = Merge!SqlMerge(wide, Merge!Coalesced(Merge!RowsOf(old)))
        /\ fine' = [x \in Merge!Buckets |-> IF x \in old THEN Merge!NoRow ELSE fine[x]]
        /\ hour' = hour /\ history' = history
    BY <2>2 DEF Merge!Compact
  <2> QED
    BY <1>1, <2>1, <2>3, SameMerges
<1>4. \A x \in 0 .. N : x \in old <=> x <= b /\ fine[x] # NoRow
  BY <1>1
<1>5. old \in SUBSET (0 .. N)
  BY <1>1
<1> HIDE DEF N, old
<1>6. Compactable(N, hour, wide, fine, b, old)
  BY <1>1, <1>2, <1>3, <1>4, <1>5 DEF Compactable
<1>7. /\ w \in GoodRow /\ Past(w, hour)
      /\ fine' \in [0 .. N -> GoodRow] /\ InOrder(w, fine', N)
      /\ \A k \in 0 .. N : Past(fine'[k], hour) /\ (fine[k] = NoRow => fine'[k] = NoRow)
      /\ \A h, h2 : Chain(h, wide, fine, N) /\ Chain(h2, w, fine', N) =>
                      h2[N + 1] = h[N + 1]
  BY <1>3, <1>6, CompactRuns
<1> HIDE DEF w
<1>8. PICK h : /\ Chain(h, wide, fine, N)
               /\ Merge!FoldLeft(Merge!SqlMerge, wide, RowsIn(fine, 0 .. N)) = h[N + 1]
  BY <1>1, <1>2, TotalRuns
<1>9. PICK h2 : /\ Chain(h2, w, fine', N)
                /\ Merge!FoldLeft(Merge!SqlMerge, w, RowsIn(fine', 0 .. N)) = h2[N + 1]
  BY <1>1, <1>7, TotalRuns
<1>10. Tells(wide', fine', history')
  BY <1>2, <1>3, <1>7, <1>8, <1>9 DEF Tells, N
<1>11. Merge!BucketOf(hour)' = Merge!BucketOf(hour)
       /\ InOrder(wide, fine, LastBucket)' = InOrder(wide', fine', N)
  BY <1>3 DEF Merge!BucketOf, InOrder, N, LastBucket
<1>12. \A k \in 0 .. N : k > Merge!BucketOf(hour) => fine'[k] = NoRow
  BY <1>2, <1>7
<1> QED
  BY <1>1, <1>2, <1>3, <1>7, <1>10, <1>11, <1>12, TellsIs DEF MergeInv, Past

\* Every step keeps it.
LEMMA MergeStep ==
  ASSUME Merge!MergeConstants PROVE MergeInv /\ [Merge!Next]_Merge!vars => MergeInv'
<1> SUFFICES ASSUME MergeInv, [Merge!Next]_Merge!vars
             PROVE  MergeInv'
  OBVIOUS
<1>0. hour \in Nat /\ Price \subseteq Nat /\ Bid \subseteq Value
  BY MergeSizes DEF MergeInv
<1>1. CASE Merge!Tick
  BY <1>1, TickKeeps
<1>2. CASE Merge!Trade
  <2>1. PICK p \in Price : Merge!Upsert(TradeRow(hour, p))
    BY <1>2, SameMerges DEF Merge!Trade
  <2>2. TradeRow(hour, p) \in SingleRow /\ At(TradeRow(hour, p), hour)
    BY <1>0, RowsSingle
  <2> QED
    BY <2>1, <2>2, UpsertKeeps
<1>3. CASE Merge!Quote
  <2>1. \E last \in Price \cup {Null}, bid, ask \in Bid :
          Merge!Upsert(QuoteRow(hour, last, bid, ask))
    BY <1>3, SameMerges DEF Merge!Quote
  <2>2. PICK last \in Price \cup {Null} : \E bid, ask \in Bid :
          Merge!Upsert(QuoteRow(hour, last, bid, ask))
    BY <2>1
  <2>3. PICK bid \in Bid : \E ask \in Bid :
          Merge!Upsert(QuoteRow(hour, last, bid, ask))
    BY <2>2
  <2>4. PICK ask \in Bid : Merge!Upsert(QuoteRow(hour, last, bid, ask))
    BY <2>3
  <2>5. last \in Value /\ bid \in Value /\ ask \in Value
    BY <1>0 DEF Value
  <2>6. QuoteRow(hour, last, bid, ask) \in SingleRow /\ At(QuoteRow(hour, last, bid, ask), hour)
    BY <1>0, <2>5, RowsSingle
  <2> QED
    BY <2>4, <2>6, UpsertKeeps
<1>4. ASSUME NEW b \in Merge!Buckets, Merge!Compact(b)
      PROVE  MergeInv'
  BY <1>4, CompactKeeps
<1>5. CASE UNCHANGED Merge!vars
  <2>1. hour' = hour /\ fine' = fine /\ wide' = wide /\ history' = history
    BY <1>5 DEF Merge!vars
  <2>2. CompactionFaithful'
    BY <2>1, TellsIs DEF MergeInv
  <2>3. /\ Merge!Buckets' = Merge!Buckets /\ Merge!BucketOf(hour)' = Merge!BucketOf(hour)
        /\ InOrder(wide, fine, LastBucket)' = InOrder(wide, fine, LastBucket)
    BY <2>1 DEF Merge!Buckets, Merge!BucketOf, InOrder, LastBucket
  <2> QED
    BY <2>1, <2>2, <2>3 DEF MergeInv, Past
<1> QED
  BY <1>1, <1>2, <1>3, <1>4, <1>5 DEF Merge!Next

\* However trades, quotes and compactions come, and however the compactions are cut, the
\* wide row and the fine rows that are left tell what the history tells.
THEOREM CompactionTells ==
  ASSUME Merge!MergeConstants PROVE Merge!Spec => []CompactionFaithful
<1>1. Merge!Init => MergeInv
  BY MergeStart
<1>2. MergeInv /\ [Merge!Next]_Merge!vars => MergeInv'
  BY MergeStep
<1>3. MergeInv => CompactionFaithful
  BY DEF MergeInv
<1> QED
  BY <1>1, <1>2, <1>3, PTL DEF Merge!Spec
=============================================================================
