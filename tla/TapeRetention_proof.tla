------------------------ MODULE TapeRetention_proof ------------------------
(***************************************************************************)
(* Nothing that was flagged is lost, and nothing leaves the chart, for any *)
(* trades, tiers, windows, chart policies and batch sizes; the first as    *)
(* long as the flag sweep looks at trades younger than the shortest        *)
(* window.                                                                 *)
(***************************************************************************)
EXTENDS TapeRetention, TLAPS

\* A trade that a sweep has yet to judge is not older than the look-back and
\* the time a sweep may take.
LEMMA ScanRecent ==
  ASSUME TypeOK, ScanYoung, NEW t \in scan
  PROVE  now <= at[t] + ScanAge + ScanTime
<1>1. /\ now \in Nat /\ scanStart \in Nat /\ at[t] \in Nat
      /\ ScanAge \in Nat /\ ScanTime \in Nat
  BY ConstantsOk DEF TypeOK, ScanYoung
<1>2. scanStart - at[t] <= ScanAge /\ now <= scanStart + ScanTime
  BY DEF ScanYoung
<1> QED BY <1>1, <1>2

\* The initial state.
LEMMA TapeInit == Init => TapeInv
BY ConstantsOk
   DEF Init, TapeInv, TypeOK, TradesPast, ScanYoung, CutoffPast, PickedSafe,
       EvidenceLeft, ChartKept, Unset

\* TypeOK is preserved by every step.
LEMMA TapeType == TypeOK /\ [Next]_vars => TypeOK'
<1> SUFFICES ASSUME TypeOK, [Next]_vars PROVE TypeOK'
  OBVIOUS
<1> USE ConstantsOk DEF TypeOK, market, tape, flagTables, flagSweep, retention
<1>1. CASE Tick
  BY <1>1 DEF Tick
<1>2. ASSUME NEW m \in Market, CloseMarket(m) PROVE TypeOK'
  BY <1>2 DEF CloseMarket
<1>3. ASSUME NEW m \in Market, Ticker(m) \/ NewsPromote(m) PROVE TypeOK'
  <2>1. CASE Ticker(m)
    BY <2>1 DEF Ticker
  <2>2. CASE NewsPromote(m)
    <3>1. Len(Days) \in DOMAIN Days
      OBVIOUS
    <3> QED BY <2>2, <3>1 DEF NewsPromote
  <2> QED BY <1>3, <2>1, <2>2
<1>4. ASSUME NEW t \in Trade, TakeTrade(t) PROVE TypeOK'
  BY <1>4 DEF TakeTrade
<1>5. ASSUME NEW t \in Trade, CompactChart(t) PROVE TypeOK'
  BY <1>5 DEF CompactChart
<1>6. CASE Deploy
  BY <1>6 DEF Deploy
<1>7. CASE FlagScan
  BY <1>7 DEF FlagScan
<1>8. CASE FlagFail
  BY <1>8 DEF FlagFail, ScanLeft
<1>9. ASSUME NEW m \in Market, FlagMarket(m) PROVE TypeOK'
  <2>1. PICK S \in SUBSET (OfMarket(scan, m) \cap raw) :
          /\ flags' = [t \in Trade |-> flags[t] \cup (IF t \in S THEN {version} ELSE {})]
          /\ flagged' = [t \in Trade |-> flagged[t] \cup (IF t \in S THEN {version} ELSE {})]
    BY <1>9 DEF FlagMarket
  <2>2. flags' \in [Trade -> SUBSET Nat] /\ flagged' \in [Trade -> SUBSET Nat]
    BY <2>1
  <2>3. tier' \in [Market -> DOMAIN Days]
    BY <1>9 DEF FlagMarket
  <2> QED BY <1>9, <2>2, <2>3 DEF FlagMarket, ScanLeft
<1>10. ASSUME NEW m \in Market, FlagSkip(m) PROVE TypeOK'
  BY <1>10 DEF FlagSkip, ScanLeft
<1>11. CASE StartSweep
  BY <1>11 DEF StartSweep
<1>12. CASE StartTier
  <2>1. level + 1 \in DOMAIN Days /\ Days[level + 1] \in Nat
    BY <1>12 DEF StartTier
  <2> QED BY <1>12, <2>1 DEF StartTier
<1>13. CASE EvidenceBatch
  <2>1. UNCHANGED evidence \/ \E B : evidence' = Copied(B)
    BY <1>13, Zenon DEF EvidenceBatch
  <2>2. \A B : Copied(B) \in [Trade -> SUBSET Nat]
    BY DEF Copied
  <2>3. evidence' \in [Trade -> SUBSET Nat]
    BY <2>1, <2>2
  <2> QED BY <1>13, <2>3 DEF EvidenceBatch
<1>14. CASE PickBatch
  <2>1. picked' \in SUBSET Trade
    BY <1>14 DEF PickBatch, Batch
  <2> QED BY <1>14, <2>1 DEF PickBatch
<1>15. CASE DeleteBatch
  BY <1>15 DEF DeleteBatch
<1>16. CASE EndSweep \/ Abort
  BY <1>16 DEF EndSweep, Abort, Leave
<1>17. CASE UNCHANGED vars
  BY <1>17 DEF vars
<1> QED
  BY <1>1, <1>2, <1>3, <1>4, <1>5, <1>6, <1>7, <1>8, <1>9, <1>10, <1>11,
     <1>12, <1>13, <1>14, <1>15, <1>16, <1>17
     DEF Next, World, Flagging, Sweep

-----------------------------------------------------------------------------
(* Each step preserves the rest of the invariant.                          *)

Others ==
  TradesPast /\ ScanYoung /\ CutoffPast /\ PickedSafe /\ EvidenceLeft /\ ChartKept

\* The clock goes on: what is past stays past, and a flag sweep in progress
\* holds the clock back.
LEMMA TickInv ==
  ASSUME TapeInv, Tick PROVE Others'
<1> USE DEF TapeInv, TypeOK, Tick, market, tape, flagTables, flagSweep, retention
<1>1. TradesPast' /\ ScanYoung' /\ EvidenceLeft' /\ ChartKept'
  BY ConstantsOk DEF TradesPast, ScanYoung, EvidenceLeft, ChartKept
<1>2. CutoffPast'
  BY ConstantsOk DEF CutoffPast
<1>3. PickedSafe'
  <2> SUFFICES ASSUME NEW t \in picked
               PROVE  /\ t \in taken /\ chart[t] # 0 /\ flagged[t] \subseteq evidence[t]
                      /\ \E k \in DOMAIN Days : at[t] + Days[k] < now + 1
    BY DEF PickedSafe
  <2>1. PICK k \in DOMAIN Days : at[t] + Days[k] < now
    BY DEF PickedSafe
  <2>2. at[t] \in Nat /\ Days[k] \in Nat
    BY ConstantsOk
  <2> QED BY <2>1, <2>2 DEF PickedSafe
<1> QED BY <1>1, <1>2, <1>3 DEF Others

\* The exchange and the other writers.
LEMMA WorldInv ==
  ASSUME TapeInv,
         \/ \E m \in Market : CloseMarket(m) \/ Ticker(m) \/ NewsPromote(m)
         \/ \E t \in Trade : TakeTrade(t) \/ CompactChart(t)
  PROVE  Others'
<1> USE DEF TapeInv, TypeOK, market, tape, flagTables, flagSweep, retention
<1>1. ASSUME NEW m \in Market, CloseMarket(m) PROVE Others'
  <2>1. TradesPast'
    BY <1>1, ConstantsOk DEF CloseMarket, TradesPast
  <2>2. ScanYoung' /\ CutoffPast' /\ PickedSafe' /\ EvidenceLeft' /\ ChartKept'
    BY <1>1 DEF CloseMarket, ScanYoung, CutoffPast, PickedSafe, EvidenceLeft, ChartKept
  <2> QED BY <2>1, <2>2 DEF Others
<1>2. ASSUME NEW m \in Market, Ticker(m) \/ NewsPromote(m) PROVE Others'
  BY <1>2 DEF Ticker, NewsPromote, Others, TradesPast, ScanYoung, CutoffPast,
              PickedSafe, EvidenceLeft, ChartKept
<1>3. ASSUME NEW t \in Trade, TakeTrade(t) PROVE Others'
  <2>0. /\ t \notin taken /\ taken' = taken \cup {t} /\ raw' = raw \cup {t}
        /\ UNCHANGED <<now, market, flagTables, evidence, flagSweep, retention>>
    BY <1>3 DEF TakeTrade
  <2>1. PICK ts \in 0..now :
          /\ closeTime[MarketOf[t]] # Unset => ts <= closeTime[MarketOf[t]]
          /\ at' = [at EXCEPT ![t] = ts]
    BY <1>3 DEF TakeTrade
  <2>2. \A x \in taken : at'[x] = at[x] /\ chart'[x] = chart[x]
    BY <2>0, <1>3, <2>1 DEF TakeTrade
  <2>3. TradesPast'
    BY <2>0, <2>1, <2>2 DEF TradesPast
  <2>4. ScanYoung' /\ CutoffPast'
    BY <2>0, <2>2 DEF ScanYoung, CutoffPast
  <2>5. PickedSafe'
    BY <2>0, <2>2 DEF PickedSafe
  <2>6. EvidenceLeft' /\ ChartKept'
    BY <2>0, <2>2 DEF EvidenceLeft, ChartKept
  <2> QED BY <2>3, <2>4, <2>5, <2>6 DEF Others
<1>4. ASSUME NEW t \in Trade, CompactChart(t) PROVE Others'
  <2>1. \A x \in Trade : chart[x] # 0 => chart'[x] # 0
    BY <1>4, ConstantsOk DEF CompactChart
  <2>2. TradesPast' /\ ScanYoung' /\ CutoffPast' /\ EvidenceLeft'
    BY <1>4 DEF CompactChart, TradesPast, ScanYoung, CutoffPast, EvidenceLeft
  <2>3. PickedSafe'
    BY <1>4, <2>1 DEF CompactChart, PickedSafe
  <2>4. ChartKept'
    BY <1>4, <2>1 DEF CompactChart, ChartKept
  <2> QED BY <2>2, <2>3, <2>4 DEF Others
<1> QED BY <1>1, <1>2, <1>3, <1>4

\* The flag sweep flags no row that a DELETE has chosen: it is too young.
LEMMA FlaggingInv ==
  ASSUME ScanApart, TapeInv, Flagging PROVE Others'
<1> USE DEF TapeInv, TypeOK, market, tape, flagTables, flagSweep, retention
<1>1. CASE Deploy
  BY <1>1 DEF Deploy, Others, TradesPast, ScanYoung, CutoffPast, PickedSafe,
              EvidenceLeft, ChartKept
<1>2. CASE FlagScan
  <2>1. ScanYoung'
    BY <1>2, ConstantsOk DEF FlagScan, ScanYoung, TradesPast
  <2>2. TradesPast' /\ CutoffPast' /\ PickedSafe' /\ EvidenceLeft' /\ ChartKept'
    BY <1>2 DEF FlagScan, TradesPast, CutoffPast, PickedSafe, EvidenceLeft, ChartKept
  <2> QED BY <2>1, <2>2 DEF Others
<1>3. ASSUME NEW S, S \subseteq scan, ScanLeft(S) PROVE ScanYoung' \/ now' # now \/ tape' # tape
  BY <1>3 DEF ScanLeft, ScanYoung
<1>4. CASE FlagFail
  <2>1. ScanYoung'
    BY <1>4, <1>3 DEF FlagFail
  <2>2. TradesPast' /\ CutoffPast' /\ PickedSafe' /\ EvidenceLeft' /\ ChartKept'
    BY <1>4 DEF FlagFail, TradesPast, CutoffPast, PickedSafe, EvidenceLeft, ChartKept
  <2> QED BY <2>1, <2>2 DEF Others
<1>5. ASSUME NEW m \in Market, FlagSkip(m) PROVE Others'
  <2>1. ScanYoung'
    BY <1>5, <1>3 DEF FlagSkip
  <2>2. TradesPast' /\ CutoffPast' /\ PickedSafe' /\ EvidenceLeft' /\ ChartKept'
    BY <1>5 DEF FlagSkip, TradesPast, CutoffPast, PickedSafe, EvidenceLeft, ChartKept
  <2> QED BY <2>1, <2>2 DEF Others
<1>6. ASSUME NEW m \in Market, FlagMarket(m) PROVE Others'
  <2>1. PICK S \in SUBSET (OfMarket(scan, m) \cap raw) :
          /\ flags' = [t \in Trade |-> flags[t] \cup (IF t \in S THEN {version} ELSE {})]
          /\ flagged' = [t \in Trade |-> flagged[t] \cup (IF t \in S THEN {version} ELSE {})]
    BY <1>6 DEF FlagMarket
  <2>2. /\ UNCHANGED <<now, market, tape, chart, evidence, retention>>
        /\ ScanLeft(scan \ OfMarket(scan, m))
    BY <1>6 DEF FlagMarket
  <2>3. ScanYoung'
    BY <1>3, <2>2
  <2>4. TradesPast' /\ CutoffPast' /\ ChartKept'
    BY <2>2 DEF TradesPast, CutoffPast, ChartKept
  <2>5. EvidenceLeft'
    BY <2>1, <2>2 DEF EvidenceLeft
  <2>6. ASSUME NEW t \in picked PROVE t \notin S
    <3>1. PICK k \in DOMAIN Days : at[t] + Days[k] < now
      BY DEF PickedSafe
    <3>2. at[t] \in Nat /\ Days[k] \in Nat /\ ScanAge + ScanTime <= Days[k]
      BY ConstantsOk DEF ScanApart
    <3>3. t \in scan => now <= at[t] + ScanAge + ScanTime
      BY ScanRecent
    <3> QED BY <3>1, <3>2, <3>3, ConstantsOk DEF OfMarket
  <2>7. PickedSafe'
    BY <2>1, <2>2, <2>6 DEF PickedSafe
  <2> QED BY <2>3, <2>4, <2>5, <2>7 DEF Others
<1> QED BY <1>1, <1>2, <1>4, <1>5, <1>6 DEF Flagging

\* The steps of the retention sweep, and its failure.
LEMMA SweepInv ==
  ASSUME ScanApart, TapeInv, Sweep \/ Abort PROVE Others'
<1> USE DEF TapeInv, TypeOK, market, tape, flagTables, flagSweep, retention
<1>1. CASE StartSweep \/ EndSweep \/ Abort
  BY <1>1 DEF StartSweep, EndSweep, Abort, Leave, Others, TradesPast, ScanYoung,
              CutoffPast, PickedSafe, EvidenceLeft, ChartKept
<1>2. CASE StartTier
  <2>1. CutoffPast'
    <3>1. level + 1 \in DOMAIN Days /\ Days[level + 1] \in Nat
      BY <1>2, ConstantsOk DEF StartTier
    <3> QED BY <1>2, <3>1 DEF StartTier, CutoffPast
  <2>2. TradesPast' /\ ScanYoung' /\ PickedSafe' /\ EvidenceLeft' /\ ChartKept'
    BY <1>2 DEF StartTier, TradesPast, ScanYoung, PickedSafe, EvidenceLeft, ChartKept
  <2> QED BY <2>1, <2>2 DEF Others
<1>3. CASE EvidenceBatch
  <2>1. /\ UNCHANGED <<now, market, tape, chart, flagTables, flagSweep>>
        /\ UNCHANGED <<level, cutoff, picked>>
        /\ stage = "evidence" /\ stage' \in {"evidence", "delete"}
    BY <1>3 DEF EvidenceBatch
  <2>2. UNCHANGED evidence \/ \E B : evidence' = Copied(B)
    BY <1>3, Zenon DEF EvidenceBatch
  <2>3. \A t \in Trade : evidence[t] \subseteq evidence'[t]
    BY <2>2 DEF Copied
  <2>4. TradesPast' /\ ScanYoung' /\ CutoffPast' /\ ChartKept'
    BY <2>1 DEF TradesPast, ScanYoung, CutoffPast, ChartKept
  <2>5. PickedSafe'
    BY <2>1, <2>3 DEF PickedSafe
  <2>6. EvidenceLeft'
    BY <2>1, <2>3 DEF EvidenceLeft
  <2> QED BY <2>4, <2>5, <2>6 DEF Others
<1>4. CASE PickBatch
  <2>1. /\ UNCHANGED <<now, market, tape, chart, flagTables, flagSweep, evidence>>
        /\ UNCHANGED <<level, cutoff>>
        /\ stage = "delete" /\ stage' \in {"next", "apply"}
    BY <1>4 DEF PickBatch
  <2>2. \A t \in picked' : t \in picked \/ (t \in raw /\ Deletable(t))
    BY <1>4 DEF PickBatch, Batch
  <2>3. TradesPast' /\ ScanYoung' /\ EvidenceLeft' /\ ChartKept'
    BY <2>1 DEF TradesPast, ScanYoung, EvidenceLeft, ChartKept
  <2>4. CutoffPast'
    BY <2>1 DEF CutoffPast
  <2>5. ASSUME NEW t \in raw, Deletable(t)
        PROVE  /\ t \in taken /\ chart[t] # 0 /\ flagged[t] \subseteq evidence[t]
               /\ at[t] + Days[level] < now /\ level \in DOMAIN Days
    <3>1. chart[t] # 0
      BY <2>5, ConstantsOk DEF Deletable
    <3>2. flagged[t] \subseteq evidence[t]
      BY <2>5 DEF Deletable, EvidenceLeft
    <3>3. at[t] < cutoff
      <4>1. /\ at[t] \in Nat
            /\ closeTime[MarketOf[t]] # Unset => at[t] <= closeTime[MarketOf[t]]
            /\ closeTime[MarketOf[t]] \in Nat \cup {Unset}
        BY ConstantsOk DEF TradesPast
      <4> QED BY <2>5, <4>1 DEF Deletable, Expired, Unset
    <3>4. level \in DOMAIN Days /\ cutoff + Days[level] <= now
      BY <2>1 DEF CutoffPast
    <3>5. at[t] \in Nat /\ Days[level] \in Nat
      BY <3>4, ConstantsOk
    <3> QED BY <3>1, <3>2, <3>3, <3>4, <3>5
  <2>6. PickedSafe'
    BY <2>1, <2>2, <2>5 DEF PickedSafe
  <2> QED BY <2>3, <2>4, <2>6 DEF Others
<1>5. CASE DeleteBatch
  <2>1. /\ UNCHANGED <<now, market, taken, at, chart, flagged, evidence, flagSweep>>
        /\ UNCHANGED <<level, cutoff>> /\ stage = "apply" /\ stage' = "delete"
        /\ raw' = raw \ picked /\ picked' = {}
        /\ flags' = [t \in Trade |-> IF t \in picked THEN {} ELSE flags[t]]
    BY <1>5 DEF DeleteBatch
  <2>2. TradesPast' /\ ScanYoung' /\ CutoffPast' /\ PickedSafe'
    BY <2>1 DEF TradesPast, ScanYoung, CutoffPast, PickedSafe
  <2>3. EvidenceLeft'
    BY <2>1 DEF EvidenceLeft, PickedSafe
  <2>4. ChartKept'
    BY <2>1 DEF ChartKept, PickedSafe
  <2> QED BY <2>2, <2>3, <2>4 DEF Others
<1> QED BY <1>1, <1>2, <1>3, <1>4, <1>5 DEF Sweep

-----------------------------------------------------------------------------
(* The theorems.                                                           *)

\* The invariant of the tape holds in every reachable state.
THEOREM TapeSafe ==
  ASSUME ScanApart
  PROVE  Spec => []TapeInv
<1>1. Init => TapeInv
  BY TapeInit
<1>2. TapeInv /\ [Next]_vars => TapeInv'
  <2> SUFFICES ASSUME TapeInv, [Next]_vars PROVE TapeInv'
    OBVIOUS
  <2>1. TypeOK'
    BY TapeType DEF TapeInv
  <2>2. Others'
    <3>1. CASE World
      BY <3>1, TickInv, WorldInv DEF World
    <3>2. CASE Flagging
      BY <3>2, FlaggingInv
    <3>3. CASE Sweep \/ Abort
      BY <3>3, SweepInv
    <3>4. CASE UNCHANGED vars
      BY <3>4 DEF vars, market, tape, flagTables, flagSweep, retention, TapeInv,
                  Others, TradesPast, ScanYoung, CutoffPast, PickedSafe,
                  EvidenceLeft, ChartKept
    <3> QED BY <3>1, <3>2, <3>3, <3>4 DEF Next
  <2> QED BY <2>1, <2>2 DEF TapeInv, Others
<1> QED BY <1>1, <1>2, PTL DEF Spec

\* While the flag sweep looks at young trades only, a flag is never lost
\* without evidence, whatever the retention sweep deletes and when it fails.
THEOREM TapeEvidenceLeft ==
  ASSUME ScanApart
  PROVE  Spec => []EvidenceLeft
<1>1. TapeInv => EvidenceLeft
  BY DEF TapeInv
<1> QED BY <1>1, TapeSafe, PTL

\* Every reachable state is type correct, whatever the flag sweep looks at.
THEOREM TapeTypes == Spec => []TypeOK
<1>1. Init => TypeOK
  BY TapeInit DEF TapeInv
<1> QED BY <1>1, TapeType, PTL DEF Spec

-----------------------------------------------------------------------------
(* The chart needs no such assumption.                                     *)

\* What a DELETE has chosen is in the chart, and so is what is gone.
ChartInv ==
  /\ TypeOK /\ ChartKept
  /\ \A t \in picked : t \in taken /\ chart[t] # 0

\* No step takes a trade out of the chart, and a DELETE chooses covered ones.
LEMMA ChartStep == ChartInv /\ [Next]_vars => ChartInv'
<1> SUFFICES ASSUME ChartInv, [Next]_vars PROVE ChartInv'
  OBVIOUS
<1>1. TypeOK'
  BY TapeType DEF ChartInv
<1> DEFINE Kept == /\ taken' = taken /\ \A t \in taken : chart[t] # 0 => chart'[t] # 0
<1>2. CASE Kept /\ raw' = raw /\ picked' \subseteq picked
  BY <1>1, <1>2 DEF ChartInv, ChartKept
<1>3. CASE UNCHANGED <<tape, chart, picked>>
  BY <1>2, <1>3 DEF tape
<1>4. CASE World
  <2>1. CASE Tick
    BY <1>3, <2>1 DEF Tick, retention
  <2>2. ASSUME NEW m \in Market, CloseMarket(m) \/ Ticker(m) \/ NewsPromote(m)
        PROVE  ChartInv'
    BY <1>3, <2>2 DEF CloseMarket, Ticker, NewsPromote, retention
  <2>3. ASSUME NEW t \in Trade, TakeTrade(t)
        PROVE  ChartInv'
    <3>1. /\ t \notin taken /\ taken' = taken \cup {t} /\ raw' = raw \cup {t}
          /\ picked' = picked /\ t \in raw'
      BY <2>3 DEF TakeTrade, retention
    <3>2. \A x \in taken : x # t /\ chart'[x] = chart[x]
      BY <2>3, <3>1 DEF TakeTrade, ChartInv, TypeOK
    <3> QED BY <1>1, <3>1, <3>2 DEF ChartInv, ChartKept
  <2>4. ASSUME NEW t \in Trade, CompactChart(t)
        PROVE  ChartInv'
    <3>1. \A x \in Trade : chart[x] # 0 => chart'[x] # 0
      BY <2>4, ConstantsOk DEF CompactChart, ChartInv, TypeOK
    <3>2. UNCHANGED <<taken, raw, picked>>
      BY <2>4 DEF CompactChart, tape, retention
    <3> QED BY <1>2, <3>1, <3>2 DEF ChartInv, TypeOK
  <2> QED BY <1>4, <2>1, <2>2, <2>3, <2>4 DEF World
<1>5. CASE Flagging
  BY <1>3, <1>5 DEF Flagging, Deploy, FlagScan, FlagFail, FlagMarket, FlagSkip, retention
<1>6. CASE StartSweep \/ StartTier \/ EvidenceBatch
  BY <1>3, <1>6 DEF StartSweep, StartTier, EvidenceBatch
<1>7. CASE PickBatch
  <2>1. UNCHANGED <<taken, raw, chart>>
    BY <1>7 DEF PickBatch, tape
  <2>2. \A t \in picked' : t \in picked \/ (t \in raw /\ Deletable(t))
    BY <1>7 DEF PickBatch, Batch
  <2>3. \A t \in raw : Deletable(t) => t \in taken /\ chart[t] # 0
    BY ConstantsOk DEF Deletable, ChartInv, TypeOK
  <2> QED BY <1>1, <2>1, <2>2, <2>3 DEF ChartInv, ChartKept
<1>8. CASE DeleteBatch
  <2>1. UNCHANGED <<taken, chart>> /\ raw' = raw \ picked /\ picked' = {}
    BY <1>8 DEF DeleteBatch
  <2> QED BY <1>1, <2>1 DEF ChartInv, ChartKept
<1>9. CASE EndSweep \/ Abort
  <2>1. UNCHANGED <<tape, chart>> /\ picked' = {}
    BY <1>9 DEF EndSweep, Abort, Leave
  <2> QED BY <1>2, <2>1 DEF tape
<1>10. CASE UNCHANGED vars
  BY <1>3, <1>10 DEF vars, retention
<1> QED
  BY <1>4, <1>5, <1>6, <1>7, <1>8, <1>9, <1>10 DEF Next, Sweep

\* What the retention sweep deletes, the chart still shows, however old the trades are
\* that a flag sweep looks at.
THEOREM TapeChartKept == Spec => []ChartKept
<1>1. Init => ChartInv
  <2> SUFFICES ASSUME Init PROVE ChartInv
    OBVIOUS
  <2>1. TypeOK /\ ChartKept
    BY TapeInit DEF TapeInv
  <2> QED BY <2>1 DEF Init, ChartInv
<1>2. ChartInv => ChartKept
  BY DEF ChartInv
<1> QED BY <1>1, <1>2, ChartStep, PTL DEF Spec
=============================================================================
