----------------------- MODULE AnomalyLedger_proof -------------------------
(***************************************************************************)
(* For any number of markets and writers, any policy and any rows left     *)
(* behind by earlier versions: the counters of a market cover its alerts,  *)
(* and with one retention process, as deployed, what is deleted is in the  *)
(* summaries exactly once.                                                 *)
(***************************************************************************)
EXTENDS AnomalyLedger, FiniteSetTheorems, WellFoundedInduction, TLAPS

\* Alerts are as old as the transaction that stored them, or older.
RowsPast ==
  /\ \A i \in DOMAIN rows : rows[i].at <= now
  /\ \A w \in DOMAIN tx : tx[w].began <= now

\* What a transaction writes is not weak.
VerdictsStrong == \A w \in DOMAIN tx : tx[w].plan # "delete" => tx[w].verdict # Low

LedgerInv == TypeOK /\ RowsPast /\ VerdictsStrong /\ CountersCover

-----------------------------------------------------------------------------
(* The latest row of a market.                                             *)

\* A set of naturals that is not empty has a least element.
LEMMA LeastNat ==
  ASSUME NEW S, S \subseteq Nat, S # {}
  PROVE  \E x \in S : \A y \in S : x <= y
<1> DEFINE R == OpToRel(<, Nat)
<1>1. \A x, y \in Nat : <<y, x>> \in R <=> y < x
  BY DEF OpToRel
<1>2. IsWellFoundedOn(R, Nat)
  BY NatLessThanWellFounded
<1> HIDE DEF R
<1>3. PICK x \in S : \A y \in S : ~ (<<y, x>> \in R)
  BY <1>2, WFMin
<1>4. ASSUME NEW y \in S PROVE x <= y
  <2>1. x \in Nat /\ y \in Nat
    OBVIOUS
  <2>2. ~ (y < x)
    BY <1>1, <1>3, <2>1
  <2> QED BY <2>1, <2>2
<1> QED BY <1>4

\* A market with rows has a latest one.
LEMMA LatestExists ==
  ASSUME TypeOK, RowsPast, NEW m, RowsOf(m) # {}
  PROVE  Latest(m) \in RowsOf(m)
<1> DEFINE Age(i) == now - rows[i].at
           Ages == {Age(i) : i \in RowsOf(m)}
<1>1. \A i \in RowsOf(m) : Age(i) \in Nat /\ rows[i].at \in Int /\ i \in Nat
  BY DEF TypeOK, RowsPast, RowsOf, AlertRow
<1>2. PICK i0 \in RowsOf(m) : \A j \in RowsOf(m) : Age(i0) <= Age(j)
  <2>1. Ages \subseteq Nat /\ Ages # {}
    BY <1>1
  <2>2. PICK a \in Ages : \A b \in Ages : a <= b
    <3> HIDE DEF Ages
    <3> QED BY <2>1, LeastNat
  <2> QED BY <2>2
<1> DEFINE Newest == {i \in RowsOf(m) : rows[i].at = rows[i0].at}
           Places == {nextId - i : i \in Newest}
<1>3. PICK i1 \in Newest : \A j \in Newest : j <= i1
  <2>1. Places \subseteq Nat /\ Places # {}
    BY DEF TypeOK, RowsOf
  <2>2. PICK a \in Places : \A b \in Places : a <= b
    <3> HIDE DEF Places
    <3> QED BY <2>1, LeastNat
  <2>3. PICK i \in Newest : a = nextId - i
    BY <2>2
  <2>4. nextId \in Nat
    BY DEF TypeOK
  <2>5. ASSUME NEW j \in Newest PROVE j <= i
    <3>1. a <= nextId - j
      BY <2>2
    <3>2. i \in Nat /\ j \in Nat
      BY <1>1
    <3> QED BY <2>3, <2>4, <3>1, <3>2
  <2> QED BY <2>5
<1>4. ASSUME NEW j \in RowsOf(m)
      PROVE  rows[j].at < rows[i1].at \/ (rows[j].at = rows[i1].at /\ j <= i1)
  <2>1. Age(i0) <= Age(j) /\ rows[i1].at = rows[i0].at
    BY <1>2, <1>3
  <2>2. rows[j].at \in Int /\ rows[i0].at \in Int /\ now \in Int
    BY <1>1 DEF TypeOK
  <2>3. rows[j].at <= rows[i0].at
    BY <2>1, <2>2
  <2> QED BY <1>3, <2>1, <2>2, <2>3
<1> QED BY <1>4 DEF Latest

\* What a writer learns of the latest row.
LEMMA LatestType ==
  ASSUME TypeOK, RowsPast, NEW m
  PROVE  /\ Latest(m) \in Nat
         /\ SeverityOf(Latest(m)) \in Severity
<1>1. CASE RowsOf(m) = {}
  BY <1>1 DEF Latest, SeverityOf, Severity
<1>2. CASE RowsOf(m) # {}
  <2>1. Latest(m) \in RowsOf(m)
    BY <1>2, LatestExists
  <2>2. Latest(m) \in DOMAIN rows /\ rows[Latest(m)] \in AlertRow
    BY <2>1 DEF RowsOf, TypeOK
  <2> QED BY <2>2 DEF TypeOK, SeverityOf, AlertRow, Severity, Low
<1> QED BY <1>1, <1>2

-----------------------------------------------------------------------------
(* Types.                                                                  *)

\* The sets of rows are finite.
LEMMA Finite ==
  ASSUME TypeOK
  PROVE  /\ \A S \in SUBSET DOMAIN rows : IsFiniteSet(S) /\ Cardinality(S) \in Nat
         /\ \A r \in DOMAIN job : \A S \in SUBSET DOMAIN job[r].victims :
              IsFiniteSet(S) /\ Cardinality(S) \in Nat
<1>1. IsFiniteSet(1..(nextId - 1))
  <2>1. nextId - 1 \in Int
    BY DEF TypeOK
  <2> QED BY <2>1, FS_Interval
<1>2. \A S \in SUBSET (1..(nextId - 1)) : IsFiniteSet(S) /\ Cardinality(S) \in Nat
  BY <1>1, FS_Subset, FS_CardinalityType
<1> QED BY <1>2 DEF TypeOK, IsJob

\* The initial state.
LEMMA LedgerInit == Init => LedgerInv
<1> SUFFICES ASSUME Init PROVE LedgerInv
  OBVIOUS
<1> USE ConstantsOk DEF Init
<1>1. Cardinality(DOMAIN Legacy) \in Nat
  BY FS_CardinalityType
<1>2. \A m \in Market : count[m] \in Nat /\ count[m] = Cardinality(RowsOf(m))
  <2>1. ASSUME NEW m \in Market
        PROVE  count[m] = Cardinality(RowsOf(m)) /\ RowsOf(m) \subseteq DOMAIN Legacy
    BY DEF RowsOf
  <2> QED BY <2>1, FS_Subset, FS_CardinalityType
<1>3. rows \in [DOMAIN rows -> AlertRow]
  BY DEF AlertRow, Severity
<1>4. TypeOK
  <2>1. /\ nextId \in Nat \ {0} /\ DOMAIN rows \subseteq 1..(nextId - 1)
        /\ now \in Nat /\ quote \in [Market -> Nat]
        /\ \A i \in DOMAIN rows : rows[i].severity = Low => i \in DOMAIN Legacy
    BY <1>1
  <2>2. /\ count \in [Market -> Nat] /\ high \in [Market -> Nat]
        /\ cleared \in [Market -> Nat] /\ pruned \in [Market -> Nat]
        /\ summary \in [Market -> [Severity -> Nat]]
    BY <1>2
  <2>3. DOMAIN tx = {} /\ DOMAIN job = {} /\ DOMAIN evidence = {}
    BY DEF NoEntry
  <2>4. tx \in [DOMAIN tx -> TxRow]
    BY <2>3 DEF NoEntry
  <2> QED BY <1>3, <2>1, <2>2, <2>3, <2>4 DEF TypeOK
<1>5. RowsPast /\ VerdictsStrong
  BY DEF RowsPast, VerdictsStrong, NoEntry
<1>6. CountersCover
  BY <1>2 DEF CountersCover
<1> QED BY <1>4, <1>5, <1>6 DEF LedgerInv

\* The types, the ages of the rows and the strength of what is written are
\* preserved by every step.
LEMMA LedgerType ==
  LedgerInv /\ [Next]_vars => TypeOK' /\ RowsPast' /\ VerdictsStrong'
<1> SUFFICES ASSUME LedgerInv, [Next]_vars
             PROVE  TypeOK' /\ RowsPast' /\ VerdictsStrong'
  OBVIOUS
<1>a. TypeOK /\ RowsPast /\ VerdictsStrong
  BY DEF LedgerInv
<1> DEFINE Goal == TypeOK /\ RowsPast /\ VerdictsStrong
<1> USE ConstantsOk DEF world, metrics, rollup, IsJob
<1>1. CASE Tick
  <2>1. TypeOK' /\ VerdictsStrong'
    BY <1>1, <1>a DEF Tick, TypeOK, VerdictsStrong, IsJob
  <2>2. /\ now \in Nat /\ now' = now + 1
        /\ \A i \in DOMAIN rows : rows[i].at \in Int
        /\ \A w \in DOMAIN tx : tx[w].began \in Int
    BY <1>1, <1>a DEF Tick, TypeOK, AlertRow, TxRow
  <2>3. RowsPast'
    BY <1>1, <1>a, <2>2 DEF Tick, RowsPast
  <2> QED BY <2>1, <2>3
<1>2. ASSUME NEW m \in Market, NewBucket(m) PROVE Goal'
  BY <1>2, <1>a DEF NewBucket, TypeOK, RowsPast, VerdictsStrong
<1>3. ASSUME NEW w \in Writer, NEW m \in Market, NEW verdict \in Severity,
             ReadExisting(w, m, verdict)
      PROVE  Goal'
  <2>1. Latest(m) \in Nat /\ SeverityOf(Latest(m)) \in Severity
    BY <1>a, LatestType
  <2>2. PICK p \in {"undecided", "delete", "update"} :
          /\ p # "delete" => verdict # Low
          /\ tx' = Put(tx, w,
               [market |-> m, began |-> now, verdict |-> verdict, key |-> quote[m],
                loaded |-> Latest(m), seen |-> SeverityOf(Latest(m)), plan |-> p])
    BY <1>3 DEF ReadExisting
  <2>3. UNCHANGED <<world, rows, nextId, metrics, job, rollup, cleared>>
    BY <1>3 DEF ReadExisting
  <2>4. DOMAIN tx' \subseteq Writer /\ tx' \in [DOMAIN tx' -> TxRow]
    BY <2>1, <2>2, <1>a DEF Put, TypeOK, TxRow
  <2>5. RowsPast' /\ VerdictsStrong'
    BY <2>2, <2>3, <1>a DEF RowsPast, VerdictsStrong, Put, TypeOK
  <2> QED BY <2>3, <2>4, <2>5, <1>a DEF TypeOK
<1>4. ASSUME NEW w \in Writer, ReadLatest(w) PROVE Goal'
  <2> DEFINE m == tx[w].market
  <2>1. Latest(m) \in Nat /\ SeverityOf(Latest(m)) \in Severity
    BY <1>a, LatestType
  <2>2. PICK l \in Nat, s \in Severity, p \in {"create", "compact"} :
          tx' = [tx EXCEPT ![w] =
                   [[[tx[w] EXCEPT !.plan = p] EXCEPT !.loaded = l] EXCEPT !.seen = s]]
    BY <1>4, <1>a, <2>1 DEF ReadLatest, TypeOK, TxRow, Severity
  <2>3. /\ w \in DOMAIN tx /\ tx[w] \in TxRow /\ tx[w].verdict # Low
        /\ UNCHANGED <<world, rows, nextId, metrics, job, rollup, cleared>>
    BY <1>4, <1>a DEF ReadLatest, TypeOK, VerdictsStrong
  <2>4. DOMAIN tx' = DOMAIN tx /\ tx' \in [DOMAIN tx' -> TxRow]
    BY <2>2, <2>3, <1>a DEF TypeOK, TxRow
  <2>5. RowsPast' /\ VerdictsStrong'
    BY <2>2, <2>3, <1>a DEF RowsPast, VerdictsStrong, TxRow
  <2> QED BY <2>3, <2>4, <2>5, <1>a DEF TypeOK
<1>5. ASSUME NEW w \in Writer, ClearAlert(w) PROVE Goal'
  BY <1>5, <1>a
     DEF ClearAlert, Commit, Without, TypeOK, TxRow, RowsPast, VerdictsStrong
<1>6. ASSUME NEW w \in Writer, UpdateAlert(w) PROVE Goal'
  <2>1. /\ tx[w] \in TxRow /\ tx[w].verdict \in Severity \ {Low}
        /\ tx[w].loaded \in DOMAIN rows
    BY <1>6, <1>a DEF UpdateAlert, TypeOK, TxRow, VerdictsStrong
  <2>2. PICK s \in {rows[tx[w].loaded].severity, tx[w].verdict} :
          rows' = [rows EXCEPT ![tx[w].loaded] =
                     [[rows[tx[w].loaded] EXCEPT !.severity = s] EXCEPT !.key = tx[w].key]]
    BY <1>6, <1>a, <2>1 DEF UpdateAlert, TypeOK, AlertRow
  <2>3. /\ tx' = Without(tx, {w})
        /\ UNCHANGED <<world, nextId, metrics, job, rollup, cleared>>
    BY <1>6 DEF UpdateAlert, Commit
  <2>4. /\ DOMAIN rows' = DOMAIN rows /\ rows' \in [DOMAIN rows' -> AlertRow]
        /\ \A i \in DOMAIN rows : rows'[i].at = rows[i].at
        /\ \A i \in DOMAIN rows : rows'[i].severity = Low => i \in DOMAIN Legacy
    <3> DEFINE i0 == tx[w].loaded
    <3>1. /\ rows'[i0] \in AlertRow /\ rows'[i0].at = rows[i0].at
          /\ rows'[i0].severity = Low => rows[i0].severity = Low
      <4>1. rows[i0] \in AlertRow /\ tx[w].key \in Nat /\ s \in Severity
        BY <2>1, <1>a DEF TypeOK, TxRow, AlertRow
      <4>2. rows'[i0] = [[rows[i0] EXCEPT !.severity = s] EXCEPT !.key = tx[w].key]
        BY <2>1, <2>2
      <4>3. s = Low => rows[i0].severity = Low
        BY <2>1
      <4> QED BY <4>1, <4>2, <4>3 DEF AlertRow
    <3>2. \A i \in DOMAIN rows \ {i0} : rows'[i] = rows[i]
      BY <2>2, <1>a DEF TypeOK
    <3>3. DOMAIN rows' = DOMAIN rows /\ rows' = [i \in DOMAIN rows |-> rows'[i]]
      BY <2>2, <1>a DEF TypeOK
    <3>4. /\ i0 \in DOMAIN rows
          /\ \A i \in DOMAIN rows : rows[i] \in AlertRow
          /\ \A i \in DOMAIN rows : rows[i].severity = Low => i \in DOMAIN Legacy
      BY <2>1, <1>a DEF TypeOK
    <3> HIDE DEF i0
    <3>5. \A i \in DOMAIN rows : rows'[i] \in AlertRow
      BY <3>1, <3>2, <3>4
    <3>6. \A i \in DOMAIN rows : rows'[i].at = rows[i].at
      BY <3>1, <3>2
    <3>7. \A i \in DOMAIN rows : rows'[i].severity = Low => i \in DOMAIN Legacy
      BY <3>1, <3>2, <3>4
    <3> QED BY <3>3, <3>5, <3>6, <3>7
  <2> QED BY <2>3, <2>4, <1>a DEF TypeOK, RowsPast, VerdictsStrong, Without
<1>7. ASSUME NEW w \in Writer, CreateAlert(w) PROVE Goal'
  <2>1. tx[w] \in TxRow /\ tx[w].verdict \in Severity \ {Low} /\ tx[w].began <= now
    BY <1>7, <1>a DEF CreateAlert, TypeOK, TxRow, VerdictsStrong, RowsPast
  <2>2. /\ rows' = Put(rows, nextId, [market |-> tx[w].market, at |-> tx[w].began,
                                      severity |-> tx[w].verdict, key |-> tx[w].key])
        /\ nextId' = nextId + 1 /\ tx' = Without(tx, {w})
        /\ UNCHANGED <<world, job, rollup, cleared>>
    BY <1>7 DEF CreateAlert, Commit
  <2>3. count' \in [Market -> Nat] /\ high' \in [Market -> Nat]
    BY <1>7, <1>a, <2>1 DEF CreateAlert, TypeOK, TxRow
  <2>4. rows' \in [DOMAIN rows' -> AlertRow]
    BY <2>1, <2>2, <1>a DEF TypeOK, Put, AlertRow, TxRow
  <2>5. /\ DOMAIN rows' \subseteq 1..(nextId' - 1)
        /\ \A i \in DOMAIN rows' : rows'[i].severity = Low => i \in DOMAIN Legacy
    BY <2>1, <2>2, <1>a DEF TypeOK, Put
  <2>6. TypeOK'
    <3>1. \A r \in DOMAIN job : IsJob(job[r])'
      BY <2>2, <1>a DEF TypeOK, IsJob
    <3>2. DOMAIN tx' \subseteq Writer /\ tx' \in [DOMAIN tx' -> TxRow]
      BY <2>2, <1>a DEF TypeOK, Without
    <3>3. nextId' \in Nat \ {0} /\ DOMAIN evidence' \subseteq 1..(nextId' - 1)
      BY <2>2, <1>a DEF TypeOK
    <3> QED BY <2>2, <2>3, <2>4, <2>5, <3>1, <3>2, <3>3, <1>a DEF TypeOK
  <2> QED BY <2>1, <2>2, <2>6, <1>a DEF RowsPast, VerdictsStrong, Put, Without, TypeOK
<1>8. ASSUME NEW w \in Writer, Rollback(w) PROVE Goal'
  BY <1>8, <1>a DEF Rollback, Without, TypeOK, RowsPast, VerdictsStrong
<1>9. ASSUME NEW r \in Retainer, StartRun(r) PROVE Goal'
  <2>1. UNCHANGED <<world, rows, nextId, metrics, tx, rollup, cleared>>
    BY <1>9 DEF StartRun
  <2>2. PICK j : /\ j = [cutoff |-> now - CutoffAge, batch |-> 1,
                         stage |-> "choose", victims |-> NoEntry]
                 /\ job' = Put(job, r, j)
    BY <1>9 DEF StartRun
  <2>3. DOMAIN job' = DOMAIN job \cup {r}
        /\ \A q \in DOMAIN job' : job'[q] = j \/ (q \in DOMAIN job /\ job'[q] = job[q])
    BY <2>2 DEF Put
  <2>4. /\ DOMAIN j = {"cutoff", "batch", "stage", "victims"} /\ DOMAIN j.victims = {}
        /\ j.cutoff = now - CutoffAge /\ j.batch = 1 /\ j.stage = "choose"
    BY <2>2 DEF NoEntry
  <2>5. now - CutoffAge \in Int
    BY <1>a DEF TypeOK
  <2>6. \A q \in DOMAIN job' : IsJob(job[q])'
    BY <2>1, <2>3, <2>4, <2>5, <1>a DEF TypeOK
  <2> QED BY <2>1, <2>3, <2>6, <1>a DEF TypeOK, RowsPast, VerdictsStrong
<1>10. ASSUME NEW r \in Retainer, ChooseVictims(r) PROVE Goal'
  <2>1. PICK S \in SUBSET DOMAIN rows :
          job' = [job EXCEPT ![r].stage = "apply", ![r].victims = [i \in S |-> rows[i]]]
    BY <1>10 DEF ChooseVictims, Candidates
  <2>2. r \in DOMAIN job
        /\ UNCHANGED <<world, rows, nextId, metrics, tx, rollup, cleared>>
    BY <1>10 DEF ChooseVictims
  <2>3. DOMAIN job' = DOMAIN job /\ \A q \in DOMAIN job \ {r} : job'[q] = job[q]
    BY <2>1
  <2>4. /\ job'[r].cutoff = job[r].cutoff /\ job'[r].batch = job[r].batch
        /\ job'[r].stage = "apply" /\ job'[r].victims = [i \in S |-> rows[i]]
        /\ DOMAIN job'[r] = DOMAIN job[r]
    BY <2>1, <2>2, <1>a DEF TypeOK, IsJob
  <2>5. IsJob(job[r])'
    <3>1. IsJob(job[r]) /\ UNCHANGED nextId
      BY <2>2, <1>a DEF TypeOK
    <3>2. \A i \in S : i \in 1..(nextId - 1) /\ rows[i] \in AlertRow
      BY <1>a DEF TypeOK
    <3> QED BY <2>4, <3>1, <3>2
  <2>6. \A q \in DOMAIN job' : IsJob(job[q])'
    BY <2>2, <2>3, <2>5, <1>a DEF TypeOK, IsJob
  <2> QED BY <2>2, <2>3, <2>6, <1>a DEF TypeOK, RowsPast, VerdictsStrong
<1>11. ASSUME NEW r \in Retainer, RollUp(r) PROVE Goal'
  <2> DEFINE victims == job[r].victims
             VictimsOf(m, s) ==
               {i \in DOMAIN victims : victims[i].market = m /\ victims[i].severity = s}
             Strong == {j \in DOMAIN victims : victims[j].severity # Low}
  <2>1. /\ r \in DOMAIN job /\ DOMAIN victims \subseteq 1..(nextId - 1)
        /\ UNCHANGED <<world, nextId, high, tx, cleared>>
        /\ rows' = Without(rows, DOMAIN victims)
    BY <1>11, <1>a DEF RollUp, TypeOK
  <2>2. DOMAIN evidence' = DOMAIN evidence \cup Strong
    BY <1>11 DEF RollUp
  <2>3. summary' \in [Market -> [Severity -> Nat]]
    <3>1. \A m \in Market, s \in Severity : Cardinality(VictimsOf(m, s)) \in Nat
      BY <1>a, <2>1, Finite
    <3>2. summary' = [m \in Market |-> [s \in Severity |->
                        summary[m][s] + Cardinality(VictimsOf(m, s))]]
      BY <1>11 DEF RollUp
    <3> HIDE DEF VictimsOf
    <3> QED BY <3>1, <3>2, <1>a DEF TypeOK
  <2>4. count' \in [Market -> Nat] /\ pruned' \in [Market -> Nat]
    <3>1. \A m \in Market : Cardinality(Deleted(victims, m)) \in Nat
      BY <1>a, <2>1, Finite DEF Deleted
    <3> QED BY <3>1, <1>11, <1>a DEF RollUp, TypeOK, Greatest
  <2>5. /\ DOMAIN job' \subseteq DOMAIN job
        /\ \A q \in DOMAIN job' :
             \/ job'[q] = job[q]
             \/ q = r /\ job'[q] = [[[job[r] EXCEPT !.stage = "choose"]
                                     EXCEPT !.batch = job[r].batch + 1]
                                     EXCEPT !.victims = NoEntry]
    BY <1>11, <2>1 DEF RollUp, NextBatch, Without
  <2>6. \A q \in DOMAIN job' : IsJob(job[q])'
    <3> SUFFICES ASSUME NEW q \in DOMAIN job' PROVE IsJob(job[q])'
      OBVIOUS
    <3>1. IsJob(job[q]) /\ IsJob(job[r])
      BY <2>1, <2>5, <1>a DEF TypeOK
    <3>2. CASE job'[q] = job[q]
      BY <3>1, <3>2, <2>1
    <3>3. CASE job'[q] # job[q]
      <4>1. job'[q] = [[[job[r] EXCEPT !.stage = "choose"]
                        EXCEPT !.batch = job[r].batch + 1] EXCEPT !.victims = NoEntry]
        BY <3>3, <2>5
      <4>2. /\ DOMAIN job'[q] = DOMAIN job[r] /\ job'[q].stage = "choose"
            /\ job'[q].cutoff = job[r].cutoff /\ job'[q].batch = job[r].batch + 1
            /\ DOMAIN job'[q].victims = {}
        BY <4>1, <3>1 DEF NoEntry
      <4> QED BY <4>2, <3>1
    <3> QED BY <3>2, <3>3
  <2>7. /\ DOMAIN rows' \subseteq DOMAIN rows
        /\ \A i \in DOMAIN rows' : rows'[i] = rows[i]
        /\ rows' = [i \in DOMAIN rows' |-> rows'[i]]
    BY <2>1 DEF Without
  <2>8. rows' \in [DOMAIN rows' -> AlertRow]
    BY <2>7, <1>a DEF TypeOK
  <2>9. TypeOK'
    BY <2>1, <2>2, <2>3, <2>4, <2>5, <2>6, <2>7, <2>8, <1>a DEF TypeOK
  <2> QED BY <2>1, <2>7, <2>9, <1>a DEF RowsPast, VerdictsStrong
<1>12. ASSUME NEW r \in Retainer, FailRun(r) PROVE Goal'
  BY <1>12, <1>a DEF FailRun, Without, TypeOK, RowsPast, VerdictsStrong
<1>13. CASE UNCHANGED vars
  BY <1>13, <1>a DEF vars, TypeOK, RowsPast, VerdictsStrong
<1> QED BY <1>1, <1>2, <1>3, <1>4, <1>5, <1>6, <1>7, <1>8, <1>9, <1>10, <1>11,
           <1>12, <1>13
        DEF Next, Materialize, Retain

-----------------------------------------------------------------------------
(* The counters.                                                           *)

\* A step that only stores rows over others leaves the counters a cover.
LEMMA SameRows ==
  ASSUME CountersCover, DOMAIN rows' = DOMAIN rows, UNCHANGED metrics,
         \A i \in DOMAIN rows : rows'[i].market = rows[i].market
  PROVE  CountersCover'
<1>1. \A m \in Market : RowsOf(m)' = RowsOf(m)
  BY DEF RowsOf
<1> QED BY <1>1 DEF CountersCover, metrics

\* The counters cover the rows after every step.
LEMMA LedgerCover == LedgerInv /\ [Next]_vars => CountersCover'
<1> SUFFICES ASSUME LedgerInv, [Next]_vars PROVE CountersCover'
  OBVIOUS
<1>a. TypeOK /\ RowsPast /\ VerdictsStrong /\ CountersCover
  BY DEF LedgerInv
<1>1. ASSUME UNCHANGED <<rows, metrics>> PROVE CountersCover'
  BY <1>1, <1>a, SameRows
<1>2. ASSUME NEW w \in Writer, ClearAlert(w) PROVE CountersCover'
  <2>1. \A m \in Market : RowsOf(m)' = RowsOf(m) \ {tx[w].loaded}
    BY <1>2 DEF ClearAlert, RowsOf, Without
  <2>2. ASSUME NEW m \in Market PROVE Cardinality(RowsOf(m)') <= count[m]
    <3>1. IsFiniteSet(RowsOf(m)) /\ Cardinality(RowsOf(m)) \in Nat
      BY <1>a, Finite DEF RowsOf
    <3>2. /\ Cardinality(RowsOf(m)') <= Cardinality(RowsOf(m))
          /\ Cardinality(RowsOf(m)') \in Nat
      <4>1. RowsOf(m)' \in SUBSET RowsOf(m)
        BY <2>1
      <4> QED BY <3>1, <4>1, FS_Subset, FS_CardinalityType
    <3>3. count[m] \in Nat /\ Cardinality(RowsOf(m)) <= count[m]
      BY <1>a DEF TypeOK, CountersCover
    <3> QED BY <3>1, <3>2, <3>3
  <2> QED BY <1>2, <2>2, <1>a DEF ClearAlert, CountersCover, metrics
<1>3. ASSUME NEW w \in Writer, UpdateAlert(w) PROVE CountersCover'
  <2>1. /\ tx[w].loaded \in DOMAIN rows /\ UNCHANGED metrics
        /\ rows[tx[w].loaded] \in AlertRow
    BY <1>3, <1>a DEF UpdateAlert, TypeOK
  <2>2. DOMAIN rows' = DOMAIN rows
    BY <1>3 DEF UpdateAlert
  <2>3. \A i \in DOMAIN rows : rows'[i].market = rows[i].market
    BY <1>3, <2>1 DEF UpdateAlert, AlertRow
  <2> QED BY <1>a, <2>1, <2>2, <2>3, SameRows
<1>4. ASSUME NEW w \in Writer, CreateAlert(w) PROVE CountersCover'
  <2> DEFINE mk == tx[w].market
  <2>1. /\ mk \in Market /\ nextId \notin DOMAIN rows
        /\ high \in [Market -> Nat] /\ count \in [Market -> Nat]
    BY <1>4, <1>a DEF CreateAlert, TypeOK, TxRow
  <2>2. \A m \in Market : RowsOf(m)' = IF m = mk THEN RowsOf(m) \cup {nextId}
                                                 ELSE RowsOf(m)
    BY <1>4, <2>1 DEF CreateAlert, RowsOf, Put
  <2>3. \A m \in Market : count'[m] = IF m = mk THEN count[m] + 1 ELSE count[m]
    BY <1>4, <2>1 DEF CreateAlert
  <2>4. \A m \in Market : high'[m] \in {high[m]} \cup
                            (IF m = mk THEN {high[m] + 1} ELSE {})
    BY <1>4, <2>1 DEF CreateAlert
  <2>5. ASSUME NEW m \in Market
        PROVE  high'[m] <= count'[m] /\ Cardinality(RowsOf(m)') <= count'[m]
    <3>1. IsFiniteSet(RowsOf(m)) /\ Cardinality(RowsOf(m)) \in Nat
      BY <1>a, Finite DEF RowsOf
    <3>2. Cardinality(RowsOf(m)') =
            IF m = mk THEN Cardinality(RowsOf(m)) + 1 ELSE Cardinality(RowsOf(m))
      <4>1. nextId \notin RowsOf(m)
        BY <2>1 DEF RowsOf
      <4> QED BY <2>2, <3>1, <4>1, FS_AddElement
    <3>3. high[m] <= count[m] /\ Cardinality(RowsOf(m)) <= count[m]
      BY <1>a DEF CountersCover
    <3>4. high[m] \in Nat /\ count[m] \in Nat
      BY <2>1
    <3> QED BY <2>3, <2>4, <3>1, <3>2, <3>3, <3>4
  <2> QED BY <2>5 DEF CountersCover
<1>5. ASSUME NEW r \in Retainer, RollUp(r) PROVE CountersCover'
  <2> DEFINE victims == job[r].victims
  <2>1. /\ UNCHANGED high /\ high \in [Market -> Nat] /\ count \in [Market -> Nat]
        /\ \A m \in Market : RowsOf(m)' = RowsOf(m) \ DOMAIN victims
    BY <1>5, <1>a DEF RollUp, RowsOf, Without, TypeOK
  <2>2. ASSUME NEW m \in Market
        PROVE  high[m] <= count'[m] /\ Cardinality(RowsOf(m)') <= count'[m]
    <3> DEFINE D == Deleted(victims, m)
               all == Cardinality(RowsOf(m))
               gone == Cardinality(D)
    <3>1. IsFiniteSet(RowsOf(m)) /\ all \in Nat
      BY <1>a, Finite DEF RowsOf
    <3>2. D = RowsOf(m) \cap DOMAIN victims
      BY DEF Deleted
    <3>3. gone \in Nat /\ Cardinality(RowsOf(m)') = all - gone
      <4>1. IsFiniteSet(D)
        BY <3>1, <3>2, FS_Intersection
      <4>2. gone \in Nat
        BY <4>1, FS_CardinalityType
      <4>3. Cardinality(RowsOf(m) \ DOMAIN victims) = all - gone
        BY <3>1, <3>2, FS_Difference
      <4> QED BY <2>1, <4>2, <4>3
    <3>4. count'[m] = IF gone = 0 THEN count[m] ELSE Greatest(count[m] - gone, high[m])
      BY <1>5 DEF RollUp
    <3>5. high[m] <= count[m] /\ all <= count[m] /\ high[m] \in Nat /\ count[m] \in Nat
      BY <1>a, <2>1 DEF CountersCover
    <3> HIDE DEF D, all, gone
    <3> QED BY <3>1, <3>3, <3>4, <3>5 DEF Greatest
  <2> QED BY <2>1, <2>2 DEF CountersCover
<1> QED BY <1>1, <1>2, <1>3, <1>4, <1>5
        DEF Next, Materialize, Retain, vars, Tick, NewBucket, ReadExisting, ReadLatest,
            Rollback, StartRun, ChooseVictims, FailRun

-----------------------------------------------------------------------------
\* The invariant holds in every state.
THEOREM LedgerInvariant == Spec => []LedgerInv
<1>1. LedgerInv /\ [Next]_vars => LedgerInv'
  BY LedgerType, LedgerCover DEF LedgerInv
<1> QED BY LedgerInit, <1>1, PTL DEF Spec

\* Every variable has its type, ids are given out in order, and the score gate
\* keeps weak alerts out of the table, whoever writes it.
THEOREM LedgerTypes == Spec => []TypeOK
<1>1. LedgerInv => TypeOK
  BY DEF LedgerInv
<1> QED BY LedgerInvariant, <1>1, PTL

\* The counters of market_metrics never fall short of the rows of a market,
\* for any number of writers and of retention processes.
THEOREM CountersNeverShort == Spec => []CountersCover
<1>1. LedgerInv => CountersCover
  BY DEF LedgerInv
<1> QED BY LedgerInvariant, <1>1, PTL


-----------------------------------------------------------------------------
(* The summaries, with one retention process.                              *)

OneRetainer == \A q, r \in Retainer : q = r

\* The victims of market m that a run has chosen and that are gone: when the
\* run goes on they will be counted, but not deleted.
Missing(m) ==
  {i \in 1..(nextId - 1) \ DOMAIN rows : \E r \in DOMAIN job :
     i \in DOMAIN job[r].victims /\ job[r].victims[i].market = m}

SumOf(m) == summary[m][Low] + summary[m][Medium] + summary[m][High]

\* A row keeps its market, and the id of one that is gone is not used again.
OneMarket ==
  /\ \A w \in DOMAIN tx :
       /\ tx[w].loaded < nextId
       /\ tx[w].loaded \in DOMAIN rows => rows[tx[w].loaded].market = tx[w].market
  /\ \A r \in DOMAIN job : \A i \in DOMAIN job[r].victims \cap DOMAIN rows :
       rows[i].market = job[r].victims[i].market

EvidenceOfGone == DOMAIN evidence \cap DOMAIN rows = {}

\* The summaries hold what retention deleted, and of what writers deleted no
\* more than is not still waiting to be counted.
SummaryInv ==
  \A m \in Market : /\ pruned[m] <= SumOf(m)
                    /\ SumOf(m) + Cardinality(Missing(m)) <= pruned[m] + cleared[m]

RollInv == OneMarket /\ EvidenceOfGone /\ SummaryInv

\* The numbers of SummaryInv.
LEMMA SummaryNumbers ==
  ASSUME TypeOK, NEW m \in Market
  PROVE  /\ SumOf(m) \in Nat /\ pruned[m] \in Nat /\ cleared[m] \in Nat
         /\ IsFiniteSet(Missing(m)) /\ Cardinality(Missing(m)) \in Nat
<1>1. nextId - 1 \in Int
  BY DEF TypeOK
<1>2. IsFiniteSet(1..(nextId - 1))
  BY <1>1, FS_Interval
<1>3. Missing(m) \in SUBSET (1..(nextId - 1))
  BY DEF Missing
<1>4. IsFiniteSet(Missing(m)) /\ Cardinality(Missing(m)) \in Nat
  BY <1>2, <1>3, FS_Subset, FS_CardinalityType
<1>5. SumOf(m) \in Nat /\ pruned[m] \in Nat /\ cleared[m] \in Nat
  BY DEF TypeOK, SumOf, Severity, Low, Medium, High
<1> QED BY <1>4, <1>5

\* A step that counts nothing and loses no victim.
LEMMA SummaryStays ==
  ASSUME TypeOK, SummaryInv, UNCHANGED <<summary, pruned, cleared>>,
         \A m \in Market : Missing(m)' \subseteq Missing(m)
  PROVE  SummaryInv'
<1> SUFFICES ASSUME NEW m \in Market
             PROVE  /\ pruned'[m] <= SumOf(m)'
                    /\ SumOf(m)' + Cardinality(Missing(m)') <= pruned'[m] + cleared'[m]
  BY DEF SummaryInv
<1>1. /\ SumOf(m) \in Nat /\ pruned[m] \in Nat /\ cleared[m] \in Nat
      /\ IsFiniteSet(Missing(m)) /\ Cardinality(Missing(m)) \in Nat
  BY SummaryNumbers
<1>2. Cardinality(Missing(m)') <= Cardinality(Missing(m))
      /\ Cardinality(Missing(m)') \in Nat
  BY <1>1, FS_Subset, FS_CardinalityType
<1>3. SumOf(m)' = SumOf(m) /\ pruned' = pruned /\ cleared' = cleared
  BY DEF SumOf
<1>4. /\ pruned[m] <= SumOf(m)
      /\ SumOf(m) + Cardinality(Missing(m)) <= pruned[m] + cleared[m]
  BY DEF SummaryInv
<1> QED BY <1>1, <1>2, <1>3, <1>4

\* The initial state.
LEMMA RollInit == Init => RollInv
<1> SUFFICES ASSUME Init PROVE RollInv
  OBVIOUS
<1>1. DOMAIN tx = {} /\ DOMAIN job = {} /\ DOMAIN evidence = {}
  BY DEF Init, NoEntry
<1>2. \A m : Missing(m) = {}
  BY <1>1 DEF Missing
<1>3. \A m \in Market : SumOf(m) = 0 /\ pruned[m] = 0 /\ cleared[m] = 0
  BY DEF Init, SumOf, Severity, Low, Medium, High
<1>4. SummaryInv
  BY <1>2, <1>3, FS_EmptySet DEF SummaryInv
<1> QED BY <1>1, <1>4 DEF RollInv, OneMarket, EvidenceOfGone

\* A writer deletes a row: a victim that is not to be deleted any more.
LEMMA ClearRoll ==
  ASSUME TypeOK, RollInv, NEW w \in Writer, ClearAlert(w)
  PROVE  RollInv'
<1> DEFINE i0 == tx[w].loaded
           mk == tx[w].market
<1>1. /\ w \in DOMAIN tx /\ rows' = Without(rows, {i0}) /\ tx' = Without(tx, {w})
      /\ UNCHANGED <<nextId, job, evidence, summary, pruned>>
      /\ cleared' = IF i0 \in DOMAIN rows THEN [cleared EXCEPT ![mk] = @ + 1] ELSE cleared
  BY DEF ClearAlert, Commit, rollup
<1>2. /\ DOMAIN rows' = DOMAIN rows \ {i0}
      /\ \A i \in DOMAIN rows' : rows'[i] = rows[i]
      /\ \A v \in DOMAIN tx' : v \in DOMAIN tx /\ tx'[v] = tx[v]
  BY <1>1 DEF Without
<1>3. OneMarket'
  <2>0. OneMarket
    BY DEF RollInv
  <2> HIDE DEF i0
  <2>1. ASSUME NEW v \in DOMAIN tx'
        PROVE  /\ tx'[v].loaded < nextId'
               /\ tx'[v].loaded \in DOMAIN rows'
                    => rows'[tx'[v].loaded].market = tx'[v].market
    <3>1. v \in DOMAIN tx /\ tx'[v] = tx[v] /\ nextId' = nextId
      BY <1>1, <1>2
    <3> QED BY <2>0, <3>1, <1>2 DEF OneMarket
  <2>2. ASSUME NEW r \in DOMAIN job', NEW i \in DOMAIN job'[r].victims \cap DOMAIN rows'
        PROVE  rows'[i].market = job'[r].victims[i].market
    <3>1. job' = job
      BY <1>1
    <3>2. i \in DOMAIN rows /\ rows'[i] = rows[i]
      BY <1>2
    <3> QED BY <2>0, <3>1, <3>2 DEF OneMarket
  <2> QED BY <2>1, <2>2 DEF OneMarket
<1>4. EvidenceOfGone'
  BY <1>1, <1>2 DEF RollInv, EvidenceOfGone
<1>5. SummaryInv'
  <2>1. CASE i0 \notin DOMAIN rows
    <3>1. \A m \in Market : Missing(m)' \subseteq Missing(m)
      BY <1>1, <1>2, <2>1 DEF Missing
    <3> QED BY <1>1, <2>1, <3>1, SummaryStays DEF RollInv
  <2>2. CASE i0 \in DOMAIN rows
    <3>1. \A m \in Market : Missing(m)' \subseteq Missing(m) \union {i0}
      BY <1>1, <1>2 DEF Missing
    <3>2. \A m \in Market : m # mk => Missing(m)' \subseteq Missing(m)
      BY <1>1, <1>2, <2>2 DEF Missing, RollInv, OneMarket
    <3>3. i0 \notin UNION {Missing(m) : m \in Market}
      BY <2>2 DEF Missing
    <3> SUFFICES ASSUME NEW m \in Market
                 PROVE  /\ pruned'[m] <= SumOf(m)'
                        /\ SumOf(m)' + Cardinality(Missing(m)')
                             <= pruned'[m] + cleared'[m]
      BY DEF SummaryInv
    <3>4. /\ SumOf(m) \in Nat /\ pruned[m] \in Nat /\ cleared[m] \in Nat
          /\ IsFiniteSet(Missing(m)) /\ Cardinality(Missing(m)) \in Nat
      BY SummaryNumbers
    <3>5. /\ SumOf(m)' = SumOf(m) /\ pruned' = pruned
          /\ cleared'[m] = IF m = mk THEN cleared[m] + 1 ELSE cleared[m]
      BY <1>1, <2>2 DEF SumOf, TypeOK
    <3>6. /\ Cardinality(Missing(m) \union {i0}) = Cardinality(Missing(m)) + 1
          /\ IsFiniteSet(Missing(m) \union {i0})
      BY <3>3, <3>4, FS_AddElement
    <3>7. /\ Cardinality(Missing(m)') \in Nat
          /\ Cardinality(Missing(m)') <=
               Cardinality(Missing(m)) + (IF m = mk THEN 1 ELSE 0)
      <4>1. CASE m = mk
        <5>1. Missing(m)' \in SUBSET (Missing(m) \union {i0})
          BY <3>1
        <5>2. /\ Cardinality(Missing(m)') <= Cardinality(Missing(m) \union {i0})
              /\ IsFiniteSet(Missing(m)')
          BY <3>6, <5>1, FS_Subset
        <5> QED BY <4>1, <3>6, <5>2, FS_CardinalityType
      <4>2. CASE m # mk
        <5>1. Missing(m)' \in SUBSET Missing(m)
          BY <3>2, <4>2
        <5>2. /\ Cardinality(Missing(m)') <= Cardinality(Missing(m))
              /\ IsFiniteSet(Missing(m)')
          BY <3>4, <5>1, FS_Subset
        <5> QED BY <4>2, <3>4, <5>2, FS_CardinalityType
      <4> QED BY <4>1, <4>2
    <3>8. /\ pruned[m] <= SumOf(m)
          /\ SumOf(m) + Cardinality(Missing(m)) <= pruned[m] + cleared[m]
      BY DEF RollInv, SummaryInv
    <3> HIDE DEF mk, i0
    <3> QED BY <3>4, <3>5, <3>7, <3>8
  <2> QED BY <2>1, <2>2
<1> QED BY <1>3, <1>4, <1>5 DEF RollInv

\* The only run counts its victims: those that are left are deleted.
LEMMA RollUpRoll ==
  ASSUME OneRetainer, TypeOK, RollInv, NEW r \in Retainer, RollUp(r)
  PROVE  RollInv'
<1> DEFINE victims == job[r].victims
           VictimsOf(m, s) ==
             {i \in DOMAIN victims : victims[i].market = m /\ victims[i].severity = s}
           Of(m) == {i \in DOMAIN victims : victims[i].market = m}
<1>1. /\ r \in DOMAIN job /\ rows' = Without(rows, DOMAIN victims)
      /\ UNCHANGED <<nextId, tx, cleared>>
      /\ DOMAIN evidence' \subseteq DOMAIN evidence \union DOMAIN victims
      /\ summary' = [m \in Market |-> [s \in Severity |->
                       summary[m][s] + Cardinality(VictimsOf(m, s))]]
      /\ pruned' = [m \in Market |-> pruned[m] + Cardinality(Deleted(victims, m))]
      /\ NextBatch(r, DOMAIN victims \cap DOMAIN rows # {})
  BY DEF RollUp
<1>2. /\ DOMAIN rows' = DOMAIN rows \ DOMAIN victims
      /\ \A i \in DOMAIN rows' : rows'[i] = rows[i]
  BY <1>1 DEF Without
<1>3. \A q \in DOMAIN job' : DOMAIN job'[q].victims = {}
  <2>1. DOMAIN job \subseteq {r}
    BY DEF OneRetainer, TypeOK
  <2>2. DOMAIN job' \subseteq {r}
    BY <1>1, <2>1 DEF NextBatch, Without
  <2>3. r \in DOMAIN job' => job'[r].victims = NoEntry
    <3>1. DOMAIN job[r] = {"cutoff", "batch", "stage", "victims"}
      BY <1>1 DEF TypeOK, IsJob
    <3> QED BY <1>1, <3>1 DEF NextBatch, Without
  <2> QED BY <2>2, <2>3 DEF NoEntry
<1>4. OneMarket'
  BY <1>1, <1>2, <1>3 DEF RollInv, OneMarket
<1>5. EvidenceOfGone'
  BY <1>1, <1>2 DEF RollInv, EvidenceOfGone
<1>6. \A m \in Market : Missing(m)' = {}
  BY <1>3 DEF Missing
<1>7. ASSUME NEW m \in Market
      PROVE  /\ pruned'[m] <= SumOf(m)'
             /\ SumOf(m)' + Cardinality(Missing(m)') <= pruned'[m] + cleared'[m]
  <2> DEFINE D == Deleted(victims, m)
             A == VictimsOf(m, Low)
             B == VictimsOf(m, Medium)
             C == VictimsOf(m, High)
  <2>1. /\ SumOf(m) \in Nat /\ pruned[m] \in Nat /\ cleared[m] \in Nat
        /\ IsFiniteSet(Missing(m)) /\ Cardinality(Missing(m)) \in Nat
    BY SummaryNumbers
  <2>2. /\ DOMAIN victims \subseteq 1..(nextId - 1)
        /\ \A i \in DOMAIN victims : victims[i].severity \in {Low, Medium, High}
    BY <1>1 DEF TypeOK, IsJob, AlertRow, Severity
  <2>3. /\ Of(m) = (A \union B) \union C
        /\ A \cap B = {} /\ (A \union B) \cap C = {}
    BY <2>2 DEF Low, Medium, High
  <2>4. D \subseteq Of(m) /\ Of(m) \ D \subseteq Missing(m)
    <3>1. \A i \in DOMAIN victims \cap DOMAIN rows : rows[i].market = victims[i].market
      BY <1>1 DEF RollInv, OneMarket
    <3> QED BY <1>1, <2>2, <3>1 DEF Deleted, RowsOf, Missing
  <2>5. \A S \in SUBSET DOMAIN victims : IsFiniteSet(S) /\ Cardinality(S) \in Nat
    BY <1>1, Finite
  <2>6. /\ IsFiniteSet(A) /\ IsFiniteSet(B) /\ IsFiniteSet(C) /\ IsFiniteSet(A \union B)
        /\ Cardinality(A) \in Nat /\ Cardinality(B) \in Nat /\ Cardinality(C) \in Nat
        /\ IsFiniteSet(Of(m)) /\ Cardinality(Of(m)) \in Nat
    BY <2>5
  <2>7. IsFiniteSet(D) /\ Cardinality(D) \in Nat
    BY <2>4, <2>6, FS_Subset, FS_CardinalityType
  <2>8. /\ summary'[m][Low] = summary[m][Low] + Cardinality(A)
        /\ summary'[m][Medium] = summary[m][Medium] + Cardinality(B)
        /\ summary'[m][High] = summary[m][High] + Cardinality(C)
        /\ pruned'[m] = pruned[m] + Cardinality(D)
        /\ cleared'[m] = cleared[m]
    <3>1. Low \in Severity /\ Medium \in Severity /\ High \in Severity
      BY DEF Severity
    <3> HIDE DEF VictimsOf
    <3> QED BY <1>1, <3>1
  <2>9. /\ summary[m][Low] \in Nat /\ summary[m][Medium] \in Nat
        /\ summary[m][High] \in Nat
    BY DEF TypeOK, Severity
  <2>10. Cardinality(Missing(m)') = 0
    BY <1>6, FS_EmptySet
  <2> HIDE DEF A, B, C, D, Of
  <2>11. Cardinality(Of(m)) = Cardinality(A) + Cardinality(B) + Cardinality(C)
    <3>1. Cardinality(A \union B) = Cardinality(A) + Cardinality(B)
      <4>1. Cardinality(A \union B) = Cardinality(A) + Cardinality(B) - Cardinality(A \cap B)
        BY <2>6, FS_Union
      <4>2. Cardinality(A \cap B) = 0
        BY <2>3, FS_EmptySet
      <4> QED BY <2>6, <4>1, <4>2
    <3>2. Cardinality(Of(m)) = Cardinality(A \union B) + Cardinality(C)
      <4>1. Cardinality((A \union B) \union C)
              = Cardinality(A \union B) + Cardinality(C) - Cardinality((A \union B) \cap C)
        BY <2>6, FS_Union
      <4>2. Cardinality((A \union B) \cap C) = 0
        BY <2>3, FS_EmptySet
      <4>3. Cardinality(A \union B) \in Nat
        BY <2>6, <3>1
      <4> QED BY <2>3, <2>6, <4>1, <4>2, <4>3
    <3> QED BY <3>1, <3>2
  <2>12. /\ Cardinality(D) <= Cardinality(Of(m))
         /\ Cardinality(Of(m)) - Cardinality(D) <= Cardinality(Missing(m))
    <3>1. Cardinality(D) <= Cardinality(Of(m))
      BY <2>4, <2>6, FS_Subset
    <3>2. Cardinality(Of(m) \ D) <= Cardinality(Missing(m))
      BY <2>1, <2>4, FS_Subset
    <3>3. Cardinality(Of(m) \ D) = Cardinality(Of(m)) - Cardinality(Of(m) \cap D)
      BY <2>6, FS_Difference
    <3>4. Of(m) \cap D = D
      BY <2>4
    <3> QED BY <3>1, <3>2, <3>3, <3>4
  <2>13. /\ pruned[m] <= SumOf(m)
         /\ SumOf(m) + Cardinality(Missing(m)) <= pruned[m] + cleared[m]
    BY DEF RollInv, SummaryInv
  <2>14. SumOf(m)' = SumOf(m) + Cardinality(Of(m))
    BY <2>6, <2>8, <2>9, <2>11 DEF SumOf
  <2> QED BY <2>1, <2>6, <2>7, <2>8, <2>10, <2>12, <2>13, <2>14
<1> QED BY <1>4, <1>5, <1>7 DEF RollInv, SummaryInv


\* A run chooses rows that are there, and forgets no victim that is gone.
LEMMA ChooseRoll ==
  ASSUME TypeOK, RollInv, NEW r \in Retainer, ChooseVictims(r)
  PROVE  RollInv'
<1>1. PICK S \in SUBSET DOMAIN rows :
        job' = [job EXCEPT ![r].stage = "apply", ![r].victims = [i \in S |-> rows[i]]]
  BY DEF ChooseVictims, Candidates
<1>2. r \in DOMAIN job
      /\ UNCHANGED <<rows, nextId, tx, evidence, summary, pruned, cleared>>
  BY DEF ChooseVictims, rollup
<1>3. DOMAIN job' = DOMAIN job /\ \A q \in DOMAIN job \ {r} : job'[q] = job[q]
  BY <1>1
<1>4. job'[r].victims = [i \in S |-> rows[i]]
  BY <1>1, <1>2 DEF TypeOK, IsJob
<1>5. OneMarket'
  <2>1. ASSUME NEW q \in DOMAIN job', NEW i \in DOMAIN job'[q].victims \cap DOMAIN rows'
        PROVE  rows'[i].market = job'[q].victims[i].market
    <3>1. CASE q = r
      BY <1>2, <1>4, <2>1, <3>1
    <3>2. CASE q # r
      <4>1. q \in DOMAIN job /\ job'[q] = job[q]
        BY <1>3, <3>2
      <4> QED BY <1>2, <2>1, <4>1 DEF RollInv, OneMarket
    <3> QED BY <3>1, <3>2
  <2> QED BY <1>2, <2>1 DEF RollInv, OneMarket
<1>6. EvidenceOfGone'
  BY <1>2 DEF RollInv, EvidenceOfGone
<1>7. \A m \in Market : Missing(m)' \subseteq Missing(m)
  <2> SUFFICES ASSUME NEW m \in Market, NEW i \in Missing(m)'
               PROVE  i \in Missing(m)
    OBVIOUS
  <2>1. i \in 1..(nextId - 1) \ DOMAIN rows
    BY <1>2 DEF Missing
  <2>2. PICK q \in DOMAIN job' :
          i \in DOMAIN job'[q].victims /\ job'[q].victims[i].market = m
    BY DEF Missing
  <2>3. q # r
    BY <1>4, <2>1, <2>2
  <2>4. q \in DOMAIN job /\ job'[q] = job[q]
    BY <1>3, <2>3
  <2> QED BY <2>1, <2>2, <2>4 DEF Missing
<1>8. SummaryInv'
  BY <1>2, <1>7, SummaryStays DEF RollInv
<1> QED BY <1>5, <1>6, <1>8 DEF RollInv

\* A new alert has a new id, and is no victim of a run.
LEMMA CreateRoll ==
  ASSUME TypeOK, RollInv, NEW w \in Writer, CreateAlert(w)
  PROVE  RollInv'
<1>1. /\ DOMAIN rows' = DOMAIN rows \union {nextId} /\ nextId' = nextId + 1
      /\ tx' = Without(tx, {w})
      /\ UNCHANGED <<job, evidence, summary, pruned, cleared>>
  BY DEF CreateAlert, Commit, Put, rollup
<1>2. \A i \in DOMAIN rows : rows'[i] = rows[i]
  BY DEF CreateAlert, Put, TypeOK
<1>3. /\ nextId \in Nat \ {0}
      /\ \A q \in DOMAIN job : DOMAIN job[q].victims \subseteq 1..(nextId - 1)
      /\ DOMAIN evidence \subseteq 1..(nextId - 1)
      /\ \A v \in DOMAIN tx : tx[v].loaded \in Nat
  BY DEF TypeOK, IsJob, TxRow
<1>4. OneMarket /\ EvidenceOfGone
  BY DEF RollInv
<1>5. OneMarket'
  <2>1. ASSUME NEW v \in DOMAIN tx'
        PROVE  /\ tx'[v].loaded < nextId'
               /\ tx'[v].loaded \in DOMAIN rows'
                    => rows'[tx'[v].loaded].market = tx'[v].market
    <3>1. v \in DOMAIN tx /\ tx'[v] = tx[v]
      BY <1>1 DEF Without
    <3>2. tx[v].loaded < nextId /\ tx[v].loaded \in Nat
      BY <1>3, <1>4, <3>1 DEF OneMarket
    <3> QED BY <1>1, <1>2, <1>3, <1>4, <3>1, <3>2 DEF OneMarket
  <2>2. ASSUME NEW q \in DOMAIN job', NEW i \in DOMAIN job'[q].victims \cap DOMAIN rows'
        PROVE  rows'[i].market = job'[q].victims[i].market
    <3>1. q \in DOMAIN job /\ job' = job
      BY <1>1
    <3>2. i \in DOMAIN rows /\ rows'[i] = rows[i]
      BY <1>1, <1>2, <1>3, <2>2, <3>1
    <3> QED BY <1>4, <2>2, <3>1, <3>2 DEF OneMarket
  <2> QED BY <2>1, <2>2 DEF OneMarket
<1>6. EvidenceOfGone'
  BY <1>1, <1>3, <1>4 DEF EvidenceOfGone
<1>7. \A m \in Market : Missing(m)' \subseteq Missing(m)
  BY <1>1, <1>3 DEF Missing
<1>8. SummaryInv'
  BY <1>1, <1>7, SummaryStays DEF RollInv
<1> QED BY <1>5, <1>6, <1>8 DEF RollInv

\* A writer loads a row of its market.
LEMMA LatestMarket ==
  ASSUME TypeOK, RowsPast, NEW m
  PROVE  /\ Latest(m) < nextId
         /\ Latest(m) \in DOMAIN rows => rows[Latest(m)].market = m
<1>1. CASE RowsOf(m) = {}
  <2>1. Latest(m) = 0
    BY <1>1 DEF Latest
  <2> QED BY <2>1 DEF TypeOK
<1>2. CASE RowsOf(m) # {}
  <2>1. Latest(m) \in RowsOf(m)
    BY <1>2, LatestExists
  <2>2. Latest(m) \in 1..(nextId - 1) /\ nextId \in Nat
    BY <2>1 DEF RowsOf, TypeOK
  <2> QED BY <2>1, <2>2 DEF RowsOf
<1> QED BY <1>1, <1>2

\* A step of writers that changes no row's market, and of the runs nothing.
LEMMA WriterRoll ==
  ASSUME TypeOK, RollInv, DOMAIN rows' = DOMAIN rows,
         \A i \in DOMAIN rows : rows'[i].market = rows[i].market,
         UNCHANGED <<nextId, job, evidence, summary, pruned, cleared>>,
         \A v \in DOMAIN tx' :
           \/ v \in DOMAIN tx /\ tx'[v] = tx[v]
           \/ /\ tx'[v].loaded < nextId
              /\ tx'[v].loaded \in DOMAIN rows
                   => rows[tx'[v].loaded].market = tx'[v].market
  PROVE  RollInv'
<1>1. OneMarket /\ EvidenceOfGone /\ SummaryInv
  BY DEF RollInv
<1>2. \A m : Missing(m)' = Missing(m)
  BY DEF Missing
<1>3. OneMarket'
  <2>1. ASSUME NEW v \in DOMAIN tx'
        PROVE  /\ tx'[v].loaded < nextId'
               /\ tx'[v].loaded \in DOMAIN rows'
                    => rows'[tx'[v].loaded].market = tx'[v].market
    BY <1>1 DEF OneMarket
  <2>2. ASSUME NEW q \in DOMAIN job', NEW i \in DOMAIN job'[q].victims \cap DOMAIN rows'
        PROVE  rows'[i].market = job'[q].victims[i].market
    BY <1>1 DEF OneMarket
  <2> QED BY <2>1, <2>2 DEF OneMarket
<1>4. EvidenceOfGone'
  BY <1>1 DEF EvidenceOfGone
<1>5. SummaryInv'
  BY <1>1, <1>2, SummaryStays
<1> QED BY <1>3, <1>4, <1>5 DEF RollInv

\* A run begins, or fails.
LEMMA RunRoll ==
  ASSUME TypeOK, RollInv, NEW r \in Retainer, StartRun(r) \/ FailRun(r)
  PROVE  RollInv'
<1>1. UNCHANGED <<rows, nextId, tx, evidence, summary, pruned, cleared>>
  BY DEF StartRun, FailRun, rollup
<1>2. \A q \in DOMAIN job' :
        \/ q \in DOMAIN job /\ job'[q] = job[q]
        \/ DOMAIN job'[q].victims = {}
  BY DEF StartRun, FailRun, Put, Without, NoEntry
<1>3. OneMarket /\ EvidenceOfGone /\ SummaryInv
  BY DEF RollInv
<1>4. OneMarket'
  <2>1. ASSUME NEW q \in DOMAIN job', NEW i \in DOMAIN job'[q].victims \cap DOMAIN rows'
        PROVE  rows'[i].market = job'[q].victims[i].market
    BY <1>1, <1>2, <1>3, <2>1 DEF OneMarket
  <2> QED BY <1>1, <1>3, <2>1 DEF OneMarket
<1>5. \A m \in Market : Missing(m)' \subseteq Missing(m)
  BY <1>1, <1>2 DEF Missing
<1> QED BY <1>1, <1>3, <1>4, <1>5, SummaryStays DEF RollInv, EvidenceOfGone

\* Every step keeps the summaries exact.
LEMMA RollKeeps ==
  ASSUME OneRetainer, LedgerInv, RollInv, [Next]_vars
  PROVE  RollInv'
<1>a. TypeOK /\ RowsPast
  BY DEF LedgerInv
<1>1. ASSUME UNCHANGED <<rows, nextId, tx, job, evidence, summary, pruned, cleared>>
      PROVE  RollInv'
  BY <1>1, <1>a, WriterRoll
<1>2. CASE Tick \/ (\E m \in Market : NewBucket(m)) \/ UNCHANGED vars
  BY <1>1, <1>2 DEF Tick, NewBucket, vars, rollup
<1>3. ASSUME NEW w \in Writer, NEW m \in Market, NEW verdict \in Severity,
             ReadExisting(w, m, verdict)
      PROVE  RollInv'
  <2>1. /\ UNCHANGED <<rows, nextId, job, evidence, summary, pruned, cleared>>
        /\ \A v \in DOMAIN tx' :
             \/ v \in DOMAIN tx /\ tx'[v] = tx[v]
             \/ tx'[v].loaded = Latest(m) /\ tx'[v].market = m
    BY <1>3 DEF ReadExisting, Put, rollup
  <2> QED BY <1>a, <2>1, LatestMarket, WriterRoll
<1>4. ASSUME NEW w \in Writer, ReadLatest(w) PROVE RollInv'
  <2>1. /\ UNCHANGED <<rows, nextId, job, evidence, summary, pruned, cleared>>
        /\ w \in DOMAIN tx /\ DOMAIN tx' = DOMAIN tx
        /\ \A v \in DOMAIN tx \ {w} : tx'[v] = tx[v]
    BY <1>4 DEF ReadLatest, rollup
  <2>2. /\ tx'[w].market = tx[w].market
        /\ tx'[w].loaded = 0 \/ tx'[w].loaded = Latest(tx[w].market)
    <3>1. tx[w] \in TxRow
      BY <1>a, <2>1 DEF TypeOK
    <3> QED BY <1>4, <2>1, <3>1 DEF ReadLatest, TxRow
  <2>3. 0 < nextId /\ 0 \notin DOMAIN rows
    BY <1>a DEF TypeOK
  <2> QED BY <1>a, <2>1, <2>2, <2>3, LatestMarket, WriterRoll
<1>5. ASSUME NEW w \in Writer, UpdateAlert(w) PROVE RollInv'
  <2>1. /\ tx[w].loaded \in DOMAIN rows /\ rows[tx[w].loaded] \in AlertRow
        /\ UNCHANGED <<nextId, job, evidence, summary, pruned, cleared>>
        /\ \A v \in DOMAIN tx' : v \in DOMAIN tx /\ tx'[v] = tx[v]
    BY <1>5, <1>a DEF UpdateAlert, TypeOK, Commit, Without, rollup
  <2>2. DOMAIN rows' = DOMAIN rows
        /\ \A i \in DOMAIN rows : rows'[i].market = rows[i].market
    BY <1>5, <2>1 DEF UpdateAlert, AlertRow
  <2> QED BY <1>a, <2>1, <2>2, WriterRoll
<1>6. ASSUME NEW w \in Writer, Rollback(w) PROVE RollInv'
  <2>1. /\ UNCHANGED <<rows, nextId, job, evidence, summary, pruned, cleared>>
        /\ \A v \in DOMAIN tx' : v \in DOMAIN tx /\ tx'[v] = tx[v]
    BY <1>6 DEF Rollback, Without, rollup
  <2> QED BY <1>a, <2>1, WriterRoll
<1>7. ASSUME NEW w \in Writer, ClearAlert(w) \/ CreateAlert(w) PROVE RollInv'
  BY <1>a, <1>7, ClearRoll, CreateRoll
<1>8. ASSUME NEW r \in Retainer, Retain(r) \/ FailRun(r) PROVE RollInv'
  BY <1>a, <1>8, ChooseRoll, RollUpRoll, RunRoll DEF Retain
<1> QED BY <1>2, <1>3, <1>4, <1>5, <1>6, <1>7, <1>8 DEF Next, Materialize

\* With one retention process an alert it deletes is in the summaries once,
\* whatever any number of writers do to it in the meantime.
THEOREM SummariesExact ==
  ASSUME OneRetainer
  PROVE  Spec => []RolledUpOnce
<1>1. LedgerInv /\ RollInv => RolledUpOnce
  <2> SUFFICES ASSUME LedgerInv, RollInv, NEW m \in Market
               PROVE  /\ pruned[m] <= SumOf(m) /\ SumOf(m) <= pruned[m] + cleared[m]
                      /\ DOMAIN evidence \cap RowsOf(m) = {}
    BY DEF RolledUpOnce, SumOf
  <2>1. /\ SumOf(m) \in Nat /\ pruned[m] \in Nat /\ cleared[m] \in Nat
        /\ Cardinality(Missing(m)) \in Nat
    BY SummaryNumbers DEF LedgerInv
  <2>2. /\ pruned[m] <= SumOf(m)
        /\ SumOf(m) + Cardinality(Missing(m)) <= pruned[m] + cleared[m]
    BY DEF RollInv, SummaryInv
  <2>3. DOMAIN evidence \cap RowsOf(m) = {}
    BY DEF RollInv, EvidenceOfGone, RowsOf
  <2> QED BY <2>1, <2>2, <2>3
<1>2. LedgerInv /\ RollInv /\ [Next]_vars => RollInv'
  BY RollKeeps
<1> QED BY <1>1, <1>2, RollInit, LedgerInvariant, PTL DEF Spec
=============================================================================
