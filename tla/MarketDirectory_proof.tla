----------------------- MODULE MarketDirectory_proof -----------------------
(***************************************************************************)
(* Metadata that was fetched stays, for any markets, verdicts, limits and  *)
(* batch sizes: proofs about MarketDirectory; and the functions it rests   *)
(* on: the classifier with its four layers (Classifier), and which prices  *)
(* an active list leaves out (QuoteEdges).                                 *)
(***************************************************************************)
EXTENDS MarketDirectory, Classifier, QuoteEdges, TLAPS

\* A row and its fields.
LEMMA RowFields ==
  ASSUME NEW r \in Row
  PROVE  /\ DOMAIN r = {"id", "status", "titled", "cat", "prior", "current"}
         /\ r.id \in 1 .. MaxRows /\ r.status \in Status /\ r.titled \in BOOLEAN
         /\ r.cat \in {v.cat : v \in Verdicts} /\ r.prior \in {v.prior : v \in Verdicts}
         /\ r.current \in BOOLEAN
         /\ r # NoRow
BY NoRowAssumption DEF Row

\* An UPDATE leaves a row, and sets each column to what was wanted or leaves
\* what another transaction has made of it.
LEMMA FlushRow ==
  ASSUME NEW db \in Row, NEW old \in Row, NEW new \in Row
  PROVE  /\ Flush(db, old, new) \in Row
         /\ Flush(db, old, new).titled \in {db.titled, new.titled}
         /\ new.titled = old.titled => Flush(db, old, new).titled = db.titled
<1> DEFINE r == Flush(db, old, new)
           Cols == {"id", "status", "titled", "cat", "prior", "current"}
<1>1. DOMAIN db = Cols
  BY RowFields
<1>2. r = [f \in Cols |-> IF new[f] = old[f] THEN db[f] ELSE new[f]]
  BY <1>1 DEF Flush
<1>3. /\ r.id \in {db.id, new.id} /\ r.status \in {db.status, new.status}
      /\ r.titled = (IF new.titled = old.titled THEN db.titled ELSE new.titled)
      /\ r.cat \in {db.cat, new.cat} /\ r.prior \in {db.prior, new.prior}
      /\ r.current \in {db.current, new.current}
  BY <1>2
<1>4. r = [id |-> r.id, status |-> r.status, titled |-> r.titled, cat |-> r.cat,
           prior |-> r.prior, current |-> r.current]
  BY <1>2
<1> HIDE DEF r
<1>5. r \in Row
  BY <1>3, <1>4, RowFields DEF Row
<1> QED BY <1>3, <1>5 DEF r

\* A stamp sets the verdict only.
LEMMA StampRow ==
  ASSUME NEW r \in Row, NEW v \in Verdicts
  PROVE  Stamp(r, v) \in Row /\ Stamp(r, v).titled = r.titled /\ Stamp(r, v).id = r.id
BY DEF Stamp, Row

\* What the poller wants of a row: only an item without a title takes one away.
LEMMA WantedRow ==
  ASSUME NEW old \in Row, NEW item \in Item
  PROVE  /\ Wanted(old, item) \in Row
         /\ Wanted(old, item).titled \in {item.titled, old.titled}
<1>1. /\ item.status \in Status /\ item.titled \in BOOLEAN /\ item.verdict \in Verdicts
      /\ "out_of_scope" \in Status
  BY DEF Item, Status
<1>2. \A status \in Status : /\ Filled(old, status, item) \in Row
                             /\ Filled(old, status, item).titled = item.titled
  BY <1>1 DEF Filled, Row
<1>3. \A r \in Row : Restamp(r, item) \in Row /\ Restamp(r, item).titled = r.titled
  BY <1>1, StampRow DEF Restamp
<1>4. \/ Wanted(old, item) = Restamp(Filled(old, item.status, item), item)
      \/ Wanted(old, item) = Stamp(Filled(old, "out_of_scope", item), item.verdict)
      \/ Wanted(old, item) = old
  BY DEF Wanted
<1>5. CASE Wanted(old, item) = Restamp(Filled(old, item.status, item), item)
  BY <1>1, <1>2, <1>3, <1>5
<1>6. CASE Wanted(old, item) = Stamp(Filled(old, "out_of_scope", item), item.verdict)
  BY <1>1, <1>2, <1>6, StampRow
<1>7. CASE Wanted(old, item) = old
  BY <1>7
<1> QED BY <1>4, <1>5, <1>6, <1>7

\* Stubs, created rows and reclassified ones are rows.
LEMMA MadeRows ==
  /\ \A m \in Market : \A n \in 1 .. MaxRows :
       Stub(m, n) \in Row /\ \A h \in BOOLEAN : Older(m, n, h) \in Row
  /\ \A item \in Item : \A n \in 1 .. MaxRows : Created(item, n) \in Row
  /\ TypeOK => \A m \in DOMAIN script : /\ Reclassified(m) \in Row
                                        /\ Reclassified(m).titled = script[m].titled
<1>1. \A m \in Market : ByTicker[m] \in Verdicts /\ ByTitle[m] \in Verdicts
  BY DirectoryAssumption
<1>2. ASSUME NEW m \in Market, NEW n \in 1 .. MaxRows
      PROVE  Stub(m, n) \in Row /\ \A h \in BOOLEAN : Older(m, n, h) \in Row
  <2>1. Stub(m, n) \in Row
    BY <1>1 DEF Stub, Row, Status
  <2>2. ASSUME NEW h \in BOOLEAN, NEW r \in Row
        PROVE  [r EXCEPT !.current = FALSE, !.titled = h,
                         !.status = IF h THEN "active" ELSE @] \in Row
    BY DEF Row, Status
  <2> QED BY <2>1, <2>2 DEF Older
<1>3. ASSUME NEW item \in Item, NEW n \in 1 .. MaxRows PROVE Created(item, n) \in Row
  BY DEF Created, Item, Row, Status
<1>4. ASSUME TypeOK, NEW m \in DOMAIN script
      PROVE  Reclassified(m) \in Row /\ Reclassified(m).titled = script[m].titled
  <2>1. script[m] \in Row /\ m \in Market
    BY <1>4 DEF TypeOK
  <2> QED BY <1>1, <2>1, StampRow DEF Reclassified
<1> QED BY <1>2, <1>3, <1>4

-----------------------------------------------------------------------------
(* Types.                                                                  *)

\* A market without a row has no trades either.
NoOrphans == \A m \in Market : row[m] = NoRow => tape[m] = 0

DirInv == TypeOK /\ NoOrphans

\* The types of the rows and of what hangs on them.
Rows ==
  /\ row \in [Market -> Row \cup {NoRow}] /\ born \in 0 .. MaxRows
  /\ tape \in [Market -> 0 .. MaxTape] /\ fresh \subseteq Market /\ NoOrphans

\* The types of the poller's variables.
Poller ==
  /\ phase \in {"sleep", "sweep", "hydrate", "refresh"} /\ todo \subseteq Market
  /\ DOMAIN batch \subseteq Market /\ DOMAIN loaded = DOMAIN batch
  /\ batch \in [DOMAIN batch -> Item]
  /\ loaded \in [DOMAIN batch -> Row \cup {NoRow}]

\* The types of the others.
Others ==
  /\ upstream \in [Market -> {"active", "finalized", "gone"}]
  /\ past \subseteq Timed
  /\ ws \in [m : Market, id : 0 .. MaxRows] \cup {Idle}
  /\ DOMAIN script \subseteq Market /\ script \in [DOMAIN script -> Row]
  /\ DOMAIN doomed \subseteq Market /\ doomed \in [DOMAIN doomed -> 1 .. MaxRows]
  /\ upsets \in 0 .. MaxUpset

\* The invariant, in the three parts that the steps touch.
LEMMA DirParts == DirInv <=> Rows /\ Poller /\ Others
BY DEF DirInv, TypeOK, Rows, Poller, Others

\* The initial state.
LEMMA DirInit == Init => DirInv
<1> SUFFICES ASSUME Init PROVE Rows /\ Poller /\ Others
  BY DirParts
<1>1. born \in 0 .. MaxRows /\ row \in [Market -> Row \cup {NoRow}]
  <2>1. PICK S \in SUBSET Known, n \in 0 .. MaxRows :
          /\ born = n
          /\ \E id \in Numbering(S, 1, n), hydrated \in SUBSET S :
               row = [m \in Market |-> IF m \in S THEN Older(m, id[m], m \in hydrated)
                                                  ELSE NoRow]
    BY DEF Init
  <2>2. PICK id \in Numbering(S, 1, n), hydrated \in SUBSET S :
          row = [m \in Market |-> IF m \in S THEN Older(m, id[m], m \in hydrated) ELSE NoRow]
    BY <2>1
  <2>3. ASSUME NEW m \in S, m \in Market PROVE Older(m, id[m], m \in hydrated) \in Row
    <3>1. id[m] \in 1 .. n
      BY <2>2, <2>3 DEF Numbering
    <3>2. id[m] \in 1 .. MaxRows /\ (m \in hydrated) \in BOOLEAN
      BY <2>1, <3>1, DirectoryAssumption
    <3> QED BY <2>3, <3>2, MadeRows
  <2> QED BY <2>1, <2>2, <2>3
<1>2. Rows
  BY <1>1, DirectoryAssumption DEF Init, Rows, NoOrphans
<1>3. Poller /\ Others
  BY DirectoryAssumption DEF Init, Poller, Others, Empty
<1> QED BY <1>2, <1>3

\* The handler's commit.
LEMMA WsCommitRows ==
  ASSUME DirInv, WsCommit
  PROVE  Rows'
<1> DEFINE m == ws.m
<1>1. ws \in [m : Market, id : 0 .. MaxRows] /\ Rows
  BY DirParts DEF WsCommit, Others
<1>2. m \in Market
  BY <1>1
<1>3. ASSUME NEW r \in Row, Reached(m, r), tape[m] < MaxTape, born' \in 0 .. MaxRows
      PROVE  Rows'
  <2>1. /\ row' = [row EXCEPT ![m] = r] /\ tape' = [tape EXCEPT ![m] = @ + 1]
        /\ fresh' \subseteq fresh \cup {m}
    BY <1>3 DEF Reached
  <2>2. row' \in [Market -> Row \cup {NoRow}] /\ tape' \in [Market -> 0 .. MaxTape]
    BY <1>1, <1>2, <1>3, <2>1, DirectoryAssumption DEF Rows
  <2>3. fresh' \subseteq Market
    BY <1>1, <1>2, <2>1 DEF Rows
  <2>4. r # NoRow
    BY RowFields
  <2>5. NoOrphans'
    BY <1>1, <1>2, <2>1, <2>4 DEF Rows, NoOrphans
  <2> QED BY <1>3, <2>2, <2>3, <2>5 DEF Rows
<1>4. CASE ws.id = 0 /\ row[m] = NoRow /\ born < MaxRows
           /\ born' = born + 1 /\ Reached(m, Stub(m, born + 1))
  <2>1. born + 1 \in 1 .. MaxRows /\ born' \in 0 .. MaxRows
    BY <1>1, <1>2, <1>4, DirectoryAssumption DEF Rows
  <2>2. Stub(m, born + 1) \in Row
    BY <1>2, <2>1, MadeRows
  <2>3. tape[m] < MaxTape
    BY <1>1, <1>2, <1>4, DirectoryAssumption DEF Rows, NoOrphans
  <2> QED BY <1>3, <1>4, <2>1, <2>2, <2>3
<1>5. CASE row[m] # NoRow /\ tape[m] < MaxTape /\ Reached(m, row[m]) /\ UNCHANGED born
  <2>1. row[m] \in Row /\ born' \in 0 .. MaxRows
    BY <1>1, <1>2, <1>5 DEF Rows
  <2> QED BY <1>3, <1>5, <2>1
<1>6. CASE UNCHANGED <<row, tape, fresh, born>>
  BY <1>1, <1>6 DEF Rows, NoOrphans
<1> QED BY <1>4, <1>5, <1>6 DEF WsCommit, Conflict, Still

\* What the rows are after a commit of the poller.
LEMMA IngestRow ==
  ASSUME DirInv, IngestCommit, NEW m \in Market
  PROVE  \/ row'[m] = row[m]
         \/ /\ row'[m] \in Row /\ m \in DOMAIN batch
            /\ row'[m].titled = batch[m].titled
         \/ /\ row[m] \in Row /\ m \in DOMAIN batch /\ loaded[m] \in Row
            /\ batch[m] \in Item
            /\ row'[m] = Flush(row[m], loaded[m], Wanted(loaded[m], batch[m]))
<1> DEFINE kept == {n \in Updated : Still(n, loaded[n].id)}
<1>1. PICK id \in Numbering(Inserted, born + 1, born') :
        row' = [n \in Market |-> IF n \in Inserted THEN Created(batch[n], id[n])
                                 ELSE IF n \in kept
                                   THEN Flush(row[n], loaded[n], Wanted(loaded[n], batch[n]))
                                   ELSE row[n]]
  BY DEF IngestCommit
<1>2. Rows /\ Poller
  BY DirParts
<1>3. CASE m \in Inserted
  <2>1. m \in DOMAIN batch /\ batch[m] \in Item
    BY <1>2, <1>3 DEF Inserted, Poller
  <2>2. id[m] \in 1 .. MaxRows
    <3>1. id[m] \in born + 1 .. born' /\ born \in 0 .. MaxRows /\ born' \in born .. MaxRows
      BY <1>1, <1>2, <1>3 DEF Numbering, IngestCommit, Rows
    <3> QED BY <3>1, DirectoryAssumption
  <2>3. Created(batch[m], id[m]) \in Row /\ Created(batch[m], id[m]).titled = batch[m].titled
    BY <2>1, <2>2, MadeRows DEF Created
  <2> QED BY <1>1, <1>3, <2>1, <2>3
<1>4. CASE m \notin Inserted /\ m \in kept
  <2>1. m \in DOMAIN batch /\ loaded[m] # NoRow /\ row[m] # NoRow
    BY <1>4 DEF Updated, Still
  <2>2. loaded[m] \in Row /\ row[m] \in Row /\ batch[m] \in Item
    BY <1>2, <2>1 DEF Poller, Rows
  <2> QED BY <1>1, <1>4, <2>1, <2>2
<1>5. CASE m \notin Inserted /\ m \notin kept
  BY <1>1, <1>5
<1> QED BY <1>3, <1>4, <1>5

\* The ingestor's commit keeps the rows as they should be.
LEMMA IngestRows ==
  ASSUME DirInv, IngestCommit
  PROVE  Rows'
<1>1. Rows /\ Poller
  BY DirParts
<1>2. ASSUME NEW m \in Market
      PROVE  row'[m] \in Row \cup {NoRow} /\ (row'[m] = NoRow => row[m] = NoRow)
  <2>1. CASE row'[m] = row[m]
    BY <1>1, <2>1 DEF Rows
  <2>2. CASE row'[m] \in Row
    BY <2>2, RowFields
  <2>3. CASE /\ row[m] \in Row /\ m \in DOMAIN batch /\ loaded[m] \in Row /\ batch[m] \in Item
             /\ row'[m] = Flush(row[m], loaded[m], Wanted(loaded[m], batch[m]))
    <3>1. Wanted(loaded[m], batch[m]) \in Row
      BY <2>3, WantedRow
    <3>2. row'[m] \in Row
      BY <2>3, <3>1, FlushRow
    <3> QED BY <3>2, RowFields
  <2> QED BY <2>1, <2>2, <2>3, IngestRow
<1>3. row' \in [Market -> Row \cup {NoRow}]
  <2>1. DOMAIN row' = Market /\ row' = [m \in Market |-> row'[m]]
    BY DEF IngestCommit
  <2> QED BY <1>2, <2>1
<1>4. born' \in 0 .. MaxRows
  BY <1>1, DirectoryAssumption DEF IngestCommit, Rows
<1>5. fresh' \subseteq Market /\ UNCHANGED tape
  <2>1. DOMAIN batch \subseteq Market
    BY <1>1 DEF Poller
  <2> QED BY <1>1, <2>1 DEF IngestCommit, Rows, Inserted, Updated
<1>6. NoOrphans'
  BY <1>1, <1>2, <1>5 DEF Rows, NoOrphans
<1> QED BY <1>1, <1>3, <1>4, <1>5, <1>6 DEF Rows

\* What the rows are after a commit of classify_markets.
LEMMA ClassifiedRow ==
  ASSUME DirInv, ClassifyCommit, NEW m \in Market
  PROVE  \/ row'[m] = row[m]
         \/ /\ m \in DOMAIN script /\ row[m] \in Row
            /\ script[m] \in Row /\ Reclassified(m) \in Row
            /\ Reclassified(m).titled = script[m].titled
            /\ row'[m] = Flush(row[m], script[m], Reclassified(m))
<1>1. CASE row' = row
  BY <1>1
<1>2. CASE row' # row
  <2>1. PICK S \in SUBSET DOMAIN script :
          row' = [n \in Market |-> IF n \in {k \in S : Still(k, script[k].id)}
                                    THEN Flush(row[n], script[n], Reclassified(n))
                                    ELSE row[n]]
    BY <1>2 DEF ClassifyCommit
  <2>2. CASE m \in S /\ Still(m, script[m].id)
    <3>1. m \in DOMAIN script /\ row[m] \in Row /\ script[m] \in Row
      BY <2>1, <2>2, DirParts DEF Still, Rows, Others
    <3>2. Reclassified(m) \in Row /\ Reclassified(m).titled = script[m].titled
      BY <3>1, MadeRows DEF DirInv
    <3> QED BY <2>1, <2>2, <3>1, <3>2
  <2>3. CASE ~(m \in S /\ Still(m, script[m].id))
    BY <2>1, <2>3
  <2> QED BY <2>2, <2>3
<1> QED BY <1>1, <1>2

\* The scripts.
LEMMA ScriptRows ==
  ASSUME DirInv, ClassifyCommit \/ PruneDelete \/ PruneScope
  PROVE  Rows'
<1>1. Rows /\ Others /\ TypeOK
  BY DirParts DEF DirInv
<1>2. ASSUME NEW S \in SUBSET Market, Gone(S), UNCHANGED born PROVE Rows'
  BY <1>1, <1>2, DirectoryAssumption DEF Gone, Rows, NoOrphans
<1>3. CASE PruneDelete
  <2>1. {m \in DOMAIN doomed : Still(m, doomed[m])} \in SUBSET Market
    BY <1>1 DEF Others
  <2> QED BY <1>2, <1>3, <2>1 DEF PruneDelete
<1>4. CASE PruneScope
  BY <1>2, <1>4 DEF PruneScope, Stored
<1>5. CASE ClassifyCommit
  <2>1. ASSUME NEW m \in Market
        PROVE  row'[m] \in Row \cup {NoRow} /\ (row'[m] = NoRow => row[m] = NoRow)
    <3>1. CASE row'[m] = row[m]
      BY <1>1, <3>1 DEF Rows
    <3>2. CASE /\ row[m] \in Row /\ script[m] \in Row /\ Reclassified(m) \in Row
               /\ row'[m] = Flush(row[m], script[m], Reclassified(m))
      <4>1. row'[m] \in Row
        BY <3>2, FlushRow
      <4> QED BY <4>1, RowFields
    <3> QED BY <1>5, <3>1, <3>2, ClassifiedRow
  <2>2. row' \in [Market -> Row \cup {NoRow}]
    <3>1. DOMAIN row' = Market /\ row' = [m \in Market |-> row'[m]]
      BY <1>1, <1>5 DEF ClassifyCommit, Rows
    <3> QED BY <2>1, <3>1
  <2>3. fresh' \subseteq Market /\ UNCHANGED <<born, tape>>
    BY <1>1, <1>5 DEF ClassifyCommit, Rows, Others
  <2> QED BY <1>1, <2>1, <2>2, <2>3 DEF Rows, NoOrphans
<1> QED BY <1>3, <1>4, <1>5


\* Every step keeps the types of the rows.
LEMMA RowsKeep ==
  ASSUME DirInv, [Next]_vars
  PROVE  Rows'
<1>1. Rows
  BY DirParts
<1>2. ASSUME UNCHANGED <<row, born, tape>>, fresh' \subseteq fresh PROVE Rows'
  BY <1>1, <1>2 DEF Rows, NoOrphans
<1>3. CASE WsCommit
  BY <1>3, WsCommitRows
<1>4. CASE PollerStep
  <2>1. CASE IngestCommit
    BY <2>1, IngestRows
  <2>2. CASE ~IngestCommit
    BY <1>2, <1>4, <2>2
       DEF PollerStep, StartCycle, SweepPage, StartHydrate, StartRefresh, EndCycle,
           NextPhase, Lookup, IngestFail
  <2> QED BY <2>1, <2>2
<1>5. CASE ClassifyCommit \/ PruneDelete \/ PruneScope
  BY <1>5, ScriptRows
<1>6. CASE (\E m \in Market : WsLookup(m)) \/ CallFails \/ ClassifyLoad \/ PruneSelect
  BY <1>2, <1>6 DEF WsLookup, CallFails, ClassifyLoad, PruneSelect
<1>7. CASE \E m \in Market : Finalize(m) \/ Vanish(m) \/ Close(m) \/ Age(m)
  BY <1>2, <1>7 DEF Finalize, Vanish, Close, Age, World
<1>8. CASE UNCHANGED vars
  BY <1>2, <1>8 DEF vars
<1> QED BY <1>3, <1>4, <1>5, <1>6, <1>7, <1>8 DEF Next

\* Every step keeps the types of the poller.
LEMMA PollerKeeps ==
  ASSUME DirInv, [Next]_vars
  PROVE  Poller'
<1>1. Poller /\ Rows /\ Others
  BY DirParts
<1>2. ASSUME UNCHANGED <<phase, todo, batch, loaded>> PROVE Poller'
  BY <1>1, <1>2 DEF Poller
<1>3. ASSUME Sleep \/ PutDown PROVE Poller'
  BY <1>1, <1>3 DEF Poller, Sleep, PutDown, Empty
<1>4. CASE StartCycle
  BY <1>1, <1>4 DEF StartCycle, Poller
<1>5. ASSUME NEW S \in SUBSET Market, Take(S), phase' = phase, todo' \subseteq todo,
             \A m \in S : upstream[m] # "gone"
      PROVE  Poller'
  <2>1. ASSUME NEW m \in S, NEW lacks, NEW blind PROVE Told(m, lacks, blind) \in Item
    <3>1. upstream[m] \in {"active", "finalized"} /\ ByTicker[m] \in Verdicts
          /\ ByItem[m] \in Verdicts
      BY <1>1, <1>5, <2>1, DirectoryAssumption DEF Others
    <3> QED BY <3>1 DEF Told, Item
  <2>2. PICK lacks \in [S -> IF upsets < MaxUpset THEN Gaps ELSE {{}}], blind \in BOOLEAN :
          batch' = [m \in S |-> Told(m, lacks[m], blind)]
    BY <1>5 DEF Take
  <2>3. DOMAIN batch' = S /\ batch' \in [S -> Item]
    BY <2>1, <2>2
  <2>4. DOMAIN loaded' = S /\ loaded' \in [S -> Row \cup {NoRow}]
    BY <1>1, <1>5 DEF Take, Rows
  <2> QED BY <1>1, <1>5, <2>3, <2>4 DEF Poller
<1>6. ASSUME NEW page \in SUBSET Market, SweepPage(page) PROVE Poller'
  <2> DEFINE S == {m \in page : upstream[m] = "active"}
  <2>1. S \in SUBSET Market /\ \A m \in S : upstream[m] # "gone"
    OBVIOUS
  <2>2. Take(S) /\ phase' = phase /\ todo' \subseteq todo
    BY <1>6 DEF SweepPage
  <2> HIDE DEF S
  <2> QED BY <1>5, <2>1, <2>2
<1>7. ASSUME NEW m \in Market, Lookup(m) PROVE Poller'
  <2>1. phase' = phase /\ todo' \subseteq todo
    BY <1>7 DEF Lookup
  <2>2. CASE upstream[m] # "gone" /\ Take({m})
    <3>1. {m} \in SUBSET Market /\ \A n \in {m} : upstream[n] # "gone"
      BY <2>2
    <3> QED BY <1>5, <2>1, <2>2, <3>1
  <2>3. CASE UNCHANGED <<batch, loaded>>
    BY <1>1, <2>1, <2>3 DEF Poller
  <2> QED BY <1>7, <2>2, <2>3 DEF Lookup
<1>8. CASE StartHydrate \/ StartRefresh \/ EndCycle
  <2>1. ASSUME NEW p, NEW S \in SUBSET Market, NEW max, NEW T \in Listed(p, S, max)
        PROVE  T \subseteq Market
    BY <2>1 DEF Listed
  <2>2. /\ UnknownRows \in SUBSET Market /\ QuietRows \in SUBSET Market
        /\ {} \in SUBSET Market
    BY DEF UnknownRows, QuietRows, Stored
  <2>3. PICK p \in {"hydrate", "refresh", "sleep"}, S \in SUBSET Market, max \in {HydrateMax, RefreshMax, 1} :
          NextPhase(p, S, max)
    BY <1>8, <2>2 DEF StartHydrate, StartRefresh, EndCycle
  <2>4. phase' = p /\ todo' \in Listed(p, S, max) /\ UNCHANGED <<batch, loaded>>
    BY <2>3 DEF NextPhase
  <2> QED BY <1>1, <2>1, <2>4 DEF Poller
<1>9. CASE IngestCommit \/ IngestFail
  BY <1>3, <1>9 DEF IngestCommit, IngestFail
<1>10. CASE CallFails
  <2>1. CASE Sleep
    BY <1>3, <2>1
  <2>2. CASE todo' \subseteq todo /\ UNCHANGED <<phase, batch, loaded>>
    BY <1>1, <2>2 DEF Poller
  <2> QED BY <1>10, <2>1, <2>2 DEF CallFails
<1>11. CASE (\E m \in Market : WsLookup(m)) \/ WsCommit \/ ClassifyLoad \/ ClassifyCommit
            \/ PruneSelect \/ PruneDelete \/ PruneScope \/ UNCHANGED vars
  BY <1>2, <1>11 DEF WsLookup, WsCommit, ClassifyLoad, ClassifyCommit, PruneSelect,
                     PruneDelete, PruneScope, vars
<1>12. CASE \E m \in Market : Finalize(m) \/ Vanish(m) \/ Close(m) \/ Age(m)
  BY <1>2, <1>12 DEF Finalize, Vanish, Close, Age, World
<1> QED
  BY <1>4, <1>6, <1>7, <1>8, <1>9, <1>10, <1>11, <1>12 DEF Next, PollerStep

\* Every step keeps the other types.
LEMMA OthersKeep ==
  ASSUME DirInv, [Next]_vars
  PROVE  Others'
<1>1. Poller /\ Rows /\ Others
  BY DirParts
<1>2. ASSUME UNCHANGED <<upstream, past, ws, script, doomed, upsets>> PROVE Others'
  BY <1>1, <1>2 DEF Others
<1>3. ASSUME NEW m \in Market, WsLookup(m) PROVE Others'
  <2>1. ws' \in [m : Market, id : 0 .. MaxRows]
    <3>1. row[m] # NoRow => row[m].id \in 0 .. MaxRows
      <4>1. row[m] # NoRow => row[m] \in Row
        BY <1>1 DEF Rows
      <4>2. row[m] \in Row => row[m].id \in 1 .. MaxRows
        BY RowFields
      <4> QED BY <4>1, <4>2, DirectoryAssumption
    <3>2. 0 \in 0 .. MaxRows
      BY DirectoryAssumption
    <3> QED BY <1>3, <3>1, <3>2 DEF WsLookup
  <2> QED BY <1>1, <1>3, <2>1 DEF WsLookup, Others
<1>4. CASE WsCommit
  BY <1>1, <1>4 DEF WsCommit, Unchanged, Others
<1>5. CASE PollerStep
  <2>1. ASSUME NEW S, Take(S) PROVE upsets' \in 0 .. MaxUpset
    <3>1. PICK lacks \in [S -> IF upsets < MaxUpset THEN Gaps ELSE {{}}] :
            upsets' = IF \A m \in S : lacks[m] = {} THEN upsets ELSE upsets + 1
      BY <2>1 DEF Take
    <3>2. upsets' = upsets \/ (upsets < MaxUpset /\ upsets' = upsets + 1)
      BY <3>1
    <3>3. upsets \in 0 .. MaxUpset /\ MaxUpset \in Nat
      BY <1>1, DirectoryAssumption DEF Others
    <3> QED BY <3>2, <3>3
  <2>2. upsets' \in 0 .. MaxUpset
    BY <1>1, <1>5, <2>1
       DEF PollerStep, StartCycle, SweepPage, StartHydrate, StartRefresh, EndCycle,
           NextPhase, Lookup, IngestCommit, IngestFail, Others
  <2>3. UNCHANGED <<upstream, past, ws, script, doomed>>
    BY <1>5
       DEF PollerStep, StartCycle, SweepPage, StartHydrate, StartRefresh, EndCycle,
           NextPhase, Lookup, IngestCommit, IngestFail, Unchanged
  <2> QED BY <1>1, <2>2, <2>3 DEF Others
<1>6. CASE CallFails
  BY <1>1, <1>6, DirectoryAssumption DEF CallFails, Unchanged, Others
<1>7. CASE ClassifyLoad
  <2>1. PICK S \in SUBSET Stored : script' = [m \in S |-> row[m]]
    BY <1>7 DEF ClassifyLoad
  <2>2. DOMAIN script' \subseteq Market /\ script' \in [DOMAIN script' -> Row]
    BY <1>1, <2>1 DEF Rows, Stored
  <2>3. upsets' \in 0 .. MaxUpset
    BY <1>1, <1>7, DirectoryAssumption DEF ClassifyLoad, Others
  <2> QED BY <1>1, <1>7, <2>2, <2>3 DEF ClassifyLoad, Unchanged, Others
<1>8. CASE ClassifyCommit
  <2>1. \/ script' = Empty
        \/ \E S \in SUBSET DOMAIN script : script' = [m \in DOMAIN script \ S |-> script[m]]
    BY <1>8 DEF ClassifyCommit
  <2>2. DOMAIN script' \subseteq Market /\ script' \in [DOMAIN script' -> Row]
    BY <1>1, <2>1 DEF Others, Empty
  <2> QED BY <1>1, <1>8, <2>2 DEF ClassifyCommit, Unchanged, Others
<1>9. CASE PruneSelect
  <2>1. PICK S \in SUBSET Stored : doomed' = [m \in S |-> row[m].id]
    BY <1>9 DEF PruneSelect
  <2>2. \A m \in S : m \in Market /\ row[m] \in Row
    BY <1>1 DEF Stored, Rows
  <2>3. \A m \in S : row[m].id \in 1 .. MaxRows
    BY <2>2, RowFields
  <2>4. DOMAIN doomed' \subseteq Market /\ doomed' \in [DOMAIN doomed' -> 1 .. MaxRows]
    BY <2>1, <2>2, <2>3
  <2>5. upsets' \in 0 .. MaxUpset
    BY <1>1, <1>9, DirectoryAssumption DEF PruneSelect, Others
  <2> QED BY <1>1, <1>9, <2>4, <2>5 DEF PruneSelect, Unchanged, Others
<1>10. CASE PruneDelete
  BY <1>1, <1>10 DEF PruneDelete, Unchanged, Others, Empty
<1>11. CASE PruneScope
  BY <1>1, <1>11, DirectoryAssumption DEF PruneScope, Unchanged, Others
<1>12. CASE \E m \in Market : Finalize(m) \/ Vanish(m) \/ Close(m) \/ Age(m)
  BY <1>1, <1>12 DEF Finalize, Vanish, Close, Age, World, Others
<1>13. CASE UNCHANGED vars
  BY <1>2, <1>13 DEF vars
<1> QED
  BY <1>3, <1>4, <1>5, <1>6, <1>7, <1>8, <1>9, <1>10, <1>11, <1>12, <1>13 DEF Next

\* The invariant holds in every state.
LEMMA DirInductive == Spec => []DirInv
<1>1. DirInv /\ [Next]_vars => DirInv'
  <2>1. (DirInv <=> Rows /\ Poller /\ Others)'
    BY DEF DirInv, TypeOK, Rows, Poller, Others
  <2> QED BY <2>1, RowsKeep, PollerKeeps, OthersKeep
<1> QED BY DirInit, <1>1, PTL DEF Spec

\* Every variable has its type: in particular every UPDATE leaves a row.
THEOREM DirectoryTypes == Spec => []TypeOK
<1>1. DirInv => TypeOK
  BY DEF DirInv
<1> QED BY <1>1, DirInductive, PTL


-----------------------------------------------------------------------------
(* What holds of the rows.                                                 *)

\* Whatever handlers, the poller and the scripts do at the same time, and
\* however stale the row they loaded is, no row loses the metadata it has but
\* to an item of the REST API that comes without it.
THEOREM DirectoryHydratedStays == Spec => HydratedStays
<1>1. DirInv /\ [Next]_vars =>
        [\A m \in Stored :
           row[m].titled /\ row'[m] # NoRow =>
             row'[m].titled \/ (m \in DOMAIN batch /\ ~batch[m].titled)]_row
  <2> SUFFICES ASSUME DirInv, Next, NEW m \in Stored, row[m].titled, row'[m] # NoRow,
                      ~(m \in DOMAIN batch /\ ~batch[m].titled)
               PROVE  row'[m].titled
    BY DEF vars
  <2>1. m \in Market /\ row[m] \in Row /\ row[m] # NoRow /\ Rows /\ Poller /\ Others
    BY DirParts DEF Rows, Stored
  <2>2. row[m].titled = TRUE
    BY <2>1, RowFields
  <2>3. CASE row'[m] = row[m]
    BY <2>2, <2>3
  <2>4. CASE WsCommit
    <3>1. ws.m \in Market
      BY <2>1, <2>4 DEF WsCommit, Others
    <3>2. \/ row' = row
          \/ row' = [row EXCEPT ![ws.m] = row[ws.m]]
          \/ \E n : row[ws.m] = NoRow /\ row' = [row EXCEPT ![ws.m] = n]
      BY <2>4 DEF WsCommit, Reached, Conflict
    <3>3. row'[m] = row[m]
      BY <2>1, <3>1, <3>2 DEF Rows
    <3> QED BY <2>3, <3>3
  <2>5. CASE IngestCommit
    <3>1. CASE m \in DOMAIN batch /\ row'[m].titled = batch[m].titled
      BY <3>1
    <3>2. CASE /\ m \in DOMAIN batch /\ loaded[m] \in Row /\ batch[m] \in Item
               /\ row'[m] = Flush(row[m], loaded[m], Wanted(loaded[m], batch[m]))
      <4>1. batch[m].titled = TRUE
        BY <3>2 DEF Item
      <4>2. /\ Wanted(loaded[m], batch[m]) \in Row
            /\ Wanted(loaded[m], batch[m]).titled \in {TRUE, loaded[m].titled}
        BY <3>2, <4>1, WantedRow
      <4>3. \A db, old, new \in Row : db.titled = TRUE /\ new.titled \in {TRUE, old.titled}
               => Flush(db, old, new).titled = TRUE
        BY FlushRow
      <4>4. row'[m].titled = TRUE
        BY <2>1, <2>2, <3>2, <4>2, <4>3
      <4> QED BY <4>4
    <3> QED BY <2>1, <2>3, <2>5, <3>1, <3>2, IngestRow
  <2>6. CASE ClassifyCommit
    <3>1. CASE /\ row[m] \in Row /\ script[m] \in Row /\ Reclassified(m) \in Row
               /\ Reclassified(m).titled = script[m].titled
               /\ row'[m] = Flush(row[m], script[m], Reclassified(m))
      BY <2>2, <3>1, FlushRow
    <3> QED BY <2>1, <2>3, <2>6, <3>1, ClassifiedRow
  <2>7. CASE PruneDelete \/ PruneScope
    <3>1. row'[m] = row[m] \/ row'[m] = NoRow
      BY <2>1, <2>7 DEF PruneDelete, PruneScope, Gone
    <3> QED BY <2>3, <3>1
  <2>8. CASE PollerStep /\ ~IngestCommit
    BY <2>3, <2>8
       DEF PollerStep, StartCycle, SweepPage, StartHydrate, StartRefresh, EndCycle,
           NextPhase, Lookup, IngestFail
  <2>9. CASE (\E n \in Market : WsLookup(n)) \/ CallFails \/ ClassifyLoad \/ PruneSelect
    BY <2>3, <2>9 DEF WsLookup, CallFails, ClassifyLoad, PruneSelect
  <2>10. CASE \E n \in Market : Finalize(n) \/ Vanish(n) \/ Close(n) \/ Age(n)
    BY <2>3, <2>10 DEF Finalize, Vanish, Close, Age, World
  <2> QED BY <2>4, <2>5, <2>6, <2>7, <2>8, <2>9, <2>10 DEF Next
<1> QED BY <1>1, DirInductive, PTL DEF Spec, HydratedStays

----------------------------------------------------------------------------
(* The classifier, for any tables and titles.                               *)

(***************************************************************************)
(* The first layer that is confident decides; when none is, the last layer *)
(* that said anything does, and when none said anything the fallback: the  *)
(* early returns of classify() and the ties of _better() amount to this.   *)
(***************************************************************************)
THEOREM FirstConfident ==
  ASSUME NEW market, NEW llm
  PROVE  Chosen(LayerVerdicts(market, llm), ClassifyRaw(market, llm).verdict)
<1> DEFINE vs == LayerVerdicts(market, llm)
           first == ClassifyViaKalshi(market)
           chosen == IF Confident(first) THEN first
                     ELSE Decide(Better(None, first), vs[2], vs[3], vs[4])
<1>1. ClassifyRaw(market, llm).verdict = chosen
  <2>1. \A v : AttachPrior(v).verdict = v
    BY SMT DEF AttachPrior
  <2> QED
    BY <2>1 DEF ClassifyRaw, ClassifyFrom, LayerVerdicts
<1>2. DOMAIN vs = 1 .. 4 /\ vs[1] = first
  BY DEF LayerVerdicts
<1>3. \A v : ~Confident(v) /\ v # None => ConfidenceRank(v) = 0
  BY SMT DEF Confident, ConfidenceRank
<1> SUFFICES Chosen(vs, chosen)
  BY <1>1
<1> HIDE DEF vs, first
<1>4. CASE \E i \in 1 .. 4 : Confident(vs[i])
  <2>1. Confident(vs[1]) \/ Confident(vs[2]) \/ Confident(vs[3]) \/ Confident(vs[4])
    BY <1>4, SMT
  <2>2. PICK i \in 1 .. 4 : /\ chosen = vs[i] /\ Confident(vs[i])
                            /\ \A j \in 1 .. i - 1 : ~Confident(vs[j])
    <3> USE <1>2 DEF Decide
    <3>1. CASE Confident(vs[1])
      BY <3>1, SMT
    <3>2. CASE ~Confident(vs[1]) /\ Confident(vs[2])
      BY <3>2, SMT
    <3>3. CASE ~Confident(vs[1]) /\ ~Confident(vs[2]) /\ Confident(vs[3])
      BY <3>3, SMT
    <3>4. CASE ~Confident(vs[1]) /\ ~Confident(vs[2]) /\ ~Confident(vs[3]) /\ Confident(vs[4])
      BY <3>4, SMT
    <3> QED
      BY <2>1, <3>1, <3>2, <3>3, <3>4
  <2> QED
    BY <1>2, <1>4, <2>2 DEF Chosen
<1>5. CASE ~\E i \in 1 .. 4 : Confident(vs[i])
  <2>1. /\ ~Confident(vs[1]) /\ ~Confident(vs[2])
        /\ ~Confident(vs[3]) /\ ~Confident(vs[4])
    BY <1>5, SMT
  <2>2. chosen = IF vs[4] # None THEN vs[4]
                 ELSE IF vs[3] # None THEN vs[3]
                 ELSE IF vs[2] # None THEN vs[2]
                 ELSE IF vs[1] # None THEN vs[1] ELSE Fallback
    BY <1>2, <1>3, <2>1, SMT DEF Decide, Better
  <2>3. CASE \E i \in 1 .. 4 : vs[i] # None
    <3>1. PICK i \in 1 .. 4 : vs[i] # None /\ \A j \in 1 .. 4 : j > i => vs[j] = None
      BY <2>3, SMT
    <3>2. chosen = vs[i]
      BY <2>2, <3>1, SMT
    <3> QED
      BY <1>2, <1>5, <2>3, <3>1, <3>2 DEF Chosen
  <2>4. CASE ~\E i \in 1 .. 4 : vs[i] # None
    BY <1>2, <1>5, <2>2, <2>4, SMT DEF Chosen
  <2> QED
    BY <2>3, <2>4
<1> QED
  BY <1>4, <1>5

(***************************************************************************)
(* A verdict of low confidence never puts a market on the watch list of    *)
(* high priors (_attach_prior), whatever the tables say and whichever of   *)
(* the two call shapes was used.                                           *)
(***************************************************************************)
THEOREM LowNeverPromotes ==
  ASSUME NEW best, NEW ticker, NEW title, NEW subtitle, NEW llm, NEW market
  PROVE  /\ LET c == ClassifyFrom(best, ticker, title, subtitle, llm)
            IN c.prior \in Promoting => c.verdict.confidence # "low"
         /\ LET c == ClassifyRaw(market, llm)
            IN c.prior \in Promoting => c.verdict.confidence # "low"
<1>1. ASSUME NEW v, AttachPrior(v).prior \in Promoting
      PROVE  AttachPrior(v).verdict.confidence # "low"
  BY <1>1, SMT DEF AttachPrior, Promoting
<1>2. ASSUME NEW b, NEW k, NEW t, NEW u,
             ClassifyFrom(b, k, t, u, llm).prior \in Promoting
      PROVE  ClassifyFrom(b, k, t, u, llm).verdict.confidence # "low"
  BY <1>1, <1>2 DEF ClassifyFrom
<1>3. ClassifyRaw(market, llm).prior \in Promoting
        => ClassifyRaw(market, llm).verdict.confidence # "low"
  <2>1. CASE Confident(ClassifyViaKalshi(market))
    <3>1. ClassifyRaw(market, llm) = AttachPrior(ClassifyViaKalshi(market))
      BY <2>1 DEF ClassifyRaw
    <3> QED
      BY <1>1, <3>1
  <2>2. CASE ~Confident(ClassifyViaKalshi(market))
    <3>1. ClassifyRaw(market, llm)
            = ClassifyFrom(Better(None, ClassifyViaKalshi(market)),
                           market.ticker, market.title, market.subtitle, llm)
      BY <2>2 DEF ClassifyRaw
    <3> QED
      BY <1>2, <3>1
  <2> QED
    BY <2>1, <2>2
<1> QED
  BY <1>2, <1>3

(***************************************************************************)
(* A market classified again from its row (ticker and title) keeps what    *)
(* its payload gave it, when Kalshi's metadata said nothing and no         *)
(* language model is configured: only the first layer sees more.           *)
(***************************************************************************)
THEOREM StubAgrees ==
  ASSUME NEW market, NEW subtitle, NEW llm,
         ClassifyViaKalshi(market) = None,
         \A title, sub : llm[title][sub] = None
  PROVE  ClassifyRaw(market, llm) = ClassifyStub(market.ticker, market.title, subtitle, llm)
<1>1. AskModel(llm, market.title, market.subtitle) = AskModel(llm, market.title, subtitle)
  BY DEF AskModel
<1>2. ~Confident(None) /\ Better(None, None) = None
  BY DEF Confident, Better
<1> QED
  BY <1>1, <1>2 DEF ClassifyRaw, ClassifyStub, ClassifyFrom

(***************************************************************************)
(* Whatever a language model answers, a verdict taken from it with         *)
(* confidence names a category and subcategory of the vocabulary, and none *)
(* is of high confidence (_coerce_to_classification).                      *)
(***************************************************************************)
THEOREM CoerceInVocabulary ==
  ASSUME NEW raw, Confident(Coerce(raw))
  PROVE  LET v == Coerce(raw)
         IN /\ v.confidence = "medium"
            /\ v.class[1] \in DOMAIN Vocabulary
            /\ v.class[2] \in Vocabulary[v.class[1]]
BY SMT DEF Coerce, Confident, Verdict

----------------------------------------------------------------------------
(* The active list, for any prices.                                         *)

\* The filter in SQL keeps a market exactly when the rule in Python does not call
\* it resolved, whichever of its prices are missing: NULL never makes it unknown.
THEOREM FiltersAgree ==
  ASSUME NEW last \in Cents, NEW bid \in Cents, NEW ask \in Cents
  PROVE  UnresolvedFilter(last, bid, ask) = True <=> ~LikelyResolved(last, bid, ask)
<1> DEFINE shown == Display(last, bid, ask)
<1>1. FullWidth(bid, ask) \in {False, True}
  BY SMT DEF FullWidth, And, AtMost, Sql, False, True, Unknown, Null, Edge, Cents
<1>2. FullWidth(bid, ask) = True
        <=> bid # Null /\ ask # Null /\ bid <= Edge /\ ask >= 100 - Edge
  BY SMT DEF FullWidth, And, AtMost, Sql, False, True, Unknown, Null, Edge, Cents
<1>3. CASE shown = 2 * Null
  <2>1. last = Null /\ bid = Null /\ ask = Null
    BY <1>3, SMT DEF Display, Null, Cents
  <2> QED
    BY <1>3, <2>1, <1>1, SMT
    DEF UnresolvedFilter, LikelyResolved, Or, And, Not, Less, Sql, False, True, Unknown, Null,
        Edge
<1>4. CASE shown # 2 * Null
  <2>1. shown \in Int
    BY SMT DEF Display, Null, Cents
  <2>2. UnresolvedFilter(last, bid, ask) = True
          <=> 2 * Edge < shown /\ shown < 2 * (100 - Edge) /\ FullWidth(bid, ask) = False
    BY <1>1, <1>4, <2>1, SMT
    DEF UnresolvedFilter, Or, And, Not, Less, Sql, False, True, Unknown, Null, Edge
  <2>3. LikelyResolved(last, bid, ask)
          <=> shown <= 2 * Edge \/ shown >= 2 * (100 - Edge) \/ FullWidth(bid, ask) = True
    BY <1>2, <1>4, SMT DEF LikelyResolved
  <2> QED
    BY <1>1, <2>1, <2>2, <2>3, SMT DEF Edge, False, True
<1> QED
  BY <1>3, <1>4

\* A market of an active list that shows a price shows one strictly between the
\* two edges: the list and the column it prints cannot contradict each other.
THEOREM ListedPricesOpen ==
  ASSUME NEW last \in Cents, NEW bid \in Cents, NEW ask \in Cents,
         InActiveList([exists |-> TRUE, last |-> last, bid |-> bid, ask |-> ask]),
         ShownPrice(last, bid, ask) # Null
  PROVE  2 * Edge < ShownPrice(last, bid, ask) /\ ShownPrice(last, bid, ask) < 2 * (100 - Edge)
<1>1. ~LikelyResolved(last, bid, ask)
  BY FiltersAgree DEF InActiveList
<1>2. Display(last, bid, ask) # 2 * Null /\ Display(last, bid, ask) \in Int
  BY SMT DEF Display, ShownPrice, Null, Cents
<1>3. 2 * Edge < Display(last, bid, ask) /\ Display(last, bid, ask) < 2 * (100 - Edge)
  BY <1>1, <1>2, SMT DEF LikelyResolved, Edge
<1>4. ShownPrice(last, bid, ask) = Clamped(Display(last, bid, ask))
  BY DEF ShownPrice
<1> QED
  BY <1>2, <1>3, <1>4, SMT DEF Clamped, Edge
=============================================================================
