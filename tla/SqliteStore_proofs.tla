------------------------- MODULE SqliteStore_proofs -------------------------
(***************************************************************************)
(* SqliteStore implements the EventStore contract, for any number of runs,  *)
(* positions, identities and connections, whenever a process dies.           *)
(***************************************************************************)
EXTENDS SqliteStore, TLAPS

IsRow(row) ==
  row = [event |-> row.event, idx |-> row.idx, prev |-> row.prev, hash |-> row.hash]

\* As much of a file's shape as its logs and commitments need.
FileShape(d) ==
  /\ d = [format |-> d.format, rows |-> d.rows, head |-> d.head, held |-> d.held,
          appended |-> d.appended]
  /\ d.rows = [r \in Run |-> [s \in Seqs |-> d.rows[r][s]]]
  /\ d.held = [k \in Ident |-> d.held[k]]
  /\ \A r \in Run, s \in Seqs : /\ IsRow(d.rows[r][s])
                                /\ Taken(d, r, s) <=> d.rows[r][s].event # NoEvent

KnowsRow(call) == call.run \in Run /\ call.seq \in Seqs /\ call.event \in Event
KnowsClaim(call) == call.run \in Run /\ call.claim[1] \in Ident /\ call.claim[2] \in Seqs

\* A connection between transactions keeps no view; one inside has its call.
ConnShape(me) ==
  /\ me.pc \in WriteStages \cup {"head", "served", "refused"} =>
       me = InTransaction(me.pc, me.call, me.view) /\ FileShape(me.view)
  /\ me.pc \in {"write", "settle"} =>
       KnowsRow(me.call) /\ (me.call.claim # <<>> => KnowsClaim(me.call))
  /\ me.pc = "settle" => me.call.claim # <<>>
  /\ me.pc = "claim" => KnowsClaim(me.call)

StoreInv ==
  /\ FileShape(db)
  /\ conn = [c \in Conn |-> conn[c]]
  /\ \A c \in Conn : ConnShape(conn[c])
  /\ ViewsAreCurrent

----------------------------------------------------------------------------
(* What the statements make of a file.                                      *)

LEMMA AppendRowAppends ==
  ASSUME NEW d, FileShape(d), NEW r \in Run, NEW s \in Seqs, NEW e \in Event, ~Taken(d, r, s)
  PROVE  FileShape(AppendRow(d, r, s, e)) /\ IsAppend(d, AppendRow(d, r, s, e), r, s, e)
  <1> DEFINE v == AppendRow(d, r, s, e)
             hash == RowHash(d.head[r].hash, r, s, e)
             row == [event |-> e, idx |-> d.head[r].len, prev |-> d.head[r].hash, hash |-> hash]
             rows == [d.rows EXCEPT ![r][s] = row]
             head == [d.head EXCEPT ![r] = [len |-> d.head[r].len + 1, hash |-> hash]]
             appended == [d.appended EXCEPT ![r] = Append(@, Cell(r, s, e))]
  <1>1. v = [format |-> d.format, rows |-> rows, head |-> head, held |-> d.held,
             appended |-> appended]
    <2>1. v = [d EXCEPT !.rows = rows, !.head = head, !.appended = appended]
      BY DEF AppendRow
    <2>2. d = [format |-> d.format, rows |-> d.rows, head |-> d.head, held |-> d.held,
               appended |-> d.appended]
      BY DEF FileShape
    <2> HIDE DEF v, rows, head, appended
    <2> QED BY <2>1, <2>2
  <1>2. row.event = e /\ row # NoRow /\ e # NoEvent /\ IsRow(row)
    BY SqliteAssumption DEF NoRow, IsRow
  <1> HIDE DEF row, head, appended
  <1>3. v.rows = rows /\ v.held = d.held
    BY <1>1
  <1>4. v = [format |-> v.format, rows |-> v.rows, head |-> v.head, held |-> v.held,
             appended |-> v.appended]
    BY <1>1
  <1> HIDE DEF v
  <1>5. d.rows = [q \in Run |-> [t \in Seqs |-> d.rows[q][t]]]
    BY DEF FileShape
  <1>6. v.rows = [q \in Run |-> [t \in Seqs |-> IF q = r /\ t = s THEN row ELSE d.rows[q][t]]]
    <2>1. d.rows[r] = [t \in Seqs |-> d.rows[r][t]]
      BY <1>5
    <2>2. [d.rows[r] EXCEPT ![s] = row] = [t \in Seqs |-> IF t = s THEN row ELSE d.rows[r][t]]
      BY <2>1
    <2>3. rows = [q \in Run |-> IF q = r THEN [d.rows[r] EXCEPT ![s] = row] ELSE d.rows[q]]
      BY <1>5
    <2>4. \A q \in Run : d.rows[q] = [t \in Seqs |-> d.rows[q][t]]
      BY <1>5
    <2> HIDE DEF rows
    <2> QED BY <1>3, <2>2, <2>3, <2>4
  <1>7. FileShape(v)
    <2>1. \A q \in Run, t \in Seqs : /\ IsRow(v.rows[q][t])
                                     /\ Taken(v, q, t) <=> v.rows[q][t].event # NoEvent
      BY <1>2, <1>6 DEF FileShape, Taken
    <2>2. v.rows = [q \in Run |-> [t \in Seqs |-> v.rows[q][t]]]
      BY <1>6
    <2>3. v.held = [k \in Ident |-> v.held[k]]
      BY <1>3 DEF FileShape
    <2> QED BY <1>4, <2>1, <2>2, <2>3 DEF FileShape
  <1>8. LogOf(v) = [LogOf(d) EXCEPT ![r][s] = e]
    <2>1. \A q \in Run, t \in Seqs :
            v.rows[q][t].event = IF q = r /\ t = s THEN e ELSE d.rows[q][t].event
      BY <1>2, <1>6
    <2>2. LogOf(v) = [q \in Run |-> [t \in Seqs |->
                        IF q = r /\ t = s THEN e ELSE d.rows[q][t].event]]
      BY <2>1 DEF LogOf
    <2>3. [LogOf(d) EXCEPT ![r][s] = e] = [q \in Run |-> [t \in Seqs |->
                        IF q = r /\ t = s THEN e ELSE d.rows[q][t].event]]
      BY DEF LogOf
    <2> QED BY <2>2, <2>3
  <1> QED BY <1>3, <1>7, <1>8 DEF IsAppend, v

LEMMA BackfillKeepsLogs ==
  ASSUME NEW d, FileShape(d)
  PROVE  /\ FileShape(Backfill(d))
         /\ LogOf(Backfill(d)) = LogOf(d) /\ Backfill(d).held = d.held
  <1> DEFINE v == Backfill(d)
             row(r, s) == LET prev == ChainBelow(d, r, s)
                              e == d.rows[r][s].event
                          IN [event |-> e, idx |-> Len(prev), prev |-> prev,
                              hash |-> RowHash(prev, r, s, e)]
  <1>0. d = [format |-> d.format, rows |-> d.rows, head |-> d.head, held |-> d.held,
             appended |-> d.appended]
    BY DEF FileShape
  <1>1. PICK head : v = [format |-> "chained",
             rows |-> [r \in Run |-> [s \in Seqs |->
                        IF ~Taken(d, r, s) THEN NoRow ELSE row(r, s)]],
             head |-> head, held |-> d.held, appended |-> d.appended]
    <2> DEFINE rows == [r \in Run |-> [s \in Seqs |->
                          IF ~Taken(d, r, s) THEN NoRow ELSE row(r, s)]]
               head == [r \in Run |-> LET all == ChainBelow(d, r, MaxSeq + 1)
                                      IN [len |-> Len(all), hash |-> all]]
    <2>1. v = [d EXCEPT !.format = "chained", !.rows = rows, !.head = head]
      BY DEF Backfill
    <2> HIDE DEF v, rows, head
    <2>2. v = [format |-> "chained", rows |-> rows, head |-> head, held |-> d.held,
               appended |-> d.appended]
      BY <1>0, <2>1
    <2> QED BY <2>2 DEF rows
  <1>2. \A r \in Run, s \in Seqs : row(r, s).event = d.rows[r][s].event /\ IsRow(row(r, s))
    BY DEF IsRow
  <1> HIDE DEF v, row
  <1>3. \A r \in Run, s \in Seqs :
          v.rows[r][s] = IF ~Taken(d, r, s) THEN NoRow ELSE row(r, s)
    BY <1>1
  <1>4. \A r \in Run, s \in Seqs : v.rows[r][s].event = d.rows[r][s].event
    BY <1>2, <1>3 DEF FileShape, NoRow, Taken
  <1>5. \A r \in Run, s \in Seqs : /\ IsRow(v.rows[r][s])
                                   /\ Taken(v, r, s) <=> v.rows[r][s].event # NoEvent
    <2>1. IsRow(NoRow) /\ NoRow.event = NoEvent
      BY DEF IsRow, NoRow
    <2>2. ASSUME NEW r \in Run, NEW s \in Seqs
          PROVE  IsRow(v.rows[r][s]) /\ (Taken(v, r, s) <=> v.rows[r][s].event # NoEvent)
      <3>1. Taken(d, r, s) <=> d.rows[r][s].event # NoEvent
        BY DEF FileShape
      <3>2. CASE Taken(d, r, s)
        <4>1. v.rows[r][s] = row(r, s) /\ row(r, s).event # NoEvent
          BY <1>2, <1>3, <3>1, <3>2
        <4>2. row(r, s) # NoRow
          BY <2>1, <4>1
        <4> QED BY <1>2, <4>1, <4>2 DEF Taken
      <3>3. CASE ~Taken(d, r, s)
        <4>1. v.rows[r][s] = NoRow
          BY <1>3, <3>3
        <4> QED BY <2>1, <4>1 DEF Taken
      <3> QED BY <3>2, <3>3
    <2> QED BY <2>2
  <1>6. FileShape(v)
    BY <1>1, <1>5 DEF FileShape
  <1>7. LogOf(v) = LogOf(d) /\ v.held = d.held
    BY <1>1, <1>4 DEF LogOf
  <1> QED BY <1>6, <1>7 DEF v

----------------------------------------------------------------------------
(* The shapes of a step.                                                    *)

CurrentIn(me, d) ==
  /\ me.pc \in {"create", "upgrade", "write", "claim"} => me.view = d
  /\ me.pc = "settle" => IsAppend(d, me.view, me.call.run, me.call.seq, me.call.event)
  /\ me.pc = "commit" => IsOneOperation(d, me.view)

LEMMA CurrentByConn ==
  ViewsAreCurrent <=> \A c \in Conn : /\ conn[c].pc \in WriteStages <=> writer = c
                                      /\ CurrentIn(conn[c], db)
  BY DEF ViewsAreCurrent, CurrentIn

\* One connection moves and the file does not.
LEMMA ConnMoves ==
  ASSUME StoreInv, NEW c \in Conn, NEW me, Become(c, me), db' = db,
         ConnShape(me), CurrentIn(me, db),
         me.pc \in WriteStages <=> writer' = c,
         \A a \in Conn \ {c} : writer' = a <=> writer = a
  PROVE  StoreInv'
  <1>1. conn' = [conn EXCEPT ![c] = me] /\ conn = [a \in Conn |-> conn[a]]
    BY DEF Become, StoreInv
  <1>2. conn'[c] = me /\ \A a \in Conn \ {c} : conn'[a] = conn[a]
    BY <1>1
  <1>3. conn' = [a \in Conn |-> conn'[a]]
    BY <1>1
  <1>4. \A a \in Conn : ConnShape(conn'[a])
    BY <1>2 DEF StoreInv
  <1>5. \A a \in Conn : /\ conn'[a].pc \in WriteStages <=> writer' = a
                        /\ CurrentIn(conn'[a], db)
    BY <1>2, CurrentByConn DEF StoreInv
  <1>6. ViewsAreCurrent'
    BY <1>5 DEF ViewsAreCurrent, CurrentIn
  <1> QED BY <1>3, <1>4, <1>6 DEF StoreInv

\* Outside a writing transaction nothing is asked of a connection but a view
\* that is a file.
LEMMA OutsideMoves ==
  ASSUME StoreInv, NEW c \in Conn, NEW me, Become(c, me), UNCHANGED <<db, writer>>,
         conn[c].pc \notin WriteStages, me.pc \notin WriteStages, ConnShape(me)
  PROVE  StoreInv'
  <1>1. writer # c
    BY DEF StoreInv, ViewsAreCurrent
  <1>2. CurrentIn(me, db)
    BY DEF CurrentIn, WriteStages
  <1> QED BY <1>1, <1>2, ConnMoves

LEMMA LeavesTransaction ==
  ASSUME StoreInv, NEW c \in Conn, NEW me, RollBack(c, me), writer = c,
         me.pc \in {"closed", "ready", "refusedOpen"}
  PROVE  StoreInv'
  <1>1. ConnShape(me) /\ CurrentIn(me, db) /\ me.pc \notin WriteStages
    BY DEF ConnShape, CurrentIn, WriteStages
  <1>2. Become(c, me) /\ db' = db /\ writer' = NoConn
    BY DEF RollBack
  <1>3. writer' # c /\ \A a \in Conn \ {c} : writer' = a <=> writer = a
    BY <1>2, SqliteAssumption
  <1> QED BY <1>1, <1>2, <1>3, ConnMoves

LEMMA BeginsTransaction ==
  ASSUME StoreInv, NEW c \in Conn, NEW call,
         NEW pc \in {"create", "upgrade", "write", "claim"}, Begin(c, pc, call),
         pc = "write" => KnowsRow(call) /\ (call.claim # <<>> => KnowsClaim(call)),
         pc = "claim" => KnowsClaim(call)
  PROVE  StoreInv'
  <1> DEFINE me == InTransaction(pc, call, db)
  <1>1. me.pc = pc /\ me.call = call /\ me.view = db /\ me = InTransaction(me.pc, me.call, me.view)
    BY DEF InTransaction
  <1>2. Become(c, me) /\ db' = db /\ writer = NoConn /\ writer' = c
    BY DEF Begin
  <1> HIDE DEF me
  <1>3. ConnShape(me) /\ CurrentIn(me, db) /\ me.pc \in WriteStages
    BY <1>1 DEF ConnShape, CurrentIn, WriteStages, StoreInv
  <1>4. \A a \in Conn \ {c} : writer' = a <=> writer = a
    BY <1>2, SqliteAssumption
  <1> QED BY <1>2, <1>3, <1>4, ConnMoves

\* A statement of a writing transaction.
LEMMA WorksWithin ==
  ASSUME StoreInv, NEW c \in Conn, conn[c].pc \in WriteStages,
         NEW pc \in {"settle", "commit"}, NEW view, FileShape(view), Within(c, pc, view),
         pc = "settle" =>
           /\ KnowsRow(conn[c].call) /\ KnowsClaim(conn[c].call) /\ conn[c].call.claim # <<>>
           /\ IsAppend(db, view, conn[c].call.run, conn[c].call.seq, conn[c].call.event),
         pc = "commit" => IsOneOperation(db, view)
  PROVE  StoreInv'
  <1> DEFINE call == conn[c].call
             me == InTransaction(pc, call, view)
  <1>3. Become(c, me) /\ db' = db /\ writer' = writer /\ writer = c
    BY DEF Within, StoreInv, ViewsAreCurrent
  <1>4. me.pc = pc /\ me.call = call /\ me.view = view /\ me = InTransaction(me.pc, me.call, me.view)
    BY DEF InTransaction
  <1> HIDE DEF me
  <1>5. ConnShape(me) /\ CurrentIn(me, db) /\ me.pc \in WriteStages
    BY <1>4 DEF ConnShape, CurrentIn, WriteStages
  <1> QED BY <1>3, <1>5, ConnMoves

----------------------------------------------------------------------------
(* The steps of a connection.                                               *)

LEMMA ConnIsSound ==
  ASSUME StoreInv, NEW c \in Conn
  PROVE  /\ FileShape(db) /\ ConnShape(conn[c]) /\ CurrentIn(conn[c], db)
         /\ conn[c].pc \in WriteStages <=> writer = c
  BY CurrentByConn DEF StoreInv

LEMMA OpenStep ==
  ASSUME StoreInv, NEW c \in Conn, Open(c) \/ GiveUpOpening(c) \/ Answer(c)
  PROVE  StoreInv'
  <1>1. PICK me : /\ Become(c, me) /\ UNCHANGED <<db, writer>>
                  /\ me.pc \in {"closed", "found", "ready"}
    <2>1. CASE Open(c)
      <3> DEFINE m == [Closed EXCEPT !.pc = "found", !.legacy = (db.format = "legacy")]
      <3>1. m.pc = "found" /\ Become(c, m) /\ UNCHANGED <<db, writer>>
        BY <2>1 DEF Open, Closed
      <3> QED BY <3>1
    <2>2. CASE GiveUpOpening(c)
      BY <2>2 DEF GiveUpOpening, Closed
    <2>3. CASE Answer(c)
      BY <2>3 DEF Answer, Ready, Closed
    <2> QED BY <2>1, <2>2, <2>3
  <1>2. conn[c].pc \notin WriteStages
    BY DEF Open, GiveUpOpening, Answer, WriteStages
  <1>3. ConnShape(me) /\ me.pc \notin WriteStages
    BY <1>1 DEF ConnShape, WriteStages
  <1> QED BY <1>1, <1>2, <1>3, OutsideMoves

LEMMA ReadStep ==
  ASSUME StoreInv, NEW c \in Conn, ReadHead(c) \/ \E r \in Run : ReadRows(c, r)
  PROVE  StoreInv'
  <1>1. CASE ReadHead(c)
    <2> DEFINE pc == IF Verifies(conn[c].view, conn[c].call.run) THEN "served" ELSE "refused"
               me == [conn[c] EXCEPT !.pc = pc]
    <2>1. /\ Become(c, me) /\ UNCHANGED <<db, writer>> /\ conn[c].pc = "head"
          /\ pc \in {"served", "refused"}
      BY <1>1 DEF ReadHead
    <2>2. conn[c] = InTransaction("head", conn[c].call, conn[c].view) /\ FileShape(conn[c].view)
      BY <2>1, ConnIsSound DEF ConnShape
    <2> HIDE DEF pc
    <2>3. me = InTransaction(pc, conn[c].call, conn[c].view)
      <3>1. ASSUME NEW x, NEW a, NEW b, NEW v, x = InTransaction(a, b, v)
            PROVE  [x EXCEPT !.pc = pc] = InTransaction(pc, b, v)
        BY <3>1 DEF InTransaction
      <3> QED BY <2>2, <3>1
    <2> HIDE DEF me
    <2>4. me.pc = pc /\ me.call = conn[c].call /\ me.view = conn[c].view
      BY <2>3 DEF InTransaction
    <2>5. ConnShape(me) /\ me.pc \notin WriteStages /\ conn[c].pc \notin WriteStages
      BY <2>1, <2>2, <2>3, <2>4 DEF ConnShape, WriteStages
    <2> QED BY <2>1, <2>5, OutsideMoves
  <1>2. ASSUME NEW r \in Run, ReadRows(c, r)
        PROVE  StoreInv'
    <2> DEFINE me == InTransaction("head", [NoCall EXCEPT !.run = r], db)
    <2>1. Become(c, me) /\ UNCHANGED <<db, writer>> /\ conn[c].pc = "ready"
      BY <1>2 DEF ReadRows
    <2>2. /\ me.pc = "head" /\ me.view = db
          /\ me = InTransaction(me.pc, me.call, me.view)
      BY DEF InTransaction
    <2> HIDE DEF me
    <2>3. ConnShape(me) /\ me.pc \notin WriteStages /\ conn[c].pc \notin WriteStages
      BY <2>1, <2>2, ConnIsSound DEF ConnShape, WriteStages
    <2> QED BY <2>1, <2>3, OutsideMoves
  <1> QED BY <1>1, <1>2

LEMMA BeginStep ==
  ASSUME StoreInv, NEW c \in Conn,
         \/ BeginMigration(c)
         \/ \E r \in Run, s \in Seqs, e \in Event :
              \/ BeginAppend(c, r, s, e)
              \/ \E k \in Ident, i \in Seqs : BeginSettlingAppend(c, r, s, e, k, i)
         \/ \E k \in Ident, r \in Run, i \in Seqs : BeginClaim(c, k, r, i)
  PROVE  StoreInv'
  <1>1. CASE BeginMigration(c)
    <2>1. PICK pc \in {"create", "upgrade"} : Begin(c, pc, NoCall)
      BY <1>1 DEF BeginMigration
    <2> QED BY <2>1, BeginsTransaction
  <1>2. ASSUME NEW r \in Run, NEW s \in Seqs, NEW e \in Event, BeginAppend(c, r, s, e)
        PROVE  StoreInv'
    <2> DEFINE call == [run |-> r, seq |-> s, event |-> e, claim |-> <<>>]
    <2>1. Begin(c, "write", call)
      BY <1>2 DEF BeginAppend
    <2>2. KnowsRow(call) /\ call.claim = <<>>
      BY DEF KnowsRow
    <2> HIDE DEF call
    <2> QED BY <2>1, <2>2, BeginsTransaction
  <1>3. ASSUME NEW r \in Run, NEW s \in Seqs, NEW e \in Event, NEW k \in Ident, NEW i \in Seqs,
               BeginSettlingAppend(c, r, s, e, k, i)
        PROVE  StoreInv'
    <2> DEFINE call == [run |-> r, seq |-> s, event |-> e, claim |-> <<k, i>>]
    <2>1. Begin(c, "write", call)
      BY <1>3 DEF BeginSettlingAppend
    <2>2. KnowsRow(call) /\ KnowsClaim(call)
      BY DEF KnowsRow, KnowsClaim
    <2> HIDE DEF call
    <2> QED BY <2>1, <2>2, BeginsTransaction
  <1>4. ASSUME NEW k \in Ident, NEW r \in Run, NEW i \in Seqs, BeginClaim(c, k, r, i)
        PROVE  StoreInv'
    <2> DEFINE call == [run |-> r, seq |-> Null, event |-> NoEvent, claim |-> <<k, i>>]
    <2>1. Begin(c, "claim", call)
      BY <1>4 DEF BeginClaim
    <2>2. KnowsClaim(call)
      BY DEF KnowsClaim
    <2> HIDE DEF call
    <2> QED BY <2>1, <2>2, BeginsTransaction
  <1> QED BY <1>1, <1>2, <1>3, <1>4

LEMMA MigrateStep ==
  ASSUME StoreInv, NEW c \in Conn, CreateTables(c) \/ Upgrade(c)
  PROVE  StoreInv'
  <1>1. conn[c].view = db /\ FileShape(db) /\ writer = c /\ conn[c].pc \in WriteStages
    BY ConnIsSound DEF CreateTables, Upgrade, CurrentIn, WriteStages
  <1>2. CASE CreateTables(c)
    <2> DEFINE v == [db EXCEPT !.format = "chained"]
    <2>1. v = [format |-> "chained", rows |-> db.rows, head |-> db.head, held |-> db.held,
               appended |-> db.appended]
      <3>1. ASSUME NEW x, NEW a, NEW b, NEW h, NEW k, NEW l,
                   x = [format |-> a, rows |-> b, head |-> h, held |-> k, appended |-> l]
            PROVE  [x EXCEPT !.format = "chained"]
                     = [format |-> "chained", rows |-> b, head |-> h, held |-> k, appended |-> l]
        BY <3>1
      <3> QED BY <1>1, <3>1 DEF FileShape
    <2>2. Within(c, "commit", v)
      BY <1>1, <1>2 DEF CreateTables
    <2> HIDE DEF v
    <2>3. FileShape(v) /\ LogOf(v) = LogOf(db) /\ v.held = db.held
      BY <1>1, <2>1 DEF FileShape, LogOf, Taken
    <2> QED BY <1>1, <2>2, <2>3, WorksWithin DEF IsOneOperation
  <1>3. CASE Upgrade(c)
    <2>1. CASE conn[c].view.format = "legacy"
      <3>1. Within(c, "commit", Backfill(db))
        BY <1>1, <1>3, <2>1 DEF Upgrade
      <3> QED BY <1>1, <3>1, BackfillKeepsLogs, WorksWithin DEF IsOneOperation
    <2>2. CASE conn[c].view.format # "legacy"
      <3> DEFINE me == [Closed EXCEPT !.pc = "refusedOpen"]
      <3>1. RollBack(c, me) /\ me.pc = "refusedOpen"
        BY <1>3, <2>2 DEF Upgrade, Closed
      <3> HIDE DEF me
      <3> QED BY <1>1, <3>1, LeavesTransaction
    <2> QED BY <2>1, <2>2
  <1> QED BY <1>2, <1>3

LEMMA WriteRowStep ==
  ASSUME StoreInv, NEW c \in Conn, WriteRow(c)
  PROVE  StoreInv'
  <1> DEFINE call == conn[c].call
             v == AppendRow(db, call.run, call.seq, call.event)
  <1>1. /\ conn[c].pc = "write" /\ conn[c].view = db /\ FileShape(db) /\ writer = c
        /\ conn[c].pc \in WriteStages
        /\ KnowsRow(call) /\ (call.claim # <<>> => KnowsClaim(call))
    BY ConnIsSound DEF WriteRow, CurrentIn, ConnShape, WriteStages
  <1>2. CASE Taken(db, call.run, call.seq)
    <2>1. RollBack(c, Ready) /\ Ready.pc = "ready"
      BY <1>1, <1>2 DEF WriteRow, Ready, Closed
    <2> QED BY <1>1, <2>1, LeavesTransaction
  <1>3. CASE ~Taken(db, call.run, call.seq)
    <2>1. Within(c, IF call.claim = <<>> THEN "commit" ELSE "settle", v)
      BY <1>1, <1>3 DEF WriteRow
    <2>2. FileShape(v) /\ IsAppend(db, v, call.run, call.seq, call.event)
      BY <1>1, <1>3, AppendRowAppends DEF KnowsRow
    <2> HIDE DEF v
    <2>3. IsOneOperation(db, v)
      BY <1>1, <2>2 DEF KnowsRow, IsOneOperation
    <2>4. CASE call.claim = <<>>
      BY <1>1, <2>1, <2>2, <2>3, <2>4, WorksWithin
    <2>5. CASE call.claim # <<>>
      BY <1>1, <2>1, <2>2, <2>5, WorksWithin
    <2> QED BY <2>4, <2>5
  <1> QED BY <1>2, <1>3

\* A statement that touches the commitments only leaves the logs of its view.
LEMMA HeldChanges ==
  ASSUME NEW v, FileShape(v), NEW k \in Ident, NEW x
  PROVE  LET w == [v EXCEPT !.held = [v.held EXCEPT ![k] = x]]
         IN FileShape(w) /\ LogOf(w) = LogOf(v) /\ w.held = [v.held EXCEPT ![k] = x]
            /\ \A r \in Run, s \in Seqs : Taken(w, r, s) <=> Taken(v, r, s)
  <1> DEFINE held == [v.held EXCEPT ![k] = x]
             w == [v EXCEPT !.held = held]
  <1>1. v = [format |-> v.format, rows |-> v.rows, head |-> v.head, held |-> v.held,
             appended |-> v.appended]
    BY DEF FileShape
  <1>2. held = [l \in Ident |-> held[l]]
    BY DEF FileShape
  <1> HIDE DEF held
  <1>3. w = [format |-> v.format, rows |-> v.rows, head |-> v.head, held |-> held,
             appended |-> v.appended]
    BY <1>1
  <1> HIDE DEF w
  <1>4. FileShape(w) /\ LogOf(w) = LogOf(v) /\ w.held = held
        /\ \A r \in Run, s \in Seqs : Taken(w, r, s) <=> Taken(v, r, s)
    BY <1>2, <1>3 DEF FileShape, LogOf, Taken
  <1> QED BY <1>4 DEF w, held

LEMMA SettleStep ==
  ASSUME StoreInv, NEW c \in Conn, Settle(c)
  PROVE  StoreInv'
  <1> DEFINE call == conn[c].call
             view == conn[c].view
             k == call.claim[1]
             x == [view.held[k] EXCEPT !.done = call.seq]
             v == [view EXCEPT !.held = [view.held EXCEPT ![k] = x]]
  <1>1. /\ conn[c].pc = "settle" /\ FileShape(view) /\ FileShape(db) /\ writer = c
        /\ conn[c].pc \in WriteStages
        /\ KnowsRow(call) /\ KnowsClaim(call) /\ call.claim # <<>>
        /\ IsAppend(db, view, call.run, call.seq, call.event)
    BY ConnIsSound DEF Settle, CurrentIn, ConnShape, WriteStages
  <1>2. CASE view.held[k] = [run |-> call.run, intent |-> call.claim[2], done |-> Null]
    <2>1. Within(c, "commit", v)
      BY <1>2 DEF Settle
    <2>2. x = [run |-> call.run, intent |-> call.claim[2], done |-> call.seq]
      BY <1>2
    <2> HIDE DEF x
    <2>3. /\ FileShape(v) /\ LogOf(v) = LogOf(view) /\ v.held = [view.held EXCEPT ![k] = x]
      <3>1. k \in Ident /\ FileShape(view)
        BY <1>1 DEF KnowsClaim
      <3> HIDE DEF view, k
      <3> QED
        BY <3>1, HeldChanges
    <2>4. view.held = db.held /\ LogOf(view) = [LogOf(db) EXCEPT ![call.run][call.seq] = call.event]
          /\ ~Taken(db, call.run, call.seq)
      BY <1>1 DEF IsAppend
    <2>5. [db.held EXCEPT ![k].done = call.seq] = [db.held EXCEPT ![k] = x]
      BY <2>4 DEF x
    <2> HIDE DEF v
    <2>6. IsSettling(db, v, call.run, call.seq, call.event, k, call.claim[2])
      BY <1>2, <2>3, <2>4, <2>5 DEF IsSettling
    <2>7. IsOneOperation(db, v)
      BY <1>1, <2>6 DEF IsOneOperation, KnowsRow, KnowsClaim
    <2> QED BY <1>1, <2>1, <2>3, <2>7, WorksWithin
  <1>3. CASE view.held[k] # [run |-> call.run, intent |-> call.claim[2], done |-> Null]
    <2>1. RollBack(c, Ready) /\ Ready.pc = "ready"
      BY <1>3 DEF Settle, Ready, Closed
    <2> QED BY <1>1, <2>1, LeavesTransaction
  <1> QED BY <1>2, <1>3

LEMMA InsertClaimStep ==
  ASSUME StoreInv, NEW c \in Conn, InsertClaim(c)
  PROVE  StoreInv'
  <1> DEFINE call == conn[c].call
             view == conn[c].view
             k == call.claim[1]
             x == [run |-> call.run, intent |-> call.claim[2], done |-> Null]
             v == [view EXCEPT !.held = [view.held EXCEPT ![k] = x]]
  <1>1. /\ conn[c].pc = "claim" /\ view = db /\ FileShape(view) /\ writer = c
        /\ conn[c].pc \in WriteStages /\ KnowsClaim(call)
    BY ConnIsSound DEF InsertClaim, CurrentIn, ConnShape, WriteStages
  <1>2. CASE view.held[k] = Unclaimed
    <2>1. Within(c, "commit", v)
      BY <1>2 DEF InsertClaim
    <2> HIDE DEF x
    <2>2. FileShape(v) /\ LogOf(v) = LogOf(view) /\ v.held = [view.held EXCEPT ![k] = x]
      BY <1>1, HeldChanges DEF KnowsClaim
    <2> HIDE DEF v
    <2>3. IsClaim(view, v, call.run, call.claim[2], k)
      BY <1>2, <2>2 DEF IsClaim, Unclaimed, x
    <2>4. call.run \in Run
      BY <1>1 DEF KnowsClaim
    <2>5. IsOneOperation(db, v)
      BY <1>1, <2>3, <2>4 DEF IsOneOperation, KnowsClaim
    <2> QED BY <1>1, <2>1, <2>2, <2>5, WorksWithin
  <1>3. CASE view.held[k] # Unclaimed
    <2>1. Within(c, "commit", db)
      BY <1>1, <1>3 DEF InsertClaim
    <2> QED BY <1>1, <2>1, WorksWithin DEF IsOneOperation
  <1> QED BY <1>2, <1>3

LEMMA CommitStep ==
  ASSUME StoreInv, NEW c \in Conn, Commit(c)
  PROVE  StoreInv' /\ IsOneOperation(db, db')
  <1>1. /\ conn[c].pc = "commit" /\ db' = conn[c].view /\ writer = c /\ writer' = NoConn
        /\ FileShape(conn[c].view) /\ IsOneOperation(db, conn[c].view)
        /\ conn' = [conn EXCEPT ![c] = Ready] /\ conn = [a \in Conn |-> conn[a]]
    BY ConnIsSound DEF Commit, CurrentIn, ConnShape, WriteStages, Become, StoreInv
  <1>2. conn'[c] = Ready /\ Ready.pc = "ready" /\ \A a \in Conn \ {c} : conn'[a] = conn[a]
    BY <1>1 DEF Ready, Closed
  <1>3. conn' = [a \in Conn |-> conn'[a]]
    BY <1>1
  <1>4. \A a \in Conn : ConnShape(conn'[a])
    BY <1>2 DEF ConnShape, StoreInv, WriteStages
  <1>5. \A a \in Conn : conn'[a].pc \notin WriteStages
    BY <1>1, <1>2 DEF StoreInv, ViewsAreCurrent, WriteStages
  <1>6. ViewsAreCurrent'
    BY <1>1, <1>5, SqliteAssumption DEF ViewsAreCurrent, WriteStages
  <1> QED BY <1>1, <1>3, <1>4, <1>6 DEF StoreInv

LEMMA CrashStep ==
  ASSUME StoreInv, NEW c \in Conn, Crash(c)
  PROVE  StoreInv'
  <1>1. Become(c, Closed) /\ db' = db /\ writer' = IF writer = c THEN NoConn ELSE writer
    BY DEF Crash
  <1>2. Closed.pc = "closed" /\ ConnShape(Closed) /\ CurrentIn(Closed, db)
    BY DEF Closed, ConnShape, CurrentIn, WriteStages
  <1>3. writer' # c /\ \A a \in Conn \ {c} : writer' = a <=> writer = a
    BY <1>1, SqliteAssumption
  <1> QED BY <1>1, <1>2, <1>3, ConnMoves DEF WriteStages

----------------------------------------------------------------------------
(* Edits, and the theorems.                                                 *)

\* A file whose rows are rewritten cell by cell is still a file.
LEMMA RowsChange ==
  ASSUME FileShape(db), NEW w, NEW rows,
         w = [db EXCEPT !.rows = rows],
         rows = [r \in Run |-> [s \in Seqs |-> rows[r][s]]],
         \A r \in Run, s \in Seqs : /\ IsRow(rows[r][s])
                                    /\ rows[r][s] # NoRow <=> rows[r][s].event # NoEvent
  PROVE  FileShape(w)
  <1>1. w = [format |-> db.format, rows |-> rows, head |-> db.head, held |-> db.held,
             appended |-> db.appended]
    <2>1. db = [format |-> db.format, rows |-> db.rows, head |-> db.head, held |-> db.held,
                appended |-> db.appended]
      BY DEF FileShape
    <2> QED BY <2>1
  <1>2. db.held = [k \in Ident |-> db.held[k]]
    BY DEF FileShape
  <1>3. /\ w = [format |-> w.format, rows |-> w.rows, head |-> w.head, held |-> w.held,
                appended |-> w.appended]
        /\ w.rows = rows /\ w.held = db.held
    BY <1>1
  <1>4. w.rows = [r \in Run |-> [s \in Seqs |-> w.rows[r][s]]] /\ w.held = [k \in Ident |-> w.held[k]]
    BY <1>2, <1>3
  <1>5. \A r \in Run, s \in Seqs : /\ IsRow(w.rows[r][s])
                                   /\ Taken(w, r, s) <=> w.rows[r][s].event # NoEvent
    BY <1>3 DEF Taken
  <1> QED BY <1>3, <1>4, <1>5 DEF FileShape

\* Rewriting one cell.
LEMMA CellChange ==
  ASSUME NEW rows, rows = [q \in Run |-> [t \in Seqs |-> rows[q][t]]],
         NEW r \in Run, NEW s \in Seqs, NEW row
  PROVE  [rows EXCEPT ![r][s] = row]
           = [q \in Run |-> [t \in Seqs |-> IF q = r /\ t = s THEN row ELSE rows[q][t]]]
  <1>1. rows[r] = [t \in Seqs |-> rows[r][t]]
    OBVIOUS
  <1>2. [rows[r] EXCEPT ![s] = row] = [t \in Seqs |-> IF t = s THEN row ELSE rows[r][t]]
    BY <1>1
  <1>3. [rows EXCEPT ![r][s] = row]
          = [q \in Run |-> IF q = r THEN [rows[r] EXCEPT ![s] = row] ELSE rows[q]]
    OBVIOUS
  <1>4. \A q \in Run : rows[q] = [t \in Seqs |-> rows[q][t]]
    OBVIOUS
  <1> QED BY <1>2, <1>3, <1>4

LEMMA RowEdited ==
  ASSUME FileShape(db), NEW r \in Run, NEW s \in Seqs, EditRow(r, s)
  PROVE  FileShape(db')
  <1> DEFINE old(q, t) == db.rows[q][t]
  <1>1. /\ \A q \in Run, t \in Seqs : /\ IsRow(old(q, t))
                                      /\ old(q, t) # NoRow <=> old(q, t).event # NoEvent
        /\ db.rows = [q \in Run |-> [t \in Seqs |-> old(q, t)]]
    <2>1. db.rows = [q \in Run |-> [t \in Seqs |-> db.rows[q][t]]]
      BY DEF FileShape
    <2>2. ASSUME NEW q \in Run, NEW t \in Seqs
          PROVE  IsRow(db.rows[q][t]) /\ (db.rows[q][t] # NoRow <=> db.rows[q][t].event # NoEvent)
      BY DEF FileShape, Taken
    <2> QED BY <2>1, <2>2
  <1>2. NoRow.event = NoEvent /\ IsRow(NoRow)
    BY DEF NoRow, IsRow
  <1>3. ASSUME NEW row, IsRow(row), row # NoRow <=> row.event # NoEvent,
               db' = [db EXCEPT !.rows[r][s] = row]
        PROVE  FileShape(db')
    <2> DEFINE rows == [db.rows EXCEPT ![r][s] = row]
    <2>1. db' = [db EXCEPT !.rows = rows]
      BY <1>3
    <2>2. rows = [q \in Run |-> [t \in Seqs |-> IF q = r /\ t = s THEN row ELSE old(q, t)]]
      BY <1>1, CellChange
    <2> HIDE DEF rows
    <2>3. /\ rows = [q \in Run |-> [t \in Seqs |-> rows[q][t]]]
          /\ \A q \in Run, t \in Seqs : /\ IsRow(rows[q][t])
                                        /\ rows[q][t] # NoRow <=> rows[q][t].event # NoEvent
      BY <1>1, <1>3, <2>2
    <2> QED BY <2>1, <2>3, RowsChange
  <1>4. CASE \E e \in Event : Edit([db EXCEPT !.rows[r][s].event = e])
    <2> PICK e \in Event : Edit([db EXCEPT !.rows[r][s].event = e])
      BY <1>4
    <2> DEFINE row == [event |-> e, idx |-> old(r, s).idx, prev |-> old(r, s).prev,
                       hash |-> old(r, s).hash]
    <2>1. [old(r, s) EXCEPT !.event = e] = row
      <3>1. IsRow(old(r, s))
        BY <1>1
      <3> QED BY <3>1 DEF IsRow
    <2>2. db' = [db EXCEPT !.rows[r][s] = row]
      <3>1. db' = [db EXCEPT !.rows[r][s] = [old(r, s) EXCEPT !.event = e]]
        BY DEF Edit
      <3> QED BY <2>1, <3>1
    <2>3. IsRow(row) /\ row # NoRow /\ row.event # NoEvent
      BY SqliteAssumption DEF IsRow, NoRow
    <2> HIDE DEF row
    <2> QED BY <1>3, <2>2, <2>3
  <1>5. CASE Edit([db EXCEPT !.rows[r][s] = NoRow])
    BY <1>2, <1>3, <1>5 DEF Edit
  <1>6. CASE \E t \in RowsOf(db, r) \ {s} :
               Edit([db EXCEPT !.rows[r][s].idx = db.rows[r][t].idx,
                               !.rows[r][t].idx = db.rows[r][s].idx])
    <2> PICK t \in RowsOf(db, r) \ {s} :
               Edit([db EXCEPT !.rows[r][s].idx = db.rows[r][t].idx,
                               !.rows[r][t].idx = db.rows[r][s].idx])
      BY <1>6
    <2> DEFINE a == [event |-> old(r, s).event, idx |-> old(r, t).idx,
                     prev |-> old(r, s).prev, hash |-> old(r, s).hash]
               b == [event |-> old(r, t).event, idx |-> old(r, s).idx,
                     prev |-> old(r, t).prev, hash |-> old(r, t).hash]
               first == [db.rows EXCEPT ![r][s] = a]
               rows == [first EXCEPT ![r][t] = b]
    <2>1. t \in Seqs /\ t # s /\ Taken(db, r, t) /\ Taken(db, r, s)
      BY DEF RowsOf, EditRow
    <2>2. first = [q \in Run |-> [u \in Seqs |-> IF q = r /\ u = s THEN a ELSE old(q, u)]]
      BY <1>1, CellChange
    <2>3. IsRow(old(r, s)) /\ IsRow(old(r, t))
      BY <1>1, <2>1
    <2>4. /\ a = [old(r, s) EXCEPT !.idx = old(r, t).idx]
          /\ b = [old(r, t) EXCEPT !.idx = old(r, s).idx]
      BY <2>3 DEF IsRow
    <2>5. db' = [db EXCEPT !.rows = rows]
      <3>1. first[r][t] = old(r, t)
        BY <2>1, <2>2
      <3>2. db' = [db EXCEPT !.rows[r][s] = [old(r, s) EXCEPT !.idx = old(r, t).idx],
                             !.rows[r][t].idx = old(r, s).idx]
        BY DEF Edit
      <3>3. db' = [db EXCEPT !.rows[r][s] = a, !.rows[r][t].idx = old(r, s).idx]
        BY <2>4, <3>2
      <3> DEFINE d1 == [db EXCEPT !.rows[r][s] = a]
      <3>4. d1 = [db EXCEPT !.rows = first]
        OBVIOUS
      <3>5. db' = [d1 EXCEPT !.rows[r][t].idx = old(r, s).idx]
        BY <3>3
      <3>6. d1.rows = first
        BY <3>4 DEF FileShape
      <3> HIDE DEF d1, first, a, b
      <3>7. db' = [d1 EXCEPT !.rows = [first EXCEPT ![r][t] = [first[r][t] EXCEPT !.idx = old(r, s).idx]]]
        BY <3>5, <3>6
      <3>8. db' = [d1 EXCEPT !.rows = rows]
        BY <2>4, <3>1, <3>7
      <3> HIDE DEF rows
      <3>9. [d1 EXCEPT !.rows = rows] = [db EXCEPT !.rows = rows]
        BY <3>4 DEF FileShape
      <3> QED BY <3>8, <3>9
    <2>6. IsRow(a) /\ a # NoRow /\ a.event # NoEvent /\ IsRow(b) /\ b # NoRow /\ b.event # NoEvent
      <3>1. old(r, s).event # NoEvent /\ old(r, t).event # NoEvent
        BY <1>1, <2>1 DEF Taken
      <3> QED BY <3>1 DEF IsRow, NoRow
    <2> HIDE DEF a, b
    <2>7. rows = [q \in Run |-> [u \in Seqs |-> IF q = r /\ u = t THEN b ELSE first[q][u]]]
      <3>1. first = [q \in Run |-> [u \in Seqs |-> first[q][u]]]
        BY <2>2
      <3> HIDE DEF first
      <3> QED BY <2>1, <3>1, CellChange
    <2> HIDE DEF first, rows
    <2>8. \A q \in Run, u \in Seqs :
            rows[q][u] = IF q = r /\ u = t THEN b ELSE IF q = r /\ u = s THEN a ELSE old(q, u)
      BY <2>2, <2>7
    <2>9. /\ rows = [q \in Run |-> [u \in Seqs |-> rows[q][u]]]
          /\ \A q \in Run, u \in Seqs : /\ IsRow(rows[q][u])
                                        /\ rows[q][u] # NoRow <=> rows[q][u].event # NoEvent
      BY <1>1, <2>6, <2>7, <2>8
    <2> QED BY <2>5, <2>9, RowsChange
  <1> QED BY <1>4, <1>5, <1>6 DEF EditRow

\* A file that is edited is still a file.
LEMMA EditStep ==
  ASSUME StoreInv, NEW r \in Run, RemoveHead(r) \/ \E s \in Seqs : EditRow(r, s)
  PROVE  StoreInv'
  <1>1. UNCHANGED <<conn, writer>> /\ writer = NoConn
    BY DEF RemoveHead, EditRow, Edit
  <1>2. \A c \in Conn : conn[c].pc \notin WriteStages
    BY <1>1, SqliteAssumption DEF StoreInv, ViewsAreCurrent
  <1>3. ViewsAreCurrent'
    BY <1>1, <1>2, SqliteAssumption DEF ViewsAreCurrent, WriteStages
  <1>4. FileShape(db')
    <2>1. CASE RemoveHead(r)
      <3> DEFINE head == [db.head EXCEPT ![r] = NoHead]
      <3>1. db' = [db EXCEPT !.head = head]
        BY <2>1 DEF RemoveHead, Edit
      <3>2. db = [format |-> db.format, rows |-> db.rows, head |-> db.head, held |-> db.held,
                  appended |-> db.appended]
        BY DEF StoreInv, FileShape
      <3> HIDE DEF head
      <3>3. db' = [format |-> db.format, rows |-> db.rows, head |-> head, held |-> db.held,
                   appended |-> db.appended]
        BY <3>1, <3>2
      <3>4. /\ db' = [format |-> db'.format, rows |-> db'.rows, head |-> db'.head,
                      held |-> db'.held, appended |-> db'.appended]
            /\ db'.rows = db.rows /\ db'.held = db.held
        BY <3>3
      <3> QED BY <3>4 DEF FileShape, Taken, StoreInv
    <2>2. CASE \E s \in Seqs : EditRow(r, s)
      BY <2>2, RowEdited DEF StoreInv
    <2> QED BY <2>1, <2>2
  <1>5. FileShape(db)'
    BY <1>4 DEF FileShape, Taken, IsRow
  <1>6. (\A c \in Conn : ConnShape(conn[c]))' /\ (conn = [c \in Conn |-> conn[c]])'
    BY <1>1 DEF StoreInv, ConnShape
  <1> QED BY <1>3, <1>5, <1>6 DEF StoreInv

LEMMA InitIsSound == Init => StoreInv
  <1> SUFFICES ASSUME Init PROVE StoreInv
    OBVIOUS
  <1> DEFINE cell(r, s) == [NoRow EXCEPT !.event = Inherited[r][s]]
  <1>1. PICK format, appended :
          db = [format |-> format, rows |-> [r \in Run |-> [s \in Seqs |-> cell(r, s)]],
                head |-> [r \in Run |-> NoHead], held |-> [k \in Ident |-> Unclaimed],
                appended |-> appended]
    BY DEF Init
  <1>2. \A r \in Run, s \in Seqs :
          /\ IsRow(cell(r, s)) /\ cell(r, s).event = Inherited[r][s]
          /\ cell(r, s) # NoRow <=> Inherited[r][s] # NoEvent
    BY DEF IsRow, NoRow
  <1> HIDE DEF cell
  <1>3. FileShape(db)
    BY <1>1, <1>2 DEF FileShape, Taken
  <1>4. /\ conn = [c \in Conn |-> conn[c]] /\ writer = NoConn
        /\ \A c \in Conn : conn[c] = Closed
    BY DEF Init
  <1>5. Closed.pc = "closed"
    BY DEF Closed
  <1>6. \A c \in Conn : ConnShape(conn[c])
    BY <1>4, <1>5 DEF ConnShape, WriteStages
  <1>7. ViewsAreCurrent
    BY <1>4, <1>5, SqliteAssumption DEF ViewsAreCurrent, WriteStages
  <1> QED BY <1>3, <1>4, <1>6, <1>7 DEF StoreInv

\* Every step but a commit leaves the committed contents alone, an edit of the
\* file aside.
LEMMA StepIsSound ==
  ASSUME StoreInv, [Next]_vars
  PROVE  /\ StoreInv'
         /\ IsOneOperation(db, db') \/ \E r \in Run : RemoveHead(r) \/ \E s \in Seqs : EditRow(r, s)
  <1>1. ASSUME NEW c \in Conn, Serve(c)
        PROVE  StoreInv' /\ (db' = db \/ Commit(c))
    <2>1. CASE Open(c) \/ GiveUpOpening(c) \/ Answer(c)
      BY <2>1, OpenStep DEF Open, GiveUpOpening, Answer
    <2>2. CASE ReadHead(c) \/ \E r \in Run : ReadRows(c, r)
      BY <2>2, ReadStep DEF ReadHead, ReadRows
    <2>3. CASE \/ BeginMigration(c)
               \/ \E r \in Run, s \in Seqs, e \in Event :
                    \/ BeginAppend(c, r, s, e)
                    \/ \E k \in Ident, i \in Seqs : BeginSettlingAppend(c, r, s, e, k, i)
               \/ \E k \in Ident, r \in Run, i \in Seqs : BeginClaim(c, k, r, i)
      <3>1. db' = db
        BY <2>3 DEF BeginMigration, BeginAppend, BeginSettlingAppend, BeginClaim, Begin
      <3> QED BY <2>3, <3>1, BeginStep
    <2>4. CASE CreateTables(c) \/ Upgrade(c)
      <3>1. db' = db
        BY <2>4 DEF CreateTables, Upgrade, Within, RollBack
      <3> QED BY <2>4, <3>1, MigrateStep
    <2>5. CASE WriteRow(c)
      <3>1. db' = db
        BY <2>5 DEF WriteRow, Within, RollBack
      <3> QED BY <2>5, <3>1, WriteRowStep
    <2>6. CASE Settle(c)
      <3>1. db' = db
        BY <2>6 DEF Settle, Within, RollBack
      <3> QED BY <2>6, <3>1, SettleStep
    <2>7. CASE InsertClaim(c)
      <3>1. db' = db
        BY <2>7 DEF InsertClaim, Within
      <3> QED BY <2>7, <3>1, InsertClaimStep
    <2>8. CASE Commit(c)
      BY <2>8, CommitStep
    <2> QED BY <1>1, <2>1, <2>2, <2>3, <2>4, <2>5, <2>6, <2>7, <2>8 DEF Serve
  <1>2. ASSUME NEW c \in Conn, Serve(c)
        PROVE  IsOneOperation(db, db')
    BY <1>1, <1>2, CommitStep DEF IsOneOperation
  <1>3. ASSUME NEW c \in Conn, Crash(c)
        PROVE  StoreInv' /\ IsOneOperation(db, db')
    <2>1. db' = db
      BY <1>3 DEF Crash
    <2> QED BY <1>3, <2>1, CrashStep DEF IsOneOperation
  <1>4. ASSUME NEW r \in Run, RemoveHead(r) \/ \E s \in Seqs : EditRow(r, s)
        PROVE  StoreInv'
    BY <1>4, EditStep
  <1>5. CASE UNCHANGED vars
    <2>1. db' = db /\ conn' = conn /\ writer' = writer
      BY <1>5 DEF vars
    <2>2. StoreInv'
      <3>1. FileShape(db)' /\ (conn = [c \in Conn |-> conn[c]])'
        BY <2>1 DEF StoreInv
      <3>2. (\A c \in Conn : ConnShape(conn[c]))'
        BY <2>1 DEF StoreInv
      <3>3. ViewsAreCurrent'
        BY <2>1 DEF StoreInv, ViewsAreCurrent
      <3> QED BY <3>1, <3>2, <3>3 DEF StoreInv
    <2> QED BY <2>1, <2>2 DEF IsOneOperation
  <1> QED BY <1>1, <1>2, <1>3, <1>4, <1>5 DEF Next

\* The write lock keeps what a writing transaction began with current until it
\* commits, and what it then publishes is one operation of the contract, for
\* any number of processes on one file, dying at any statement.
THEOREM WritersSeeTheFile == Spec => []ViewsAreCurrent
  <1>1. StoreInv /\ [Next]_vars => StoreInv'
    BY StepIsSound
  <1>2. StoreInv => ViewsAreCurrent
    BY DEF StoreInv
  <1> QED BY InitIsSound, <1>1, <1>2, PTL DEF Spec

\* SqliteStore implements the EventStore contract of store.rs: of a new file
\* that nobody edits, every commit is one append, claim or settling append.
THEOREM SqliteImplementsContract ==
  ASSUME MaxEdits = 0, \A r \in Run, s \in Seqs : Inherited[r][s] = NoEvent
  PROVE  Spec => ImplementsContract
  <1> DEFINE Inv == StoreInv /\ edits \in Nat
  <1>1. Init => Inv
    BY InitIsSound DEF Init
  <1>2. Inv /\ [Next]_vars => Inv' /\ IsOneOperation(db, db')
    <2> SUFFICES ASSUME Inv, [Next]_vars PROVE Inv' /\ IsOneOperation(db, db')
      OBVIOUS
    <2>1. \A r \in Run : ~RemoveHead(r) /\ \A s \in Seqs : ~EditRow(r, s)
      <3>1. ASSUME NEW d PROVE ~Edit(d)
        BY DEF Edit
      <3> QED BY <3>1 DEF RemoveHead, EditRow
    <2>2. UNCHANGED edits
      BY <2>1 DEF Next, vars, Serve, Crash, Open, BeginMigration, CreateTables, Upgrade,
         GiveUpOpening, BeginAppend, BeginSettlingAppend, WriteRow, Settle, BeginClaim,
         InsertClaim, Commit, ReadRows, ReadHead, Answer, Begin, Within, RollBack
    <2> QED BY <2>1, <2>2, StepIsSound
  <1>3. Init => Contract!Init
    <2> SUFFICES ASSUME Init PROVE Contract!Init
      OBVIOUS
    <2>1. \A r \in Run, s \in Seqs : db.rows[r][s].event = NoEvent
      BY DEF Init, NoRow
    <2>2. db.held = [k \in Ident |-> Unclaimed]
      BY DEF Init
    <2> QED BY <2>1, <2>2 DEF Contract!Init, Contract!Seqs, Contract!Unclaimed, Contract!Null,
            Unclaimed, Null, Seqs, LogOf
  <1>4. Inv /\ IsOneOperation(db, db') => [Contract!Next]_(Contract!storeVars)
    <2> SUFFICES ASSUME Inv, IsOneOperation(db, db')
                 PROVE  [Contract!Next]_(Contract!storeVars)
      OBVIOUS
    <2>1. CASE LogOf(db') = LogOf(db) /\ db'.held = db.held
      BY <2>1 DEF Contract!storeVars, LogOf
    <2>2. ASSUME NEW r \in Run, NEW s \in Seqs, ~Taken(db, r, s)
          PROVE  Contract!Free(r, s)
      <3>1. LogOf(db)[r][s] = NoEvent
        BY <2>2 DEF FileShape, StoreInv, LogOf
      <3> QED BY <3>1 DEF Contract!Free, Contract!Seqs, Seqs
    <2>3. ASSUME NEW r \in Run, NEW s \in Seqs, NEW e \in Event, IsAppend(db, db', r, s, e)
          PROVE  Contract!Next
      <3>1. Contract!Append(r, s, e)
        BY <2>2, <2>3 DEF IsAppend, Contract!Append, LogOf
      <3> QED BY <3>1 DEF Contract!Next, Contract!Seqs, Seqs
    <2>4. ASSUME NEW r \in Run, NEW s \in Seqs, NEW e \in Event, NEW k \in Ident,
                 NEW i \in Seqs, IsSettling(db, db', r, s, e, k, i)
          PROVE  Contract!Next
      <3>1. db.held[k].run = r /\ db.held[k].intent = i /\ db.held[k].done = Null
        BY <2>4 DEF IsSettling
      <3>2. Contract!HeldBy(k, r, i) /\ ~Contract!IsSettled(k)
        BY <3>1 DEF Contract!HeldBy, Contract!IsSettled, Contract!Null, Null
      <3>3. Contract!AppendSettlingCall(r, s, e, k, i)
        BY <2>2, <2>4, <3>2 DEF IsSettling, Contract!AppendSettlingCall, LogOf
      <3> QED BY <3>3 DEF Contract!Next, Contract!Seqs, Seqs
    <2>5. ASSUME NEW r \in Run, NEW i \in Seqs, NEW k \in Ident, IsClaim(db, db', r, i, k)
          PROVE  Contract!Next
      <3>1. Contract!ClaimCall(k, r, i)
        BY <2>5 DEF IsClaim, Contract!ClaimCall, Contract!IsClaimed, Contract!Null, Null, LogOf
      <3> QED BY <3>1 DEF Contract!Next, Contract!Seqs, Seqs
    <2> QED BY <2>1, <2>3, <2>4, <2>5 DEF IsOneOperation
  <1> QED BY <1>1, <1>2, <1>3, <1>4, PTL DEF Spec, ImplementsContract, Contract!Spec

=============================================================================
