---------------------------- MODULE SqliteStore ----------------------------
(***************************************************************************)
(* salvor-store's SqliteStore: an EventStore over one SQLite file that       *)
(* several processes open.  A connection's methods are sequences of SQL      *)
(* statements; a transaction that writes takes the file's write lock at      *)
(* BEGIN (IMMEDIATE), works on its own view and publishes it at COMMIT, and  *)
(* one that reads keeps the view it began with.  Each row carries the hash   *)
(* chain of its run and each run has a recorded head, which read_log checks. *)
(*                                                                           *)
(* SHA-256 is modelled as free of collisions: a digest is the sequence of    *)
(* what was hashed.  A wait for the write lock that times out answers an     *)
(* error and changes nothing, so it is a stutter here, as are the reads of   *)
(* one statement (list_runs, lookup_call, chain_heads).                      *)
(***************************************************************************)
EXTENDS Integers, Sequences, FiniteSets

CONSTANTS
  Run,        \* run ids
  Ident,      \* identities: (tool, idempotency key) pairs
  Event,      \* serialized envelopes
  NoEvent,    \* no envelope
  Nobody,     \* no run
  Conn,       \* connections, one per process
  NoConn,     \* nobody holds the write lock
  Inherited,  \* Inherited[r][s]: the rows a binary without the chain left
  MaxSeq,     \* bound on log positions
  MaxEdits    \* bound on edits made to the file behind the store's back

Seqs == 0..MaxSeq
Null == -1

ASSUME SqliteAssumption ==
  /\ MaxSeq \in Nat
  /\ MaxEdits \in Nat
  /\ NoEvent \notin Event
  /\ Nobody \notin Run
  /\ NoConn \notin Conn
  /\ Inherited \in [Run -> [Seqs -> Event \cup {NoEvent}]]

VARIABLES
  db,        \* the committed contents of the file
  conn,      \* conn[c]: the state of connection c
  writer,    \* the connection inside a writing transaction
  edits      \* edits so far

vars == <<db, conn, writer, edits>>

----------------------------------------------------------------------------
(* Rows, chains and the file.                                               *)

\* What row_hash covers besides the previous hash.
Cell(r, s, e) == <<r, s, e>>
Digest == Seq(Run \X Seqs \X Event)
Genesis == <<>>
RowHash(prev, r, s, e) == Append(prev, Cell(r, s, e))

\* A row of a file from before the chain has no chain columns: its idx is Null.
Row == [event : Event, idx : Nat \cup {Null}, prev : Digest, hash : Digest]
NoRow == [event |-> NoEvent, idx |-> Null, prev |-> Genesis, hash |-> Genesis]

\* A missing head row reads as length 0 over the genesis hash.
ChainHead == [len : Nat, hash : Digest]
NoHead == [len |-> 0, hash |-> Genesis]

Commitment == [run : Run \cup {Nobody}, intent : Seqs \cup {Null}, done : Seqs \cup {Null}]
Unclaimed == [run |-> Nobody, intent |-> Null, done |-> Null]

\* A file: its "format", its "rows" and "head" by run, and the claims "held".
\* "appended" is the history the store does not keep: what was appended to
\* each run, in order.  No statement reads it.

Taken(d, r, s) == d.rows[r][s] # NoRow
RowsOf(d, r) == {s \in Seqs : Taken(d, r, s)}

\* What a reader of the rows sees of the logs.
LogOf(d) == [r \in Run |-> [s \in Seqs |-> d.rows[r][s].event]]

\* How many rows of r stand below position s.
Rank(d, r, s) == Cardinality({t \in RowsOf(d, r) : t < s})

\* The rows of r below position s, in sequence order, as a chain over them
\* hashes them.
ChainBelow(d, r, s) ==
  [i \in 1..Rank(d, r, s) |->
     LET t == CHOOSE t \in RowsOf(d, r) : Rank(d, r, t) = i - 1
     IN Cell(r, t, d.rows[r][t].event)]

----------------------------------------------------------------------------
(* chain::verify, over the rows in chain_idx order.                         *)

\* The rows that come before s when the rows of r are read in chain order.
Earlier(d, r, s) == {t \in RowsOf(d, r) : d.rows[r][t].idx < d.rows[r][s].idx}

IsLatest(d, r, t, S) == t \in S /\ \A u \in S : d.rows[r][u].idx <= d.rows[r][t].idx

\* h is the running hash after the rows S: genesis, or the hash of the latest.
Running(d, r, S, h) ==
  \/ S = {} /\ h = Genesis
  \/ \E t \in S : IsLatest(d, r, t, S) /\ h = d.rows[r][t].hash

\* Two rows with one chain_idx cannot both continue the row before them.
LinksHold(d, r) ==
  \A s \in RowsOf(d, r) :
    LET row == d.rows[r][s] IN
    /\ Running(d, r, Earlier(d, r, s), row.prev)
    /\ row.hash = RowHash(row.prev, r, s, row.event)
    /\ \A t \in RowsOf(d, r) \ {s} : d.rows[r][t].idx # row.idx

HeadHolds(d, r) ==
  /\ Running(d, r, RowsOf(d, r), d.head[r].hash)
  /\ d.head[r].len = Cardinality(RowsOf(d, r))

Verifies(d, r) == LinksHold(d, r) /\ HeadHolds(d, r)

----------------------------------------------------------------------------
(* Connections.                                                             *)

\* The call in progress: its run, position and envelope, and for a settling
\* append or a claim the identity and the position of its intent.
NoCall == [run |-> Nobody, seq |-> Null, event |-> NoEvent, claim |-> <<>>]
Closed == [pc |-> "closed", call |-> NoCall, legacy |-> FALSE]
Ready == [Closed EXCEPT !.pc = "ready"]

\* A connection inside a transaction has, besides, the view it works on.
InTransaction(pc, call, view) == [pc |-> pc, call |-> call, view |-> view]

Become(c, state) == conn' = [conn EXCEPT ![c] = state]

Init ==
  /\ LET inherits == \E r \in Run, s \in Seqs : Inherited[r][s] # NoEvent
         old == [rows |-> [r \in Run |-> [s \in Seqs |->
                   [NoRow EXCEPT !.event = Inherited[r][s]]]]]
     IN db = [format |-> IF inherits THEN "legacy" ELSE "empty",
              rows |-> old.rows,
              head |-> [r \in Run |-> NoHead],
              held |-> [k \in Ident |-> Unclaimed],
              appended |-> [r \in Run |-> ChainBelow(old, r, MaxSeq + 1)]]
  /\ conn = [c \in Conn |-> Closed]
  /\ writer = NoConn
  /\ edits = 0

\* Mutant: BEGIN DEFERRED.
BeginDeferred(c, pc, call) ==
  /\ writer' = c
  /\ Become(c, InTransaction(pc, call, db))
  /\ UNCHANGED <<db, edits>>

\* BEGIN IMMEDIATE: waits for the write lock, then reads what is committed.
Begin(c, pc, call) ==
  /\ writer = NoConn
  /\ writer' = c
  /\ Become(c, InTransaction(pc, call, db))
  /\ UNCHANGED <<db, edits>>

\* A statement inside the transaction changes the connection's view only.
Within(c, pc, view) ==
  /\ Become(c, InTransaction(pc, conn[c].call, view))
  /\ UNCHANGED <<db, writer, edits>>

\* The transaction is dropped unwritten, and the connection is left at state.
RollBack(c, state) ==
  /\ writer' = NoConn
  /\ Become(c, state)
  /\ UNCHANGED <<db, edits>>

Commit(c) ==
  /\ conn[c].pc = "commit"
  /\ db' = conn[c].view
  /\ writer' = NoConn
  /\ Become(c, Ready)
  /\ UNCHANGED edits

----------------------------------------------------------------------------
(* SqliteStore::open and its migration.                                     *)

\* Whether the file is a legacy one is read before the transaction.
Open(c) ==
  /\ conn[c].pc = "closed"
  /\ Become(c, [Closed EXCEPT !.pc = "found", !.legacy = (db.format = "legacy")])
  /\ UNCHANGED <<db, writer, edits>>

BeginMigration(c) ==
  /\ conn[c].pc = "found"
  /\ Begin(c, IF conn[c].legacy THEN "upgrade" ELSE "create", NoCall)

\* CREATE TABLE IF NOT EXISTS; the commitments of a legacy file start empty.
CreateTables(c) ==
  /\ conn[c].pc = "create"
  /\ Within(c, "commit", [conn[c].view EXCEPT !.format = "chained"])

\* Mutant: the chain goes on from one run into the next.
BackfillThrough(d) ==
  [d EXCEPT
    !.format = "chained",
    !.rows = [r \in Run |-> [s \in Seqs |->
      IF ~Taken(d, r, s) THEN NoRow
      ELSE LET prev == IF ChainBelow(d, r, s) = Genesis
                         THEN ChainBelow(d, CHOOSE q \in Run : TRUE, MaxSeq + 1)
                         ELSE ChainBelow(d, r, s)
           IN [event |-> d.rows[r][s].event, idx |-> Len(ChainBelow(d, r, s)), prev |-> prev,
               hash |-> RowHash(prev, r, s, d.rows[r][s].event)]]],
    !.head = [r \in Run |-> LET all == ChainBelow(d, r, MaxSeq + 1)
                            IN [len |-> Len(all), hash |-> all]]]

\* backfill_chain: the chain the rows would carry had they been appended in
\* sequence order.
Backfill(d) ==
  [d EXCEPT
    !.format = "chained",
    !.rows = [r \in Run |-> [s \in Seqs |->
      IF ~Taken(d, r, s) THEN NoRow
      ELSE LET prev == ChainBelow(d, r, s)
               e == d.rows[r][s].event
           IN [event |-> e, idx |-> Len(prev), prev |-> prev, hash |-> RowHash(prev, r, s, e)]]],
    !.head = [r \in Run |-> LET all == ChainBelow(d, r, MaxSeq + 1)
                            IN [len |-> Len(all), hash |-> all]]]

\* ADD COLUMN fails if another connection has added the columns since.
Upgrade(c) ==
  /\ conn[c].pc = "upgrade"
  /\ IF conn[c].view.format = "legacy"
       THEN Within(c, "commit", Backfill(conn[c].view))
       ELSE RollBack(c, [Closed EXCEPT !.pc = "refusedOpen"])

\* The caller gets the error and may open again.
GiveUpOpening(c) ==
  /\ conn[c].pc = "refusedOpen"
  /\ Become(c, Closed)
  /\ UNCHANGED <<db, writer, edits>>

----------------------------------------------------------------------------
(* append, append_settling_call and claim_call.                             *)

BeginAppend(c, r, s, e) ==
  /\ conn[c].pc = "ready"
  /\ Begin(c, "write", [run |-> r, seq |-> s, event |-> e, claim |-> <<>>])

BeginSettlingAppend(c, r, s, e, k, i) ==
  /\ conn[c].pc = "ready"
  /\ Begin(c, "write", [run |-> r, seq |-> s, event |-> e, claim |-> <<k, i>>])

\* Mutant: the chain follows sequence order.
AppendInSequence(d, r, s, e) ==
  LET prev == ChainBelow(d, r, s)
      hash == RowHash(prev, r, s, e)
  IN [d EXCEPT
       !.rows[r][s] = [event |-> e, idx |-> Len(prev), prev |-> prev, hash |-> hash],
       !.head[r] = [len |-> @.len + 1, hash |-> hash],
       !.appended[r] = Append(@, Cell(r, s, e))]

\* The row is chained onto the recorded head, which advances over it.
AppendRow(d, r, s, e) ==
  LET head == d.head[r]
      hash == RowHash(head.hash, r, s, e)
  IN [d EXCEPT
       !.rows[r][s] = [event |-> e, idx |-> head.len, prev |-> head.hash, hash |-> hash],
       !.head[r] = [len |-> head.len + 1, hash |-> hash],
       !.appended[r] = Append(@, Cell(r, s, e))]

\* write_row: a taken position rolls the transaction back (Conflict).
WriteRow(c) ==
  LET call == conn[c].call
      d == conn[c].view
  IN
  /\ conn[c].pc = "write"
  /\ IF Taken(d, call.run, call.seq)
       THEN RollBack(c, Ready)
       ELSE Within(c, IF call.claim = <<>> THEN "commit" ELSE "settle",
                   AppendRow(d, call.run, call.seq, call.event))

\* Mutant: the UPDATE names the identity and not its claimant.
SettleWhoever(c) ==
  /\ conn[c].pc = "settle"
  /\ Within(c, "commit", [conn[c].view EXCEPT !.held[conn[c].call.claim[1]].done = conn[c].call.seq])

\* The UPDATE narrowed to the claimant's own unsettled row; matching none rolls
\* the appended row back with it.
Settle(c) ==
  LET call == conn[c].call
      k == call.claim[1]
      held == conn[c].view.held[k]
  IN
  /\ conn[c].pc = "settle"
  /\ IF held = [run |-> call.run, intent |-> call.claim[2], done |-> Null]
       THEN Within(c, "commit", [conn[c].view EXCEPT !.held[k].done = call.seq])
       ELSE RollBack(c, Ready)

BeginClaim(c, k, r, i) ==
  /\ conn[c].pc = "ready"
  /\ Begin(c, "claim", [run |-> r, seq |-> Null, event |-> NoEvent, claim |-> <<k, i>>])

\* INSERT ... ON CONFLICT DO NOTHING, then the row as it stands is read back.
InsertClaim(c) ==
  LET call == conn[c].call
      d == conn[c].view
      k == call.claim[1]
  IN
  /\ conn[c].pc = "claim"
  /\ Within(c, "commit",
       IF d.held[k] = Unclaimed
         THEN [d EXCEPT !.held[k] = [run |-> call.run, intent |-> call.claim[2], done |-> Null]]
         ELSE d)

----------------------------------------------------------------------------
(* read_log: one DEFERRED transaction over the rows and the head.           *)

ReadRows(c, r) ==
  /\ conn[c].pc = "ready"
  /\ Become(c, InTransaction("head", [NoCall EXCEPT !.run = r], db))
  /\ UNCHANGED <<db, writer, edits>>

\* Mutant: the head is read in a transaction of its own.
ReadHeadAfresh(c) ==
  LET r == conn[c].call.run
      d == [conn[c].view EXCEPT !.head = db.head]
  IN
  /\ conn[c].pc = "head"
  /\ Become(c, [conn[c] EXCEPT !.pc = IF Verifies(d, r) THEN "served" ELSE "refused"])
  /\ UNCHANGED <<db, writer, edits>>

\* Mutant: only the links are checked.
ReadLinksOnly(c) ==
  LET r == conn[c].call.run IN
  /\ conn[c].pc = "head"
  /\ Become(c, [conn[c] EXCEPT !.pc = IF LinksHold(conn[c].view, r) THEN "served" ELSE "refused"])
  /\ UNCHANGED <<db, writer, edits>>

ReadHead(c) ==
  LET r == conn[c].call.run IN
  /\ conn[c].pc = "head"
  /\ Become(c, [conn[c] EXCEPT !.pc = IF Verifies(conn[c].view, r) THEN "served" ELSE "refused"])
  /\ UNCHANGED <<db, writer, edits>>

Answer(c) ==
  /\ conn[c].pc \in {"served", "refused"}
  /\ Become(c, Ready)
  /\ UNCHANGED <<db, writer, edits>>

----------------------------------------------------------------------------
(* What is not the store's doing.                                           *)

\* A process dies: its lock is released and what it did not commit is gone.
Crash(c) ==
  /\ conn[c].pc # "closed"
  /\ Become(c, Closed)
  /\ writer' = IF writer = c THEN NoConn ELSE writer
  /\ UNCHANGED <<db, edits>>

\* An edit of the file by other means than append: one row's envelope
\* rewritten, two rows exchanged in append order, a row or a head removed.
Edit(d) ==
  /\ writer = NoConn
  /\ edits < MaxEdits
  /\ db.format = "chained"
  /\ db' = d
  /\ edits' = edits + 1
  /\ UNCHANGED <<conn, writer>>

EditRow(r, s) ==
  /\ Taken(db, r, s)
  /\ \/ \E e \in Event \ {db.rows[r][s].event} : Edit([db EXCEPT !.rows[r][s].event = e])
     \/ Edit([db EXCEPT !.rows[r][s] = NoRow])
     \/ \E t \in RowsOf(db, r) \ {s} :
          Edit([db EXCEPT !.rows[r][s].idx = db.rows[r][t].idx,
                          !.rows[r][t].idx = db.rows[r][s].idx])

RemoveHead(r) ==
  /\ db.head[r] # NoHead
  /\ Edit([db EXCEPT !.head[r] = NoHead])

----------------------------------------------------------------------------

Serve(c) ==
  \/ Open(c) \/ BeginMigration(c) \/ CreateTables(c) \/ Upgrade(c) \/ GiveUpOpening(c)
  \/ \E r \in Run, s \in Seqs, e \in Event :
       \/ BeginAppend(c, r, s, e)
       \/ \E k \in Ident, i \in Seqs : BeginSettlingAppend(c, r, s, e, k, i)
  \/ WriteRow(c) \/ Settle(c)
  \/ \E k \in Ident, r \in Run, i \in Seqs : BeginClaim(c, k, r, i)
  \/ InsertClaim(c) \/ Commit(c)
  \/ \E r \in Run : ReadRows(c, r)
  \/ ReadHead(c) \/ Answer(c)

Next ==
  \/ \E c \in Conn : Serve(c) \/ Crash(c)
  \/ \E r \in Run : RemoveHead(r) \/ \E s \in Seqs : EditRow(r, s)

Spec == Init /\ [][Next]_vars

----------------------------------------------------------------------------
(* Properties.                                                              *)

\* read_log never reports an untouched log as tampered, whatever other
\* connections append, roll back or migrate between its two SELECTs and
\* whatever order positions were taken in.
NoFalseAlarm == \A c \in Conn : conn[c].pc = "refused" => edits > 0

\* A log that is served is exactly what was appended to the run when the read
\* began, though the file may have been edited: a modified, reordered or
\* removed row is never served, nor hidden by honest appends after it.
ServedIsAppended ==
  \A c \in Conn :
    conn[c].pc = "served" =>
      LET r == conn[c].call.run
          d == conn[c].view
      IN {Cell(r, s, d.rows[r][s].event) : s \in RowsOf(d, r)}
           = {d.appended[r][i] : i \in 1..Len(d.appended[r])}

\* chain_hash_at: the hash of the row at position len in append order.
PassesThrough(d, r, head) ==
  head.len > 0 =>
    \E s \in RowsOf(d, r) : d.rows[r][s].idx = head.len - 1 /\ d.rows[r][s].hash = head.hash

\* An anchor taken at any moment holds at every later one: a run's chain goes
\* on passing through every head it ever had.
AnchorsHold ==
  [][\A r \in Run : edits' = 0 => /\ PassesThrough(db', r, db.head[r])
                                  /\ db'.head[r].len >= db.head[r].len]_vars

\* store.rs, the implementor contract, as EventStore states it: each committed
\* transaction is one of the contract's operations.
Contract == INSTANCE EventStore WITH log <- LogOf(db), commit <- db.held

ImplementsContract == Contract!Spec

----------------------------------------------------------------------------
(* The inductive invariant behind ImplementsContract: what a writing         *)
(* transaction has made of the file is one operation on what is committed.   *)

IsAppend(d, v, r, s, e) ==
  /\ ~Taken(d, r, s)
  /\ LogOf(v) = [LogOf(d) EXCEPT ![r][s] = e]
  /\ v.held = d.held

IsClaim(d, v, r, i, k) ==
  /\ LogOf(v) = LogOf(d)
  /\ d.held[k].run = Nobody
  /\ v.held = [d.held EXCEPT ![k] = [run |-> r, intent |-> i, done |-> Null]]

IsSettling(d, v, r, s, e, k, i) ==
  /\ ~Taken(d, r, s)
  /\ LogOf(v) = [LogOf(d) EXCEPT ![r][s] = e]
  /\ d.held[k] = [run |-> r, intent |-> i, done |-> Null]
  /\ v.held = [d.held EXCEPT ![k].done = s]

IsOneOperation(d, v) ==
  \/ LogOf(v) = LogOf(d) /\ v.held = d.held
  \/ \E r \in Run, s \in Seqs, e \in Event :
       \/ IsAppend(d, v, r, s, e)
       \/ \E k \in Ident, i \in Seqs : IsSettling(d, v, r, s, e, k, i)
  \/ \E r \in Run, i \in Seqs, k \in Ident : IsClaim(d, v, r, i, k)

WriteStages == {"create", "upgrade", "write", "settle", "claim", "commit"}

\* The write lock keeps what a writing transaction began with current until it
\* commits, and the transaction is one operation of the contract or none.
ViewsAreCurrent ==
  \A c \in Conn :
    LET me == conn[c] IN
    /\ me.pc \in WriteStages <=> writer = c
    /\ me.pc \in {"create", "upgrade", "write", "claim"} => me.view = db
    /\ me.pc = "settle" => IsAppend(db, me.view, me.call.run, me.call.seq, me.call.event)
    /\ me.pc = "commit" => IsOneOperation(db, me.view)

=============================================================================
