----------------------------- MODULE EventStore -----------------------------
(***************************************************************************)
(* The contract of salvor-store's EventStore trait: what every backend      *)
(* promises the runtime.  A log is a set of occupied positions, and a       *)
(* commitment is the store's record of which run owns a (tool, idempotency  *)
(* key) identity and where its completion was recorded.                     *)
(*                                                                          *)
(* Every operation is one atomic step, which is what the contract demands   *)
(* of an implementation; SqliteStore shows how transactions deliver it.     *)
(***************************************************************************)
EXTENDS Integers

CONSTANTS
  Run,       \* run ids
  Ident,     \* identities: (tool, declared idempotency key) pairs
  Event,     \* event payloads
  NoEvent,   \* what a free position holds
  Nobody,    \* the owner of an identity nobody claimed
  MaxSeq     \* bound on log positions

\* What every instance gives: its own assumptions imply it.
StoreAssumption ==
  /\ MaxSeq \in Nat
  /\ NoEvent \notin Event
  /\ Nobody \notin Run

VARIABLES
  log,       \* log[r][s]: the event of run r at position s, or NoEvent
  commit     \* commit[k]: the commitment recorded for identity k

storeVars == <<log, commit>>

Seqs == 0..MaxSeq

\* SQL NULL in a sequence column.
Null == -1

Commitment == [run : Run \cup {Nobody}, intent : Seqs \cup {Null}, done : Seqs \cup {Null}]

Unclaimed == [run |-> Nobody, intent |-> Null, done |-> Null]

TypeOK ==
  /\ log \in [Run -> [Seqs -> Event \cup {NoEvent}]]
  /\ commit \in [Ident -> Commitment]

Init ==
  /\ log = [r \in Run |-> [s \in Seqs |-> NoEvent]]
  /\ commit = [k \in Ident |-> Unclaimed]

Free(r, s) == s \in Seqs /\ log[r][s] = NoEvent

\* The position at s is taken: append answers StoreError::Conflict.
Conflict(r, s) == s \in Seqs /\ log[r][s] # NoEvent

\* n is the position after the last event of a log with no gaps.
IsEnd(L, n) == \A m \in Seqs : L[m] # NoEvent <=> m < n

\* What each answer of claim_call and lookup_call turns on.
IsClaimed(k) == commit[k].run # Nobody
IsSettled(k) == commit[k].done # Null
HeldBy(k, r, i) == commit[k].run = r /\ commit[k].intent = i

\* claim_call answers Claimed: the identity was free, or this claimant already
\* holds it for this very intent and has not settled it.
ClaimAnswersClaimed(k, r, i) == ~IsClaimed(k) \/ (HeldBy(k, r, i) /\ ~IsSettled(k))

----------------------------------------------------------------------------
(* The operations that change the store.                                    *)

Append(r, s, e) ==
  /\ Free(r, s)
  /\ log' = [log EXCEPT ![r][s] = e]
  /\ UNCHANGED commit

ClaimCall(k, r, i) ==
  /\ commit' = IF IsClaimed(k) THEN commit
               ELSE [commit EXCEPT ![k] = [run |-> r, intent |-> i, done |-> Null]]
  /\ UNCHANGED log

\* Appends a completion and settles the claimant's commitment at its position.
\* Nothing happens unless the claimant holds the identity unsettled.
AppendSettlingCall(r, s, e, k, i) ==
  /\ Free(r, s)
  /\ HeldBy(k, r, i)
  /\ ~IsSettled(k)
  /\ log' = [log EXCEPT ![r][s] = e]
  /\ commit' = [commit EXCEPT ![k].done = s]

Next ==
  \/ \E r \in Run, s \in Seqs, e \in Event : Append(r, s, e)
  \/ \E k \in Ident, r \in Run, i \in Seqs : ClaimCall(k, r, i)
  \/ \E r \in Run, s \in Seqs, e \in Event, k \in Ident, i \in Seqs :
       AppendSettlingCall(r, s, e, k, i)

Spec == Init /\ [][Next]_storeVars

----------------------------------------------------------------------------
(* What the contract gives every client.                                    *)

\* The head of one run's log and the commitments never contradict each other:
\* a settled commitment points at a recorded event of its holder.
SettlementsAreRecorded ==
  \A k \in Ident :
    IsSettled(k) => IsClaimed(k) /\ log[commit[k].run][commit[k].done] # NoEvent

\* "A claim is permanent: nothing releases it", and nothing moves or unsettles
\* it either; a recorded position is never rewritten.
NothingIsTakenBack ==
  [][/\ \A k \in Ident :
          /\ IsClaimed(k) => /\ commit'[k].run = commit[k].run
                             /\ commit'[k].intent = commit[k].intent
          /\ IsSettled(k) => commit'[k].done = commit[k].done
     /\ \A r \in Run, s \in Seqs : log[r][s] # NoEvent => log'[r][s] = log[r][s]
    ]_storeVars

=============================================================================
