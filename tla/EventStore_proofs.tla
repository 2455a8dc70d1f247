------------------------- MODULE EventStore_proofs -------------------------
(* What every client of an EventStore may count on, whatever it calls.      *)
EXTENDS EventStore, TLAPS

\* Nothing ever unsettles what SettlementsAreRecorded speaks of.
Recorded == StoreAssumption /\ TypeOK /\ SettlementsAreRecorded

LEMMA AppendKeepsRecorded ==
  ASSUME Recorded, NEW r \in Run, NEW s \in Seqs, NEW e \in Event, Append(r, s, e)
  PROVE  Recorded'
BY DEF Recorded, StoreAssumption, TypeOK, SettlementsAreRecorded, Append, Free, Commitment,
       IsSettled, IsClaimed, Seqs, Null

LEMMA ClaimKeepsRecorded ==
  ASSUME Recorded, NEW k \in Ident, NEW r \in Run, NEW i \in Seqs, ClaimCall(k, r, i)
  PROVE  Recorded'
BY DEF Recorded, StoreAssumption, TypeOK, SettlementsAreRecorded, ClaimCall, Commitment,
       IsSettled, IsClaimed, Seqs, Null

LEMMA SettlingKeepsRecorded ==
  ASSUME Recorded, NEW r \in Run, NEW s \in Seqs, NEW e \in Event, NEW k \in Ident,
         NEW i \in Seqs, AppendSettlingCall(r, s, e, k, i)
  PROVE  Recorded'
BY DEF Recorded, StoreAssumption, TypeOK, SettlementsAreRecorded, AppendSettlingCall, Free,
       HeldBy, Commitment, IsSettled, IsClaimed, Seqs, Null

LEMMA AlwaysRecorded == StoreAssumption /\ Spec => []Recorded
<1>1. StoreAssumption /\ Init => Recorded
  BY DEF Recorded, StoreAssumption, Init, TypeOK, SettlementsAreRecorded, Unclaimed, Commitment,
         IsSettled, IsClaimed, Null
<1>2. Recorded /\ [Next]_storeVars => Recorded'
  <2>1. CASE UNCHANGED storeVars
    BY <2>1 DEF storeVars, Recorded, TypeOK, SettlementsAreRecorded, IsSettled, IsClaimed
  <2>2. CASE Next
    BY <2>2, AppendKeepsRecorded, ClaimKeepsRecorded, SettlingKeepsRecorded DEF Next
  <2> QED BY <2>1, <2>2
<1> QED BY <1>1, <1>2, PTL DEF Spec

\* store.rs, append_settling_call: the completion and the settlement of its
\* commitment are one fact, so a settled identity always has a recorded event.
THEOREM SettledIsRecorded == StoreAssumption /\ Spec => []SettlementsAreRecorded
<1>1. Recorded => SettlementsAreRecorded
  BY DEF Recorded
<1> QED BY <1>1, AlwaysRecorded, PTL

\* store.rs, claim_call: a claim is permanent and nothing releases, moves or
\* unsettles it; and append never rewrites a recorded position.
THEOREM NothingTakenBack == StoreAssumption /\ Spec => NothingIsTakenBack
<1> DEFINE Kept ==
      /\ \A k \in Ident :
           /\ IsClaimed(k) => /\ commit'[k].run = commit[k].run
                              /\ commit'[k].intent = commit[k].intent
           /\ IsSettled(k) => commit'[k].done = commit[k].done
      /\ \A r \in Run, s \in Seqs : log[r][s] # NoEvent => log'[r][s] = log[r][s]
<1>1. Recorded /\ [Next]_storeVars => [Kept]_storeVars
  <2> SUFFICES ASSUME Recorded, Next PROVE Kept
    OBVIOUS
  <2>1. ASSUME NEW r \in Run, NEW s \in Seqs, NEW e \in Event, Append(r, s, e)
        PROVE  Kept
    BY <2>1 DEF Recorded, TypeOK, Append, Free
  <2>2. ASSUME NEW k \in Ident, NEW r \in Run, NEW i \in Seqs, ClaimCall(k, r, i)
        PROVE  Kept
    BY <2>2 DEF Recorded, TypeOK, SettlementsAreRecorded, ClaimCall, IsClaimed, IsSettled
  <2>3. ASSUME NEW r \in Run, NEW s \in Seqs, NEW e \in Event, NEW k \in Ident,
               NEW i \in Seqs, AppendSettlingCall(r, s, e, k, i)
        PROVE  Kept
    BY <2>3 DEF Recorded, TypeOK, Commitment, AppendSettlingCall, Free, IsClaimed, IsSettled
  <2> QED BY <2>1, <2>2, <2>3 DEF Next
<1> QED BY <1>1, AlwaysRecorded, PTL DEF Spec, NothingIsTakenBack

=============================================================================
