----------------------- MODULE ToolCallClaims_proofs -----------------------
(***************************************************************************)
(* Proofs about ToolCall, continued: the logs stay replayable, the claims   *)
(* of the store and the logs of the runs tell one story of every keyed      *)
(* call, and a copied answer is the holder's.                               *)
(***************************************************************************)
EXTENDS ToolCall_proofs

----------------------------------------------------------------------------
(* Reading a log that is replayable.                                        *)

\* The state the lemmas start from, typed.
LEMMA Typed ==
  ASSUME IInv
  PROVE  /\ log \in [Run -> [Seqs -> Event \cup {NoEvent}]]
         /\ commit \in [Ident -> Store!Commitment]
         /\ proc \in [Proc -> Driver]
         /\ NoEvent \notin Event
         /\ Nobody \notin Run
         /\ NoIdent \notin Ident
         /\ MaxSeq \in Nat
         /\ Store!Seqs = Seqs
         /\ Store!Null = Null
         /\ Null \notin Seqs
  BY ToolCallAssumption, NoEventAssumption
  DEF IInv, TypeOK, Store!TypeOK, Store!Seqs, Seqs, Store!Null, Null

\* A replayable log has no gaps.
LEMMA NoGaps ==
  ASSUME LogReplayable, NEW r \in Run, NEW s \in Seqs, NEW t \in Seqs,
         log[r][s] # NoEvent, t <= s
  PROVE  log[r][t] # NoEvent
  <1>1. PICK n \in Ends : Store!IsEnd(log[r], n)
    BY DEF LogReplayable
  <1> QED
    BY <1>1, ToolCallAssumption DEF Store!IsEnd, Store!Seqs, Seqs, Ends

\* A completion answers the intent that it names, recorded before it.
LEMMA CompletionAnswers ==
  ASSUME LogReplayable, NEW r \in Run, NEW d, NEW s, IsCompletionOf(r, d, s)
  PROVE  /\ d \in Seqs /\ s \in Seqs /\ s < d
         /\ IsIntent(r, s)
         /\ log[r][s].call = log[r][d].call
  <1>1. d \in Seqs /\ log[r][d] # NoEvent /\ log[r][d].kind = "ToolCallCompleted" /\ log[r][d].at = s
    BY DEF IsCompletionOf
  <1>2. d # 0
    BY <1>1 DEF LogReplayable
  <1>3. PICK m \in Seqs : Before(r, d, m) /\ MayFollow(r, m, log[r][d])
    BY <1>1, <1>2 DEF LogReplayable
  <1>4. /\ m < d /\ log[r][m].kind = "ToolCallRequested"
        /\ s = m /\ log[r][m].call = log[r][d].call
    BY <1>1, <1>3 DEF Before, MayFollow
  <1>5. log[r][m] # NoEvent
    BY <1>1, <1>4, NoGaps, ToolCallAssumption DEF Seqs
  <1> QED
    BY <1>1, <1>4, <1>5 DEF IsIntent

\* While the position after an intent and its marks is free, nobody completed it.
LEMMA NoCompletionYet ==
  ASSUME LogReplayable, NEW r \in Run, NEW n \in Seqs, NEW s \in Seqs,
         log[r][n] = NoEvent, Before(r, n, s), NEW d, IsCompletionOf(r, d, s)
  PROVE  FALSE
  <1>1. d \in Seqs /\ s < d /\ log[r][d] # NoEvent /\ log[r][d].kind = "ToolCallCompleted"
    BY CompletionAnswers DEF IsCompletionOf
  <1>2. d < n
    BY <1>1, NoGaps, ToolCallAssumption DEF Seqs
  <1>3. d \in s + 1 .. n - 1
    BY <1>1, <1>2, ToolCallAssumption DEF Seqs
  <1> QED
    BY <1>1, <1>3 DEF Before

\* Every keyed intent in a log is under a claim, its own run's or another's.
LEMMA IntentsAreClaimed ==
  ASSUME StoreAgrees, NEW r \in Run, NEW s, IsIntent(r, s), Keyed(r, log[r][s].call),
         Identity(r, log[r][s].call) \in Ident
  PROVE  Store!IsClaimed(Identity(r, log[r][s].call))
  <1>1. s \in Seqs
    BY DEF IsIntent
  <1> QED
    BY <1>1, ToolCallAssumption
    DEF StoreAgrees, ClaimsAgree, NoIntentWhileInFlight, SettledAreClaimed, Store!HeldBy,
        Store!IsClaimed

----------------------------------------------------------------------------
(* What an operation on the store does to what the claims and the logs say. *)

\* A settled commitment never changes again.
Settles == \A k \in Ident : Store!IsSettled(k) => commit'[k] = commit[k]

\* No store operation changes a settled commitment, and none settles an
\* identity nobody claimed.
LEMMA StoreSettles ==
  ASSUME IInv, SettledAreClaimed, [Store!Next]_storeVars
  PROVE  Settles /\ SettledAreClaimed'
  <1> USE Typed DEF Settles, SettledAreClaimed, Store!IsSettled, Store!IsClaimed
  <1>1. ASSUME NEW r \in Run, NEW s \in Store!Seqs, NEW e \in Event, Store!Append(r, s, e)
        PROVE  Settles /\ SettledAreClaimed'
    BY <1>1 DEF Store!Append
  <1>2. ASSUME NEW k \in Ident, NEW r \in Run, NEW i \in Store!Seqs, Store!ClaimCall(k, r, i)
        PROVE  Settles /\ SettledAreClaimed'
    BY <1>2, ToolCallAssumption DEF Store!ClaimCall
  <1>3. ASSUME NEW r \in Run, NEW s \in Store!Seqs, NEW e \in Event, NEW k \in Ident,
               NEW i \in Store!Seqs, Store!AppendSettlingCall(r, s, e, k, i)
        PROVE  Settles /\ SettledAreClaimed'
    BY <1>3, ToolCallAssumption DEF Store!AppendSettlingCall, Store!HeldBy, Store!Commitment
  <1>4. CASE UNCHANGED storeVars
    BY <1>4 DEF storeVars
  <1> QED
    BY <1>1, <1>2, <1>3, <1>4 DEF Store!Next

\* The origin of a settled identity is an intent and has a completion, both in
\* the log of the holder.
LEMMA HolderIsRecorded ==
  ASSUME IInv, StoreAgrees, NEW k \in Ident, Store!IsSettled(k)
  PROVE  /\ commit[k].run \in Run
         /\ commit[k].intent \in Seqs /\ commit[k].done \in Seqs
         /\ IntentOf(commit[k].run, commit[k].intent, k)
         /\ IsCompletionOf(commit[k].run, commit[k].done, commit[k].intent)
         /\ log[commit[k].run][commit[k].done].from = NoOrigin
         /\ log[commit[k].run][commit[k].intent] # NoEvent
         /\ log[commit[k].run][commit[k].done] # NoEvent
  <1>1. Store!IsClaimed(k)
    BY DEF StoreAgrees, SettledAreClaimed
  <1>2. commit[k].run \in Run
    BY <1>1, Typed DEF Store!IsClaimed, Store!Commitment
  <1>3. /\ IntentOf(commit[k].run, commit[k].intent, k)
        /\ IsCompletionOf(commit[k].run, commit[k].done, commit[k].intent)
        /\ log[commit[k].run][commit[k].done].from = NoOrigin
    BY <1>1 DEF StoreAgrees, ClaimsAgree, SettledIffCompleted
  <1> QED
    BY <1>2, <1>3 DEF IntentOf, IsIntent, IsCompletionOf

\* What a copy repeats stays as it was.
LEMMA RepeatsIsStable ==
  ASSUME IInv, StoreAgrees, Grows, Settles,
         NEW r \in Run, NEW c \in Calls(r), NEW from, NEW out
  PROVE  /\ IsOrigin(r, c, from) => IsOrigin(r, c, from)'
         /\ Repeats(r, c, from, out) => Repeats(r, c, from, out)'
  <1> SUFFICES ASSUME IsOrigin(r, c, from)
               PROVE  /\ IsOrigin(r, c, from)'
                      /\ Repeats(r, c, from, out) => Repeats(r, c, from, out)'
    BY DEF Repeats
  <1> DEFINE k == Identity(r, c)
             held == commit[k]
  <1>1. k \in Ident /\ Store!IsSettled(k)
    BY CallsAreTyped DEF IsOrigin
  <1>2. commit'[k] = commit[k]
    BY <1>1 DEF Settles
  <1>3. IsOrigin(r, c, from)'
    BY <1>1, <1>2 DEF IsOrigin, Store!IsSettled
  <1>4. /\ log'[held.run][held.intent] = log[held.run][held.intent]
        /\ log'[held.run][held.done] = log[held.run][held.done]
    BY <1>1, HolderIsRecorded DEF Grows
  <1> HIDE DEF k
  <1> QED
    BY <1>2, <1>3, <1>4 DEF Repeats, k

\* What the store says only changes when the store does.
LEMMA StoreUntouched ==
  ASSUME StoreAgrees, UNCHANGED storeVars
  PROVE  StoreAgrees'
  <1> USE DEF storeVars
  <1>1. SettledAreClaimed' /\ ClaimsAgree'
    BY DEF StoreAgrees, SettledAreClaimed, ClaimsAgree, NoIntentWhileInFlight,
           SettledIffCompleted, Store!IsSettled, Store!IsClaimed, Store!HeldBy,
           IntentOf, IsIntent, IsCompletionOf
  <1>2. LogReplayable'
    BY DEF StoreAgrees, LogReplayable, Before, MayFollow, AsksNext, AsksNoMore, Store!IsEnd
  <1>3. CopiesRepeat'
    BY DEF StoreAgrees, CopiesRepeat, Repeats, IsOrigin, Store!IsSettled
  <1> QED
    BY <1>1, <1>2, <1>3 DEF StoreAgrees

\* claim_call changes only what is said of an identity nobody claimed, and of
\* such an identity no log holds an intent.
LEMMA ClaimAgrees ==
  ASSUME IInv, StoreAgrees, NEW k \in Ident, NEW r \in Run, NEW i \in Seqs,
         Store!ClaimCall(k, r, i)
  PROVE  StoreAgrees'
  <1>1. CASE Store!IsClaimed(k)
    BY <1>1, StoreUntouched DEF Store!ClaimCall, storeVars
  <1>2. CASE ~Store!IsClaimed(k)
    <2> USE DEF Store!IsSettled, Store!IsClaimed
    <2>1. /\ log' = log
          /\ commit'[k] = [run |-> r, intent |-> i, done |-> Null]
          /\ \A j \in Ident \ {k} : commit'[j] = commit[j]
          /\ commit[k].done = Null
      BY <1>2, Typed DEF Store!ClaimCall, StoreAgrees, SettledAreClaimed
    <2>2. ASSUME NEW x \in Run, NEW s \in Seqs, IntentOf(x, s, k)
          PROVE  FALSE
      BY <1>2, <2>2, Typed, IntentsAreClaimed DEF IntentOf, Keyed
    <2>3. SettledAreClaimed'
      BY <2>1, Typed DEF StoreAgrees, SettledAreClaimed
    <2>4. NoIntentWhileInFlight'
      <3> SUFFICES ASSUME NEW x \in Run, NEW s \in Seqs, IsIntent(x, s),
                          Keyed(x, log[x][s].call)
                   PROVE  LET j == Identity(x, log[x][s].call) IN
                          Store!HeldBy(j, x, s)' \/ Store!IsSettled(j)'
        BY <2>1 DEF NoIntentWhileInFlight, IsIntent, Store!HeldBy
      <3> DEFINE j == Identity(x, log[x][s].call)
      <3>1. j \in Ident \ {k}
        BY <2>2, CallsAreTyped DEF IntentOf, IsIntent, IInv, EventsKnown
      <3>2. Store!HeldBy(j, x, s) \/ Store!IsSettled(j)
        BY DEF StoreAgrees, ClaimsAgree, NoIntentWhileInFlight
      <3> QED
        BY <2>1, <3>1, <3>2 DEF Store!HeldBy
    <2>5. SettledIffCompleted'
      <3> SUFFICES ASSUME NEW j \in Ident, Store!IsClaimed(j)'
                   PROVE  LET c == commit'[j] IN
                          /\ c.done # Null => /\ IntentOf(c.run, c.intent, j)
                                              /\ IsCompletionOf(c.run, c.done, c.intent)
                                              /\ log[c.run][c.done].from = NoOrigin
                          /\ \A d \in Seqs :
                               IntentOf(c.run, c.intent, j) /\ IsCompletionOf(c.run, d, c.intent)
                                 => c.done = d
        BY <2>1, Typed DEF SettledIffCompleted, IntentOf, IsIntent, IsCompletionOf
      <3>1. CASE j = k
        BY <2>1, <2>2, <3>1
      <3>2. CASE j # k
        BY <2>1, <3>2, Typed DEF StoreAgrees, ClaimsAgree, SettledIffCompleted
      <3> QED
        BY <3>1, <3>2
    <2>6. LogReplayable'
      BY <2>1 DEF StoreAgrees, LogReplayable, Before, MayFollow, AsksNext, AsksNoMore,
                  Store!IsEnd
    <2>7. CopiesRepeat'
      <3> SUFFICES ASSUME NEW x \in Run, NEW d \in Seqs, log[x][d] # NoEvent,
                          log[x][d].from # NoOrigin
                   PROVE  /\ log[x][d].kind = "ToolCallCompleted"
                          /\ Repeats(x, log[x][d].call, log[x][d].from, log[x][d].out)'
        BY <2>1 DEF CopiesRepeat, Repeats, IsOrigin
      <3>1. /\ log[x][d].kind = "ToolCallCompleted"
            /\ Repeats(x, log[x][d].call, log[x][d].from, log[x][d].out)
        BY DEF StoreAgrees, CopiesRepeat
      <3> DEFINE j == Identity(x, log[x][d].call)
      <3>2. j \in Ident \ {k}
        <4>1. log[x][d].call \in Calls(x)
          BY <3>1 DEF IInv, EventsKnown
        <4>2. j \in Ident /\ Store!IsSettled(j)
          BY <3>1, <4>1, CallsAreTyped DEF Repeats, IsOrigin
        <4> QED
          BY <2>1, <4>2, Typed
      <3> QED
        BY <2>1, <3>1, <3>2 DEF Repeats, IsOrigin
    <2> QED
      BY <2>3, <2>4, <2>5, <2>6, <2>7 DEF StoreAgrees, ClaimsAgree
  <1> QED
    BY <1>1, <1>2

\* Event e takes the position at the end of run r's log, where it may stand.
Extends(r, n, e) ==
  /\ log[r][n] = NoEvent
  /\ log' = [log EXCEPT ![r][n] = e]
  /\ \A s \in Seqs : s < n => log[r][s] # NoEvent
  /\ \/ n = 0 /\ e = Plain("RunStarted")
     \/ \E m \in Seqs : Before(r, n, m) /\ MayFollow(r, m, e)

\* What the append leaves and what it adds.
LEMMA ExtendsChanges ==
  ASSUME IInv, NEW r \in Run, NEW n \in Seqs, NEW e \in Event, Extends(r, n, e)
  PROVE  /\ log'[r][n] = e
         /\ \A x \in Run, s \in Seqs : ~(x = r /\ s = n) => log'[x][s] = log[x][s]
         /\ e # NoEvent
  BY Typed DEF Extends

\* A log extended at its end by an event that may follow is replayable.
LEMMA ExtendedIsReplayable ==
  ASSUME IInv, LogReplayable, NEW r \in Run, NEW n \in Seqs, NEW e \in Event,
         Extends(r, n, e)
  PROVE  LogReplayable'
  <1> USE Typed DEF Seqs
  <1>1. /\ log'[r][n] = e /\ e # NoEvent /\ log[r][n] = NoEvent
        /\ \A x \in Run, s \in Seqs : ~(x = r /\ s = n) => log'[x][s] = log[x][s]
        /\ \A s \in Seqs : s < n => log[r][s] # NoEvent
    BY ExtendsChanges DEF Extends
  <1>2. ASSUME NEW x \in Run
        PROVE  \E l \in Ends : Store!IsEnd(log'[x], l)
    <2>1. PICK l \in Ends : Store!IsEnd(log[x], l)
      BY DEF LogReplayable
    <2>2. CASE x # r
      BY <1>1, <2>1, <2>2 DEF Store!IsEnd
    <2>3. CASE x = r
      <3>1. l = n
        <4>1. l \in Nat /\ ~(n < l)
          BY <1>1, <2>1, <2>3 DEF Store!IsEnd, Ends
        <4>2. ASSUME l < n PROVE FALSE
          <5>1. l \in Seqs
            BY <4>1, <4>2
          <5> QED
            BY <1>1, <2>1, <2>3, <4>2, <5>1 DEF Store!IsEnd
        <4> QED
          BY <4>1, <4>2
      <3>2. n + 1 \in Ends
        BY DEF Ends
      <3>3. Store!IsEnd(log'[x], n + 1)
        BY <1>1, <2>1, <2>3, <3>1 DEF Store!IsEnd
      <3> QED
        BY <3>2, <3>3
    <2> QED
      BY <2>2, <2>3
  <1>3. ASSUME NEW x \in Run, log'[x][0] # NoEvent
        PROVE  log'[x][0].kind = "RunStarted"
    <2>1. CASE x = r /\ n = 0
      BY <1>1, <2>1 DEF Extends, Before, Plain
    <2>2. CASE ~(x = r /\ n = 0)
      BY <1>1, <1>3, <2>2 DEF LogReplayable
    <2> QED
      BY <2>1, <2>2
  <1>4. ASSUME NEW x \in Run, NEW s \in Seqs \ {0}, log'[x][s] # NoEvent
        PROVE  \E m \in Seqs : (Before(x, s, m) /\ MayFollow(x, m, log[x][s]))'
    <2>1. PICK m \in Seqs : Before(x, s, m) /\ MayFollow(x, m, log'[x][s])
      <3>1. CASE x = r /\ s = n
        BY <1>1, <3>1 DEF Extends
      <3>2. CASE ~(x = r /\ s = n)
        BY <1>1, <1>4, <3>2 DEF LogReplayable
      <3> QED
        BY <3>1, <3>2
    <2>2. ASSUME NEW y \in Seqs, y < s
          PROVE  log'[x][y] = log[x][y]
      <3>1. CASE x = r /\ s = n
        BY <1>1, <2>2, <3>1
      <3>2. CASE ~(x = r /\ s = n)
        <4>1. log[x][s] # NoEvent
          BY <1>1, <1>4, <3>2
        <4>2. log[x][y] # NoEvent
          BY <2>2, <4>1, NoGaps
        <4> QED
          BY <1>1, <4>2
      <3> QED
        BY <3>1, <3>2
    <2>3. Before(x, s, m)'
      <3>1. \A y \in m + 1 .. s - 1 : y \in Seqs /\ y < s
        OBVIOUS
      <3> QED
        BY <2>1, <2>2, <3>1 DEF Before
    <2>4. MayFollow(x, m, log[x][s])'
      BY <2>1, <2>2 DEF Before, MayFollow, AsksNext, AsksNoMore
    <2> QED
      BY <2>3, <2>4
  <1> QED
    BY <1>2, <1>3, <1>4 DEF LogReplayable

\* An append that settles nothing.  Conditions on the event: an intent comes
\* under its run's claim or after the settlement; a completion answers a call
\* that has none yet, and is the claim's business only when that is settled; a
\* copy repeats what the holder recorded.
LEMMA AppendAgrees ==
  ASSUME IInv, StoreAgrees, NEW r \in Run, NEW n \in Seqs, NEW e \in Event,
         Extends(r, n, e), commit' = commit, Grows, Settles,
         SettledAreClaimed', EventsKnown',
         e.kind = "ToolCallRequested" /\ Keyed(r, e.call) =>
           \/ Store!HeldBy(Identity(r, e.call), r, n)
           \/ Store!IsSettled(Identity(r, e.call)),
         e.kind = "ToolCallCompleted" /\ Keyed(r, e.call) =>
           \/ ~Store!HeldBy(Identity(r, e.call), r, e.at)
           \/ Store!IsSettled(Identity(r, e.call)),
         e.from # NoOrigin =>
           e.kind = "ToolCallCompleted" /\ Repeats(r, e.call, e.from, e.out)
  PROVE  StoreAgrees'
  <1>1. /\ log'[r][n] = e /\ e # NoEvent /\ log[r][n] = NoEvent
        /\ \A x \in Run, s \in Seqs : ~(x = r /\ s = n) => log'[x][s] = log[x][s]
    <2>1. log[r][n] = NoEvent
      BY DEF Extends
    <2> QED
      BY <2>1, ExtendsChanges
  <1>2. LogReplayable'
    BY ExtendedIsReplayable DEF StoreAgrees
  <1>3. NoIntentWhileInFlight'
    <2> SUFFICES ASSUME NEW x \in Run, NEW s \in Seqs, IsIntent(x, s)',
                        Keyed(x, log'[x][s].call)
                 PROVE  LET j == Identity(x, log'[x][s].call) IN
                        Store!HeldBy(j, x, s) \/ Store!IsSettled(j)
      BY DEF NoIntentWhileInFlight, Store!HeldBy, Store!IsSettled
    <2>1. CASE x = r /\ s = n
      BY <1>1, <2>1 DEF IsIntent
    <2>2. CASE ~(x = r /\ s = n)
      BY <1>1, <2>2
      DEF IsIntent, StoreAgrees, ClaimsAgree, NoIntentWhileInFlight
    <2> QED
      BY <2>1, <2>2
  <1>4. SettledIffCompleted'
    <2> SUFFICES ASSUME NEW k \in Ident, Store!IsClaimed(k)
                 PROVE  LET c == commit[k] IN
                        /\ Store!IsSettled(k) =>
                             /\ IntentOf(c.run, c.intent, k)'
                             /\ IsCompletionOf(c.run, c.done, c.intent)'
                             /\ log'[c.run][c.done].from = NoOrigin
                        /\ \A d \in Seqs :
                             IntentOf(c.run, c.intent, k)' /\ IsCompletionOf(c.run, d, c.intent)'
                               => c.done = d
      BY DEF SettledIffCompleted, Store!IsClaimed, Store!IsSettled, IntentOf, IsIntent,
             IsCompletionOf
    <2> DEFINE c == commit[k]
    <2>1. c.run \in Run
      BY Typed DEF Store!IsClaimed, Store!Commitment
    <2>2. ASSUME Store!IsSettled(k)
          PROVE  /\ IntentOf(c.run, c.intent, k)'
                 /\ IsCompletionOf(c.run, c.done, c.intent)'
                 /\ log'[c.run][c.done].from = NoOrigin
      <3>1. /\ c.intent \in Seqs /\ c.done \in Seqs
            /\ IntentOf(c.run, c.intent, k)
            /\ IsCompletionOf(c.run, c.done, c.intent)
            /\ log[c.run][c.done].from = NoOrigin
            /\ log[c.run][c.intent] # NoEvent /\ log[c.run][c.done] # NoEvent
        BY <2>2, HolderIsRecorded
      <3>2. /\ log'[c.run][c.intent] = log[c.run][c.intent]
            /\ log'[c.run][c.done] = log[c.run][c.done]
        BY <2>1, <3>1 DEF Grows
      <3> QED
        BY <3>1, <3>2 DEF IntentOf, IsIntent, IsCompletionOf
    <2>3. ASSUME NEW d \in Seqs, IntentOf(c.run, c.intent, k)',
                 IsCompletionOf(c.run, d, c.intent)'
          PROVE  c.done = d
      <3>1. CASE ~(c.run = r /\ d = n)
        <4>1. IsCompletionOf(c.run, d, c.intent)
          BY <1>1, <2>1, <2>3, <3>1 DEF IsCompletionOf
        <4>2. c.intent \in Seqs /\ IsIntent(c.run, c.intent)
          BY <2>1, <4>1, CompletionAnswers DEF StoreAgrees
        <4>3. log'[c.run][c.intent] = log[c.run][c.intent]
          BY <2>1, <4>2 DEF Grows, IsIntent
        <4>4. IntentOf(c.run, c.intent, k)
          BY <2>3, <4>2, <4>3 DEF IntentOf
        <4> QED
          BY <4>1, <4>4 DEF StoreAgrees, ClaimsAgree, SettledIffCompleted
      <3>2. CASE c.run = r /\ d = n
        <4>1. e.kind = "ToolCallCompleted" /\ e.at = c.intent
          BY <1>1, <2>3, <3>2 DEF IsCompletionOf
        <4>2. PICK m \in Seqs : Before(r, n, m) /\ MayFollow(r, m, e)
          BY <4>1 DEF Extends, Plain
        <4>3. m = c.intent /\ m # n /\ e.call = log[r][m].call
          BY <4>1, <4>2, Typed DEF Before, MayFollow, Seqs
        <4>4. Identity(r, e.call) = k
          BY <1>1, <2>3, <3>2, <4>3 DEF IntentOf
        <4>5. Keyed(r, e.call) /\ Store!HeldBy(k, r, e.at)
          BY <3>2, <4>1, <4>4, Typed DEF Keyed, Store!HeldBy
        <4>6. Store!IsSettled(k)
          BY <4>1, <4>4, <4>5
        <4>7. IsCompletionOf(r, c.done, m)
          BY <3>2, <4>3, <4>6, HolderIsRecorded
        <4> QED
          BY <1>1, <4>2, <4>7, NoCompletionYet DEF StoreAgrees
      <3> QED
        BY <3>1, <3>2
    <2> QED
      BY <2>2, <2>3
  <1>5. CopiesRepeat'
    <2> SUFFICES ASSUME NEW x \in Run, NEW d \in Seqs, log'[x][d] # NoEvent,
                        log'[x][d].from # NoOrigin
                 PROVE  (/\ log[x][d].kind = "ToolCallCompleted"
                         /\ Repeats(x, log[x][d].call, log[x][d].from, log[x][d].out))'
      BY DEF CopiesRepeat
    <2> DEFINE f == log'[x][d]
    <2>1. f.kind = "ToolCallCompleted" /\ Repeats(x, f.call, f.from, f.out)
      <3>1. CASE x = r /\ d = n
        BY <1>1, <3>1
      <3>2. CASE ~(x = r /\ d = n)
        BY <1>1, <3>2 DEF StoreAgrees, CopiesRepeat
      <3> QED
        BY <3>1, <3>2
    <2>2. f.call \in Calls(x)
      BY <2>1 DEF EventsKnown
    <2>3. PICK c \in Calls(x) : c = f.call
      BY <2>2
    <2>4. PICK from, out : from = f.from /\ out = f.out
      OBVIOUS
    <2>5. Repeats(x, c, from, out)'
      BY <2>1, <2>3, <2>4, RepeatsIsStable
    <2> QED
      BY <2>1, <2>3, <2>4, <2>5 DEF Repeats, IsOrigin
  <1> QED
    BY <1>2, <1>3, <1>4, <1>5 DEF StoreAgrees, ClaimsAgree


\* An append that settles the claim of the intent it completes.
LEMMA SettlingAgrees ==
  ASSUME IInv, StoreAgrees, NEW r \in Run, NEW n \in Seqs, NEW c \in Calls(r),
         NEW s \in Seqs, NEW o \in Output \cup {NoOutput},
         Completed(c, s, o, NoOrigin) \in Event,
         Extends(r, n, Completed(c, s, o, NoOrigin)),
         IsIntent(r, s), log[r][s].call = c, Keyed(r, c),
         Store!AppendSettlingCall(r, n, Completed(c, s, o, NoOrigin), Identity(r, c), s),
         Grows, Settles, SettledAreClaimed', EventsKnown'
  PROVE  StoreAgrees'
  <1> DEFINE e == Completed(c, s, o, NoOrigin)
             k == Identity(r, c)
  <1>0. k \in Ident /\ k # NoIdent
    BY CallsAreTyped, Typed
  <1>1. /\ log'[r][n] = e /\ e # NoEvent /\ log[r][n] = NoEvent
        /\ \A x \in Run, y \in Seqs : ~(x = r /\ y = n) => log'[x][y] = log[x][y]
        /\ e.kind = "ToolCallCompleted" /\ e.at = s /\ e.from = NoOrigin /\ e.call = c
    <2>1. e.kind = "ToolCallCompleted" /\ e.at = s /\ e.from = NoOrigin /\ e.call = c
      BY DEF Completed
    <2> HIDE DEF e
    <2>2. e \in Event /\ Extends(r, n, e)
      BY DEF e
    <2>3. log[r][n] = NoEvent
      BY <2>2 DEF Extends
    <2>4. /\ log'[r][n] = e /\ e # NoEvent
          /\ \A x \in Run, y \in Seqs : ~(x = r /\ y = n) => log'[x][y] = log[x][y]
      BY <2>2, ExtendsChanges
    <2> QED
      BY <2>1, <2>3, <2>4
  <1>2. /\ commit[k].run = r /\ commit[k].intent = s /\ commit[k].done = Null
        /\ commit'[k].run = r /\ commit'[k].intent = s /\ commit'[k].done = n
        /\ \A j \in Ident \ {k} : commit'[j] = commit[j]
    BY <1>0, Typed
    DEF Store!AppendSettlingCall, Store!HeldBy, Store!IsSettled, Store!Commitment
  <1> HIDE DEF e, k
  <1>3. LogReplayable'
    BY ExtendedIsReplayable DEF StoreAgrees, e
  <1>4. NoIntentWhileInFlight'
    <2> SUFFICES ASSUME NEW x \in Run, NEW y \in Seqs, IsIntent(x, y)',
                        Keyed(x, log'[x][y].call)
                 PROVE  LET j == Identity(x, log'[x][y].call) IN
                        \/ commit'[j].run = x /\ commit'[j].intent = y
                        \/ commit'[j].done # Store!Null
      BY DEF NoIntentWhileInFlight, Store!HeldBy, Store!IsSettled
    <2>1. ~(x = r /\ y = n)
      BY <1>1 DEF IsIntent
    <2>2. log'[x][y] = log[x][y] /\ IsIntent(x, y)
      BY <1>1, <2>1 DEF IsIntent
    <2> DEFINE j == Identity(x, log[x][y].call)
    <2>3. Store!HeldBy(j, x, y) \/ Store!IsSettled(j)
      BY <2>2 DEF StoreAgrees, ClaimsAgree, NoIntentWhileInFlight
    <2>4. j \in Ident
      BY <2>2, CallsAreTyped DEF IInv, EventsKnown, IsIntent
    <2> HIDE DEF j
    <2>5. \/ commit'[j].run = x /\ commit'[j].intent = y
          \/ commit'[j].done # Store!Null
      BY <1>2, <2>3, <2>4, Typed DEF Store!HeldBy, Store!IsSettled
    <2> QED
      BY <2>2, <2>5 DEF j
  <1>5. SettledIffCompleted'
    <2> SUFFICES ASSUME NEW j \in Ident, Store!IsClaimed(j)'
                 PROVE  (LET h == commit[j] IN
                         /\ h.done # Null =>
                              /\ IntentOf(h.run, h.intent, j)
                              /\ IsCompletionOf(h.run, h.done, h.intent)
                              /\ log[h.run][h.done].from = NoOrigin
                         /\ \A d \in Seqs :
                              IntentOf(h.run, h.intent, j) /\ IsCompletionOf(h.run, d, h.intent)
                                => h.done = d)'
      BY Typed DEF SettledIffCompleted, Store!IsSettled
    <2>1. CASE j = k
      <3>1. s # n /\ log'[r][s] = log[r][s]
        BY <1>1 DEF IsIntent
      <3>2. /\ IntentOf(r, s, k)' /\ IsCompletionOf(r, n, s)'
            /\ log'[r][n].from = NoOrigin
        BY <1>1, <3>1 DEF IntentOf, IsIntent, IsCompletionOf, k
      <3>3. ASSUME NEW d \in Seqs, IsCompletionOf(r, d, s)', d # n
            PROVE  FALSE
        <4>1. IsCompletionOf(r, d, s)
          BY <1>1, <3>3 DEF IsCompletionOf
        <4>2. IntentOf(r, s, k)
          BY DEF IntentOf, k
        <4> QED
          BY <1>0, <1>2, <4>1, <4>2, Typed
          DEF StoreAgrees, ClaimsAgree, SettledIffCompleted, Store!IsClaimed
      <3>4. (\A d \in Seqs : IsCompletionOf(r, d, s) => n = d)'
        BY <3>3
      <3> QED
        BY <1>2, <2>1, <3>2, <3>4 DEF IntentOf, IsIntent, IsCompletionOf
    <2>2. CASE j # k
      <3>0. PICK u, v : u = commit[j].intent /\ v = commit[j].done
        OBVIOUS
      <3>1. PICK x \in Run :
              /\ commit[j].run = x /\ commit[j].intent = u /\ commit[j].done = v
              /\ commit'[j].run = x /\ commit'[j].intent = u /\ commit'[j].done = v
        BY <1>2, <2>2, <3>0, Typed DEF Store!IsClaimed, Store!Commitment
      <3>2. ASSUME v # Null
            PROVE  (IntentOf(x, u, j) /\ IsCompletionOf(x, v, u) /\ log[x][v].from = NoOrigin)'
        <4>1. /\ u \in Seqs /\ v \in Seqs
              /\ IntentOf(x, u, j) /\ IsCompletionOf(x, v, u) /\ log[x][v].from = NoOrigin
              /\ log[x][u] # NoEvent /\ log[x][v] # NoEvent
          BY <3>1, <3>2, HolderIsRecorded, Typed DEF Store!IsSettled
        <4>2. log'[x][u] = log[x][u] /\ log'[x][v] = log[x][v]
          BY <4>1 DEF Grows
        <4> QED
          BY <4>1, <4>2 DEF IntentOf, IsIntent, IsCompletionOf
      <3>3. ASSUME NEW d \in Seqs, IntentOf(x, u, j)', IsCompletionOf(x, d, u)'
            PROVE  v = d
        <4>1. /\ u \in Seqs /\ log'[x][u] # NoEvent /\ log'[x][u].kind = "ToolCallRequested"
              /\ Identity(x, log'[x][u].call) = j
              /\ log'[x][d] # NoEvent /\ log'[x][d].kind = "ToolCallCompleted"
              /\ log'[x][d].at = u
          BY <3>3 DEF IntentOf, IsIntent, IsCompletionOf
        <4>2. ~(x = r /\ u = n)
          BY <1>1, <4>1
        <4>3. IntentOf(x, u, j)
          BY <1>1, <3>1, <4>1, <4>2 DEF IntentOf, IsIntent
        <4>4. ~(x = r /\ d = n)
          BY <1>1, <2>2, <4>1, <4>3 DEF IntentOf, k
        <4>5. IsCompletionOf(x, d, u)
          BY <1>1, <3>1, <4>1, <4>4 DEF IsCompletionOf
        <4>6. Store!IsClaimed(j)
          BY <3>1, Typed DEF Store!IsClaimed
        <4> QED
          BY <3>1, <4>3, <4>5, <4>6 DEF StoreAgrees, ClaimsAgree, SettledIffCompleted
      <3> QED
        BY <3>1, <3>2, <3>3 DEF IntentOf, IsIntent, IsCompletionOf
    <2> QED
      BY <2>1, <2>2
  <1>6. CopiesRepeat'
    <2> SUFFICES ASSUME NEW x \in Run, NEW d \in Seqs, log'[x][d] # NoEvent,
                        log'[x][d].from # NoOrigin
                 PROVE  (/\ log[x][d].kind = "ToolCallCompleted"
                         /\ Repeats(x, log[x][d].call, log[x][d].from, log[x][d].out))'
      BY DEF CopiesRepeat
    <2> DEFINE f == log'[x][d]
    <2>1. f.kind = "ToolCallCompleted" /\ Repeats(x, f.call, f.from, f.out)
      BY <1>1 DEF StoreAgrees, CopiesRepeat
    <2>2. f.call \in Calls(x)
      BY <2>1 DEF EventsKnown
    <2>3. PICK y \in Calls(x) : y = f.call
      BY <2>2
    <2>4. PICK from, out : from = f.from /\ out = f.out
      OBVIOUS
    <2>5. Repeats(x, y, from, out)'
      BY <2>1, <2>3, <2>4, RepeatsIsStable
    <2> QED
      BY <2>1, <2>3, <2>4, <2>5 DEF Repeats, IsOrigin
  <1> QED
    BY <1>3, <1>4, <1>5, <1>6 DEF StoreAgrees, ClaimsAgree

----------------------------------------------------------------------------
(* What a driver knows of the log and of the commitments.                   *)

\* The next state's record of a process, as a value.
LEMMA UpToDateOf ==
  ASSUME NEW p \in Proc, NEW d, proc'[p] = d, UpToDate(d)'
  PROVE  UpToDate(proc[p])'
  BY DEF UpToDate, KnowsItsPlace, KnowsItsOrigin, ResolvesNoClaim, HasRead, PastIntent, Before,
         AsksNext, AsksNoMore, IsOrigin, Repeats, Store!HeldBy, Store!IsSettled

\* The place in the log a driver has read up to stays where it was.
LEMMA PlaceIsStable ==
  ASSUME IInv, Grows, NEW r \in Run, NEW n \in Ends, NEW m \in Seqs, Before(r, n, m),
         \A s \in Seqs : s < n => log[r][s] # NoEvent
  PROVE  /\ Before(r, n, m)'
         /\ log'[r][m] = log[r][m] /\ log[r][m] # NoEvent
         /\ \A s \in Seqs : s < n => log'[r][s] # NoEvent
  <1>1. \A s \in Seqs : s < n => log'[r][s] = log[r][s]
    BY DEF Grows
  <1>2. \A x \in m + 1 .. n - 1 : x \in Seqs /\ x < n
    BY ToolCallAssumption DEF Seqs, Ends
  <1> QED
    BY <1>1, <1>2 DEF Before

\* What a process knows survives the steps of the others.
LEMMA UpToDateIsStable ==
  ASSUME CInv, Grows, Settles, NEW q \in Proc, proc'[q] = proc[q]
  PROVE  UpToDate(proc[q])'
  <1>1. PICK d \in Driver : d = proc[q]
    BY Typed DEF CInv
  <1>2. Sound(d) /\ UpToDate(d)
    BY <1>1 DEF CInv, IInv
  <1>3. d.pc # "idle" => d.run \in Run
    BY <1>2 DEF Sound, KnowsItsCall
  <1>4. d.pc \in InCall => d.call \in Calls(d.run)
    BY <1>2 DEF Sound, KnowsItsCall
  <1>5. KnowsItsPlace(d)'
    <2> SUFFICES ASSUME d.pc \notin {"idle", "begin", "recover"}
                 PROVE  \E m \in Seqs : HasRead(d, m)'
      BY <1>2 DEF UpToDate, KnowsItsPlace
    <2>1. PICK m \in Seqs : HasRead(d, m)
      BY <1>2 DEF UpToDate, KnowsItsPlace
    <2>2. /\ Before(d.run, d.end, m)'
          /\ log'[d.run][m] = log[d.run][m]
          /\ \A s \in Seqs : s < d.end => log'[d.run][s] # NoEvent
      BY <1>3, <2>1, PlaceIsStable DEF CInv, HasRead
    <2>3. HasRead(d, m)'
      BY <2>1, <2>2 DEF HasRead, PastIntent, AsksNext, AsksNoMore
    <2> QED
      BY <2>3
  <1>6. KnowsItsOrigin(d)'
    <2>1. ASSUME d.pc \in {"origin", "intent", "settle"}
          PROVE  /\ IsOrigin(d.run, d.call, d.from) => IsOrigin(d.run, d.call, d.from)'
                 /\ Repeats(d.run, d.call, d.from, d.out) => Repeats(d.run, d.call, d.from, d.out)'
      BY <1>3, <1>4, <2>1, RepeatsIsStable DEF CInv, InCall
    <2> QED
      BY <1>2, <2>1 DEF UpToDate, KnowsItsOrigin
  <1>7. ResolvesNoClaim(d)'
    <2> SUFFICES ASSUME d.pc = "resolve", Keyed(d.run, d.call)
                 PROVE  LET k == Identity(d.run, d.call) IN
                        ~Store!HeldBy(k, d.run, d.at)' \/ Store!IsSettled(k)'
      BY DEF ResolvesNoClaim
    <2> DEFINE k == Identity(d.run, d.call)
    <2>1. k \in Ident
      BY <1>3, <1>4, CallsAreTyped DEF InCall
    <2>2. ~Store!HeldBy(k, d.run, d.at) \/ Store!IsSettled(k)
      BY <1>2 DEF UpToDate, ResolvesNoClaim
    <2>3. Store!IsClaimed(k)
      BY <1>2, <1>3, <2>1, IntentsAreClaimed DEF Sound, IntentIsRecorded, PastIntent, CInv
    <2> HIDE DEF k
    <2>4. ~(commit'[k].run = d.run /\ commit'[k].intent = d.at) \/ commit'[k].done # Store!Null
      BY <2>1, <2>2, <2>3 DEF Grows, Settles, Store!HeldBy, Store!IsSettled
    <2> QED
      BY <2>4 DEF k, Store!HeldBy, Store!IsSettled
  <1> QED
    BY <1>1, <1>5, <1>6, <1>7, UpToDateOf DEF UpToDate

\* An idle process knows nothing.
LEMMA IdleIsUpToDate ==
  ASSUME NEW p \in Proc, proc'[p] = Idle
  PROVE  UpToDate(proc[p])'
  BY DEF Idle, At, UpToDate, KnowsItsPlace, KnowsItsOrigin, ResolvesNoClaim

\* A driver that asks for the call that comes next in its program.
LEMMA AskIsUpToDate ==
  ASSUME EventsKnown', NEW p \in Proc, NEW r \in Run, NEW c \in Nat, NEW n \in Ends,
         NEW m \in Seqs, proc'[p] = Ask(r, c, n),
         Before(r, n, m)', AsksNext(r, m, c)',
         \A s \in Seqs : s < n => log'[r][s] # NoEvent
  PROVE  UpToDate(proc[p])'
  <1>1. c \notin Calls(r) => AsksNoMore(r, m)'
    <2> SUFFICES ASSUME c \notin Calls(r)
                 PROVE  AsksNoMore(r, m)'
      OBVIOUS
    <2>1. Len(Program[r]) \in Nat
      BY ToolCallAssumption
    <2>2. CASE log'[r][m].kind = "RunStarted" /\ c = 1
      BY <2>1, <2>2 DEF Calls, AsksNoMore
    <2>3. CASE log'[r][m].kind = "ToolCallCompleted" /\ c = log'[r][m].call + 1
      <3>1. log'[r][m].call \in Calls(r)
        BY <2>3, ToolCallAssumption DEF EventsKnown, Before, Seqs, Ends
      <3> QED
        BY <2>1, <2>3, <3>1 DEF Calls, AsksNoMore
    <2> QED
      BY <2>2, <2>3 DEF AsksNext
  <1>2. PICK d : d = Ask(r, c, n)
    OBVIOUS
  <1>3. /\ d.run = r /\ d.end = n /\ d.call = c /\ d.at = n /\ d.from = NoOrigin
        /\ d.pc \in {"finish", "claim", "intent"}
        /\ d.pc = "finish" => c \notin Calls(r)
    BY <1>2 DEF Ask, At
  <1>4. HasRead(d, m)'
    BY <1>1, <1>3 DEF HasRead, PastIntent, Before, AsksNext, AsksNoMore
  <1>5. UpToDate(d)'
    BY <1>3, <1>4 DEF UpToDate, KnowsItsPlace, KnowsItsOrigin, ResolvesNoClaim
  <1> QED
    BY <1>2, <1>5, UpToDateOf

----------------------------------------------------------------------------
(* Steps.                                                                   *)

\* Process p leaves the store saying what it said and knows where it stands.
Agreeable(p) == StoreAgrees' /\ UpToDate(proc[p])'

\* The invariant is kept by a step when it is agreeable to the process that
\* takes it.
LEMMA AgreeableKeepsCInv ==
  ASSUME CInv, NEW p \in Proc, Disciplined(p), Agreeable(p)
  PROVE  CInv'
  <1>1. IInv'
    BY DisciplineKeepsIInv DEF CInv
  <1>2. Grows /\ Settles
    BY StoreGrows, StoreSettles DEF Disciplined, CInv, IInv, TypeOK, StoreAgrees
  <1>3. \A q \in Proc : UpToDate(proc[q])'
    BY <1>2, UpToDateIsStable DEF Agreeable, Disciplined
  <1> QED
    BY <1>1, <1>3 DEF CInv, Agreeable

\* A step that writes nothing and gives the call up.
LEMMA GivesUp ==
  ASSUME CInv, NEW p \in Proc, Become(p, Idle), UNCHANGED storeVars
  PROVE  Agreeable(p)
  BY StoreUntouched, IdleIsUpToDate, Typed DEF Agreeable, Become, CInv

\* What a driver that has read a log knows of it.
LEMMA ReadsItsPlace ==
  ASSUME IInv, NEW r \in Run, NEW n \in Ends, NEW m \in Ends, ReadsAs(r, n, m)
  PROVE  /\ m \in Seqs /\ Before(r, n, m)
         /\ \A s \in Seqs : s < n => log[r][s] # NoEvent
  BY ReadsAnEvent, Typed DEF ReadsAs, Before, Store!IsEnd

\* Reading the log and replaying it.
LEMMA ReplayAgrees ==
  ASSUME CInv, NEW p \in Proc, NEW r \in Run, NEW n \in Ends, NEW m \in Ends,
         ReadsAs(r, n, m), Continue(p, Replay(r, n, m))
  PROVE  Agreeable(p)
  <1> DEFINE last == log[r][m]
  <1>1. /\ m \in Seqs /\ Before(r, n, m) /\ m # n /\ n \in Nat
        /\ \A s \in Seqs : s < n => log[r][s] # NoEvent
        /\ last \in Event /\ last.call \in Nat
    BY ReadsItsPlace, ReadsAnEvent DEF CInv, Event
  <1>2. UNCHANGED storeVars /\ log' = log /\ proc'[p] = Replay(r, n, m)
    BY Typed DEF Continue, Become, CInv, storeVars
  <1>3. StoreAgrees'
    BY <1>2, StoreUntouched DEF CInv
  <1>4. EventsKnown'
    BY <1>2 DEF CInv, IInv, EventsKnown
  <1>5. CASE last.kind = "RunStarted"
    BY <1>1, <1>2, <1>4, <1>5, AskIsUpToDate, <1>3 DEF Replay, Before, AsksNext, Agreeable
  <1>6. CASE last.kind = "ToolCallCompleted"
    <2>1. PICK c \in Nat : c = last.call + 1
      BY <1>1
    <2>2. proc'[p] = Ask(r, c, n)
      BY <1>2, <1>6, <2>1 DEF Replay
    <2> QED
      BY <1>1, <1>2, <1>4, <1>6, <2>1, <2>2, AskIsUpToDate, <1>3
      DEF Before, AsksNext, Agreeable
  <1>7. CASE last.kind = "ToolCallRequested"
    <2>1. PICK d : d = Replay(r, n, m)
      OBVIOUS
    <2>2. d = Reenter(r, last.call, m, n)
      BY <1>7, <2>1 DEF Replay
    <2>3. CASE d = Idle
      BY <1>2, <1>3, <2>1, <2>3, IdleIsUpToDate DEF Agreeable
    <2>4. CASE d # Idle
      <3>1. /\ d.pc \in {"lookup", "exec"} /\ d.run = r /\ d.end = n
            /\ d.call = last.call /\ d.at = m /\ d.from = NoOrigin
        BY <2>2, <2>4 DEF Reenter, At
      <3>2. HasRead(d, m)'
        BY <1>1, <1>2, <3>1 DEF HasRead, Before
      <3>3. UpToDate(d)'
        BY <1>1, <3>1, <3>2 DEF UpToDate, KnowsItsPlace, KnowsItsOrigin, ResolvesNoClaim
      <3> QED
        BY <1>2, <1>3, <2>1, <3>3, UpToDateOf DEF Agreeable
    <2> QED
      BY <2>3, <2>4
  <1>8. CASE last.kind \notin {"RunStarted", "ToolCallCompleted", "ToolCallRequested"}
    BY <1>2, <1>3, <1>8, IdleIsUpToDate DEF Replay, Agreeable
  <1> QED
    BY <1>5, <1>6, <1>7, <1>8

\* The verbs read, and append at most what may follow what they read.
LEMMA InvokeAgrees ==
  ASSUME CInv, NEW p \in Proc, NEW r \in Run, Invoke(p, r)
  PROVE  Agreeable(p)
  <1>1. CASE Recover(p, r)
    BY <1>1, ReplayAgrees DEF Recover, ReadLog
  <1>2. CASE ~Recover(p, r)
    <2>1. UNCHANGED storeVars /\ log' = log /\ StoreAgrees'
      BY <1>2, StoreUntouched
      DEF Invoke, Start, Redrive, Resolve, Abandon, Continue, storeVars, CInv
    <2>2. CASE Start(p, r)
      <3>1. PICK d : d = At("begin", r, 0, 0, 0)
        OBVIOUS
      <3>2. proc'[p] = d /\ d.pc = "begin" /\ d.end = 0
        BY <2>2, <3>1, Typed DEF Start, Continue, Become, At, CInv
      <3>3. UpToDate(d)'
        BY <3>2 DEF UpToDate, KnowsItsPlace, KnowsItsOrigin, ResolvesNoClaim
      <3> QED
        BY <2>1, <3>2, <3>3, UpToDateOf DEF Agreeable
    <2>3. CASE Redrive(p, r) \/ Abandon(p, r)
      <3>1. PICK pc \in {"mark", "abandon"}, n \in Ends, m \in Ends :
              /\ ReadsAs(r, n, m)
              /\ log[r][m].kind \notin Terminal
              /\ Continue(p, At(pc, r, n, 0, 0))
        BY <2>3 DEF Redrive, Abandon
      <3>2. PICK d : d = At(pc, r, n, 0, 0)
        OBVIOUS
      <3>3. proc'[p] = d /\ d.pc = pc /\ d.run = r /\ d.end = n
        BY <3>1, <3>2, Typed DEF Continue, Become, At, CInv
      <3>4. m \in Seqs /\ HasRead(d, m)'
        BY <2>1, <3>1, <3>3, ReadsItsPlace DEF HasRead, PastIntent, Before, CInv
      <3>5. UpToDate(d)'
        BY <3>3, <3>4 DEF UpToDate, KnowsItsPlace, KnowsItsOrigin, ResolvesNoClaim
      <3> QED
        BY <2>1, <3>3, <3>5, UpToDateOf DEF Agreeable
    <2>4. CASE Resolve(p, r)
      <3>1. PICK n \in Ends, m \in Ends :
              /\ ReadsAs(r, n, m)
              /\ Continue(p, At(IF Keyed(r, log[r][m].call) THEN "lookupHeld" ELSE "resolve",
                                r, n, log[r][m].call, m))
        BY <2>4 DEF Resolve
      <3>2. PICK d : d = At(IF Keyed(r, log[r][m].call) THEN "lookupHeld" ELSE "resolve",
                            r, n, log[r][m].call, m)
        OBVIOUS
      <3>3. /\ proc'[p] = d /\ d.pc \in {"lookupHeld", "resolve"}
            /\ d.pc = "resolve" => ~Keyed(d.run, d.call)
            /\ d.run = r /\ d.end = n /\ d.at = m /\ d.from = NoOrigin
        BY <3>1, <3>2, Typed DEF Continue, Become, At, CInv
      <3>4. m \in Seqs /\ HasRead(d, m)'
        BY <2>1, <3>1, <3>3, ReadsItsPlace DEF HasRead, Before, CInv
      <3>5. UpToDate(d)'
        BY <3>3, <3>4 DEF UpToDate, KnowsItsPlace, KnowsItsOrigin, ResolvesNoClaim
      <3> QED
        BY <2>1, <3>3, <3>5, UpToDateOf DEF Agreeable
    <2> QED
      BY <1>2, <2>2, <2>3, <2>4 DEF Invoke
  <1> QED
    BY <1>1, <1>2

\* Where a driver at work stands, as values.
LEMMA AtItsPlace ==
  ASSUME CInv, NEW p \in Proc, proc[p].pc \notin {"idle", "begin", "recover"}
  PROVE  \E m \in Seqs, r \in Run, n \in Ends :
           /\ r = proc[p].run /\ n = proc[p].end
           /\ HasRead(proc[p], m)
           /\ Before(r, n, m) /\ m < n
           /\ \A s \in Seqs : s < n => log[r][s] # NoEvent
  BY AtWork DEF CInv, UpToDate, KnowsItsPlace, HasRead, Before

\* persist of an event that may follow what the driver read.
LEMMA PersistAgrees ==
  ASSUME CInv, NEW p \in Proc, NEW r \in Run, NEW e \in Event, NEW then,
         r = proc[p].run, Persist(p, e, then), Disciplined(p),
         \/ proc[p].pc = "begin" /\ e = Plain("RunStarted")
         \/ \E m \in Seqs : HasRead(proc[p], m) /\ MayFollow(r, m, e),
         e.kind = "ToolCallRequested" /\ Keyed(r, e.call) =>
           \/ Store!HeldBy(Identity(r, e.call), r, proc[p].end)
           \/ Store!IsSettled(Identity(r, e.call)),
         e.kind = "ToolCallCompleted" /\ Keyed(r, e.call) =>
           \/ ~Store!HeldBy(Identity(r, e.call), r, e.at)
           \/ Store!IsSettled(Identity(r, e.call)),
         e.from # NoOrigin =>
           e.kind = "ToolCallCompleted" /\ Repeats(r, e.call, e.from, e.out)
  PROVE  /\ StoreAgrees' /\ EventsKnown' /\ Grows /\ Settles
         /\ \/ proc'[p] = Idle
            \/ /\ proc'[p] = then
               /\ proc[p].end \in Seqs
               /\ Extends(r, proc[p].end, e)
  <1> DEFINE n == proc[p].end
  <1>1. EventsKnown' /\ Grows /\ Settles /\ SettledAreClaimed'
    BY StoreGrows, StoreSettles DEF Disciplined, CInv, IInv, TypeOK, StoreAgrees
  <1>2. CASE Become(p, Idle) /\ UNCHANGED storeVars
    BY <1>1, <1>2, GivesUp, Typed DEF Agreeable, Become, CInv
  <1>3. CASE Store!Append(r, n, e) /\ Become(p, then)
    <2>1. n \in Seqs /\ log[r][n] = NoEvent /\ commit' = commit
          /\ log' = [log EXCEPT ![r][n] = e]
      BY <1>3, Typed DEF Store!Append, Store!Free, CInv
    <2>2. ASSUME proc[p].pc = "begin", e = Plain("RunStarted")
          PROVE  Extends(r, n, e)
      <3>1. n = 0
        BY <2>2 DEF CInv, UpToDate, KnowsItsPlace
      <3> QED
        BY <2>1, <2>2, <3>1 DEF Extends, Seqs
    <2>3. ASSUME NEW m \in Seqs, HasRead(proc[p], m), MayFollow(r, m, e)
          PROVE  Extends(r, n, e)
      BY <2>1, <2>3 DEF Extends, HasRead
    <2>4. PICK l \in Seqs : l = n
      BY <2>1
    <2>5. Extends(r, l, e)
      BY <2>2, <2>3, <2>4
    <2>6. StoreAgrees'
      BY <1>1, <2>1, <2>4, <2>5, AppendAgrees DEF CInv
    <2>7. proc'[p] = then
      BY <1>3, Typed DEF Become, CInv
    <2> QED
      BY <1>1, <2>1, <2>4, <2>5, <2>6, <2>7
  <1> QED
    BY <1>2, <1>3 DEF Persist

\* The end of the log after an append, for the driver that made it.
LEMMA AfterAppend ==
  ASSUME IInv, NEW r \in Run, NEW n \in Seqs, NEW e \in Event, Extends(r, n, e),
         e.kind # "RunRedriven"
  PROVE  /\ n + 1 \in Ends /\ n \in Nat /\ n < n + 1
         /\ Before(r, n + 1, n)'
         /\ log'[r][n] = e
         /\ \A s \in Seqs : s < n + 1 => log'[r][s] # NoEvent
  <1>1. log'[r][n] = e /\ e # NoEvent
        /\ \A x \in Run, s \in Seqs : ~(x = r /\ s = n) => log'[x][s] = log[x][s]
    BY ExtendsChanges
  <1>2. \A s \in Seqs : s < n => log[r][s] # NoEvent
    BY DEF Extends
  <1>3. n + 1 \in Ends /\ n \in Nat /\ n < n + 1
    BY ToolCallAssumption DEF Ends, Seqs
  <1>4. Before(r, n + 1, n)'
    BY <1>1, <1>3 DEF Before
  <1>5. \A s \in Seqs : s < n + 1 => s = n \/ s < n
    BY ToolCallAssumption DEF Seqs
  <1> QED
    BY <1>1, <1>2, <1>3, <1>4, <1>5

\* RunCtx::begin.
LEMMA RecordStartAgrees ==
  ASSUME CInv, NEW p \in Proc, RecordStart(p)
  PROVE  Agreeable(p)
  <1> DEFINE e == Plain("RunStarted")
  <1>1. PICK r \in Run : r = proc[p].run
    BY AtWork DEF RecordStart, CInv
  <1>2. e \in Event /\ e.kind = "RunStarted" /\ e.from = NoOrigin
    BY PlainIsAnEvent DEF Kinds, Plain
  <1>3. PICK then : then = Ask(r, 1, 1)
    OBVIOUS
  <1>4. proc[p].pc = "begin" /\ Persist(p, e, then) /\ Disciplined(p) /\ proc[p].end = 0
    BY <1>1, <1>3, RecordStartStep DEF RecordStart, CInv, UpToDate, KnowsItsPlace
  <1>5. /\ StoreAgrees' /\ EventsKnown'
        /\ \/ proc'[p] = Idle
           \/ proc'[p] = then /\ 0 \in Seqs /\ Extends(r, 0, e)
    BY <1>1, <1>2, <1>4, PersistAgrees
  <1>6. CASE proc'[p] = then /\ 0 \in Seqs /\ Extends(r, 0, e)
    <2>1. /\ 0 + 1 = 1 /\ 0 + 1 \in Ends /\ Before(r, 0 + 1, 0)' /\ log'[r][0] = e
          /\ \A s \in Seqs : s < 0 + 1 => log'[r][s] # NoEvent
      BY <1>2, <1>6, AfterAppend DEF CInv
    <2>2. /\ 1 \in Ends /\ Before(r, 1, 0)' /\ AsksNext(r, 0, 1)'
          /\ \A s \in Seqs : s < 1 => log'[r][s] # NoEvent
      BY <1>2, <2>1 DEF AsksNext, Before
    <2> QED
      BY <1>3, <1>5, <1>6, <2>2, AskIsUpToDate DEF Agreeable, Before
  <1> QED
    BY <1>5, <1>6, IdleIsUpToDate DEF Agreeable

\* complete_run, abandon and the redrive mark.
LEMMA RecordPlainAgrees ==
  ASSUME CInv, NEW p \in Proc,
         RecordRunCompleted(p) \/ RecordAbandoned(p) \/ RecordRedrive(p)
  PROVE  Agreeable(p)
  <1>1. PICK m \in Seqs, r \in Run : r = proc[p].run /\ HasRead(proc[p], m)
    BY AtItsPlace DEF RecordRunCompleted, RecordAbandoned, RecordRedrive
  <1>2. Disciplined(p)
    BY RecordRunCompletedStep, RecordAbandonedStep, RecordRedriveStep DEF CInv
  <1>3. PICK kind \in {"RunCompleted", "RunAbandoned", "RunRedriven"},
             then \in {Idle, At("recover", r, 0, 0, 0)} :
          /\ Persist(p, Plain(kind), then)
          /\ MayFollow(r, m, Plain(kind))
    BY <1>1
    DEF RecordRunCompleted, RecordAbandoned, RecordRedrive, HasRead, MayFollow, Plain
  <1>4. Plain(kind) \in Event /\ Plain(kind).kind = kind /\ Plain(kind).from = NoOrigin
    BY PlainIsAnEvent DEF Kinds, Plain
  <1>5. StoreAgrees' /\ proc'[p] \in {Idle, then}
    BY <1>1, <1>2, <1>3, <1>4, PersistAgrees
  <1>6. CASE proc'[p] = At("recover", r, 0, 0, 0)
    <2>1. UpToDate(At("recover", r, 0, 0, 0))'
      BY DEF At, UpToDate, KnowsItsPlace, KnowsItsOrigin, ResolvesNoClaim
    <2> QED
      BY <1>5, <1>6, <2>1, UpToDateOf DEF Agreeable
  <1> QED
    BY <1>5, <1>6, IdleIsUpToDate DEF Agreeable

\* The write-ahead intent, of a call to run and of a copy.
LEMMA RecordIntentAgrees ==
  ASSUME CInv, NEW p \in Proc, RecordIntent(p)
  PROVE  Agreeable(p)
  <1>1. PICK me \in Driver : me = proc[p]
    BY Typed DEF CInv
  <1> DEFINE e == Requested(me.call)
             then == [me EXCEPT !.end = me.end + 1,
                                !.pc = IF me.from = NoOrigin THEN "exec" ELSE "settle"]
  <1>2. PICK m \in Seqs, r \in Run : r = me.run /\ HasRead(me, m)
    BY <1>1, AtItsPlace DEF RecordIntent
  <1>3. /\ me.pc = "intent" /\ me.at = me.end /\ me.call \in Calls(r) /\ me.call \in Nat
        /\ me.from = NoOrigin /\ Keyed(r, me.call)
             => Store!HeldBy(Identity(r, me.call), r, me.end)
        /\ me.from # NoOrigin => Repeats(r, me.call, me.from, me.out)
    BY <1>1, <1>2, AtWork
    DEF RecordIntent, InCall, KnowsItsCall, IntentIsRecorded, MayExecute, Driver, CInv,
        UpToDate, KnowsItsOrigin
  <1>4. /\ e \in Event /\ e.kind = "ToolCallRequested" /\ e.call = me.call
        /\ e.from = NoOrigin
    BY <1>3 DEF Requested, Plain, Event, Kinds
  <1>5. MayFollow(r, m, e)
    BY <1>2, <1>3, <1>4 DEF HasRead, MayFollow
  <1>6. PICK d : d = then
    OBVIOUS
  <1>7. Persist(p, e, d) /\ Disciplined(p)
    BY <1>1, <1>6, RecordIntentStep DEF RecordIntent, CInv
  <1>8. /\ d.run = r /\ d.end = me.end + 1 /\ d.call = me.call /\ d.at = me.end
        /\ d.from = me.from /\ d.out = me.out /\ d.pc \in {"exec", "settle"}
    BY <1>2, <1>3, <1>6 DEF Driver
  <1> HIDE DEF e, then
  <1>9. /\ StoreAgrees' /\ EventsKnown' /\ Grows /\ Settles
        /\ \/ proc'[p] = Idle
           \/ proc'[p] = d /\ me.end \in Seqs /\ Extends(r, me.end, e)
    BY <1>1, <1>2, <1>3, <1>4, <1>5, <1>7, PersistAgrees DEF Repeats, IsOrigin
  <1>10. CASE proc'[p] = d /\ me.end \in Seqs /\ Extends(r, me.end, e)
    <2>1. PICK n \in Seqs : n = me.end
      BY <1>10
    <2>2. /\ n + 1 \in Ends /\ Before(r, n + 1, n)' /\ n \in Nat /\ n < n + 1
          /\ \A s \in Seqs : s < n + 1 => log'[r][s] # NoEvent
      BY <1>4, <1>10, <2>1, AfterAppend DEF CInv
    <2>3. HasRead(d, n)'
      BY <1>8, <2>1, <2>2 DEF HasRead, PastIntent
    <2>4. KnowsItsOrigin(d)'
      <3>1. PICK c \in Calls(r) : c = me.call
        BY <1>3
      <3>2. PICK from, out : from = me.from /\ out = me.out
        OBVIOUS
      <3>3. from # NoOrigin => Repeats(r, c, from, out)'
        BY <1>3, <1>9, <3>1, <3>2, RepeatsIsStable DEF CInv
      <3> QED
        BY <1>8, <3>1, <3>2, <3>3 DEF KnowsItsOrigin, Repeats, IsOrigin
    <2>5. UpToDate(d)'
      BY <1>8, <2>3, <2>4 DEF UpToDate, KnowsItsPlace, ResolvesNoClaim
    <2> QED
      BY <1>9, <1>10, <2>5, UpToDateOf DEF Agreeable
  <1> QED
    BY <1>9, <1>10, IdleIsUpToDate DEF Agreeable

\* A completion of the call in hand, and what persist_settling makes of it.
LEMMA SettlingStepAgrees ==
  ASSUME CInv, NEW p \in Proc, NEW r \in Run, NEW c \in Calls(r), NEW s \in Seqs,
         NEW o \in Output \cup {NoOutput}, NEW then,
         r = proc[p].run, Disciplined(p), HasRead(proc[p], s),
         IsIntent(r, s), log[r][s].call = c, Keyed(r, c),
         PersistSettling(p, Completed(c, s, o, NoOrigin), Identity(r, c), s, then)
  PROVE  /\ StoreAgrees' /\ EventsKnown'
         /\ \/ proc'[p] = Idle
            \/ /\ proc'[p] = then
               /\ proc[p].end \in Seqs
               /\ Extends(r, proc[p].end, Completed(c, s, o, NoOrigin))
  <1> DEFINE n == proc[p].end
  <1>1. EventsKnown' /\ Grows /\ Settles /\ SettledAreClaimed'
    BY StoreGrows, StoreSettles DEF Disciplined, CInv, IInv, TypeOK, StoreAgrees
  <1>2. CASE Become(p, Idle) /\ UNCHANGED storeVars
    BY <1>1, <1>2, GivesUp, Typed DEF Agreeable, Become, CInv
  <1>3. CASE /\ Store!AppendSettlingCall(r, n, Completed(c, s, o, NoOrigin), Identity(r, c), s)
             /\ Become(p, then)
    <2>1. PICK e \in Event : e = Completed(c, s, o, NoOrigin)
      BY CompletedIsKnown
    <2>2. /\ n \in Seqs /\ log[r][n] = NoEvent
          /\ log' = [log EXCEPT ![r][n] = e]
      BY <1>3, <2>1, Typed DEF Store!AppendSettlingCall, Store!Free, CInv
    <2>3. MayFollow(r, s, e)
      BY <2>1 DEF MayFollow, Completed, IsIntent
    <2>4. PICK l \in Seqs : l = n
      BY <2>2
    <2>5. Extends(r, l, e)
      BY <2>2, <2>3, <2>4 DEF Extends, HasRead
    <2>6. StoreAgrees'
      BY <1>1, <1>3, <2>1, <2>4, <2>5, SettlingAgrees DEF CInv
    <2>7. proc'[p] = then
      BY <1>3, Typed DEF Become, CInv
    <2> QED
      BY <1>1, <2>1, <2>4, <2>5, <2>6, <2>7
  <1> QED
    BY <1>2, <1>3 DEF PersistSettling

\* The completion, of a call that ran and of a copy.
LEMMA RecordCompletionAgrees ==
  ASSUME CInv, NEW p \in Proc, RecordCompletion(p)
  PROVE  Agreeable(p)
  <1>1. PICK me \in Driver : me = proc[p]
    BY Typed DEF CInv
  <1>2. me.pc = "settle"
    BY <1>1 DEF RecordCompletion
  <1>3. PICK m \in Seqs, r \in Run : r = me.run /\ HasRead(me, m)
    BY <1>1, <1>2, AtItsPlace
  <1>0. PICK o, f : o = me.out /\ f = me.from
    OBVIOUS
  <1>4. PICK c \in Calls(r) : c = me.call
    BY <1>1, <1>2, <1>3, AtWork DEF CInv, InCall
  <1>5. /\ m = me.at /\ IsIntent(r, m) /\ log[r][m].call = c
        /\ o \in Output \cup {NoOutput} /\ f \in Origin \cup {NoOrigin}
        /\ f # NoOrigin => Repeats(r, c, f, o)
    BY <1>0, <1>1, <1>2, <1>3, <1>4, AtWork
    DEF IntentIsRecorded, PastIntent, HasRead, CInv, UpToDate, KnowsItsOrigin, Driver
  <1>6. PICK e \in Event : e = Completed(c, m, o, f)
    BY <1>5, CompletedIsKnown
  <1>11. PICK n \in Ends : n = me.end
    BY <1>3 DEF HasRead
  <1>7. PICK then : then = Ask(r, c + 1, n + 1)
    OBVIOUS
  <1>8. /\ e.kind = "ToolCallCompleted" /\ e.at = m /\ e.call = c /\ e.from = f /\ e.out = o
        /\ Disciplined(p) /\ MayFollow(r, m, e)
    BY <1>5, <1>6, RecordCompletionStep DEF Completed, MayFollow, IsIntent, CInv
  <1>9. /\ StoreAgrees' /\ EventsKnown'
        /\ proc'[p] = Idle \/ (proc'[p] = then /\ n \in Seqs /\ Extends(r, n, e))
    <2>1. CASE Keyed(r, c) /\ f = NoOrigin
      <3>1. PersistSettling(p, Completed(c, m, o, NoOrigin), Identity(r, c), m, then)
        BY <1>0, <1>1, <1>3, <1>4, <1>5, <1>7, <1>11, <2>1 DEF RecordCompletion, KeyOf
      <3> QED
        BY <1>1, <1>3, <1>5, <1>6, <1>8, <1>11, <2>1, <3>1, SettlingStepAgrees
    <2>2. CASE ~(Keyed(r, c) /\ f = NoOrigin)
      <3>1. Persist(p, e, then)
        BY <1>0, <1>1, <1>3, <1>4, <1>5, <1>6, <1>7, <1>11, <2>2 DEF RecordCompletion
      <3>2. Keyed(r, c) => Store!IsSettled(Identity(r, c))
        BY <1>5, <2>2 DEF Repeats, IsOrigin
      <3> QED
        BY <1>1, <1>3, <1>5, <1>8, <1>11, <3>1, <3>2, PersistAgrees
    <2> QED
      BY <2>1, <2>2
  <1>10. CASE proc'[p] = then /\ n \in Seqs /\ Extends(r, n, e)
    <2>1. /\ n + 1 \in Ends /\ Before(r, n + 1, n)' /\ log'[r][n] = e
          /\ \A s \in Seqs : s < n + 1 => log'[r][s] # NoEvent
      BY <1>8, <1>10, AfterAppend DEF CInv
    <2>2. PICK l \in Ends, b \in Nat : l = n + 1 /\ b = c + 1
      BY <2>1, CallsAreTyped
    <2>3. /\ Before(r, l, n)' /\ AsksNext(r, n, b)' /\ then = Ask(r, b, l)
          /\ \A s \in Seqs : s < l => log'[r][s] # NoEvent
      BY <1>7, <1>8, <2>1, <2>2 DEF Before, AsksNext
    <2> QED
      BY <1>9, <1>10, <2>3, AskIsUpToDate DEF Agreeable, Before, AsksNext
  <1> QED
    BY <1>9, <1>10, IdleIsUpToDate DEF Agreeable

\* The operator's completion.
LEMMA RecordResolutionAgrees ==
  ASSUME CInv, NEW p \in Proc, RecordResolution(p)
  PROVE  Agreeable(p)
  <1>1. PICK me \in Driver : me = proc[p]
    BY Typed DEF CInv
  <1>2. me.pc \in {"resolve", "resolveSettling"}
    BY <1>1 DEF RecordResolution
  <1>3. PICK m \in Seqs, r \in Run : r = me.run /\ HasRead(me, m)
    BY <1>1, <1>2, AtItsPlace
  <1>4. PICK c \in Calls(r) : c = me.call
    BY <1>1, <1>2, <1>3, AtWork DEF CInv, InCall
  <1>5. /\ m = me.at /\ IsIntent(r, m) /\ log[r][m].call = c
        /\ me.pc = "resolveSettling" => Keyed(r, c)
        /\ me.pc = "resolve" /\ Keyed(r, c) =>
             ~Store!HeldBy(Identity(r, c), r, m) \/ Store!IsSettled(Identity(r, c))
    BY <1>1, <1>2, <1>3, <1>4, AtWork
    DEF IntentIsRecorded, PastIntent, HasRead, CInv, UpToDate, ResolvesNoClaim, KnowsItsCall
  <1>6. PICK o \in Output :
          \/ /\ me.pc = "resolveSettling"
             /\ PersistSettling(p, Completed(c, m, o, NoOrigin), Identity(r, c), m, Idle)
          \/ /\ me.pc = "resolve"
             /\ Persist(p, Completed(c, m, o, NoOrigin), Idle)
    BY <1>1, <1>3, <1>4, <1>5 DEF RecordResolution, KeyOf
  <1>7. PICK e \in Event : e = Completed(c, m, o, NoOrigin)
    BY CompletedIsKnown
  <1>8. /\ e.kind = "ToolCallCompleted" /\ e.at = m /\ e.call = c /\ e.from = NoOrigin
        /\ Disciplined(p) /\ MayFollow(r, m, e)
    BY <1>5, <1>7, RecordResolutionStep DEF Completed, MayFollow, IsIntent, CInv
  <1>9. CASE me.pc = "resolveSettling"
    BY <1>1, <1>3, <1>5, <1>6, <1>8, <1>9, SettlingStepAgrees, IdleIsUpToDate DEF Agreeable
  <1>10. CASE me.pc = "resolve"
    <2>1. Persist(p, e, Idle)
      BY <1>6, <1>7, <1>10
    <2> QED
      BY <1>1, <1>3, <1>5, <1>8, <1>10, <2>1, PersistAgrees, IdleIsUpToDate DEF Agreeable
  <1> QED
    BY <1>2, <1>9, <1>10

\* recover_deduplicated_intent turns a dangling intent into a copy, a claim or
\* nothing.
LEMMA LookupAgrees ==
  ASSUME CInv, NEW p \in Proc, Lookup(p)
  PROVE  Agreeable(p)
  <1>1. PICK me \in Driver : me = proc[p]
    BY Typed DEF CInv
  <1>2. me.pc = "lookup" /\ UNCHANGED storeVars /\ log' = log /\ commit' = commit
    BY <1>1 DEF Lookup, Continue, storeVars
  <1>3. PICK m \in Seqs, r \in Run : r = me.run /\ HasRead(me, m)
    BY <1>1, <1>2, AtItsPlace
  <1>4. /\ Keyed(me.run, me.call) /\ me.from = NoOrigin /\ me.at = m /\ me.at # me.end
        /\ StoreAgrees'
    BY <1>1, <1>2, <1>3, AtWork, StoreUntouched
    DEF KnowsItsCall, MayExecute, HasRead, PastIntent, Before, Ends, Seqs, CInv
  <1>5. ASSUME NEW pc \in {"origin", "claim"}, NEW from, NEW d,
               d = [me EXCEPT !.pc = pc, !.from = from], proc'[p] = d,
               pc = "origin" => IsOrigin(me.run, me.call, from)
        PROVE  UpToDate(proc[p])'
    <2>1. /\ d.pc = pc /\ d.from = from /\ d.run = me.run /\ d.end = me.end
          /\ d.call = me.call /\ d.at = me.at
      BY <1>5 DEF Driver
    <2>2. HasRead(d, m)'
      BY <1>2, <1>3, <1>4, <1>5, <2>1 DEF HasRead, PastIntent, Before
    <2>3. UpToDate(d)'
      BY <1>2, <1>5, <2>1, <2>2
      DEF UpToDate, KnowsItsPlace, KnowsItsOrigin, ResolvesNoClaim, IsOrigin, Store!IsSettled
    <2> QED
      BY <1>5, <2>3, UpToDateOf
  <1>6. CASE Continue(p, Idle)
    BY <1>4, <1>6, Typed, IdleIsUpToDate DEF Continue, Become, Agreeable, CInv
  <1>7. CASE Continue(p, [me EXCEPT !.pc = "claim"])
    <2>1. PICK d : d = [me EXCEPT !.pc = "claim", !.from = NoOrigin]
      OBVIOUS
    <2>2. d = [me EXCEPT !.pc = "claim"]
      BY <1>4, <2>1 DEF Driver
    <2>3. proc'[p] = d
      BY <1>7, <2>2, Typed DEF Continue, Become, CInv
    <2> QED
      BY <1>4, <1>5, <2>1, <2>3 DEF Agreeable
  <1>8. CASE /\ commit[KeyOf(me)].done # Null
             /\ Continue(p, [me EXCEPT !.pc = "origin", !.from =
                  <<commit[KeyOf(me)].run, commit[KeyOf(me)].intent>>])
    <2>1. PICK from, d : /\ from = <<commit[KeyOf(me)].run, commit[KeyOf(me)].intent>>
                         /\ d = [me EXCEPT !.pc = "origin", !.from = from]
      OBVIOUS
    <2>2. proc'[p] = d
      BY <1>8, <2>1, Typed DEF Continue, Become, CInv
    <2>3. IsOrigin(me.run, me.call, from)
      BY <1>4, <1>8, <2>1, Typed DEF IsOrigin, KeyOf, Store!IsSettled, CInv
    <2> QED
      BY <1>4, <1>5, <2>1, <2>2, <2>3 DEF Agreeable
  <1> QED
    BY <1>1, <1>6, <1>7, <1>8 DEF Lookup

\* claim_call leaves a driver that runs under its claim or copies the holder.
LEMMA ClaimAgreesStep ==
  ASSUME CInv, NEW p \in Proc, Claim(p)
  PROVE  Agreeable(p)
  <1>1. PICK me \in Driver : me = proc[p]
    BY Typed DEF CInv
  <1>2. me.pc = "claim" /\ log' = log /\ me.at \in Seqs
    BY <1>1 DEF Claim, Store!ClaimCall
  <1>3. PICK m \in Seqs, r \in Run : r = me.run /\ HasRead(me, m)
    BY <1>1, <1>2, AtItsPlace
  <1>4. PICK c \in Calls(r) : c = me.call /\ Keyed(r, c)
    BY <1>1, <1>2, <1>3, AtWork DEF CInv, InCall, KnowsItsCall
  <1>5. PICK k \in Ident : k = Identity(r, c)
    BY <1>4, CallsAreTyped
  <1>6. KeyOf(me) = k /\ Store!ClaimCall(k, r, me.at) /\ me.from = NoOrigin
    BY <1>1, <1>2, <1>3, <1>4, <1>5, AtWork DEF Claim, KeyOf, MayExecute, CInv
  <1>7. StoreAgrees'
    BY <1>2, <1>5, <1>6, ClaimAgrees DEF CInv
  <1>8. ASSUME NEW pc \in {"intent", "exec", "origin"}, NEW from, NEW d,
               d = [me EXCEPT !.pc = pc, !.from = from], proc'[p] = d,
               pc = "intent" => me.at = me.end, pc = "exec" => me.at # me.end,
               pc = "origin" => IsOrigin(r, c, from) /\ commit' = commit,
               pc # "origin" => from = NoOrigin
        PROVE  Agreeable(p)
    <2>1. /\ d.pc = pc /\ d.from = from /\ d.run = r /\ d.end = me.end
          /\ d.call = c /\ d.at = me.at
      BY <1>3, <1>4, <1>8 DEF Driver
    <2>2. HasRead(d, m)'
      BY <1>2, <1>3, <1>4, <1>8, <2>1 DEF HasRead, PastIntent, Before, AsksNext
    <2>3. UpToDate(d)'
      BY <1>2, <1>8, <2>1, <2>2
      DEF UpToDate, KnowsItsPlace, KnowsItsOrigin, ResolvesNoClaim, IsOrigin, Store!IsSettled
    <2> QED
      BY <1>7, <1>8, <2>3, UpToDateOf DEF Agreeable
  <1>9. CASE Become(p, Idle)
    BY <1>7, <1>9, Typed, IdleIsUpToDate DEF Become, Agreeable, CInv
  <1>10. CASE Become(p, [me EXCEPT !.pc = IF me.at = me.end THEN "intent" ELSE "exec"])
    <2>1. PICK pc \in {"intent", "exec", "origin"} :
            pc = IF me.at = me.end THEN "intent" ELSE "exec"
      OBVIOUS
    <2>2. PICK d : d = [me EXCEPT !.pc = pc, !.from = NoOrigin]
      OBVIOUS
    <2>3. d = [me EXCEPT !.pc = pc]
      BY <1>6, <2>2 DEF Driver
    <2>4. proc'[p] = d
      BY <1>10, <2>1, <2>3, Typed DEF Become, CInv
    <2> QED
      BY <1>8, <2>1, <2>2, <2>4
  <1>11. CASE /\ Store!IsClaimed(k) /\ Store!IsSettled(k)
              /\ Become(p, [me EXCEPT !.pc = "origin",
                                      !.from = <<commit[k].run, commit[k].intent>>])
    <2>1. PICK from, d : /\ from = <<commit[k].run, commit[k].intent>>
                         /\ d = [me EXCEPT !.pc = "origin", !.from = from]
      OBVIOUS
    <2>2. proc'[p] = d
      BY <1>11, <2>1, Typed DEF Become, CInv
    <2>3. IsOrigin(r, c, from) /\ commit' = commit
      BY <1>4, <1>5, <1>6, <1>11, <2>1 DEF IsOrigin, Store!ClaimCall
    <2> QED
      BY <1>8, <2>1, <2>2, <2>3
  <1> QED
    BY <1>1, <1>6, <1>9, <1>10, <1>11 DEF Claim

\* committed_call hands over what the holder recorded.
LEMMA ReadOriginAgrees ==
  ASSUME CInv, NEW p \in Proc, ReadOrigin(p)
  PROVE  Agreeable(p)
  <1>1. PICK me \in Driver : me = proc[p]
    BY Typed DEF CInv
  <1>2. /\ me.pc = "origin" /\ UNCHANGED storeVars /\ log' = log /\ commit' = commit
        /\ StoreAgrees'
    BY <1>1, StoreUntouched DEF ReadOrigin, Continue, storeVars, CInv
  <1>3. PICK m \in Seqs, r \in Run : r = me.run /\ HasRead(me, m)
    BY <1>1, <1>2, AtItsPlace
  <1>4. PICK c \in Calls(r) : c = me.call
    BY <1>1, <1>2, <1>3, AtWork DEF CInv, InCall
  <1>5. IsOrigin(r, c, me.from)
    BY <1>1, <1>2, <1>3, <1>4 DEF CInv, UpToDate, KnowsItsOrigin
  <1>6. PICK k \in Ident : k = Identity(r, c)
    BY <1>4, <1>5, CallsAreTyped DEF IsOrigin
  <1>7. PICK o \in Run, s \in Seqs : o = commit[k].run /\ s = commit[k].intent
    BY <1>5, <1>6, HolderIsRecorded DEF IsOrigin, CInv
  <1>8. Store!IsSettled(k) /\ me.from = <<o, s>> /\ me.from[1] = o /\ me.from[2] = s
    BY <1>5, <1>6, <1>7 DEF IsOrigin
  <1>9. CASE Continue(p, Idle)
    BY <1>2, <1>9, Typed, IdleIsUpToDate DEF Continue, Become, Agreeable, CInv
  <1>10. ASSUME NEW d \in Seqs, IsCompletionOf(o, d, s),
                SameInput(r, c, o, log[o][s].call),
                Continue(p, [me EXCEPT !.pc = IF me.at = me.end THEN "intent" ELSE "settle",
                                       !.out = log[o][d].out])
         PROVE  Agreeable(p)
    <2>1. commit[k].done = d
      BY <1>6, <1>7, <1>8, <1>10, HolderIsRecorded, ToolCallAssumption
      DEF CInv, StoreAgrees, ClaimsAgree, SettledIffCompleted, SettledAreClaimed
    <2>2. Repeats(r, c, me.from, log[o][d].out)
      BY <1>5, <1>6, <1>7, <1>10, <2>1 DEF Repeats
    <2>3. PICK e : e = [me EXCEPT !.pc = IF me.at = me.end THEN "intent" ELSE "settle",
                                  !.out = log[o][d].out]
      OBVIOUS
    <2>4. /\ e.pc = IF me.at = me.end THEN "intent" ELSE "settle"
          /\ e.from = me.from /\ e.run = r /\ e.end = me.end
          /\ e.call = c /\ e.at = me.at /\ e.out = log[o][d].out
      BY <1>3, <1>4, <2>3 DEF Driver
    <2>5. proc'[p] = e
      BY <1>10, <2>3, Typed DEF Continue, Become, CInv
    <2>6. HasRead(e, m)'
      BY <1>2, <1>3, <1>4, <2>4 DEF HasRead, PastIntent, Before, AsksNext
    <2>7. KnowsItsOrigin(e)'
      BY <1>2, <2>2, <2>4 DEF KnowsItsOrigin, Repeats, IsOrigin, Store!IsSettled
    <2>8. UpToDate(e)'
      BY <2>4, <2>6, <2>7 DEF UpToDate, KnowsItsPlace, ResolvesNoClaim
    <2> QED
      BY <1>2, <2>5, <2>8, UpToDateOf DEF Agreeable
  <1> QED
    BY <1>1, <1>3, <1>4, <1>8, <1>9, <1>10 DEF ReadOrigin

\* resolve's lookup tells whether there is a claim to settle.
LEMMA LookupHeldAgrees ==
  ASSUME CInv, NEW p \in Proc, LookupHeld(p)
  PROVE  Agreeable(p)
  <1>1. PICK me \in Driver : me = proc[p]
    BY Typed DEF CInv
  <1>2. /\ me.pc = "lookupHeld" /\ UNCHANGED storeVars /\ log' = log /\ commit' = commit
        /\ StoreAgrees'
    BY <1>1, StoreUntouched DEF LookupHeld, Continue, storeVars, CInv
  <1>3. PICK m \in Seqs, r \in Run : r = me.run /\ HasRead(me, m)
    BY <1>1, <1>2, AtItsPlace
  <1>4. PICK pc \in {"resolve", "resolveSettling"} :
          /\ Continue(p, [me EXCEPT !.pc = pc])
          /\ pc = "resolve" => \/ ~Store!HeldBy(KeyOf(me), me.run, me.at)
                               \/ Store!IsSettled(KeyOf(me))
    BY <1>1 DEF LookupHeld
  <1>5. PICK d : d = [me EXCEPT !.pc = pc]
    OBVIOUS
  <1>6. /\ d.pc = pc /\ d.from = me.from /\ d.run = me.run /\ d.end = me.end
        /\ d.call = me.call /\ d.at = me.at
    BY <1>5 DEF Driver
  <1>7. proc'[p] = d
    BY <1>4, <1>5, Typed DEF Continue, Become, CInv
  <1>8. HasRead(d, m)'
    BY <1>2, <1>3, <1>6 DEF HasRead, PastIntent, Before
  <1>9. ResolvesNoClaim(d)'
    BY <1>2, <1>4, <1>6 DEF ResolvesNoClaim, KeyOf, Store!HeldBy, Store!IsSettled
  <1>10. UpToDate(d)'
    BY <1>6, <1>8, <1>9 DEF UpToDate, KnowsItsPlace, KnowsItsOrigin
  <1> QED
    BY <1>2, <1>7, <1>10, UpToDateOf DEF Agreeable

\* Every step but running the tool is agreeable.
LEMMA StepsAreAgreeable ==
  ASSUME CInv, NEW p \in Proc,
         Work(p) \/ Crash(p) \/ \E r \in Run : Invoke(p, r)
  PROVE  Agreeable(p) \/ Attempt(p)
  <1>1. CASE Crash(p)
    BY <1>1, GivesUp DEF Crash
  <1>2. CASE \E r \in Run : Invoke(p, r)
    BY <1>2, InvokeAgrees
  <1>3. CASE RecoverRedriven(p)
    BY <1>3, AtWork, ReplayAgrees DEF RecoverRedriven, ReadLog, CInv
  <1>4. CASE Work(p) /\ ~RecoverRedriven(p)
    BY <1>4, RecordStartAgrees, RecordPlainAgrees, LookupAgrees, ClaimAgreesStep,
       ReadOriginAgrees, RecordIntentAgrees, RecordCompletionAgrees, LookupHeldAgrees,
       RecordResolutionAgrees
    DEF Work
  <1> QED
    BY <1>1, <1>2, <1>3, <1>4

\* Running the tool changes neither the store nor what its driver knows of it.
LEMMA AttemptKeepsCInv ==
  ASSUME CInv, NEW p \in Proc, Attempt(p)
  PROVE  CInv'
  <1>1. IInv'
    BY AttemptStep DEF CInv
  <1>2. UNCHANGED storeVars /\ log' = log /\ commit' = commit
    BY DEF Attempt, storeVars
  <1>3. StoreAgrees' /\ Grows /\ Settles
    BY <1>2, StoreUntouched DEF CInv, Grows, Settles
  <1>4. PICK me \in Driver : me = proc[p] /\ me.pc = "exec" /\ me.from = NoOrigin
    BY Typed, AtWork DEF CInv, Attempt, MayExecute
  <1>5. PICK d \in Driver :
          /\ proc' = [proc EXCEPT ![p] = d]
          /\ d.pc \in {"exec", "settle"} /\ d.run = me.run /\ d.end = me.end
          /\ d.call = me.call /\ d.at = me.at /\ d.from = me.from
    <2>1. ASSUME Become(p, [me EXCEPT !.tries = me.tries + 1])
          PROVE  \E d \in Driver :
                   /\ proc' = [proc EXCEPT ![p] = d]
                   /\ d.pc \in {"exec", "settle"} /\ d.run = me.run /\ d.end = me.end
                   /\ d.call = me.call /\ d.at = me.at /\ d.from = me.from
      <3>1. PICK t \in Nat : t = me.tries + 1
        BY DEF Driver
      <3> DEFINE e == [me EXCEPT !.tries = t]
      <3>2. /\ e \in Driver /\ e.pc = "exec" /\ e.run = me.run /\ e.end = me.end
            /\ e.call = me.call /\ e.at = me.at /\ e.from = me.from
        BY <1>4, <3>1 DEF Driver
      <3>3. proc' = [proc EXCEPT ![p] = e]
        BY <2>1, <3>1 DEF Become
      <3> QED
        BY <3>2, <3>3
    <2>2. ASSUME NEW o \in Output,
                 Become(p, [me EXCEPT !.pc = "settle", !.out = o, !.tries = 0])
          PROVE  \E d \in Driver :
                   /\ proc' = [proc EXCEPT ![p] = d]
                   /\ d.pc \in {"exec", "settle"} /\ d.run = me.run /\ d.end = me.end
                   /\ d.call = me.call /\ d.at = me.at /\ d.from = me.from
      <3> DEFINE e == [me EXCEPT !.pc = "settle", !.out = o, !.tries = 0]
      <3>1. /\ e \in Driver /\ e.pc = "settle" /\ e.run = me.run /\ e.end = me.end
            /\ e.call = me.call /\ e.at = me.at /\ e.from = me.from
        BY DEF Driver, PCs
      <3>2. proc' = [proc EXCEPT ![p] = e]
        BY <2>2 DEF Become
      <3> QED
        BY <3>1, <3>2
    <2> QED
      BY <1>4, <2>1, <2>2 DEF Attempt
  <1>6. proc'[p] = d /\ \A q \in Proc \ {p} : proc'[q] = proc[q]
    BY <1>5, Typed DEF CInv
  <1>7. PICK m \in Seqs : HasRead(me, m)
    BY <1>4, AtItsPlace
  <1>8. HasRead(d, m)'
    BY <1>2, <1>4, <1>5, <1>7 DEF HasRead, PastIntent, Before
  <1>9. UpToDate(d)'
    BY <1>4, <1>5, <1>8 DEF UpToDate, KnowsItsPlace, KnowsItsOrigin, ResolvesNoClaim
  <1>10. \A q \in Proc : UpToDate(proc[q])'
    BY <1>3, <1>6, <1>9, UpToDateOf, UpToDateIsStable
  <1> QED
    BY <1>1, <1>3, <1>10 DEF CInv

----------------------------------------------------------------------------
(* The theorems.                                                            *)

\* An empty store tells one story and idle processes know nothing of it.
LEMMA InitEstablishesCInv == Init => CInv
  <1> SUFFICES ASSUME Init PROVE CInv
    OBVIOUS
  <1>1. IInv
    BY InitEstablishesIInv
  <1>2. /\ \A r \in Run, s \in Seqs : log[r][s] = NoEvent
        /\ \A k \in Ident : commit[k].run = Nobody /\ commit[k].done = Null
    BY <1>1, Typed DEF Init, Store!Init, Store!Unclaimed
  <1>3. SettledAreClaimed /\ ClaimsAgree
    BY <1>1, <1>2, Typed
    DEF SettledAreClaimed, ClaimsAgree, NoIntentWhileInFlight, SettledIffCompleted, IsIntent,
        Store!IsSettled, Store!IsClaimed
  <1>4. LogReplayable
    <2>1. 0 \in Ends /\ 0 \in Seqs
      BY ToolCallAssumption DEF Ends, Seqs
    <2>2. \A r \in Run : Store!IsEnd(log[r], 0)
      BY <1>1, <1>2, Typed DEF Store!IsEnd, Seqs
    <2> QED
      BY <1>2, <2>1, <2>2 DEF LogReplayable
  <1>5. CopiesRepeat
    BY <1>2 DEF CopiesRepeat
  <1>6. \A p \in Proc : UpToDate(proc[p])
    BY DEF Init, Idle, At, UpToDate, KnowsItsPlace, KnowsItsOrigin, ResolvesNoClaim
  <1> QED
    BY <1>1, <1>3, <1>4, <1>5, <1>6 DEF CInv, StoreAgrees

\* Every step of every process keeps the invariant.
LEMMA NextKeepsCInv == CInv /\ [Next]_vars => CInv'
  <1> SUFFICES ASSUME CInv, [Next]_vars PROVE CInv'
    OBVIOUS
  <1>1. CASE Next
    <2>1. PICK p \in Proc : Work(p) \/ Crash(p) \/ \E r \in Run : Invoke(p, r)
      BY <1>1 DEF Next
    <2>2. CASE Attempt(p)
      BY <2>2, AttemptKeepsCInv
    <2>3. CASE ~Attempt(p)
      BY <2>1, <2>3, StepsAreDisciplined, StepsAreAgreeable, AgreeableKeepsCInv DEF CInv
    <2> QED
      BY <2>2, <2>3
  <1>2. CASE UNCHANGED vars
    <2>1. IInv'
      BY <1>2, NextKeepsIInv DEF CInv
    <2>2. UNCHANGED storeVars /\ log' = log /\ commit' = commit /\ proc' = proc
      BY <1>2 DEF vars, storeVars
    <2>3. StoreAgrees' /\ Grows /\ Settles
      BY <2>2, StoreUntouched DEF CInv, Grows, Settles
    <2>4. \A q \in Proc : UpToDate(proc[q])'
      BY <2>2, <2>3, UpToDateIsStable
    <2> QED
      BY <2>1, <2>3, <2>4 DEF CInv
  <1> QED
    BY <1>1, <1>2

\* The strengthened invariant holds in every reachable state.
THEOREM Agreement == Spec => []CInv
  BY InitEstablishesCInv, NextKeepsCInv, PTL DEF Spec

\* Whatever any number of processes, marks, operators and crashes append, every
\* log stays one the cursor accepts.
THEOREM LogsStayReplayable == Spec => []LogReplayable
  <1>1. CInv => LogReplayable
    BY DEF CInv, StoreAgrees
  <1> QED
    BY <1>1, Agreement, PTL

\* No keyed intent is recorded while another call has its identity in flight,
\* and an identity is settled exactly when its completion is in the log.
THEOREM ClaimsAndLogsAgree == Spec => []ClaimsAgree
  <1>1. CInv => ClaimsAgree
    BY DEF CInv, StoreAgrees
  <1> QED
    BY <1>1, Agreement, PTL

\* The copier of a call never ran it: had it run, it would hold the identity,
\* and its own completion would be the original.
LEMMA CopiersNeverRan ==
  ASSUME CInv, NEW r \in Run, NEW d \in Seqs, log[r][d] # NoEvent,
         log[r][d].from # NoOrigin
  PROVE  performed[r][log[r][d].at] = 0
  <1> DEFINE e == log[r][d]
             s == e.at
             k == Identity(r, e.call)
  <1>1. e.kind = "ToolCallCompleted" /\ IsOrigin(r, e.call, e.from)
    BY DEF CInv, StoreAgrees, CopiesRepeat, Repeats
  <1>2. IsCompletionOf(r, d, s) /\ e.call \in Calls(r)
    BY <1>1 DEF IsCompletionOf, CInv, IInv, EventsKnown
  <1>3. s \in Seqs /\ IsIntent(r, s) /\ log[r][s].call = e.call
    BY <1>2, CompletionAnswers DEF CInv, StoreAgrees
  <1>4. k \in Ident /\ Store!IsSettled(k) /\ Keyed(r, e.call)
    BY <1>1, <1>2, CallsAreTyped DEF IsOrigin
  <1>5. ASSUME performed[r][s] > 0 PROVE FALSE
    <2>1. Store!HeldBy(k, r, s)
      BY <1>3, <1>4, <1>5 DEF CInv, IInv, SingleExecution
    <2>2. commit[k].done = d
      BY <1>2, <1>3, <1>4, <2>1
      DEF CInv, StoreAgrees, SettledAreClaimed, ClaimsAgree, SettledIffCompleted,
          Store!HeldBy, IntentOf
    <2> QED
      BY <1>4, <2>1, <2>2, HolderIsRecorded DEF CInv, Store!HeldBy
  <1>6. performed[r][s] \in Nat
    BY <1>3 DEF CInv, IInv, TypeOK
  <1> QED
    BY <1>5, <1>6

\* A completion copied from another run repeats what the holder of the identity
\* recorded for the same call with the same input, and the copier never ran it.
THEOREM CopiesRepeatTheHolder == Spec => []CopiesAgree
  <1>1. CInv => CopiesAgree
    <2> SUFFICES ASSUME CInv, NEW r \in Run, NEW d \in Seqs, log[r][d] # NoEvent,
                        log[r][d].from # NoOrigin
                 PROVE  LET e == log[r][d]
                            o == e.from[1]
                            s == e.from[2]
                        IN
                        /\ performed[r][e.at] = 0
                        /\ IntentOf(o, s, Identity(r, e.call))
                        /\ Program[o][log[o][s].call].input = Program[r][e.call].input
                        /\ \E f \in Seqs : /\ IsCompletionOf(o, f, s)
                                            /\ log[o][f].out = e.out
                                            /\ log[o][f].from = NoOrigin
      BY DEF CopiesAgree
    <2>0. PICK e : e = log[r][d]
      OBVIOUS
    <2>1. PICK c \in Calls(r) : e = log[r][d] /\ c = e.call
      BY <2>0 DEF CInv, IInv, EventsKnown, StoreAgrees, CopiesRepeat
    <2>2. Repeats(r, c, e.from, e.out)
      BY <2>1 DEF CInv, StoreAgrees, CopiesRepeat
    <2>3. PICK k \in Ident : k = Identity(r, c) /\ Store!IsSettled(k)
      BY <2>1, <2>2, CallsAreTyped DEF Repeats, IsOrigin
    <2>4. PICK o \in Run, s \in Seqs, f \in Seqs :
            /\ o = commit[k].run /\ s = commit[k].intent /\ f = commit[k].done
            /\ IntentOf(o, s, k) /\ IsCompletionOf(o, f, s)
            /\ log[o][f].from = NoOrigin
      BY <2>3, HolderIsRecorded DEF CInv
    <2>5. e.from[1] = o /\ e.from[2] = s
      BY <2>2, <2>3, <2>4 DEF Repeats, IsOrigin
    <2>6. SameInput(r, c, o, log[o][s].call) /\ log[o][f].out = e.out
      BY <2>2, <2>3, <2>4 DEF Repeats
    <2>7. performed[r][e.at] = 0
      BY <2>1, CopiersNeverRan
    <2> QED
      BY <2>1, <2>3, <2>4, <2>5, <2>6, <2>7 DEF SameInput
  <1> QED
    BY <1>1, Agreement, PTL

----------------------------------------------------------------------------
(* Keys left held.                                                          *)

\* An operation on the store fills at most one position.
LEMMA OneAppend ==
  ASSUME IInv, [Store!Next]_storeVars, NEW r \in Run, NEW a \in Seqs, NEW b \in Seqs,
         log'[r][a] # log[r][a], log'[r][b] # log[r][b]
  PROVE  a = b
  <1> USE Typed
  <1>1. ASSUME NEW x \in Run, NEW n \in Store!Seqs, NEW e \in Event,
               log' = [log EXCEPT ![x][n] = e]
        PROVE  a = b
    BY <1>1
  <1>2. ASSUME NEW k \in Ident, NEW x \in Run, NEW n \in Store!Seqs, Store!ClaimCall(k, x, n)
        PROVE  a = b
    BY <1>2 DEF Store!ClaimCall
  <1> QED
    BY <1>1, <1>2 DEF Store!Next, Store!Append, Store!AppendSettlingCall, storeVars

\* A call that completed has completed for good.
LEMMA CompletedForGood ==
  ASSUME Grows, NEW r \in Run, NEW c, CallCompleted(r, c)
  PROVE  CallCompleted(r, c)'
  <1>1. PICK s \in Seqs, d \in Seqs : IsIntent(r, s) /\ log[r][s].call = c /\ IsCompletionOf(r, d, s)
    BY DEF CallCompleted
  <1>2. log'[r][s] = log[r][s] /\ log'[r][d] = log[r][d]
    BY <1>1 DEF Grows, IsIntent, IsCompletionOf
  <1>3. (IsIntent(r, s) /\ log[r][s].call = c /\ IsCompletionOf(r, d, s))'
    BY <1>1, <1>2 DEF IsIntent, IsCompletionOf
  <1> QED
    BY <1>3 DEF CallCompleted

\* A new completion answers an intent that the program put after a call that
\* had completed.
LEMMA CallsStayInOrder ==
  ASSUME OInv, LogReplayable', [Store!Next]_storeVars, Grows
  PROVE  CallsInOrder'
  <1> SUFFICES ASSUME NEW r \in Run, NEW s \in Seqs, log'[r][s] # NoEvent,
                      log'[r][s].kind = "ToolCallCompleted",
                      NEW c \in 1..log'[r][s].call
               PROVE  CallCompleted(r, c)'
    BY DEF CallsInOrder
  <1>1. CASE log'[r][s] = log[r][s]
    BY <1>1, CompletedForGood DEF OInv, CallsInOrder
  <1>2. CASE log'[r][s] # log[r][s]
    <2>1. /\ \A y \in Seqs : y # s => log'[r][y] = log[r][y]
          /\ \A y \in Seqs \ {0} : log'[r][y] # NoEvent =>
               \E m \in Seqs : Before(r, y, m)' /\ MayFollow(r, m, log[r][y])'
          /\ log'[r][0] # NoEvent => log'[r][0].kind = "RunStarted"
      BY <1>2, OneAppend DEF OInv, CInv, LogReplayable
    <2>2. PICK m \in Seqs : /\ m < s /\ log'[r][m].kind = "ToolCallRequested"
                            /\ log'[r][s].at = m /\ log'[r][s].call = log'[r][m].call
      BY <2>1 DEF Before, MayFollow
    <2>3. log'[r][m] = log[r][m] /\ m # s
      BY <2>1, <2>2, ToolCallAssumption DEF Seqs
    <2>4. log[r][m] # NoEvent /\ m # 0
      <3>1. PICK n \in Ends : Store!IsEnd(log'[r], n)
        BY DEF LogReplayable
      <3>2. log'[r][m] # NoEvent
        BY <2>2, <3>1, ToolCallAssumption DEF Store!IsEnd, Store!Seqs, Seqs, Ends
      <3> QED
        BY <2>1, <2>2, <2>3, <3>2
    <2>5. PICK x \in Seqs : Before(r, m, x) /\ MayFollow(r, x, log[r][m])
      BY <2>4 DEF OInv, CInv, StoreAgrees, LogReplayable
    <2>6. x < m /\ log[r][x] # NoEvent
      BY <2>4, <2>5, NoGaps, ToolCallAssumption
      DEF Before, OInv, CInv, StoreAgrees, Seqs
    <2>7. \/ log'[r][s].call = 1
          \/ /\ log[r][x].kind = "ToolCallCompleted"
             /\ log'[r][s].call = log[r][x].call + 1
      BY <2>2, <2>3, <2>5 DEF MayFollow, AsksNext
    <2>8. CASE c = log'[r][s].call
      <3>1. (IsIntent(r, m) /\ log[r][m].call = c /\ IsCompletionOf(r, s, m))'
        BY <2>2, <2>3, <2>4, <2>8 DEF IsIntent, IsCompletionOf
      <3> QED
        BY <3>1 DEF CallCompleted
    <2>9. CASE c # log'[r][s].call
      <3>1. log[r][x].kind = "ToolCallCompleted" => log[r][x].call \in Nat
        BY <2>6, CallsAreTyped DEF OInv, CInv, IInv, EventsKnown
      <3>2. log[r][x].kind = "ToolCallCompleted" /\ c \in 1..log[r][x].call
        BY <2>7, <2>9, <3>1
      <3> QED
        BY <2>6, <3>2, CompletedForGood DEF OInv, CallsInOrder
    <2> QED
      BY <2>8, <2>9
  <1> QED
    BY <1>1, <1>2

\* Only claim_call gives an identity an owner.
LEMMA OwnersStay ==
  ASSUME IInv, NEW p \in Proc,
         Work(p) \/ Crash(p) \/ \E r \in Run : Invoke(p, r), ~Claim(p),
         NEW k \in Ident
  PROVE  commit'[k].run = commit[k].run
  <1>1. ASSUME NEW e, NEW then, Persist(p, e, then)
        PROVE  commit' = commit
    BY <1>1 DEF Persist, Store!Append, storeVars
  <1>2. ASSUME NEW e, NEW j, NEW s, NEW then, PersistSettling(p, e, j, s, then)
        PROVE  commit'[k].run = commit[k].run
    BY <1>2, Typed DEF PersistSettling, Store!AppendSettlingCall, storeVars, Store!Commitment
  <1>3. ASSUME NEW d, Continue(p, d)
        PROVE  commit' = commit
    BY <1>3 DEF Continue, storeVars
  <1>4. CASE Crash(p) \/ Attempt(p)
    BY <1>4 DEF Crash, Attempt, storeVars
  <1>5. CASE \E r \in Run : Invoke(p, r)
    BY <1>3, <1>5 DEF Invoke, Start, Recover, ReadLog, Redrive, Resolve, Abandon
  <1>6. CASE Work(p)
    <2>1. CASE RecordStart(p) \/ RecordRedrive(p) \/ RecordIntent(p)
               \/ RecordRunCompleted(p) \/ RecordAbandoned(p)
      BY <1>1, <2>1
      DEF RecordStart, RecordRedrive, RecordIntent, RecordRunCompleted, RecordAbandoned
    <2>2. CASE RecordCompletion(p) \/ RecordResolution(p)
      BY <1>1, <1>2, <2>2 DEF RecordCompletion, RecordResolution
    <2>3. CASE RecoverRedriven(p) \/ Lookup(p) \/ ReadOrigin(p) \/ LookupHeld(p)
      BY <1>3, <2>3 DEF RecoverRedriven, ReadLog, Lookup, ReadOrigin, LookupHeld
    <2> QED
      BY <1>4, <1>6, <2>1, <2>2, <2>3 DEF Work
  <1> QED
    BY <1>4, <1>5, <1>6

\* What every step does to the store.
LEMMA NextOnTheStore ==
  ASSUME CInv, [Next]_vars
  PROVE  [Store!Next]_storeVars /\ Grows /\ Settles
  <1>1. [Store!Next]_storeVars
    <2>1. CASE Next
      <3>1. PICK p \in Proc : Disciplined(p) \/ Attempt(p)
        BY <2>1, StepsAreDisciplined DEF Next, CInv
      <3> QED
        BY <3>1 DEF Disciplined, Attempt
    <2>2. CASE UNCHANGED vars
      BY <2>2 DEF vars, storeVars
    <2> QED
      BY <2>1, <2>2
  <1> QED
    BY <1>1, StoreGrows, StoreSettles DEF CInv, IInv, TypeOK, StoreAgrees

\* Every step keeps the invariant and the order of the calls.
LEMMA NextKeepsOInv == OInv /\ [Next]_vars => OInv'
  <1> SUFFICES ASSUME OInv, [Next]_vars PROVE OInv'
    OBVIOUS
  <1>1. CInv' /\ CInv
    BY NextKeepsCInv DEF OInv
  <1>2. [Store!Next]_storeVars /\ Grows
    BY <1>1, NextOnTheStore
  <1>4. CallsInOrder'
    BY <1>1, <1>2, CallsStayInOrder DEF CInv, StoreAgrees
  <1>5. ASSUME NEW k \in Ident, Store!IsClaimed(k)'
        PROVE  \E c \in Calls(commit'[k].run) : Identity(commit'[k].run, c) = k
    <2>1. CASE Store!IsClaimed(k)
      BY <1>2, <2>1 DEF Grows, OInv, ClaimsNameACall
    <2>2. CASE ~Store!IsClaimed(k)
      <3>1. PICK p \in Proc : Claim(p)
        BY <1>1, <1>5, <2>2, OwnersStay DEF Next, Store!IsClaimed, CInv, vars
      <3>2. /\ KeyOf(proc[p]) \in Ident /\ proc[p].run \in Run
            /\ proc[p].call \in Calls(proc[p].run)
        BY <1>1, <3>1, AtWork, CallsAreTyped DEF Claim, KeyOf, KnowsItsCall, InCall, CInv
      <3>3. k = KeyOf(proc[p]) /\ commit'[k].run = proc[p].run
        BY <1>1, <1>5, <2>2, <3>1, <3>2, Typed
        DEF Claim, Store!ClaimCall, Store!IsClaimed, CInv
      <3> QED
        BY <3>2, <3>3 DEF KeyOf
    <2> QED
      BY <2>1, <2>2
  <1> QED
    BY <1>1, <1>4, <1>5 DEF OInv, ClaimsNameACall

\* The strengthened invariant holds in every reachable state.
THEOREM Order == Spec => []OInv
  <1>1. Init => OInv
    <2> SUFFICES ASSUME Init PROVE OInv
      OBVIOUS
    <2>1. CInv
      BY InitEstablishesCInv
    <2>2. ClaimsNameACall /\ CallsInOrder
      BY Typed, <2>1
      DEF Init, Store!Init, Store!Unclaimed, Store!IsClaimed, ClaimsNameACall, CallsInOrder,
          CInv
    <2> QED
      BY <2>1, <2>2 DEF OInv
  <1> QED
    BY <1>1, NextKeepsOInv, PTL DEF Spec

\* A run that completed holds no key it has not settled, whoever completed its
\* calls: of the runs that ended, only an abandoned one strands a key.
THEOREM CompletionFreesTheKeys == Spec => []OnlyAbandonmentStrandsAKey
  <1>1. OInv => OnlyAbandonmentStrandsAKey
    <2> SUFFICES ASSUME OInv, NEW k \in Ident, Store!IsClaimed(k), ~Store!IsSettled(k),
                        NEW s \in Seqs, log[commit[k].run][s] # NoEvent,
                        log[commit[k].run][s].kind = "RunCompleted"
                 PROVE  FALSE
      BY DEF OnlyAbandonmentStrandsAKey
    <2>1. PICK r \in Run : r = commit[k].run
      BY Typed DEF OInv, CInv, Store!IsClaimed, Store!Commitment
    <2>2. PICK c \in Calls(r) : Identity(r, c) = k
      BY <2>1 DEF OInv, ClaimsNameACall
    <2>3. LogReplayable /\ ClaimsAgree
      BY DEF OInv, CInv, StoreAgrees
    <2>4. PICK m \in Seqs : Before(r, s, m) /\ AsksNoMore(r, m)
      BY <2>1, <2>3 DEF LogReplayable, MayFollow
    <2>5. log[r][m] # NoEvent
      BY <2>1, <2>3, <2>4, NoGaps, ToolCallAssumption DEF Before, Seqs
    <2>6. CallCompleted(r, c)
      BY <2>2, <2>4, <2>5 DEF AsksNoMore, Calls, OInv, CallsInOrder
    <2>7. PICK t \in Seqs, d \in Seqs :
            IsIntent(r, t) /\ log[r][t].call = c /\ IsCompletionOf(r, d, t)
      BY <2>6 DEF CallCompleted
    <2>8. Store!HeldBy(k, r, t)
      BY <2>2, <2>3, <2>7, ToolCallAssumption DEF ClaimsAgree, NoIntentWhileInFlight, Keyed
    <2>9. commit[k].done = d
      BY <2>2, <2>3, <2>7, <2>8 DEF ClaimsAgree, SettledIffCompleted, IntentOf, Store!HeldBy
    <2> QED
      BY <2>9, Typed DEF Store!IsSettled, OInv, CInv
  <1> QED
    BY <1>1, Order, PTL

----------------------------------------------------------------------------
(* Calls that nobody gets past.                                             *)

\* What may stand after the event at m, which asks for a call of key k.
Allowed(r, x, k) ==
  \/ log[r][x].kind \in {"RunRedriven", "RunAbandoned"}
  \/ IntentOf(r, x, k) /\ Store!HeldBy(k, r, x)

\* The event a step appends after one that asks for a call is one that may stand
\* there: the intent of that very call, under its claim, if it is not a mark.
LEMMA NothingElseFollows ==
  ASSUME OInv, OInv', NoneGetsPastAnUnsettledCall, [Store!Next]_storeVars, Grows,
         NEW r \in Run, NEW m \in Seqs, NEW c \in Calls(r), NEW x \in Seqs,
         NEW k \in Ident, k = Identity(r, c), Keyed(r, c),
         log'[r][m] # NoEvent, AsksNext(r, m, c)', ~Store!IsSettled(k)', ~Store!IsSettled(k),
         m < x, log'[r][x] # NoEvent, log'[r][x] # log[r][x]
  PROVE  Allowed(r, x, k)'
  <1> DEFINE e == log'[r][x]
  <1>1. \A y \in Seqs : y # x => log'[r][y] = log[r][y]
    BY OneAppend DEF OInv, CInv
  <1>2. /\ \A y \in Seqs \ {0} : log'[r][y] # NoEvent =>
             \E b \in Seqs : Before(r, y, b)' /\ MayFollow(r, b, log[r][y])'
        /\ \E n \in Ends : Store!IsEnd(log'[r], n)
    BY DEF OInv, CInv, StoreAgrees, LogReplayable
  <1>3. PICK b \in Seqs : Before(r, x, b)' /\ MayFollow(r, b, log[r][x])'
    BY <1>2, ToolCallAssumption DEF Seqs
  <1>4. m <= b /\ b < x
    BY <1>3, ToolCallAssumption DEF Before, AsksNext, Seqs
  <1>5. log'[r][b] # NoEvent
    BY <1>2, <1>4, ToolCallAssumption DEF Store!IsEnd, Store!Seqs, Seqs, Ends
  <1>6. log'[r][b] = log[r][b] /\ log'[r][m] = log[r][m]
    BY <1>1, <1>4, ToolCallAssumption DEF Seqs
  <1>7. AsksNext(r, m, c)
    BY <1>6 DEF AsksNext
  <1>8. ClaimsAgree'
    BY DEF OInv, CInv, StoreAgrees
  <1>9. CASE e.kind \in {"RunRedriven", "RunAbandoned"}
    BY <1>9 DEF Allowed
  <1>10. CASE e.kind = "ToolCallRequested"
    <2>1. AsksNext(r, b, log[r][x].call)'
      BY <1>3, <1>10 DEF MayFollow
    <2>2. b = m
      <3> SUFFICES ASSUME m < b PROVE FALSE
        BY <1>4, ToolCallAssumption DEF Seqs
      <3>1. Allowed(r, b, k)
        BY <1>5, <1>6, <1>7 DEF NoneGetsPastAnUnsettledCall, Allowed
      <3> QED
        BY <1>6, <2>1, <3>1 DEF Allowed, AsksNext, IntentOf, IsIntent
    <2>3. e.call = c
      BY <2>1, <2>2 DEF AsksNext
    <2>4. IntentOf(r, x, k)'
      BY <1>10, <2>3 DEF IntentOf, IsIntent
    <2> QED
      BY <1>8, <1>10, <2>3, <2>4
      DEF Allowed, ClaimsAgree, NoIntentWhileInFlight, IntentOf, Keyed
  <1>11. CASE e.kind = "ToolCallCompleted"
    <2>1. log'[r][b].kind = "ToolCallRequested" /\ e.at = b
      BY <1>3, <1>11 DEF MayFollow
    <2>2. m < b
      BY <1>4, <2>1, ToolCallAssumption DEF AsksNext, Seqs
    <2>3. Allowed(r, b, k)
      BY <1>5, <1>6, <1>7, <2>2 DEF NoneGetsPastAnUnsettledCall, Allowed
    <2>4. IntentOf(r, b, k) /\ Store!HeldBy(k, r, b)
      BY <1>6, <2>1, <2>3 DEF Allowed
    <2>5. IntentOf(r, b, k)' /\ Store!HeldBy(k, r, b)'
      BY <1>6, <2>4, Typed DEF IntentOf, IsIntent, Grows, Store!HeldBy, Store!IsClaimed, OInv, CInv
    <2>6. IsCompletionOf(r, x, b)'
      BY <1>11, <2>1 DEF IsCompletionOf
    <2>7. commit'[k].done = x
      BY <1>8, <2>5, <2>6, Typed
      DEF ClaimsAgree, SettledIffCompleted, Store!HeldBy, Store!IsClaimed, OInv, CInv
    <2> QED
      BY <2>7, Typed DEF Store!IsSettled, OInv, CInv
  <1>12. CASE e.kind = "RunCompleted"
    <2>1. AsksNoMore(r, b)'
      BY <1>3, <1>12 DEF MayFollow
    <2>2. b # m
      BY <2>1, ToolCallAssumption DEF AsksNoMore, AsksNext, Calls
    <2>3. Allowed(r, b, k)
      BY <1>4, <1>5, <1>6, <1>7, <2>2, ToolCallAssumption
      DEF NoneGetsPastAnUnsettledCall, Allowed, Seqs
    <2> QED
      BY <1>6, <2>1, <2>3 DEF Allowed, AsksNoMore, IntentOf, IsIntent
  <1> QED
    BY <1>3, <1>9, <1>10, <1>11, <1>12 DEF MayFollow

\* What stands after such an event stays allowed there.
LEMMA AllowedForGood ==
  ASSUME IInv, Grows, NEW r \in Run, NEW x \in Seqs, NEW k \in Ident,
         log[r][x] # NoEvent, Allowed(r, x, k)
  PROVE  Allowed(r, x, k)'
  <1>1. log'[r][x] = log[r][x]
    BY DEF Grows
  <1>2. CASE IntentOf(r, x, k) /\ Store!HeldBy(k, r, x)
    BY <1>1, <1>2, Typed
    DEF Allowed, IntentOf, IsIntent, Grows, Store!HeldBy, Store!IsClaimed
  <1> QED
    BY <1>1, <1>2 DEF Allowed

\* A run stays at a call whose key is not settled, whoever drives it and however
\* often: no run waits for a key while it holds another, and a key that is held is
\* held by a run that stands at its call or was abandoned there.
THEOREM UnsettledCallsAreTheLast == Spec => []NoneGetsPastAnUnsettledCall
  <1>1. Init => NoneGetsPastAnUnsettledCall
    BY DEF Init, Store!Init, Store!Seqs, Seqs, NoneGetsPastAnUnsettledCall
  <1>2. OInv /\ OInv' /\ NoneGetsPastAnUnsettledCall /\ [Next]_vars
          => NoneGetsPastAnUnsettledCall'
    <2> SUFFICES ASSUME OInv, OInv', NoneGetsPastAnUnsettledCall, [Next]_vars,
                        NEW r \in Run, NEW m \in Seqs, NEW c \in Calls(r), NEW x \in Seqs,
                        log'[r][m] # NoEvent, AsksNext(r, m, c)', Keyed(r, c),
                        ~Store!IsSettled(Identity(r, c))', x > m, log'[r][x] # NoEvent
                 PROVE  Allowed(r, x, Identity(r, c))'
      BY DEF NoneGetsPastAnUnsettledCall, Allowed, Keyed, Identity, Effect, Calls
    <2>1. [Store!Next]_storeVars /\ Grows /\ Settles
      BY NextOnTheStore DEF OInv
    <2>2. PICK k \in Ident : k = Identity(r, c)
      BY CallsAreTyped
    <2>3. ~Store!IsSettled(k)
      BY <2>1, <2>2 DEF Settles, Store!IsSettled
    <2>4. CASE log'[r][x] # log[r][x]
      BY <2>1, <2>2, <2>3, <2>4, NothingElseFollows, ToolCallAssumption DEF Seqs
    <2>5. CASE log'[r][x] = log[r][x]
      <3>1. log[r][m] # NoEvent
        BY <2>5, NoGaps, ToolCallAssumption DEF OInv, CInv, StoreAgrees, Seqs
      <3>2. log'[r][m] = log[r][m]
        BY <2>1, <3>1 DEF Grows
      <3>3. Allowed(r, x, k)
        BY <2>2, <2>3, <2>5, <3>1, <3>2 DEF AsksNext, NoneGetsPastAnUnsettledCall, Allowed
      <3> QED
        BY <2>1, <2>2, <2>5, <3>3, AllowedForGood DEF OInv, CInv
    <2> QED
      BY <2>4, <2>5
  <1> QED
    BY <1>1, <1>2, Order, PTL DEF Spec

=============================================================================
