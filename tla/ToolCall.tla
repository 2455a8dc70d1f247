------------------------------ MODULE ToolCall ------------------------------
(***************************************************************************)
(* How a run performs its tool calls: salvor-runtime's RunCtx::tool_call    *)
(* over salvor-replay's ReplayCursor and salvor-store's EventStore, together*)
(* with the Runtime verbs that start, recover, redrive, resolve and abandon *)
(* a run.                                                                   *)
(*                                                                          *)
(* Several processes (a server, a CLI, a library user) share one store and  *)
(* may drive the same run at the same time: nothing in the store or the     *)
(* runtime stops them, only the store's position conflict and the claim on  *)
(* a call's identity arbitrate.  Each store operation is one step; what a   *)
(* driver computes from the log it read between two of them belongs to the  *)
(* step before.  Model calls and suspensions are not in this module.        *)
(***************************************************************************)
EXTENDS Integers, Sequences, FiniteSets

CONSTANTS
  Run,          \* run ids
  Ident,        \* identities: (tool, declared idempotency key) pairs
  NoIdent,      \* what a call declares when its tool declares no key
  Input,        \* tool inputs
  Output,       \* what a tool hands back, encoded failures included
  NoOutput,     \* the output of an event that has none
  Proc,         \* driver processes
  Program,      \* Program[r]: the tool calls run r makes, in order
  NoEvent,      \* what a free log position holds
  Nobody,       \* the owner of an identity nobody claimed
  Verbs,        \* the Runtime verbs in use
  MaxSeq,       \* bound on log positions
  MaxMarks,     \* bound on the redrives recorded in the store
  MaxCrashes,   \* bound on process deaths
  MaxAttempts   \* MAX_TOOL_ATTEMPTS

Effects == {"Read", "Idempotent", "Write"}

Call == [ident : Ident \cup {NoIdent}, input : Input, effect : Effects]

ASSUME ToolCallAssumption ==
  /\ MaxSeq \in Nat
  /\ MaxMarks \in Nat
  /\ MaxCrashes \in Nat
  /\ MaxAttempts \in Nat \ {0}
  /\ Program \in [Run -> Seq(Call)]
  /\ NoIdent \notin Ident
  /\ NoOutput \notin Output
  /\ Nobody \notin Run
  /\ Verbs \subseteq {"start", "recover", "redrive", "resolve", "abandon"}

VARIABLES
  log,         \* the store's logs
  commit,      \* the store's call commitments
  proc,        \* proc[p]: what driver process p is doing
  performed,   \* performed[r][s]: times the tool ran for the intent at s of r
  crashes      \* process deaths so far

Seqs == 0..MaxSeq
Null == -1

----------------------------------------------------------------------------
(* Events.                                                                  *)

Kinds == {"RunStarted", "ToolCallRequested", "ToolCallCompleted",
          "RunRedriven", "RunCompleted", "RunAbandoned"}

Origin == Run \X Seqs
NoOrigin == <<>>

\* "call" is the index in Program[r] of the call an event is about.  The code
\* records the call's tool, input, effect and key there; the index stands for
\* them.  "at" is a completion's correlation, "from" its deduplicated_from.
Event == [kind : Kinds, call : Nat, at : Seqs \cup {Null},
          out : Output \cup {NoOutput}, from : Origin \cup {NoOrigin}]

ASSUME NoEventAssumption == NoEvent \notin Event

Plain(kind) ==
  [kind |-> kind, call |-> 0, at |-> Null, out |-> NoOutput, from |-> NoOrigin]

Requested(c) == [Plain("ToolCallRequested") EXCEPT !.call = c]

Completed(c, s, o, f) ==
  [kind |-> "ToolCallCompleted", call |-> c, at |-> s, out |-> o, from |-> f]

Terminal == {"RunCompleted", "RunAbandoned"}

Store == INSTANCE EventStore

storeVars == <<log, commit>>
vars == <<log, commit, proc, performed, crashes>>

----------------------------------------------------------------------------
(* Calls.                                                                   *)

Calls(r) == 1..Len(Program[r])
Effect(r, c) == Program[r][c].effect

\* The identity a call is arbitrated on: a declared key, of a tool that does
\* something to the world.
Deduplicates(effect) == effect \in {"Write", "Idempotent"}

Identity(r, c) ==
  IF Deduplicates(Effect(r, c)) THEN Program[r][c].ident ELSE NoIdent

Keyed(r, c) == Identity(r, c) # NoIdent

IsIntent(r, s) == s \in Seqs /\ log[r][s] # NoEvent /\ log[r][s].kind = "ToolCallRequested"

IsCompletionOf(r, d, s) ==
  /\ d \in Seqs
  /\ log[r][d] # NoEvent
  /\ log[r][d].kind = "ToolCallCompleted"
  /\ log[r][d].at = s

IntentOf(r, s, k) == IsIntent(r, s) /\ Identity(r, log[r][s].call) = k

----------------------------------------------------------------------------
(* Driver processes.                                                        *)

\* "end" is the cursor's next_live_seq, "at" the correlation of the call in
\* hand (equal to "end" until its intent is recorded), "from" and "out" what
\* it copies from another run, "tries" the attempts made so far.
PCs == {"idle", "recover", "begin", "mark", "lookup", "claim", "origin",
        "intent", "exec", "settle", "finish",
        "lookupHeld", "resolve", "resolveSettling", "abandon"}

Driver == [pc : PCs, run : Run \cup {Nobody}, end : Nat, call : Nat, at : Nat,
           from : Origin \cup {NoOrigin}, out : Output \cup {NoOutput}, tries : Nat]

\* A driver of run r at pc, the log's end at n, call c in hand with
\* correlation s.
At(pc, r, n, c, s) ==
  [pc |-> pc, run |-> r, end |-> n, call |-> c, at |-> s,
   from |-> NoOrigin, out |-> NoOutput, tries |-> 0]

Idle == At("idle", Nobody, 0, 0, 0)

TypeOK ==
  /\ Store!TypeOK
  /\ proc \in [Proc -> Driver]
  /\ performed \in [Run -> [Seqs -> Nat]]
  /\ crashes \in 0..MaxCrashes

Init ==
  /\ Store!Init
  /\ proc = [p \in Proc |-> Idle]
  /\ performed = [r \in Run |-> [s \in Seqs |-> 0]]
  /\ crashes = 0

Become(p, driver) == proc' = [proc EXCEPT ![p] = driver]
Ghosts == UNCHANGED <<performed, crashes>>

\* persist: append at the driver's next position and carry on as then; a
\* Conflict is an error the driver surfaces, having recorded nothing.
Persist(p, e, then) ==
  /\ \/ /\ Store!Append(proc[p].run, proc[p].end, e)
        /\ Become(p, then)
     \/ /\ Store!Conflict(proc[p].run, proc[p].end)
        /\ Become(p, Idle)
        /\ UNCHANGED storeVars
  /\ Ghosts

\* Mutant: the settlement of the claim is forgotten.
PersistUnsettled(p, e, k, s, then) == Persist(p, e, then)

\* persist_settling: the same, settling the claim on the call at correlation s.
PersistSettling(p, e, k, s, then) ==
  /\ \/ /\ Store!AppendSettlingCall(proc[p].run, proc[p].end, e, k, s)
        /\ Become(p, then)
     \/ /\ \/ Store!Conflict(proc[p].run, proc[p].end)
           \/ ~Store!HeldBy(k, proc[p].run, s)
           \/ Store!IsSettled(k)
        /\ Become(p, Idle)
        /\ UNCHANGED storeVars
  /\ Ghosts

\* A step that writes nothing.
Continue(p, driver) == Become(p, driver) /\ UNCHANGED storeVars /\ Ghosts

----------------------------------------------------------------------------
(* What a driver makes of a log it has read.                                *)

\* The log of r reads as n events, the last of them that is not a RunRedriven
\* mark at m: the marks are what the cursor drops.
ReadsAs(r, n, m) ==
  /\ m < n
  /\ Store!IsEnd(log[r], n)
  /\ log[r][m].kind # "RunRedriven"
  /\ \A s \in m + 1 .. n - 1 : log[r][s].kind = "RunRedriven"

Ends == 0..MaxSeq + 1

\* Mutants of Ask: the position is not reserved; a key is not claimed; the
\* run is taken for finished before its last call.
AskUnplaced(r, c, n) == At(IF c \in Calls(r) THEN "intent" ELSE "finish", r, n, c, Null)
AskUnclaimed(r, c, n) == At(IF c \in Calls(r) THEN "intent" ELSE "finish", r, n, c, n)
\* The driver asks for call c, which the log does not hold yet.
Ask(r, c, n) ==
  At(IF c \notin Calls(r) THEN "finish" ELSE IF Keyed(r, c) THEN "claim" ELSE "intent",
     r, n, c, n)

\* Mutant: a dangling Write is executed again like any other intent.
ReenterAnything(r, c, s, n) == At(IF Keyed(r, c) THEN "claim" ELSE "exec", r, n, c, s)

\* The driver asks for call c, whose intent dangles at s.
Reenter(r, c, s, n) ==
  IF ~Keyed(r, c) /\ Effect(r, c) = "Write"
    THEN Idle                                    \* NeedsReconciliation
    ELSE At(IF Keyed(r, c) THEN "lookup" ELSE "exec", r, n, c, s)

\* Mutant: the cursor does not step over a completed call.
ReplayRepeating(r, n, m) ==
  LET last == log[r][m] IN
  CASE last.kind = "RunStarted"        -> Ask(r, 1, n)
    [] last.kind = "ToolCallCompleted" -> Ask(r, last.call, n)
    [] last.kind = "ToolCallRequested" -> Reenter(r, last.call, m, n)
    [] OTHER                           -> Idle

\* Mutant: the cursor steps over an intent that nothing answers.
ReplaySkipping(r, n, m) ==
  LET last == log[r][m] IN
  CASE last.kind = "RunStarted"        -> Ask(r, 1, n)
    [] last.kind = "ToolCallCompleted" -> Ask(r, last.call + 1, n)
    [] last.kind = "ToolCallRequested" -> Ask(r, last.call + 1, n)
    [] OTHER                           -> Idle

\* Replays n events ending, marks aside, at m.
Replay(r, n, m) ==
  LET last == log[r][m] IN
  CASE last.kind = "RunStarted"        -> Ask(r, 1, n)
    [] last.kind = "ToolCallCompleted" -> Ask(r, last.call + 1, n)
    [] last.kind = "ToolCallRequested" -> Reenter(r, last.call, m, n)
    [] OTHER                           -> Idle

Dangling(r, m) == log[r][m].kind = "ToolCallRequested"

----------------------------------------------------------------------------
(* Runtime::start_with_id and Runtime::recover.                             *)

Start(p, r) ==
  /\ "start" \in Verbs
  /\ proc[p].pc = "idle"
  /\ Store!IsEnd(log[r], 0)
  /\ Continue(p, At("begin", r, 0, 0, 0))

RecordStart(p) ==
  /\ proc[p].pc = "begin"
  /\ Persist(p, Plain("RunStarted"), Ask(proc[p].run, 1, 1))

ReadLog(p, r) ==
  \E n, m \in Ends : ReadsAs(r, n, m) /\ Continue(p, Replay(r, n, m))

\* Without a mark: what a user of the library calls.  The server and the CLI call
\* it only behind a redrive.
Recover(p, r) ==
  /\ "recover" \in Verbs
  /\ proc[p].pc = "idle"
  /\ ReadLog(p, r)

(* Runtime::record_redrive, then recover: every redrive path.               *)

Redrive(p, r) ==
  /\ "redrive" \in Verbs
  /\ proc[p].pc = "idle"
  /\ Cardinality({x \in Run \X Seqs : log[x[1]][x[2]] = Plain("RunRedriven")}) < MaxMarks
  /\ \E n, m \in Ends :
       /\ ReadsAs(r, n, m)
       /\ log[r][m].kind \notin Terminal
       /\ Continue(p, At("mark", r, n, 0, 0))

RecordRedrive(p) ==
  /\ proc[p].pc = "mark"
  /\ Persist(p, Plain("RunRedriven"), At("recover", proc[p].run, 0, 0, 0))

RecoverRedriven(p) ==
  /\ proc[p].pc = "recover"
  /\ ReadLog(p, proc[p].run)

----------------------------------------------------------------------------
(* RunCtx::tool_call.                                                       *)

\* The key of the call in hand.
KeyOf(me) == Identity(me.run, me.call)

\* recover_deduplicated_intent: a dangling intent whose identity another run
\* holds and settled is an unfinished copy.
Lookup(p) ==
  LET me == proc[p]
      held == commit[KeyOf(me)]
      unfinishedCopy == held.run \in Run \ {me.run} /\ held.done # Null
  IN
  /\ me.pc = "lookup"
  /\ \/ /\ unfinishedCopy
        /\ Continue(p, [me EXCEPT !.pc = "origin", !.from = <<held.run, held.intent>>])
     \/ /\ ~unfinishedCopy
        /\ Effect(me.run, me.call) = "Write"
        /\ Continue(p, Idle)                                 \* NeedsReconciliation
     \/ /\ ~unfinishedCopy
        /\ Effect(me.run, me.call) # "Write"
        /\ Continue(p, [me EXCEPT !.pc = "claim"])

\* The decision point: after the cursor answered Live, before the intent.
Claim(p) ==
  LET me == proc[p]
      k == KeyOf(me)
  IN
  /\ me.pc = "claim"
  /\ me.at \in Seqs
  /\ Store!ClaimCall(k, me.run, me.at)
  /\ \/ /\ Store!ClaimAnswersClaimed(k, me.run, me.at)
        /\ Become(p, [me EXCEPT !.pc = IF me.at = me.end THEN "intent" ELSE "exec"])
     \/ /\ Store!IsClaimed(k)
        /\ Store!IsSettled(k)
        /\ Become(p, [me EXCEPT !.pc = "origin",
                                !.from = <<commit[k].run, commit[k].intent>>])
     \/ /\ ~Store!ClaimAnswersClaimed(k, me.run, me.at)
        /\ ~Store!IsSettled(k)
        /\ Become(p, Idle)                                   \* CallInFlight
  /\ Ghosts

\* Call c of r and call x of the origin o were given the same input.
SameInput(r, c, o, x) == Program[r][c].input = Program[o][x].input

\* committed_call: read the origin's log, insist on the same input.
ReadOrigin(p) ==
  LET me == proc[p]
      o == me.from[1]
      s == me.from[2]
      sameCall == /\ IntentOf(o, s, KeyOf(me))
                  /\ SameInput(me.run, me.call, o, log[o][s].call)
  IN
  /\ me.pc = "origin"
  /\ \/ \E d \in Seqs :
          /\ sameCall
          /\ IsCompletionOf(o, d, s)
          /\ Continue(p, [me EXCEPT !.pc = IF me.at = me.end THEN "intent" ELSE "settle",
                                    !.out = log[o][d].out])
     \/ /\ ~(sameCall /\ \E d \in Seqs : IsCompletionOf(o, d, s))
        /\ Continue(p, Idle)           \* IdempotencyKeyCollision, CommitmentUnreadable

\* Mutant: a copied call falls through to its execution.
RecordIntentAndRun(p) ==
  LET me == proc[p] IN
  /\ me.pc = "intent"
  /\ Persist(p, Requested(me.call), [me EXCEPT !.end = me.end + 1, !.pc = "exec"])

\* Write-ahead, for a performed call and a copied one alike.
RecordIntent(p) ==
  LET me == proc[p] IN
  /\ me.pc = "intent"
  /\ Persist(p, Requested(me.call),
             [me EXCEPT !.end = me.end + 1,
                        !.pc = IF me.from = NoOrigin THEN "exec" ELSE "settle"])

\* One attempt of the tool.  A handler failure is tried again when the
\* effect's policy allows; any other answer becomes the completion's output.
Attempt(p) ==
  LET me == proc[p] IN
  /\ me.pc = "exec"
  /\ performed' = [performed EXCEPT ![me.run][me.at] = @ + 1]
  /\ \/ /\ Effect(me.run, me.call) # "Write"
        /\ me.tries + 1 < MaxAttempts
        /\ Become(p, [me EXCEPT !.tries = me.tries + 1])
     \/ \E o \in Output :
          Become(p, [me EXCEPT !.pc = "settle", !.out = o, !.tries = 0])
  /\ UNCHANGED <<storeVars, crashes>>

RecordCompletion(p) ==
  LET me == proc[p]
      done == Completed(me.call, me.at, me.out, me.from)
      next == Ask(me.run, me.call + 1, me.end + 1)
  IN
  /\ me.pc = "settle"
  /\ IF Keyed(me.run, me.call) /\ me.from = NoOrigin
       THEN PersistSettling(p, done, KeyOf(me), me.at, next)
       ELSE Persist(p, done, next)

RecordRunCompleted(p) ==
  /\ proc[p].pc = "finish"
  /\ Persist(p, Plain("RunCompleted"), Idle)

----------------------------------------------------------------------------
(* Runtime::resolve and Runtime::abandon: an operator acts over the head.   *)

Resolve(p, r) ==
  /\ "resolve" \in Verbs
  /\ proc[p].pc = "idle"
  /\ \E n, m \in Ends :
       /\ ReadsAs(r, n, m)
       /\ Dangling(r, m)
       /\ Effect(r, log[r][m].call) = "Write"
       /\ Continue(p, At(
            IF Keyed(r, log[r][m].call) THEN "lookupHeld" ELSE "resolve",
            r, n, log[r][m].call, m))

LookupHeld(p) ==
  LET me == proc[p]
      k == KeyOf(me)
      unsettledHere == Store!HeldBy(k, me.run, me.at) /\ ~Store!IsSettled(k)
  IN
  /\ me.pc = "lookupHeld"
  /\ Continue(p, [me EXCEPT !.pc = IF unsettledHere THEN "resolveSettling" ELSE "resolve"])

RecordResolution(p) ==
  LET me == proc[p] IN
  \E o \in Output :
    LET done == Completed(me.call, me.at, o, NoOrigin) IN
    \/ me.pc = "resolveSettling" /\ PersistSettling(p, done, KeyOf(me), me.at, Idle)
    \/ me.pc = "resolve" /\ Persist(p, done, Idle)

Abandon(p, r) ==
  /\ "abandon" \in Verbs
  /\ proc[p].pc = "idle"
  /\ \E n, m \in Ends :
       /\ ReadsAs(r, n, m)
       /\ log[r][m].kind \notin Terminal
       /\ Continue(p, At("abandon", r, n, 0, 0))

RecordAbandoned(p) ==
  /\ proc[p].pc = "abandon"
  /\ Persist(p, Plain("RunAbandoned"), Idle)

----------------------------------------------------------------------------

\* A process dies between two store operations and forgets everything.
Crash(p) ==
  /\ proc[p].pc # "idle"
  /\ crashes < MaxCrashes
  /\ crashes' = crashes + 1
  /\ Become(p, Idle)
  /\ UNCHANGED <<storeVars, performed>>

\* What a process does next once a verb has read the log.
Work(p) ==
  \/ RecordStart(p) \/ RecordRedrive(p) \/ RecoverRedriven(p)
  \/ Lookup(p) \/ Claim(p) \/ ReadOrigin(p) \/ RecordIntent(p)
  \/ Attempt(p) \/ RecordCompletion(p) \/ RecordRunCompleted(p)
  \/ LookupHeld(p) \/ RecordResolution(p) \/ RecordAbandoned(p)

Invoke(p, r) ==
  \/ Start(p, r) \/ Recover(p, r) \/ Redrive(p, r)
  \/ Resolve(p, r) \/ Abandon(p, r)

Next ==
  \E p \in Proc :
    \/ Work(p)
    \/ Crash(p)
    \/ \E r \in Run : Invoke(p, r)

Spec == Init /\ [][Next]_vars

----------------------------------------------------------------------------
(* Properties.                                                              *)

\* A keyed call runs only for the run that holds its identity, at the intent
\* the claim names; and a Write, keyed or not, runs at most once for an intent
\* however many processes drive the run and however often they crash.  With
\* one claim per identity, a keyed Write runs at most once in the whole store.
\* The claim, the write-ahead intent and the cursor's refusal to re-enter a
\* dangling Write only give this together.
SingleExecution ==
  \A r \in Run, s \in Seqs :
    performed[r][s] > 0 =>
      /\ IsIntent(r, s)
      /\ Keyed(r, log[r][s].call) => Store!HeldBy(Identity(r, log[r][s].call), r, s)
      /\ Effect(r, log[r][s].call) = "Write" => performed[r][s] = 1

\* CallInFlight refuses before anything is recorded: a run that asks for a
\* call another run has in flight leaves no intent behind, so every keyed
\* intent in a log is the holder's own or was recorded after the settlement.
NoIntentWhileInFlight ==
  \A r \in Run, s \in Seqs :
    IsIntent(r, s) /\ Keyed(r, log[r][s].call) =>
      LET k == Identity(r, log[r][s].call) IN
      Store!HeldBy(k, r, s) \/ Store!IsSettled(k)

\* The store never believes an identity is in flight when its completion is
\* recorded, nor settled when it is not, whichever of a driver, a second driver
\* and the operator's resolve records the completion.
SettledIffCompleted ==
  \A k \in Ident :
    LET c == commit[k] IN
    Store!IsClaimed(k) =>
      /\ Store!IsSettled(k) => /\ IntentOf(c.run, c.intent, k)
                               /\ IsCompletionOf(c.run, c.done, c.intent)
                               /\ log[c.run][c.done].from = NoOrigin
      /\ \A d \in Seqs :
           IntentOf(c.run, c.intent, k) /\ IsCompletionOf(c.run, d, c.intent)
             => c.done = d

\* The store's claims and the runs' logs tell one story of every keyed call.
ClaimsAgree == NoIntentWhileInFlight /\ SettledIffCompleted

\* A completion copied from another run repeats what that run recorded for the
\* same call with the same input, and the copier never ran the tool itself.
CopiesAgree ==
  \A r \in Run, d \in Seqs :
    LET e == log[r][d] IN
    e # NoEvent /\ e.from # NoOrigin =>
      LET o == e.from[1]
          s == e.from[2]
      IN
      /\ performed[r][e.at] = 0
      /\ IntentOf(o, s, Identity(r, e.call))
      /\ Program[o][log[o][s].call].input = Program[r][e.call].input
      /\ \E f \in Seqs : /\ IsCompletionOf(o, f, s)
                         /\ log[o][f].out = e.out
                         /\ log[o][f].from = NoOrigin

\* The last event before s that is not a mark.
Before(r, s, m) ==
  /\ m < s
  /\ log[r][m].kind # "RunRedriven"
  /\ \A x \in m + 1 .. s - 1 : log[r][x].kind = "RunRedriven"

\* Call c is the next the run makes after the event at m; the run makes no more.
AsksNext(r, m, c) ==
  \/ log[r][m].kind = "RunStarted" /\ c = 1
  \/ log[r][m].kind = "ToolCallCompleted" /\ c = log[r][m].call + 1

AsksNoMore(r, m) ==
  \/ log[r][m].kind = "RunStarted" /\ Len(Program[r]) = 0
  \/ log[r][m].kind = "ToolCallCompleted" /\ log[r][m].call = Len(Program[r])

\* What may follow what, as the cursor's constructor and its steps accept it.
MayFollow(r, m, e) ==
  \/ e.kind = "ToolCallRequested" /\ AsksNext(r, m, e.call)
  \/ /\ e.kind = "ToolCallCompleted"
     /\ log[r][m].kind = "ToolCallRequested"
     /\ e.at = m
     /\ e.call = log[r][m].call
  \/ e.kind = "RunCompleted" /\ AsksNoMore(r, m)
  \/ e.kind \in {"RunAbandoned", "RunRedriven"} /\ log[r][m].kind \notin Terminal

\* Whatever several processes, marks and operators append, every log stays one
\* the cursor accepts: dense, RunStarted first, each completion answering the
\* intent before it, the calls in program order and nothing after the end.
LogReplayable ==
  \A r \in Run :
    /\ \E n \in Ends : Store!IsEnd(log[r], n)
    /\ log[r][0] # NoEvent => log[r][0].kind = "RunStarted"
    /\ \A s \in Seqs \ {0} :
         log[r][s] # NoEvent =>
           \E m \in Seqs : Before(r, s, m) /\ MayFollow(r, m, log[r][s])

\* runtime.rs, resolve: a key must not be left held by a run that is finished,
\* because every future call under it would be refused forever.  Whichever
\* process completed the call, a run that completes leaves no key held; only
\* one that is abandoned in the middle of a call does.
OnlyAbandonmentStrandsAKey ==
  \A k \in Ident :
    Store!IsClaimed(k) /\ ~Store!IsSettled(k) =>
      ~\E s \in Seqs :
         log[commit[k].run][s] # NoEvent /\ log[commit[k].run][s].kind = "RunCompleted"

\* A run whose next call bears a key that is not settled goes no further: after
\* the event it asks from, its log holds marks, an abandonment and, if the run
\* holds the key, the intent the claim names.  So a holder stays at the call it
\* holds the key of, whoever drives it and however often it is redriven, and runs
\* that take keys in opposite orders never wait for one another holding them.
NoneGetsPastAnUnsettledCall ==
  \A r \in Run : \A m \in Seqs, c \in Calls(r) :
    LET k == Identity(r, c) IN
    log[r][m] # NoEvent /\ AsksNext(r, m, c) /\ Keyed(r, c) /\ ~Store!IsSettled(k) =>
      \A x \in Seqs : x > m /\ log[r][x] # NoEvent =>
        \/ log[r][x].kind \in {"RunRedriven", "RunAbandoned"}
        \/ IntentOf(r, x, k) /\ Store!HeldBy(k, r, x)

\* store.rs:130, claim_call: "a run re-entering its own call after a crash is never
\* told it lost to itself".  A driver told CallInFlight lost to another run.
NeverLosesToItself ==
  [][\A p \in Proc :
       Claim(p) /\ commit[KeyOf(proc[p])].run = proc[p].run => proc'[p] # Idle]_vars

----------------------------------------------------------------------------
(* The inductive invariant behind SingleExecution: what a driver between    *)
(* two store operations may rely on.                                        *)

InCall == {"lookup", "claim", "origin", "intent", "exec", "settle",
           "lookupHeld", "resolve", "resolveSettling"}

\* The run a driver works on and the call in hand exist.
KnowsItsCall(me) ==
  /\ me.pc # "idle" => me.run \in Run
  /\ me.pc \in InCall => me.call \in Calls(me.run)
  /\ me.pc \in {"lookup", "claim", "origin", "lookupHeld", "resolveSettling"}
       => Keyed(me.run, me.call)
  /\ me.pc = "origin" => me.from \in Origin

PastIntent(me) ==
  \/ me.pc \in {"lookup", "exec", "settle", "lookupHeld", "resolve", "resolveSettling"}
  \/ me.pc \in {"claim", "origin"} /\ me.at # me.end

\* A call past its intent has it in the log; before, "at" is the log's end.
IntentIsRecorded(me) ==
  /\ me.pc = "intent" => me.at = me.end
  /\ PastIntent(me) => IsIntent(me.run, me.at) /\ log[me.run][me.at].call = me.call

\* A keyed call that is not a copy is under this run's claim, and a dangling
\* Write is never on its way to a second execution.
MayExecute(me) ==
  /\ me.pc \in {"intent", "exec"} /\ me.from = NoOrigin /\ Keyed(me.run, me.call)
       => Store!HeldBy(Identity(me.run, me.call), me.run, me.at)
  /\ me.pc \in {"lookup", "claim", "exec"} => me.from = NoOrigin
  /\ me.pc = "claim" /\ me.at # me.end => Effect(me.run, me.call) # "Write"

Sound(me) == KnowsItsCall(me) /\ IntentIsRecorded(me) /\ MayExecute(me)

\* The process that executes a Write is the only one that ever does.
WritesAlone ==
  \A p \in Proc :
    LET me == proc[p] IN
    me.pc = "exec" /\ Effect(me.run, me.call) = "Write" =>
      /\ performed[me.run][me.at] = 0
      /\ \A q \in Proc \ {p} :
           ~(proc[q].pc = "exec" /\ proc[q].run = me.run /\ proc[q].at = me.at)

EventsKnown ==
  \A r \in Run, s \in Seqs :
    log[r][s] # NoEvent /\ log[r][s].kind \in {"ToolCallRequested", "ToolCallCompleted"}
      => log[r][s].call \in Calls(r)

ClaimsNameAnIntent == \A k \in Ident : Store!IsClaimed(k) => commit[k].intent \in Seqs

IInv ==
  /\ TypeOK
  /\ ClaimsNameAnIntent
  /\ EventsKnown
  /\ \A p \in Proc : Sound(proc[p])
  /\ WritesAlone
  /\ SingleExecution

----------------------------------------------------------------------------
(* The inductive invariant behind ClaimsAgree, CopiesAgree and              *)
(* LogReplayable: where in the log a driver believes it is, and what the    *)
(* commitment it read still says.                                           *)

\* A log the driver has read, marks aside, up to the event at m, and what it is
\* about to append follows that event.  Somebody else may have appended since.
HasRead(me, m) ==
  /\ me.end \in Ends
  /\ Before(me.run, me.end, m)
  /\ \A s \in Seqs : s < me.end => log[me.run][s] # NoEvent
  /\ PastIntent(me) => me.at = m
  /\ me.pc \in {"mark", "abandon"} => log[me.run][m].kind \notin Terminal
  /\ me.pc \in {"claim", "origin", "intent"} /\ me.at = me.end => AsksNext(me.run, m, me.call)
  /\ me.pc = "finish" => AsksNoMore(me.run, m)

KnowsItsPlace(me) ==
  /\ me.pc = "begin" => me.end = 0
  /\ me.pc \notin {"idle", "begin", "recover"} => \E m \in Seqs : HasRead(me, m)

\* The origin is the intent under which the identity of call c was settled.
IsOrigin(r, c, from) ==
  LET k == Identity(r, c) IN
  /\ Keyed(r, c)
  /\ Store!IsSettled(k)
  /\ from = <<commit[k].run, commit[k].intent>>

\* The output is what the holder of the identity recorded for the same input.
Repeats(r, c, from, out) ==
  LET held == commit[Identity(r, c)] IN
  /\ IsOrigin(r, c, from)
  /\ SameInput(r, c, held.run, log[held.run][held.intent].call)
  /\ log[held.run][held.done].out = out

KnowsItsOrigin(me) ==
  /\ me.pc = "origin" => IsOrigin(me.run, me.call, me.from)
  /\ me.pc \in {"intent", "settle"} /\ me.from # NoOrigin
       => Repeats(me.run, me.call, me.from, me.out)

\* An operator who resolves a call without settling its claim has none to settle.
ResolvesNoClaim(me) ==
  me.pc = "resolve" /\ Keyed(me.run, me.call) =>
    \/ ~Store!HeldBy(Identity(me.run, me.call), me.run, me.at)
    \/ Store!IsSettled(Identity(me.run, me.call))

UpToDate(me) == KnowsItsPlace(me) /\ KnowsItsOrigin(me) /\ ResolvesNoClaim(me)

SettledAreClaimed == \A k \in Ident : Store!IsSettled(k) => Store!IsClaimed(k)

CopiesRepeat ==
  \A r \in Run, d \in Seqs :
    LET e == log[r][d] IN
    e # NoEvent /\ e.from # NoOrigin =>
      e.kind = "ToolCallCompleted" /\ Repeats(r, e.call, e.from, e.out)

StoreAgrees == SettledAreClaimed /\ ClaimsAgree /\ LogReplayable /\ CopiesRepeat

CInv ==
  /\ IInv
  /\ StoreAgrees
  /\ \A p \in Proc : UpToDate(proc[p])

\* What OnlyAbandonmentStrandsAKey needs besides: an identity is claimed for a
\* call of the claimant's program, and calls complete in program order.
ClaimsNameACall ==
  \A k \in Ident : Store!IsClaimed(k) =>
    \E c \in Calls(commit[k].run) : Identity(commit[k].run, c) = k

CallCompleted(r, c) ==
  \E s, d \in Seqs : IsIntent(r, s) /\ log[r][s].call = c /\ IsCompletionOf(r, d, s)

CallsInOrder ==
  \A r \in Run, s \in Seqs :
    log[r][s] # NoEvent /\ log[r][s].kind = "ToolCallCompleted" =>
      \A c \in 1..log[r][s].call : CallCompleted(r, c)

OInv == CInv /\ ClaimsNameACall /\ CallsInOrder

=============================================================================
