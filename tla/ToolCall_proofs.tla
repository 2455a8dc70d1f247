-------------------------- MODULE ToolCall_proofs --------------------------
(***************************************************************************)
(* Proofs about ToolCall, for any number of runs, processes, keys, calls    *)
(* and crashes.                                                             *)
(***************************************************************************)
EXTENDS ToolCall, TLAPS

\* An origin is a pair, and the absent one is not.
LEMMA OriginIsNotNoOrigin == \A f \in Origin : f # NoOrigin
  BY DEF Origin, NoOrigin

\* A call index of a run names a call; a keyed one has an identity.
LEMMA CallsAreTyped ==
  ASSUME NEW r \in Run, NEW c \in Calls(r)
  PROVE  /\ c \in Nat
         /\ Program[r][c] \in Call
         /\ Identity(r, c) \in Ident \cup {NoIdent}
         /\ Keyed(r, c) => Identity(r, c) \in Ident
  <1>1. Program[r] \in Seq(Call)
    BY ToolCallAssumption
  <1>2. c \in Nat /\ c \in 1..Len(Program[r])
    BY <1>1 DEF Calls
  <1>3. Program[r][c] \in Call
    BY <1>1, <1>2
  <1> QED
    BY <1>2, <1>3 DEF Identity, Keyed, Call

\* The driver record of a process that does nothing is well typed.
LEMMA IdleIsADriver == Idle \in Driver
  BY DEF At, Idle, Driver, PCs

\* The events without a call are events.
LEMMA PlainIsAnEvent ==
  ASSUME NEW kind \in Kinds
  PROVE  Plain(kind) \in Event
  BY DEF Plain, Event

\* Asking for a call (the cursor's Live answer) yields a driver record.
LEMMA AskIsADriver ==
  ASSUME NEW r \in Run, NEW c \in Nat, NEW n \in Nat
  PROVE  Ask(r, c, n) \in Driver
  BY DEF Ask, At, Idle, Driver, PCs

----------------------------------------------------------------------------
(* The store only grows.                                                    *)

Grows ==
  /\ \A r \in Run, s \in Seqs : log[r][s] # NoEvent => log'[r][s] = log[r][s]
  /\ \A k \in Ident : Store!IsClaimed(k) =>
       /\ commit'[k].run = commit[k].run
       /\ commit'[k].intent = commit[k].intent

\* A store operation keeps the store well typed, never rewrites a position and
\* never moves a claim.
LEMMA StoreGrows ==
  ASSUME Store!TypeOK, ClaimsNameAnIntent, [Store!Next]_storeVars
  PROVE  Store!TypeOK' /\ ClaimsNameAnIntent' /\ Grows
  <1> USE DEF Store!TypeOK, Store!Commitment, Store!Seqs, Seqs, Store!Null,
              ClaimsNameAnIntent, Store!IsClaimed, Grows, Store!IsSettled
  <1>0. Nobody \notin Run
    BY ToolCallAssumption
  <1>1. ASSUME NEW r \in Run, NEW s \in Store!Seqs, NEW e \in Event, Store!Append(r, s, e)
        PROVE  Store!TypeOK' /\ ClaimsNameAnIntent' /\ Grows
    BY <1>1 DEF Store!Append, Store!Free
  <1>2. ASSUME NEW k \in Ident, NEW r \in Run, NEW i \in Store!Seqs, Store!ClaimCall(k, r, i)
        PROVE  Store!TypeOK' /\ ClaimsNameAnIntent' /\ Grows
    BY <1>2 DEF Store!ClaimCall
  <1>3. ASSUME NEW r \in Run, NEW s \in Store!Seqs, NEW e \in Event, NEW k \in Ident,
               NEW i \in Store!Seqs, Store!AppendSettlingCall(r, s, e, k, i)
        PROVE  Store!TypeOK' /\ ClaimsNameAnIntent' /\ Grows
    BY <1>3 DEF Store!AppendSettlingCall, Store!Free
  <1>4. CASE UNCHANGED storeVars
    BY <1>4 DEF storeVars
  <1> QED
    BY <1>1, <1>2, <1>3, <1>4 DEF Store!Next

----------------------------------------------------------------------------
(* What every step of one process gives, whichever step it is.              *)

\* Process p takes a step that runs no tool: the store makes at most one
\* operation, the other processes are where they were, and p is where its new
\* record says.  A Write p is about to run has its intent in the log only now.
Disciplined(p) ==
  /\ [Store!Next]_storeVars
  /\ EventsKnown'
  /\ proc' \in [Proc -> Driver]
  /\ \A q \in Proc \ {p} : proc'[q] = proc[q]
  /\ Sound(proc[p])'
  /\ proc'[p].pc = "exec" /\ Effect(proc'[p].run, proc'[p].call) = "Write"
       => log[proc'[p].run][proc'[p].at] = NoEvent
  /\ performed' = performed
  /\ crashes' \in 0..MaxCrashes

\* An event appended by persist is known when its call is one of the run's.
Known(r, e) ==
  e.kind \in {"ToolCallRequested", "ToolCallCompleted"} => e.call \in Calls(r)

\* persist either appends and moves on, or changes nothing and gives up.
LEMMA PersistSteps ==
  ASSUME IInv, NEW p \in Proc, NEW e \in Event, NEW then \in Driver,
         proc[p].run \in Run, Known(proc[p].run, e), Persist(p, e, then)
  PROVE  /\ [Store!Next]_storeVars
         /\ EventsKnown'
         /\ proc' \in [Proc -> Driver]
         /\ \A q \in Proc \ {p} : proc'[q] = proc[q]
         /\ performed' = performed
         /\ crashes' \in 0..MaxCrashes
         /\ \/ proc'[p] = Idle
            \/ /\ proc'[p] = then
               /\ proc[p].end \in Seqs
               /\ log[proc[p].run][proc[p].end] = NoEvent
               /\ log' = [log EXCEPT ![proc[p].run][proc[p].end] = e]
               /\ commit' = commit
  <1> USE DEF Persist, IInv, TypeOK
  <1>1. performed' = performed /\ crashes' \in 0..MaxCrashes
    BY DEF Ghosts
  <1>2. proc' \in [Proc -> Driver] /\ \A q \in Proc \ {p} : proc'[q] = proc[q]
    BY IdleIsADriver DEF Become
  <1>3. CASE Store!Append(proc[p].run, proc[p].end, e) /\ Become(p, then)
    <2>1. /\ proc[p].end \in Seqs
          /\ log[proc[p].run][proc[p].end] = NoEvent
          /\ log' = [log EXCEPT ![proc[p].run][proc[p].end] = e]
          /\ commit' = commit
      BY <1>3 DEF Store!Append, Store!Free, Seqs, Store!Seqs
    <2>2. Store!Next
      BY <1>3, <2>1 DEF Store!Next, Seqs, Store!Seqs
    <2>3. EventsKnown'
      BY <2>1 DEF EventsKnown, Known, Store!TypeOK, Seqs, Store!Seqs
    <2>4. proc'[p] = then
      BY <1>3 DEF Become
    <2> QED
      BY <1>1, <1>2, <2>1, <2>2, <2>3, <2>4
  <1>4. CASE Become(p, Idle) /\ UNCHANGED storeVars
    <2>1. EventsKnown'
      BY <1>4 DEF EventsKnown, storeVars
    <2>2. [Store!Next]_storeVars
      BY <1>4
    <2>3. proc'[p] = Idle
      BY <1>4 DEF Become
    <2> QED
      BY <1>1, <1>2, <2>1, <2>2, <2>3
  <1> QED
    BY <1>3, <1>4

\* persist_settling likewise.
LEMMA PersistSettlingSteps ==
  ASSUME IInv, NEW p \in Proc, NEW e \in Event, NEW then \in Driver,
         NEW k \in Ident, NEW s \in Seqs,
         proc[p].run \in Run, Known(proc[p].run, e),
         PersistSettling(p, e, k, s, then)
  PROVE  /\ [Store!Next]_storeVars
         /\ EventsKnown'
         /\ proc' \in [Proc -> Driver]
         /\ \A q \in Proc \ {p} : proc'[q] = proc[q]
         /\ performed' = performed
         /\ crashes' \in 0..MaxCrashes
         /\ proc'[p] \in {Idle, then}
  <1> USE DEF PersistSettling, IInv, TypeOK
  <1>1. performed' = performed /\ crashes' \in 0..MaxCrashes
    BY DEF Ghosts
  <1>2. /\ proc' \in [Proc -> Driver]
        /\ \A q \in Proc \ {p} : proc'[q] = proc[q]
        /\ proc'[p] \in {Idle, then}
    BY IdleIsADriver DEF Become
  <1>3. CASE Store!AppendSettlingCall(proc[p].run, proc[p].end, e, k, s)
    <2>1. /\ proc[p].end \in Seqs
          /\ log' = [log EXCEPT ![proc[p].run][proc[p].end] = e]
      BY <1>3 DEF Store!AppendSettlingCall, Store!Free, Seqs, Store!Seqs
    <2>2. Store!Next
      BY <1>3, <2>1 DEF Store!Next, Seqs, Store!Seqs
    <2>3. EventsKnown'
      BY <2>1 DEF EventsKnown, Known, Store!TypeOK, Seqs, Store!Seqs
    <2> QED
      BY <1>1, <1>2, <2>2, <2>3
  <1>4. CASE UNCHANGED storeVars
    <2>1. EventsKnown'
      BY <1>4 DEF EventsKnown, storeVars
    <2> QED
      BY <1>1, <1>2, <1>4, <2>1
  <1> QED
    BY <1>3, <1>4

\* A step that writes nothing is a disciplined step of its process.
LEMMA ContinueSteps ==
  ASSUME IInv, NEW p \in Proc, NEW d \in Driver, Continue(p, d)
  PROVE  /\ [Store!Next]_storeVars
         /\ EventsKnown'
         /\ proc' \in [Proc -> Driver]
         /\ \A q \in Proc \ {p} : proc'[q] = proc[q]
         /\ performed' = performed
         /\ crashes' \in 0..MaxCrashes
         /\ proc'[p] = d
         /\ UNCHANGED storeVars
  BY DEF Continue, Become, Ghosts, IInv, TypeOK, EventsKnown, storeVars

\* An idle process promises nothing.
LEMMA IdleIsSound ==
  ASSUME NEW p \in Proc, proc'[p] = Idle
  PROVE  Sound(proc[p])' /\ proc'[p].pc # "exec"
  BY DEF At, Idle, Sound, KnowsItsCall, IntentIsRecorded, PastIntent, MayExecute, InCall

\* Nor does a driver that has just asked for a call of its run that exists, or
\* for the end of the run.
LEMMA AskIsSound ==
  ASSUME NEW p \in Proc, NEW r \in Run, NEW c \in Nat, NEW n \in Nat,
         proc'[p] = Ask(r, c, n)
  PROVE  Sound(proc[p])' /\ proc'[p].pc # "exec"
  BY DEF Ask, At, Idle, Sound, KnowsItsCall, IntentIsRecorded, PastIntent, MayExecute, InCall

\* What a process relies on survives the steps of the others.
LEMMA SoundIsStable ==
  ASSUME IInv, Grows, NEW q \in Proc, proc'[q] = proc[q]
  PROVE  Sound(proc[q])'
  <1> DEFINE me == proc[q]
  <1>1. /\ me \in Driver
        /\ KnowsItsCall(me)
        /\ IntentIsRecorded(me)
        /\ MayExecute(me)
    BY DEF IInv, TypeOK, Sound
  <1>2. KnowsItsCall(proc[q])'
    BY <1>1 DEF KnowsItsCall
  <1>3. IntentIsRecorded(proc[q])'
    <2> SUFFICES ASSUME PastIntent(me)
                 PROVE  (IsIntent(me.run, me.at) /\ log[me.run][me.at].call = me.call)'
      BY <1>1 DEF IntentIsRecorded, PastIntent
    <2>1. me.run \in Run
      BY <1>1 DEF KnowsItsCall, PastIntent
    <2> QED
      BY <1>1, <2>1 DEF IntentIsRecorded, IsIntent, Grows
  <1>4. MayExecute(proc[q])'
    <2> SUFFICES ASSUME me.pc \in {"intent", "exec"}, me.from = NoOrigin, Keyed(me.run, me.call)
                 PROVE  Store!HeldBy(Identity(me.run, me.call), me.run, me.at)'
      BY <1>1 DEF MayExecute
    <2>1. me.run \in Run /\ me.call \in Calls(me.run)
      BY <1>1 DEF KnowsItsCall, InCall
    <2>2. Identity(me.run, me.call) \in Ident
      BY <2>1, CallsAreTyped
    <2>3. Store!HeldBy(Identity(me.run, me.call), me.run, me.at)
      BY <1>1 DEF MayExecute
    <2> QED
      BY <2>1, <2>2, <2>3, ToolCallAssumption DEF Store!HeldBy, Grows, Store!IsClaimed
  <1> QED
    BY <1>2, <1>3, <1>4 DEF Sound

\* A step that runs no tool cannot break what was promised about the runs of
\* the tools so far.
LEMMA DisciplineKeepsIInv ==
  ASSUME IInv, NEW p \in Proc, Disciplined(p)
  PROVE  IInv'
  <1> USE DEF Disciplined
  <1>1. Store!TypeOK' /\ ClaimsNameAnIntent' /\ Grows
    BY StoreGrows DEF IInv, TypeOK
  <1>2. TypeOK'
    BY <1>1 DEF IInv, TypeOK
  <1>3. \A q \in Proc : Sound(proc[q])'
    BY <1>1, SoundIsStable
  <1>4. SingleExecution'
    <2> SUFFICES ASSUME NEW r \in Run, NEW s \in Seqs, performed[r][s] > 0
                 PROVE  (/\ IsIntent(r, s)
                         /\ Keyed(r, log[r][s].call)
                              => Store!HeldBy(Identity(r, log[r][s].call), r, s)
                         /\ Effect(r, log[r][s].call) = "Write" => performed[r][s] = 1)'
      BY DEF SingleExecution
    <2>1. /\ IsIntent(r, s)
          /\ Keyed(r, log[r][s].call) => Store!HeldBy(Identity(r, log[r][s].call), r, s)
          /\ Effect(r, log[r][s].call) = "Write" => performed[r][s] = 1
      BY DEF IInv, SingleExecution
    <2>2. log'[r][s] = log[r][s]
      BY <1>1, <2>1 DEF Grows, IsIntent
    <2>3. log[r][s].call \in Calls(r)
      BY <2>1 DEF IInv, EventsKnown, IsIntent
    <2>4. Keyed(r, log[r][s].call) => Identity(r, log[r][s].call) \in Ident
      BY <2>3, CallsAreTyped
    <2>5. Keyed(r, log[r][s].call) => Store!HeldBy(Identity(r, log[r][s].call), r, s)'
      BY <1>1, <2>1, <2>2, <2>4, ToolCallAssumption DEF Store!HeldBy, Grows, Store!IsClaimed
    <2> QED
      BY <2>1, <2>2, <2>5 DEF IsIntent
  <1>5. WritesAlone'
    <2> SUFFICES ASSUME NEW x \in Proc,
                        proc'[x].pc = "exec",
                        Effect(proc'[x].run, proc'[x].call) = "Write"
                 PROVE  /\ performed[proc'[x].run][proc'[x].at] = 0
                        /\ \A y \in Proc \ {x} :
                             ~(/\ proc'[y].pc = "exec"
                               /\ proc'[y].run = proc'[x].run
                               /\ proc'[y].at = proc'[x].at)
      BY DEF WritesAlone
    <2> DEFINE r == proc'[x].run
               s == proc'[x].at
    <2>1. \A z \in Proc : proc'[z].pc = "exec" =>
            /\ proc'[z].run \in Run
            /\ proc'[z].at \in Seqs
            /\ log'[proc'[z].run][proc'[z].at].call = proc'[z].call
      BY <1>3 DEF Sound, KnowsItsCall, IntentIsRecorded, PastIntent, IsIntent
    <2>2. \A z \in Proc : proc[z].pc = "exec" =>
            /\ proc[z].run \in Run
            /\ proc[z].at \in Seqs
            /\ log[proc[z].run][proc[z].at] # NoEvent
      BY DEF IInv, Sound, KnowsItsCall, IntentIsRecorded, PastIntent, IsIntent
    <2>3. CASE x = p
      <3>1. log[r][s] = NoEvent
        BY <2>3
      <3>2. performed[r][s] = 0
        BY <2>1, <3>1 DEF IInv, TypeOK, SingleExecution, IsIntent
      <3> QED
        BY <2>2, <2>3, <3>1, <3>2
    <2>4. CASE x # p
      <3>1. proc'[x] = proc[x]
        BY <2>4
      <3>2. ASSUME proc'[p].pc = "exec", proc'[p].run = r, proc'[p].at = s
            PROVE  FALSE
        <4>1. log[r][s] # NoEvent
          BY <2>2, <3>1
        <4>2. proc'[p].call = proc'[x].call
          BY <2>1, <3>2
        <4> QED
          BY <3>2, <4>1, <4>2
      <3> QED
        BY <3>1, <3>2 DEF IInv, WritesAlone
    <2> QED
      BY <2>3, <2>4
  <1> QED
    BY <1>1, <1>2, <1>3, <1>4, <1>5 DEF IInv

----------------------------------------------------------------------------
(* Reading a log back.                                                      *)

\* The event a replay stops at is in the log.
LEMMA ReadsAnEvent ==
  ASSUME IInv, NEW r \in Run, NEW n \in Ends, NEW m \in Ends, ReadsAs(r, n, m)
  PROVE  /\ m \in Seqs /\ n \in Nat /\ m # n
         /\ log[r][m] # NoEvent
         /\ log[r][m] \in Event
  <1>1. m \in Seqs /\ n \in Nat /\ m # n
    BY ToolCallAssumption DEF ReadsAs, Ends, Seqs
  <1>2. log[r][m] # NoEvent
    BY <1>1 DEF ReadsAs, Store!IsEnd, Store!Seqs, Seqs, Ends
  <1> QED
    BY <1>1, <1>2 DEF IInv, TypeOK, Store!TypeOK, Store!Seqs, Seqs

\* The driver a replay leaves is in order: it asks for a call of its run, or
\* re-enters the dangling intent, and never lines a Write up for execution.
LEMMA ReplayIsSound ==
  ASSUME IInv, NEW p \in Proc, NEW r \in Run, NEW n \in Ends, NEW m \in Ends,
         ReadsAs(r, n, m), Continue(p, Replay(r, n, m))
  PROVE  Disciplined(p)
  <1> DEFINE last == log[r][m]
  <1>1. m \in Seqs /\ n \in Nat /\ m # n /\ last # NoEvent /\ last \in Event
    BY ReadsAnEvent
  <1>2. last.call \in Nat /\ last.call + 1 \in Nat
    BY <1>1 DEF Event
  <1>3. CASE Replay(r, n, m) \in {Ask(r, 1, n), Ask(r, last.call + 1, n), Idle}
    <2>1. Replay(r, n, m) \in Driver
      BY <1>1, <1>2, <1>3, AskIsADriver, IdleIsADriver
    <2>2. proc'[p] \in {Ask(r, 1, n), Ask(r, last.call + 1, n), Idle}
      BY <1>3, <2>1, ContinueSteps
    <2>3. Sound(proc[p])' /\ proc'[p].pc # "exec"
      BY <1>1, <1>2, <2>2, IdleIsSound, AskIsSound
    <2> QED
      BY <2>1, <2>3, ContinueSteps DEF Disciplined
  <1>4. CASE /\ last.kind = "ToolCallRequested"
             /\ Replay(r, n, m) = Reenter(r, last.call, m, n)
             /\ Replay(r, n, m) # Idle
    <2> DEFINE d == At(IF Keyed(r, last.call) THEN "lookup" ELSE "exec", r, n, last.call, m)
    <2>1. /\ Replay(r, n, m) = d
          /\ ~Keyed(r, last.call) => Effect(r, last.call) # "Write"
      BY <1>4 DEF Reenter
    <2>2. /\ d \in Driver
          /\ d.pc \in {"lookup", "exec"}
          /\ d.pc = "exec" <=> ~Keyed(r, last.call)
          /\ d.run = r /\ d.call = last.call /\ d.at = m /\ d.from = NoOrigin
      BY <1>1, <1>2 DEF At, Idle, Driver, PCs, Seqs
    <2> HIDE DEF d
    <2>3. proc'[p] = d /\ log' = log
      BY <2>1, <2>2, ContinueSteps DEF storeVars
    <2>4. last.call \in Calls(r)
      BY <1>1, <1>4 DEF IInv, EventsKnown
    <2>5. Sound(proc[p])'
      BY <1>1, <1>4, <2>2, <2>3, <2>4
      DEF Sound, KnowsItsCall, IntentIsRecorded, PastIntent, MayExecute, InCall, IsIntent
    <2> QED
      BY <2>1, <2>2, <2>3, <2>5, ContinueSteps DEF Disciplined
  <1> QED
    BY <1>3, <1>4 DEF Replay

\* Reading the log and replaying it (Runtime::recover) keeps the invariant.
LEMMA ReadLogStep ==
  ASSUME IInv, NEW p \in Proc, NEW r \in Run, ReadLog(p, r)
  PROVE  Disciplined(p)
  BY ReplayIsSound DEF ReadLog

----------------------------------------------------------------------------
(* The verbs.                                                               *)

\* A verb that only notes what it will append for run r at n.
LEMMA VerbStep ==
  ASSUME IInv, NEW p \in Proc, NEW r \in Run, NEW n \in Nat,
         NEW pc \in {"begin", "mark", "recover", "abandon"},
         Continue(p, At(pc, r, n, 0, 0))
  PROVE  Disciplined(p)
  <1> DEFINE d == At(pc, r, n, 0, 0)
  <1>1. d \in Driver /\ d.pc = pc /\ d.run = r
    BY DEF At, Idle, Driver, PCs
  <1> HIDE DEF d
  <1>2. proc'[p] = d
    BY <1>1, ContinueSteps DEF d
  <1>3. Sound(proc[p])' /\ proc'[p].pc # "exec"
    BY <1>1, <1>2 DEF Sound, KnowsItsCall, IntentIsRecorded, PastIntent, MayExecute, InCall
  <1> QED
    BY <1>1, <1>3, ContinueSteps DEF Disciplined, d

\* Runtime::start_with_id keeps the invariant.
LEMMA StartStep ==
  ASSUME IInv, NEW p \in Proc, NEW r \in Run, Start(p, r)
  PROVE  Disciplined(p)
  BY VerbStep DEF Start

\* The reading half of Runtime::record_redrive keeps the invariant.
LEMMA RedriveStep ==
  ASSUME IInv, NEW p \in Proc, NEW r \in Run, Redrive(p, r)
  PROVE  Disciplined(p)
  BY VerbStep, ToolCallAssumption DEF Redrive, Ends

\* The reading half of Runtime::abandon keeps the invariant.
LEMMA AbandonStep ==
  ASSUME IInv, NEW p \in Proc, NEW r \in Run, Abandon(p, r)
  PROVE  Disciplined(p)
  BY VerbStep, ToolCallAssumption DEF Abandon, Ends

\* The reading half of Runtime::resolve leaves a driver whose call is the
\* dangling Write at the head.
LEMMA ResolveStep ==
  ASSUME IInv, NEW p \in Proc, NEW r \in Run, Resolve(p, r)
  PROVE  Disciplined(p)
  <1>1. PICK n \in Ends, m \in Ends :
          /\ ReadsAs(r, n, m)
          /\ Dangling(r, m)
          /\ Continue(p, At(IF Keyed(r, log[r][m].call) THEN "lookupHeld" ELSE "resolve",
                            r, n, log[r][m].call, m))
    BY DEF Resolve
  <1> DEFINE c == log[r][m].call
             d == At(IF Keyed(r, c) THEN "lookupHeld" ELSE "resolve", r, n, c, m)
  <1>2. /\ m \in Seqs /\ n \in Nat
        /\ log[r][m] # NoEvent /\ log[r][m] \in Event
    BY <1>1, ReadsAnEvent
  <1>3. c \in Nat /\ c \in Calls(r) /\ log[r][m].kind = "ToolCallRequested"
    BY <1>1, <1>2 DEF Event, Dangling, IInv, EventsKnown
  <1>4. /\ d \in Driver
        /\ d.pc \in {"lookupHeld", "resolve"}
        /\ d.pc = "lookupHeld" => Keyed(r, c)
        /\ d.run = r /\ d.call = c /\ d.at = m
    BY <1>2, <1>3 DEF At, Driver, PCs, Seqs
  <1> HIDE DEF d
  <1>5. proc'[p] = d /\ log' = log
    BY <1>1, <1>4, ContinueSteps DEF storeVars, d
  <1>6. Sound(proc[p])' /\ proc'[p].pc # "exec"
    BY <1>2, <1>3, <1>4, <1>5
    DEF Sound, KnowsItsCall, IntentIsRecorded, PastIntent, MayExecute, InCall, IsIntent
  <1> QED
    BY <1>1, <1>4, <1>6, ContinueSteps DEF Disciplined, d

----------------------------------------------------------------------------
(* The steps of a driver at work.                                           *)

\* Facts about the driver record every step starts from.
LEMMA AtWork ==
  ASSUME IInv, NEW p \in Proc, proc[p].pc # "idle"
  PROVE  /\ proc[p] \in Driver
         /\ proc[p].run \in Run
         /\ proc[p].pc \in InCall => proc[p].call \in Calls(proc[p].run)
         /\ KnowsItsCall(proc[p])
         /\ IntentIsRecorded(proc[p])
         /\ MayExecute(proc[p])
  BY DEF IInv, TypeOK, Sound, KnowsItsCall

\* persist of an event after which the driver asks for its next call or stops.
LEMMA PersistAndAsk ==
  ASSUME IInv, NEW p \in Proc, NEW e \in Event, NEW then \in Driver,
         proc[p].run \in Run, Known(proc[p].run, e), Persist(p, e, then),
         NEW c \in Nat, NEW n \in Nat, then \in {Ask(proc[p].run, c, n), Idle}
  PROVE  Disciplined(p)
  <1>1. proc'[p] \in {Ask(proc[p].run, c, n), Idle}
    BY PersistSteps
  <1>2. Sound(proc[p])' /\ proc'[p].pc # "exec"
    BY <1>1, IdleIsSound, AskIsSound
  <1> QED
    BY <1>2, PersistSteps DEF Disciplined

\* RunCtx::begin's append keeps the invariant.
LEMMA RecordStartStep ==
  ASSUME IInv, NEW p \in Proc, RecordStart(p)
  PROVE  Disciplined(p)
  <1>1. Plain("RunStarted") \in Event /\ Known(proc[p].run, Plain("RunStarted"))
    BY PlainIsAnEvent DEF Kinds, Known, Plain
  <1> QED
    BY <1>1, AtWork, AskIsADriver, PersistAndAsk DEF RecordStart

\* RunCtx::complete_run's append keeps the invariant.
LEMMA RecordRunCompletedStep ==
  ASSUME IInv, NEW p \in Proc, RecordRunCompleted(p)
  PROVE  Disciplined(p)
  <1>1. Plain("RunCompleted") \in Event /\ Known(proc[p].run, Plain("RunCompleted"))
    BY PlainIsAnEvent DEF Kinds, Known, Plain
  <1> QED
    BY <1>1, AtWork, IdleIsADriver, PersistAndAsk DEF RecordRunCompleted

\* Runtime::abandon's append keeps the invariant.
LEMMA RecordAbandonedStep ==
  ASSUME IInv, NEW p \in Proc, RecordAbandoned(p)
  PROVE  Disciplined(p)
  <1>1. Plain("RunAbandoned") \in Event /\ Known(proc[p].run, Plain("RunAbandoned"))
    BY PlainIsAnEvent DEF Kinds, Known, Plain
  <1> QED
    BY <1>1, AtWork, IdleIsADriver, PersistAndAsk DEF RecordAbandoned

\* The redrive mark's append keeps the invariant.
LEMMA RecordRedriveStep ==
  ASSUME IInv, NEW p \in Proc, RecordRedrive(p)
  PROVE  Disciplined(p)
  <1> DEFINE d == At("recover", proc[p].run, 0, 0, 0)
  <1>1. Plain("RunRedriven") \in Event /\ Known(proc[p].run, Plain("RunRedriven"))
    BY PlainIsAnEvent DEF Kinds, Known, Plain
  <1>2. /\ proc[p].run \in Run
        /\ d \in Driver
        /\ Persist(p, Plain("RunRedriven"), d)
    BY AtWork DEF At, Driver, PCs, RecordRedrive
  <1> HIDE DEF d
  <1>3. proc'[p] = d \/ proc'[p] = Idle
    BY <1>1, <1>2, PersistSteps
  <1>4. Sound(proc[p])' /\ proc'[p].pc # "exec"
    <2>1. CASE proc'[p] = d
      BY <1>2, <2>1
      DEF d, At, Sound, KnowsItsCall, IntentIsRecorded, PastIntent, MayExecute, InCall
    <2> QED
      BY <1>3, <2>1, IdleIsSound
  <1> QED
    BY <1>1, <1>2, <1>4, PersistSteps DEF Disciplined

\* The recovery after a redrive mark keeps the invariant.
LEMMA RecoverRedrivenStep ==
  ASSUME IInv, NEW p \in Proc, RecoverRedriven(p)
  PROVE  Disciplined(p)
  BY AtWork, ReadLogStep DEF RecoverRedriven

\* A process that dies leaves nothing another relies on.
LEMMA CrashStep ==
  ASSUME IInv, NEW p \in Proc, Crash(p)
  PROVE  Disciplined(p)
  <1>1. /\ proc' \in [Proc -> Driver]
        /\ \A q \in Proc \ {p} : proc'[q] = proc[q]
        /\ proc'[p] = Idle
    BY IdleIsADriver DEF Crash, Become, IInv, TypeOK
  <1>2. crashes' \in 0..MaxCrashes /\ performed' = performed /\ UNCHANGED storeVars
    BY ToolCallAssumption DEF Crash, IInv, TypeOK
  <1>3. EventsKnown'
    BY <1>2 DEF IInv, EventsKnown, storeVars
  <1> QED
    BY <1>1, <1>2, <1>3, IdleIsSound DEF Disciplined

\* recover_deduplicated_intent sends no dangling Write back to execution.
LEMMA LookupStep ==
  ASSUME IInv, NEW p \in Proc, Lookup(p)
  PROVE  Disciplined(p)
  <1> DEFINE me == proc[p]
             held == commit[KeyOf(me)]
             copier == [me EXCEPT !.pc = "origin", !.from = <<held.run, held.intent>>]
             claimer == [me EXCEPT !.pc = "claim"]
  <1>1. /\ me \in Driver /\ me.pc = "lookup" /\ me.run \in Run
        /\ me.call \in Calls(me.run) /\ Keyed(me.run, me.call)
        /\ IsIntent(me.run, me.at) /\ log[me.run][me.at].call = me.call
    BY AtWork DEF Lookup, InCall, KnowsItsCall, IntentIsRecorded, PastIntent
  <1>2. KeyOf(me) \in Ident
    BY <1>1, CallsAreTyped DEF KeyOf
  <1>3. CASE held.run \in Run /\ Continue(p, copier)
    <2>1. <<held.run, held.intent>> \in Origin
      BY <1>2, <1>3, ToolCallAssumption
      DEF Origin, IInv, ClaimsNameAnIntent, Store!IsClaimed
    <2>2. /\ copier \in Driver
          /\ copier.pc = "origin" /\ copier.from = <<held.run, held.intent>>
          /\ copier.run = me.run /\ copier.call = me.call /\ copier.at = me.at
      BY <1>1, <2>1 DEF Driver, PCs
    <2> HIDE DEF copier
    <2>3. proc'[p] = copier /\ log' = log
      BY <1>3, <2>2, ContinueSteps DEF storeVars
    <2>4. Sound(proc[p])' /\ proc'[p].pc # "exec"
      BY <1>1, <2>1, <2>2, <2>3
      DEF Sound, KnowsItsCall, IntentIsRecorded, PastIntent, MayExecute, InCall, IsIntent
    <2> QED
      BY <1>3, <2>2, <2>4, ContinueSteps DEF Disciplined
  <1>4. CASE Continue(p, Idle)
    BY <1>4, IdleIsADriver, ContinueSteps, IdleIsSound DEF Disciplined
  <1>5. CASE Effect(me.run, me.call) # "Write" /\ Continue(p, claimer)
    <2>1. /\ claimer \in Driver
          /\ claimer.pc = "claim" /\ claimer.from = me.from
          /\ claimer.run = me.run /\ claimer.call = me.call /\ claimer.at = me.at
      BY <1>1 DEF Driver, PCs
    <2> HIDE DEF claimer
    <2>2. proc'[p] = claimer /\ log' = log
      BY <1>5, <2>1, ContinueSteps DEF storeVars
    <2>3. me.from = NoOrigin
      BY <1>1, AtWork DEF MayExecute
    <2>4. Sound(proc[p])' /\ proc'[p].pc # "exec"
      BY <1>1, <1>5, <2>1, <2>2, <2>3
      DEF Sound, KnowsItsCall, IntentIsRecorded, PastIntent, MayExecute, InCall, IsIntent
    <2> QED
      BY <1>5, <2>1, <2>4, ContinueSteps DEF Disciplined
  <1> QED
    BY <1>3, <1>4, <1>5 DEF Lookup

\* After claim_call a driver goes on only under its own claim or as a copier.
LEMMA ClaimStep ==
  ASSUME IInv, NEW p \in Proc, Claim(p)
  PROVE  Disciplined(p)
  <1> DEFINE me == proc[p]
             k == KeyOf(me)
             executor == [me EXCEPT !.pc = IF me.at = me.end THEN "intent" ELSE "exec"]
             copier == [me EXCEPT !.pc = "origin",
                                  !.from = <<commit[k].run, commit[k].intent>>]
  <1>1. /\ me \in Driver /\ me.pc = "claim" /\ me.run \in Run
        /\ me.call \in Calls(me.run) /\ Keyed(me.run, me.call)
        /\ me.at # me.end => /\ IsIntent(me.run, me.at)
                             /\ log[me.run][me.at].call = me.call
                             /\ Effect(me.run, me.call) # "Write"
        /\ me.from = NoOrigin
    BY AtWork DEF Claim, InCall, KnowsItsCall, IntentIsRecorded, PastIntent, MayExecute
  <1>2. k \in Ident /\ k = Identity(me.run, me.call)
    BY <1>1, CallsAreTyped DEF KeyOf
  <1>3. /\ Store!ClaimCall(k, me.run, me.at) /\ me.at \in Seqs /\ log' = log
        /\ performed' = performed /\ crashes' \in 0..MaxCrashes
    BY DEF Claim, Store!ClaimCall, Ghosts, IInv, TypeOK
  <1>4. Store!Next /\ EventsKnown'
    BY <1>1, <1>2, <1>3 DEF Store!Next, Store!Seqs, Seqs, IInv, EventsKnown
  <1>5. CASE Store!ClaimAnswersClaimed(k, me.run, me.at) /\ Become(p, executor)
    <2>1. /\ executor \in Driver
          /\ executor.pc = IF me.at = me.end THEN "intent" ELSE "exec"
          /\ executor.run = me.run /\ executor.call = me.call /\ executor.at = me.at
          /\ executor.end = me.end /\ executor.from = me.from
      BY <1>1 DEF Driver, PCs
    <2> HIDE DEF executor
    <2>2. /\ proc' \in [Proc -> Driver]
          /\ \A q \in Proc \ {p} : proc'[q] = proc[q]
          /\ proc'[p] = executor
      BY <1>5, <2>1 DEF Become, IInv, TypeOK
    <2>3. commit'[k].run = me.run /\ commit'[k].intent = me.at
      BY <1>2, <1>3, <1>5
      DEF Store!ClaimAnswersClaimed, Store!ClaimCall, Store!IsClaimed, Store!HeldBy,
          IInv, TypeOK, Store!TypeOK, Store!Commitment
    <2>4. Sound(proc[p])'
      BY <1>1, <1>2, <1>3, <2>1, <2>2, <2>3
      DEF Sound, KnowsItsCall, IntentIsRecorded, PastIntent, MayExecute, InCall, IsIntent,
          Store!HeldBy
    <2>5. proc'[p].pc = "exec" => Effect(proc'[p].run, proc'[p].call) # "Write"
      BY <1>1, <2>1, <2>2
    <2> QED
      BY <1>3, <1>4, <2>2, <2>4, <2>5 DEF Disciplined
  <1>6. CASE Store!IsClaimed(k) /\ Become(p, copier)
    <2>1. <<commit[k].run, commit[k].intent>> \in Origin
      BY <1>2, <1>6
      DEF Origin, IInv, ClaimsNameAnIntent, Store!IsClaimed, TypeOK, Store!TypeOK,
          Store!Commitment
    <2>2. /\ copier \in Driver
          /\ copier.pc = "origin" /\ copier.from = <<commit[k].run, commit[k].intent>>
          /\ copier.run = me.run /\ copier.call = me.call /\ copier.at = me.at
          /\ copier.end = me.end
      BY <1>1, <2>1 DEF Driver, PCs
    <2> HIDE DEF copier
    <2>3. /\ proc' \in [Proc -> Driver]
          /\ \A q \in Proc \ {p} : proc'[q] = proc[q]
          /\ proc'[p] = copier
      BY <1>6, <2>2 DEF Become, IInv, TypeOK
    <2>4. Sound(proc[p])' /\ proc'[p].pc # "exec"
      BY <1>1, <1>3, <2>1, <2>2, <2>3
      DEF Sound, KnowsItsCall, IntentIsRecorded, PastIntent, MayExecute, InCall, IsIntent
    <2> QED
      BY <1>3, <1>4, <2>3, <2>4 DEF Disciplined
  <1>7. CASE Become(p, Idle)
    <2>1. /\ proc' \in [Proc -> Driver]
          /\ \A q \in Proc \ {p} : proc'[q] = proc[q]
          /\ proc'[p] = Idle
      BY <1>7, IdleIsADriver DEF Become, IInv, TypeOK
    <2> QED
      BY <1>3, <1>4, <2>1, IdleIsSound DEF Disciplined
  <1> QED
    BY <1>5, <1>6, <1>7 DEF Claim

\* committed_call keeps the copier a copier.
LEMMA ReadOriginStep ==
  ASSUME IInv, NEW p \in Proc, ReadOrigin(p)
  PROVE  Disciplined(p)
  <1> DEFINE me == proc[p]
             o == me.from[1]
             pc == IF me.at = me.end THEN "intent" ELSE "settle"
  <1>1. /\ me \in Driver /\ me.pc = "origin" /\ me.run \in Run
        /\ me.call \in Calls(me.run)
        /\ me.at # me.end => IsIntent(me.run, me.at) /\ log[me.run][me.at].call = me.call
        /\ me.from \in Origin
    BY AtWork DEF ReadOrigin, InCall, KnowsItsCall, IntentIsRecorded, PastIntent
  <1>2. me.from # NoOrigin /\ o \in Run
    BY <1>1, OriginIsNotNoOrigin DEF Origin
  <1>3. CASE Continue(p, Idle)
    BY <1>3, IdleIsADriver, ContinueSteps, IdleIsSound DEF Disciplined
  <1>4. ASSUME NEW d \in Seqs, log[o][d] # NoEvent,
               Continue(p, [me EXCEPT !.pc = pc, !.out = log[o][d].out])
        PROVE  Disciplined(p)
    <2> DEFINE copier == [me EXCEPT !.pc = pc, !.out = log[o][d].out]
    <2>1. log[o][d] \in Event
      BY <1>2, <1>4 DEF IInv, TypeOK, Store!TypeOK, Store!Seqs, Seqs
    <2>2. /\ copier \in Driver
          /\ copier.pc = pc /\ copier.from = me.from /\ copier.end = me.end
          /\ copier.run = me.run /\ copier.call = me.call /\ copier.at = me.at
      BY <1>1, <2>1 DEF Driver, PCs, Event
    <2> HIDE DEF copier
    <2>3. proc'[p] = copier /\ log' = log
      BY <1>4, <2>2, ContinueSteps DEF storeVars, copier
    <2>4. Sound(proc[p])' /\ proc'[p].pc # "exec"
      BY <1>1, <1>2, <2>2, <2>3
      DEF Sound, KnowsItsCall, IntentIsRecorded, PastIntent, MayExecute, InCall, IsIntent
    <2> QED
      BY <1>4, <2>2, <2>4, ContinueSteps DEF Disciplined, copier
  <1> QED
    BY <1>3, <1>4 DEF ReadOrigin, IsCompletionOf

\* The one step after which a Write may run: its intent takes a free position.
LEMMA RecordIntentStep ==
  ASSUME IInv, NEW p \in Proc, RecordIntent(p)
  PROVE  Disciplined(p)
  <1> DEFINE me == proc[p]
             then == [me EXCEPT !.end = me.end + 1,
                                !.pc = IF me.from = NoOrigin THEN "exec" ELSE "settle"]
             e == Requested(me.call)
  <1>1. /\ me \in Driver /\ me.pc = "intent" /\ me.run \in Run /\ me.at = me.end
        /\ me.call \in Calls(me.run) /\ me.call \in Nat /\ me.end \in Nat
        /\ me.from = NoOrigin /\ Keyed(me.run, me.call)
             => Store!HeldBy(Identity(me.run, me.call), me.run, me.at)
    BY AtWork DEF RecordIntent, InCall, KnowsItsCall, IntentIsRecorded, MayExecute, Driver
  <1>2. /\ then \in Driver
        /\ then.pc = IF me.from = NoOrigin THEN "exec" ELSE "settle"
        /\ then.from = me.from
        /\ then.run = me.run /\ then.call = me.call /\ then.at = me.at
    <2> DEFINE n == me.end + 1
               pc == IF me.from = NoOrigin THEN "exec" ELSE "settle"
    <2>1. n \in Nat /\ pc \in PCs
      BY <1>1 DEF PCs
    <2>2. then = [me EXCEPT !.end = n, !.pc = pc]
      OBVIOUS
    <2> HIDE DEF n, pc, then
    <2>3. /\ then \in Driver
          /\ then.pc = pc /\ then.from = me.from
          /\ then.run = me.run /\ then.call = me.call /\ then.at = me.at
      BY <1>1, <2>1, <2>2 DEF Driver
    <2> QED
      BY <2>3 DEF pc
  <1>3. e \in Event /\ e.kind = "ToolCallRequested" /\ e.call = me.call
    BY <1>1 DEF Requested, Plain, Event, Kinds
  <1>4. Persist(p, e, then) /\ Known(me.run, e)
    BY <1>1, <1>3 DEF RecordIntent, Known
  <1> HIDE DEF then, e
  <1>5. CASE proc'[p] = Idle
    BY <1>1, <1>2, <1>3, <1>4, <1>5, PersistSteps, IdleIsSound DEF Disciplined
  <1>6. CASE /\ proc'[p] = then
             /\ me.end \in Seqs
             /\ log[me.run][me.end] = NoEvent
             /\ log' = [log EXCEPT ![me.run][me.end] = e]
             /\ commit' = commit
    <2>1. log'[me.run][me.at] = e /\ e # NoEvent
      <3>1. log \in [Run -> [Seqs -> Event \cup {NoEvent}]]
        BY DEF IInv, TypeOK, Store!TypeOK, Store!Seqs, Seqs
      <3>2. NoEvent \notin Event
        BY NoEventAssumption
      <3> QED
        BY <1>1, <1>3, <1>6, <3>1, <3>2
    <2>2. Sound(proc[p])'
      BY <1>1, <1>2, <1>3, <1>6, <2>1
      DEF Sound, KnowsItsCall, IntentIsRecorded, PastIntent, MayExecute, InCall, IsIntent,
          Store!HeldBy
    <2>3. log[proc'[p].run][proc'[p].at] = NoEvent
      BY <1>1, <1>2, <1>6
    <2> QED
      BY <1>1, <1>2, <1>3, <1>4, <2>2, <2>3, PersistSteps DEF Disciplined
  <1> QED
    BY <1>1, <1>2, <1>3, <1>4, <1>5, <1>6, PersistSteps

\* A completion of the call in hand is an event of the run.
LEMMA CompletedIsKnown ==
  ASSUME NEW r \in Run, NEW c \in Calls(r), NEW s \in Seqs,
         NEW o \in Output \cup {NoOutput}, NEW f \in Origin \cup {NoOrigin}
  PROVE  Completed(c, s, o, f) \in Event /\ Known(r, Completed(c, s, o, f))
  BY CallsAreTyped DEF Completed, Event, Kinds, Known

\* The completion's append, settling or not, keeps the invariant.
LEMMA RecordCompletionStep ==
  ASSUME IInv, NEW p \in Proc, RecordCompletion(p)
  PROVE  Disciplined(p)
  <1> DEFINE me == proc[p]
             done == Completed(me.call, me.at, me.out, me.from)
             next == Ask(me.run, me.call + 1, me.end + 1)
  <1>1. /\ me \in Driver /\ me.pc = "settle" /\ me.run \in Run
        /\ me.call \in Calls(me.run) /\ me.at \in Seqs
    BY AtWork DEF RecordCompletion, InCall, KnowsItsCall, IntentIsRecorded, PastIntent, IsIntent
  <1>2. /\ me.call + 1 \in Nat /\ me.end + 1 \in Nat
        /\ me.out \in Output \cup {NoOutput} /\ me.from \in Origin \cup {NoOrigin}
    BY <1>1 DEF Driver
  <1>3. done \in Event /\ Known(me.run, done) /\ next \in Driver
    BY <1>1, <1>2, CompletedIsKnown, AskIsADriver
  <1>4. CASE Persist(p, done, next)
    BY <1>1, <1>2, <1>3, <1>4, PersistAndAsk
  <1>5. CASE Keyed(me.run, me.call) /\ PersistSettling(p, done, KeyOf(me), me.at, next)
    <2>1. KeyOf(me) \in Ident
      BY <1>1, <1>5, CallsAreTyped DEF KeyOf
    <2>2. proc'[p] \in {Idle, next}
      BY <1>1, <1>3, <1>5, <2>1, PersistSettlingSteps
    <2>3. Sound(proc[p])' /\ proc'[p].pc # "exec"
      BY <1>1, <1>2, <2>2, IdleIsSound, AskIsSound
    <2> QED
      BY <1>1, <1>3, <1>5, <2>1, <2>3, PersistSettlingSteps DEF Disciplined
  <1> QED
    BY <1>4, <1>5 DEF RecordCompletion

\* resolve's lookup keeps the invariant.
LEMMA LookupHeldStep ==
  ASSUME IInv, NEW p \in Proc, LookupHeld(p)
  PROVE  Disciplined(p)
  <1> DEFINE me == proc[p]
  <1>1. /\ me \in Driver /\ me.pc = "lookupHeld" /\ me.run \in Run
        /\ me.call \in Calls(me.run) /\ Keyed(me.run, me.call)
        /\ IsIntent(me.run, me.at) /\ log[me.run][me.at].call = me.call
    BY AtWork DEF LookupHeld, InCall, KnowsItsCall, IntentIsRecorded, PastIntent
  <1>2. PICK pc \in {"resolveSettling", "resolve"} : Continue(p, [me EXCEPT !.pc = pc])
    BY DEF LookupHeld
  <1> DEFINE d == [me EXCEPT !.pc = pc]
  <1>3. /\ d \in Driver
        /\ d.pc = pc /\ d.run = me.run /\ d.call = me.call /\ d.at = me.at
    BY <1>1 DEF Driver, PCs
  <1> HIDE DEF d
  <1>4. proc'[p] = d /\ log' = log
    BY <1>2, <1>3, ContinueSteps DEF storeVars, d
  <1>5. Sound(proc[p])' /\ proc'[p].pc # "exec"
    BY <1>1, <1>3, <1>4
    DEF Sound, KnowsItsCall, IntentIsRecorded, PastIntent, MayExecute, InCall, IsIntent
  <1> QED
    BY <1>2, <1>3, <1>5, ContinueSteps DEF Disciplined, d

\* resolve's append, settling or not, keeps the invariant.
LEMMA RecordResolutionStep ==
  ASSUME IInv, NEW p \in Proc, RecordResolution(p)
  PROVE  Disciplined(p)
  <1> DEFINE me == proc[p]
  <1>1. /\ me \in Driver /\ me.pc \in {"resolve", "resolveSettling"} /\ me.run \in Run
        /\ me.call \in Calls(me.run) /\ me.at \in Seqs
        /\ me.pc = "resolveSettling" => Keyed(me.run, me.call)
    BY AtWork
    DEF RecordResolution, InCall, KnowsItsCall, IntentIsRecorded, PastIntent, IsIntent
  <1>2. PICK o \in Output :
          \/ /\ me.pc = "resolveSettling"
             /\ PersistSettling(p, Completed(me.call, me.at, o, NoOrigin), KeyOf(me), me.at, Idle)
          \/ Persist(p, Completed(me.call, me.at, o, NoOrigin), Idle)
    BY DEF RecordResolution
  <1> DEFINE done == Completed(me.call, me.at, o, NoOrigin)
  <1>3. done \in Event /\ Known(me.run, done)
    BY <1>1, CompletedIsKnown
  <1>4. CASE Persist(p, done, Idle)
    BY <1>1, <1>3, <1>4, IdleIsADriver, PersistAndAsk
  <1>5. CASE me.pc = "resolveSettling" /\ PersistSettling(p, done, KeyOf(me), me.at, Idle)
    <2>1. KeyOf(me) \in Ident
      BY <1>1, <1>5, CallsAreTyped DEF KeyOf
    <2>2. proc'[p] = Idle
      BY <1>1, <1>3, <1>5, <2>1, IdleIsADriver, PersistSettlingSteps
    <2> QED
      BY <1>1, <1>3, <1>5, <2>1, <2>2, IdleIsADriver, IdleIsSound, PersistSettlingSteps
      DEF Disciplined
  <1> QED
    BY <1>2, <1>4, <1>5

----------------------------------------------------------------------------
(* Running the tool.                                                        *)

\* An attempt keeps the invariant: a Write's first is its last, because its
\* process leaves exec and no other is there for the same intent.
LEMMA AttemptStep ==
  ASSUME IInv, NEW p \in Proc, Attempt(p)
  PROVE  IInv'
  <1> DEFINE me == proc[p]
             r == me.run
             s == me.at
  <1>1. /\ me \in Driver /\ me.pc = "exec" /\ r \in Run /\ me.call \in Calls(r)
        /\ IsIntent(r, s) /\ log[r][s].call = me.call /\ s \in Seqs
        /\ Keyed(r, me.call) => Store!HeldBy(Identity(r, me.call), r, s)
        /\ me.from = NoOrigin
    BY AtWork
    DEF Attempt, InCall, KnowsItsCall, IntentIsRecorded, PastIntent, MayExecute, IsIntent
  <1>2. log' = log /\ commit' = commit /\ crashes' = crashes
    BY DEF Attempt, storeVars
  <1>3. PICK d \in Driver :
          /\ proc' = [proc EXCEPT ![p] = d]
          /\ d.run = r /\ d.call = me.call /\ d.at = s /\ d.from = me.from
          /\ d.pc \in {"exec", "settle"}
          /\ Effect(r, me.call) = "Write" => d.pc = "settle"
    <2>1. CASE /\ Effect(r, me.call) # "Write"
               /\ Become(p, [me EXCEPT !.tries = me.tries + 1])
      <3> DEFINE t == me.tries + 1
                 d == [me EXCEPT !.tries = t]
      <3>1. t \in Nat
        BY <1>1 DEF Driver
      <3> HIDE DEF t
      <3>2. d \in Driver /\ d.run = r /\ d.call = me.call /\ d.at = s
              /\ d.from = me.from /\ d.pc = "exec"
        BY <1>1, <3>1 DEF Driver
      <3>3. proc' = [proc EXCEPT ![p] = d]
        BY <2>1 DEF Become, t
      <3> QED
        BY <2>1, <3>2, <3>3
    <2>2. ASSUME NEW o \in Output,
                 Become(p, [me EXCEPT !.pc = "settle", !.out = o, !.tries = 0])
          PROVE  \E d \in Driver :
                   /\ proc' = [proc EXCEPT ![p] = d]
                   /\ d.run = r /\ d.call = me.call /\ d.at = s /\ d.from = me.from
                   /\ d.pc \in {"exec", "settle"}
                   /\ Effect(r, me.call) = "Write" => d.pc = "settle"
      <3> DEFINE d == [me EXCEPT !.pc = "settle", !.out = o, !.tries = 0]
      <3>1. d \in Driver /\ d.run = r /\ d.call = me.call /\ d.at = s
              /\ d.from = me.from /\ d.pc = "settle"
        BY <1>1 DEF Driver, PCs
      <3>2. proc' = [proc EXCEPT ![p] = d]
        BY <2>2 DEF Become
      <3> QED
        BY <3>1, <3>2
    <2> QED
      BY <2>1, <2>2 DEF Attempt
  <1>4. /\ proc' \in [Proc -> Driver]
        /\ proc'[p] = d
        /\ \A q \in Proc \ {p} : proc'[q] = proc[q]
    BY <1>3 DEF IInv, TypeOK
  <1>5. /\ performed' \in [Run -> [Seqs -> Nat]]
        /\ performed'[r][s] = performed[r][s] + 1
        /\ \A x \in Run, y \in Seqs :
             ~(x = r /\ y = s) => performed'[x][y] = performed[x][y]
    <2>1. performed' = [performed EXCEPT ![r][s] = performed[r][s] + 1]
      BY DEF Attempt
    <2>2. performed \in [Run -> [Seqs -> Nat]]
      BY DEF IInv, TypeOK
    <2>3. performed[r][s] + 1 \in Nat
      BY <1>1, <2>2
    <2> DEFINE n == performed[r][s] + 1
    <2> HIDE DEF n
    <2>4. performed' = [performed EXCEPT ![r][s] = n] /\ n \in Nat
      BY <2>1, <2>3 DEF n
    <2> HIDE DEF r, s, me
    <2>5. r \in Run /\ s \in Seqs
      BY <1>1
    <2>6. /\ performed' \in [Run -> [Seqs -> Nat]]
          /\ performed'[r][s] = n
          /\ \A x \in Run, y \in Seqs :
               ~(x = r /\ y = s) => performed'[x][y] = performed[x][y]
      BY <2>2, <2>4, <2>5
    <2> QED
      BY <2>6 DEF n
  <1>6. TypeOK'
    BY <1>2, <1>4, <1>5 DEF IInv, TypeOK, Store!TypeOK, storeVars
  <1>7. ClaimsNameAnIntent' /\ EventsKnown' /\ Grows
    BY <1>2 DEF IInv, ClaimsNameAnIntent, EventsKnown, Grows, Store!IsClaimed
  <1>8. \A q \in Proc : Sound(proc[q])'
    <2>1. Sound(proc[p])'
      BY <1>1, <1>2, <1>3, <1>4
      DEF Sound, KnowsItsCall, IntentIsRecorded, PastIntent, MayExecute, InCall, IsIntent,
          Store!HeldBy
    <2> QED
      BY <1>4, <1>7, <2>1, SoundIsStable
  <1>9. SingleExecution'
    <2> SUFFICES ASSUME NEW x \in Run, NEW y \in Seqs, performed'[x][y] > 0
                 PROVE  /\ IsIntent(x, y)
                        /\ Keyed(x, log[x][y].call)
                             => Store!HeldBy(Identity(x, log[x][y].call), x, y)
                        /\ Effect(x, log[x][y].call) = "Write" => performed'[x][y] = 1
      BY <1>2 DEF SingleExecution, IsIntent, Store!HeldBy
    <2>1. CASE x = r /\ y = s
      <3>1. Effect(r, me.call) = "Write" => performed[r][s] = 0
        BY <1>1 DEF IInv, WritesAlone
      <3> QED
        BY <1>1, <1>5, <2>1, <3>1
    <2>2. CASE ~(x = r /\ y = s)
      BY <1>5, <2>2 DEF IInv, SingleExecution
    <2> QED
      BY <2>1, <2>2
  <1>10. WritesAlone'
    <2> SUFFICES ASSUME NEW x \in Proc,
                        proc'[x].pc = "exec",
                        Effect(proc'[x].run, proc'[x].call) = "Write"
                 PROVE  /\ performed'[proc'[x].run][proc'[x].at] = 0
                        /\ \A y \in Proc \ {x} :
                             ~(/\ proc'[y].pc = "exec"
                               /\ proc'[y].run = proc'[x].run
                               /\ proc'[y].at = proc'[x].at)
      BY DEF WritesAlone
    <2>1. x # p /\ proc'[x] = proc[x]
      BY <1>3, <1>4
    <2>2. /\ performed[proc[x].run][proc[x].at] = 0
          /\ \A y \in Proc \ {x} :
               ~(proc[y].pc = "exec" /\ proc[y].run = proc[x].run /\ proc[y].at = proc[x].at)
      BY <2>1 DEF IInv, WritesAlone
    <2>3. ~(proc[x].run = r /\ proc[x].at = s)
      BY <1>1, <2>1, <2>2
    <2>4. proc[x].run \in Run /\ proc[x].at \in Seqs
      BY <2>1, AtWork DEF IntentIsRecorded, PastIntent, IsIntent
    <2> QED
      BY <1>3, <1>4, <1>5, <2>1, <2>2, <2>3, <2>4
  <1> QED
    BY <1>6, <1>7, <1>8, <1>9, <1>10 DEF IInv

----------------------------------------------------------------------------
(* The theorems.                                                            *)

\* An empty store and idle processes satisfy the invariant.
LEMMA InitEstablishesIInv == Init => IInv
  <1> SUFFICES ASSUME Init PROVE IInv
    OBVIOUS
  <1>1. TypeOK
    BY IdleIsADriver, ToolCallAssumption
    DEF Init, TypeOK, Store!Init, Store!TypeOK, Store!Seqs, Store!Null, Store!Commitment,
        Store!Unclaimed, Seqs
  <1>2. ClaimsNameAnIntent /\ EventsKnown /\ SingleExecution
    BY ToolCallAssumption
    DEF Init, Store!Init, Store!Unclaimed, Store!Seqs, Seqs, ClaimsNameAnIntent, EventsKnown,
        SingleExecution, Store!IsClaimed
  <1>3. (\A p \in Proc : Sound(proc[p])) /\ WritesAlone
    BY DEF Init, Idle, At, Sound, KnowsItsCall, IntentIsRecorded, PastIntent, MayExecute,
           InCall, WritesAlone
  <1> QED
    BY <1>1, <1>2, <1>3 DEF IInv

\* Every step but running the tool is disciplined.
LEMMA StepsAreDisciplined ==
  ASSUME IInv, NEW p \in Proc,
         Work(p) \/ Crash(p) \/ \E r \in Run : Invoke(p, r)
  PROVE  Disciplined(p) \/ Attempt(p)
  <1>1. CASE Work(p)
    BY <1>1, RecordStartStep, RecordRedriveStep, RecoverRedrivenStep, LookupStep, ClaimStep,
       ReadOriginStep, RecordIntentStep, RecordCompletionStep, RecordRunCompletedStep,
       LookupHeldStep, RecordResolutionStep, RecordAbandonedStep
    DEF Work
  <1>2. CASE Crash(p)
    BY <1>2, CrashStep
  <1>3. CASE \E r \in Run : Invoke(p, r)
    BY <1>3, StartStep, ReadLogStep, RedriveStep, ResolveStep, AbandonStep
    DEF Invoke, Recover
  <1> QED
    BY <1>1, <1>2, <1>3

\* Every step of every process keeps the invariant.
LEMMA NextKeepsIInv == IInv /\ [Next]_vars => IInv'
  <1> SUFFICES ASSUME IInv, [Next]_vars PROVE IInv'
    OBVIOUS
  <1>1. CASE Next
    BY <1>1, StepsAreDisciplined, DisciplineKeepsIInv, AttemptStep DEF Next
  <1>2. CASE UNCHANGED vars
    BY <1>2
    DEF vars, IInv, TypeOK, Store!TypeOK, ClaimsNameAnIntent, Store!IsClaimed, EventsKnown,
        Sound, KnowsItsCall, IntentIsRecorded, PastIntent, MayExecute, IsIntent,
        Store!HeldBy, WritesAlone, SingleExecution
  <1> QED
    BY <1>1, <1>2

\* The invariant behind the theorems holds in every reachable state.
THEOREM Invariance == Spec => []IInv
  BY InitEstablishesIInv, NextKeepsIInv, PTL DEF Spec

\* Every variable keeps its type.
THEOREM TypeCorrect == Spec => []TypeOK
  <1>1. IInv => TypeOK
    BY DEF IInv
  <1> QED
    BY <1>1, Invariance, PTL

\* A keyed call runs only under the claim its run holds, and no Write runs
\* twice for one intent: for any number of processes driving the same runs,
\* any programs, and any crashes between any two store operations.
THEOREM ExecutesOnce == Spec => []SingleExecution
  <1>1. IInv => SingleExecution
    BY DEF IInv
  <1> QED
    BY <1>1, Invariance, PTL

\* Two intents under one identity, of one run or of two, never both run.
THEOREM OneIntentPerIdentity ==
  ASSUME SingleExecution,
         NEW r \in Run, NEW s \in Seqs, NEW x \in Run, NEW y \in Seqs,
         performed[r][s] > 0, performed[x][y] > 0,
         Keyed(r, log[r][s].call),
         Identity(r, log[r][s].call) = Identity(x, log[x][y].call)
  PROVE  r = x /\ s = y
  BY DEF SingleExecution, Keyed, Store!HeldBy

\* The runtime is a client of the store: whatever its processes do reaches the
\* logs and the commitments through the operations of the store's contract.
THEOREM UsesTheContract == Spec => Store!Spec
  <1>1. Init => Store!Init
    BY DEF Init
  <1>2. IInv /\ [Next]_vars => [Store!Next]_storeVars
    <2> SUFFICES ASSUME IInv, Next PROVE [Store!Next]_storeVars
      BY DEF vars, storeVars
    <2>1. PICK p \in Proc : Disciplined(p) \/ Attempt(p)
      BY StepsAreDisciplined DEF Next
    <2> QED
      BY <2>1 DEF Disciplined, Attempt
  <1>3. IInv /\ [Next]_vars => [Store!Next]_(Store!storeVars)
    BY <1>2 DEF storeVars, Store!storeVars
  <1> QED
    BY <1>1, <1>3, Invariance, PTL DEF Spec, Store!Spec
=============================================================================
