----------------------------- MODULE ClientRun -----------------------------
(***************************************************************************)
(* A run its clients drive: salvor-server's /v1/client-runs surface.  The   *)
(* client owns the loop and the server owns the log.  A client opens the    *)
(* run, gets a drive token, and sends what its cursor asks for next; every   *)
(* handler reads the log, judges the request by the append-guard and         *)
(* appends, and between those steps anything may happen: another handler,    *)
(* a lapse of the lease, a takeover, a restart of the server.               *)
(*                                                                           *)
(* One run.  A call is a step of the program the clients run; a step that    *)
(* names a call again asks for the same thing again.                         *)
(***************************************************************************)
EXTENDS AppendGuard, FiniteSets

CONSTANTS
  Driver,      \* the clients
  Nobody,      \* none of them
  Task,        \* the server's request handlers
  Call,        \* what the program calls
  NoCall,
  Decl,        \* Decl[c]: kind, performer, effect, and what the operator declared
  Programs,    \* the programs the clients may be running, each a sequence of steps
  Output,      \* what a call may return
  Altered,     \* an output that changes a field the intent pinned
  NoOutput,
  TTL,         \* how many ticks a quiet lease lasts
  Upsets,      \* Upsets[program]: what may upset the drive of a program
  MaxUpsets    \* bound on how often anything does

Plain == {"RunStarted", "NowObserved", "SleepStarted", "SleepCompleted", "RunCompleted"}

ASSUME ClientRunAssumption ==
  /\ Nobody \notin Driver /\ NoCall \notin Call
  /\ Altered \notin Output /\ NoOutput \notin Output \cup {Altered}
  /\ Decl \in [Call -> [kind : {"Model", "Tool"}, by : {"server", "client"},
                        effect : {"Read", "Idempotent", "Write"}, keyed : BOOLEAN,
                        trusted : BOOLEAN, pinned : BOOLEAN]]
  /\ \A program \in Programs :
       /\ program \in Seq(Plain \cup Call) /\ Len(program) > 1
       /\ program[1] = "RunStarted" /\ program[Len(program)] = "RunCompleted"
       /\ \A i \in 2..(Len(program) - 1) : program[i] \notin {"RunStarted", "RunCompleted"}
  /\ TTL \in Nat \ {0}
  /\ Upsets \in [Programs -> SUBSET {"quiet", "loss", "restart", "mark", "abandonment"}]
  /\ MaxUpsets \in Nat

VARIABLES
  program,    \* what the clients run
  log,        \* the recorded log
  claim,      \* claim[c]: the store's commitment for the declared key of call c
  lease,      \* the lease registry's entry for the run: ticks of quiet, or NoLease
  holder,     \* the client that has the lease's token, Nobody if it is lost
  view,       \* how much of the log its holder has read
  told,       \* told[d]: what d knows of the call it asked to perform itself
  task,       \* task[t]: what handler t is doing
  ran,        \* ran[p]: how often the call whose intent is at p was executed, up to 2
  misled,     \* some client was told to perform a call whose result was recorded
  upsets      \* how many there were

vars == <<program, log, claim, lease, holder, view, told, task, ran, misled, upsets>>
clients == <<view, told>>
leases == <<lease, holder>>
ghosts == <<program, ran, misled, upsets>>

MaxLen == 2 * Len(program) + MaxUpsets
Positions == 1..MaxLen

Performers == {"server", "client", "operator", "copy", "none"}
Event == [kind : Plain \cup Intents \cup Completions \cup {Mark, "RunAbandoned"},
          at : Positions \cup {0}, call : Call \cup {NoCall}, by : Performers,
          val : Output \cup {Altered, NoOutput}]

PlainEvent(kind) == [kind |-> kind, at |-> 0, call |-> NoCall, by |-> "none", val |-> NoOutput]
IntentKind(c) == IF Decl[c].kind = "Model" THEN "ModelCallRequested" ELSE "ToolCallRequested"
IntentOf(c, p) == [kind |-> IntentKind(c), at |-> p, call |-> c, by |-> Decl[c].by,
                   val |-> NoOutput]
DoneOf(c, p, by, val) == [kind |-> Awaits[IntentKind(c)], at |-> p, call |-> c, by |-> by,
                          val |-> val]

\* Only a declared tool call with an effect has an identity the store arbitrates.
Keyed(c) ==
  /\ Decl[c].kind = "Tool" /\ Decl[c].by = "client" /\ Decl[c].keyed
  /\ Decl[c].effect \in {"Write", "Idempotent"}
Identity == {c \in Call : Keyed(c)}

Free == [at |-> 0, done |-> 0]
NoLease == -1
Untold == [at |-> 0, out |-> NoOutput]

\* pos: where the next event of evs goes.  at, call: the call the request is about.
Idle == [pc |-> "idle", op |-> "none", by |-> Nobody, tok |-> FALSE, n |-> 0, at |-> 0,
         call |-> NoCall, val |-> NoOutput, held |-> FALSE, pos |-> 0, evs |-> <<>>]

Leased == lease # NoLease
Fresh == Leased /\ lease < TTL

\* Ended: run_is_finished.
Finished(L) == L # <<>> /\ L[Under(L)].kind \in Terminals

\* Mutant: an intent that is recorded is taken to be open.
AnswerNever(L, p) == NoOutput

\* recorded_tool_output and recorded_completion: the next slot only.
AnswerAt(L, p) ==
  IF p + 1 <= Len(L) /\ L[p + 1].kind \in Completions /\ L[p + 1].at = p
    THEN L[p + 1].val ELSE NoOutput

\* is_sleeping.
Sleeping(L) ==
  \E i \in 1..Len(L) :
    /\ L[i].kind = "SleepStarted"
    /\ \A j \in (i + 1)..Len(L) : L[j].kind # "SleepCompleted"

Executed(p) == [ran EXCEPT ![p] = IF @ = 2 THEN 2 ELSE @ + 1]

Become(t, state) == task' = [task EXCEPT ![t] = state]
Stop(t) == Become(t, Idle)

Init ==
  /\ program \in Programs
  /\ log = <<>>
  /\ claim = [c \in Identity |-> Free]
  /\ lease = NoLease
  /\ holder = Nobody
  /\ view = 0
  /\ told = [d \in Driver |-> Untold]
  /\ task = [t \in Task |-> Idle]
  /\ ran = [p \in Positions |-> 0]
  /\ misled = FALSE
  /\ upsets = 0

----------------------------------------------------------------------------
(* Opening the run, and the lease it takes.                                 *)

Held(L) == Fresh /\ ~Finished(L)

\* A client that reads the log forgets what it knew of a call that is not open.
Recall(d, n) ==
  [told EXCEPT ![d] = IF @.at = Pending(SubSeq(log, 1, n)) THEN @ ELSE Untold]

\* A run another driver holds is refused, its holder keeps the token it has, and
\* anyone may have a run that is not held or is finished.  The answer will carry
\* the log as it was read here.
OpenCheck(t, d) ==
  /\ task[t] = Idle
  /\ \A u \in Task : task[u].by # d
  /\ \/ /\ Held(log) /\ holder = d /\ view < Len(log)
        /\ lease' = 0
        /\ view' = Len(log)
        /\ told' = Recall(d, Len(log))
        /\ UNCHANGED task
     \/ /\ ~Held(log)
        /\ Become(t, [Idle EXCEPT !.pc = "minting", !.op = "open", !.by = d, !.n = Len(log)])
        /\ UNCHANGED <<lease, view, told>>
  /\ UNCHANGED <<log, claim, holder, ghosts>>

\* A handler keeps the token it came with while the lease changes hands.
Outdated(t) == [u \in Task |-> IF u = t THEN Idle ELSE [task[u] EXCEPT !.tok = FALSE]]

\* lease_client_run: a fresh token, whatever lease there is by now.
OpenMint(t) ==
  /\ task[t].pc = "minting"
  /\ lease' = 0
  /\ holder' = task[t].by
  /\ IF task[t].by = Nobody
       THEN view' = 0 /\ UNCHANGED told
       ELSE view' = task[t].n /\ told' = Recall(task[t].by, task[t].n)
  /\ task' = Outdated(t)
  /\ UNCHANGED <<log, claim, ghosts>>

\* authorize_drive lets the holder through and counts it as proof of life,
\* however long it has been quiet; every other request is refused.
Drive(t, d, request) ==
  /\ task[t] = Idle
  /\ holder = d
  /\ lease' = 0
  /\ Become(t, request)
  /\ UNCHANGED holder

Heartbeat(d) ==
  /\ holder = d
  /\ lease > 0
  /\ lease' = 0
  /\ UNCHANGED <<log, claim, holder, clients, task, ghosts>>

\* Mutant: whoever asks has the lease removed.
ReleaseAnyone(d) ==
  /\ lease' = NoLease
  /\ holder' = IF holder = d THEN Nobody ELSE holder
  /\ view' = IF holder = d THEN 0 ELSE view
  /\ task' = [t \in Task |-> [task[t] EXCEPT !.tok = FALSE]]
  /\ UNCHANGED <<log, claim, told, ghosts>>

Release(d) ==
  /\ holder = d
  /\ lease' = NoLease
  /\ holder' = Nobody
  /\ view' = 0
  /\ task' = [t \in Task |-> [task[t] EXCEPT !.tok = FALSE]]
  /\ UNCHANGED <<log, claim, told, ghosts>>

CountUpset(upset) ==
  /\ upset \in Upsets[program]
  /\ upsets < MaxUpsets
  /\ upsets' = upsets + 1

\* The holder says nothing for a tick.  Only a bounded number of times if it
\* is alive to be heard from.
Tick ==
  /\ Fresh
  /\ lease' = lease + 1
  /\ IF holder = Nobody THEN UNCHANGED upsets ELSE CountUpset("quiet")
  /\ UNCHANGED <<program, log, claim, holder, clients, task, ran, misled>>

----------------------------------------------------------------------------
(* The client: its cursor over the part of the log it has read says what it *)
(* asks for next.  It may ask again at any time, the answer being lost.     *)

Read == SubSeq(log, 1, view)

\* How many steps of the program a log has taken.
Steps(L) == Cardinality({i \in 1..Len(L) : L[i].kind \notin Completions \cup {Mark}})

Asks == program[Steps(Read) + 1]

\* The call the cursor is at, NoCall at a plain step.
CallAt ==
  IF Finished(Read) THEN NoCall
  ELSE IF Pending(Read) # 0 THEN log[Pending(Read)].call
  ELSE IF Asks \in Call THEN Asks ELSE NoCall

PositionAt == IF Pending(Read) # 0 THEN Pending(Read) ELSE view + 1

Request(d, op) ==
  [Idle EXCEPT !.pc = "asked", !.op = op, !.by = d, !.at = PositionAt, !.call = CallAt]

AskAppend(t, d) ==
  LET s == Steps(Read) IN
  /\ ~Finished(Read) /\ Pending(Read) = 0
  /\ \E k \in 1..2 :
       /\ s + k <= Len(program)
       /\ \A i \in 1..k : program[s + i] \in Plain
       /\ Drive(t, d, [Idle EXCEPT !.pc = "asked", !.op = "append", !.by = d,
                         !.pos = view + 1,
                         !.evs = [i \in 1..k |-> PlainEvent(program[s + i])]])
  /\ UNCHANGED <<log, claim, clients, ghosts>>

AskMark(t, d) ==
  /\ view > 0
  /\ CountUpset("mark")
  /\ Drive(t, d, [Idle EXCEPT !.pc = "asked", !.op = "append", !.by = d,
                    !.pos = view + 1, !.evs = <<PlainEvent(Mark)>>])
  /\ UNCHANGED <<program, log, claim, clients, ran, misled>>

AskStep(t, d) ==
  /\ CallAt # NoCall /\ Decl[CallAt].by = "server"
  /\ Drive(t, d, Request(d, "step"))
  /\ UNCHANGED <<log, claim, clients, ghosts>>

AskIntent(t, d) ==
  /\ CallAt # NoCall /\ Decl[CallAt].by = "client"
  /\ told[d].at # PositionAt
  /\ Drive(t, d, Request(d, "intent"))
  /\ UNCHANGED <<log, claim, clients, ghosts>>

\* Told that its call is open, the client performs it.
Perform(d) ==
  /\ told[d].at # 0 /\ told[d].out = NoOutput
  /\ \E out \in Output \cup (IF Decl[log[told[d].at].call].pinned THEN {Altered} ELSE {}) :
       told' = [told EXCEPT ![d].out = out]
  /\ ran' = Executed(told[d].at)
  /\ UNCHANGED <<program, log, claim, leases, view, task, misled, upsets>>

AskDone(t, d) ==
  /\ told[d].out # NoOutput
  /\ Drive(t, d, [Idle EXCEPT !.pc = "asked", !.op = "done", !.by = d, !.at = told[d].at,
                    !.call = log[told[d].at].call, !.val = told[d].out])
  /\ UNCHANGED <<log, claim, clients, ghosts>>

\* An answer arrives, or the client reads the log, which needs no lease.
Learn ==
  /\ holder # Nobody
  /\ view # Len(log)
  /\ view' = Len(log)
  /\ told' = Recall(holder, Len(log))
  /\ UNCHANGED <<log, claim, leases, task, ghosts>>

Dies(d) ==
  /\ CountUpset("loss")
  /\ holder' = IF holder = d THEN Nobody ELSE holder
  /\ view' = IF holder = d THEN 0 ELSE view
  /\ told' = [told EXCEPT ![d] = Untold]
  /\ task' = [t \in Task |-> IF task[t].by = d THEN [task[t] EXCEPT !.by = Nobody] ELSE task[t]]
  /\ UNCHANGED <<program, log, claim, lease, ran, misled>>

----------------------------------------------------------------------------
(* The handlers, by what they do after each await.                          *)

Asked(t, op) == task[t].pc = "asked" /\ task[t].op = op

\* Mutant: the store overlooks that a position is taken.
NeverTaken(t) == FALSE

\* The store takes an event at the position after the log's end, and refuses
\* one at a position that is taken.
Taken(t) == task[t].pos <= Len(log)

Submit(t, pc, pos, evs) == Become(t, [task[t] EXCEPT !.pc = pc, !.pos = pos, !.evs = evs])

\* How many of the submitted events fall on recorded positions.
Overlap(t) ==
  IF task[t].pos > Len(log) THEN 0
  ELSE IF Len(task[t].evs) < Len(log) - task[t].pos + 1 THEN Len(task[t].evs)
  ELSE Len(log) - task[t].pos + 1

\* append: what is recorded already must be the same, and the rest is judged as
\* a whole before any of it is written.
ReadBatch(t) ==
  LET k == Overlap(t)
      rest == SubSeq(task[t].evs, k + 1, Len(task[t].evs))
      accepted ==
        /\ \A i \in 1..k : log[task[t].pos + i - 1] = task[t].evs[i]
        /\ rest # <<>> => task[t].pos + k = Len(log) + 1
        /\ LegalBatch(log, rest)
        /\ \A i \in 1..Len(rest) :
             rest[i].kind = "SleepCompleted" => Sleeping(log \o SubSeq(rest, 1, i - 1)) IN
  /\ Asked(t, "append")
  /\ IF accepted /\ rest # <<>> THEN Submit(t, "writing", task[t].pos + k, rest) ELSE Stop(t)
  /\ UNCHANGED <<log, claim, leases, clients, ghosts>>

\* Mutant: a dangling write is dispatched again.
PlanStepAgain(t) ==
  LET p == task[t].at
      intent == IntentOf(task[t].call, p) IN
  /\ Asked(t, "step")
  /\ \/ /\ p = Len(log) + 1 /\ Legal(log, intent)
        /\ Submit(t, "writing", p, <<intent>>)
     \/ /\ p = Len(log) /\ log[p] = intent
        /\ Become(t, [task[t] EXCEPT !.pc = "executing"])
     \/ /\ ~(p = Len(log) + 1 /\ Legal(log, intent)) /\ ~(p = Len(log) /\ log[p] = intent)
        /\ Stop(t)
  /\ UNCHANGED <<log, claim, leases, clients, ghosts>>

\* Mutant: a dangling call is refused, whatever it is.
PlanStepRefuse(t) ==
  LET p == task[t].at
      opens == p = Len(log) + 1 /\ Legal(log, IntentOf(task[t].call, p)) IN
  /\ Asked(t, "step")
  /\ IF opens THEN Submit(t, "writing", p, <<IntentOf(task[t].call, p)>>) ELSE Stop(t)
  /\ UNCHANGED <<log, claim, leases, clients, ghosts>>

\* plan_model_step and plan_tool_step: a new call is recorded first, one that
\* dangles is executed again unless it is a write, and any other is answered
\* from the log or refused.
PlanStep(t) ==
  LET p == task[t].at
      c == task[t].call
      intent == IntentOf(c, p)
      opens == p = Len(log) + 1 /\ Legal(log, intent)
      again == /\ p = Len(log) /\ log[p] = intent
               /\ Decl[c].kind = "Model" \/ Decl[c].effect # "Write" IN
  /\ Asked(t, "step")
  /\ \/ opens /\ Submit(t, "writing", p, <<intent>>)
     \/ again /\ Become(t, [task[t] EXCEPT !.pc = "executing"])
     \/ ~opens /\ ~again /\ Stop(t)
  /\ UNCHANGED <<log, claim, leases, clients, ghosts>>

\* The client at the other end learns that its call at p is open.
Tell(t, p) == told' = [d \in Driver |-> IF d = task[t].by THEN [at |-> p, out |-> NoOutput]
                                        ELSE told[d]]

IsRecorded(L, p) == \E i \in 1..Len(L) : L[i].kind \in Completions /\ L[i].at = p

\* client_tool_intent and client_model_intent, up to what they write.
PlanIntent(t) ==
  LET p == task[t].at
      c == task[t].call
      intent == IntentOf(c, p)
      opens == p = Len(log) + 1 /\ Legal(log, intent)
      again == p <= Len(log) /\ log[p] = intent /\ AnswerAt(log, p) = NoOutput IN
  /\ Asked(t, "intent")
  /\ \/ /\ opens
        /\ Submit(t, IF Keyed(c) THEN "claiming" ELSE "writing", p, <<intent>>)
        /\ UNCHANGED <<told, misled>>
     \/ /\ again
        /\ Tell(t, p)
        /\ misled' = (misled \/ IsRecorded(log, p))
        /\ Stop(t)
     \/ /\ ~opens /\ ~again
        /\ Stop(t)
        /\ UNCHANGED <<told, misled>>
  /\ UNCHANGED <<program, log, claim, leases, view, ran, upsets>>

\* Mutant: the store is not asked.
ClaimNothing(t) ==
  /\ task[t].pc = "claiming"
  /\ Become(t, [task[t] EXCEPT !.pc = "writing"])
  /\ UNCHANGED <<log, claim, leases, clients, ghosts>>

\* claim_call: the first intent of an identity holds it for ever, a later one
\* is answered from what the first recorded, and one in between is refused.
Claim(t) ==
  LET c == task[t].call
      mine == claim[c].at = task[t].at /\ claim[c].done = 0
      copy == IF claim[c].done = 0 THEN NoOutput ELSE AnswerAt(log, claim[c].at) IN
  /\ task[t].pc = "claiming"
  /\ \/ /\ claim[c] = Free
        /\ claim' = [claim EXCEPT ![c].at = task[t].at]
        /\ Become(t, [task[t] EXCEPT !.pc = "writing"])
     \/ /\ claim[c] # Free /\ (mine \/ copy # NoOutput)
        /\ Become(t, [task[t] EXCEPT !.pc = "writing", !.val = copy])
        /\ UNCHANGED claim
     \/ /\ claim[c] # Free /\ ~mine /\ copy = NoOutput
        /\ Stop(t)
        /\ UNCHANGED claim
  /\ UNCHANGED <<log, leases, clients, ghosts>>

\* What follows the last event a handler had to write.
After(op, val) ==
  CASE op = "step" -> "executing"
    [] op = "intent" /\ val # NoOutput -> "reporting"
    [] OTHER -> "idle"

Write(t) ==
  LET next == After(task[t].op, task[t].val)
      last == Len(task[t].evs) = 1 IN
  /\ task[t].pc = "writing"
  /\ IF Taken(t)
       THEN /\ Stop(t)
            /\ UNCHANGED <<log, told>>
       ELSE /\ log' = Append(log, Head(task[t].evs))
            /\ IF last /\ next = "idle" THEN Stop(t)
               ELSE Become(t, [task[t] EXCEPT !.pc = IF last THEN next ELSE "writing",
                                 !.pos = @ + 1, !.evs = Tail(@)])
            /\ IF last /\ next = "idle" /\ task[t].op = "intent"
                 THEN Tell(t, task[t].at) ELSE UNCHANGED told
  /\ UNCHANGED <<claim, leases, view, ghosts>>

\* The server performs the call, which may fail and leave the intent dangling.
Execute(t) ==
  /\ task[t].pc = "executing"
  /\ ran' = Executed(task[t].at)
  /\ \/ Stop(t)
     \/ \E out \in Output : Become(t, [task[t] EXCEPT !.pc = "reporting", !.val = out])
  /\ UNCHANGED <<program, log, claim, leases, clients, misled, upsets>>

\* client_tool_completion and client_model_completion: the log must end at the
\* intent, a client's, and the operator's declaration must let its report stand.
CheckDone(t) ==
  LET c == task[t].call IN
  /\ Asked(t, "done")
  /\ IF /\ task[t].at = Len(log) /\ log[Len(log)] = IntentOf(c, Len(log))
        /\ Decl[c].by = "client"
        /\ Decl[c].kind = "Tool" => /\ Decl[c].trusted
                                    /\ ~(Decl[c].pinned /\ task[t].val = Altered)
       THEN Become(t, [task[t] EXCEPT !.pc = "reporting"])
       ELSE Stop(t)
  /\ UNCHANGED <<log, claim, leases, clients, ghosts>>

\* held_claim.
HoldsClaim(c, p) == Keyed(c) /\ claim[c] = [at |-> p, done |-> 0]

Source(op) == CASE op = "step" -> "server" [] op = "done" -> "client" [] OTHER -> "copy"

\* append_completion and append_tool_completion read the log and the claim
\* again, and record at the very next position after the intent.
Report(t) ==
  LET p == task[t].at
      c == task[t].call
      e == DoneOf(c, p, Source(task[t].op), task[t].val) IN
  /\ task[t].pc = "reporting"
  /\ IF p = Len(log) /\ Legal(log, e)
       THEN Become(t, [task[t] EXCEPT !.pc = "settling", !.held = HoldsClaim(c, p),
                         !.pos = p + 1, !.evs = <<e>>])
       ELSE Stop(t)
  /\ UNCHANGED <<log, claim, leases, clients, ghosts>>

\* Mutant: the completion is recorded and its claim left open.
SettleNothing(t) ==
  /\ task[t].pc = "settling"
  /\ IF Taken(t) THEN Stop(t) /\ UNCHANGED log
     ELSE /\ log' = Append(log, task[t].evs[1])
          /\ IF task[t].op = "resolve"
               THEN Become(t, [task[t] EXCEPT !.pc = "clearing"]) ELSE Stop(t)
  /\ UNCHANGED <<claim, leases, clients, ghosts>>

\* append_settling_call, or append when the call holds no claim.
Settle(t) ==
  LET c == task[t].call
      refused == Taken(t) \/ (task[t].held /\ ~HoldsClaim(c, task[t].at)) IN
  /\ task[t].pc = "settling"
  /\ IF refused THEN Stop(t) /\ UNCHANGED <<log, claim>>
     ELSE /\ log' = Append(log, task[t].evs[1])
          /\ claim' = IF task[t].held THEN [claim EXCEPT ![c].done = task[t].pos] ELSE claim
          /\ IF task[t].op = "resolve"
               THEN Become(t, [task[t] EXCEPT !.pc = "clearing"]) ELSE Stop(t)
  /\ UNCHANGED <<leases, clients, ghosts>>

----------------------------------------------------------------------------
(* What is recorded by hand, over the run's head: the completion of a        *)
(* dangling write, by an operator or by the client that holds the lease, and *)
(* an abandonment.                                                           *)

DanglingWrite(L) ==
  /\ Pending(L) # 0
  /\ L[Pending(L)].kind = "ToolCallRequested"
  /\ Decl[L[Pending(L)].call].effect = "Write"


\* check_client_resolution: the declaration of the call the log ends at, if it
\* ends at the intent of a client's tool; any other log passes.
MayResolve(L, out) ==
  ~(/\ L # <<>>
    /\ L[Len(L)].kind = "ToolCallRequested" /\ L[Len(L)].by = "client"
    /\ Decl[L[Len(L)].call].pinned
    /\ out = Altered)

\* A resolution that was let through, by the log as its check read it.  Whether a
\* write dangles is asked only when the log is read again.
Checked(d, token, out) ==
  [Idle EXCEPT !.pc = "checked", !.op = "resolve", !.by = d, !.tok = token, !.n = Len(log),
               !.val = out]

AskResolve(t, d) ==
  /\ \E out \in Output \cup {Altered} :
       /\ MayResolve(log, out)
       /\ Drive(t, d, Checked(d, TRUE, out))
  /\ UNCHANGED <<log, claim, clients, ghosts>>

OperatorResolve(t) ==
  /\ task[t] = Idle
  /\ log # <<>>
  /\ \E out \in Output \cup {Altered} :
       MayResolve(log, out) /\ Become(t, Checked(Nobody, FALSE, out))
  /\ UNCHANGED <<log, claim, leases, clients, ghosts>>

\* Runtime::resolve, up to the append.
Resolve(t) ==
  LET p == Pending(log)
      c == log[p].call IN
  /\ task[t].pc = "checked"
  /\ IF DanglingWrite(log)
       THEN Become(t, [task[t] EXCEPT !.pc = "settling", !.at = p, !.call = c,
                         !.held = HoldsClaim(c, p), !.pos = Len(log) + 1,
                         !.evs = <<DoneOf(c, p, "operator", task[t].val)>>])
       ELSE Stop(t)
  /\ UNCHANGED <<log, claim, leases, clients, ghosts>>

\* The driver that left the write is gone, unless it is the one resolving it.
ClearLease(t) ==
  /\ task[t].pc = "clearing"
  /\ IF task[t].tok \/ ~Leased
       THEN Stop(t) /\ UNCHANGED <<leases, view>>
       ELSE lease' = NoLease /\ holder' = Nobody /\ view' = 0 /\ task' = Outdated(t)
  /\ UNCHANGED <<log, claim, told, ghosts>>

Abandon(t) ==
  /\ CountUpset("abandonment")
  /\ task[t] = Idle
  /\ log # <<>> /\ ~Finished(log)
  /\ Become(t, [Idle EXCEPT !.pc = "writing", !.op = "abandon", !.pos = Len(log) + 1,
                  !.evs = <<PlainEvent("RunAbandoned")>>])
  /\ UNCHANGED <<program, log, claim, leases, clients, ran, misled>>

\* The registry and every handler die with the process; the log does not.
Restart ==
  /\ CountUpset("restart")
  /\ lease' = NoLease
  /\ holder' = Nobody
  /\ task' = [t \in Task |-> Idle]
  /\ view' = 0
  /\ UNCHANGED <<program, log, claim, told, ran, misled>>

----------------------------------------------------------------------------

Handle(t) ==
  \/ OpenMint(t)
  \/ ReadBatch(t) \/ PlanStep(t) \/ PlanIntent(t) \/ Claim(t) \/ Write(t)
  \/ Execute(t) \/ CheckDone(t) \/ Report(t) \/ Settle(t)
  \/ Resolve(t) \/ ClearLease(t)

Drives(t, d) == AskAppend(t, d) \/ AskStep(t, d) \/ AskIntent(t, d) \/ AskDone(t, d)

Next ==
  \/ \E t \in Task : Handle(t) \/ OperatorResolve(t) \/ Abandon(t)
  \/ \E t \in Task, d \in Driver :
       OpenCheck(t, d) \/ Drives(t, d) \/ AskMark(t, d) \/ AskResolve(t, d)
  \/ \E d \in Driver :
       Heartbeat(d) \/ Release(d) \/ Perform(d) \/ Dies(d)
  \/ Learn \/ Tick \/ Restart

Spec == Init /\ [][Next]_vars

\* Handlers run; the clients that are left keep opening, reading, performing and
\* asking, strongly so because they take turns; a call that is repeated succeeds
\* in the end; time passes for a lease nobody can give back; and someone settles
\* a write that dangles.
Fairness ==
  /\ \A t \in Task : WF_vars(Handle(t))
  /\ \A t \in Task : SF_vars(Execute(t) /\ task'[t] # Idle)
  /\ SF_vars(\E t \in Task, d \in Driver : OpenCheck(t, d))
  /\ SF_vars(Learn)
  /\ \A d \in Driver : WF_vars(Perform(d))
  /\ SF_vars(\E t \in Task, d \in Driver : Drives(t, d))
  /\ SF_vars(\E t \in Task : DanglingWrite(log) /\ OperatorResolve(t))
  /\ WF_vars(Tick /\ holder = Nobody)

FairSpec == Spec /\ Fairness

----------------------------------------------------------------------------
(* Properties.                                                              *)

TypeOK ==
  /\ log \in Seq(Event)
  /\ claim \in [Identity -> [at : Positions \cup {0}, done : Positions \cup {0}]]
  /\ lease \in NoLease..TTL /\ holder \in Driver \cup {Nobody}
  /\ (holder # Nobody => Leased) /\ view \in 0..Len(log)
  /\ told \in [Driver -> [at : Positions \cup {0}, out : Output \cup {Altered, NoOutput}]]
  /\ DOMAIN task = Task
  /\ ran \in [Positions -> 0..2] /\ misled \in BOOLEAN /\ upsets \in 0..MaxUpsets

Abandoned(L) == L # <<>> /\ L[Len(L)].kind = "RunAbandoned"
BeforeAbandonment(L) == IF Abandoned(L) THEN SubSeq(L, 1, Len(L) - 1) ELSE L

\* However handlers, drivers and operators overlap, and wherever a batch is cut
\* short, every recorded event was a legal next event of the log before it: the
\* guard judged it on an older reading and the store's refusal of a taken
\* position is all that stands between (client_runs.rs:692, validate.rs:166).
\* An abandonment asks no guard; it ends a run that had not ended.
LogIsLegal ==
  LET L == BeforeAbandonment(log) IN WellFormed(L) /\ (Abandoned(log) => ~Finished(L))

\* A write the server performs for its client is executed at most once per
\* recorded intent, whatever the client repeats after a lost answer and however
\* often the run changes hands (client_runs.rs:1360).
ServerWritesOnce ==
  \A p \in 1..Len(log) :
    (log[p].kind = "ToolCallRequested" /\ log[p].by = "server"
       /\ Decl[log[p].call].effect = "Write") => ran[p] <= 1

\* The claim of an identity is settled exactly when the completion of the intent
\* that claimed it is in the log, whoever recorded that completion
\* (client_runs.rs:1455, runtime.rs:402).
SettledIffRecorded ==
  \A c \in Identity :
    /\ claim[c].done # 0 =>
         /\ claim[c].done <= Len(log)
         /\ log[claim[c].done].kind \in Completions /\ log[claim[c].done].at = claim[c].at
    /\ claim[c].done = 0 /\ claim[c].at \in 1..Len(log) /\ log[claim[c].at].call = c
         => ~IsRecorded(log, claim[c].at)

\* No intent of a declared identity is in the log before the identity is claimed.
NoUnclaimedIntent ==
  \A p \in 1..Len(log) :
    (log[p].kind \in Intents /\ Keyed(log[p].call)) => claim[log[p].call].at \in 1..p

\* The store's claims and the log tell one story of every declared identity.
ClaimsAgree == SettledIffRecorded /\ NoUnclaimedIntent

Marked(p) == p < Len(log) /\ log[p + 1].kind = Mark

Alters(i) ==
  log[i].kind \in Completions /\ Decl[log[i].call].pinned /\ log[i].val = Altered


\* "safe to perform" is never answered about a call whose result is recorded
\* (client_runs.rs:1757), if no redrive mark stands after its intent.
ToldTheTruth == misled => \E p \in 1..Len(log) : log[p].kind \in Intents /\ Marked(p)

\* Nothing performs the call an identity names a second time under a later
\* intent (client_runs.rs:1909).  Violated: the answer to an intent that is
\* already recorded does not ask the store.
PerformedUnderOneIntent ==
  \A p, q \in 1..Len(log) :
    (/\ p # q /\ log[p].kind \in Intents /\ log[q].kind \in Intents
     /\ log[p].call = log[q].call /\ Keyed(log[p].call))
    => ran[p] = 0 \/ ran[q] = 0

\* A run whose drivers, handlers or server are lost is taken over and driven to
\* its end.
RunFinishes == <>Finished(log)

=============================================================================
