----------------------------- MODULE AgentLoop -----------------------------
(***************************************************************************)
(* The built-in agent loop of salvor-runtime (driver.rs), the cursor of     *)
(* salvor-replay that it replays its log through, and its budgets.          *)
(*                                                                          *)
(* A drive starts from the log as it was read and asks the cursor for one   *)
(* step after another: what the log holds is replayed, what lies past it is *)
(* done live and appended.  Everything else a drive knows (the conversation,*)
(* the counters, the extensions, the streak of failures) it rebuilds on     *)
(* every drive.  Several processes may drive the run, and the operator's    *)
(* verbs append to it meanwhile; each of those reads the log and appends at *)
(* the end it read, so it is one step.  Tools here declare no idempotency   *)
(* key of their own: claims are in ToolCall.                                *)
(***************************************************************************)
EXTENDS Integers, Sequences, SequencesExt, FiniteSetsExt

CONSTANTS
  Proc,         \* processes that drive the run
  Tool,         \* names of the agent's tools
  Effect,       \* Effect[t]: what tool t does to the world
  Outcomes,     \* Outcomes[t]: the kinds of outcome tool t may have
  Gate,         \* input_schemas a tool may suspend on
  Agents,       \* the agents to be driven, each with the model it talks to and its drivers
  Usage,        \* tokens of one model call
  Price,        \* cost of one token
  Bits,         \* random draws
  Nap           \* how long a tool's sleep lasts

\* The order in which first_crossing tests the budgets.
Order == <<"steps", "tokens", "cost_usd", "wall_time">>
Dims == ToSet(Order)

\* A resume input: the schema it fits, "" for none, and its `extend` object.
NoForm == ""
IsExtension(e) == DOMAIN e \subseteq Dims /\ \A d \in DOMAIN e : e[d] \in Nat
NoInput == [form |-> "none"]

Effects == {"Read", "Idempotent", "Write"}
OutcomeKinds == {"Output", "Failed", "Suspended", "Sleeping"}

ASSUME AgentLoopAssumption ==
  /\ Effect \in [Tool -> Effects]
  /\ Outcomes \in [Tool -> SUBSET OutcomeKinds]
  /\ \A a \in Agents : /\ a.structured \in BOOLEAN
                        /\ IsExtension(a.limits)
                        /\ <<>> \in a.responses
                        /\ a.drivers \subseteq Proc
                        /\ \A i \in a.inputs : i.form \in Gate \cup {NoForm} /\ IsExtension(i.extend)
                        /\ a.bounds \in [{"turns", "resumes", "marks", "crashes", "clock"} -> Nat]
  /\ NoForm \notin Gate
  /\ \A n \in {Usage, Price, Nap} : n \in Nat

VARIABLES
  agent,      \* the agent of this run
  log,        \* the run's log, a sequence of envelopes
  drive,      \* drive[p]: what the drive of process p knows
  report,     \* report[p]: what the last drive of p to return said, and of how much work
  clock,      \* the time
  accepted,   \* resumes accepted so far
  crashes     \* process deaths so far

vars == <<agent, log, drive, report, clock, accepted, crashes>>

Structured == agent.structured   \* whether it declares an output_schema
Limits == agent.limits           \* Limits[d]: its budget in each dimension d that has one
Inputs == agent.inputs           \* what its operators resume it with
Responses == agent.responses     \* what its model says: the names of the tools used, in order

\* The bounds on model calls, resumes accepted, redrives, process deaths and time.
MaxTurns == agent.bounds.turns
MaxResumes == agent.bounds.resumes
MaxMarks == agent.bounds.marks
MaxCrashes == agent.bounds.crashes
MaxClock == agent.bounds.clock

----------------------------------------------------------------------------
(* What a log says of its run.                                              *)

Unmarked(l) == SelectSeq(l, LAMBDA envelope : envelope.event.kind # "RunRedriven")

Status(kind) == [kind |-> kind]

\* Mutant: a redrive folds to running.
FoldMarked(status, event) ==
  CASE event.kind = "ModelCallRequested" -> Status("awaiting_model")
    [] event.kind = "ToolCallRequested" ->
         Status(IF Effect[event.tool] = "Write" THEN "needs_reconciliation" ELSE "awaiting_tool")
    [] event.kind \in {"NowObserved", "RandomObserved"} -> status
    [] event.kind = "Suspended" -> [kind |-> "suspended", gate |-> event.gate]
    [] event.kind = "SleepStarted" -> [kind |-> "sleeping", wake_at |-> event.wake_at]
    [] event.kind = "BudgetExceeded" ->
         [kind |-> "budget_exceeded", budget |-> event.budget, observed |-> event.observed]
    [] event.kind = "RunCompleted" -> [kind |-> "completed", output |-> event.output]
    [] event.kind = "RunAbandoned" -> Status("abandoned")
    [] OTHER -> Status("running")

Fold(status, event) ==
  CASE event.kind = "ModelCallRequested" -> Status("awaiting_model")
    [] event.kind = "ToolCallRequested" ->
         Status(IF Effect[event.tool] = "Write" THEN "needs_reconciliation" ELSE "awaiting_tool")
    [] event.kind \in {"NowObserved", "RandomObserved", "RunRedriven"} -> status
    [] event.kind = "Suspended" -> [kind |-> "suspended", gate |-> event.gate]
    [] event.kind = "SleepStarted" -> [kind |-> "sleeping", wake_at |-> event.wake_at]
    [] event.kind = "BudgetExceeded" ->
         [kind |-> "budget_exceeded", budget |-> event.budget, observed |-> event.observed]
    [] event.kind = "RunCompleted" -> [kind |-> "completed", output |-> event.output]
    [] event.kind = "RunAbandoned" -> Status("abandoned")
    [] OTHER -> Status("running")

DeriveState(l) ==
  FoldLeft(LAMBDA status, envelope : Fold(status, envelope.event), Status("not_started"), l)

Terminal(l) == DeriveState(l).kind \in {"completed", "abandoned"}

----------------------------------------------------------------------------
(* Budgets.                                                                 *)

NoExtension == [d \in Dims |-> 0]

\* Mutant: a granted dimension replaces what was granted before.
AbsorbLast(ext, input) ==
  [d \in Dims |-> IF d \in DOMAIN input.extend THEN input.extend[d] ELSE ext[d]]

Absorb(ext, input) ==
  [d \in Dims |-> IF d \in DOMAIN input.extend THEN ext[d] + input.extend[d] ELSE ext[d]]

\* Mutant: a budget is crossed only when it is exceeded.
CrossedLate(ext, seen) == {i \in 1..4 : Order[i] \in DOMAIN Limits
                                   /\ seen[Order[i]] > Limits[Order[i]] + ext[Order[i]]}

Crossed(ext, seen) == {i \in 1..4 : Order[i] \in DOMAIN Limits
                                   /\ seen[Order[i]] >= Limits[Order[i]] + ext[Order[i]]}

FirstCrossing(ext, seen) ==
  LET d == Order[Min(Crossed(ext, seen))] IN
  [kind |-> "BudgetExceeded", budget |-> d, limit |-> Limits[d] + ext[d], observed |-> seen[d]]

\* budget_observations: the same quantities, read off a log.
Counted == [steps |-> 0, tokens |-> 0, first |-> -1, last |-> -1, slept |-> 0, since |-> -1]

Count(seen, envelope) ==
  LET event == envelope.event IN
  CASE event.kind = "ModelCallCompleted" ->
         [seen EXCEPT !.steps = @ + 1, !.tokens = @ + event.usage]
    [] event.kind = "NowObserved" ->
         [seen EXCEPT !.first = IF @ = -1 THEN event.now ELSE @, !.last = event.now]
    [] event.kind = "SleepStarted" -> [seen EXCEPT !.since = envelope.recorded_at]
    [] event.kind = "SleepCompleted" ->
         [seen EXCEPT !.slept = @ + envelope.recorded_at - seen.since, !.since = -1]
    [] OTHER -> seen

BudgetObservations(l) ==
  LET seen == FoldLeft(Count, Counted, l)
      open == IF seen.since = -1 THEN 0 ELSE Max({0, seen.last - seen.since})
      elapsed == IF seen.first = -1 THEN 0
                 ELSE Max({0, seen.last - seen.first - seen.slept - open})
  IN [steps |-> seen.steps, tokens |-> seen.tokens,
      cost_usd |-> seen.tokens * Price, wall_time |-> elapsed]

\* budget_extensions: a Resumed absorbs when the very event before it is a crossing.
AnsweredCrossings(l) ==
  {i \in 2..Len(l) : l[i].event.kind = "Resumed" /\ l[i - 1].event.kind = "BudgetExceeded"}

Granted(l, d) ==
  MapThenSumSet(LAMBDA i : IF d \in DOMAIN l[i].event.input.extend
                             THEN l[i].event.input.extend[d] ELSE 0,
                AnsweredCrossings(l))

BudgetExtensionsOf(l) == [d \in Dims |-> Granted(l, d)]

----------------------------------------------------------------------------
(* A drive.  "read" is how much of the log it was given, "pos" how much of   *)
(* that, marks aside, the cursor has passed; "end" is next_live_seq.        *)

None == -1
NoStreak == [tool |-> "", message |-> "", count |-> 0]
NoOutcome == [kind |-> "none"]

Idle ==
  [pc |-> "idle", read |-> 0, pos |-> 0, end |-> 0, input |-> "", staged |-> NoInput,
   conv |-> <<>>, uses |-> <<>>, results |-> <<>>, output |-> "", outcome |-> NoOutcome,
   streak |-> NoStreak, at |-> None, key |-> None,
   steps |-> 0, tokens |-> 0, start |-> None, now |-> None, ext |-> NoExtension]

NothingSaid == [status |-> Status("none"), work |-> 0]

Init ==
  /\ agent \in Agents
  /\ log = <<>>
  /\ drive = [p \in Proc |-> Idle]
  /\ report = [p \in Proc |-> NothingSaid]
  /\ clock = 0
  /\ accepted = 0
  /\ crashes = 0

Become(p, d) == drive' = [drive EXCEPT ![p] = d]
NoReport == UNCHANGED report
Elsewhere == UNCHANGED <<agent, clock, accepted, crashes>>

\* The drive of p returns, having said status of the first n events.
Return(p, status, n) ==
  /\ Become(p, Idle)
  /\ report' = [report EXCEPT ![p] = [status |-> status, work |-> Len(Unmarked(SubSeq(log', 1, n)))]]

\* The cursor's log.
Copy(d) == Unmarked(SubSeq(log, 1, d.read))

Replaying(d) == d.pos < Len(Copy(d))
Recorded(d) == Copy(d)[d.pos + 1].event
NextRecorded(d) == Copy(d)[d.pos + 2].event

\* Mutant: the cursor steps over one event too many.
PassedTooFar(d, n) == [d EXCEPT !.pos = @ + n + 1]

Passed(d, n) == [d EXCEPT !.pos = @ + n]

\* A step that neither replays nor records.
Think(p, d) == Become(p, d) /\ UNCHANGED log /\ NoReport /\ Elsewhere

Stop(p, status) == UNCHANGED log /\ Return(p, status, drive[p].end) /\ Elsewhere

Diverge(p) == Stop(p, Status("diverged"))

\* persist: append at the drive's next position, stamped with the clock.
\* Only the ends of a sleep are read for their timestamps, and only they keep one.
Sleeps == {"SleepStarted", "SleepCompleted"}
Envelope(event) ==
  [event |-> event, recorded_at |-> IF event.kind \in Sleeps THEN clock ELSE 0]
Appends(p, event) == Len(log) = drive[p].end /\ log' = Append(log, Envelope(event))

\* Somebody else wrote there: the drive ends with the store's Conflict.
Conflicts(p) == Len(log) # drive[p].end /\ Become(p, Idle) /\ UNCHANGED log /\ NoReport

Persist(p, event, d) ==
  /\ \/ Appends(p, event) /\ Become(p, [d EXCEPT !.end = @ + 1]) /\ NoReport
     \/ Conflicts(p)
  /\ Elsewhere

\* A request that the log answers only with this very event.
Request(p, event, d) ==
  LET me == drive[p] IN
  \/ Replaying(me) /\ Recorded(me) = event /\ Think(p, Passed(d, 1))
  \/ Replaying(me) /\ Recorded(me) # event /\ Diverge(p)
  \/ ~Replaying(me) /\ Persist(p, event, d)

\* The recorded event at the cursor is not of this kind.
Mismatch(p, kind) ==
  Replaying(drive[p]) /\ Recorded(drive[p]).kind # kind /\ Diverge(p)

Meets(d, kind) == Replaying(d) /\ Recorded(d).kind = kind

----------------------------------------------------------------------------
(* The loop.                                                                *)

\* The run's head is there and the conversation opens with its input.
Opened(d, input) == [d EXCEPT !.pc = "now", !.conv = <<<<"input", input, 0>>>>]

Begin(p) ==
  LET me == drive[p]
      head == [kind |-> "RunStarted", input |-> me.input]
  IN
  /\ me.pc = "begin"
  /\ \/ Meets(me, "RunStarted") /\ Think(p, Passed(Opened(me, Recorded(me).input), 1))
     \/ Mismatch(p, "RunStarted")
     \/ ~Replaying(me) /\ Persist(p, head, Opened(me, me.input))

\* One reading of the clock per iteration; the first is the baseline.
Observed(d, t) ==
  [d EXCEPT !.pc = "budget", !.now = t, !.start = IF @ = None THEN t ELSE @]

ObserveNow(p) ==
  LET me == drive[p] IN
  /\ me.pc = "now"
  /\ \/ Meets(me, "NowObserved") /\ Think(p, Passed(Observed(me, Recorded(me).now), 1))
     \/ Mismatch(p, "NowObserved")
     \/ /\ ~Replaying(me)
        /\ Persist(p, [kind |-> "NowObserved", now |-> clock], Observed(me, clock))

\* Mutant: the wall time is read off the ambient clock.
ObservationsAmbient(d) ==
  [steps |-> d.steps, tokens |-> d.tokens, cost_usd |-> d.tokens * Price,
   wall_time |-> clock - d.start]

Observations(d) ==
  [steps |-> d.steps, tokens |-> d.tokens, cost_usd |-> d.tokens * Price,
   wall_time |-> d.now - d.start]

CheckBudget(p) ==
  LET me == drive[p]
      seen == Observations(me)
  IN
  /\ me.pc = "budget"
  /\ IF Crossed(me.ext, seen) = {}
       THEN Think(p, [me EXCEPT !.pc = "ask"])
       ELSE Request(p, FirstCrossing(me.ext, seen), [me EXCEPT !.pc = "gate"])

\* Mutant: an input for a tool's gate extends the budget too.
AnsweredAbsorbing(d, input) ==
  IF d.pc = "gate"
    THEN [d EXCEPT !.pc = "budget", !.ext = Absorb(@, input)]
    ELSE [d EXCEPT !.pc = "next", !.streak = NoStreak, !.uses = Tail(@),
                   !.results = Append(@, <<"resumed", input.form, 0>>),
                   !.ext = Absorb(@, input)]

\* The gate the drive waits at was answered.
Answered(d, input) ==
  IF d.pc = "gate"
    THEN [d EXCEPT !.pc = "budget", !.ext = Absorb(@, input)]
    ELSE [d EXCEPT !.pc = "next", !.streak = NoStreak, !.uses = Tail(@),
                   !.results = Append(@, <<"resumed", input.form, 0>>)]

\* Mutant: the staged input stays in hand.
Untaken(d) == d

Taken(d) == [d EXCEPT !.staged = NoInput]

\* The park the loop reports.
ParkReason(d) ==
  IF d.pc = "gate"
    THEN LET crossing == FirstCrossing(d.ext, Observations(d))
         IN [kind |-> "budget_exceeded", budget |-> crossing.budget, observed |-> crossing.observed]
    ELSE [kind |-> "suspended", gate |-> d.outcome.gate]

AwaitResume(p) ==
  LET me == drive[p] IN
  /\ me.pc \in {"gate", "answer"}
  /\ \/ Meets(me, "Resumed") /\ Think(p, Passed(Answered(me, Recorded(me).input), 1))
     \/ Mismatch(p, "Resumed")
     \/ /\ ~Replaying(me) /\ me.staged # NoInput
        /\ Persist(p, [kind |-> "Resumed", input |-> me.staged], Taken(Answered(me, me.staged)))
     \/ /\ ~Replaying(me) /\ me.staged = NoInput
        /\ Stop(p, ParkReason(me))

----------------------------------------------------------------------------
(* The model's turn.                                                        *)

\* What the model sees of a failure: the message, and from the second time in a
\* row a count of it.
Failing(streak, tool, message) ==
  [tool |-> tool, message |-> message,
   count |-> IF streak.tool = tool /\ streak.message = message THEN streak.count + 1 ELSE 1]

Content(streak) ==
  IF streak.count = 1 THEN <<"error", streak.message, 1>> ELSE <<"repeated", streak.tool, streak.count>>

Answers == {"answer", "misfit"}     \* salvor_answer, its input fitting output_schema or not

Said(uses) == <<"says", uses>>

\* Mutant: a turn that used no tool ends a structured run too.
TurnUnvalidated(d, uses, usage) ==
  LET heard == [d EXCEPT !.steps = @ + 1, !.tokens = @ + usage, !.conv = Append(@, Said(uses))] IN
  CASE uses = <<>> -> [heard EXCEPT !.pc = "complete", !.output = "text"]
    [] Structured /\ uses = <<"answer">> -> [heard EXCEPT !.pc = "complete", !.output = "answer"]
    [] OTHER -> [heard EXCEPT !.pc = "next", !.uses = uses, !.results = <<>>]

Turn(d, uses, usage) ==
  LET heard == [d EXCEPT !.steps = @ + 1, !.tokens = @ + usage, !.conv = Append(@, Said(uses))]
      missed == Failing(d.streak, "answer", "misfit")
  IN
  CASE uses = <<>> /\ ~Structured -> [heard EXCEPT !.pc = "complete", !.output = "text"]
    [] uses = <<>> /\ Structured -> [heard EXCEPT !.pc = "now", !.conv = Append(@, <<"reask", "", 0>>)]
    [] Structured /\ uses = <<"answer">> -> [heard EXCEPT !.pc = "complete", !.output = "answer"]
    [] Structured /\ uses = <<"misfit">> ->
         [heard EXCEPT !.pc = "now", !.streak = missed, !.conv = Append(@, Content(missed))]
    [] OTHER -> [heard EXCEPT !.pc = "next", !.uses = uses, !.results = <<>>]

\* A drive that asks for a call: the intent is written ahead, one that dangles
\* is issued again, and one that was answered is not issued at all.
Issue(p, event, pc) ==
  LET me == drive[p] IN
  ~Replaying(me) /\ Persist(p, [event EXCEPT !.seq = me.end], [me EXCEPT !.pc = pc, !.at = me.end])

SameRequest(d, event) == Replaying(d) /\ Recorded(d) = [event EXCEPT !.seq = Recorded(d).seq]

LastOfCopy(d) == d.pos + 1 = Len(Copy(d))

Completes(d, kind) == NextRecorded(d).kind = kind /\ NextRecorded(d).seq = Recorded(d).seq

\* The cursor meets another request, or an intent whose next event is not its
\* completion (MalformedLog).
Misplaced(p, event, kind) ==
  LET me == drive[p] IN
  /\ Replaying(me)
  /\ \/ Recorded(me).kind # event.kind
     \/ Recorded(me).kind = event.kind /\ ~SameRequest(me, event)
     \/ Recorded(me).kind = event.kind /\ SameRequest(me, event)
        /\ ~LastOfCopy(me) /\ ~Completes(me, kind)
  /\ Diverge(p)

Repeats(d, event) == Recorded(d).kind = event.kind /\ SameRequest(d, event)

\* request_hash is a hash of the whole conversation.
AskModel(p) ==
  LET me == drive[p]
      request == [kind |-> "ModelCallRequested", seq |-> None, request_hash |-> me.conv]
  IN
  /\ me.pc = "ask"
  /\ \/ Issue(p, request, "model")
     \/ /\ Replaying(me) /\ Repeats(me, request) /\ LastOfCopy(me)
        /\ Think(p, Passed([me EXCEPT !.pc = "model", !.at = Recorded(me).seq], 1))
     \/ /\ Replaying(me) /\ Repeats(me, request)
        /\ ~LastOfCopy(me) /\ Completes(me, "ModelCallCompleted")
        /\ Think(p, Passed(Turn(me, NextRecorded(me).response, NextRecorded(me).usage), 2))
     \/ Misplaced(p, request, "ModelCallCompleted")

\* The bounds end the run at its last turn.
MaySay(d, uses) ==
  d.steps + 1 < MaxTurns \/ (IF Structured THEN uses = <<"answer">> ELSE uses = <<>>)

\* The provider answers, or the call fails and the drive ends with its error.
AnswerModel(p) ==
  LET me == drive[p] IN
  /\ me.pc = "model"
  /\ \/ \E uses \in Responses :
          /\ MaySay(me, uses)
          /\ Persist(p, [kind |-> "ModelCallCompleted", seq |-> me.at,
                         response |-> uses, usage |-> Usage],
                     Turn(me, uses, Usage))
     \/ Become(p, Idle) /\ UNCHANGED log /\ NoReport /\ Elsewhere

----------------------------------------------------------------------------
(* Tools.                                                                   *)

\* The result of the use in hand, and on to the next one.
Resulting(d, block) ==
  [d EXCEPT !.pc = "next", !.uses = Tail(@), !.results = Append(@, block)]

NextUse(p) ==
  LET me == drive[p]
      name == Head(me.uses)
  IN
  /\ me.pc = "next"
  /\ \/ /\ me.uses = <<>>
        /\ Think(p, [me EXCEPT !.pc = "now", !.conv = @ \o me.results])
     \/ /\ me.uses # <<>> /\ name \notin Tool
        /\ Think(p, Resulting(me, IF Structured /\ name \in Answers
                                    THEN <<"not alone", "", 0>> ELSE <<"unknown", name, 0>>))
     \/ /\ me.uses # <<>> /\ name \in Tool
        /\ Think(p, [me EXCEPT !.key = None,
                               !.pc = IF Effect[name] = "Idempotent" THEN "random" ELSE "call"])

\* The key of an Idempotent call.
DrawKey(p) ==
  LET me == drive[p] IN
  /\ me.pc = "random"
  /\ \/ /\ Meets(me, "RandomObserved")
        /\ Think(p, Passed([me EXCEPT !.pc = "call", !.key = Recorded(me).value], 1))
     \/ Mismatch(p, "RandomObserved")
     \/ /\ ~Replaying(me)
        /\ \E b \in Bits : Persist(p, [kind |-> "RandomObserved", value |-> b],
                                   [me EXCEPT !.pc = "call", !.key = b])

\* What the loop makes of a call's outcome.
Settled(d, outcome) ==
  LET tool == Head(d.uses)
      failing == Failing(d.streak, tool, outcome.kind)
  IN
  CASE outcome.kind = "Output" ->
         [Resulting(d, <<"result", tool, 0>>) EXCEPT !.streak = NoStreak]
    [] outcome.kind = "Failed" -> [Resulting(d, Content(failing)) EXCEPT !.streak = failing]
    [] outcome.kind = "Suspended" -> [d EXCEPT !.pc = "suspend", !.outcome = outcome]
    [] outcome.kind = "Sleeping" -> [d EXCEPT !.pc = "sleep", !.outcome = outcome]

ToolRequest(d) ==
  [kind |-> "ToolCallRequested", seq |-> None, tool |-> Head(d.uses), key |-> d.key]

AskTool(p) ==
  LET me == drive[p]
      request == ToolRequest(me)
      dangles == Replaying(me) /\ Repeats(me, request) /\ LastOfCopy(me)
  IN
  /\ me.pc = "call"
  /\ \/ Issue(p, request, "run")
     \/ /\ dangles /\ Effect[request.tool] = "Write"
        /\ Stop(p, Status("needs_reconciliation"))
     \/ /\ dangles /\ Effect[request.tool] # "Write"
        /\ Think(p, Passed([me EXCEPT !.pc = "run", !.at = Recorded(me).seq], 1))
     \/ /\ Replaying(me) /\ Repeats(me, request)
        /\ ~LastOfCopy(me) /\ Completes(me, "ToolCallCompleted")
        /\ Think(p, Passed(Settled(me, NextRecorded(me).output), 2))
     \/ Misplaced(p, request, "ToolCallCompleted")

\* What tool t may hand back, its attempts over.
OutcomesOf(t) ==
  {[kind |-> k] : k \in Outcomes[t] \cap {"Output", "Failed"}}
    \cup {[kind |-> "Suspended", gate |-> g] : g \in {g \in Gate : "Suspended" \in Outcomes[t]}}
    \cup {[kind |-> "Sleeping", wake_at |-> w] :
            w \in {w \in {clock + Nap} : "Sleeping" \in Outcomes[t] /\ w <= MaxClock}}

RunTool(p) ==
  LET me == drive[p] IN
  /\ me.pc = "run"
  /\ \E outcome \in OutcomesOf(Head(me.uses)) :
       Persist(p, [kind |-> "ToolCallCompleted", seq |-> me.at, output |-> outcome],
               Settled(me, outcome))

Suspend(p) ==
  LET me == drive[p] IN
  /\ me.pc = "suspend"
  /\ Request(p, [kind |-> "Suspended", gate |-> me.outcome.gate], [me EXCEPT !.pc = "answer"])

SleepUntil(p) ==
  LET me == drive[p] IN
  /\ me.pc = "sleep"
  /\ Request(p, [kind |-> "SleepStarted", wake_at |-> me.outcome.wake_at], [me EXCEPT !.pc = "wake"])

Woken(d) ==
  [Resulting(d, <<"slept", "", d.outcome.wake_at>>) EXCEPT !.streak = NoStreak]

\* Mutant: whoever drives a sleeping run wakes it.
DueAlways(d) == TRUE

Due(d) == clock >= d.outcome.wake_at

AwaitWake(p) ==
  LET me == drive[p] IN
  /\ me.pc = "wake"
  /\ \/ Meets(me, "SleepCompleted") /\ Think(p, Passed(Woken(me), 1))
     \/ Mismatch(p, "SleepCompleted")
     \/ ~Replaying(me) /\ Due(me) /\ Persist(p, [kind |-> "SleepCompleted"], Woken(me))
     \/ /\ ~Replaying(me) /\ ~Due(me)
        /\ Stop(p, [kind |-> "sleeping", wake_at |-> me.outcome.wake_at])

\* complete_run, and the drive returns.
Complete(p) ==
  LET me == drive[p]
      event == [kind |-> "RunCompleted", output |-> me.output]
      status == [kind |-> "completed", output |-> me.output]
  IN
  /\ me.pc = "complete"
  /\ \/ Replaying(me) /\ Recorded(me) = event /\ Stop(p, status)
     \/ Replaying(me) /\ Recorded(me) # event /\ Diverge(p)
     \/ ~Replaying(me) /\ Appends(p, event) /\ Return(p, status, me.end + 1) /\ Elsewhere
     \/ ~Replaying(me) /\ Conflicts(p) /\ Elsewhere

----------------------------------------------------------------------------
(* The verbs.                                                               *)

Driving(input, staged) ==
  [Idle EXCEPT !.pc = "begin", !.read = Len(log), !.end = Len(log),
               !.input = input, !.staged = staged]

\* A drive begins over the log as it is read.
Begins(p, d) ==
  /\ Become(p, d)
  /\ report' = [report EXCEPT ![p] = NothingSaid]
  /\ UNCHANGED <<agent, log, clock, crashes>>

Start(p) ==
  /\ drive[p].pc = "idle" /\ log = <<>>
  /\ Begins(p, Driving("task", NoInput)) /\ UNCHANGED accepted

\* Runtime::recover.  Its callers do not recover an abandoned run.
Recover(p) ==
  /\ drive[p].pc = "idle" /\ log # <<>>
  /\ DeriveState(log).kind # "abandoned"
  /\ Begins(p, Driving("null", NoInput)) /\ UNCHANGED accepted

\* validate_against_schema and validate_extension_input.
Fits(status, input) ==
  \/ status.kind = "suspended" /\ input.form = status.gate
  \/ status.kind = "budget_exceeded" /\ input.form = NoForm

Resume(p, input) ==
  /\ drive[p].pc = "idle" /\ accepted < MaxResumes
  /\ Fits(DeriveState(log), input)
  /\ accepted' = accepted + 1
  /\ Begins(p, Driving("null", input))

\* An operator's append at the log's end.
Operator(event) ==
  /\ log' = Append(log, Envelope(event))
  /\ UNCHANGED drive /\ NoReport /\ Elsewhere

RecordRedrive ==
  /\ log # <<>> /\ ~Terminal(log)
  /\ Len(log) - Len(Unmarked(log)) < MaxMarks
  /\ Operator([kind |-> "RunRedriven"])

Resolve ==
  /\ DeriveState(log).kind = "needs_reconciliation"
  /\ Operator([kind |-> "ToolCallCompleted", output |-> [kind |-> "Output"],
               seq |-> Unmarked(log)[Len(Unmarked(log))].event.seq])

Abandon ==
  /\ log # <<>> /\ ~Terminal(log)
  /\ Operator([kind |-> "RunAbandoned"])

Crash(p) ==
  /\ drive[p].pc # "idle" /\ crashes < MaxCrashes
  /\ Become(p, Idle)
  /\ crashes' = crashes + 1
  /\ UNCHANGED <<agent, log, clock, accepted>> /\ NoReport

Tick ==
  /\ clock < MaxClock
  /\ clock' = clock + 1
  /\ UNCHANGED <<agent, log, drive, report, accepted, crashes>>

Drive(p) ==
  \/ Begin(p) \/ ObserveNow(p) \/ CheckBudget(p) \/ AwaitResume(p)
  \/ AskModel(p) \/ AnswerModel(p)
  \/ NextUse(p) \/ DrawKey(p) \/ AskTool(p) \/ RunTool(p)
  \/ Suspend(p) \/ SleepUntil(p) \/ AwaitWake(p) \/ Complete(p)

Next ==
  \/ \E p \in agent.drivers :
       Drive(p) \/ Start(p) \/ Recover(p) \/ Crash(p) \/ \E i \in Inputs : Resume(p, i)
  \/ RecordRedrive \/ Resolve \/ Abandon \/ Tick

Spec == Init /\ [][Next]_vars

----------------------------------------------------------------------------
(* Properties.                                                              *)

Event ==
  [kind : {"RunStarted"}, input : {"task"}]
    \cup [kind : {"NowObserved"}, now : 0..MaxClock]
    \cup [kind : {"RandomObserved"}, value : Bits]
    \cup [kind : {"ModelCallCompleted"}, seq : Nat, response : Responses, usage : {Usage}]
    \cup [kind : {"ToolCallRequested"}, seq : Nat, tool : Tool, key : Bits \cup {None}]
    \cup [kind : {"Suspended"}, gate : Gate]
    \cup [kind : {"Resumed"}, input : Inputs]
    \cup [kind : {"SleepStarted"}, wake_at : 0..MaxClock]
    \cup [kind : {"BudgetExceeded"}, budget : DOMAIN Limits, limit : Nat, observed : Nat]
    \cup [kind : {"RunCompleted"}, output : {"text", "answer"}]
    \cup [kind : {"SleepCompleted", "RunRedriven", "RunAbandoned"}]

\* Every event is of the wire's kinds with that kind's payload, and a drive never
\* stands past the copy of the log it was given, nor counts more turns than there are.
TypeOK ==
  /\ \A i \in 1..Len(log) :
       /\ log[i].recorded_at \in 0..clock
       /\ \/ log[i].event.kind \in {"ModelCallRequested", "ToolCallCompleted"}
             /\ log[i].event.seq \in 0..i - 1
          \/ log[i].event \in Event
  /\ \A p \in Proc :
       /\ drive[p].pos <= Len(Copy(drive[p]))
       /\ drive[p].end <= Len(log)
       /\ drive[p].steps <= MaxTurns
       /\ drive[p].ext \in [Dims -> Nat]
  /\ clock \in 0..MaxClock /\ accepted \in 0..MaxResumes /\ crashes \in 0..MaxCrashes

\* Whatever was recorded by drives that failed, raced, parked, slept or were
\* resumed, with redrive marks and an operator's completion anywhere between, the
\* loop's next drive asks the cursor for exactly that: it never diverges and never
\* finds a call without its completion (replay.rs, module docs).
NeverDiverges == \A p \in Proc : report[p].status.kind # "diverged"

\* What a drive says of the run when it returns is what derive_state says of the
\* log it leaves (runtime.rs, RunOutcome), for as long as nothing else is recorded.
ReportAgrees ==
  \A p \in Proc :
    report[p].status.kind # "none" /\ report[p].work = Len(Unmarked(log))
      => report[p].status = DeriveState(log)

\* A drive at the log's end, its checks passed.
AtTheEdge(p) ==
  drive[p].pc = "ask" /\ ~Replaying(drive[p]) /\ drive[p].end = Len(log)

NeverSlept == \A i \in 1..Len(log) : log[i].event.kind # "SleepStarted"

MarkAtAGate ==
  \E i \in 1..Len(log) : log[i].event.kind = "RunRedriven" /\ i < Len(log)
                          /\ DeriveState(SubSeq(log, 1, i)).kind = "budget_exceeded"

\* A reader that has the log alone computes the observations and extensions the
\* loop goes by (budgets.rs, budget_observations and budget_extensions): steps,
\* tokens and cost always, wall time as long as the run never slept, extensions
\* as long as no redrive was recorded at a budget gate.
ReaderAgrees ==
  \A p \in Proc : AtTheEdge(p) =>
    LET seen == BudgetObservations(log)
        loop == Observations(drive[p])
    IN /\ \A d \in {"steps", "tokens", "cost_usd"} : seen[d] = loop[d]
       /\ NeverSlept => seen.wall_time = loop.wall_time
       /\ ~MarkAtAGate => BudgetExtensionsOf(log) = drive[p].ext

\* The extensions an operator granted at budget gates, whatever else was recorded.
GrantedSteps ==
  LET work == Unmarked(log) IN Granted(work, "steps")

\* The run never makes a model call that its declared steps and what was granted
\* at its budget gates do not cover, over all its drives together (budgets.rs).
StepsAreGranted ==
  "steps" \in DOMAIN Limits =>
    Cardinality({i \in 1..Len(log) : log[i].event.kind = "ModelCallRequested"})
      <= Limits["steps"] + GrantedSteps

\* A parked run goes on by what it waited for, however often it is driven.  One
\* accepted resume answers one gate, the one it was checked against: a crossing right
\* after it is not answered by the same input again.  A sleep lasts until its instant.
GoesOnAsAwaited ==
  /\ Cardinality({i \in 1..Len(log) : log[i].event.kind = "Resumed"}) <= accepted
  /\ \A i \in 1..Len(log) :
       LET parked == DeriveState(SubSeq(log, 1, i - 1)) IN
       /\ log[i].event.kind = "Resumed" => Fits(parked, log[i].event.input)
       /\ log[i].event.kind = "SleepCompleted" => parked.wake_at <= log[i].recorded_at

\* A run that declares an output_schema ends with an answer that fits it, given
\* alone in the turn before its end.
EndsAsDeclared ==
  DeriveState(log).kind = "completed" =>
    LET turns == SelectSeq(log, LAMBDA e : e.event.kind = "ModelCallCompleted")
        last == turns[Len(turns)].event.response
    IN last = IF Structured THEN <<"answer">> ELSE <<>>

\* What the module docs of budgets.rs say of wall time: a span asleep on a durable
\* timer is not part of it.
WallExcludesSleep ==
  \A p \in Proc : AtTheEdge(p) =>
    Observations(drive[p]).wall_time = BudgetObservations(log).wall_time

=============================================================================
