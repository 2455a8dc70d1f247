---------------------------- MODULE GraphEngine ----------------------------
(***************************************************************************)
(* Graph runs: salvor-engine walks a document over the log of its run       *)
(* (lib.rs, run_graph), the server or the command line starts, resumes,     *)
(* redrives and forks it (graph.rs, commands.rs, fork.rs), and salvor-replay *)
(* reads it back (graph_state.rs).  An author edits the document first.     *)
(*                                                                          *)
(* A drive asks the cursor for one step after another, as in AgentLoop.      *)
(* Here an agent is one model call, tools have no claims, and a run has     *)
(* one document.  A schema is the set of the values that conform to it.     *)
(***************************************************************************)
EXTENDS GraphEditor

CONSTANTS
  Proc,       \* processes that drive runs
  Scenario    \* Scenario[s]: a document, the edits to it, its tools and agents, what it is
              \* given, the processes that are servers or commands, the bounds

VARIABLES
  scenario,   \* the scenario of this behaviour
  author,     \* the author's editor, and the file written from it
  stored,     \* the servers whose registry holds the document
  log,        \* log[r]: the log of run r
  drive,      \* drive[p]: what process p is doing
  fork,       \* the fork of the origin: what was shown of it and what it copies
  world,      \* writes executed, in order
  clock,      \* the time
  crashes     \* process deaths so far

vars == <<scenario, author, stored, log, drive, fork, world, clock, crashes>>

Run == {"origin", "child"}

Here == Scenario[scenario]
Document == author.written

\* The bounds on redrives, process deaths, time and edits.
MaxMarks == Here.bounds.marks
MaxCrashes == Here.bounds.crashes
MaxClock == Here.bounds.clock
MaxEdits == Here.bounds.edits

Bodies == BodyTargets(Document)
Named(id) == NodeOf(Document, id)

Effect(tool) == Here.tools[tool].effect

ASSUME GraphEngineAssumption ==
  \A s \in DOMAIN Scenario :
    /\ Scenario[s].servers \cup Scenario[s].commands \subseteq Proc
    /\ Scenario[s].servers \cap Scenario[s].commands = {}
    /\ Scenario[s].bounds \in [{"marks", "crashes", "clock", "edits"} -> Nat]
    /\ \A t \in DOMAIN Scenario[s].tools :
         Scenario[s].tools[t].effect \in {"Read", "Idempotent", "Write"}

----------------------------------------------------------------------------
(* What a log says of its run.                                              *)

Unmarked(l) == SelectSeq(l, LAMBDA event : event.kind # "RunRedriven")
Marks(l) == Len(l) - Len(Unmarked(l))

Status(kind) == [kind |-> kind]

\* The markers of the walk change no status.
Fold(status, event) ==
  CASE event.kind = "ModelCallRequested" -> Status("awaiting_model")
    [] event.kind = "ToolCallRequested" ->
         Status(IF Effect(event.tool) = "Write" THEN "needs_reconciliation" ELSE "awaiting_tool")
    [] event.kind = "Suspended" -> [kind |-> "suspended", schema |-> event.schema]
    [] event.kind = "SleepStarted" -> [kind |-> "sleeping", wake_at |-> event.wake_at]
    [] event.kind = "RunCompleted" -> Status("completed")
    [] event.kind = "RunFailed" -> Status("failed")
    [] event.kind \in {"GraphRunStarted", "ModelCallCompleted", "ToolCallCompleted",
                       "Resumed", "SleepCompleted"} -> Status("running")
    [] OTHER -> status

DeriveState(l) == FoldLeft(Fold, Status("not_started"), l)

\* derive_graph_projection: what the canvas shows.
Unseen == [current |-> NoNode, state |-> <<>>, fired |-> <<>>, joined |-> <<>>]

Put(f, x, y) == (x :> y) @@ f

\* Mutant: a node that is exited stays the current one.
ProjectLingering(seen, event) ==
  CASE event.kind = "NodeEntered" ->
         [seen EXCEPT !.current = event.node, !.state = Put(@, event.node, "entered")]
    [] event.kind = "NodeExited" -> [seen EXCEPT !.state = Put(@, event.node, "exited")]
    [] event.kind = "NodeSkipped" -> [seen EXCEPT !.state = Put(@, event.node, "skipped")]
    [] event.kind = "BranchTaken" -> [seen EXCEPT !.fired = Put(@, event.node, event.case)]
    [] OTHER -> seen

Project(seen, event) ==
  CASE event.kind = "NodeEntered" ->
         [seen EXCEPT !.current = event.node, !.state = Put(@, event.node, "entered")]
    [] event.kind = "NodeExited" ->
         [seen EXCEPT !.state = Put(@, event.node, "exited"),
                      !.current = IF @ = event.node THEN NoNode ELSE @]
    [] event.kind = "NodeSkipped" -> [seen EXCEPT !.state = Put(@, event.node, "skipped")]
    [] event.kind = "BranchTaken" -> [seen EXCEPT !.fired = Put(@, event.node, event.case)]
    [] event.kind = "IterationStarted" ->
         [seen EXCEPT !.joined =
            Put(@, event.node,
                IF event.node \in DOMAIN @ THEN Append(@[event.node], FALSE) ELSE <<FALSE>>)]
    [] event.kind = "IterationJoined" ->
         [seen EXCEPT !.joined[event.node][event.index + 1] = TRUE]
    [] OTHER -> seen

Projection(l) == FoldLeft(Project, Unseen, l)

----------------------------------------------------------------------------
(* A drive and its cursor.                                                  *)

None == -1
NoInput == Missing

\* What a walk works on at one node.
NoWork == [value |-> Missing, items |-> <<>>, passes |-> <<>>, outcome |-> Missing,
           result |-> Missing]

\* "read" is how much of the log it was given, "pos" how much of that, marks aside,
\* it has passed; "end" is next_seq; "at" the intent it is waiting for.
Idle ==
  [pc |-> "idle", run |-> "origin", input |-> NoInput, staged |-> NoInput,
   read |-> 0, pos |-> 0, end |-> 0, at |-> None, now |-> None, error |-> "",
   order |-> <<>>, walk |-> 1, outputs |-> <<>>, skipped |-> {}, fired |-> <<>>, last |-> Missing,
   work |-> NoWork]

\* salvor graph edit FILE reads the file first.
Opening(g) == FromHistory(<<Read(g)>>)

NoFork == [shown |-> {}, planned |-> 0, from |-> NoNode, through |-> None,
           acknowledged |-> {}, prefix |-> <<>>, whole |-> FALSE]

Init ==
  /\ scenario \in DOMAIN Scenario
  /\ author = [open |-> Here.edits # {}, written |-> Here.document,
               editor |-> IF Here.edits = {} THEN NewEditor ELSE Opening(Here.document)]
  /\ stored = {}
  /\ log = [r \in Run |-> <<>>]
  /\ drive = [p \in Proc |-> Idle]
  /\ fork = NoFork
  /\ world = <<>>
  /\ clock = 0
  /\ crashes = 0

Become(p, d) == drive' = [drive EXCEPT ![p] = d]
Elsewhere == UNCHANGED <<scenario, author, stored, fork, clock, crashes>>

Copy(d) == Unmarked(SubSeq(log[d.run], 1, d.read))
Replaying(d) == d.pos < Len(Copy(d))
Recorded(d) == Copy(d)[d.pos + 1]
NextRecorded(d) == Copy(d)[d.pos + 2]
\* Mutant: the cursor steps over one event too many.
PassedTooFar(d, n) == [d EXCEPT !.pos = @ + n + 1]

Passed(d, n) == [d EXCEPT !.pos = @ + n]

Think(p, d) == Become(p, d) /\ UNCHANGED <<log, world>> /\ Elsewhere
Stop(p) == Think(p, Idle)

\* The cursor refuses what the drive asks for.
Diverge(p) == Think(p, [Idle EXCEPT !.pc = "diverged"])

\* persist: at the position the drive holds to be the next; a Conflict ends it.
Persist(p, event, d) ==
  LET me == drive[p] IN
  /\ \/ /\ Len(log[me.run]) = me.end
        /\ log' = [log EXCEPT ![me.run] = Append(@, event)]
        /\ Become(p, IF d = Idle THEN Idle ELSE [d EXCEPT !.end = @ + 1])
     \/ /\ Len(log[me.run]) # me.end
        /\ Become(p, Idle) /\ UNCHANGED log
  /\ UNCHANGED world /\ Elsewhere

Meets(d, kind) == Replaying(d) /\ Recorded(d).kind = kind
Mismatch(p, kind) ==
  Replaying(drive[p]) /\ Recorded(drive[p]).kind # kind /\ Diverge(p)

\* A step that the log answers only with this very event.
Request(p, event, d) ==
  LET me == drive[p] IN
  \/ Replaying(me) /\ Recorded(me) = event
     /\ Think(p, IF d = Idle THEN Idle ELSE Passed(d, 1))
  \/ Replaying(me) /\ Recorded(me) # event /\ Diverge(p)
  \/ ~Replaying(me) /\ Persist(p, event, d)

----------------------------------------------------------------------------
(* The walk.                                                                *)

\* Begin: the recorded input wins.  The document is parsed and ordered only then.
Opened(d, input) ==
  [d EXCEPT !.last = input, !.input = input,
            !.pc = IF Walkable(Document) THEN "walk" ELSE "refuse",
            !.order = IF Walkable(Document) THEN WalkOrder(Document) ELSE <<>>,
            !.error = IF Walkable(Document) THEN "" ELSE "MalformedGraph"]

Begin(p) ==
  LET me == drive[p] IN
  /\ me.pc = "begin"
  /\ \/ Meets(me, "GraphRunStarted") /\ Think(p, Passed(Opened(me, Recorded(me).input), 1))
     \/ Mismatch(p, "GraphRunStarted")
     \/ /\ ~Replaying(me)
        /\ Persist(p, [kind |-> "GraphRunStarted", input |-> me.input], Opened(me, me.input))

Walked(d) == Named(d.order[d.walk])
IsLoop(node) == node.kind \in {"map", "fold"}

\* Mutant: a source that was skipped still feeds its edges.
IsLiveAlways(d, e) ==
  LET source == Named(e.from) IN
  source.kind = "branch" /\ e.from \in DOMAIN d.fired => d.fired[e.from] = e.label

\* An edge carries a value when its source was not skipped and, from a branch,
\* when it is the edge of the case that fired.
IsLiveInbound(d, e) ==
  LET source == Named(e.from) IN
  /\ e.from \notin d.skipped
  /\ source.kind = "branch" => e.from \in DOMAIN d.fired /\ d.fired[e.from] = e.label

Live(d, id) == {e \in Inbound(Document, id) : IsLiveInbound(d, e)}
RoutedPast(d, id) == Inbound(Document, id) # {} /\ Live(d, id) = {}

SelectInput(d, id) ==
  IF Inbound(Document, id) = {} THEN d.input
  ELSE LET from == Min({e.from : e \in Live(d, id)})
       IN IF from \in DOMAIN d.outputs THEN d.outputs[from] ELSE Null

\* The first expression case that holds, in the author's order; 0 when none does.
FirstCase(branch, value) ==
  LET holds == {i \in 1..Len(branch.cases) :
                  branch.cases[i].when = ByModel \/ Eval(branch.cases[i].when, value)}
  IN IF holds = {} THEN 0 ELSE Min(holds)

ChooseCase(branch, value) == branch.cases[FirstCase(branch, value)].name

\* What is refused before a node is entered.
RefusedBranch(node, value) ==
  LET i == FirstCase(node, value) IN
  IF node.agent # NoAgent THEN ""
  ELSE IF i = 0 THEN "NoBranchCaseMatched"
  ELSE IF node.cases[i].when = ByModel THEN "MalformedGraph" ELSE ""

Works(node) == node.body # Subgraph /\ Named(node.body).kind \in {"agent", "tool"}

RefusedMap(node, value) ==
  IF ~Works(node) THEN "UnsupportedMapBody"
  ELSE IF node.over = Garbled THEN "MalformedGraph"
  ELSE IF IsA(ResolvePath(node.over, value), "list") THEN "" ELSE "MapOverNotAList"

RefusedFold(node) ==
  IF ~Works(node) THEN "UnsupportedFoldBody"
  ELSE IF node.max_iterations < 1 THEN "MalformedGraph" ELSE ""

Refusal(node, value) ==
  CASE node.kind = "branch" -> RefusedBranch(node, value)
    [] node.kind = "map" -> RefusedMap(node, value)
    [] node.kind = "fold" -> RefusedFold(node)
    [] node.kind = "delay" -> IF node.seconds < 1 THEN "MalformedGraph" ELSE ""
    [] OTHER -> ""

Refused(d, error) == [d EXCEPT !.pc = "refuse", !.error = error]

\* A node is entered with the value routed to it.
Entered(d, node, value) ==
  [d EXCEPT
     !.work = [NoWork EXCEPT !.value = value],
     !.pc = CASE node.kind = "agent" -> "ask"
              [] node.kind = "tool" -> "call"
              [] node.kind = "gate" -> "suspend"
              [] node.kind = "delay" -> "now"
              [] node.kind = "map" -> "fan"
              [] node.kind = "fold" -> "start"
              [] node.kind = "branch" -> IF node.agent = NoAgent THEN "take" ELSE "ask"]

Walk(p) ==
  LET me == drive[p]
      node == Walked(me)
      value == SelectInput(me, node.id)
      on == [me EXCEPT !.walk = @ + 1]
  IN
  /\ me.pc = "walk"
  /\ \/ me.walk > Len(me.order) /\ Think(p, [me EXCEPT !.pc = "complete"])
     \/ /\ me.walk <= Len(me.order) /\ node.id \in Bodies
        /\ Think(p, on)
     \/ /\ me.walk <= Len(me.order) /\ node.id \notin Bodies
        /\ RoutedPast(me, node.id)
        /\ Request(p, [kind |-> "NodeSkipped", node |-> node.id],
                   [on EXCEPT !.skipped = @ \cup {node.id}])
     \/ /\ me.walk <= Len(me.order) /\ node.id \notin Bodies
        /\ ~RoutedPast(me, node.id)
        /\ IF Refusal(node, value) # "" THEN Think(p, Refused(me, Refusal(node, value)))
           ELSE Request(p, [kind |-> "NodeEntered", node |-> node.id], Entered(me, node, value))

\* node_exited: the node's output is there for the edges out of it.
Exited(d) ==
  LET result == d.work.result IN
  [d EXCEPT !.pc = "walk", !.walk = @ + 1, !.last = result, !.work = NoWork, !.now = None,
            !.outputs = Put(@, Walked(d).id, result)]

Exit(p) ==
  LET me == drive[p] IN
  /\ me.pc = "exit"
  /\ Request(p, [kind |-> "NodeExited", node |-> Walked(me).id], Exited(me))

Complete(p) ==
  LET me == drive[p] IN
  /\ me.pc = "complete"
  /\ Request(p, [kind |-> "RunCompleted", output |-> me.last], Idle)

\* record_permanent_refusal: every refusal of the walk itself is a function of
\* the document and the log.
Refuse(p) ==
  LET me == drive[p] IN
  /\ me.pc = "refuse"
  /\ Request(p, [kind |-> "RunFailed", error |-> me.error], Idle)

----------------------------------------------------------------------------
(* A body's work: a node's own, or one iteration of a map or a fold.          *)

\* unwrap_pass_output: the payload of an MCP result that has one.
Unwrap(value) ==
  IF IsA(value, "object") /\ {"content", "structuredContent"} \subseteq DOMAIN value.object
       /\ IsA(value.object["content"], "list")
    THEN value.object["structuredContent"] ELSE value

Worker(d) == IF IsLoop(Walked(d)) THEN Named(Walked(d).body) ELSE Walked(d)
CallIndex(d) == Len(d.work.passes)

WorkInput(d) ==
  CASE Walked(d).kind = "map" -> d.work.items[CallIndex(d) + 1]
    [] Walked(d).kind = "fold" ->
         IF d.work.passes = <<>> THEN Unwrap(d.work.value) ELSE Last(d.work.passes)
    [] OTHER -> d.work.value

\* The work produced a value.  A branch's agent has named a case.
Produced(d, value) ==
  LET owner == Walked(d) IN
  CASE owner.kind = "map" -> [d EXCEPT !.pc = "join", !.at = None, !.work.outcome = Missing,
                                       !.work.passes = Append(@, value)]
    [] owner.kind = "fold" -> [d EXCEPT !.pc = "join", !.at = None, !.work.outcome = Missing,
                                        !.work.passes = Append(@, Unwrap(value))]
    [] owner.kind = "branch" -> [d EXCEPT !.pc = "take", !.at = None, !.work.outcome = value]
    [] OTHER -> [d EXCEPT !.pc = "exit", !.at = None, !.work.outcome = Missing,
                          !.work.result = value]

\* A call's intent is written ahead with its own position as its correlation.
Issue(p, event, pc) ==
  LET me == drive[p] IN
  ~Replaying(me) /\ Persist(p, [event EXCEPT !.seq = me.end], [me EXCEPT !.pc = pc, !.at = me.end])

Repeats(d, event) == Replaying(d) /\ Recorded(d) = [event EXCEPT !.seq = Recorded(d).seq]
Asked(d, event) == Meets(d, event.kind) /\ Repeats(d, event)
LastOfCopy(d) == d.pos + 1 = Len(Copy(d))
Completes(d, kind) == NextRecorded(d).kind = kind /\ NextRecorded(d).seq = Recorded(d).seq

Misplaced(p, event, kind) ==
  LET me == drive[p] IN
  /\ Replaying(me)
  /\ \/ Recorded(me).kind # event.kind
     \/ Recorded(me).kind = event.kind /\ ~Repeats(me, event)
     \/ Asked(me, event) /\ ~LastOfCopy(me) /\ ~Completes(me, kind)
  /\ Diverge(p)

AskModel(p) ==
  LET me == drive[p]
      request == [kind |-> "ModelCallRequested", seq |-> None,
                  agent |-> Worker(me).agent, input |-> WorkInput(me)]
  IN
  /\ me.pc = "ask"
  /\ \/ Issue(p, request, "model")
     \/ /\ Asked(me, request) /\ LastOfCopy(me)
        /\ Think(p, Passed([me EXCEPT !.pc = "model", !.at = Recorded(me).seq], 1))
     \/ /\ Asked(me, request) /\ ~LastOfCopy(me) /\ Completes(me, "ModelCallCompleted")
        /\ Think(p, Passed(Produced(me, NextRecorded(me).reply), 2))
     \/ Misplaced(p, request, "ModelCallCompleted")

\* The model answers, or the drive ends with the provider's error.
AnswerModel(p) ==
  LET me == drive[p] IN
  /\ me.pc = "model"
  /\ \/ \E reply \in Here.agents[Worker(me).agent] :
          Persist(p, [kind |-> "ModelCallCompleted", seq |-> me.at, reply |-> reply],
                  Produced(me, reply))
     \/ Stop(p)

\* The key of an Idempotent call is its place in the graph.
CallKey(d, tool) ==
  IF Effect(tool) = "Idempotent" THEN <<Walked(d).id, CallIndex(d)>> ELSE <<>>

ToolRequest(d) ==
  LET tool == Worker(d).tool IN
  [kind |-> "ToolCallRequested", seq |-> None, tool |-> tool, input |-> WorkInput(d),
   key |-> CallKey(d, tool)]

SleptUntil(wake_at) == Object([slept_until |-> Num(wake_at)])

\* A recorded failure ends the drive, and every later one.
Settled(d, outcome) ==
  CASE outcome.kind = "Output" -> Produced(d, outcome.value)
    [] outcome.kind = "Failed" -> Idle
    [] outcome.kind = "Suspended" -> [d EXCEPT !.pc = "suspend", !.at = None, !.work.outcome = outcome]
    [] outcome.kind = "Sleeping" -> [d EXCEPT !.pc = "sleep", !.at = None, !.work.outcome = outcome]

\* Mutant: a write whose outcome is unknown is issued again.
ReissuableAll(tool) == TRUE

Reissuable(tool) == Effect(tool) # "Write"

AskTool(p) ==
  LET me == drive[p]
      request == ToolRequest(me)
      dangles == Asked(me, request) /\ LastOfCopy(me)
      settled == Settled(me, NextRecorded(me).outcome)
  IN
  /\ me.pc = "call"
  /\ \/ Issue(p, request, "run")
     \/ dangles /\ ~Reissuable(request.tool) /\ Stop(p)
     \/ /\ dangles /\ Reissuable(request.tool)
        /\ Think(p, Passed([me EXCEPT !.pc = "run", !.at = Recorded(me).seq], 1))
     \/ /\ Asked(me, request) /\ ~LastOfCopy(me) /\ Completes(me, "ToolCallCompleted")
        /\ Think(p, IF settled = Idle THEN Idle ELSE Passed(settled, 2))
     \/ Misplaced(p, request, "ToolCallCompleted")

\* The handler runs, and a write takes effect.
RunTool(p) ==
  LET me == drive[p] IN
  /\ me.pc = "run"
  /\ Become(p, [me EXCEPT !.pc = "settle"])
  /\ world' = IF Effect(Worker(me).tool) # "Write" THEN world
              ELSE Append(world, [run |-> me.run, seq |-> me.at,
                                  node |-> Walked(me).id, index |-> CallIndex(me)])
  /\ UNCHANGED log /\ Elsewhere

Outcomes(tool) ==
  {o \in Here.tools[tool].outcomes : o.kind # "Sleeping"}
    \cup {[kind |-> "Sleeping", wake_at |-> clock + o.nap] :
            o \in {o \in Here.tools[tool].outcomes : o.kind = "Sleeping" /\ clock + o.nap <= MaxClock}}

SettleTool(p) ==
  LET me == drive[p] IN
  /\ me.pc = "settle"
  /\ \E outcome \in Outcomes(Worker(me).tool) :
       Persist(p, [kind |-> "ToolCallCompleted", seq |-> me.at, outcome |-> outcome],
               Settled(me, outcome))

----------------------------------------------------------------------------
(* Parking.                                                                 *)

SchemaHere(d) == IF Walked(d).kind = "gate" THEN Walked(d).schema ELSE d.work.outcome.schema

Suspend(p) ==
  LET me == drive[p] IN
  /\ me.pc = "suspend"
  /\ Request(p, [kind |-> "Suspended", schema |-> SchemaHere(me)], [me EXCEPT !.pc = "answer"])

\* Mutant: the engine trusts the check that was made when the input came in.
AcceptsAny(d) == TRUE

\* The accept edge: a gate judges the staged input, before it is recorded.
Accepts(d) == Walked(d).kind = "gate" => d.staged \in Walked(d).schema

AwaitResume(p) ==
  LET me == drive[p] IN
  /\ me.pc = "answer"
  /\ \/ Meets(me, "Resumed") /\ Think(p, Passed(Produced(me, Recorded(me).input), 1))
     \/ Mismatch(p, "Resumed")
     \/ /\ ~Replaying(me) /\ (me.staged = NoInput \/ ~Accepts(me))
        /\ Stop(p)
     \/ /\ ~Replaying(me) /\ me.staged # NoInput /\ Accepts(me)
        /\ Persist(p, [kind |-> "Resumed", input |-> me.staged],
                   Produced([me EXCEPT !.staged = NoInput], me.staged))

\* A delay derives its instant from a reading it records.
ObserveNow(p) ==
  LET me == drive[p] IN
  /\ me.pc = "now"
  /\ \/ /\ Meets(me, "NowObserved")
        /\ Think(p, Passed([me EXCEPT !.pc = "sleep", !.now = Recorded(me).now], 1))
     \/ Mismatch(p, "NowObserved")
     \/ /\ ~Replaying(me)
        /\ Persist(p, [kind |-> "NowObserved", now |-> clock],
                   [me EXCEPT !.pc = "sleep", !.now = clock])

\* Mutant: the instant is counted from the clock of the drive.
WakeAtAmbient(d) ==
  IF Walked(d).kind = "delay" THEN clock + Walked(d).seconds ELSE d.work.outcome.wake_at

WakeAt(d) ==
  IF Walked(d).kind = "delay" THEN d.now + Walked(d).seconds ELSE d.work.outcome.wake_at

SleepUntil(p) ==
  LET me == drive[p] IN
  /\ me.pc = "sleep"
  /\ Request(p, [kind |-> "SleepStarted", wake_at |-> WakeAt(me)], [me EXCEPT !.pc = "wake"])

\* A delay hands on what it was given.
Woken(d) == Produced(d, IF Walked(d).kind = "delay" THEN d.work.value ELSE SleptUntil(WakeAt(d)))

AwaitWake(p) ==
  LET me == drive[p] IN
  /\ me.pc = "wake"
  /\ \/ Meets(me, "SleepCompleted") /\ Think(p, Passed(Woken(me), 1))
     \/ Mismatch(p, "SleepCompleted")
     \/ ~Replaying(me) /\ clock >= WakeAt(me) /\ Persist(p, [kind |-> "SleepCompleted"], Woken(me))
     \/ ~Replaying(me) /\ clock < WakeAt(me) /\ Stop(p)

----------------------------------------------------------------------------
(* Branches and loops.                                                      *)

\* What the agent replied names a case, or nothing does.
Decided(branch, d) ==
  IF branch.agent = NoAgent THEN ChooseCase(branch, d.work.value)
  ELSE IF IsA(d.work.outcome, "text") THEN d.work.outcome.text ELSE NoLabel

TakeBranch(p) ==
  LET me == drive[p]
      branch == Walked(me)
      case == Decided(branch, me)
  IN
  /\ me.pc = "take"
  /\ IF case \notin CaseNames(branch) THEN Think(p, Refused(me, "BranchDecisionUnmatched"))
     ELSE Request(p, [kind |-> "BranchTaken", node |-> branch.id, case |-> case],
                  [me EXCEPT !.pc = "exit", !.fired = Put(@, branch.id, case),
                             !.work.outcome = Missing, !.work.result = me.work.value])

\* A map's iterations are over.
Gathered(d) == [d EXCEPT !.pc = "exit", !.work.result = List(d.work.passes)]

FanOut(p) ==
  LET me == drive[p]
      items == ResolvePath(Walked(me).over, me.work.value).list
      out == [me EXCEPT !.pc = "start", !.work.items = items]
  IN
  /\ me.pc = "fan"
  /\ Request(p, [kind |-> "MapFannedOut", node |-> Walked(me).id, items |-> items],
             IF items = <<>> THEN Gathered(out) ELSE out)

\* One iteration of a map, or one pass of a fold.
StartIteration(p) ==
  LET me == drive[p] IN
  /\ me.pc = "start"
  /\ Request(p, [kind |-> "IterationStarted", node |-> Walked(me).id, index |-> CallIndex(me)],
             [me EXCEPT !.pc = IF Worker(me).kind = "agent" THEN "ask" ELSE "call"])

Holds(fold, passes) == Eval(fold.stop_when, Last(passes))

Joined(d) ==
  LET owner == Walked(d)
      n == Len(d.work.passes)
  IN
  CASE owner.kind = "map" /\ n = Len(d.work.items) -> Gathered(d)
    [] owner.kind = "fold" /\ (Holds(owner, d.work.passes) \/ n = owner.max_iterations) ->
         [d EXCEPT !.pc = "converge"]
    [] OTHER -> [d EXCEPT !.pc = "start"]

JoinIteration(p) ==
  LET me == drive[p] IN
  /\ me.pc = "join"
  /\ Request(p, [kind |-> "IterationJoined", node |-> Walked(me).id, index |-> CallIndex(me) - 1],
             Joined(me))

\* The passes whose reference orders, and those of them that none exceeds.
Candidates(path, passes) ==
  {i \in 1..Len(passes) : LET v == ResolvePath(path, passes[i]) IN Ordered(v, v)}

\* Mutant: a pass that ties with the best one displaces it.
BestByLast(path, passes) ==
  FoldLeft(LAMBDA best, i :
             IF i \notin Candidates(path, passes) THEN best
             ELSE IF best = 0 \/ ~Below(ResolvePath(path, passes[i]), ResolvePath(path, passes[best]))
                    THEN i ELSE best,
           0, [i \in 1..Len(passes) |-> i])

\* best_by_index: only a pass strictly above the best so far displaces it.
BestBy(path, passes) ==
  FoldLeft(LAMBDA best, i :
             IF i \notin Candidates(path, passes) THEN best
             ELSE IF best = 0 \/ Below(ResolvePath(path, passes[best]), ResolvePath(path, passes[i]))
                    THEN i ELSE best,
           0, [i \in 1..Len(passes) |-> i])

Winner(fold, passes) == IF fold.join = "best_by" THEN BestBy(fold.best_by, passes) ELSE Len(passes)

JoinedValue(fold, passes) ==
  IF fold.join = "all" THEN List(passes) ELSE passes[Winner(fold, passes)]

BoundExceeded(fold, passes) == ~Holds(fold, passes) /\ fold.on_bound = "fail"

Converge(p) ==
  LET me == drive[p]
      fold == Walked(me)
      passes == me.work.passes
  IN
  /\ me.pc = "converge"
  /\ IF BoundExceeded(fold, passes) THEN Think(p, Refused(me, "FoldBoundExceeded"))
     ELSE IF Winner(fold, passes) = 0 THEN Think(p, Refused(me, "FoldNoComparableCandidate"))
     ELSE Request(p, [kind |-> "FoldConverged", node |-> fold.id,
                      winner |-> Winner(fold, passes) - 1, held |-> Holds(fold, passes)],
                  [me EXCEPT !.pc = "exit", !.work.result = JoinedValue(fold, passes)])

----------------------------------------------------------------------------
(* The author.                                                              *)

IsIdle(p) == drive[p].pc = "idle"

AuthorOnly == UNCHANGED <<scenario, stored, log, drive, fork, world, clock, crashes>>

\* A line of the session.
Edit ==
  /\ author.open
  /\ \E command \in Here.edits :
       /\ command = Undo \/ Len(author.editor.history) < MaxEdits
       /\ author' = [author EXCEPT !.editor = Apply(@, command)]
  /\ AuthorOnly

Write ==
  /\ author.open
  /\ author' = [author EXCEPT !.written = author.editor.document]
  /\ AuthorOnly

\* What was not written is gone.
Quit ==
  /\ author.open
  /\ author' = [author EXCEPT !.open = FALSE, !.editor = NewEditor]
  /\ AuthorOnly

----------------------------------------------------------------------------
(* The server.  A run has one document, which is not edited once it is given. *)

\* POST /v1/graphs: a document that validates is kept by this process.
Submit(p) ==
  /\ p \in Here.servers \ stored /\ IsIdle(p) /\ ~author.open
  /\ Validate(Document) = {}
  /\ stored' = stored \cup {p}
  /\ UNCHANGED <<scenario, author, log, drive, fork, world, clock, crashes>>

\* spawn_graph_drive: the task will read the log.
Spawn(p, r, input, staged) ==
  /\ Become(p, [Idle EXCEPT !.pc = "spawned", !.run = r, !.input = input, !.staged = staged])
  /\ UNCHANGED <<scenario, author, stored, fork, world, clock, crashes>>

\* start_run, under a fresh id.
Start(p) ==
  /\ IsIdle(p) /\ p \in stored
  /\ log["origin"] = <<>> /\ \A q \in Proc : IsIdle(q)
  /\ \E input \in Here.inputs : Spawn(p, "origin", input, NoInput)
  /\ UNCHANGED log

ReadLog(p) ==
  LET me == drive[p]
      n == Len(log[me.run])
  IN
  /\ me.pc = "spawned"
  /\ Think(p, [me EXCEPT !.pc = "begin", !.read = n, !.end = n])

\* A run that stopped between its steps, or that slept long enough.
Recoverable(l) ==
  LET status == DeriveState(l) IN
  \/ status.kind \in {"running", "awaiting_model", "awaiting_tool"}
  \/ status.kind = "sleeping" /\ clock >= status.wake_at

\* The redrive is marked before the task is spawned.
Redrive(p, r) ==
  /\ Recoverable(log[r]) /\ Marks(log["origin"]) + Marks(log["child"]) < MaxMarks
  /\ log' = [log EXCEPT ![r] = Append(@, [kind |-> "RunRedriven"])]
  /\ Spawn(p, r, Null, NoInput)

Recover(p, r) == IsIdle(p) /\ p \in stored /\ Redrive(p, r)

\* parked_gate: the gate last entered, if a gate it was.
LastEntered(l) ==
  LET entered == SelectSeq(l, LAMBDA event : event.kind = "NodeEntered")
  IN Named(Last(entered).node)

\* drive_resume vets the input against the log it was handed.
Vetted(l, input) ==
  IF LastEntered(l).kind = "gate" THEN input \in LastEntered(l).schema
  ELSE input \in DeriveState(l).schema

Resume(p, r) ==
  /\ IsIdle(p) /\ p \in stored
  /\ DeriveState(log[r]).kind = "suspended"
  /\ \E input \in Here.answers : Vetted(log[r], input) /\ Spawn(p, r, Null, input)
  /\ UNCHANGED log

\* The operator says what a write whose outcome is unknown came to.
Resolve(r) ==
  LET work == Unmarked(log[r])
      intent == Last(work)
  IN
  /\ DeriveState(log[r]).kind = "needs_reconciliation"
  /\ \E value \in Here.answers :
       log' = [log EXCEPT ![r] = Append(@, [kind |-> "ToolCallCompleted", seq |-> intent.seq,
                                            outcome |-> [kind |-> "Output", value |-> value]])]
  /\ UNCHANGED <<drive, world>> /\ Elsewhere

----------------------------------------------------------------------------
(* The command line, a process for one run that is given the document's file. *)

IsInvoked(p) == IsIdle(p) /\ p \in Here.commands /\ ~author.open /\ Validate(Document) = {}

\* salvor graph run: under a fresh id, over an empty log.
CliStart(p) ==
  /\ IsInvoked(p)
  /\ log["origin"] = <<>> /\ \A q \in Proc : IsIdle(q)
  /\ \E input \in Here.inputs : Think(p, [Idle EXCEPT !.pc = "begin", !.input = input])

\* refuse_nonconforming_approval: only a gate's schema is looked at.
CliVetted(l, input) == LastEntered(l).kind = "gate" => input \in LastEntered(l).schema

\* salvor resume, of a run that is parked: the log it was vetted against is the one
\* that is driven over.
CliResume(p, r) ==
  LET n == Len(log[r]) IN
  /\ IsInvoked(p)
  /\ DeriveState(log[r]).kind = "suspended"
  /\ \E input \in Here.answers :
       /\ CliVetted(log[r], input)
       /\ Think(p, [Idle EXCEPT !.pc = "begin", !.run = r, !.input = Null, !.staged = input,
                                !.read = n, !.end = n])

\* salvor resume, of one that is not: it is marked, and its log read again.
CliRecover(p, r) == IsInvoked(p) /\ Redrive(p, r)

----------------------------------------------------------------------------
(* Forks.                                                                   *)

EnteredAt(l, id) == {i \in 1..Len(l) : l[i] = [kind |-> "NodeEntered", node |-> id]}

\* plan_fork: the events below the node's first entry are copied; the writes
\* recorded from there on are the hazards.
Boundary(l, id) == Min(EnteredAt(l, id)) - 1

\* Mutant: only the writes of the node itself are hazards.
HazardsOfNode(l, id) ==
  LET exits == {i \in 1..Len(l) : l[i] = [kind |-> "NodeExited", node |-> id]} IN
  {i - 1 : i \in {i \in Boundary(l, id) + 1..(IF exits = {} THEN Len(l) ELSE Min(exits)) :
                    l[i].kind = "ToolCallRequested" /\ Effect(l[i].tool) = "Write"}}

Hazards(l, id) ==
  {i - 1 : i \in {i \in Boundary(l, id) + 1..Len(l) :
                    l[i].kind = "ToolCallRequested" /\ Effect(l[i].tool) = "Write"}}

Forkable(id) ==
  /\ fork.from = NoNode
  /\ EnteredAt(log["origin"], id) # {}
  /\ DeriveState(log["origin"]).kind # "needs_reconciliation"

\* dry_run: the operator learns what a fork would execute again.
PreviewFork(p, id) ==
  /\ IsIdle(p) /\ p \in stored \cup Here.commands /\ Forkable(id)
  /\ fork' = [fork EXCEPT !.shown = Hazards(log["origin"], id)]
  /\ UNCHANGED <<scenario, author, stored, log, drive, world, clock, crashes>>

\* Every hazard must be acknowledged; what is copied and recorded is planned
\* from the log as it is read here.
ForkFrom(p, id) ==
  LET l == log["origin"] IN
  /\ Forkable(id)
  /\ Hazards(l, id) \subseteq fork.shown
  /\ fork' = [fork EXCEPT !.planned = Len(l), !.from = id, !.through = Boundary(l, id) - 1,
                          !.acknowledged = Hazards(l, id),
                          !.prefix = SubSeq(l, 1, Boundary(l, id))]
  /\ Become(p, [Idle EXCEPT !.pc = "copy", !.run = "child"])
  /\ UNCHANGED <<scenario, author, stored, log, world, clock, crashes>>

Fork(p, id) == IsIdle(p) /\ p \in stored /\ ForkFrom(p, id)
CliFork(p, id) == IsInvoked(p) /\ ForkFrom(p, id)

\* The prefix is appended one event at a time, and then the child is driven.
CopyPrefix(p) ==
  LET me == drive[p]
      next == me.end + 1
      done == next = Len(fork.prefix)
  IN
  /\ me.pc = "copy"
  /\ \/ /\ Len(log["child"]) = me.end
        /\ log' = [log EXCEPT !["child"] = Append(@, fork.prefix[next])]
        /\ Become(p, IF done THEN [Idle EXCEPT !.pc = "spawned", !.run = "child", !.input = Null]
                     ELSE [me EXCEPT !.end = next])
        /\ fork' = [fork EXCEPT !.whole = done]
     \/ /\ Len(log["child"]) # me.end
        /\ Become(p, Idle) /\ UNCHANGED <<log, fork>>
  /\ UNCHANGED <<scenario, author, stored, world, clock, crashes>>

----------------------------------------------------------------------------

Crash(p) ==
  /\ ~IsIdle(p) /\ crashes < MaxCrashes
  /\ Become(p, Idle)
  /\ stored' = stored \ {p}
  /\ crashes' = crashes + 1
  /\ UNCHANGED <<scenario, author, log, fork, world, clock>>

Tick ==
  /\ clock < MaxClock
  /\ clock' = clock + 1
  /\ UNCHANGED <<scenario, author, stored, log, drive, fork, world, crashes>>

Drive(p) ==
  \/ ReadLog(p) \/ Begin(p) \/ Walk(p) \/ Exit(p) \/ Complete(p) \/ Refuse(p)
  \/ AskModel(p) \/ AnswerModel(p) \/ AskTool(p) \/ RunTool(p) \/ SettleTool(p)
  \/ Suspend(p) \/ AwaitResume(p) \/ ObserveNow(p) \/ SleepUntil(p) \/ AwaitWake(p)
  \/ TakeBranch(p) \/ FanOut(p) \/ StartIteration(p) \/ JoinIteration(p) \/ Converge(p)

Next ==
  \/ Edit \/ Write \/ Quit \/ Tick
  \/ \E p \in Here.servers \cup Here.commands :
       \/ Drive(p) \/ CopyPrefix(p) \/ Crash(p)
       \/ Submit(p) \/ Start(p) \/ CliStart(p)
       \/ \E r \in Run : Recover(p, r) \/ Resume(p, r) \/ CliRecover(p, r) \/ CliResume(p, r)
       \/ \E id \in Here.forks : PreviewFork(p, id) \/ Fork(p, id) \/ CliFork(p, id)
  \/ \E r \in Run : Resolve(r)

Spec == Init /\ [][Next]_vars

----------------------------------------------------------------------------
(* Properties.                                                              *)

Kinds ==
  {"GraphRunStarted", "NodeEntered", "NodeExited", "NodeSkipped", "BranchTaken", "MapFannedOut",
   "IterationStarted", "IterationJoined", "FoldConverged", "ModelCallRequested",
   "ModelCallCompleted", "ToolCallRequested", "ToolCallCompleted", "Suspended", "Resumed",
   "NowObserved", "SleepStarted", "SleepCompleted", "RunCompleted", "RunFailed", "RunRedriven"}

\* Every event has a kind of the wire, a drive stands inside the copy of the log it
\* was given, and only a process that holds the document works.
TypeOK ==
  /\ scenario \in DOMAIN Scenario /\ stored \subseteq Here.servers
  /\ \A r \in Run : \A i \in 1..Len(log[r]) : log[r][i].kind \in Kinds
  /\ \A p \in Proc :
       /\ drive[p].run \in Run
       /\ drive[p].pos <= Len(Copy(drive[p])) /\ drive[p].read <= Len(log[drive[p].run])
       /\ ~IsIdle(p) => p \in stored \cup Here.commands
  /\ clock \in 0..MaxClock /\ crashes \in 0..MaxCrashes

\* Whatever drives that crashed, raced, parked or slept have recorded, in a run or in
\* a fork of it, the next walk asks the cursor for exactly that (replay.rs).
NeverDiverges == \A p \in Proc : drive[p].pc # "diverged"

\* What a log says of an edge: its source was exited and, if it is a branch, took the
\* edge's case.  The source that is a loop's body is never walked, and its edges carry.
Carries(l, e) ==
  \/ e.from \in Bodies
  \/ /\ \E i \in 1..Len(l) : l[i] = [kind |-> "NodeExited", node |-> e.from]
     /\ Named(e.from).kind = "branch" =>
          \E i \in 1..Len(l) : l[i] = [kind |-> "BranchTaken", node |-> e.from, case |-> e.label]

Reached(l, id) == Inbound(Document, id) = {} \/ \E e \in Inbound(Document, id) : Carries(l, e)

\* A node is entered exactly when an edge into it carries a value or none leads there,
\* it is skipped exactly when all that lead there were routed past, and a run is
\* complete when each node was one or the other, once (lib.rs, select_input).
RoutedByTheLog ==
  \A r \in Run :
    LET l == log[r]
        at == {i \in 1..Len(l) : l[i].kind \in {"NodeEntered", "NodeSkipped"}}
    IN /\ \A i \in at :
            (l[i].kind = "NodeEntered") = Reached(SubSeq(l, 1, i - 1), l[i].node)
       /\ \A i, j \in at : l[i].node = l[j].node => i = j
       /\ DeriveState(l).kind = "completed" =>
            {l[i].node : i \in at} = Ids(Document) \ Bodies

\* What is recorded as a gate's answer conforms to that gate's schema, although it was
\* vetted against a log that others have appended to since (approval.rs).
GateAnswersFit ==
  \A r \in Run : \A i \in 1..Len(log[r]) :
    log[r][i].kind = "Resumed" =>
      LET node == LastEntered(SubSeq(log[r], 1, i))
      IN node.kind = "gate" => log[r][i].input \in node.schema

\* What the event before a join says the pass produced.
PassedBy(event) ==
  CASE event.kind = "ToolCallCompleted" -> event.outcome.value
    [] event.kind = "Resumed" -> event.input
    [] event.kind = "ModelCallCompleted" -> event.reply
    [] OTHER -> Missing

PassesOf(l, id) ==
  LET joins == {i \in 1..Len(l) : l[i].kind = "IterationJoined" /\ l[i].node = id} IN
  [n \in 1..Cardinality(joins) |->
     Unwrap(PassedBy(l[(CHOOSE i \in joins : l[i].index = n - 1) - 1]))]

\* A convergence is what the recorded passes say: the predicate held of the last one
\* and of none before it, or the bound was reached and may be joined at; under best_by
\* no pass is above the winner and no earlier one equals it (lib.rs, drive_fold).
FoldVerdict ==
  \A r \in Run :
    LET l == Unmarked(log[r]) IN
    \A i \in 1..Len(l) : l[i].kind = "FoldConverged" =>
      LET fold == Named(l[i].node)
          passes == PassesOf(l, fold.id)
          n == Len(passes)
          rank == [k \in 1..n |-> ResolvePath(fold.best_by, passes[k])]
          w == l[i].winner + 1
      IN /\ \A k \in 1..n - 1 : ~Eval(fold.stop_when, passes[k])
         /\ l[i].held = Eval(fold.stop_when, passes[n])
         /\ ~l[i].held => n = fold.max_iterations /\ fold.on_bound # "fail"
         /\ fold.join = "best_by" =>
              \A k \in 1..n : ~Below(rank[w], rank[k]) /\ (k < w => rank[k] # rank[w])

\* No recorded write is executed twice, and a fork executes again, of what its origin
\* had recorded when it was planned, only what was acknowledged (fork.rs), provided
\* its prefix was copied to the end.
Repeated(i, j) ==
  /\ world[i].run = "origin" /\ world[i].seq < fork.planned
  /\ world[j].run = "child"
  /\ world[i].node = world[j].node /\ world[i].index = world[j].index

FiresOnlyAcknowledged ==
  \A i, j \in 1..Len(world) :
    /\ world[i].run = world[j].run /\ world[i].seq = world[j].seq => i = j
    /\ fork.whole /\ Repeated(i, j) => world[i].seq \in fork.acknowledged

\* What the canvas shows of a run is where the walk is: a drive at the log's end has
\* in hand the node that is current, and has skipped, fired and joined what the log
\* says (graph_state.rs).
ProjectionAgrees ==
  \A p \in Proc :
    LET me == drive[p]
        seen == Projection(log[me.run])
    IN
    (~me.pc \in {"idle", "spawned", "begin", "copy", "refuse"} /\ ~Replaying(me)
       /\ me.end = Len(log[me.run])) =>
      /\ seen.current = IF me.pc \in {"walk", "complete"} THEN NoNode ELSE Walked(me).id
      /\ {id \in DOMAIN seen.state : seen.state[id] = "skipped"} = me.skipped
      /\ seen.fired = me.fired
      /\ seen.current # NoNode /\ IsLoop(Walked(me)) /\ seen.current \in DOMAIN seen.joined =>
           Len(SelectSeq(seen.joined[seen.current], LAMBDA joined : joined))
             = Len(me.work.passes) - (IF me.pc = "join" THEN 1 ELSE 0)

\* The engine never finds malformed what was accepted for it, but for a map's
\* reference, which nothing checks (validate.rs; lib.rs, resolve_over).
AcceptedRuns ==
  \A r \in Run : \A i \in 1..Len(log[r]) :
    log[r][i] = [kind |-> "RunFailed", error |-> "MalformedGraph"] =>
      \E node \in OfKind(Document, "map") : node.over = Garbled

\* The script that a session dumps, applied line by line to a new editor, is refused
\* nowhere and rebuilds the session, whatever was undone (graph_editor.rs, script).
ScriptRebuilds == Rebuilt(author.editor.history) = author.editor

=============================================================================
