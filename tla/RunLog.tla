------------------------------- MODULE RunLog -------------------------------
(***************************************************************************)
(* What a recorded log says about its run: the fold of salvor-replay's      *)
(* derive_state and the cursor's reading of a log.                          *)
(*                                                                          *)
(* An agent is deterministic over what its log replays, so it is its Plan:  *)
(* the kinds of events it records from its start to its completion.  One    *)
(* RunAbandoned may end a log early.  RunRedriven marks may stand anywhere   *)
(* in it; the fold and the cursor pass over them, and "work" below is a log  *)
(* without its marks.                                                        *)
(***************************************************************************)
EXTENDS Integers, Sequences

CONSTANTS
  Plan,      \* the kinds of the events the run records, in order
  OneForm    \* whether every gate of the run has the same input_schema

\* A request and what answers it.  Sleeps and gates park the run in between.
Answer == [ModelCallRequested |-> "ModelCallCompleted",
           ToolCallRequested |-> "ToolCallCompleted",
           SleepStarted |-> "SleepCompleted",
           Suspended |-> "Resumed"]

Calls == {"ModelCallRequested", "ToolCallRequested"}
Terminals == {"RunCompleted", "RunAbandoned"}

Kinds == DOMAIN Answer \cup {Answer[k] : k \in DOMAIN Answer} \cup {"RunStarted", "RunCompleted"}

ASSUME PlanAssumption ==
  /\ Plan \in Seq(Kinds)
  /\ Plan # <<>> /\ Plan[1] = "RunStarted" /\ Plan[Len(Plan)] = "RunCompleted"
  /\ \A i \in 2..(Len(Plan) - 1) : Plan[i] \notin {"RunStarted", "RunCompleted"}
  /\ \A i \in 1..(Len(Plan) - 1) :
       IF Plan[i] \in DOMAIN Answer
         THEN Plan[i + 1] = Answer[Plan[i]]
         ELSE Plan[i + 1] \notin {Answer[k] : k \in DOMAIN Answer}
  /\ OneForm \in BOOLEAN

Positions == 1..Len(Plan)
Writes == {i \in Positions : Plan[i] = "ToolCallRequested"}
Gates == {i \in Positions : Plan[i] = "Suspended"}

\* An event: val is the wake_at of a SleepStarted, the input of a Resumed, and
\* 0 elsewhere.  An input is named by the gate it was meant for.
Entry(kind, val) == [kind |-> kind, val |-> val]

LastKind(work) == IF work = <<>> THEN "none" ELSE work[Len(work)].kind

\* derive_state.
Status(work) ==
  LET k == LastKind(work) IN
  CASE k = "none" -> "not_started"
    [] k = "ModelCallRequested" -> "awaiting_model"
    [] k = "ToolCallRequested" -> "needs_reconciliation"
    [] k = "SleepStarted" -> "sleeping"
    [] k = "Suspended" -> "suspended"
    [] k = "RunCompleted" -> "completed"
    [] k = "RunAbandoned" -> "abandoned"
    [] OTHER -> "running"

Terminal(work) == LastKind(work) \in Terminals

WakeAt(work) == work[Len(work)].val

\* is_resting: driving has stopped, whatever happens next is somebody's doing.
Resting(work) ==
  Status(work) \in {"completed", "abandoned", "suspended", "sleeping", "needs_reconciliation"}

\* validate_against_schema at gate g.
Accepts(g, input) == input \in Gates /\ (OneForm \/ input = g)

\* The kind the agent asks for once its log is replayed.
NextKind(work) == Plan[Len(work) + 1]

=============================================================================
