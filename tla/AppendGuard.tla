---------------------------- MODULE AppendGuard ----------------------------
(***************************************************************************)
(* The append-guard of salvor-replay: which event may follow a recorded log. *)
(* An event here is any record with its kind and, for a call's intent and    *)
(* completion, the position of the intent ("at").  Positions count from 1;   *)
(* the code's sequence numbers count from 0.                                 *)
(*                                                                           *)
(* The guard reads the end of the log only, and looks past trailing          *)
(* RunRedriven marks to find it.                                             *)
(***************************************************************************)
EXTENDS Integers, Sequences

Heads == {"RunStarted", "GraphRunStarted"}

\* An intent and the completion it awaits.
Awaits == [ModelCallRequested |-> "ModelCallCompleted",
           ToolCallRequested |-> "ToolCallCompleted"]

Intents == DOMAIN Awaits
Completions == {Awaits[k] : k \in Intents}

Terminals == {"RunCompleted", "RunFailed", "RunAbandoned"}

Mark == "RunRedriven"

\* Events that neither open nor close a call nor end the run.
Observations == {"NowObserved", "RandomObserved"}
Parks == {"Suspended", "SleepStarted", "BudgetExceeded"}
Wakes == {"Resumed", "SleepCompleted"}
NodeMarkers == {"NodeEntered", "NodeExited", "NodeSkipped", "BranchTaken"}
LoopMarkers == {"MapFannedOut", "MapIterationStarted", "MapIterationJoined",
                "FoldIterationStarted", "FoldIterationJoined", "FoldConverged"}

\* The position of the event under the trailing marks, 0 in a log that has none.
Under(L) ==
  CHOOSE i \in 0..Len(L) :
    /\ i > 0 => L[i].kind # Mark
    /\ \A j \in (i + 1)..Len(L) : L[j].kind = Mark

\* The position of the dangling intent, 0 when no call is open.
Pending(L) ==
  IF L = <<>> THEN 0
  ELSE LET u == Under(L) IN IF L[u].kind \in Intents THEN u ELSE 0

\* validate_next, for a candidate at the position after the log's end.
Legal(L, e) ==
  IF L = <<>> THEN e.kind \in Heads
  ELSE LET last == L[Under(L)]
           open == Pending(L)
       IN
       /\ e.kind \notin Heads
       /\ last.kind \notin Terminals
       /\ \/ e.kind = Mark
          \/ open # 0 /\ e.kind = Awaits[last.kind] /\ e.at = open
          \/ /\ open = 0
             /\ e.kind \notin Completions
             /\ e.kind \in Intents => e.at = Len(L) + 1

\* A log every event of which was the legal next one.
WellFormed(L) == \A i \in 1..Len(L) : Legal(SubSeq(L, 1, i - 1), L[i])

\* LogValidator over a batch.
LegalBatch(L, batch) ==
  \A i \in 1..Len(batch) : Legal(L \o SubSeq(batch, 1, i - 1), batch[i])

=============================================================================
