----------------------------- MODULE DurableRun -----------------------------
(***************************************************************************)
(* What durable execution promises of one run, whoever drives it and        *)
(* however often it dies: its log is one execution of its agent, a sleep    *)
(* ends at its deadline and no earlier, a gate opens to an input its schema *)
(* accepts, and a write is performed at most once and never unrecorded.     *)
(***************************************************************************)
EXTENDS RunLog

CONSTANTS Deadlines, MaxClock

VARIABLES
  work,       \* the run's log without redrive marks
  clock,
  performed   \* performed[i]: how often the write recorded at position i was

runVars == <<work, clock, performed>>

Init ==
  /\ work = <<>>
  /\ clock = 0
  /\ performed = [i \in Writes |-> 0]

Tick ==
  /\ clock < MaxClock
  /\ clock' = clock + 1
  /\ UNCHANGED <<work, performed>>

\* What the event may say, by its kind.
Fits(e) ==
  /\ e.kind = "SleepStarted" => e.val \in Deadlines
  /\ e.kind = "SleepCompleted" => clock >= WakeAt(work)
  /\ e.kind = "Resumed" => Accepts(Len(work), e.val)
  /\ e.kind \notin {"SleepStarted", "Resumed"} => e.val = 0

Record ==
  /\ ~Terminal(work)
  /\ \E val \in Deadlines \cup Gates \cup {0} :
       /\ Fits(Entry(NextKind(work), val))
       /\ work' = Append(work, Entry(NextKind(work), val))
  /\ UNCHANGED <<clock, performed>>

\* Only what the log says was asked for, and once.
Perform(i) ==
  /\ i <= Len(work)
  /\ performed[i] = 0
  /\ performed' = [performed EXCEPT ![i] = 1]
  /\ UNCHANGED <<work, clock>>

Abandon ==
  /\ work # <<>>
  /\ ~Terminal(work)
  /\ work' = Append(work, Entry("RunAbandoned", 0))
  /\ UNCHANGED <<clock, performed>>

Next ==
  \/ Tick \/ Record \/ Abandon
  \/ \E i \in Writes : Perform(i)

Spec == Init /\ [][Next]_runVars

=============================================================================
