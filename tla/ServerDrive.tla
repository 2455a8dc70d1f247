---------------------------- MODULE ServerDrive ----------------------------
(***************************************************************************)
(* Who drives a run: salvor-server's drive tasks, the resume endpoint and    *)
(* the wake sweeper, over one log that other processes drive too.  Nothing   *)
(* locks a run.  A process keeps the runs its own tasks drive in the active  *)
(* set, only the sweeper consults it, and every other race is settled by the *)
(* store, which refuses an append at a position that is taken.               *)
(*                                                                           *)
(* The model follows one run.  A `salvor wake` or `salvor resume` on the     *)
(* same store is a server of its own: the same steps with an active set no   *)
(* one else can see.  A drive's calls go through ToolCall in the code; here  *)
(* a write is its intent, its execution and its completion.                  *)
(***************************************************************************)
EXTENDS RunLog, FiniteSets

CONSTANTS
  Server,       \* processes that drive runs of the store
  Proc,         \* handlers and drive tasks, of whichever server
  Nobody,       \* the server of an idle one
  Deadlines,    \* the wake instants a tool may ask for
  MaxClock,     \* bound on time
  MaxMarks,     \* bound on the redrive marks a sweep starts from
  MaxRequests,  \* bound on resume requests
  MaxCrashes,   \* bound on process deaths
  Operators,    \* whether operators resolve and abandon
  Streams       \* the servers asked for the run's event stream

ASSUME DriveAssumption ==
  /\ Nobody \notin Server
  /\ Deadlines \subseteq Nat
  /\ {MaxClock, MaxMarks, MaxRequests, MaxCrashes} \subseteq Nat
  /\ Operators \in BOOLEAN
  /\ Streams \subseteq Server

VARIABLES
  work,       \* the run's log in the store, without its redrive marks
  len,        \* its length with them
  clock,
  active,     \* active[s]: the run is in the active set of s
  proc,       \* proc[p]: what handler or task p is doing
  performed,  \* performed[i]: how often the write recorded at position i was
  requests,   \* resume requests sent so far
  crashes,    \* processes lost so far
  stream      \* stream[s]: the event stream s serves, and what it has sent

world == <<requests, crashes, stream>>
vars == <<work, len, clock, active, proc, performed, world>>

\* by: "sweeper" while the sweeper's pass waits for it, else "request".
\* at, seen: the length of the log and of its work as p last read it, its own
\* appends included.
\* input: the resume input it carries, 0 for none.
Procs == [pc : {"idle", "asked", "due", "building", "marking", "spawning", "spawned",
                "driving", "executing", "recording", "ending"},
          srv : Server \cup {Nobody}, by : {"sweeper", "request"}, at : Nat,
          seen : Nat, input : Gates \cup {0}]
Idle == [pc |-> "idle", srv |-> Nobody, by |-> "request", at |-> 0, seen |-> 0, input |-> 0]

Driving == {"spawned", "driving", "executing", "recording", "ending"}
Drives(s) == {p \in Proc : proc[p].srv = s /\ proc[p].pc \in Driving}

Stream == [pc : {"unopened", "polling", "read", "rested", "detached"}, sent : Nat]
Unopened == [pc |-> "unopened", sent |-> 0]

\* A log only grows, so what p read is a prefix of what is there.
Seen(p) == SubSeq(work, 1, proc[p].seen)

Marks == len - Len(work)

Become(p, state) == proc' = [proc EXCEPT ![p] = state]
Goto(p, pc) == Become(p, [proc[p] EXCEPT !.pc = pc])

\* POST /v1/runs has just spawned the run's first drive.
Init ==
  /\ work = <<>>
  /\ len = 0
  /\ clock = 0
  /\ \E s \in Server, p \in Proc :
       /\ active = [t \in Server |-> t = s]
       /\ proc = [q \in Proc |-> IF q = p THEN [Idle EXCEPT !.pc = "spawned", !.srv = s] ELSE Idle]
  /\ performed = [i \in Writes |-> 0]
  /\ requests = 0
  /\ crashes = 0
  /\ stream = [s \in Streams |-> Unopened]

----------------------------------------------------------------------------
(* The wake sweeper: one pass at a time, one run after the other.           *)

IsDue == Status(work) = "sleeping" /\ WakeAt(work) <= clock

\* due_runs.
Select(s, p) ==
  /\ proc[p] = Idle
  /\ Marks < MaxMarks
  /\ \A q \in Proc : ~(proc[q].srv = s /\ proc[q].by = "sweeper")
  /\ IsDue
  /\ Become(p, [Idle EXCEPT !.pc = "due", !.srv = s, !.by = "sweeper"])
  /\ UNCHANGED <<work, len, clock, active, performed, world>>

\* A run that a driver of this process is on is skipped; any other is redriven.
SkipActive(p) ==
  /\ proc[p].pc = "due"
  /\ IF active[proc[p].srv] THEN Become(p, Idle) ELSE Goto(p, "building")
  /\ UNCHANGED <<work, len, clock, active, performed, world>>

----------------------------------------------------------------------------
(* POST /v1/runs/{id}/resume.                                               *)

\* Mutant: the input is kept whatever the run was doing.
AskAnything(s, p) ==
  /\ proc[p] = Idle
  /\ requests < MaxRequests
  /\ work # <<>>
  /\ ~Terminal(work)
  /\ requests' = requests + 1
  /\ Become(p, [Idle EXCEPT !.pc = "asked", !.srv = s, !.input = Len(work)])
  /\ UNCHANGED <<work, len, clock, active, performed, crashes, stream>>

\* A caller answers the gate it was shown, or pokes a sleeping or stopped run.
\* The request may take any time to arrive, and may be sent again.
Ask(s, p) ==
  /\ proc[p] = Idle
  /\ requests < MaxRequests
  /\ work # <<>>
  /\ ~Terminal(work)
  /\ requests' = requests + 1
  /\ Become(p, [Idle EXCEPT !.pc = "asked", !.srv = s,
       !.input = IF Status(work) = "suspended" THEN Len(work) ELSE 0])
  /\ UNCHANGED <<work, len, clock, active, performed, crashes, stream>>

\* classify, by the log as the handler reads it: a parked run wants an input
\* its schema accepts and is resumed with it, a due or a stopped one is
\* redriven without, and the rest is refused or reported.
Dispatch(p) ==
  LET input == proc[p].input IN
  /\ proc[p].pc = "asked"
  /\ \/ /\ Status(work) = "suspended" /\ Accepts(Len(work), input)
        /\ Goto(p, "building")
     \/ /\ Status(work) \in {"running", "awaiting_model"} \/ IsDue
        /\ Become(p, [proc[p] EXCEPT !.pc = "building", !.input = 0])
     \/ /\ \/ Status(work) = "suspended" /\ ~Accepts(Len(work), input)
           \/ Status(work) = "sleeping" /\ ~IsDue
           \/ Status(work) \in {"needs_reconciliation", "completed", "abandoned"}
        /\ Become(p, Idle)
  /\ UNCHANGED <<work, len, clock, active, performed, world>>

----------------------------------------------------------------------------
(* redrive and spawn_drive.                                                 *)

\* Once the agent is rebuilt, record_redrive reads the log; a resume with an
\* input leaves no mark.
ReadForMark(p) ==
  /\ proc[p].pc = "building"
  /\ proc[p].input = 0
  /\ IF Terminal(work) THEN Become(p, Idle)
     ELSE Become(p, [proc[p] EXCEPT !.pc = "marking", !.at = len, !.seen = Len(work)])
  /\ UNCHANGED <<work, len, clock, active, performed, world>>

\* A taken position is an error of the request, or ends the pass over this run.
Mark(p) ==
  /\ proc[p].pc = "marking"
  /\ IF len # proc[p].at
       THEN Become(p, Idle) /\ UNCHANGED len
       ELSE len' = len + 1 /\ Goto(p, "spawning")
  /\ UNCHANGED <<work, clock, active, performed, world>>

\* begin_run, then the task; the handler or the sweeper goes on without it.
Spawn(p) ==
  /\ proc[p].pc = "spawning" \/ (proc[p].pc = "building" /\ proc[p].input # 0)
  /\ active' = [active EXCEPT ![proc[p].srv] = TRUE]
  /\ Become(p, [proc[p] EXCEPT !.pc = "spawned", !.by = "request", !.at = 0, !.seen = 0])
  /\ UNCHANGED <<work, len, clock, performed, world>>

----------------------------------------------------------------------------
(* A drive: Runtime::start, resume or recover, then the loop.               *)

\* Mutant: the input is taken to answer whatever the run is parked at.
TrustInput(p) ==
  /\ proc[p].pc = "spawned"
  /\ Become(p, [proc[p] EXCEPT !.pc = "driving", !.at = len, !.seen = Len(work)])
  /\ UNCHANGED <<work, len, clock, active, performed, world>>

\* The log is read again, and a resume is held to it again: NotParked or
\* ResumeInputRejected otherwise.
ReadLog(p) ==
  LET input == proc[p].input IN
  /\ proc[p].pc = "spawned"
  /\ IF input = 0 \/ (Status(work) = "suspended" /\ Accepts(Len(work), input))
       THEN Become(p, [proc[p] EXCEPT !.pc = "driving", !.at = len, !.seen = Len(work)])
       ELSE Goto(p, "ending")
  /\ UNCHANGED <<work, len, clock, active, performed, world>>

\* persist: the event lands at the position after what the drive has seen, or
\* the drive is over.
Persist(p, e, pc) ==
  /\ IF len = proc[p].at
       THEN /\ work' = Append(work, e) /\ len' = len + 1
            /\ Become(p, [proc[p] EXCEPT !.at = @ + 1, !.seen = @ + 1, !.pc = pc,
                            !.input = IF e.kind = "Resumed" THEN 0 ELSE @])
       ELSE /\ Goto(p, "ending")
            /\ UNCHANGED <<work, len>>
  /\ UNCHANGED <<clock, active, performed, world>>

\* The end of what is recorded is the end of the drive where the run has
\* ended, a write dangles, a gate has no answer or a sleep is not over.
Rests(p) ==
  \/ Terminal(Seen(p))
  \/ Status(Seen(p)) = "needs_reconciliation"
  \/ Status(Seen(p)) = "suspended" /\ proc[p].input = 0
  \/ Status(Seen(p)) = "sleeping" /\ clock < WakeAt(Seen(p))

Rest(p) ==
  /\ proc[p].pc = "driving"
  /\ Rests(p)
  /\ Goto(p, "ending")
  /\ UNCHANGED <<work, len, clock, active, performed, world>>

\* Mutant: a dangling write is taken for one that never happened.
ReissueAny(p) ==
  /\ proc[p].pc = "driving"
  /\ Status(Seen(p)) \in {"awaiting_model", "needs_reconciliation"}
  /\ Goto(p, "executing")
  /\ UNCHANGED <<work, len, clock, active, performed, world>>

\* An intent with no completion is executed again, if it is safe to.
Reissue(p) ==
  /\ proc[p].pc = "driving"
  /\ Status(Seen(p)) = "awaiting_model"
  /\ Goto(p, "executing")
  /\ UNCHANGED <<work, len, clock, active, performed, world>>

\* Mutant: a sleep ends with the first drive that finds it.
StepAnyTime(p) ==
  LET kind == NextKind(Seen(p)) IN
  /\ proc[p].pc = "driving"
  /\ ~(Rests(p) /\ Status(Seen(p)) # "sleeping") /\ Status(Seen(p)) # "awaiting_model"
  /\ \E val \in IF kind = "SleepStarted" THEN Deadlines
                ELSE IF kind = "Resumed" THEN {proc[p].input} ELSE {0} :
       Persist(p, Entry(kind, val), IF kind \in Calls THEN "executing" ELSE "driving")

\* The next event of the agent's, live.
Step(p) ==
  LET kind == NextKind(Seen(p)) IN
  /\ proc[p].pc = "driving"
  /\ ~Rests(p) /\ Status(Seen(p)) # "awaiting_model"
  /\ \E val \in IF kind = "SleepStarted" THEN Deadlines
                ELSE IF kind = "Resumed" THEN {proc[p].input} ELSE {0} :
       Persist(p, Entry(kind, val), IF kind \in Calls THEN "executing" ELSE "driving")

\* The call itself, which the log does not see.
Execute(p) ==
  LET i == Len(Seen(p)) IN
  /\ proc[p].pc = "executing"
  /\ performed' = IF i \in Writes THEN [performed EXCEPT ![i] = @ + 1] ELSE performed
  /\ Goto(p, "recording")
  /\ UNCHANGED <<work, len, clock, active, world>>

RecordCompletion(p) ==
  /\ proc[p].pc = "recording"
  /\ Persist(p, Entry(NextKind(Seen(p)), 0), "driving")

\* Mutant: a drive that ends leaves the run in the active set.
EndRunActive(p) ==
  /\ proc[p].pc = "ending"
  /\ Become(p, Idle)
  /\ UNCHANGED <<work, len, clock, active, performed, world>>

\* end_run, the task's last act.
EndRun(p) ==
  /\ proc[p].pc = "ending"
  /\ active' = [active EXCEPT ![proc[p].srv] = FALSE]
  /\ Become(p, Idle)
  /\ UNCHANGED <<work, len, clock, performed, world>>

----------------------------------------------------------------------------
(* GET /v1/runs/{id}/events: the stream of server s.                        *)

Open(s) ==
  /\ stream[s].pc = "unopened"
  /\ work # <<>> \/ active[s]
  /\ stream' = [stream EXCEPT ![s].pc = "polling"]
  /\ UNCHANGED <<work, len, clock, active, proc, performed, requests, crashes>>

\* Reads the log and sends what is new of it.
Poll(s) ==
  /\ stream[s].pc = "polling"
  /\ stream' = [stream EXCEPT ![s] = [pc |-> "read", sent |-> Len(work)]]
  /\ UNCHANGED <<work, len, clock, active, proc, performed, requests, crashes>>

\* Mutant: a stream ends where its run rests and nowhere else.
ConcludeAtRest(s) ==
  LET read == SubSeq(work, 1, stream[s].sent) IN
  /\ stream[s].pc = "read"
  /\ stream' = [stream EXCEPT ![s].pc = IF Resting(read) THEN "rested" ELSE "polling"]
  /\ UNCHANGED <<work, len, clock, active, proc, performed, requests, crashes>>

\* Ends where the log it read rests, or where that log does not and no task
\* here drives the run; polls again otherwise.
Conclude(s) ==
  LET read == SubSeq(work, 1, stream[s].sent) IN
  /\ stream[s].pc = "read"
  /\ stream' = [stream EXCEPT ![s].pc =
       IF Resting(read) THEN "rested"
       ELSE IF read # <<>> /\ ~active[s] THEN "detached" ELSE "polling"]
  /\ UNCHANGED <<work, len, clock, active, proc, performed, requests, crashes>>

----------------------------------------------------------------------------
(* What operators and the world do.                                         *)

\* A read and an append at the position it found are one step where nothing
\* came between; anything that did is a refusal that changes nothing.
Resolve ==
  /\ Operators
  /\ Status(work) = "needs_reconciliation"
  /\ work' = Append(work, Entry("ToolCallCompleted", 0))
  /\ len' = len + 1
  /\ UNCHANGED <<clock, active, proc, performed, world>>

Abandon ==
  /\ Operators
  /\ work # <<>>
  /\ ~Terminal(work)
  /\ work' = Append(work, Entry("RunAbandoned", 0))
  /\ len' = len + 1
  /\ UNCHANGED <<clock, active, proc, performed, world>>

Tick ==
  /\ clock < MaxClock
  /\ clock' = clock + 1
  /\ UNCHANGED <<work, len, active, proc, performed, world>>

\* A process dies and comes back with nothing but the store.
Crash(s) ==
  /\ crashes < MaxCrashes
  /\ \E p \in Proc : proc[p].srv = s
  /\ crashes' = crashes + 1
  /\ active' = [active EXCEPT ![s] = FALSE]
  /\ proc' = [p \in Proc |-> IF proc[p].srv = s THEN Idle ELSE proc[p]]
  /\ stream' = [t \in Streams |-> IF t = s THEN Unopened ELSE stream[t]]
  /\ UNCHANGED <<work, len, clock, performed, requests>>

----------------------------------------------------------------------------

Sweep(p) == SkipActive(p) \/ ReadForMark(p) \/ Mark(p) \/ Spawn(p)
Drive(p) == ReadLog(p) \/ Rest(p) \/ Reissue(p) \/ Step(p) \/ Execute(p)
              \/ RecordCompletion(p) \/ EndRun(p)

Next ==
  \/ \E p \in Proc : Dispatch(p) \/ Sweep(p) \/ Drive(p)
  \/ \E s \in Server, p \in Proc : Select(s, p) \/ Ask(s, p)
  \/ \E s \in Server : Crash(s)
  \/ \E s \in Streams : Open(s) \/ Poll(s) \/ Conclude(s)
  \/ Resolve \/ Abandon \/ Tick

Spec == Init /\ [][Next]_vars

\* Time passes, tasks that have been spawned run, every server sweeps at its
\* interval and every stream polls at its own.  Nobody has to send
\* a request, and nothing has to crash.
Fairness ==
  /\ WF_vars(Tick)
  /\ \A p \in Proc : WF_vars(Dispatch(p) \/ Sweep(p) \/ Drive(p))
  /\ \A s \in Server : WF_vars(\E p \in Proc : Select(s, p))
  /\ \A s \in Streams : WF_vars(Poll(s) \/ Conclude(s))

FairSpec == Spec /\ Fairness

----------------------------------------------------------------------------
(* Properties.                                                              *)

TypeOK ==
  /\ work \in Seq([kind : Kinds \cup {"RunAbandoned"}, val : Nat])
  /\ len \in Nat
  /\ clock \in 0..MaxClock
  /\ active \in [Server -> BOOLEAN]
  /\ proc \in [Proc -> Procs]
  /\ performed \in [Writes -> Nat]
  /\ requests \in 0..MaxRequests /\ crashes \in 0..MaxCrashes
  /\ stream \in [Streams -> Stream]

\* However many drives, marks, requests, crashes and operators meet on the log,
\* the run is one durable run: its log is one execution of its agent, no sleep
\* ends early, every answer fits the gate it is recorded at, and no write is
\* performed twice or without its intent on record.
Durable == INSTANCE DurableRun
ImplementsRun == Durable!Spec

(* The inductive invariant behind ImplementsRun.                            *)

LogIsPlan ==
  /\ Len(work) <= len
  /\ Len(work) <= Len(Plan)
  /\ \A i \in 1..Len(work) :
       work[i].kind = Plan[i] \/ (i = Len(work) /\ work[i].kind = "RunAbandoned")

\* What a drive read is a prefix of the log, and all of it if it is as long.
KnowsAPrefix(me) ==
  /\ me.seen <= Len(work)
  /\ me.at <= len
  /\ me.at = len => me.seen = Len(work)

\* A drive in a call has its intent on record; one that carries an answer
\* stands at a gate that takes it.
KnowsItsPlace(me) ==
  /\ me.pc \in {"executing", "recording"} =>
       me.seen # 0 /\ work[me.seen].kind \in Calls /\ me.input = 0
  /\ me.pc = "driving" /\ me.input # 0 =>
       me.seen # 0 /\ work[me.seen].kind = "Suspended" /\ Accepts(me.seen, me.input)

\* A write that is about to be performed has not been, and by nobody else.
WritesOnce ==
  /\ \A i \in Writes : i > Len(work) => performed[i] = 0
  /\ \A p \in Proc :
       LET me == proc[p] IN
       me.pc = "executing" /\ me.seen \in Writes =>
         /\ performed[me.seen] = 0
         /\ \A q \in Proc \ {p} : ~(proc[q].pc = "executing" /\ proc[q].seen = me.seen)

DriveInv ==
  /\ TypeOK
  /\ LogIsPlan
  /\ \A p \in Proc : KnowsAPrefix(proc[p]) /\ KnowsItsPlace(proc[p])
  /\ WritesOnce

\* state.rs, end_run: a run is never left in a process's active set with no task
\* there that will take it out, however many tasks its spawners started: it would
\* be skipped by every sweep and streamed without end.  The converse does not hold.
\* A set holds a run once, so the first of two tasks to end takes it out for both.
ActiveIsDriven == \A s \in Server : active[s] => Drives(s) # {}

\* sse.rs, produce: no client waits forever on a stream.
StreamsEnd ==
  \A s \in Streams : stream[s].pc = "polling" ~> stream[s].pc \in {"rested", "detached", "unopened"}

\* A due run is woken, though the process that was waking it dies.
DueRunWakes == \A n \in 1..Len(Plan) : Len(work) = n /\ IsDue ~> Len(work) > n

=============================================================================
