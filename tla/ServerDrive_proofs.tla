------------------------- MODULE ServerDrive_proofs -------------------------
(***************************************************************************)
(* ServerDrive implements DurableRun, for any agent, any number of servers, *)
(* drives, requests, marks and crashes.                                     *)
(***************************************************************************)
EXTENDS ServerDrive, SequenceTheorems, TLAPS

----------------------------------------------------------------------------
(* Plans and logs.                                                          *)

LEMMA Answers ==
  /\ DOMAIN Answer = {"ModelCallRequested", "ToolCallRequested", "SleepStarted", "Suspended"}
  /\ Answer["ModelCallRequested"] = "ModelCallCompleted"
  /\ Answer["ToolCallRequested"] = "ToolCallCompleted"
  /\ Answer["SleepStarted"] = "SleepCompleted"
  /\ Answer["Suspended"] = "Resumed"
  BY DEF Answer

\* A plan starts and ends where it should, and answers each request at once.
LEMMA PlanIsPaired ==
  /\ Len(Plan) \in Nat \ {0}
  /\ Plan[1] = "RunStarted"
  /\ Plan[Len(Plan)] = "RunCompleted"
  /\ \A i \in 1..Len(Plan) :
       /\ Plan[i] \in Kinds
       /\ Plan[i] = "SleepCompleted" => i - 1 \in 1..Len(Plan) /\ Plan[i - 1] = "SleepStarted"
       /\ Plan[i] = "Resumed" => i - 1 \in 1..Len(Plan) /\ Plan[i - 1] = "Suspended"
       /\ Plan[i] \in DOMAIN Answer => i + 1 \in 1..Len(Plan) /\ Plan[i + 1] = Answer[Plan[i]]
  <1>1. Plan \in Seq(Kinds) /\ Len(Plan) \in Nat \ {0}
    BY PlanAssumption, EmptySeq
  <1>2. \A i \in 1..Len(Plan) : Plan[i] \in Kinds
    BY <1>1
  <1>3. Plan[1] = "RunStarted" /\ Plan[Len(Plan)] = "RunCompleted"
    BY PlanAssumption
  <1>4. ASSUME NEW i \in 1..Len(Plan), Plan[i] \in {"SleepCompleted", "Resumed"}
        PROVE  /\ i - 1 \in 1..Len(Plan)
               /\ Plan[i] = "SleepCompleted" => Plan[i - 1] = "SleepStarted"
               /\ Plan[i] = "Resumed" => Plan[i - 1] = "Suspended"
    <2>1. i - 1 \in 1..(Len(Plan) - 1)
      BY <1>1, <1>3, <1>4
    <2>2. IF Plan[i - 1] \in DOMAIN Answer
            THEN Plan[(i - 1) + 1] = Answer[Plan[i - 1]]
            ELSE Plan[(i - 1) + 1] \notin {Answer[k] : k \in DOMAIN Answer}
      BY <2>1, PlanAssumption
    <2>3. (i - 1) + 1 = i
      BY <1>4
    <2>4. Plan[i] \in {Answer[k] : k \in DOMAIN Answer}
      BY <1>4, Answers
    <2> QED
      BY <1>1, <1>4, <2>1, <2>2, <2>3, <2>4, Answers
  <1>5. ASSUME NEW i \in 1..Len(Plan), Plan[i] \in DOMAIN Answer
        PROVE  i + 1 \in 1..Len(Plan) /\ Plan[i + 1] = Answer[Plan[i]]
    <2>1. i \in 1..(Len(Plan) - 1)
      BY <1>1, <1>3, <1>5, Answers
    <2> QED
      BY <1>1, <1>5, <2>1, PlanAssumption
  <1> QED
    BY <1>1, <1>2, <1>3, <1>4, <1>5

Events == [kind : Kinds \cup {"RunAbandoned"}, val : Nat]

\* The status and the end of a log, by its last event.
LEMMA StatusByLast ==
  ASSUME NEW w \in Seq(Events)
  PROVE  /\ w = <<>> <=> Len(w) = 0
         /\ Len(w) # 0 => LastKind(w) = w[Len(w)].kind
         /\ Len(w) = 0 => LastKind(w) = "none"
         /\ Status(w) = "suspended" <=> LastKind(w) = "Suspended"
         /\ Status(w) = "sleeping" <=> LastKind(w) = "SleepStarted"
         /\ Status(w) = "awaiting_model" <=> LastKind(w) = "ModelCallRequested"
         /\ Status(w) = "needs_reconciliation" <=> LastKind(w) = "ToolCallRequested"
  <1>1. w = <<>> <=> Len(w) = 0
    BY EmptySeq
  <1> QED
    BY <1>1 DEF LastKind, Status

----------------------------------------------------------------------------
(* The invariant, with the log a drive is judged by as a parameter.         *)

SoundIn(me, w, n) ==
  /\ me.seen <= Len(w)
  /\ me.at <= n
  /\ me.at = n => me.seen = Len(w)
  /\ me.pc \in {"executing", "recording"} =>
       me.seen # 0 /\ w[me.seen].kind \in Calls /\ me.input = 0
  /\ me.pc = "driving" /\ me.input # 0 =>
       me.seen # 0 /\ w[me.seen].kind = "Suspended" /\ Accepts(me.seen, me.input)

RunTyped ==
  /\ work \in Seq(Events)
  /\ len \in Nat
  /\ clock \in 0..MaxClock
  /\ proc \in [Proc -> Procs]
  /\ performed \in [Writes -> Nat]

WorldTyped ==
  /\ active \in [Server -> BOOLEAN]
  /\ requests \in 0..MaxRequests /\ crashes \in 0..MaxCrashes
  /\ stream \in [Streams -> Stream]

CoreInv ==
  /\ RunTyped
  /\ LogIsPlan
  /\ \A p \in Proc : SoundIn(proc[p], work, len)
  /\ WritesOnce

LEMMA DriveInvIsCore == DriveInv <=> CoreInv /\ WorldTyped
  BY DEF DriveInv, CoreInv, WorldTyped, RunTyped, TypeOK, Events, SoundIn, KnowsAPrefix,
         KnowsItsPlace

\* What a drive knows of the log it read.
LEMMA SeenByLast ==
  ASSUME CoreInv, NEW p \in Proc
  PROVE  LET me == proc[p]
             w == Seen(p)
         IN /\ me \in Procs
            /\ me.seen \in 0..Len(work)
            /\ w \in Seq(Events)
            /\ Len(w) = me.seen
            /\ me.seen # 0 => w # <<>> /\ w[me.seen] = work[me.seen]
            /\ me.seen # 0 => LastKind(w) = work[me.seen].kind
            /\ me.seen = 0 => LastKind(w) = "none"
            /\ me.at = len => me.seen = Len(work)
  <1> DEFINE me == proc[p]
             w == Seen(p)
  <1>1. me \in Procs /\ me.seen \in 0..Len(work) /\ Len(work) \in Nat
    BY DEF CoreInv, RunTyped, SoundIn, Procs
  <1>2. \A i \in 1..me.seen : work[i] \in Events
    BY <1>1 DEF CoreInv, RunTyped
  <1>3. /\ w \in Seq(Events)
        /\ Len(w) = IF 1 <= me.seen THEN me.seen - 1 + 1 ELSE 0
        /\ \A i \in 1..(me.seen - 1 + 1) : w[i] = work[1 + i - 1]
    BY <1>1, <1>2, SubSeqProperties DEF Seen
  <1>4. Len(w) = me.seen /\ (me.seen # 0 => w[me.seen] = work[me.seen])
    <2>1. Len(w) = me.seen
      BY <1>1, <1>3
    <2>2. ASSUME me.seen # 0 PROVE w[me.seen] = work[me.seen]
      <3>1. me.seen \in 1..(me.seen - 1 + 1) /\ 1 + me.seen - 1 = me.seen
        BY <1>1, <2>2
      <3> QED BY <1>3, <3>1
    <2> QED BY <2>1, <2>2
  <1>5. me.at = len => me.seen = Len(work)
    BY DEF CoreInv, SoundIn
  <1> HIDE DEF w, me
  <1>6. /\ me.seen # 0 => w # <<>> /\ LastKind(w) = work[me.seen].kind
        /\ me.seen = 0 => LastKind(w) = "none"
    BY <1>1, <1>3, <1>4, StatusByLast
  <1> QED
    BY <1>1, <1>3, <1>4, <1>5, <1>6 DEF w, me

\* The kinds of a log's events are its plan's, an abandonment aside.
LEMMA KindsOfLog ==
  ASSUME CoreInv
  PROVE  /\ Len(work) \in 0..Len(Plan)
         /\ \A i \in 1..Len(work) :
              /\ work[i] \in Events
              /\ work[i].kind = Plan[i] \/ (i = Len(work) /\ work[i].kind = "RunAbandoned")
         /\ ~Terminal(work) => /\ Len(work) + 1 \in 1..Len(Plan)
                               /\ \A i \in 1..Len(work) : work[i].kind = Plan[i]
  <1>1. work \in Seq(Events) /\ Len(work) \in 0..Len(Plan)
    BY PlanIsPaired DEF CoreInv, RunTyped, LogIsPlan
  <1>2. \A i \in 1..Len(work) :
          /\ work[i] \in Events
          /\ work[i].kind = Plan[i] \/ (i = Len(work) /\ work[i].kind = "RunAbandoned")
    BY <1>1 DEF CoreInv, LogIsPlan
  <1>3. ASSUME ~Terminal(work)
        PROVE  /\ Len(work) + 1 \in 1..Len(Plan)
               /\ \A i \in 1..Len(work) : work[i].kind = Plan[i]
    <2>1. Len(work) # 0 => work[Len(work)].kind \notin {"RunCompleted", "RunAbandoned"}
      BY <1>1, <1>3, StatusByLast DEF Terminal, Terminals
    <2>2. Len(work) # Len(Plan)
      BY <1>1, <1>2, <2>1, PlanIsPaired
    <2> QED BY <1>1, <1>2, <2>1, <2>2, PlanIsPaired
  <1> QED BY <1>1, <1>2, <1>3

----------------------------------------------------------------------------
(* The shapes of a step.                                                    *)

\* A process changes what it is doing, and may add a mark.
LEMMA QuietStep ==
  ASSUME CoreInv, NEW p \in Proc, NEW me \in Procs,
         proc' = [proc EXCEPT ![p] = me],
         UNCHANGED <<work, clock, performed>>,
         len' = len \/ len' = len + 1,
         SoundIn(me, work, len'),
         me.pc = "executing" => me.seen \notin Writes
  PROVE  CoreInv'
  <1> USE DEF CoreInv
  <1>1. RunTyped' /\ LogIsPlan'
    BY DEF RunTyped, LogIsPlan
  <1>2. ASSUME NEW q \in Proc PROVE SoundIn(proc'[q], work', len')
    <2>1. CASE q = p
      BY <2>1 DEF RunTyped
    <2>2. CASE q # p
      <3>1. proc'[q] = proc[q] /\ SoundIn(proc[q], work, len) /\ proc[q] \in Procs
        BY <2>2 DEF RunTyped
      <3>2. proc[q].at \in Nat /\ proc[q].seen \in Nat /\ len \in Nat
        BY <3>1 DEF Procs, RunTyped
      <3> QED BY <3>1, <3>2 DEF SoundIn
    <2> QED BY <2>1, <2>2
  <1>3. WritesOnce'
    BY DEF WritesOnce, RunTyped
  <1> QED BY <1>1, <1>2, <1>3

\* An event is appended: what every process knows of the log stays true.
LEMMA LogGrows ==
  ASSUME CoreInv, NEW e \in Events, ~Terminal(work),
         e.kind = Plan[Len(work) + 1] \/ e.kind = "RunAbandoned",
         work' = Append(work, e), len' = len + 1
  PROVE  /\ work' \in Seq(Events) /\ len' \in Nat
         /\ Len(work') = Len(work) + 1 /\ work'[Len(work) + 1] = e
         /\ \A i \in 1..Len(work) : work'[i] = work[i]
         /\ LogIsPlan'
         /\ \A q \in Proc : SoundIn(proc[q], work', len')
  <1> USE DEF CoreInv
  <1>1. work \in Seq(Events) /\ Len(work) \in Nat /\ len \in Nat
    BY DEF RunTyped
  <1>2. /\ work' \in Seq(Events)
        /\ Len(work') = Len(work) + 1
        /\ \A i \in 1..Len(work) : work'[i] = work[i]
        /\ work'[Len(work) + 1] = e
    BY <1>1, AppendProperties
  <1>3. LogIsPlan'
    BY <1>1, <1>2, KindsOfLog DEF LogIsPlan
  <1>4. ASSUME NEW q \in Proc PROVE SoundIn(proc[q], work', len')
    <2>1. proc[q] \in Procs /\ SoundIn(proc[q], work, len)
      BY DEF RunTyped
    <2>2. proc[q].at \in Nat /\ proc[q].seen \in Nat
      BY <2>1 DEF Procs
    <2>3. proc[q].seen # 0 => work'[proc[q].seen] = work[proc[q].seen]
      BY <1>1, <1>2, <2>1, <2>2 DEF SoundIn
    <2> QED BY <1>1, <1>2, <2>1, <2>2, <2>3 DEF SoundIn
  <1> QED BY <1>1, <1>2, <1>3, <1>4

\* A drive appends an event and goes on from there.
LEMMA DriveAppends ==
  ASSUME CoreInv, NEW e \in Events, ~Terminal(work),
         e.kind = Plan[Len(work) + 1],
         work' = Append(work, e), len' = len + 1,
         UNCHANGED <<clock, performed>>,
         NEW p \in Proc, NEW me \in Procs, proc' = [proc EXCEPT ![p] = me],
         me.seen = Len(work) + 1, me.at = len + 1, me.input = 0,
         me.pc \in {"executing", "driving"},
         me.pc = "executing" => e.kind \in Calls
  PROVE  CoreInv'
  <1>0. /\ work \in Seq(Events) /\ Len(work) \in Nat /\ len \in Nat
        /\ proc \in [Proc -> Procs] /\ performed \in [Writes -> Nat]
        /\ WritesOnce /\ \A q \in Proc : SoundIn(proc[q], work, len)
    BY DEF CoreInv, RunTyped
  <1>1. /\ work' \in Seq(Events) /\ len' \in Nat
        /\ Len(work') = Len(work) + 1 /\ work'[Len(work) + 1] = e
        /\ LogIsPlan'
        /\ \A q \in Proc : SoundIn(proc[q], work', len')
    BY LogGrows
  <1>2. RunTyped'
    BY <1>1 DEF CoreInv, RunTyped
  <1>3. SoundIn(me, work', len')
    BY <1>0, <1>1 DEF SoundIn
  <1>4. \A q \in Proc : SoundIn(proc'[q], work', len')
    BY <1>0, <1>1, <1>3
  <1>5. WritesOnce'
    <2>1. \A i \in Writes : i > Len(work') => performed'[i] = 0
      BY <1>0, <1>1 DEF WritesOnce, Writes, Positions
    <2>2. \A q \in Proc \ {p} : proc'[q] = proc[q] /\ proc[q].seen \in Nat /\ proc[q].seen <= Len(work)
      BY <1>0 DEF SoundIn, Procs
    <2>3. proc'[p] = me
      BY <1>0
    <2>4. me.seen \in Writes => performed[me.seen] = 0
      BY <1>0 DEF WritesOnce, Writes, Positions
    <2> QED BY <1>0, <2>1, <2>2, <2>3, <2>4 DEF WritesOnce
  <1> QED BY <1>1, <1>2, <1>4, <1>5 DEF CoreInv

\* Somebody appends an event that no drive is the wiser for.
LEMMA OthersAppend ==
  ASSUME CoreInv, NEW e \in Events, ~Terminal(work),
         e.kind = Plan[Len(work) + 1] \/ e.kind = "RunAbandoned",
         work' = Append(work, e), len' = len + 1,
         UNCHANGED <<clock, performed, proc>>
  PROVE  CoreInv'
  <1>1. /\ work' \in Seq(Events) /\ len' \in Nat
        /\ Len(work') = Len(work) + 1
        /\ LogIsPlan'
        /\ \A q \in Proc : SoundIn(proc[q], work', len')
    BY LogGrows
  <1>2. RunTyped'
    BY <1>1 DEF CoreInv, RunTyped
  <1>3. WritesOnce'
    BY <1>1 DEF WritesOnce, CoreInv, RunTyped, Writes, Positions
  <1> QED BY <1>1, <1>2, <1>3 DEF CoreInv

----------------------------------------------------------------------------
(* What a step is to DurableRun.                                            *)

DurableStep == [Durable!Next]_(Durable!runVars)

LEMMA NothingDurable ==
  ASSUME UNCHANGED <<work, clock, performed>>
  PROVE  DurableStep
  BY DEF DurableStep, Durable!runVars

\* The next event of the plan, with a value that fits, is one DurableRun
\* records.
LEMMA DurableRecords ==
  ASSUME ~Terminal(work),
         NEW val \in Deadlines \cup Gates \cup {0},
         work' = Append(work, Entry(Plan[Len(work) + 1], val)),
         UNCHANGED <<clock, performed>>,
         Plan[Len(work) + 1] = "SleepStarted" => val \in Deadlines,
         Plan[Len(work) + 1] = "SleepCompleted" => clock >= WakeAt(work),
         Plan[Len(work) + 1] = "Resumed" => Accepts(Len(work), val),
         Plan[Len(work) + 1] \notin {"SleepStarted", "Resumed"} => val = 0
  PROVE  DurableStep
  <1>1. Durable!Record
    BY DEF Durable!Record, Durable!Terminal, Durable!LastKind, Durable!Terminals, Terminal,
           LastKind, Terminals, Durable!NextKind, Durable!Entry, Entry, Durable!Fits,
           Durable!WakeAt, WakeAt, Durable!Accepts, Accepts, Durable!Gates, Gates,
           Durable!Positions, Positions
  <1> QED BY <1>1 DEF DurableStep, Durable!Next

LEMMA DurableAbandons ==
  ASSUME ~Terminal(work), work # <<>>,
         work' = Append(work, Entry("RunAbandoned", 0)),
         UNCHANGED <<clock, performed>>
  PROVE  DurableStep
  <1>1. Durable!Abandon
    BY DEF Durable!Abandon, Durable!Terminal, Durable!LastKind, Durable!Terminals, Terminal,
           LastKind, Terminals, Durable!Entry, Entry
  <1> QED BY <1>1 DEF DurableStep, Durable!Next

----------------------------------------------------------------------------
(* persist.                                                                 *)

LEMMA GotoIsQuiet ==
  ASSUME CoreInv, NEW p \in Proc, Goto(p, "ending"), UNCHANGED <<work, len, clock, performed>>
  PROVE  CoreInv' /\ DurableStep
  <1> DEFINE me == [proc[p] EXCEPT !.pc = "ending"]
  <1>1. proc[p] \in Procs /\ SoundIn(proc[p], work, len)
    BY DEF CoreInv, RunTyped
  <1>2. me \in Procs /\ SoundIn(me, work, len')
    BY <1>1 DEF Procs, SoundIn
  <1>3. proc' = [proc EXCEPT ![p] = me]
    BY DEF Goto, Become
  <1>4. me.pc = "ending"
    BY <1>1 DEF Procs
  <1> HIDE DEF me
  <1> QED BY <1>2, <1>3, <1>4, QuietStep, NothingDurable

\* The event a drive persists, if it lands, follows all there is.
LEMMA PersistStep ==
  ASSUME CoreInv, NEW p \in Proc, NEW pc \in {"driving", "executing"},
         NEW val \in Deadlines \cup Gates \cup {0},
         Persist(p, Entry(NextKind(Seen(p)), val), pc), UNCHANGED performed,
         \/ proc[p].pc = "driving" /\ ~Rests(p)
         \/ proc[p].pc = "recording" /\ val = 0,
         NextKind(Seen(p)) = "SleepStarted" => val \in Deadlines,
         NextKind(Seen(p)) = "Resumed" => val = proc[p].input,
         NextKind(Seen(p)) \notin {"SleepStarted", "Resumed"} => val = 0,
         pc = "executing" => NextKind(Seen(p)) \in Calls
  PROVE  CoreInv' /\ DurableStep
  <1> DEFINE e == Entry(NextKind(Seen(p)), val)
             me == [proc[p] EXCEPT !.at = @ + 1, !.seen = @ + 1, !.pc = pc,
                                   !.input = IF e.kind = "Resumed" THEN 0 ELSE @]
  <1>1. CASE len # proc[p].at
    BY <1>1, GotoIsQuiet DEF Persist
  <1>2. CASE len = proc[p].at
    <2>1. /\ work' = Append(work, e) /\ len' = len + 1 /\ proc' = [proc EXCEPT ![p] = me]
          /\ UNCHANGED <<clock, performed>>
      BY <1>2 DEF Persist, Become
    <2>2. /\ proc[p] \in Procs /\ SoundIn(proc[p], work, len) /\ work \in Seq(Events)
          /\ proc[p].seen = Len(work) /\ Seen(p) \in Seq(Events) /\ Len(Seen(p)) = Len(work)
          /\ Len(work) \in Nat
          /\ LastKind(Seen(p)) = LastKind(work)
          /\ Len(work) # 0 => Seen(p)[Len(work)] = work[Len(work)]
      BY <1>2, SeenByLast, StatusByLast DEF CoreInv, RunTyped
    <2>3. e.kind = Plan[Len(work) + 1] /\ NextKind(Seen(p)) = Plan[Len(work) + 1]
      BY <2>2 DEF Entry, NextKind
    <2>4. ~Terminal(work)
      <3>1. CASE proc[p].pc = "driving" /\ ~Rests(p)
        BY <2>2, <3>1 DEF Rests, Terminal
      <3>2. CASE proc[p].pc = "recording"
        BY <2>2, <3>2, StatusByLast DEF SoundIn, Terminal, Terminals, Calls
      <3> QED BY <3>1, <3>2
    <2>5. /\ Len(work) + 1 \in 1..Len(Plan)
          /\ \A i \in 1..Len(work) : work[i].kind = Plan[i]
      BY <2>4, KindsOfLog
    <2>6. e \in Events
      BY <2>3, <2>5, PlanIsPaired, DriveAssumption DEF Entry, Events, Gates, Positions
    <2>7. /\ Plan[Len(work) + 1] = "Resumed" => Len(work) # 0 /\ LastKind(work) = "Suspended"
          /\ Plan[Len(work) + 1] = "SleepCompleted" =>
               Len(work) # 0 /\ LastKind(work) = "SleepStarted"
          /\ Len(work) # 0 /\ LastKind(work) = "Suspended" => Plan[Len(work) + 1] = "Resumed"
          /\ Len(work) # 0 /\ LastKind(work) \in Calls =>
               Plan[Len(work) + 1] \in {"ModelCallCompleted", "ToolCallCompleted"}
      <3>1. (Len(work) + 1) - 1 = Len(work) /\ Len(work) \in 0..Len(Plan)
        BY <2>2, KindsOfLog
      <3>2. Len(work) # 0 => Len(work) \in 1..Len(Plan) /\ LastKind(work) = Plan[Len(work)]
        BY <2>2, <2>5, <3>1, StatusByLast
      <3>3. /\ Plan[Len(work) + 1] = "SleepCompleted" =>
                 Len(work) \in 1..Len(Plan) /\ Plan[Len(work)] = "SleepStarted"
            /\ Plan[Len(work) + 1] = "Resumed" =>
                 Len(work) \in 1..Len(Plan) /\ Plan[Len(work)] = "Suspended"
        BY <2>5, <3>1, PlanIsPaired
      <3>4. Len(work) \in 1..Len(Plan) /\ Plan[Len(work)] \in DOMAIN Answer =>
              Plan[Len(work) + 1] = Answer[Plan[Len(work)]]
        BY PlanIsPaired
      <3> QED BY <2>2, <3>2, <3>3, <3>4, Answers DEF Calls
    <2>8. me.input = 0 /\ me \in Procs
      <3>1. proc[p].input # 0 => e.kind = "Resumed"
        BY <2>2, <2>3, <2>7, StatusByLast DEF SoundIn
      <3> HIDE DEF e
      <3>2. /\ (IF e.kind = "Resumed" THEN 0 ELSE proc[p].input) = 0
            /\ proc[p].at + 1 \in Nat /\ proc[p].seen + 1 \in Nat
        BY <2>2, <3>1 DEF Procs
      <3> QED BY <2>2, <3>2 DEF Procs
    <2>9. CoreInv'
      <3>1. me.seen = Len(work) + 1 /\ me.at = len + 1 /\ me.pc = pc
        BY <1>2, <2>2 DEF Procs
      <3>2. me.pc = "executing" => e.kind \in Calls
        BY <2>3, <3>1
      <3> HIDE DEF e, me
      <3> QED BY <2>1, <2>3, <2>4, <2>6, <2>8, <3>1, <3>2, DriveAppends
    <2>10. Plan[Len(work) + 1] = "Resumed" => Accepts(Len(work), val)
      <3> SUFFICES ASSUME Plan[Len(work) + 1] = "Resumed" PROVE Accepts(Len(work), val)
        OBVIOUS
      <3>1. LastKind(work) = "Suspended" /\ Len(work) # 0 /\ val = proc[p].input
        BY <2>3, <2>7
      <3>2. proc[p].pc = "driving" /\ ~Rests(p)
        BY <2>2, <3>1, StatusByLast DEF SoundIn, Calls
      <3>3. proc[p].input # 0
        BY <2>2, <3>1, <3>2, StatusByLast DEF Rests
      <3> QED BY <2>2, <3>1, <3>2, <3>3 DEF SoundIn
    <2>11. Plan[Len(work) + 1] = "SleepCompleted" => clock >= WakeAt(work)
      <3> SUFFICES ASSUME Plan[Len(work) + 1] = "SleepCompleted" PROVE clock >= WakeAt(work)
        OBVIOUS
      <3>1. LastKind(work) = "SleepStarted" /\ Len(work) # 0
        BY <2>7
      <3>2. proc[p].pc = "driving" /\ ~Rests(p)
        BY <2>2, <3>1, StatusByLast DEF SoundIn, Calls
      <3>3. ~(clock < WakeAt(Seen(p))) /\ WakeAt(Seen(p)) = WakeAt(work)
        BY <2>2, <3>1, <3>2, StatusByLast DEF Rests, WakeAt
      <3>4. clock \in Nat /\ WakeAt(work) \in Nat
        BY <2>2, <3>1, KindsOfLog, DriveAssumption DEF CoreInv, RunTyped, WakeAt, Events
      <3> QED BY <3>3, <3>4
    <2>12. DurableStep
      BY <2>1, <2>3, <2>4, <2>10, <2>11, DurableRecords
    <2> QED BY <2>9, <2>12
  <1> QED BY <1>1, <1>2

----------------------------------------------------------------------------
(* The actions of handlers and tasks that leave the log's work alone.       *)

LEMMA ProcIsSound ==
  ASSUME CoreInv, NEW p \in Proc
  PROVE  /\ proc[p] \in Procs /\ SoundIn(proc[p], work, len)
         /\ len \in Nat /\ Len(work) \in Nat /\ Len(work) <= len
         /\ Idle \in Procs /\ Idle.at = 0 /\ Idle.seen = 0 /\ Idle.pc = "idle"
  BY DEF CoreInv, RunTyped, LogIsPlan, Procs, Idle

\* A process that has read nothing, or is in no call of its own, is sound.
LEMMA StartsOver ==
  ASSUME CoreInv, NEW p \in Proc, NEW me \in Procs, Become(p, me),
         me.at = 0, me.seen = 0, me.pc \notin {"driving", "executing", "recording"},
         UNCHANGED <<work, len, clock, performed>>
  PROVE  CoreInv' /\ DurableStep
  <1>1. SoundIn(me, work, len')
    BY ProcIsSound DEF SoundIn
  <1> QED BY <1>1, QuietStep, NothingDurable DEF Become

LEMMA GoesOn ==
  ASSUME CoreInv, NEW p \in Proc, NEW pc, [proc[p] EXCEPT !.pc = pc] \in Procs, Goto(p, pc),
         pc \notin {"driving", "executing", "recording"},
         UNCHANGED <<work, clock, performed>>, len' = len \/ len' = len + 1
  PROVE  CoreInv' /\ DurableStep
  <1> DEFINE me == [proc[p] EXCEPT !.pc = pc]
  <1>1. proc[p] \in Procs /\ SoundIn(proc[p], work, len) /\ len \in Nat
    BY ProcIsSound
  <1>2. me.pc = pc
    BY <1>1 DEF Procs
  <1>3. len' = len => SoundIn(me, work, len')
    BY <1>1, <1>2 DEF SoundIn, Procs
  <1>4. len' = len + 1 => SoundIn(me, work, len')
    BY <1>1, <1>2 DEF SoundIn, Procs
  <1>5. proc' = [proc EXCEPT ![p] = me]
    BY DEF Goto, Become
  <1> HIDE DEF me
  <1>6. me \in Procs
    BY DEF me
  <1> QED BY <1>2, <1>3, <1>4, <1>5, <1>6, QuietStep, NothingDurable

LEMMA SelectStep ==
  ASSUME CoreInv, NEW p \in Proc, NEW s \in Server, Select(s, p)
  PROVE  CoreInv' /\ DurableStep
  <1> DEFINE me == [Idle EXCEPT !.pc = "due", !.srv = s, !.by = "sweeper"]
  <1>1. me \in Procs /\ me.at = 0 /\ me.seen = 0 /\ me.pc = "due"
    BY DEF Idle, Procs
  <1> HIDE DEF me
  <1> QED BY <1>1, StartsOver DEF Select, me

LEMMA SkipActiveStep ==
  ASSUME CoreInv, NEW p \in Proc, SkipActive(p)
  PROVE  CoreInv' /\ DurableStep
  <1>1. [proc[p] EXCEPT !.pc = "building"] \in Procs
    BY ProcIsSound DEF Procs
  <1> QED BY <1>1, ProcIsSound, StartsOver, GoesOn DEF SkipActive

LEMMA AskStep ==
  ASSUME CoreInv, NEW p \in Proc, NEW s \in Server, Ask(s, p)
  PROVE  CoreInv' /\ DurableStep
  <1> DEFINE me == [Idle EXCEPT !.pc = "asked", !.srv = s,
                      !.input = IF Status(work) = "suspended" THEN Len(work) ELSE 0]
  <1>1. Status(work) = "suspended" => Len(work) \in Gates
    <2>1. work \in Seq(Events)
      BY DEF CoreInv, RunTyped
    <2> QED BY <2>1, KindsOfLog, StatusByLast DEF Gates, Positions
  <1>2. (IF Status(work) = "suspended" THEN Len(work) ELSE 0) \in Gates \cup {0}
    BY <1>1
  <1>3. me \in Procs /\ me.at = 0 /\ me.seen = 0 /\ me.pc = "asked"
    BY <1>2 DEF Idle, Procs
  <1> HIDE DEF me
  <1> QED BY <1>3, StartsOver DEF Ask, me

LEMMA DispatchStep ==
  ASSUME CoreInv, NEW p \in Proc, Dispatch(p)
  PROVE  CoreInv' /\ DurableStep
  <1> DEFINE me == [proc[p] EXCEPT !.pc = "building", !.input = 0]
  <1>1. [proc[p] EXCEPT !.pc = "building"] \in Procs /\ me \in Procs
    BY ProcIsSound DEF Procs
  <1>2. UNCHANGED <<work, len, clock, performed>>
    BY DEF Dispatch
  <1>3. CASE Become(p, Idle)
    BY <1>2, <1>3, ProcIsSound, StartsOver
  <1>4. CASE Goto(p, "building")
    BY <1>1, <1>2, <1>4, GoesOn
  <1>5. CASE Become(p, me)
    <2>1. SoundIn(me, work, len') /\ me.pc = "building"
      BY <1>2, ProcIsSound DEF SoundIn, Procs
    <2> HIDE DEF me
    <2> QED BY <1>1, <1>2, <1>5, <2>1, QuietStep, NothingDurable DEF Become
  <1> QED BY <1>3, <1>4, <1>5 DEF Dispatch

LEMMA ReadForMarkStep ==
  ASSUME CoreInv, NEW p \in Proc, ReadForMark(p)
  PROVE  CoreInv' /\ DurableStep
  <1> DEFINE me == [proc[p] EXCEPT !.pc = "marking", !.at = len, !.seen = Len(work)]
  <1>1. me \in Procs /\ me.pc = "marking" /\ me.at = len /\ me.seen = Len(work)
    BY ProcIsSound DEF Procs
  <1>2. CASE Become(p, me)
    <2> HIDE DEF me
    <2>1. SoundIn(me, work, len)
      BY <1>1, ProcIsSound DEF SoundIn
    <2> QED BY <1>1, <1>2, <2>1, QuietStep, NothingDurable DEF Become, ReadForMark
  <1> QED BY <1>2, ProcIsSound, StartsOver DEF ReadForMark

LEMMA MarkStep ==
  ASSUME CoreInv, NEW p \in Proc, Mark(p)
  PROVE  CoreInv' /\ DurableStep
  <1>1. [proc[p] EXCEPT !.pc = "spawning"] \in Procs
    BY ProcIsSound DEF Procs
  <1> QED BY <1>1, ProcIsSound, StartsOver, GoesOn DEF Mark

LEMMA SpawnStep ==
  ASSUME CoreInv, NEW p \in Proc, Spawn(p)
  PROVE  CoreInv' /\ DurableStep
  <1> DEFINE me == [proc[p] EXCEPT !.pc = "spawned", !.by = "request", !.at = 0, !.seen = 0]
  <1>1. me \in Procs /\ me.at = 0 /\ me.seen = 0 /\ me.pc = "spawned"
    BY ProcIsSound DEF Procs
  <1> HIDE DEF me
  <1> QED BY <1>1, StartsOver DEF Spawn, me

LEMMA ReadLogStep ==
  ASSUME CoreInv, NEW p \in Proc, ReadLog(p)
  PROVE  CoreInv' /\ DurableStep
  <1> DEFINE me == [proc[p] EXCEPT !.pc = "driving", !.at = len, !.seen = Len(work)]
             input == proc[p].input
  <1>1. CASE input = 0 \/ (Status(work) = "suspended" /\ Accepts(Len(work), input))
    <2>1. me \in Procs /\ me.pc = "driving" /\ me.input = input
          /\ me.at = len /\ me.seen = Len(work)
      BY ProcIsSound DEF Procs
    <2>2. Status(work) = "suspended" => Len(work) # 0 /\ work[Len(work)].kind = "Suspended"
      BY StatusByLast DEF CoreInv, RunTyped
    <2>3. proc' = [proc EXCEPT ![p] = me] /\ UNCHANGED <<work, len, clock, performed>>
      BY <1>1 DEF ReadLog, Become
    <2> HIDE DEF me
    <2>4. SoundIn(me, work, len')
      BY <1>1, <2>1, <2>2, <2>3, ProcIsSound DEF SoundIn
    <2> QED BY <2>1, <2>3, <2>4, QuietStep, NothingDurable
  <1>2. CASE ~(input = 0 \/ (Status(work) = "suspended" /\ Accepts(Len(work), input)))
    BY <1>2, GotoIsQuiet DEF ReadLog
  <1> QED BY <1>1, <1>2

LEMMA RestStep ==
  ASSUME CoreInv, NEW p \in Proc, Rest(p)
  PROVE  CoreInv' /\ DurableStep
  BY GotoIsQuiet DEF Rest

LEMMA ReissueStep ==
  ASSUME CoreInv, NEW p \in Proc, Reissue(p)
  PROVE  CoreInv' /\ DurableStep
  <1> DEFINE me == [proc[p] EXCEPT !.pc = "executing"]
  <1>1. proc[p].seen # 0 /\ work[proc[p].seen].kind = "ModelCallRequested"
    BY SeenByLast, StatusByLast DEF Reissue
  <1>2. proc[p].input = 0
    BY <1>1, ProcIsSound DEF SoundIn, Reissue
  <1>3. me \in Procs /\ me.pc = "executing" /\ me.seen = proc[p].seen /\ me.input = 0
        /\ me.at = proc[p].at
    BY <1>2, ProcIsSound DEF Procs
  <1>4. proc[p].seen \notin Writes
    BY <1>1, KindsOfLog, SeenByLast DEF Writes, Positions
  <1>5. proc' = [proc EXCEPT ![p] = me] /\ UNCHANGED <<work, len, clock, performed>>
    BY DEF Reissue, Goto, Become
  <1> HIDE DEF me
  <1>6. SoundIn(me, work, len')
    BY <1>1, <1>3, <1>5, ProcIsSound DEF SoundIn, Calls
  <1> QED BY <1>3, <1>4, <1>5, <1>6, QuietStep, NothingDurable

LEMMA EndRunStep ==
  ASSUME CoreInv, NEW p \in Proc, EndRun(p)
  PROVE  CoreInv' /\ DurableStep
  BY ProcIsSound, StartsOver DEF EndRun

----------------------------------------------------------------------------
(* The actions that write the log or the world.                             *)

LEMMA StepStep ==
  ASSUME CoreInv, NEW p \in Proc, Step(p)
  PROVE  CoreInv' /\ DurableStep
  <1> DEFINE kind == NextKind(Seen(p))
             pc == IF kind \in Calls THEN "executing" ELSE "driving"
             vals == IF kind = "SleepStarted" THEN Deadlines
                     ELSE IF kind = "Resumed" THEN {proc[p].input} ELSE {0}
  <1>1. PICK val \in vals : Persist(p, Entry(kind, val), pc)
    BY DEF Step
  <1>2. val \in Deadlines \cup Gates \cup {0}
    BY <1>1, ProcIsSound DEF Procs
  <1>3. pc \in {"driving", "executing"}
    OBVIOUS
  <1>4. UNCHANGED performed
    BY <1>1 DEF Persist, world
  <1>5. proc[p].pc = "driving" /\ ~Rests(p)
    BY DEF Step
  <1> QED BY <1>1, <1>2, <1>3, <1>4, <1>5, PersistStep

LEMMA RecordCompletionStep ==
  ASSUME CoreInv, NEW p \in Proc, RecordCompletion(p)
  PROVE  CoreInv' /\ DurableStep
  <1> DEFINE kind == NextKind(Seen(p))
  <1>1. proc[p].pc = "recording" /\ Persist(p, Entry(kind, 0), "driving") /\ UNCHANGED performed
    BY DEF RecordCompletion, Persist
  <1>2. proc[p].seen \in 1..Len(work) /\ work[proc[p].seen].kind \in Calls /\ proc[p].input = 0
    BY <1>1, ProcIsSound, SeenByLast DEF SoundIn
  <1>3. Plan[proc[p].seen] \in Calls
    BY <1>2, KindsOfLog DEF Calls
  <1>4. kind \in {"ModelCallCompleted", "ToolCallCompleted"}
    <2>1. kind = Plan[proc[p].seen + 1]
      BY SeenByLast DEF NextKind
    <2>2. proc[p].seen \in 1..Len(Plan)
      BY <1>2, KindsOfLog
    <2> QED BY <1>3, <2>1, <2>2, PlanIsPaired, Answers DEF Calls
  <1> QED BY <1>1, <1>4, PersistStep

LEMMA ExecuteStep ==
  ASSUME CoreInv, NEW p \in Proc, Execute(p)
  PROVE  CoreInv' /\ DurableStep
  <1> DEFINE i == Len(Seen(p))
             me == [proc[p] EXCEPT !.pc = "recording"]
  <1>1. /\ i = proc[p].seen /\ i \in 0..Len(work)
        /\ proc[p].pc = "executing"
        /\ proc' = [proc EXCEPT ![p] = me]
        /\ performed' = IF i \in Writes THEN [performed EXCEPT ![i] = @ + 1] ELSE performed
        /\ UNCHANGED <<work, len, clock>>
    BY SeenByLast DEF Execute, Goto, Become
  <1>2. me \in Procs /\ SoundIn(me, work, len) /\ me.pc = "recording"
    BY <1>1, ProcIsSound DEF SoundIn, Procs
  <1> HIDE DEF me, i
  <1>3. /\ proc \in [Proc -> Procs] /\ performed \in [Writes -> Nat] /\ WritesOnce
        /\ \A q \in Proc : SoundIn(proc[q], work, len)
    BY DEF CoreInv, RunTyped
  <1>4. RunTyped' /\ LogIsPlan'
    BY <1>1, <1>2, <1>3 DEF CoreInv, RunTyped, LogIsPlan
  <1>5. \A q \in Proc : SoundIn(proc'[q], work', len')
    BY <1>1, <1>2, <1>3
  <1>6. WritesOnce'
    <2>1. \A j \in Writes : j > Len(work') => performed'[j] = 0
      BY <1>1, <1>3 DEF WritesOnce, Writes, Positions
    <2>2. ASSUME NEW q \in Proc, proc'[q].pc = "executing", proc'[q].seen \in Writes
          PROVE  /\ performed'[proc'[q].seen] = 0
                 /\ \A o \in Proc \ {q} :
                      ~(proc'[o].pc = "executing" /\ proc'[o].seen = proc'[q].seen)
      <3>1. q # p /\ proc'[q] = proc[q]
        BY <1>1, <1>2, <1>3, <2>2
      <3>2. /\ performed[proc[q].seen] = 0
            /\ \A o \in Proc \ {q} : ~(proc[o].pc = "executing" /\ proc[o].seen = proc[q].seen)
        BY <1>3, <2>2, <3>1 DEF WritesOnce
      <3>3. proc[q].seen # i
        BY <1>1, <3>1, <3>2
      <3>4. \A o \in Proc \ {q} : proc'[o].pc = "executing" => proc'[o] = proc[o]
        BY <1>1, <1>2, <1>3
      <3> QED BY <1>1, <1>3, <2>2, <3>1, <3>2, <3>3, <3>4
    <2> QED BY <2>1, <2>2 DEF WritesOnce
  <1>7. DurableStep
    <2>1. CASE i \in Writes
      <3>1. performed[i] = 0 /\ i <= Len(work)
        BY <1>1, <1>3, <2>1 DEF WritesOnce
      <3>2. i \in Durable!Writes
        BY <2>1 DEF Writes, Positions, Durable!Writes, Durable!Positions
      <3>3. performed' = [performed EXCEPT ![i] = 1]
        BY <1>1, <1>3, <2>1, <3>1
      <3>4. Durable!Perform(i)
        BY <1>1, <3>1, <3>3 DEF Durable!Perform
      <3> QED BY <3>2, <3>4 DEF DurableStep, Durable!Next
    <2>2. CASE i \notin Writes
      BY <1>1, <2>2, NothingDurable
    <2> QED BY <2>1, <2>2
  <1> QED BY <1>4, <1>5, <1>6, <1>7 DEF CoreInv

LEMMA ResolveStep ==
  ASSUME CoreInv, Resolve
  PROVE  CoreInv' /\ DurableStep
  <1> DEFINE e == Entry("ToolCallCompleted", 0)
  <1>1. work \in Seq(Events) /\ Len(work) # 0 /\ work[Len(work)].kind = "ToolCallRequested"
    BY StatusByLast DEF Resolve, CoreInv, RunTyped
  <1>2. ~Terminal(work)
    BY <1>1, StatusByLast DEF Terminal, Terminals
  <1>3. Plan[Len(work) + 1] = "ToolCallCompleted" /\ e \in Events
    <2>1. Len(work) \in 1..Len(Plan) /\ Plan[Len(work)] = "ToolCallRequested"
      BY <1>1, KindsOfLog
    <2>2. Plan[Len(work) + 1] = "ToolCallCompleted" /\ "ToolCallCompleted" \in Kinds
      BY <2>1, PlanIsPaired, Answers DEF Kinds
    <2> QED BY <2>2 DEF Entry, Events
  <1>4. e.kind = Plan[Len(work) + 1]
    BY <1>3 DEF Entry
  <1>5. work' = Append(work, e) /\ len' = len + 1 /\ UNCHANGED <<clock, performed, proc>>
    BY DEF Resolve
  <1>6. CoreInv'
    <2> HIDE DEF e
    <2> QED BY <1>2, <1>3, <1>4, <1>5, OthersAppend
  <1> QED BY <1>2, <1>3, <1>5, <1>6, DurableRecords

LEMMA AbandonStep ==
  ASSUME CoreInv, Abandon
  PROVE  CoreInv' /\ DurableStep
  <1> DEFINE e == Entry("RunAbandoned", 0)
  <1>1. e \in Events /\ e.kind = "RunAbandoned"
    BY DEF Entry, Events
  <1>2. /\ work' = Append(work, e) /\ len' = len + 1 /\ UNCHANGED <<clock, performed, proc>>
        /\ ~Terminal(work) /\ work # <<>>
    BY DEF Abandon
  <1>3. DurableStep
    BY <1>2, DurableAbandons
  <1> HIDE DEF e
  <1> QED BY <1>1, <1>2, <1>3, OthersAppend

LEMMA TickStep ==
  ASSUME CoreInv, Tick
  PROVE  CoreInv' /\ DurableStep
  <1>1. clock' \in 0..MaxClock
    BY DriveAssumption DEF Tick, CoreInv, RunTyped
  <1>2. UNCHANGED <<work, len, proc, performed>>
    BY DEF Tick
  <1>3. CoreInv'
    BY <1>1, <1>2 DEF CoreInv, RunTyped, LogIsPlan, WritesOnce
  <1>4. Durable!Tick
    BY DEF Tick, Durable!Tick
  <1> QED BY <1>3, <1>4 DEF DurableStep, Durable!Next

LEMMA CrashStep ==
  ASSUME CoreInv, NEW s \in Server, Crash(s)
  PROVE  CoreInv' /\ DurableStep
  <1>1. /\ proc' = [p \in Proc |-> IF proc[p].srv = s THEN Idle ELSE proc[p]]
        /\ UNCHANGED <<work, len, clock, performed>>
    BY DEF Crash
  <1>2. SoundIn(Idle, work, len) /\ Idle \in Procs /\ Idle.pc = "idle"
    BY DEF SoundIn, Idle, Procs, CoreInv, RunTyped, LogIsPlan
  <1>3. RunTyped' /\ LogIsPlan'
    BY <1>1, <1>2 DEF CoreInv, RunTyped, LogIsPlan
  <1>4. \A p \in Proc : SoundIn(proc'[p], work', len')
    BY <1>1, <1>2 DEF CoreInv
  <1>5. WritesOnce'
    BY <1>1, <1>2 DEF CoreInv, WritesOnce
  <1> QED BY <1>1, <1>3, <1>4, <1>5, NothingDurable DEF CoreInv

LEMMA StreamStep ==
  ASSUME CoreInv, UNCHANGED <<work, len, clock, proc, performed>>
  PROVE  CoreInv' /\ DurableStep
  <1>1. CoreInv'
    BY DEF CoreInv, RunTyped, LogIsPlan, WritesOnce
  <1> QED BY <1>1, NothingDurable

----------------------------------------------------------------------------
(* The active sets, the bounds and the streams keep their types.            *)

LEMMA WorldStaysTyped ==
  ASSUME CoreInv, WorldTyped, Next
  PROVE  WorldTyped'
  <1> USE DEF WorldTyped
  <1>0. {MaxRequests, MaxCrashes} \subseteq Nat /\ Len(work) \in Nat
    BY DriveAssumption DEF CoreInv, RunTyped
  <1>1. ASSUME NEW p \in Proc, Dispatch(p) \/ Sweep(p) \/ Drive(p)
        PROVE  WorldTyped'
    <2>1. UNCHANGED world
      BY <1>1 DEF Sweep, Drive, Dispatch, SkipActive, ReadForMark, Mark, Spawn, ReadLog, Rest,
                  Reissue, Step, Persist, Execute, RecordCompletion, EndRun
    <2>2. active' \in [Server -> BOOLEAN]
      <3>1. CASE Spawn(p) \/ EndRun(p)
        BY <3>1 DEF Spawn, EndRun
      <3>2. CASE ~(Spawn(p) \/ EndRun(p))
        BY <1>1, <3>2 DEF Sweep, Drive, Dispatch, SkipActive, ReadForMark, Mark, ReadLog, Rest,
                          Reissue, Step, Persist, Execute, RecordCompletion
      <3> QED BY <3>1, <3>2
    <2> QED BY <2>1, <2>2 DEF world
  <1>2. ASSUME NEW s \in Server, NEW p \in Proc, Select(s, p) \/ Ask(s, p)
        PROVE  WorldTyped'
    BY <1>0, <1>2 DEF Select, Ask, world
  <1>3. ASSUME NEW s \in Server, Crash(s)
        PROVE  WorldTyped'
    BY <1>0, <1>3 DEF Crash, Stream, Unopened
  <1>4. ASSUME NEW s \in Streams, Open(s) \/ Poll(s) \/ Conclude(s)
        PROVE  WorldTyped'
    <2>1. stream[s] \in Stream
      OBVIOUS
    <2>2. CASE Open(s)
      BY <2>1, <2>2 DEF Open, Stream
    <2>3. CASE Poll(s)
      BY <1>0, <2>3 DEF Poll, Stream
    <2>4. CASE Conclude(s)
      BY <2>1, <2>4 DEF Conclude, Stream
    <2> QED BY <1>4, <2>2, <2>3, <2>4
  <1>5. CASE Resolve \/ Abandon \/ Tick
    BY <1>5 DEF Resolve, Abandon, Tick, world
  <1> QED BY <1>1, <1>2, <1>3, <1>4, <1>5 DEF Next

----------------------------------------------------------------------------
(* The theorems.                                                            *)

LEMMA StartsInside == Init => CoreInv /\ WorldTyped
  <1> SUFFICES ASSUME Init PROVE CoreInv /\ WorldTyped
    OBVIOUS
  <1>1. PICK s \in Server, p \in Proc :
          /\ active = [t \in Server |-> t = s]
          /\ proc = [q \in Proc |-> IF q = p THEN [Idle EXCEPT !.pc = "spawned", !.srv = s]
                                    ELSE Idle]
    BY DEF Init
  <1>2. /\ work = <<>> /\ work \in Seq(Events) /\ Len(work) = 0 /\ len = 0 /\ clock = 0
        /\ performed = [i \in Writes |-> 0] /\ requests = 0 /\ crashes = 0
        /\ stream = [t \in Streams |-> Unopened]
    BY EmptySeq DEF Init
  <1>3. \A q \in Proc : /\ proc[q] \in Procs /\ proc[q].at = 0 /\ proc[q].seen = 0
                        /\ proc[q].pc \in {"idle", "spawned"}
    BY <1>1 DEF Idle, Procs
  <1>4. RunTyped
    <2>1. proc \in [Proc -> Procs]
      BY <1>1, <1>3
    <2>2. clock \in 0..MaxClock
      BY <1>2, DriveAssumption
    <2> QED BY <1>2, <2>1, <2>2 DEF RunTyped
  <1>5. LogIsPlan
    BY <1>2, PlanIsPaired DEF LogIsPlan
  <1>6. \A q \in Proc : SoundIn(proc[q], work, len)
    BY <1>2, <1>3 DEF SoundIn
  <1>7. WritesOnce
    BY <1>2, <1>3 DEF WritesOnce
  <1>8. WorldTyped
    BY <1>1, <1>2, DriveAssumption DEF WorldTyped, Stream, Unopened
  <1> QED BY <1>4, <1>5, <1>6, <1>7, <1>8 DEF CoreInv

LEMMA NextIsSound ==
  ASSUME CoreInv, Next
  PROVE  CoreInv' /\ DurableStep
  <1>1. ASSUME NEW p \in Proc, Dispatch(p) \/ Sweep(p) \/ Drive(p)
        PROVE  CoreInv' /\ DurableStep
    BY <1>1, DispatchStep, SkipActiveStep, ReadForMarkStep, MarkStep, SpawnStep, ReadLogStep,
       RestStep, ReissueStep, StepStep, ExecuteStep, RecordCompletionStep, EndRunStep
    DEF Sweep, Drive
  <1>2. ASSUME NEW s \in Streams, Open(s) \/ Poll(s) \/ Conclude(s)
        PROVE  CoreInv' /\ DurableStep
    BY <1>2, StreamStep DEF Open, Poll, Conclude
  <1> QED
    BY <1>1, <1>2, SelectStep, AskStep, CrashStep, ResolveStep, AbandonStep, TickStep DEF Next

LEMMA Unmoved ==
  ASSUME CoreInv, WorldTyped, UNCHANGED vars
  PROVE  CoreInv' /\ WorldTyped' /\ DurableStep
  <1>1. CoreInv' /\ DurableStep
    BY StreamStep DEF vars
  <1>2. WorldTyped'
    BY DEF vars, world, WorldTyped
  <1> QED BY <1>1, <1>2

\* Every drive knows a prefix of the log, stands where its call or its answer
\* belongs, and no write is in two hands: in every reachable state.
THEOREM DrivesAreSound == Spec => []DriveInv
  <1>1. Init => CoreInv /\ WorldTyped
    BY StartsInside
  <1>2. CoreInv /\ WorldTyped /\ [Next]_vars => (CoreInv /\ WorldTyped)'
    BY NextIsSound, WorldStaysTyped, Unmoved
  <1>3. CoreInv /\ WorldTyped => DriveInv
    BY DriveInvIsCore
  <1> QED BY <1>1, <1>2, <1>3, PTL DEF Spec

\* Every variable keeps its type.
THEOREM TypeCorrect == Spec => []TypeOK
  <1>1. DriveInv => TypeOK
    BY DEF DriveInv
  <1> QED BY <1>1, DrivesAreSound, PTL

\* Whoever drives the run, and however their reads, marks, appends, requests
\* and deaths interleave, its log is one execution of its agent: sleeps end no
\* earlier than their deadline, gates open to answers that fit, and no write is
\* performed twice or unrecorded.
THEOREM DrivesOneRun == Spec => ImplementsRun
  <1>1. Init => Durable!Init
    BY DEF Init, Durable!Init, Writes, Positions, Durable!Writes, Durable!Positions
  <1>2. DriveInv /\ [Next]_vars => [Durable!Next]_(Durable!runVars)
    BY DriveInvIsCore, NextIsSound, Unmoved DEF DurableStep
  <1> QED BY <1>1, <1>2, DrivesAreSound, PTL DEF Spec, ImplementsRun, Durable!Spec

----------------------------------------------------------------------------
(* The active set.                                                          *)

\* A step of one task, or of a handler, that leaves the active set alone.
LEMMA TasksGoOn ==
  ASSUME ActiveIsDriven, NEW p \in Proc, active' = active,
         \A q \in Proc \ {p} : proc'[q] = proc[q],
         proc[p].pc \in Driving => proc'[p].pc \in Driving /\ proc'[p].srv = proc[p].srv
  PROVE  ActiveIsDriven'
  <1> SUFFICES ASSUME NEW s \in Server, active[s] PROVE \E q \in Proc : q \in Drives(s)'
    BY DEF ActiveIsDriven
  <1>1. PICK q \in Proc : proc[q].srv = s /\ proc[q].pc \in Driving
    BY DEF ActiveIsDriven, Drives
  <1>2. proc'[q].srv = s /\ proc'[q].pc \in Driving
    BY <1>1
  <1> QED
    BY <1>2 DEF Drives

\* Neither the set nor a task is touched.
LEMMA NobodyMoves ==
  ASSUME ActiveIsDriven, UNCHANGED <<active, proc>>
  PROVE  ActiveIsDriven'
  BY DEF ActiveIsDriven, Drives

LEMMA SpawnIsDriven ==
  ASSUME TypeOK, ActiveIsDriven, NEW p \in Proc, Spawn(p)
  PROVE  ActiveIsDriven'
  <1>1. /\ proc'[p].pc = "spawned" /\ proc'[p].srv = proc[p].srv
        /\ proc[p].pc \notin Driving
        /\ \A q \in Proc \ {p} : proc'[q] = proc[q]
        /\ \A s \in Server : active'[s] => active[s] \/ s = proc[p].srv
    BY DEF Spawn, Become, TypeOK, Procs, Driving
  <1> SUFFICES ASSUME NEW s \in Server, active'[s] PROVE \E q \in Proc : q \in Drives(s)'
    BY DEF ActiveIsDriven
  <1>2. CASE s = proc[p].srv
    BY <1>1, <1>2 DEF Drives, Driving
  <1>3. CASE s # proc[p].srv
    <2>1. PICK q \in Proc : proc[q].srv = s /\ proc[q].pc \in Driving
      BY <1>1, <1>3 DEF ActiveIsDriven, Drives
    <2> QED
      BY <1>1, <2>1 DEF Drives
  <1> QED BY <1>2, <1>3

\* The task that takes the run out may not be the last one: nothing is claimed of
\* its server any more.
LEMMA EndRunIsDriven ==
  ASSUME TypeOK, ActiveIsDriven, NEW p \in Proc, EndRun(p)
  PROVE  ActiveIsDriven'
  <1>1. /\ \A q \in Proc \ {p} : proc'[q] = proc[q]
        /\ \A s \in Server : active'[s] => active[s] /\ s # proc[p].srv
    BY DEF EndRun, Become, TypeOK
  <1> SUFFICES ASSUME NEW s \in Server, active'[s] PROVE \E q \in Proc : q \in Drives(s)'
    BY DEF ActiveIsDriven
  <1>2. PICK q \in Proc : proc[q].srv = s /\ proc[q].pc \in Driving
    BY <1>1 DEF ActiveIsDriven, Drives
  <1> QED
    BY <1>1, <1>2 DEF Drives

LEMMA CrashIsDriven ==
  ASSUME TypeOK, ActiveIsDriven, NEW t \in Server, Crash(t)
  PROVE  ActiveIsDriven'
  <1>1. /\ \A q \in Proc : proc[q].srv # t => proc'[q] = proc[q]
        /\ \A s \in Server : active'[s] => active[s] /\ s # t
    BY DEF Crash, TypeOK
  <1> SUFFICES ASSUME NEW s \in Server, active'[s] PROVE \E q \in Proc : q \in Drives(s)'
    BY DEF ActiveIsDriven
  <1>2. PICK q \in Proc : proc[q].srv = s /\ proc[q].pc \in Driving
    BY <1>1 DEF ActiveIsDriven, Drives
  <1> QED
    BY <1>1, <1>2 DEF Drives

\* A handler or a task at work that neither spawns nor ends.
LEMMA WorkIsDriven ==
  ASSUME TypeOK, ActiveIsDriven, NEW p \in Proc,
         Dispatch(p) \/ SkipActive(p) \/ ReadForMark(p) \/ Mark(p) \/ Drive(p), ~EndRun(p)
  PROVE  ActiveIsDriven'
  <1>1. proc[p] \in Procs /\ proc \in [Proc -> Procs]
    BY DEF TypeOK
  <1>2. CASE Dispatch(p) \/ SkipActive(p) \/ ReadForMark(p) \/ Mark(p)
    <2>1. active' = active /\ proc[p].pc \notin Driving
      BY <1>2 DEF Dispatch, SkipActive, ReadForMark, Mark, Driving
    <2>2. \A q \in Proc \ {p} : proc'[q] = proc[q]
      BY <1>1, <1>2 DEF Dispatch, SkipActive, ReadForMark, Mark, Goto, Become
    <2> QED
      BY <2>1, <2>2, TasksGoOn
  <1>3. CASE ReadLog(p) \/ Rest(p) \/ Reissue(p) \/ Execute(p)
    <2>1. active' = active
      BY <1>3 DEF ReadLog, Rest, Reissue, Execute
    <2>2. /\ \A q \in Proc \ {p} : proc'[q] = proc[q]
          /\ proc'[p].pc \in {"driving", "executing", "recording", "ending"}
          /\ proc'[p].srv = proc[p].srv
      <3>1. CASE ReadLog(p)
        <4>1. \/ Become(p, [proc[p] EXCEPT !.pc = "driving", !.at = len, !.seen = Len(work)])
              \/ Goto(p, "ending")
          BY <3>1, Zenon DEF ReadLog
        <4> QED
          BY <1>1, <4>1 DEF Goto, Become, Procs
      <3>2. CASE Rest(p) \/ Reissue(p)
        BY <1>1, <3>2 DEF Rest, Reissue, Goto, Become, Procs
      <3>3. CASE Execute(p)
        BY <1>1, <3>3 DEF Execute, Goto, Become, Procs
      <3> QED
        BY <1>3, <3>1, <3>2, <3>3
    <2> QED
      BY <2>1, <2>2, TasksGoOn DEF Driving
  <1>4. CASE Step(p) \/ RecordCompletion(p)
    <2>1. ASSUME NEW e, NEW pc \in {"driving", "executing"}, Persist(p, e, pc)
          PROVE  ActiveIsDriven'
      <3>1. active' = active
        BY <2>1, Zenon DEF Persist
      <3>2. /\ \A q \in Proc \ {p} : proc'[q] = proc[q]
            /\ proc'[p].pc \in {"ending", pc}
            /\ proc'[p].srv = proc[p].srv
        <4>1. CASE len = proc[p].at
          <5>1. Become(p, [proc[p] EXCEPT !.at = @ + 1, !.seen = @ + 1, !.pc = pc,
                             !.input = IF e.kind = "Resumed" THEN 0 ELSE @])
            BY <2>1, <4>1, Zenon DEF Persist
          <5>2. /\ proc' = [proc EXCEPT ![p] = proc'[p]]
                /\ proc'[p].pc = pc /\ proc'[p].srv = proc[p].srv
            BY <1>1, <5>1 DEF Become, Procs
          <5> QED
            BY <1>1, <5>2
        <4>2. CASE len # proc[p].at
          <5>1. Goto(p, "ending")
            BY <2>1, <4>2, Zenon DEF Persist
          <5> QED
            BY <1>1, <5>1 DEF Goto, Become, Procs
        <4> QED BY <4>1, <4>2
      <3> QED
        BY <3>1, <3>2, TasksGoOn DEF Driving
    <2> QED
      BY <1>4, <2>1 DEF Step, RecordCompletion
  <1> QED
    BY <1>2, <1>3, <1>4 DEF Drive

\* A run in the active set of a process is driven there, in every reachable state:
\* nothing the sweeper passes over is left without a task.
THEOREM ActiveRunsAreDriven == Spec => []ActiveIsDriven
  <1>1. Init => ActiveIsDriven
    <2> SUFFICES ASSUME Init PROVE ActiveIsDriven
      OBVIOUS
    <2>1. PICK s \in Server, p \in Proc :
            /\ active = [t \in Server |-> t = s]
            /\ proc = [q \in Proc |->
                        IF q = p THEN [Idle EXCEPT !.pc = "spawned", !.srv = s] ELSE Idle]
      BY Zenon DEF Init
    <2>2. proc[p].srv = s /\ proc[p].pc = "spawned"
      BY <2>1 DEF Idle
    <2>3. \A t \in Server : active[t] => t = s
      BY <2>1
    <2> QED
      BY <2>2, <2>3 DEF ActiveIsDriven, Drives, Driving
  <1>2. TypeOK /\ ActiveIsDriven /\ [Next]_vars => ActiveIsDriven'
    <2> SUFFICES ASSUME TypeOK, ActiveIsDriven, [Next]_vars PROVE ActiveIsDriven'
      OBVIOUS
    <2>1. ASSUME NEW p \in Proc, Dispatch(p) \/ Sweep(p) \/ Drive(p)
          PROVE  ActiveIsDriven'
      BY <2>1, SpawnIsDriven, EndRunIsDriven, WorkIsDriven DEF Sweep
    <2>2. ASSUME NEW s \in Server, NEW p \in Proc, Select(s, p) \/ Ask(s, p)
          PROVE  ActiveIsDriven'
      <3>1. active' = active /\ proc[p].pc \notin Driving
        BY <2>2 DEF Select, Ask, Idle, Driving
      <3>2. \A q \in Proc \ {p} : proc'[q] = proc[q]
        BY <2>2 DEF Select, Ask, Become, TypeOK
      <3> QED
        BY <3>1, <3>2, TasksGoOn
    <2>3. CASE \/ \E s \in Streams : Open(s) \/ Poll(s) \/ Conclude(s)
               \/ Resolve \/ Abandon \/ Tick \/ UNCHANGED vars
      BY <2>3, NobodyMoves DEF Open, Poll, Conclude, Resolve, Abandon, Tick, vars
    <2> QED
      BY <2>1, <2>2, <2>3, CrashIsDriven DEF Next
  <1> QED BY <1>1, <1>2, TypeCorrect, PTL DEF Spec

=============================================================================
