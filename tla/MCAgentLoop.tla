---------------------------- MODULE MCAgentLoop ----------------------------
(* Agents with three tools: one that reads and may fail, one that writes and *)
(* may suspend the run, one that is retried under a key and may put it to     *)
(* sleep.                                                                     *)
EXTENDS AgentLoop

MCTool == {"look", "send", "fetch"}
MCEffect == [look |-> "Read", send |-> "Write", fetch |-> "Idempotent"]
MCOutcomes == [look |-> {"Output", "Failed"}, send |-> {"Output", "Suspended"},
               fetch |-> {"Sleeping"}]

Grant(extend) == [form |-> "", extend |-> extend]
Approval == [form |-> "approve", extend |-> [steps |-> 1]]

Bounds(turns, resumes, marks, deaths, time) ==
  [turns |-> turns, resumes |-> resumes, marks |-> marks, crashes |-> deaths, clock |-> time]

\* An agent under a wall time whose tools fail, suspend and sleep; one that must
\* answer in a declared shape; and one that two processes drive.
Free ==
  [structured |-> FALSE, limits |-> [steps |-> 1, wall_time |-> 1],
   responses |-> {<<>>, <<"look", "look">>, <<"send">>, <<"fetch">>},
   inputs |-> {Grant([steps |-> 1, wall_time |-> 0]), Grant([wall_time |-> 1]), Approval},
   drivers |-> {"p1"}, bounds |-> Bounds(2, 2, 0, 1, 2)]

Formal ==
  [structured |-> TRUE, limits |-> [tokens |-> 4, cost_usd |-> 3],
   responses |-> {<<>>, <<"look", "answer">>, <<"misfit">>, <<"answer">>, <<"ghost">>},
   inputs |-> {Grant([tokens |-> 2]), Grant([cost_usd |-> 2])},
   drivers |-> {"p1"}, bounds |-> Bounds(3, 2, 1, 0, 0)]

Shared ==
  [structured |-> FALSE, limits |-> [steps |-> 1], responses |-> {<<>>, <<"send">>},
   inputs |-> {Grant([steps |-> 1]), Approval},
   drivers |-> {"p1", "p2"}, bounds |-> Bounds(2, 1, 1, 0, 0)]

\* One whose tool sleeps, and nothing else happens to it.
Sleeper ==
  [structured |-> FALSE, limits |-> [wall_time |-> 3], responses |-> {<<>>, <<"fetch">>},
   inputs |-> {}, drivers |-> {"p1"}, bounds |-> Bounds(3, 0, 0, 0, 3)]

MCSleeper == {Sleeper}
MCAgents == {Free, Formal, Shared}

=============================================================================
