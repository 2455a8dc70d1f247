---------------------------- MODULE MCServerDrive ----------------------------
(* Agents and symmetries for the runs of ServerDrive.                        *)
EXTENDS ServerDrive, TLC

\* A model call, a tool that asks to sleep, and a write after waking.
Napper == <<"RunStarted", "ModelCallRequested", "ModelCallCompleted", "SleepStarted",
            "SleepCompleted", "ToolCallRequested", "ToolCallCompleted", "RunCompleted">>

\* A sleep, then a gate, a write behind it, another gate and a model call.
Clerk == <<"RunStarted", "SleepStarted", "SleepCompleted", "Suspended", "Resumed",
           "ToolCallRequested", "ToolCallCompleted", "Suspended", "Resumed",
           "ModelCallRequested", "ModelCallCompleted", "RunCompleted">>

Symmetry == Permutations(Server) \cup Permutations(Proc)
=============================================================================
