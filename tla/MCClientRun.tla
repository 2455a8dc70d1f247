---------------------------- MODULE MCClientRun ----------------------------
(* Programs and declarations for the runs of ClientRun.                      *)
EXTENDS ClientRun, TLC

CONSTANTS d1, d2, t1, t2, o1

\* "pay" is a keyed write its client performs and may report itself, "book" a
\* write the server performs, "ask" a model call the server makes.
Decls ==
  [pay |-> [kind |-> "Tool", by |-> "client", effect |-> "Write", keyed |-> TRUE,
            trusted |-> TRUE, pinned |-> TRUE],
   book |-> [kind |-> "Tool", by |-> "server", effect |-> "Write", keyed |-> FALSE,
             trusted |-> FALSE, pinned |-> FALSE],
   ask |-> [kind |-> "Model", by |-> "server", effect |-> "Read", keyed |-> FALSE,
            trusted |-> FALSE, pinned |-> FALSE]]

Calls == DOMAIN Decls

PayTwice == <<"RunStarted", "pay", "pay", "RunCompleted">>
PayOnce == <<"RunStarted", "pay", "RunCompleted">>
Booking == <<"RunStarted", "book", "RunCompleted">>
Napping == <<"RunStarted", "ask", "SleepStarted", "SleepCompleted", "RunCompleted">>

Mixed == {PayTwice, PayOnce, Booking, Napping}

\* The longest program is upset in the fewest ways.
MixedUpsets ==
  [p \in Mixed |->
     CASE p = PayTwice -> {}
       [] p = PayOnce -> {"quiet", "restart"}
       [] p = Napping -> {"quiet", "restart", "abandonment"}
       [] p = Booking -> {"quiet", "loss", "restart", "mark", "abandonment"}]

NoUpsets == [p \in Mixed |-> {}]

Short == {PayOnce, Booking, Napping}
LossUpsets == [p \in Short |-> {"quiet", "loss", "restart"}]

Symmetry == Permutations(Driver) \cup Permutations(Task)
=============================================================================
