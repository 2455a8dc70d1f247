----------------------------- MODULE MCToolCall -----------------------------
(* Programs for the runs of ToolCall.                                       *)
EXTENDS ToolCall, TLC

CONSTANTS r1, r2, k1, k2, i1, i2, p1, p2, o1, o2

Do(k, i, effect) == [ident |-> k, input |-> i, effect |-> effect]

\* Two runs present one key to the same Write, and the second goes on to an
\* Idempotent call, which is retried and re-entered, under a key of its own.
Shared ==
  (r1 :> <<Do(k1, i1, "Write")>>) @@
  (r2 :> <<Do(k1, i1, "Write"), Do(k2, i2, "Idempotent")>>)

\* Neither a process nor an output is treated differently from another.
Symmetry == Permutations(Proc) \cup Permutations(Output)
=============================================================================
