---------------------------- MODULE MCSqliteStore ----------------------------
(* Files and symmetries for the runs of SqliteStore.                        *)
EXTENDS SqliteStore, TLC

CONSTANTS r1, r2, e1, e2

NewFile == [r \in Run |-> [s \in Seqs |-> NoEvent]]

\* Two runs of different lengths, as a binary without the chain recorded them.
OldFile == [r \in Run |-> [s \in Seqs |->
  IF s = 0 \/ (r = r2 /\ s = 1) THEN e1 ELSE NoEvent]]

Symmetry == Permutations(Conn) \cup Permutations(Event) \cup Permutations(Run)
OldSymmetry == Permutations(Conn)
=============================================================================
