---------------------------- MODULE GraphEditor ----------------------------
(***************************************************************************)
(* The graph editor of salvor-cli-core (graph_editor.rs): a session's        *)
(* commands are its state, and the document is what they derive to.         *)
(*                                                                          *)
(* A command is a record of one field, named for what it does; the queries,  *)
(* which change nothing, are left out, and so is the text of a line.         *)
(***************************************************************************)
EXTENDS GraphDocument

AnyLabel == -1           \* remove edge without --label
NotADocument == [version |-> -1, nodes |-> <<>>, edges |-> <<>>]   \* text serde refuses

Add(node) == [add |-> node]
Draw(edge) == [draw |-> edge]
AddCase(id, case) == [case |-> case, of |-> id]
RemoveNode(id) == [remove_node |-> id]
RemoveEdges(from, to, label) == [remove_edges |-> [from |-> from, to |-> to, label |-> label]]
RemoveCase(id, name) == [remove_case |-> name, of |-> id]
Read(g) == [read |-> g]
Undo == [undo |-> 0]

EmptyDocument == [version |-> 1, nodes |-> <<>>, edges |-> <<>>]

EdgeMatches(edge, target) ==
  /\ edge.from = target.from /\ edge.to = target.to
  /\ target.label \in {AnyLabel, edge.label}

----------------------------------------------------------------------------
(* The document.                                                            *)

\* Where the first node of the id is, 0 if that is no branch.
BranchAt(g, id) ==
  LET i == SelectInSeq(g.nodes, LAMBDA n : n.id = id) IN
  IF i # 0 /\ g.nodes[i].kind = "branch" THEN i ELSE 0

\* One command of the fold.  A removed node takes its edges with it.
Derive(g, command) ==
  CASE IsA(command, "add") -> [g EXCEPT !.nodes = Append(@, command.add)]
    [] IsA(command, "draw") -> [g EXCEPT !.edges = Append(@, command.draw)]
    [] IsA(command, "case") ->
         LET i == BranchAt(g, command.of) IN
         IF i = 0 THEN g ELSE [g EXCEPT !.nodes[i].cases = Append(@, command.case)]
    [] IsA(command, "remove_node") ->
         [g EXCEPT !.nodes = SelectSeq(@, LAMBDA n : n.id # command.remove_node),
                   !.edges = SelectSeq(@, LAMBDA e : command.remove_node \notin {e.from, e.to})]
    [] IsA(command, "remove_edges") ->
         [g EXCEPT !.edges = SelectSeq(@, LAMBDA e : ~EdgeMatches(e, command.remove_edges))]
    [] IsA(command, "remove_case") ->
         LET i == BranchAt(g, command.of) IN
         IF i = 0 THEN g
         ELSE [g EXCEPT !.nodes[i].cases = SelectSeq(@, LAMBDA c : c.name # command.remove_case)]
    [] IsA(command, "read") -> IF command.read = NotADocument THEN g ELSE command.read

DeriveDocument(history) == FoldLeft(Derive, EmptyDocument, history)

----------------------------------------------------------------------------
(* The editor.                                                              *)

NewEditor == [history |-> <<>>, document |-> EmptyDocument]
FromHistory(history) == [history |-> history, document |-> DeriveDocument(history)]

\* The cases of a branch of the document, if it is one.
IsBranch(g, id) == id \in Ids(g) /\ NodeOf(g, id).kind = "branch"
HasCase(g, id, name) == IsBranch(g, id) /\ name \in CaseNames(NodeOf(g, id))

\* check: a command that does not apply to the document as it stands is refused.
\* An edge may be drawn before its ends are there.
Applies(g, command) ==
  CASE IsA(command, "add") -> command.add.id \notin Ids(g)
    [] IsA(command, "draw") -> TRUE
    [] IsA(command, "case") -> IsBranch(g, command.of) /\ ~HasCase(g, command.of, command.case.name)
    [] IsA(command, "remove_node") -> command.remove_node \in Ids(g)
    [] IsA(command, "remove_edges") -> \E e \in Edges(g) : EdgeMatches(e, command.remove_edges)
    [] IsA(command, "remove_case") -> HasCase(g, command.of, command.remove_case)
    [] IsA(command, "read") -> command.read # NotADocument

\* Mutant: the oldest command is dropped.
UndoneOldest(history) == Tail(history)

Undone(history) == Front(history)

\* The next editor; one whose command was refused is the same.
Apply(editor, command) ==
  IF command = Undo
    THEN IF editor.history = <<>> THEN editor ELSE FromHistory(Undone(editor.history))
    ELSE IF Applies(editor.document, command) THEN FromHistory(Append(editor.history, command))
    ELSE editor

\* The dumped script, fed line by line to a new editor.
Rebuilt(history) == FoldLeft(Apply, NewEditor, history)

=============================================================================
