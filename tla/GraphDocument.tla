--------------------------- MODULE GraphDocument ---------------------------
(***************************************************************************)
(* The graph documents of salvor-graph: JSON values and the expressions read*)
(* from them (expr.rs), what a document must satisfy to be accepted          *)
(* (validate.rs), and the order in which its nodes are walked (walk.rs).    *)
(*                                                                          *)
(* A node id and a case name are numbers that stand for strings in their    *)
(* order.  A JSON value is a record of one field, named for its type.  An    *)
(* expression is its syntax tree; text that does not parse is Garbled.      *)
(***************************************************************************)
EXTENDS Integers, Sequences, SequencesExt, FiniteSetsExt, TLC

----------------------------------------------------------------------------
(* Values.                                                                  *)

Num(n) == [num |-> n]
Text(n) == [text |-> n]
Bool(b) == [bool |-> b]
Null == [null |-> 0]
List(s) == [list |-> s]
Object(fields) == [object |-> fields]

Missing == [missing |-> 0]          \* no value

IsA(value, type) == type \in DOMAIN value

----------------------------------------------------------------------------
(* Paths.  An index counts from zero.                                        *)

Key(k) == [key |-> k]
Index(i) == [index |-> i]

Garbled == <<>>                      \* a reference that does not parse

Descend(value, segment) ==
  CASE IsA(segment, "key") /\ IsA(value, "object") ->
         IF segment.key \in DOMAIN value.object THEN value.object[segment.key] ELSE Missing
    [] IsA(segment, "index") /\ IsA(value, "list") ->
         IF segment.index < Len(value.list) THEN value.list[segment.index + 1] ELSE Missing
    [] OTHER -> Missing

ResolvePath(path, root) == FoldLeft(Descend, root, path)

----------------------------------------------------------------------------
(* Expressions.  An operand is a literal or a path.                          *)

Lit(value) == [literal |-> value]
At(path) == [path |-> path]

Compare(left, op, right) == [op |-> op, left |-> left, right |-> right]
Truthy(operand) == [op |-> "truthy", operand |-> operand]
Not(e) == [op |-> "not", arg |-> e]
And(a, b) == [op |-> "and", a |-> a, b |-> b]
Or(a, b) == [op |-> "or", a |-> a, b |-> b]
Unparsed == [op |-> "unparsed"]      \* a condition that does not parse

ValueOf(operand, root) ==
  IF IsA(operand, "literal") THEN operand.literal ELSE ResolvePath(operand.path, root)

\* order: two numbers or two strings.
Ordered(l, r) == \E type \in {"num", "text"} : IsA(l, type) /\ IsA(r, type)
Below(l, r) == \E type \in {"num", "text"} : IsA(l, type) /\ IsA(r, type) /\ l[type] < r[type]

Relates(op, l, r) ==
  CASE op = "==" -> l = r
    [] op = "!=" -> l # r
    [] op = "<" -> Below(l, r)
    [] op = ">" -> Below(r, l)
    [] op = "<=" -> Ordered(l, r) /\ ~Below(r, l)
    [] op = ">=" -> Ordered(l, r) /\ ~Below(l, r)

\* Nothing is true of a value that is not there.
EvalCompare(e, root) ==
  LET l == ValueOf(e.left, root)
      r == ValueOf(e.right, root)
  IN l # Missing /\ r # Missing /\ Relates(e.op, l, r)

RECURSIVE Eval(_, _)
Eval(e, root) ==
  CASE e.op = "or" -> Eval(e.a, root) \/ Eval(e.b, root)
    [] e.op = "and" -> Eval(e.a, root) /\ Eval(e.b, root)
    [] e.op = "not" -> ~Eval(e.arg, root)
    [] e.op = "truthy" -> ValueOf(e.operand, root) = Bool(TRUE)
    [] OTHER -> EvalCompare(e, root)

PathOf(operand) == IF IsA(operand, "path") THEN {operand.path} ELSE {}

RECURSIVE Paths(_)
Paths(e) ==
  CASE e.op \in {"or", "and"} -> Paths(e.a) \cup Paths(e.b)
    [] e.op = "not" -> Paths(e.arg)
    [] e.op = "truthy" -> PathOf(e.operand)
    [] OTHER -> PathOf(e.left) \cup PathOf(e.right)

----------------------------------------------------------------------------
(* Nodes and edges.                                                         *)

NoNode == 0
Subgraph == 0          \* a body that is an embedded graph
NoLabel == 0
NoAgent == ""
BadHash == "?"         \* a string that is not an agent's hash
ByModel == [op |-> "model"]          \* a case the branch's agent decides
NoSchema == [undeclared |-> 0]

Nodes(g) == ToSet(g.nodes)
Edges(g) == ToSet(g.edges)
Ids(g) == {n.id : n \in Nodes(g)}
OfKind(g, kind) == {n \in Nodes(g) : n.kind = kind}
Loops(g) == OfKind(g, "map") \cup OfKind(g, "fold")
NodeOf(g, id) == CHOOSE n \in Nodes(g) : n.id = id
Cases(branch) == ToSet(branch.cases)
Inbound(g, id) == {e \in Edges(g) : e.to = id}
BodyTargets(g) == {n.body : n \in Loops(g)} \ {Subgraph}

OutputSchema(node) == IF node.kind \in {"agent", "tool", "map"} THEN node.output ELSE NoSchema
InputSchema(node) == IF node.kind \in {"agent", "tool"} THEN node.input ELSE NoSchema

----------------------------------------------------------------------------
(* What validate reports: the kind of each error and the node it is at.      *)

CheckSchemaVersion(g) == IF g.version = 1 THEN {} ELSE {<<"UnsupportedSchemaVersion", NoNode>>}

CheckUniqueNodeIds(g) ==
  {<<"DuplicateNodeId", g.nodes[i].id>> :
     i \in {i \in 1..Len(g.nodes) : \E j \in 1..i - 1 : g.nodes[j].id = g.nodes[i].id}}

CheckReferentialIntegrity(g) ==
  {<<"DanglingEdge", id>> : id \in UNION {{e.from, e.to} : e \in Edges(g)} \ Ids(g)}
    \cup {<<"DanglingBody", id>> : id \in BodyTargets(g) \ Ids(g)}

CheckNodeFields(g) ==
  {<<"MalformedAgentHash", n.id>> : n \in {n \in OfKind(g, "agent") : n.agent = BadHash}}
    \cup {<<"NonPositiveConcurrency", n.id>> : n \in {n \in OfKind(g, "map") : n.concurrency < 1}}
    \cup {<<"NonPositiveMaxIterations", n.id>> :
            n \in {n \in OfKind(g, "fold") : n.max_iterations < 1}}
    \cup {<<"NonPositiveDelay", n.id>> : n \in {n \in OfKind(g, "delay") : n.seconds < 1}}

CheckBranchExpressions(g) ==
  {<<"MalformedAgentHash", n.id>> : n \in {n \in OfKind(g, "branch") : n.agent = BadHash}}
    \cup {<<"InvalidBranchExpression", n.id>> :
            n \in {n \in OfKind(g, "branch") : \E c \in Cases(n) : c.when = Unparsed}}
    \cup {<<"ModelDecisionWithoutAgent", n.id>> :
            n \in {n \in OfKind(g, "branch") :
                     n.agent = NoAgent /\ \E c \in Cases(n) : c.when = ByModel}}

LabelsFrom(g, id) == {e.label : e \in {e \in Edges(g) : e.from = id}}
CaseNames(branch) == {c.name : c \in Cases(branch)}

CheckBranchCaseEdges(g) ==
  {<<"BranchCaseWithoutEdge", n.id>> :
     n \in {n \in OfKind(g, "branch") : ~(CaseNames(n) \subseteq LabelsFrom(g, n.id))}}

CheckBranchEdgeLabels(g) ==
  {<<"BranchEdgeWithoutCase", n.id>> :
     n \in {n \in OfKind(g, "branch") : ~(LabelsFrom(g, n.id) \subseteq CaseNames(n))}}

CheckFoldExpressions(g) ==
  {<<"InvalidFoldStopExpression", n.id>> : n \in {n \in OfKind(g, "fold") : n.stop_when = Unparsed}}
    \cup {<<"InvalidFoldJoinReference", n.id>> :
            n \in {n \in OfKind(g, "fold") : n.join = "best_by" /\ n.best_by = Garbled}}

\* schema_describes: what a declared schema says of a path.  A schema declares its
\* properties and whether others are allowed, or its items, or nothing to judge by.
StepInto(schema, segment) ==
  CASE IsA(schema, "properties") /\ IsA(segment, "key") ->
         IF segment.key \in DOMAIN schema.properties THEN schema.properties[segment.key]
         ELSE IF schema.extra THEN NoSchema ELSE Missing
    [] IsA(schema, "items") /\ IsA(segment, "index") -> schema.items
    [] schema = Missing -> Missing
    [] OTHER -> NoSchema

SchemaDescribes(schema, path) == FoldLeft(StepInto, schema, path) # Missing

\* The paths a fold reads of its body's output.
FoldPaths(fold) ==
  (IF fold.stop_when = Unparsed THEN {} ELSE Paths(fold.stop_when))
    \cup (IF fold.join = "best_by" THEN {fold.best_by} ELSE {})

CheckFoldReferenceShapes(g) ==
  {<<"FoldPathNotInBodySchema", n.id>> :
     n \in {n \in OfKind(g, "fold") :
              /\ n.body \in Ids(g)
              /\ \E path \in FoldPaths(n) :
                   ~SchemaDescribes(OutputSchema(NodeOf(g, n.body)), path)}}

\* Mutant: only a node with an edge to itself is on a cycle.
CheckAcyclicLoops(g) == {<<"Cycle", e.from>> : e \in {e \in Edges(g) : e.from = e.to}}

\* A set of nodes each of which has a successor in the set holds a cycle.
CheckAcyclic(g) ==
  LET known == {e \in Edges(g) : {e.from, e.to} \subseteq Ids(g)}
      Closed(S) == \A id \in S : \E e \in known : e.from = id /\ e.to \in S
  IN IF \E S \in SUBSET Ids(g) \ {{}} : Closed(S) THEN {<<"Cycle", NoNode>>} ELSE {}

CheckEdgeTypeCompat(g) ==
  {<<"EdgeTypeMismatch", e.from>> :
     e \in {e \in Edges(g) :
              /\ {e.from, e.to} \subseteq Ids(g)
              /\ LET out == OutputSchema(NodeOf(g, e.from))
                     inp == InputSchema(NodeOf(g, e.to))
                 IN out # NoSchema /\ inp # NoSchema /\ out # inp}}

Validate(g) ==
  CheckSchemaVersion(g) \cup CheckUniqueNodeIds(g) \cup CheckReferentialIntegrity(g)
    \cup CheckNodeFields(g) \cup CheckBranchExpressions(g) \cup CheckBranchCaseEdges(g)
    \cup CheckBranchEdgeLabels(g) \cup CheckFoldExpressions(g) \cup CheckFoldReferenceShapes(g)
    \cup CheckAcyclic(g) \cup CheckEdgeTypeCompat(g)

----------------------------------------------------------------------------
(* The walk.                                                                *)

\* The nodes whose predecessors are all in the walk, and which are not themselves.
Ready(g, walked) ==
  {id \in Ids(g) \ ToSet(walked) : \A e \in Inbound(g, id) : e.from \in ToSet(walked)}

RECURSIVE WalkFrom(_, _)
WalkFrom(g, walked) ==
  IF Ready(g, walked) = {} THEN walked
  ELSE WalkFrom(g, Append(walked, Min(Ready(g, walked))))

WalkOrder(g) == WalkFrom(g, <<>>)

\* parse_branches, parse_folds and walk_order: what the engine needs of a document
\* before it walks it.
Walkable(g) ==
  /\ \A n \in OfKind(g, "branch") : \A c \in Cases(n) : c.when # Unparsed
  /\ \A n \in OfKind(g, "fold") :
       n.stop_when # Unparsed /\ (n.join = "best_by" => n.best_by # Garbled)
  /\ \A e \in Edges(g) : {e.from, e.to} \subseteq Ids(g)
  /\ Len(WalkOrder(g)) = Len(g.nodes)

=============================================================================
