--------------------------- MODULE MCGraphEngine ---------------------------
(* Documents that route, loop, park and fork, and documents with one defect. *)
EXTENDS GraphEngine

Agent(id, name) == [kind |-> "agent", id |-> id, agent |-> name, input |-> NoSchema, output |-> NoSchema]
Tool(id, name) == [kind |-> "tool", id |-> id, tool |-> name, input |-> NoSchema, output |-> NoSchema]
Scored(id, name) ==
  [Tool(id, name) EXCEPT !.output = [properties |-> [score |-> NoSchema], extra |-> FALSE]]
Gate(id, schema) == [kind |-> "gate", id |-> id, schema |-> schema]
Delay(id, seconds) == [kind |-> "delay", id |-> id, seconds |-> seconds]
Branch(id, agent, cases) == [kind |-> "branch", id |-> id, agent |-> agent, cases |-> cases]
Case(name, when) == [name |-> name, when |-> when]
Map(id, over, body) ==
  [kind |-> "map", id |-> id, over |-> over, body |-> body, concurrency |-> 2, output |-> NoSchema]
FoldOf(id, body, max, join, on_bound) ==
  [kind |-> "fold", id |-> id, body |-> body, max_iterations |-> max, on_bound |-> on_bound,
   stop_when |-> Compare(At(<<Key("score")>>), ">=", Lit(Num(2))),
   join |-> join, best_by |-> <<Key("score")>>]
Edge(from, to) == [from |-> from, to |-> to, label |-> NoLabel]
Taken(from, to, case) == [from |-> from, to |-> to, label |-> case]
Graph(nodes, edges) == [version |-> 1, nodes |-> nodes, edges |-> edges]

Gives(value) == [kind |-> "Output", value |-> value]
Fails == [kind |-> "Failed"]
Waits(schema) == [kind |-> "Suspended", schema |-> schema]
Sleeps == [kind |-> "Sleeping", nap |-> 1]
ToolOf(effect, outcomes) == [effect |-> effect, outcomes |-> outcomes]
Bounds(marks, deaths, time) == [marks |-> marks, crashes |-> deaths, clock |-> time, edits |-> 0]

Yes == Text(1)
No == Num(0)
Score(n) == Object([score |-> Num(n)])
Wrapped(value) == Object([content |-> List(<<>>), structuredContent |-> value])

\* A branch on its input, a gate or a delay, and a write where they meet.
Routed ==
  [document |-> Graph(<<Branch(1, NoAgent, <<Case(1, Compare(At(<<Key("n")>>), ">=", Lit(Num(2)))),
                                              Case(2, And(Truthy(At(<<Key("urgent")>>)),
                                                          Not(Truthy(At(<<Key("quiet")>>)))))>>),
                        Gate(2, {Yes}), Delay(3, 1), Tool(4, "post")>>,
                      <<Taken(1, 2, 1), Taken(1, 3, 2), Edge(2, 4), Edge(3, 4)>>),
   tools |-> [post |-> ToolOf("Write", {Gives(Null), Fails})], agents |-> <<>>,
   inputs |-> {Object([n |-> Num(2)]), Object([n |-> Text(2), urgent |-> Bool(TRUE)]),
               Object([n |-> Num(1)])},
   answers |-> {Yes, No}, edits |-> {}, forks |-> {}, servers |-> {"p1"}, commands |-> {}, bounds |-> Bounds(2, 1, 2)]

\* An agent that decides, and a map whose body may wait or sleep.
Deliberated ==
  [document |-> Graph(<<Branch(1, "judge", <<Case(1, ByModel), Case(2, ByModel)>>),
                        Agent(2, "writer"), Map(3, <<Key("items")>>, 4), Tool(4, "fetch"),
                        Agent(5, "writer")>>,
                      <<Taken(1, 2, 1), Taken(1, 3, 2), Edge(2, 5)>>),
   tools |-> [fetch |-> ToolOf("Idempotent", {Gives(Yes), Waits({Yes}), Sleeps})],
   agents |-> [judge |-> {Text(1), Text(2), Text(9)}, writer |-> {Yes}],
   inputs |-> {Object([items |-> List(<<No, Yes>>)]), Object([items |-> List(<<>>)]), Null},
   answers |-> {Yes, No}, edits |-> {}, forks |-> {}, servers |-> {"p1"}, commands |-> {}, bounds |-> Bounds(2, 1, 2)]

\* A fold fed by a tool.
Folded(max, join, on_bound) ==
  [document |-> Graph(<<Tool(1, "seed"), FoldOf(2, 3, max, join, on_bound), Scored(3, "improve")>>,
                      <<Edge(1, 2)>>),
   tools |-> [seed |-> ToolOf("Read", {Gives(Wrapped(Score(0)))}),
              improve |-> ToolOf("Read", {Gives(Wrapped(Score(1))), Gives(Score(2)), Gives(Null)})],
   agents |-> <<>>, inputs |-> {Null}, answers |-> {}, edits |-> {}, forks |-> {},
   servers |-> {"p1"}, commands |-> {}, bounds |-> Bounds(1, 1, 0)]

\* Two gates, a server and a command.
Gated ==
  [document |-> Graph(<<Gate(1, {Yes}), Gate(2, {No})>>, <<Edge(1, 2)>>),
   tools |-> <<>>, agents |-> <<>>, inputs |-> {Null}, answers |-> {Yes, No},
   edits |-> {}, forks |-> {}, servers |-> {"p1"}, commands |-> {"p2"}, bounds |-> Bounds(1, 0, 0)]

\* A tool that waits, answered through the server or at the command line.
Questioned ==
  [document |-> Graph(<<Tool(1, "ask")>>, <<>>),
   tools |-> [ask |-> ToolOf("Idempotent", {Waits({Yes})})], agents |-> <<>>,
   inputs |-> {Null}, answers |-> {Yes, No}, edits |-> {}, forks |-> {},
   servers |-> {"p1"}, commands |-> {"p2"}, bounds |-> Bounds(1, 1, 0)]

\* Writes and what lies between them, forked: by the one process that drives the
\* run, which may die, and by a command while a server drives on.
Forked(nodes, commands, bounds) ==
  [document |-> Graph(nodes, [i \in 1..Len(nodes) - 1 |-> Edge(i, i + 1)]), tools |-> [charge |-> ToolOf("Write", {Gives(Yes)})],
   agents |-> [writer |-> {Yes}], inputs |-> {Null}, answers |-> {Yes},
   edits |-> {}, forks |-> {2},
   servers |-> {"p1"}, commands |-> commands, bounds |-> bounds]

\* Documents of which one thing is wrong, or that no check looks at.
Plain(nodes, edges) ==
  [document |-> Graph(nodes, edges), tools |-> [look |-> ToolOf("Read", {Gives(Null)})],
   agents |-> <<>>, inputs |-> {Null}, answers |-> {}, edits |-> {}, forks |-> {}, servers |-> {"p1"}, commands |-> {},
   bounds |-> Bounds(0, 0, 0)]

Look(id) == Tool(id, "look")
Looping == Plain(<<Look(1), Look(2), Look(3)>>, <<Edge(1, 2), Edge(2, 3), Edge(3, 2)>>)
Dangling == Plain(<<Look(1)>>, <<Edge(1, 2)>>)
Doubled == Plain(<<Look(1), Look(1)>>, <<>>)
Unreadable == Plain(<<Branch(1, NoAgent, <<Case(1, Unparsed)>>), Look(2)>>, <<Taken(1, 2, 1)>>)
Unled == Plain(<<Branch(1, NoAgent, <<Case(1, Truthy(At(<<Key("x")>>))), Case(2, Unparsed)>>), Look(2)>>,
               <<Taken(1, 2, 1)>>)
Endless == Plain(<<FoldOf(1, 2, 0, "last", "join"), Scored(2, "look")>>, <<>>)
Misread == Plain(<<[FoldOf(1, 2, 2, "last", "join") EXCEPT !.best_by = Garbled,
                                                           !.join = "best_by"], Scored(2, "look")>>, <<>>)
Unread == Plain(<<Map(1, Garbled, 2), Look(2)>>, <<>>)
Embedded == Plain(<<Map(1, <<Key("items")>>, Subgraph)>>, <<>>)

\* A document that is edited: what may be typed at it, and the branch's cases and
\* edges come and go.
Authored ==
  [Plain(<<Branch(1, NoAgent, <<Case(1, Truthy(At(<<Key("x")>>)))>>), Look(2)>>,
         <<Taken(1, 2, 1)>>) EXCEPT
     !.edits = {Add(Look(3)), Draw(Taken(1, 3, 2)), Draw(Edge(3, 2)),
                AddCase(1, Case(2, Not(Truthy(At(<<Key("x")>>))))), RemoveCase(1, 1),
                RemoveEdges(1, 2, AnyLabel), RemoveNode(2), Undo},
     !.inputs = {Null, Object([x |-> Bool(TRUE)])}, !.bounds.edits = 4]

MCScenario ==
  [authored |-> Authored, routed |-> Routed, decided |-> Deliberated, gated |-> Gated, questioned |-> Questioned,
   forked |-> Forked(<<Tool(1, "charge"), Agent(2, "writer"), Tool(3, "charge")>>,
                     {}, Bounds(2, 1, 0)),
   outrun |-> Forked(<<Tool(1, "charge"), Tool(2, "charge")>>, {"p2"}, Bounds(1, 1, 0)),
   best |-> Folded(3, "best_by", "join"), last |-> Folded(2, "last", "fail"),
   all |-> Folded(2, "all", "join"),
   looping |-> Looping, dangling |-> Dangling, doubled |-> Doubled, unreadable |-> Unreadable,
   unled |-> Unled, endless |-> Endless, misread |-> Misread, unread |-> Unread,
   embedded |-> Embedded]

=============================================================================
