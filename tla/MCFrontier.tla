----------------------------- MODULE MCFrontier -----------------------------
(* Small instances of Frontier: the playbooks it drives. *)
EXTENDS Frontier

Edge(from, to) == [from |-> from, to |-> to, on |-> "always", cap |-> 0, join |-> "none", strict |-> FALSE]
When(from, outcome, to) == [Edge(from, to) EXCEPT !.on = outcome]
Into(from, to, mode) == [Edge(from, to) EXCEPT !.join = mode]
Loop(from, outcome, to, cap) == [When(from, outcome, to) EXCEPT !.cap = cap]

Playbook(nodes, tasks, fallible, finish, failure, edges) ==
  [nodes |-> nodes, tasks |-> tasks, fallible |-> fallible, finish |-> finish,
   failure |-> failure, edges |-> edges]

\* Two branches of different length, met by a node nobody drew a join on.
Diamond ==
  Playbook(<<"a", "b", "c", "done", "j", "start">>, {"a", "b", "c", "j"}, {"a"}, {"done"}, {},
           <<Edge("start", "a"), Edge("start", "b"), Edge("a", "c"), Edge("c", "j"),
             Edge("b", "j"), Edge("j", "done")>>)

\* `join: all`, its failure routed; three branches for two slots.
Barrier ==
  Playbook(<<"a", "b", "bad", "c", "done", "j", "start">>, {"a", "b", "c", "j"}, {"b"},
           {"bad", "done"}, {"bad"},
           <<Edge("start", "a"), Edge("start", "b"), Edge("start", "c"), Into("a", "j", "all"),
             Into("b", "j", "all"), Into("c", "j", "all"),
             When("j", "success", "done"), When("j", "failure", "bad")>>)

\* `join: any`: three branches race for it, two at once.
Race ==
  Playbook(<<"a", "b", "bad", "c", "done", "j", "start">>, {"a", "b", "c", "j"}, {"a", "b", "j"},
           {"bad", "done"}, {"bad"},
           <<Edge("start", "a"), Edge("start", "b"), Edge("start", "c"),
             Into("a", "j", "any"), Into("b", "j", "any"), Into("c", "j", "any"),
             When("j", "success", "done"), When("j", "failure", "bad")>>)

\* A failure sink that two steps of a chain share.
Sink ==
  Playbook(<<"a", "b", "done", "j", "start", "stop">>, {"a", "b", "j"}, {"a", "b"},
           {"done", "stop"}, {"stop"},
           <<Edge("start", "a"), When("a", "success", "b"), When("a", "failure", "stop"),
             When("b", "success", "j"), When("b", "failure", "stop"), Edge("j", "done")>>)

\* One branch repairs its failure before the merge, the other goes straight there.
Repair ==
  Playbook(<<"a", "b", "done", "j", "r", "start">>, {"a", "b", "j", "r"}, {"a"}, {"done"}, {},
           <<Edge("start", "a"), Edge("start", "b"), When("a", "success", "j"),
             When("a", "failure", "r"), Edge("r", "j"), Edge("b", "j"), Edge("j", "done")>>)

\* A bounded loop with a way out.
Retry ==
  Playbook(<<"c", "done", "out", "start", "w">>, {"c", "w"}, {"c"}, {"done", "out"}, {"out"},
           <<Edge("start", "w"), Edge("w", "c"), When("c", "success", "done"),
             Loop("c", "failure", "w", 2), When("c", "fallback", "out")>>)

\* A fork and its join inside a bounded loop, one branch longer than the other.
Rounds ==
  Playbook(<<"a", "b", "c", "done", "f", "j", "out", "start">>, {"a", "b", "c", "f", "j"}, {"j"},
           {"done", "out"}, {"out"},
           <<Edge("start", "f"), Edge("f", "a"), Edge("f", "b"), Edge("b", "c"), Into("a", "j", "all"),
             Into("c", "j", "all"), When("j", "success", "done"),
             Loop("j", "failure", "f", 1), When("j", "fallback", "out")>>)

\* `require: all_succeeded`: an input that went elsewhere refuses the join.
Strict ==
  LET Required(from) == [Into(from, "j", "all") EXCEPT !.strict = TRUE]
  IN  Playbook(<<"a", "b", "done", "j", "r", "start">>, {"a", "b", "j", "r"}, {"a", "b"},
               {"done"}, {},
               <<Edge("start", "a"), Edge("start", "b"),
                 [Required("a") EXCEPT !.on = "success"], When("a", "failure", "r"), Edge("r", "done"),
                 Required("b"), Edge("j", "done")>>)

\* A report two branches feed, one of them only when it fails.
Report ==
  Playbook(<<"build", "done", "report", "start", "test", "write">>,
           {"build", "report", "test", "write"}, {"test"}, {"done"}, {},
           <<Edge("start", "write"), Edge("start", "build"), Edge("build", "test"),
             Edge("write", "report"), When("test", "failure", "report"),
             When("test", "success", "done"), Edge("report", "done")>>)

MCGraphs ==
  LET books ==
        [diamond |-> Diamond, barrier |-> Barrier, race |-> Race, sink |-> Sink, repair |-> Repair,
         retry |-> Retry, rounds |-> Rounds, strict |-> Strict]
  IN  books

MCPauses ==
  [diamond |-> 1, barrier |-> 1, race |-> 0, sink |-> 1, repair |-> 1, retry |-> 0, rounds |-> 0,
   strict |-> 1]
MCCrashes ==
  [diamond |-> 0, barrier |-> 1, race |-> 1, sink |-> 1, repair |-> 0, retry |-> 0, rounds |-> 0,
   strict |-> 1]

ReportGraphs == [report |-> Report]
NoBreak == [report |-> 0]
=============================================================================
