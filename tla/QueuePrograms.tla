---------------------------- MODULE QueuePrograms ----------------------------
(* The vocabulary of the scenarios for QueueEvent: three executors m (main), *)
(* w and v, queues by name, events by number.                                *)
EXTENDS QueueEvent, TLC

Submit(q, ev) == [op |-> "submit", q |-> q, ev |-> ev]
SubmitLambda(q, ev) == [op |-> "submit_lambda", q |-> q, ev |-> ev]
Record(ev, q) == [op |-> "event_record", ev |-> ev, q |-> q]
WaitFor(q, ev, by) == [op |-> "queue_wait_event", q |-> q, wait |-> ev, ev |-> by]
OnQueue(op, q) == [op |-> op, q |-> q]
OnEvent(op, ev) == [op |-> op, ev |-> ev]
New(q) == OnQueue("queue_create", q)
Acquire(q) == OnQueue("queue_acquire", q)
Sync(q) == OnQueue("queue_wait", q)
Drop(q) == OnQueue("queue_destroy", q)
NewEv(ev) == OnEvent("event_create", ev)
DropEv(ev) == OnEvent("event_destroy", ev)
WaitAll == [op |-> "queue_wait_all"]
Exit == [op |-> "graph_wait"]

\* program main for m and other for w, on the executors team; queue q exists
Scenario(main, other, team, cap) ==
    [open |-> {"q"}, calls |-> [e \in Executors |-> CASE e = "m" -> main [] e = "w" -> other [] OTHER -> <<>>],
     team |-> team, cap |-> cap]
=============================================================================
