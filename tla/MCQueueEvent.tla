---------------------------- MODULE MCQueueEvent ----------------------------
(* Scenarios in which the scheduler has room for what is enqueued, an event  *)
(* that a queue is made to wait for cannot finish during the call, and an    *)
(* event is recorded again only with nobody else at work.                    *)
EXTENDS QueuePrograms

One == {"m"}
Two == {"m", "w"}
Three == {"m", "w", "v"}
Room == 8

\* two threads submit to one queue; one destroys its event as soon as it is
\* recorded, the other polls its own
Submitters ==
    Scenario(<<Submit("q", 1), NewEv(2), Record(2, "q"), OnEvent("event_query", 2), Sync("q")>>,
             <<NewEv(3), Record(3, "q"), DropEv(3), Submit("q", 4), Sync("q")>>, Three, Room)

\* wait for an event, then make another queue wait for it; destroy both queues
\* with items behind it
Ordered ==
    Scenario(<<New("r"), NewEv(1), OnEvent("event_wait", 1), WaitFor("r", 1, 5),
               Submit("q", 2), Record(1, "q"), Submit("q", 3), OnEvent("event_wait", 1),
               Submit("r", 4), WaitFor("r", 1, 5), DropEv(1), Drop("q"), Drop("r")>>,
             <<>>, Two, Room)

\* a queue waits for an event of its own, the last one or an earlier one
OwnEvent(more) ==
    Scenario(<<NewEv(1), Submit("q", 2), Record(1, "q")>> \o more \o
             <<WaitFor("q", 1, 4), Submit("q", 5), DropEv(1), Exit>>, <<>>, One, Room)

\* acquired queues, one of them synchronous
AcquiredQueues ==
    Scenario(<<Acquire("r"), Acquire("s"), Acquire("r"), Submit("r", 1), Submit("s", 2),
               SubmitLambda("s", 3), Submit("r", 4), WaitAll, Submit("r", 5), Drop("r"), Drop("s")>>,
             <<>>, Three, Room)

\* one thread, room for one task: a finishing task runs a successor on the spot;
\* an event is recorded while submitted, and again when complete
Alone ==
    Scenario(<<New("r"), NewEv(1), Submit("q", 2), Record(1, "q"), Record(1, "q"),
               Submit("q", 3), WaitFor("r", 1, 4), Record(1, "q"), OnEvent("event_wait", 1),
               Record(1, "r"), Exit, DropEv(1), Drop("q"), Drop("r")>>, <<>>, One, 1)

MCScenarios == {Submitters, Ordered, OwnEvent(<<>>), OwnEvent(<<Submit("q", 3)>>),
                AcquiredQueues, Alone}
=============================================================================
