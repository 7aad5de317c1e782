------------------------------ MODULE MCBroker ------------------------------
\* Instances of Broker for TLC.
EXTENDS Broker

CONSTANTS s1, s2, p1, w1

\* The parallel one waits for back-pressure, the sequential one sheds.
Option(size, parallel, src, sends, asks, events, members) ==
  [BufferSize |-> size, ParallelDispatch |-> parallel, NonBlockingPush |-> ~parallel, source |-> src,
   Capacity |-> 1, Sends |-> sends, Asks |-> asks, Events |-> events, Members |-> members]

\* NewBroker, NewQueueBroker that waits and one that sheds, and NewLIFOBroker, with and
\* without buffers and parallel dispatch.
Brokers == {Option(0, FALSE, "channel", 1, 1, 1, {s1, s2}),
            Option(1, TRUE, "fifo", 1, 0, 1, {s1, s2}),
            [Option(1, FALSE, "fifo", 3, 1, 1, {s1}) EXCEPT !.Capacity = 2],
            [Option(0, TRUE, "lifo", 3, 0, 1, {s1}) EXCEPT !.Capacity = 2],
            Option(0, FALSE, "channel", 1, 1, 3, {s1}),
            Option(0, TRUE, "channel", 2, 0, 1, {s1})}
=============================================================================
