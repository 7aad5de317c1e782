------------------------------ MODULE MCStreams ------------------------------
\* Streaming for TLC: two workers and two jobs of a pool, two readers of a stream, and two
\* consumers of a channel with room for one item.
EXTENDS Streaming

\* Each kind of answer first, last, and between others.
SmallScripts ==
  [h \in {"split", "parallel", "merge", "convert"} |->
     CASE h = "split"    -> {<<"item", "item">>, <<"skip", "err">>}
       [] h = "parallel" -> {<<"item", "err">>}
       [] h = "merge"    -> {<<"err">>}
       [] h = "convert"  -> {<<"bad", "item">>}]

\* In a pool or a stream some goroutine that can go on does, whichever: less than the
\* fairness of each, which a scheduler gives, and enough, as none can go on for ever.
\* One that polls a channel can, so each goroutine of a channel gets its turn.
Works ==
  \/ OfPool(P!Return \/ \E w \in P!Workers : P!Work(w))
  \/ OfStream(S!OpenSource \/ S!CloseChannel
              \/ (\E w \in S!Workers : S!Working(w)) \/ \E r \in Readers : S!Reading(r) \/ S!CloseStep(r))
  \/ OfChannel(C!Produce)
FairSpec ==
  /\ Spec
  /\ WF_vars(Works) /\ \A c \in Consumers : WF_vars(OfChannel(C!Consume(c)))

\* Every goroutine and every caller comes to an end.
ToolsEnd ==
  <>[](/\ Pool => returned
       /\ Stream => /\ \A r \in Readers : S!Settled(r)
                    /\ pump /= 0 => chClosed /\ \A w \in S!Workers : worker[w] \in {"idle", "done"}
       /\ Channel => producer \in {"idle", "done"} /\ \A c \in Consumers : pc[c] = "done")

=============================================================================
