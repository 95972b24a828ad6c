-------------------------- MODULE MCNodeSelection --------------------------
(* Instances of NodeSelection for TLC: two nodes, one fast and one slow.     *)
EXTENDS NodeSelection, TLC

CONSTANTS a, b

Reply(ok, latency, length) == [ok |-> ok, latency |-> latency, length |-> length]

AnyList  == {<<b, a>>, <<>>}
OnlyBoth == {<<a, b>>}

\* The slow node and the fast one: a blob, one of unknown length, a failure too
\* quick to be measured, and one that takes a millisecond.
MCReplies  == (a :> {Reply(TRUE, 900, 1800), Reply(FALSE, 0, 0)})
                 @@ (b :> {Reply(TRUE, 1, -1), Reply(FALSE, 1, 0)})

\* A fast and a failed test; they stand for the outcomes of other requests, too.
MCTests == {<<a, [latency |-> 20, speed |-> 51200, success |-> 1]>>,
            <<b, [latency |-> 0, speed |-> 0, success |-> 0]>>}
None    == {}
MCProbe == {<<b, "latency", 400>>}
MCWaits == {1}

\* Outcomes to compare: near and far; failures, and successes of unknown, low
\* and high speed.
MCOutcomes == {o \in [latency : {1, 900}, speed : {0, 2, 51200}, success : {0, 1}] :
                  o.success = 0 => o.speed = 0}
=============================================================================
