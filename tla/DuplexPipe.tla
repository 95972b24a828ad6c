----------------------------- MODULE DuplexPipe -----------------------------
(***************************************************************************)
(* What a CONNECT tunnel promises its two sides, without goroutines,       *)
(* channels and buffers: every chunk comes through once and only when the  *)
(* tunnel stands, is lost only before that or to a side that can take no   *)
(* more, and nobody cuts a connection between sides that both still talk.  *)
(***************************************************************************)
EXTENDS Naturals

VARIABLES
    stands,   \* the client has been told that the tunnel stands
    line,     \* the connection to each side: "none", "open", "closed"
    sent,     \* chunks each side has put in
    passed,   \* of those, the ones that have come out; with no connection to
              \* the other side they come out at the tunnel itself
    lost,     \* and those that never will
    ended,    \* sides that have ended their sending
    gone      \* sides that are gone altogether

pipeVars == <<stands, line, sent, passed, lost, ended, gone>>

Sides    == {"client", "target"}
Other(s) == IF s = "client" THEN "target" ELSE "client"

InPipe(s)  == passed[s] + lost[s] < sent[s]
CanTake(s) == line[s] # "closed" /\ s \notin gone

PipeInit ==
    /\ stands = FALSE
    /\ line = [s \in Sides |-> IF s = "client" THEN "open" ELSE "none"]
    /\ sent = [s \in Sides |-> 0] /\ passed = [s \in Sides |-> 0]
    /\ lost = [s \in Sides |-> 0]
    /\ ended = {} /\ gone = {}

Connect ==
    /\ ~stands /\ line["target"] = "none"
    /\ line' = [line EXCEPT !["target"] = "open"]
    /\ UNCHANGED <<stands, sent, passed, lost, ended, gone>>

Announce ==
    /\ ~stands /\ line["client"] = "open"
    /\ stands' = TRUE
    /\ UNCHANGED <<line, sent, passed, lost, ended, gone>>

Put(s) ==
    /\ s \notin ended
    /\ sent' = [sent EXCEPT ![s] = @ + 1]
    /\ UNCHANGED <<stands, line, passed, lost, ended, gone>>

Pass(s) ==
    /\ stands /\ InPipe(s) /\ CanTake(Other(s))
    /\ passed' = [passed EXCEPT ![s] = @ + 1]
    /\ UNCHANGED <<stands, line, sent, lost, ended, gone>>

\* Of what the client sent before it was told it could.
LoseEarly ==
    /\ ~stands /\ line["target"] = "none"
    /\ \E n \in 0 .. sent["client"] : lost' = [lost EXCEPT !["client"] = n]
    /\ UNCHANGED <<stands, line, sent, passed, ended, gone>>

Lose(s) ==
    /\ stands /\ InPipe(s) /\ ~CanTake(Other(s))
    /\ lost' = [lost EXCEPT ![s] = @ + 1]
    /\ UNCHANGED <<stands, line, sent, passed, ended, gone>>

EndSending(s) ==
    /\ ended' = ended \cup {s}
    /\ UNCHANGED <<stands, line, sent, passed, lost, gone>>

Depart(s) ==
    /\ line[s] # "none"
    /\ ended' = ended \cup {s} /\ gone' = gone \cup {s}
    /\ UNCHANGED <<stands, line, sent, passed, lost>>

\* The target's connection is closed because a side has ended, and the client's
\* not before it.
CutTarget ==
    /\ line["target"] = "open" /\ stands /\ ended # {}
    /\ line' = [line EXCEPT !["target"] = "closed"]
    /\ UNCHANGED <<stands, sent, passed, lost, ended, gone>>

CutClient ==
    /\ line["target"] # "open"
    /\ line' = [line EXCEPT !["client"] = "closed"]
    /\ UNCHANGED <<stands, sent, passed, lost, ended, gone>>

PipeNext == \/ Connect \/ Announce \/ LoseEarly \/ CutTarget \/ CutClient
            \/ \E s \in Sides : Put(s) \/ Pass(s) \/ Lose(s) \/ EndSending(s) \/ Depart(s)

PipeSpec == PipeInit /\ [][PipeNext]_pipeVars
=============================================================================
