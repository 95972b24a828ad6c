--------------------------- MODULE ConnectTunnel ---------------------------
(***************************************************************************)
(* One CONNECT request of the proxy, from its authentication to the end of *)
(* its tunnel.  The connection is taken over from the HTTP server; for the *)
(* registry's own name the proxy then answers requests itself, for any     *)
(* other the target is dialled, two goroutines copy, and the first that    *)
(* ends takes the tunnel down.  TCP delivers in order, so a direction is a *)
(* number of chunks, named after the side that sends; to a proxy that      *)
(* answers itself, a chunk is a request.                                   *)
(***************************************************************************)
EXTENDS Integers

CONSTANTS
    Hosts,      \* "registry" is registry-1.docker.io:443, "other" any other
    EarlyData,  \* may the client send before it has read the 200?
    MaxSend     \* bound on the chunks each side sends

Sides == {"client", "target"}
Other(s) == IF s = "client" THEN "target" ELSE "client"

ASSUME TunnelAssumption ==
    Hosts \subseteq {"registry", "other"} /\ EarlyData \in BOOLEAN /\ MaxSend \in Nat

VARIABLES
    pc,      \* the handler: its next step
    conn,    \* the proxy's connection to each side: "none", "open", "closed"
    copier,  \* the goroutine that copies from s: its next step
    hand,    \* chunks it has read and not yet written
    done,    \* values in the channel done
    sent,    \* chunks s has sent
    taken,   \* chunks of s the proxy has read
    dropped, \* of those, the ones that Hijack's buffer held
    got,     \* chunks of the other side that s has received
    shut,    \* s has ended its sending
    gone,    \* s has closed its connection
    stalled, \* s reads no more, and what TCP holds for it is full
    greeted, \* the client has been sent the 200
    answers, \* requests the proxy has answered itself
    host,    \* where the client wants to go
    speech,  \* what it sends a registry: TLS records, or HTTP requests
    closing  \* the requests, by their number, that say Connection: close

proxy == <<pc, conn, copier, hand, done, greeted>>
peers == <<sent, shut, gone, stalled, host, speech, closing>>
flow  == <<taken, dropped, got, answers>>
vars  == <<proxy, peers, flow>>

-----------------------------------------------------------------------------
(* An operator whose name has an underscore is the next one with a          *)
(* programming error in it; no action uses it.                              *)

\* The channel has room for both goroutines, so neither waits for a reader.
CanSignal_unbuffered == pc = "wait" /\ done = 0
CanSignal            == done < 2

\* io.Copy goes back to reading once a chunk is written.
AfterWrite_once == "ended"
AfterWrite      == "read"

\* What has been written is not written again.
Written_again(s) == UNCHANGED hand
Written(s)       == hand' = [hand EXCEPT ![s] = 0]

\* The loop of the registry tunnel goes on to the next request, unless the one
\* just answered says Connection: close.
AfterServe_once == "closeClient"
AfterServe      == IF taken["client"] \in closing THEN "closeClient" ELSE "request"

Arrived(s) == taken[s] < sent[s]

\* Why a copy from s ends: the end of the stream, a reset, or a connection the
\* handler has closed.  No deadline is set on either connection.
AtEnd_idle(s) == ~Arrived(s)
AtEnd(s)      == (shut[s] /\ ~Arrived(s)) \/ gone[s] \/ conn[s] = "closed"

\* Can s be written to?  A write to a side that reads no more does not return
\* until that side leaves or the handler closes the connection.
Takes(s) == ~gone[s] /\ ~stalled[s]

-----------------------------------------------------------------------------
Init ==
    /\ pc = "auth" /\ greeted = FALSE
    /\ conn = [s \in Sides |-> IF s = "client" THEN "open" ELSE "none"]
    /\ copier = [s \in Sides |-> "off"] /\ hand = [s \in Sides |-> 0] /\ done = 0
    /\ sent = [s \in Sides |-> 0] /\ taken = [s \in Sides |-> 0]
    /\ dropped = 0 /\ got = [s \in Sides |-> 0]
    /\ shut = [s \in Sides |-> FALSE] /\ gone = [s \in Sides |-> FALSE]
    /\ stalled = [s \in Sides |-> FALSE]
    /\ answers = 0 /\ host \in Hosts
    /\ speech \in IF host = "registry" THEN {"tls", "http"} ELSE {"tls"}
    /\ closing \in SUBSET (IF speech = "http" THEN 1 .. MaxSend ELSE {})

(* The handler.                                                             *)

\* 407, a bad host, or a connection that cannot be taken over: it stays with the
\* HTTP server, which waits for the client's next request.
Refuse ==
    /\ pc = "auth"
    /\ pc' = "refused"
    /\ UNCHANGED <<conn, copier, hand, done, greeted, peers, flow>>

\* The reader of the HTTP server may hold what the client sent early; Hijack
\* returns it in a buffer that the handler throws away.
Hijack ==
    /\ pc = "auth"
    /\ pc' = IF host = "registry" THEN "helloRegistry" ELSE "dial"
    /\ \E n \in 0 .. sent["client"] :
          /\ taken' = [taken EXCEPT !["client"] = n]
          /\ dropped' = n
    /\ UNCHANGED <<conn, copier, hand, done, greeted, peers, got, answers>>

\* Refused, or ten seconds have passed: 502, and the client is closed.
DialFails ==
    /\ pc = "dial"
    /\ pc' = "closeClient"
    /\ UNCHANGED <<conn, copier, hand, done, greeted, peers, flow>>

Dial ==
    /\ pc = "dial"
    /\ pc' = "hello" /\ conn' = [conn EXCEPT !["target"] = "open"]
    /\ UNCHANGED <<copier, hand, done, greeted, peers, flow>>

\* The 200, then both goroutines start.
Hello ==
    /\ pc = "hello"
    /\ pc' = "wait" /\ greeted' = TRUE
    /\ copier' = [s \in Sides |-> "read"]
    /\ UNCHANGED <<conn, hand, done, peers, flow>>

Wait ==
    /\ pc = "wait" /\ done > 0
    /\ pc' = "closeTarget" /\ done' = done - 1
    /\ UNCHANGED <<conn, copier, hand, greeted, peers, flow>>

\* The deferred calls, last first.
CloseTarget ==
    /\ pc = "closeTarget"
    /\ pc' = "closeClient" /\ conn' = [conn EXCEPT !["target"] = "closed"]
    /\ UNCHANGED <<copier, hand, done, greeted, peers, flow>>

CloseClient ==
    /\ pc \in {"closeClient", "panic"}
    /\ pc' = "end" /\ conn' = [conn EXCEPT !["client"] = "closed"]
    /\ UNCHANGED <<copier, hand, done, greeted, peers, flow>>

Tunnel == Refuse \/ Hijack \/ DialFails \/ Dial \/ Hello \/ Wait \/ CloseTarget \/ CloseClient

-----------------------------------------------------------------------------
(* The tunnel to the registry: the handler reads requests and answers them. *)

HelloRegistry ==
    /\ pc = "helloRegistry"
    /\ pc' = "request" /\ greeted' = TRUE
    /\ UNCHANGED <<conn, copier, hand, done, peers, flow>>

ReadRequest ==
    /\ pc = "request" /\ speech = "http" /\ Arrived("client")
    /\ pc' = "serve" /\ taken' = [taken EXCEPT !["client"] = @ + 1]
    /\ UNCHANGED <<conn, copier, hand, done, greeted, peers, dropped, got, answers>>

\* Not a request, the end of the stream, or a reset.
ReadRequestFails ==
    /\ pc = "request"
    /\ \/ speech = "tls" /\ Arrived("client")
       \/ shut["client"] /\ ~Arrived("client")
       \/ gone["client"]
    /\ pc' = "closeClient"
    /\ UNCHANGED <<conn, copier, hand, done, greeted, peers, flow>>

\* The registry's handler writes its answer; to a client that has left, in vain.
Serve ==
    /\ pc = "serve" /\ (Takes("client") \/ gone["client"])
    /\ answers' = answers + 1
    /\ pc' = AfterServe
    /\ UNCHANGED <<conn, copier, hand, done, greeted, peers, taken, dropped, got>>

\* It panics on a digest shorter than it prints; or the upstream it asks never
\* answers: its context ends with the tunnel, not with the client.
ServeFails ==
    /\ pc = "serve"
    /\ pc' \in {"panic", "hung"}
    /\ UNCHANGED <<conn, copier, hand, done, greeted, peers, flow>>

Registry == HelloRegistry \/ ReadRequest \/ ReadRequestFails \/ Serve \/ ServeFails

Handler == Tunnel \/ Registry

-----------------------------------------------------------------------------
(* io.Copy from side s, in a goroutine.                                     *)

Read(s) ==
    /\ copier[s] = "read" /\ conn[s] = "open" /\ Arrived(s)
    /\ taken' = [taken EXCEPT ![s] = @ + 1]
    /\ hand' = [hand EXCEPT ![s] = 1]
    /\ copier' = [copier EXCEPT ![s] = "write"]
    /\ UNCHANGED <<pc, conn, done, greeted, peers, dropped, got, answers>>

ReadEnds(s) ==
    /\ copier[s] = "read" /\ AtEnd(s)
    /\ copier' = [copier EXCEPT ![s] = "ended"]
    /\ UNCHANGED <<pc, conn, hand, done, greeted, peers, flow>>

Write(s) ==
    /\ copier[s] = "write" /\ conn[Other(s)] = "open" /\ Takes(Other(s))
    /\ got' = [got EXCEPT ![Other(s)] = @ + 1]
    /\ Written(s)
    /\ copier' = [copier EXCEPT ![s] = AfterWrite]
    /\ UNCHANGED <<pc, conn, done, greeted, peers, taken, dropped, answers>>

\* A closed connection fails the write; one the peer has left may take it.
WriteFails(s) ==
    /\ copier[s] = "write" /\ (conn[Other(s)] = "closed" \/ gone[Other(s)])
    /\ \/ copier' = [copier EXCEPT ![s] = "ended"]
       \/ conn[Other(s)] = "open" /\ copier' = [copier EXCEPT ![s] = AfterWrite]
    /\ hand' = [hand EXCEPT ![s] = 0]
    /\ UNCHANGED <<pc, conn, done, greeted, peers, flow>>

Signal(s) ==
    /\ copier[s] = "ended" /\ CanSignal
    /\ done' = done + 1
    /\ copier' = [copier EXCEPT ![s] = "off"]
    /\ UNCHANGED <<pc, conn, hand, greeted, peers, flow>>

Copier(s) == Read(s) \/ ReadEnds(s) \/ Write(s) \/ WriteFails(s) \/ Signal(s)

-----------------------------------------------------------------------------
(* The two sides.                                                           *)

MaySpeak(s) == /\ ~shut[s]
               /\ IF s = "client" THEN EarlyData \/ greeted ELSE conn[s] # "none"

Send(s) ==
    /\ MaySpeak(s) /\ sent[s] < MaxSend
    /\ sent' = [sent EXCEPT ![s] = @ + 1]
    /\ UNCHANGED <<proxy, shut, gone, stalled, host, speech, closing, flow>>

\* End of the request or of the answer, with the other direction still open.
Shut(s) ==
    /\ MaySpeak(s)
    /\ shut' = [shut EXCEPT ![s] = TRUE]
    /\ UNCHANGED <<proxy, sent, gone, stalled, host, speech, closing, flow>>

Leave(s) ==
    /\ ~gone[s] /\ conn[s] # "none"
    /\ gone' = [gone EXCEPT ![s] = TRUE] /\ shut' = [shut EXCEPT ![s] = TRUE]
    /\ UNCHANGED <<proxy, sent, stalled, host, speech, closing, flow>>

\* For good: one that reads on later is only slow.
Stall(s) ==
    /\ ~stalled[s] /\ ~gone[s] /\ conn[s] # "none"
    /\ stalled' = [stalled EXCEPT ![s] = TRUE]
    /\ UNCHANGED <<proxy, sent, shut, gone, host, speech, closing, flow>>

Peer(s) == Send(s) \/ Shut(s) \/ Leave(s) \/ Stall(s)

\* Both sides have left, and the handler waits for nothing of theirs.
Ended == /\ pc \in {"end", "refused", "hung"} /\ \A s \in Sides : gone[s] \/ conn[s] = "none"
         /\ UNCHANGED vars

Next == Handler \/ Ended \/ \E s \in Sides : Copier(s) \/ Peer(s)

Spec == Init /\ [][Next]_vars

\* The handler and both goroutines run when they can: the dial has a timeout,
\* and a closed connection makes a pending read or write return.  A write to a
\* side that does not read cannot run, and no request has to fail.
LiveSpec == /\ Spec
            /\ WF_vars(Tunnel)
            /\ WF_vars(HelloRegistry \/ ReadRequest \/ ReadRequestFails \/ Serve)
            /\ \A s \in Sides : WF_vars(Copier(s))

-----------------------------------------------------------------------------
(* Properties                                                               *)

TunnelSteps   == {"auth", "dial", "hello", "wait", "closeTarget", "closeClient", "end",
                   "refused"}
RegistrySteps == {"helloRegistry", "request", "serve", "hung", "panic"}

\* Types, and the account of every direction: nothing is delivered that was not
\* read, nothing twice, and no request is answered twice, or at all when it was
\* in Hijack's buffer.
TypeOK ==
    /\ pc \in TunnelSteps \cup RegistrySteps
    /\ conn \in [Sides -> {"none", "open", "closed"}]
    /\ copier \in [Sides -> {"off", "read", "write", "ended"}]
    /\ hand \in [Sides -> {0, 1}] /\ done \in 0 .. 2 /\ dropped \in Nat
    /\ sent \in [Sides -> Nat] /\ taken \in [Sides -> Nat] /\ got \in [Sides -> Nat]
    /\ shut \in [Sides -> BOOLEAN] /\ gone \in [Sides -> BOOLEAN] /\ greeted \in BOOLEAN
    /\ stalled \in [Sides -> BOOLEAN] /\ closing \subseteq 1 .. MaxSend
    /\ \A s \in Sides : taken[s] <= sent[s] /\ got[Other(s)] + hand[s] <= taken[s]
    /\ answers \in Nat /\ host \in Hosts /\ speech \in {"tls", "http"}
    /\ host = "registry" => answers + dropped <= taken["client"]

\* A goroutine that has ended its copy never waits to say so: the channel has
\* room even when the handler has left and nobody will read it again.
SignalNeverBlocks == \A s \in Sides : copier[s] = "ended" => CanSignal

\* A tunnel that is over, or that either side has left, leaves nothing behind:
\* both connections are closed and both goroutines have ended, the one too that
\* lost the race to end it.  What keeps the connection of a side that has left
\* is a request whose upstream never answers, or a write to the other side, if
\* that reads no more and stays: no deadline is set on either.
Held(s) == /\ stalled[s] /\ ~gone[s] /\ conn[s] = "open"
           /\ copier[Other(s)] = "write" \/ (s = "client" /\ pc = "serve")
NothingLeaks ==
    (pc = "closeClient" \/ \E s \in Sides : gone[s]) ~>
        \/ \A s \in Sides : conn[s] # "open" /\ copier[s] = "off"
        \/ pc \in {"refused", "hung"}
        \/ \E s \in Sides : Held(s)

\* While nobody ends the tunnel, what either side sends arrives at the other if
\* that reads, whether or not it reads itself; and in the tunnel to the registry
\* every request up to one that says Connection: close is answered.  What the
\* client sent so early that Hijack's buffer held it is not counted.
Ending == (\E s \in Sides : shut[s]) \/ pc \in {"hung", "panic"}
OpenTunnelDelivers ==
    \A k \in 1 .. MaxSend :
        /\ \A s \in Sides : (pc = "wait" /\ sent[s] >= k)
              ~> \/ got[Other(s)] + (IF s = "client" THEN dropped ELSE 0) >= k
                 \/ Ending \/ stalled[Other(s)]
        /\ (pc = "request" /\ speech = "http" /\ sent["client"] >= k /\ closing \cap 1 .. (k - 1) = {})
              ~> (answers + dropped >= k \/ Ending \/ stalled["client"])

-----------------------------------------------------------------------------
(* The tunnel as its two sides see it.                                      *)

\* Requests the proxy answers itself come out at the proxy.  A chunk is lost once
\* it has been read and is neither written nor in a goroutine's hand; what is
\* in the hand of the registry's handler stays there, if it never answers.
PassedOn(s) == got[Other(s)] + IF s = "client" THEN answers ELSE 0
LostOf(s)   == IF host = "registry" /\ s = "client" THEN dropped
               ELSE taken[s] - (got[Other(s)] + hand[s])

Pipe == INSTANCE DuplexPipe WITH
            stands <- greeted,
            line   <- conn,
            passed <- [s \in Sides |-> PassedOn(s)],
            lost   <- [s \in Sides |-> LostOf(s)],
            ended  <- {s \in Sides : shut[s]},
            gone   <- {s \in Sides : gone[s]}

\* handleTransparentTunnel and handleRegistryTunnel keep the promise of a duplex
\* pipe, for any interleaving of the handler, both goroutines and the sides: no
\* chunk comes through twice or before the 200, none is lost while its receiver
\* can take it, and a tunnel between two sides that talk is not cut.
ImplementsPipe == Pipe!PipeSpec

-----------------------------------------------------------------------------
(* What the documents say and the code does not do.                         *)

\* docs/deployment.md: with the CONNECT proxy the client talks to the registry
\* itself, and the proxy is a transparent tunnel.  So what the client sends
\* reaches the target, unless somebody ends the tunnel or stops reading first.
TunnelIsTransparent ==
    \A k \in 1 .. MaxSend :
        (greeted /\ sent["client"] >= k)
            ~> (got["target"] + dropped >= k \/ Ending \/ \E s \in Sides : stalled[s])
=============================================================================
