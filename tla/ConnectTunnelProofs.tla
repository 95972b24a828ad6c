------------------------ MODULE ConnectTunnelProofs ------------------------
(* What holds of ConnectTunnel however many chunks are sent.                *)
EXTENDS ConnectTunnel, TLAPS

USE DEF CanSignal, AfterWrite, AfterServe, Written, Arrived, TunnelSteps, RegistrySteps

\* A goroutine holds a chunk exactly while it is about to write it, and there
\* are none of either before the 200, nor ever in the tunnel to the registry.
HandInv ==
    /\ \A s \in Sides : hand[s] = IF copier[s] = "write" THEN 1 ELSE 0
    /\ pc \in {"auth", "dial", "hello"} \/ host = "registry" =>
          done = 0 /\ \A s \in Sides : copier[s] = "off" /\ got[s] = 0
    /\ pc = "auth" => answers = 0 /\ \A s \in Sides : taken[s] = 0
    /\ pc \in {"dial", "hello", "wait", "closeTarget"} => host # "registry"
    /\ pc \in RegistrySteps => host = "registry"
    /\ pc = "serve" => answers + dropped < taken["client"]

\* Every value in the channel is that of one goroutine, which is no more.
Alive(s) == IF copier[s] = "off" THEN 0 ELSE 1
RoomInv  == done + Alive("client") + Alive("target") <= 2

TunnelInv == TypeOK /\ HandInv /\ RoomInv

LEMMA TunnelInit == Init => TunnelInv
<1> SUFFICES ASSUME Init PROVE TunnelInv
  OBVIOUS
<1> USE DEF Init, Sides, Other
<1>1. TypeOK
  <2>1. conn \in [Sides -> {"none", "open", "closed"}]
    OBVIOUS
  <2>2. \A s \in Sides : taken[s] <= sent[s] /\ got[Other(s)] + hand[s] <= taken[s]
    OBVIOUS
  <2>3. shut \in [Sides -> BOOLEAN] /\ gone \in [Sides -> BOOLEAN] /\ greeted \in BOOLEAN
    BY Zenon
  <2>5. stalled \in [Sides -> BOOLEAN] /\ closing \subseteq 1 .. MaxSend
    BY Zenon
  <2>4. host \in Hosts /\ speech \in {"tls", "http"}
    OBVIOUS
  <2> QED BY <2>1, <2>2, <2>3, <2>4, <2>5 DEF TypeOK
<1>2. HandInv
  BY DEF HandInv
<1>3. RoomInv
  BY DEF RoomInv, Alive
<1> QED BY <1>1, <1>2, <1>3 DEF TunnelInv

\* The handler reads the channel and closes; it touches no chunk but those the
\* buffer of Hijack holds, before the goroutines exist.
LEMMA TunnelStep == TunnelInv /\ Tunnel => TunnelInv'
<1> SUFFICES ASSUME TunnelInv, Tunnel PROVE TunnelInv'
  OBVIOUS
<1> USE DEF TunnelInv, TypeOK, HandInv, RoomInv, Alive, Sides, Other, peers, flow
<1>1. CASE Refuse
  BY <1>1 DEF Refuse
<1>2. CASE Hijack
  BY <1>2 DEF Hijack
<1>3. CASE DialFails
  BY <1>3 DEF DialFails
<1>4. CASE Dial
  BY <1>4 DEF Dial
<1>5. CASE Hello
  BY <1>5 DEF Hello
<1>6. CASE Wait
  BY <1>6 DEF Wait
<1>7. CASE CloseTarget
  BY <1>7 DEF CloseTarget
<1>8. CASE CloseClient
  BY <1>8 DEF CloseClient
<1> QED BY <1>1, <1>2, <1>3, <1>4, <1>5, <1>6, <1>7, <1>8 DEF Tunnel

\* The loop of the registry tunnel takes one request and answers it once.
LEMMA RegistryStep == TunnelInv /\ Registry => TunnelInv'
<1> SUFFICES ASSUME TunnelInv, Registry PROVE TunnelInv'
  OBVIOUS
<1> USE DEF TunnelInv, TypeOK, HandInv, RoomInv, Alive, Sides, Other, peers, flow
<1>1. CASE HelloRegistry
  BY <1>1 DEF HelloRegistry
<1>2. CASE ReadRequest
  BY <1>2 DEF ReadRequest
<1>3. CASE ReadRequestFails
  BY <1>3 DEF ReadRequestFails
<1>4. CASE Serve
  BY <1>4 DEF Serve
<1>5. CASE ServeFails
  BY <1>5 DEF ServeFails
<1> QED BY <1>1, <1>2, <1>3, <1>4, <1>5 DEF Registry

\* A goroutine carries one chunk at a time, and signals once.
LEMMA CopierStep == ASSUME NEW s \in Sides PROVE TunnelInv /\ Copier(s) => TunnelInv'
<1> SUFFICES ASSUME TunnelInv, Copier(s) PROVE TunnelInv'
  OBVIOUS
<1> USE DEF TunnelInv, TypeOK, HandInv, RoomInv, Alive, Sides, Other, peers, flow
<1>1. CASE Read(s)
  BY <1>1 DEF Read
<1>2. CASE ReadEnds(s)
  BY <1>2 DEF ReadEnds, AtEnd
<1>3. CASE Write(s)
  BY <1>3 DEF Write
<1>4. CASE WriteFails(s)
  BY <1>4 DEF WriteFails
<1>5. CASE Signal(s)
  BY <1>5 DEF Signal
<1> QED BY <1>1, <1>2, <1>3, <1>4, <1>5 DEF Copier

\* The peers only add to what they have sent.
LEMMA PeerStep == ASSUME NEW s \in Sides PROVE TunnelInv /\ Peer(s) => TunnelInv'
<1> SUFFICES ASSUME TunnelInv, Peer(s) PROVE TunnelInv'
  OBVIOUS
<1> USE DEF TunnelInv, TypeOK, HandInv, RoomInv, Alive, Sides, Other, proxy, flow
<1>1. CASE Send(s)
  BY <1>1 DEF Send
<1>2. CASE Shut(s)
  BY <1>2 DEF Shut
<1>3. CASE Leave(s)
  BY <1>3 DEF Leave
<1>4. CASE Stall(s)
  BY <1>4 DEF Stall
<1> QED BY <1>1, <1>2, <1>3, <1>4 DEF Peer

\* The account of chunks, the hand of each goroutine and the room in the
\* channel are right in every reachable state.
THEOREM TunnelInvariant == Spec => []TunnelInv
<1>1. TunnelInv /\ [Next]_vars => TunnelInv'
  <2>1. TunnelInv /\ UNCHANGED vars => TunnelInv'
    BY DEF vars, proxy, peers, flow, TunnelInv, TypeOK, HandInv, RoomInv, Alive
  <2> QED BY <2>1, TunnelStep, RegistryStep, CopierStep, PeerStep DEF Next, Handler, Ended
<1> QED BY <1>1, TunnelInit, PTL DEF Spec

\* Nothing is delivered that was not sent, and nothing twice.
THEOREM TunnelTypeCorrect == Spec => []TypeOK
<1>1. TunnelInv => TypeOK
  BY DEF TunnelInv
<1> QED BY <1>1, TunnelInvariant, PTL

\* The goroutine that loses the race to end the tunnel finds room in done, so
\* it ends although nobody reads the channel any more.
THEOREM SignalsNeverBlock == Spec => []SignalNeverBlocks
<1>1. TunnelInv => SignalNeverBlocks
  BY DEF TunnelInv, TypeOK, RoomInv, Alive, Sides, SignalNeverBlocks
<1> QED BY <1>1, TunnelInvariant, PTL
-----------------------------------------------------------------------------
(* The tunnel keeps the promise of DuplexPipe.                              *)

\* Somebody has ended a direction.
SomeShut == \E s \in Sides : shut[s]

\* Which connections are open at which step of the handler, and that nothing
\* but the end of a side sets a tunnel's end in motion.
LineInv ==
    /\ pc \in {"auth", "dial", "hello", "helloRegistry"} => ~greeted
    /\ pc \in {"wait", "closeTarget", "request", "serve", "panic", "hung"} => greeted
    /\ \A s \in Sides : copier[s] # "off" => greeted
    /\ conn["client"] = IF pc = "end" THEN "closed" ELSE "open"
    /\ pc \in {"auth", "dial"} \/ host = "registry" => conn["target"] = "none"
    /\ pc \in {"hello", "wait", "closeTarget"} => conn["target"] = "open"
    /\ pc \in {"closeClient", "end"} => conn["target"] # "open"
    /\ \A s \in Sides : gone[s] => shut[s] /\ conn[s] # "none"
    /\ host # "registry" => answers = 0

EndInv ==
    /\ (\E s \in Sides : copier[s] = "ended") => SomeShut
    /\ done > 0 \/ pc = "closeTarget" \/ conn["target"] = "closed" => SomeShut
    /\ greeted /\ host # "registry" /\ pc \in {"closeClient", "end"} => SomeShut

PipeInv == TunnelInv /\ LineInv /\ EndInv

LEMMA PipeStart == Init => PipeInv
<1> SUFFICES ASSUME Init PROVE PipeInv
  OBVIOUS
<1>1. TunnelInv
  BY TunnelInit
<1>2. LineInv
  BY DEF Init, LineInv, Sides
<1>3. EndInv
  BY DEF Init, EndInv, Sides
<1> QED
  BY <1>1, <1>2, <1>3 DEF PipeInv

LEMMA TunnelStepLine == PipeInv /\ Tunnel => LineInv' /\ EndInv'
<1> SUFFICES ASSUME PipeInv, Tunnel PROVE LineInv' /\ EndInv'
  OBVIOUS
<1> USE DEF PipeInv, TunnelInv, TypeOK, HandInv, LineInv, EndInv, SomeShut, Sides, peers, flow
<1>1. CASE Refuse
  BY <1>1 DEF Refuse
<1>2. CASE Hijack
  BY <1>2 DEF Hijack
<1>3. CASE DialFails
  BY <1>3 DEF DialFails
<1>4. CASE Dial
  BY <1>4 DEF Dial
<1>5. CASE Hello
  BY <1>5 DEF Hello
<1>6. CASE Wait
  BY <1>6 DEF Wait
<1>7. CASE CloseTarget
  BY <1>7 DEF CloseTarget
<1>8. CASE CloseClient
  BY <1>8 DEF CloseClient
<1> QED BY <1>1, <1>2, <1>3, <1>4, <1>5, <1>6, <1>7, <1>8 DEF Tunnel

LEMMA RegistryStepLine == PipeInv /\ Registry => LineInv' /\ EndInv'
<1> SUFFICES ASSUME PipeInv, Registry PROVE LineInv' /\ EndInv'
  OBVIOUS
<1> USE DEF PipeInv, TunnelInv, TypeOK, HandInv, LineInv, EndInv, SomeShut, Sides, peers, flow
<1>1. CASE HelloRegistry
  BY <1>1 DEF HelloRegistry
<1>2. CASE ReadRequest
  BY <1>2 DEF ReadRequest
<1>3. CASE ReadRequestFails
  BY <1>3 DEF ReadRequestFails
<1>4. CASE Serve
  BY <1>4 DEF Serve
<1>5. CASE ServeFails
  BY <1>5 DEF ServeFails
<1> QED BY <1>1, <1>2, <1>3, <1>4, <1>5 DEF Registry

\* A copy ends because a side has ended: by itself, or through the handler.
LEMMA CopierStepLine == ASSUME NEW s \in Sides PROVE PipeInv /\ Copier(s) => LineInv' /\ EndInv'
<1> SUFFICES ASSUME PipeInv, Copier(s) PROVE LineInv' /\ EndInv'
  OBVIOUS
<1> USE DEF PipeInv, TunnelInv, TypeOK, HandInv, LineInv, EndInv, SomeShut, Sides, Other, peers, flow
<1>1. CASE Read(s)
  BY <1>1 DEF Read
<1>2. CASE ReadEnds(s)
  BY <1>2 DEF ReadEnds, AtEnd
<1>3. CASE Write(s)
  BY <1>3 DEF Write
<1>4. CASE WriteFails(s)
  BY <1>4 DEF WriteFails
<1>5. CASE Signal(s)
  BY <1>5 DEF Signal
<1> QED BY <1>1, <1>2, <1>3, <1>4, <1>5 DEF Copier

LEMMA PeerStepLine == ASSUME NEW s \in Sides PROVE PipeInv /\ Peer(s) => LineInv' /\ EndInv'
<1> SUFFICES ASSUME PipeInv, Peer(s) PROVE LineInv' /\ EndInv'
  OBVIOUS
<1> USE DEF PipeInv, TunnelInv, TypeOK, HandInv, LineInv, EndInv, SomeShut, Sides, Other, proxy, flow
<1>1. CASE Send(s)
  BY <1>1 DEF Send
<1>2. CASE Shut(s)
  BY <1>2 DEF Shut
<1>3. CASE Leave(s)
  BY <1>3 DEF Leave
<1>4. CASE Stall(s)
  BY <1>4 DEF Stall
<1> QED BY <1>1, <1>2, <1>3, <1>4 DEF Peer

LEMMA PipeInvStep == PipeInv /\ [Next]_vars => PipeInv'
<1> SUFFICES ASSUME PipeInv, [Next]_vars PROVE PipeInv'
  OBVIOUS
<1>1. TunnelInv'
  <2>1. CASE UNCHANGED vars
    BY <2>1 DEF vars, proxy, peers, flow, PipeInv, TunnelInv, TypeOK, HandInv, RoomInv, Alive
  <2> QED
    BY <2>1, TunnelStep, RegistryStep, CopierStep, PeerStep DEF PipeInv, Next, Handler, Ended
<1>2. LineInv' /\ EndInv'
  <2>1. CASE UNCHANGED vars
    BY <2>1 DEF vars, proxy, peers, flow, PipeInv, LineInv, EndInv, SomeShut
  <2> QED
    BY <2>1, TunnelStepLine, RegistryStepLine, CopierStepLine, PeerStepLine DEF Next, Handler, Ended
<1> QED
  BY <1>1, <1>2 DEF PipeInv
-----------------------------------------------------------------------------
\* The account of chunks, as the pipe keeps it.
PassedMap == [s \in Sides |-> PassedOn(s)]
LostMap   == [s \in Sides |-> LostOf(s)]
EndedMap  == {s \in Sides : shut[s]}
GoneMap   == {s \in Sides : gone[s]}
Account   == <<sent, PassedMap, LostMap, EndedMap, GoneMap>>

LEMMA PipeInits == Init => Pipe!PipeInit
<1> SUFFICES ASSUME Init PROVE Pipe!PipeInit
  OBVIOUS
<1>1. \A s \in Sides : PassedOn(s) = 0 /\ LostOf(s) = 0
  BY DEF Init, PassedOn, LostOf, Sides, Other
<1> QED
  BY <1>1 DEF Init, Pipe!PipeInit, Pipe!Sides, Sides

\* A step that moves no chunk leaves the account alone.
LEMMA SameAccount ==
  ASSUME UNCHANGED <<sent, got, taken, hand, dropped, answers, shut, gone, host>>
  PROVE  UNCHANGED Account
BY DEF Account, PassedMap, LostMap, EndedMap, GoneMap, PassedOn, LostOf

\* Some of what the connection to the target needs is only known at its steps.
LEMMA TunnelPipe == PipeInv /\ Tunnel => [Pipe!PipeNext]_(Pipe!pipeVars)
<1> SUFFICES ASSUME PipeInv, Tunnel PROVE [Pipe!PipeNext]_(Pipe!pipeVars)
  OBVIOUS
<1> USE DEF Account, PassedMap, LostMap, EndedMap, GoneMap
<1>1. CASE Refuse \/ DialFails \/ Dial \/ Hello \/ Wait \/ CloseTarget \/ CloseClient
  <2>1. UNCHANGED Account
    BY <1>1, SameAccount DEF Refuse, DialFails, Dial, Hello, Wait, CloseTarget, CloseClient, peers, flow
  <2>3. CASE Refuse \/ DialFails \/ Wait
    BY <2>1, <2>3 DEF Refuse, DialFails, Wait, Pipe!pipeVars
  <2>4. CASE Dial
    <3>1. Pipe!Connect
      BY <2>1, <2>4 DEF Dial, Pipe!Connect, PipeInv, LineInv
    <3> QED
      BY <3>1 DEF Pipe!PipeNext
  <2>5. CASE Hello
    <3>1. Pipe!Announce
      BY <2>1, <2>5 DEF Hello, Pipe!Announce, PipeInv, LineInv
    <3> QED
      BY <3>1 DEF Pipe!PipeNext
  <2>6. CASE CloseTarget
    <3>1. EndedMap # {}
      BY <2>6 DEF CloseTarget, PipeInv, EndInv, SomeShut
    <3>2. Pipe!CutTarget
      BY <2>1, <2>6, <3>1 DEF CloseTarget, Pipe!CutTarget, PipeInv, LineInv
    <3> QED
      BY <3>2 DEF Pipe!PipeNext
  <2>7. CASE CloseClient
    <3>1. conn["target"] # "open"
      BY <2>7 DEF CloseClient, PipeInv, LineInv, TunnelInv, HandInv
    <3>2. Pipe!CutClient
      BY <2>1, <2>7, <3>1 DEF CloseClient, Pipe!CutClient
    <3> QED
      BY <3>2 DEF Pipe!PipeNext
  <2> QED
    BY <1>1, <2>3, <2>4, <2>5, <2>6, <2>7
<1>2. CASE Hijack
  <2>1. PICK n \in 0 .. sent["client"] :
            taken' = [taken EXCEPT !["client"] = n] /\ dropped' = n
    BY <1>2 DEF Hijack
  <2>2. /\ UNCHANGED <<sent, shut, gone, host, greeted, conn, got, answers, hand>>
        /\ ~greeted /\ conn["target"] = "none"
    BY <1>2 DEF Hijack, peers, PipeInv, LineInv
  <2>3. \A s \in Sides : hand[s] = 0 /\ got[s] = 0 /\ Other(s) \in Sides
    BY <1>2 DEF Hijack, PipeInv, TunnelInv, HandInv, Sides, Other
  <2>4. UNCHANGED <<PassedMap, EndedMap, GoneMap>>
    BY <2>2 DEF PassedOn
  <2>5. LostMap' = [LostMap EXCEPT !["client"] = n]
    <3>1. \A s \in Sides : LostOf(s)' = IF s = "client" THEN n ELSE LostOf(s)
      BY <2>1, <2>2, <2>3 DEF LostOf, Sides, Other, PipeInv, TunnelInv, TypeOK
    <3> QED
      BY <3>1
  <2>6. Pipe!LoseEarly
    BY <2>2, <2>4, <2>5 DEF Pipe!LoseEarly
  <2> QED
    BY <2>6 DEF Pipe!PipeNext
<1> QED
  BY <1>1, <1>2 DEF Tunnel
\* One request more is answered: it comes out at the proxy.
LEMMA RegistryPipe == PipeInv /\ Registry => [Pipe!PipeNext]_(Pipe!pipeVars)
<1> SUFFICES ASSUME PipeInv, Registry PROVE [Pipe!PipeNext]_(Pipe!pipeVars)
  OBVIOUS
<1> USE DEF Account, PassedMap, LostMap, EndedMap, GoneMap
<1>1. CASE HelloRegistry
  <2>1. UNCHANGED Account
    BY <1>1, SameAccount DEF HelloRegistry, peers, flow
  <2>2. Pipe!Announce
    BY <1>1, <2>1 DEF HelloRegistry, Pipe!Announce, PipeInv, LineInv
  <2> QED
    BY <2>2 DEF Pipe!PipeNext
<1>2. CASE ReadRequest
  <2>1. /\ host = "registry" /\ taken' = [taken EXCEPT !["client"] = @ + 1]
        /\ UNCHANGED <<sent, shut, gone, host, greeted, conn, got, answers, hand, dropped>>
    BY <1>2 DEF ReadRequest, peers, PipeInv, TunnelInv, HandInv
  <2>2. \A s \in Sides : LostOf(s)' = LostOf(s) /\ PassedOn(s)' = PassedOn(s)
    BY <2>1 DEF LostOf, PassedOn, Sides, PipeInv, TunnelInv, TypeOK
  <2> QED
    BY <2>1, <2>2 DEF Pipe!pipeVars
<1>3. CASE ReadRequestFails \/ ServeFails
  <2>1. UNCHANGED Account /\ UNCHANGED <<greeted, conn>>
    BY <1>3, SameAccount DEF ReadRequestFails, ServeFails, peers, flow
  <2> QED
    BY <2>1 DEF Pipe!pipeVars
<1>4. CASE Serve
  <2>1. /\ answers' = answers + 1 /\ pc = "serve" /\ host = "registry"
        /\ UNCHANGED <<sent, shut, gone, host, greeted, conn, got, taken, hand, dropped>>
    BY <1>4 DEF Serve, peers, PipeInv, TunnelInv, HandInv
  <2>2. greeted /\ conn["target"] = "none" /\ ~gone["target"]
    BY <2>1 DEF PipeInv, LineInv, Sides
  <2>3. got["target"] = 0 /\ answers + dropped < sent["client"]
    BY <2>1 DEF PipeInv, TunnelInv, HandInv, TypeOK, Sides
  <2>4. UNCHANGED <<LostMap, EndedMap, GoneMap>>
    BY <2>1 DEF LostOf
  <2>5. PassedMap' = [PassedMap EXCEPT !["client"] = @ + 1]
    <3>1. \A s \in Sides : PassedOn(s)' = IF s = "client" THEN PassedOn(s) + 1 ELSE PassedOn(s)
      BY <2>1 DEF PassedOn, Sides, Other, PipeInv, TunnelInv, TypeOK
    <3> QED
      BY <3>1
  <2>6. PassedMap["client"] + LostMap["client"] < sent["client"]
    BY <2>1, <2>3 DEF PassedOn, LostOf, Sides, Other, PipeInv, TunnelInv, TypeOK
  <2>7. Pipe!Pass("client")
    BY <2>1, <2>2, <2>4, <2>5, <2>6 DEF Pipe!Pass, Pipe!InPipe, Pipe!CanTake, Pipe!Other
  <2> QED
    BY <2>7 DEF Pipe!PipeNext, Pipe!Sides
<1> QED
  BY <1>1, <1>2, <1>3, <1>4 DEF Registry

\* What a goroutine has in hand is still in the pipe: it comes out when it is
\* written, and is lost when it cannot be.
LEMMA CopierPipe == ASSUME NEW s \in Sides, PipeInv, Copier(s) PROVE [Pipe!PipeNext]_(Pipe!pipeVars)
<1> USE DEF Account, PassedMap, LostMap, EndedMap, GoneMap
<1>0. /\ Other(s) \in Sides /\ Other(Other(s)) = s /\ Other(s) # s
      /\ \A q \in Sides : Other(q) = s <=> q = Other(s)
  BY DEF Sides, Other
<1>1. CASE Read(s)
  <2>1. /\ copier[s] = "read" /\ hand[s] = 0
        /\ taken' = [taken EXCEPT ![s] = @ + 1] /\ hand' = [hand EXCEPT ![s] = 1]
        /\ UNCHANGED <<sent, shut, gone, host, greeted, conn, got, answers, dropped>>
    BY <1>1 DEF Read, peers, PipeInv, TunnelInv, HandInv
  <2>2. \A q \in Sides : LostOf(q)' = LostOf(q) /\ PassedOn(q)' = PassedOn(q)
    BY <1>0, <2>1 DEF LostOf, PassedOn, PipeInv, TunnelInv, TypeOK
  <2> QED
    BY <2>1, <2>2 DEF Pipe!pipeVars
<1>2. CASE ReadEnds(s) \/ Signal(s)
  <2>1. UNCHANGED Account /\ UNCHANGED <<greeted, conn>>
    BY <1>2, SameAccount DEF ReadEnds, Signal, peers, flow
  <2> QED
    BY <2>1 DEF Pipe!pipeVars
<1>3. CASE copier[s] = "write"
  <2>1. /\ hand[s] = 1 /\ host # "registry" /\ answers = 0 /\ greeted
        /\ taken[s] <= sent[s] /\ got[Other(s)] + hand[s] <= taken[s]
    BY <1>3 DEF PipeInv, TunnelInv, HandInv, LineInv, TypeOK
  <2>2. PassedMap[s] + LostMap[s] < sent[s]
    BY <1>0, <2>1 DEF PassedOn, LostOf, PipeInv, TunnelInv, TypeOK
  <2>3. CASE Write(s)
    <3>1. /\ conn[Other(s)] = "open" /\ ~gone[Other(s)]
          /\ got' = [got EXCEPT ![Other(s)] = @ + 1] /\ hand' = [hand EXCEPT ![s] = 0]
          /\ UNCHANGED <<sent, shut, gone, host, greeted, conn, taken, answers, dropped>>
      BY <2>3 DEF Write, Takes, peers
    <3>2. \A q \in Sides : /\ LostOf(q)' = LostOf(q)
                           /\ PassedOn(q)' = IF q = s THEN PassedOn(q) + 1 ELSE PassedOn(q)
      <4> TAKE q \in Sides
      <4>1. /\ Other(q) \in Sides /\ got[Other(q)] \in Nat /\ hand[q] \in Nat /\ taken[q] \in Nat
            /\ got'[Other(q)] = IF q = s THEN got[Other(q)] + 1 ELSE got[Other(q)]
            /\ hand'[q] = IF q = s THEN 0 ELSE hand[q]
        <5>1. Other(q) \in Sides /\ (q = s <=> Other(q) = Other(s))
          BY DEF Sides, Other
        <5> QED
          BY <3>1, <5>1 DEF PipeInv, TunnelInv, TypeOK
      <4>2. LostOf(q)' = LostOf(q)
        BY <2>1, <3>1, <4>1 DEF LostOf
      <4>3. PassedOn(q)' = IF q = s THEN PassedOn(q) + 1 ELSE PassedOn(q)
        BY <2>1, <3>1, <4>1 DEF PassedOn
      <4> QED
        BY <4>2, <4>3
    <3>3. LostMap' = LostMap /\ PassedMap' = [PassedMap EXCEPT ![s] = @ + 1]
      BY <3>2
    <3>4. Pipe!Pass(s)
      BY <1>0, <2>1, <2>2, <3>1, <3>3 DEF Pipe!Pass, Pipe!InPipe, Pipe!CanTake, Pipe!Other, Other
    <3> QED
      BY <3>4 DEF Pipe!PipeNext, Pipe!Sides, Sides
  <2>4. CASE WriteFails(s)
    <3>1. /\ conn[Other(s)] = "closed" \/ gone[Other(s)]
          /\ hand' = [hand EXCEPT ![s] = 0]
          /\ UNCHANGED <<sent, shut, gone, host, greeted, conn, got, taken, answers, dropped>>
      BY <2>4 DEF WriteFails, peers, flow
    <3>2. \A q \in Sides : /\ LostOf(q)' = IF q = s THEN LostOf(q) + 1 ELSE LostOf(q)
                           /\ PassedOn(q)' = PassedOn(q)
      BY <1>0, <2>1, <3>1 DEF LostOf, PassedOn, PipeInv, TunnelInv, TypeOK
    <3>3. PassedMap' = PassedMap /\ LostMap' = [LostMap EXCEPT ![s] = @ + 1]
      BY <3>2
    <3>4. Pipe!Lose(s)
      BY <1>0, <2>1, <2>2, <3>1, <3>3 DEF Pipe!Lose, Pipe!InPipe, Pipe!CanTake, Pipe!Other, Other
    <3> QED
      BY <3>4 DEF Pipe!PipeNext, Pipe!Sides, Sides
  <2> QED
    BY <1>3, <2>3, <2>4 DEF Copier, Read, ReadEnds, Signal
<1> QED
  BY <1>1, <1>2, <1>3 DEF Copier, Write, WriteFails

LEMMA PeerPipe == ASSUME NEW s \in Sides, PipeInv, Peer(s) PROVE [Pipe!PipeNext]_(Pipe!pipeVars)
<1> USE DEF Account, PassedMap, LostMap, EndedMap, GoneMap
<1>1. UNCHANGED <<greeted, conn, PassedMap, LostMap>>
  BY DEF Peer, Send, Shut, Leave, Stall, proxy, flow, PassedOn, LostOf
<1>2. CASE Send(s)
  <2>1. Pipe!Put(s)
    BY <1>1, <1>2 DEF Send, MaySpeak, Pipe!Put
  <2> QED
    BY <2>1 DEF Pipe!PipeNext, Pipe!Sides, Sides
<1>3. CASE Shut(s)
  <2>1. EndedMap' = EndedMap \cup {s} /\ GoneMap' = GoneMap /\ sent' = sent
    BY <1>3 DEF Shut, PipeInv, TunnelInv, TypeOK
  <2>2. Pipe!EndSending(s)
    BY <1>1, <2>1 DEF Pipe!EndSending
  <2> QED
    BY <2>2 DEF Pipe!PipeNext, Pipe!Sides, Sides
<1>4. CASE Leave(s)
  <2>1. EndedMap' = EndedMap \cup {s} /\ GoneMap' = GoneMap \cup {s} /\ sent' = sent
    BY <1>4 DEF Leave, PipeInv, TunnelInv, TypeOK
  <2>2. Pipe!Depart(s)
    BY <1>1, <1>4, <2>1 DEF Leave, Pipe!Depart
  <2> QED
    BY <2>2 DEF Pipe!PipeNext, Pipe!Sides, Sides
<1>5. CASE Stall(s)
  <2>1. UNCHANGED <<sent, EndedMap, GoneMap>>
    BY <1>5 DEF Stall
  <2> QED
    BY <1>1, <2>1 DEF Pipe!pipeVars
<1> QED
  BY <1>2, <1>3, <1>4, <1>5 DEF Peer

\* The tunnel implements DuplexPipe, for any number of chunks and every order in
\* which the handler, both goroutines and both sides run: no chunk comes through
\* twice or before the 200, none is lost while its receiver can take it, and a
\* tunnel is taken down only when a side of it has ended, target first.
THEOREM TunnelImplementsPipe == Spec => ImplementsPipe
<1>1. PipeInv /\ [Next]_vars => [Pipe!PipeNext]_(Pipe!pipeVars)
  <2>1. UNCHANGED vars => UNCHANGED Pipe!pipeVars
    BY DEF vars, proxy, peers, flow, Pipe!pipeVars, PassedOn, LostOf
  <2> QED
    BY <2>1, TunnelPipe, RegistryPipe, CopierPipe, PeerPipe DEF Next, Handler, Ended
<1> QED
  BY <1>1, PipeStart, PipeInits, PipeInvStep, PTL DEF Spec, ImplementsPipe, Pipe!PipeSpec
=============================================================================
