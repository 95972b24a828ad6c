---------------------------- MODULE RegistryPull ----------------------------
(***************************************************************************)
(* The requests of a pull as internal/registry serves them: a token from   *)
(* the cache of internal/auth or from its realm, a node, the upstream, the *)
(* outcome for the store, the body for the client.  Requests share the     *)
(* token cache and, with the dashboard's console, the pool of the store.   *)
(* A client may leave, an upstream or a realm may never answer.            *)
(***************************************************************************)
EXTENDS StorePool, FiniteSets

CONSTANTS
    Pullers, Consoles,   \* goroutines: of /v2/ requests, of the admin API
    Tunnelled,           \* those of the pullers that serve a registry tunnel
    Images, GhcrImages,  \* image names, and those that begin with ghcr/
    Requests,            \* what clients may ask for
    MaxRequests          \* bound on requests and tests of nodes in one behaviour

Kinds     == {"blob", "head", "manifest"}
NoImage   == "noImage"
NoRequest == [kind |-> "none", image |-> NoImage]

Answers == {"unseen", "error", "body"}

ASSUME PullAssumption ==
    /\ IsFiniteSet(Procs) /\ Procs = Pullers \cup Consoles /\ Pullers \cap Consoles = {}
    /\ Tunnelled \subseteq Pullers
    /\ GhcrImages \subseteq Images /\ NoImage \notin Images
    /\ Requests \subseteq [kind : Kinds, image : Images]
    /\ MaxRequests \in Nat

VARIABLES
    cached,   \* TokenService.tokenCache: the image a token was issued for
    pc,       \* the handler's next step, or what the client saw at its end
    req,
    token,    \* the image whose token the request carries
    left,     \* requests whose client is gone
    got,      \* what the upstream answered
    asked,    \* requests and tests of nodes so far
    owed      \* history: outcomes that are in the table or being written

serve   == <<pc, req, token, left, got>>
counts  == <<asked, owed>>
vars    == <<pool, cached, serve, counts>>

-----------------------------------------------------------------------------
(* An operator whose name has an underscore is the next one with a          *)
(* programming error in it; no action uses it.                              *)

\* The cache key: the mirror's host, always docker.1ms.run here, and the name.
Key_hostOnly(image) == CHOOSE i \in Images : TRUE
Key(image)          == image

\* The order of the steps, per kind of request.
First(kind) == IF kind = "head" THEN "select" ELSE "token"
AfterToken(kind)  == IF kind = "blob" THEN "select" ELSE "get"
AfterSelect(kind) == IF kind = "head" THEN "token" ELSE "get"

\* Realm and upstream are asked with the context of the request.  The server of
\* the registry cancels it when the client leaves; the one of a registry tunnel
\* is derived from Background and ends with the tunnel's loop only.
Cancelled_background(p) == FALSE
Cancelled(p)            == p \in left /\ p \notin Tunnelled

\* Only a GET of a blob is an outcome for the store.
Records_head(kind) == kind # "manifest"
Records(kind)      == kind = "blob"

\* Whether the outcome could be recorded or not, the body is passed on.
AfterRecord_fatal == {"reply", "spoilt"}
AfterRecord       == {"reply"}

To(p, step) == pc' = [pc EXCEPT ![p] = step]

\* The handler returns: the client sees w, unless it has left.
Finish(p, w) ==
    /\ To(p, IF p \in left THEN "unseen" ELSE w)
    /\ req' = [req EXCEPT ![p] = NoRequest]
    /\ left' = left \ {p}
    /\ token' = [token EXCEPT ![p] = NoImage]
    /\ got' = [got EXCEPT ![p] = "none"]

-----------------------------------------------------------------------------
Init ==
    /\ PoolInit
    /\ cached = [i \in Images |-> NoImage]
    /\ pc = [p \in Pullers |-> "unseen"] /\ req = [p \in Pullers |-> NoRequest]
    /\ token = [p \in Pullers |-> NoImage] /\ left = {}
    /\ got = [p \in Pullers |-> "none"]
    /\ asked = 0 /\ owed = 0

\* /v2/, uploads and unknown paths are answered at once, whatever the others do.
Ping == UNCHANGED vars

Request(p, r) ==
    /\ pc[p] \in Answers
    /\ asked < MaxRequests /\ asked' = asked + 1
    /\ To(p, First(r.kind))
    /\ req' = [req EXCEPT ![p] = r]
    /\ UNCHANGED <<pool, cached, token, left, got, owed>>

Leave(p) ==
    /\ pc[p] \notin Answers /\ p \notin left
    /\ left' = left \cup {p}
    /\ UNCHANGED <<pool, cached, pc, req, token, got, counts>>

\* A digest shorter than the log lines print panics: Recoverer answers, and in a
\* tunnel net/http ends it.  An address that is no URL is a 500.
Malformed(p) ==
    /\ pc[p] \in {"token", First(req[p].kind)}
    /\ Finish(p, "error")
    /\ UNCHANGED <<pool, cached, counts>>

-----------------------------------------------------------------------------
(* GetToken.  A request that gets none goes on without.                     *)

\* The look at the cache, under the read lock.  ghcr has no token source.
LookUp(p) ==
    LET i == req[p].image IN
    /\ pc[p] = "token"
    /\ IF i \notin GhcrImages /\ cached[Key(i)] = NoImage
       THEN To(p, "ask") ELSE To(p, AfterToken(req[p].kind))
    /\ token' = [token EXCEPT ![p] = IF i \in GhcrImages THEN NoImage ELSE cached[Key(i)]]
    /\ UNCHANGED <<pool, cached, req, left, got, counts>>

\* The realm issues a token for the image; it is stored under the write lock,
\* over one that another request may have stored meanwhile.
RealmIssues(p) ==
    LET i == req[p].image IN
    /\ pc[p] = "ask"
    /\ cached' = [cached EXCEPT ![Key(i)] = i]
    /\ token' = [token EXCEPT ![p] = i]
    /\ To(p, AfterToken(req[p].kind))
    /\ UNCHANGED <<pool, req, left, got, counts>>

RealmRefuses(p) ==
    /\ pc[p] = "ask"
    /\ To(p, AfterToken(req[p].kind))
    /\ UNCHANGED <<pool, cached, req, token, left, got, counts>>

AskCancelled(p) == Cancelled(p) /\ RealmRefuses(p)

-----------------------------------------------------------------------------
(* SelectBest: the statements of ComputeScore, one candidate after another. *)

Select(p) ==
    /\ pc[p] = "select"
    /\ Begin(p, "score", Candidates - 1) /\ To(p, "scoring")
    /\ UNCHANGED <<cached, req, token, left, got, counts>>

Selected(p) ==
    /\ pc[p] = "scoring" /\ at[p] = "none"
    /\ To(p, AfterSelect(req[p].kind))
    /\ UNCHANGED <<pool, cached, req, token, left, got, counts>>

\* No enabled node serves the registry: 502 to a GET, 404 to a HEAD.
NoNode(p) ==
    /\ pc[p] = "select"
    /\ Finish(p, "error")
    /\ UNCHANGED <<pool, cached, counts>>

-----------------------------------------------------------------------------
(* The upstream, and RecordDownload, whose error is only logged.            *)

\* The token has been sent and is not used again.
Upstream(p, outcome) ==
    /\ pc[p] = "get"
    /\ got' = [got EXCEPT ![p] = outcome] /\ token' = [token EXCEPT ![p] = NoImage]
    /\ IF Records(req[p].kind)
       THEN To(p, "record") /\ Begin(p, "begin", 0)
       ELSE To(p, "reply") /\ UNCHANGED pool
    /\ owed' = IF req[p].kind = "blob" THEN owed + 1 ELSE owed
    /\ UNCHANGED <<cached, req, left, asked>>

UpstreamServes(p) == Upstream(p, "ok")
UpstreamFails(p)  == Upstream(p, "failed")
UpstreamLost(p)   == Cancelled(p) /\ UpstreamFails(p)

Recorded(p) ==
    /\ pc[p] = "record" /\ at[p] = "none"
    /\ \E step \in AfterRecord : To(p, step)
    /\ UNCHANGED <<pool, cached, req, token, left, got, counts>>

\* 502, or 404 to a HEAD.
ReplyError(p) ==
    /\ pc[p] = "spoilt" \/ (pc[p] = "reply" /\ got[p] = "failed")
    /\ Finish(p, "error")
    /\ UNCHANGED <<pool, cached, counts>>

\* The header, and io.Copy to the end of the body, or to where the upstream
\* breaks off: the handler returns all the same.
ReplyBody(p) ==
    /\ pc[p] = "reply" /\ got[p] = "ok"
    /\ Finish(p, "body")
    /\ UNCHANGED <<pool, cached, counts>>

\* With the context cancelled the copy fails.  In a tunnel it fails only when
\* there is something to write to the client that left: that is ReplyBody.
ReplyLost(p) == Cancelled(p) /\ ReplyBody(p)

-----------------------------------------------------------------------------
(* The store's side of a request or of the console.                         *)

Query(p) ==
    /\ \E s \in Statements : Run(p, s)
    /\ UNCHANGED <<cached, serve, counts>>

\* A transaction that fails takes its outcome with it.
QueryFails(p) ==
    /\ \E s \in Statements : RunFails(p, s)
    /\ owed' = IF at[p] \in Transaction \cup {"begin"} THEN owed - 1 ELSE owed
    /\ UNCHANGED <<cached, serve, asked>>

\* ListNodes and the tests of a node score and record without a request; the
\* console lists tables, shows a schema or a page, and edits a row.
Console(c, call) ==
    /\ at[c] = "none"
    /\ Begin(c, call, IF call = "score" THEN Candidates - 1 ELSE 0)
    /\ owed' = IF call = "begin" THEN owed + 1 ELSE owed
    /\ asked' = IF call = "begin" THEN asked + 1 ELSE asked
    /\ call = "begin" => asked < MaxRequests
    /\ UNCHANGED <<cached, serve>>

-----------------------------------------------------------------------------
\* Steps a request takes on its own, and those of others it may wait for.
Own(p) == \/ LookUp(p) \/ AskCancelled(p) \/ Select(p) \/ Selected(p) \/ UpstreamLost(p)
          \/ Recorded(p) \/ ReplyError(p) \/ ReplyLost(p)
Outside(p) == \/ RealmIssues(p) \/ RealmRefuses(p) \/ NoNode(p)
              \/ UpstreamServes(p) \/ UpstreamFails(p) \/ ReplyBody(p)
              \/ Leave(p) \/ Malformed(p) \/ \E r \in Requests : Request(p, r)

Next == \/ Ping
        \/ \E p \in Pullers : Own(p) \/ Outside(p)
        \/ \E p \in Procs : Query(p) \/ QueryFails(p)
        \/ \E c \in Consoles, call \in Calls : Console(c, call)

Spec == Init /\ [][Next]_vars

\* Goroutines run; database/sql hands the connection to each waiter in turn.
\* Nothing is assumed of realms, upstreams and clients.
LiveSpec == /\ Spec
            /\ \A p \in Pullers : WF_vars(Own(p))
            /\ \A p \in Procs : SF_vars(Query(p))

-----------------------------------------------------------------------------
(* Properties                                                               *)

Steps == {"token", "ask", "select", "scoring", "get", "record", "reply", "spoilt"}

\* Types of the requests, of the token cache and of the pool.
TypeOK ==
    /\ at \in [Procs -> Statements \cup {"none"}] /\ more \in [Procs -> Nat]
    /\ holder \in Procs \cup {NoProc} /\ rows \in [EventTypes -> Nat]
    /\ durable \in [EventTypes -> Nat]
    /\ cached \in [Images -> Images \cup {NoImage}]
    /\ pc \in [Pullers -> Steps \cup Answers]
    /\ req \in [Pullers -> Requests \cup {NoRequest}]
    /\ token \in [Pullers -> Images \cup {NoImage}] /\ left \subseteq Pullers
    /\ got \in [Pullers -> {"none", "ok", "failed"}]
    /\ asked \in Nat /\ owed \in Nat

\* The token a request carries was issued for the image it asks for, whoever
\* stored it and however many requests asked the realm at once.
TokenForImage == \A p \in Pullers : token[p] \in {NoImage, req[p].image} \ GhcrImages

\* Every outcome of a download is in the table once, or its transaction is still
\* to come or has failed: HEADs, manifests and malformed requests record nothing,
\* and none is lost or doubled while requests and tests share the store.
Recording        == {p \in Procs : at[p] \in Transaction \cup {"begin"}}
EveryOutcomeOnce == owed = durable["success"] + Cardinality(Recording)

\* Nobody reads while a transaction is open; its rows are not in the table yet.
Visible == IF \E p \in Procs : at[p] \in Transaction THEN durable ELSE rows

Table == INSTANCE OutcomeStore WITH
             Callers <- Procs, Nobody <- NoProc, Types <- EventTypes,
             asking  <- Recording, owner <- holder, table <- Visible

\* The chains of statements of InsertDownloadEvents and of all that run between
\* them, on one connection, are as good as a store that takes whole outcomes
\* from one goroutine at a time, whatever statement fails.
ImplementsOutcomeStore == Table!StoreSpec

\* What the upstream serves reaches the client, also when no token could be had
\* and when the outcome could not be recorded: an answer to a request that the
\* upstream has served is no error.
ServedIsPassedOn ==
    [][\A p \in Pullers : got[p] = "ok" => pc'[p] # "error"]_vars

\* A request to the registry's server whose client has left ends, even if realm
\* and upstream never answer and whatever tunnelled requests hang on, and gives
\* back what it holds of the store.  A tunnelled request may wait for ever.
AbandonedEnds == \A p \in Pullers \ Tunnelled : p \in left ~> pc[p] \in Answers

\* Every call of the store returns, whatever the other requests do.
StoreCallsReturn == \A p \in Procs : at[p] # "none" ~> at[p] = "none"
=============================================================================
