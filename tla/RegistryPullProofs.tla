------------------------- MODULE RegistryPullProofs -------------------------
(* What holds of RegistryPull for any number of requests, consoles, images   *)
(* and candidates.                                                           *)
EXTENDS RegistryPull, FiniteSetTheorems, TLAPS

-----------------------------------------------------------------------------
(* The pool alone.                                                           *)

PoolType ==
    /\ at \in [Procs -> Statements \cup {"none"}] /\ more \in [Procs -> Nat]
    /\ holder \in Procs \cup {NoProc} /\ rows \in [EventTypes -> Nat]
    /\ durable \in [EventTypes -> Nat]

\* Only the queries of ComputeScore are repeated.
OnlyScoresRepeat == \A p \in Procs : more[p] > 0 => at[p] = "score"

\* What is durable are whole outcomes; the rest is what the open transaction has
\* inserted before the statement it is about to run.
Rank == [latency |-> 1, speed |-> 2, success |-> 3, bytes |-> 4, commit |-> 5]

RowsAccount ==
    /\ \A t, u \in EventTypes : durable[t] = durable[u]
    /\ \A p \in Procs : at[p] \in Transaction =>
          \A t \in EventTypes : rows[t] = IF Rank[t] < Rank[at[p]] THEN durable[t] + 1 ELSE durable[t]
    /\ (\A p \in Procs : at[p] \notin Transaction) => rows = durable

PoolInv == PoolType /\ PoolSound /\ OnlyScoresRepeat /\ RowsAccount

\* The chains, as far as the connection matters.
LEMMA ChainFacts ==
  ASSUME NEW s \in Statements
  PROVE  /\ After[s] \in Statements \cup {"none"} /\ s # "none"
         /\ s \in Keeping => After[s] \in Owning
         /\ s \in Taking \ Keeping => After[s] \notin Owning
         /\ s \in Returning => s \in Owning /\ After[s] \notin Owning
         /\ s \in Owning \ Returning => After[s] \in Owning
         /\ Transaction \subseteq Owning
         /\ After[s] \in Transaction => s \in Transaction \cup {"begin"}
         /\ s = "begin" => After[s] = "latency"
         /\ s = "latency" => After[s] = "speed"
         /\ s = "speed" => After[s] = "success"
         /\ s = "success" => After[s] = "bytes"
         /\ s = "bytes" => After[s] = "commit"
         /\ After[s] # "begin" /\ After[s] # "score"
         /\ {"none"} \cap (Statements \cup Owning) = {}
BY DEF Statements, After, Taking, Keeping, Owning, Returning, Transaction, EventTypes

LEMMA PoolStart == PoolInit => PoolInv
<1> SUFFICES ASSUME PoolInit PROVE PoolInv
  OBVIOUS
<1> "none" \notin Transaction \cup Owning
  BY DEF Transaction, EventTypes, Owning, Statements, After
<1>1. PoolType
  BY Zenon DEF PoolInit, PoolType, EventTypes
<1> QED
  BY <1>1, PoolAssumption DEF PoolInit, PoolInv, PoolSound, OnlyScoresRepeat, RowsAccount

\* A goroutine that asks nothing of the store begins a call.
LEMMA BeginStep ==
  ASSUME PoolInv, NEW p \in Procs, at[p] = "none",
         NEW call \in Calls, NEW n \in Nat, n > 0 => call = "score", Begin(p, call, n)
  PROVE  PoolInv'
<1> USE DEF Begin, PoolInv
<1>1. /\ call \in Statements /\ call \notin Owning \cup Transaction
      /\ "none" \notin Owning \cup Transaction
  BY DEF Calls, Statements, After, Owning, Taking, Transaction, EventTypes
<1>2. PoolType'
  BY <1>1 DEF PoolType
<1>3. \A q \in Procs : at'[q] = IF q = p THEN call ELSE at[q]
  BY DEF PoolType
<1>4. PoolSound'
  BY <1>1, <1>3 DEF PoolSound
<1>5. OnlyScoresRepeat'
  BY <1>3 DEF OnlyScoresRepeat, PoolType
<1>6. RowsAccount'
  BY <1>1, <1>3 DEF RowsAccount
<1> QED
  BY <1>2, <1>4, <1>5, <1>6

\* A statement runs: the connection changes hands with it.
LEMMA RunStep ==
  ASSUME PoolInv, NEW p \in Procs, NEW s \in Statements, Run(p, s)
  PROVE  /\ PoolInv'
         /\ \/ UNCHANGED <<at, durable>>
            \/ at' = [at EXCEPT ![p] = After[s]] /\ s # "commit" /\ UNCHANGED durable
            \/ /\ at' = [at EXCEPT ![p] = "none"] /\ s = "commit"
               /\ durable'["success"] = durable["success"] + 1
<1> USE DEF PoolInv
<1>1. at[p] = s /\ PoolType /\ PoolSound /\ OnlyScoresRepeat /\ RowsAccount
  BY DEF Run
<1>2. /\ \A q \in Procs : q # p => at'[q] = at[q] /\ more'[q] = more[q]
      /\ \/ at'[p] = After[s] /\ more'[p] = more[p]
         \/ at'[p] = s /\ s = "score" /\ more'[p] = more[p] - 1 /\ UNCHANGED at
      /\ at' \in [Procs -> Statements \cup {"none"}] /\ more' \in [Procs -> Nat]
  BY <1>1, ChainFacts DEF Run, PoolType, OnlyScoresRepeat
<1>3. OnlyScoresRepeat'
  BY <1>1, <1>2, ChainFacts DEF Run, OnlyScoresRepeat, PoolType
<1>4. PoolSound'
  <2>1. CASE s \in Keeping
    BY <1>1, <1>2, <2>1, ChainFacts, PoolAssumption DEF Run, PoolSound, PoolType, Keeping, Taking
  <2>2. CASE s \in Taking \ Keeping
    BY <1>1, <1>2, <2>2, ChainFacts, PoolAssumption DEF Run, PoolSound, PoolType, Owning
  <2>3. CASE s \in Returning
    BY <1>1, <1>2, <2>3, ChainFacts, PoolAssumption DEF Run, PoolSound, PoolType, Owning, Keeping, Taking
  <2>4. CASE s \in Owning \ Returning
    BY <1>1, <1>2, <2>4, ChainFacts, PoolAssumption DEF Run, PoolSound, PoolType, Owning, Keeping, Taking
  <2> QED
    BY <2>1, <2>2, <2>3, <2>4 DEF Owning
<1>5. PoolType'
  BY <1>1, <1>2 DEF Run, PoolType
<1>6. \A q \in Procs : q # p /\ s \in Transaction \cup Taking => at[q] \notin Transaction
  BY <1>1, ChainFacts, PoolAssumption DEF Run, PoolSound
<1>7. RowsAccount'
  <2>1. CASE s = "begin"
    BY <1>1, <1>2, <1>6, <2>1, ChainFacts DEF Run, RowsAccount, Rank, EventTypes, Taking, Transaction
  <2>2. CASE s \in EventTypes
    BY <1>1, <1>2, <1>6, <2>2, ChainFacts DEF Run, RowsAccount, Rank, EventTypes, PoolType, Transaction
  <2>3. CASE s = "commit"
    <3>1. \A t \in EventTypes : rows[t] = durable[t] + 1
      BY <1>1, <2>3 DEF RowsAccount, Rank, EventTypes, Transaction
    <3>2. rows' = rows /\ durable' = rows /\ \A q \in Procs : at'[q] \notin Transaction
      BY <1>1, <1>2, <1>6, <2>3 DEF Run, Transaction, EventTypes, After
    <3> QED
      BY <1>1, <3>1, <3>2 DEF RowsAccount
  <2>4. CASE s \notin Transaction \cup {"begin"}
    BY <1>1, <1>2, <2>4, ChainFacts DEF Run, RowsAccount, Transaction
  <2> QED
    BY <2>1, <2>2, <2>3, <2>4 DEF Transaction
<1>8. CASE s = "commit"
  <2>1. rows["success"] = durable["success"] + 1
    BY <1>1, <1>8 DEF RowsAccount, Rank, EventTypes, Transaction
  <2>2. at' = [at EXCEPT ![p] = "none"]
    BY <1>1, <1>8 DEF Run, After, OnlyScoresRepeat, PoolType
  <2> QED
    BY <1>3, <1>4, <1>5, <1>7, <1>8, <2>1, <2>2 DEF Run
<1>9. CASE s # "commit"
  BY <1>3, <1>4, <1>5, <1>7, <1>9 DEF Run
<1> QED
  BY <1>8, <1>9

\* A statement fails: the call is over, and the connection is given back.
LEMMA FailStep ==
  ASSUME PoolInv, NEW p \in Procs, NEW s \in Statements, RunFails(p, s)
  PROVE  /\ PoolInv' /\ UNCHANGED durable
         /\ at[p] = s /\ at' = [at EXCEPT ![p] = "none"]
<1> USE DEF PoolInv
<1>1. at[p] = s /\ PoolType /\ PoolSound /\ OnlyScoresRepeat /\ RowsAccount /\ UNCHANGED <<more, durable>>
  BY DEF RunFails
<1>2. \A q \in Procs : at'[q] = IF q = p THEN "none" ELSE at[q]
  BY <1>1 DEF RunFails, PoolType
<1>3. PoolType'
  BY <1>1 DEF RunFails, Abandon, Undo, PoolType
<1>4. PoolSound'
  BY <1>1, <1>2, ChainFacts, PoolAssumption DEF RunFails, Abandon, PoolSound, PoolType, Owning
<1>5. OnlyScoresRepeat'
  BY <1>1, <1>2 DEF RunFails, OnlyScoresRepeat, Unchecked
<1>6. \A q \in Procs : q # p /\ s \in Transaction => at[q] \notin Transaction
  BY <1>1, ChainFacts, PoolAssumption DEF PoolSound
<1>7. "none" \notin Transaction
  BY DEF Transaction, EventTypes
<1>8. RowsAccount'
  BY <1>1, <1>2, <1>6, <1>7 DEF RunFails, Undo, RowsAccount
<1> QED
  BY <1>1, <1>3, <1>4, <1>5, <1>8 DEF RunFails

-----------------------------------------------------------------------------
(* The requests.                                                             *)

PullType ==
    /\ cached \in [Images -> Images \cup {NoImage}]
    /\ pc \in [Pullers -> Steps \cup Answers]
    /\ req \in [Pullers -> Requests \cup {NoRequest}]
    /\ token \in [Pullers -> Images \cup {NoImage}] /\ left \subseteq Pullers
    /\ got \in [Pullers -> {"none", "ok", "failed"}]
    /\ asked \in Nat

\* A request uses the store only while its handler waits for it; the token it
\* has, and what the cache holds, is of the image it is filed under.
RequestInv ==
    /\ \A p \in Pullers :
          /\ at[p] # "none" => pc[p] \in {"scoring", "record"}
          /\ pc[p] \notin Answers => req[p] \in Requests
          /\ pc[p] \in Answers => token[p] = NoImage
          /\ pc[p] = "ask" => req[p].image \notin GhcrImages
    /\ \A i \in Images : cached[i] \in {NoImage, i}
    /\ TokenForImage

PullInv == PoolInv /\ PullType /\ RequestInv /\ EveryOutcomeOnce

LEMMA StepNames ==
  /\ \A k \in Kinds : \A step \in {First(k), AfterToken(k), AfterSelect(k)} :
        step \in Steps \ {"ask", "scoring", "record"}
  /\ \A step \in Steps : step \notin Answers
  /\ \A step \in {"ask", "scoring", "record", "reply", "token", "select", "get", "spoilt"} : step \in Steps
  /\ "unseen" \in Answers /\ "error" \in Answers /\ "body" \in Answers /\ AfterRecord = {"reply"}
BY DEF Steps, Answers, Kinds, First, AfterToken, AfterSelect, AfterRecord

LEMMA RequestFields ==
  ASSUME NEW r \in Requests
  PROVE  r.kind \in Kinds /\ r.image \in Images
BY PullAssumption

\* One for a goroutine whose outcome is on its way.
Pending(step) == IF step \in Transaction \cup {"begin"} THEN 1 ELSE 0

\* One goroutine moves to another statement: how many are recording then.
LEMMA RecordingChange ==
  ASSUME PoolType, NEW p \in Procs, NEW v, at' = [at EXCEPT ![p] = v]
  PROVE  /\ Cardinality(Recording) \in Nat /\ Cardinality(Recording') \in Nat
         /\ Cardinality(Recording') + Pending(at[p]) = Cardinality(Recording) + Pending(v)
<1> DEFINE T == Transaction \cup {"begin"}
<1>1. IsFiniteSet(Recording) /\ Cardinality(Recording) \in Nat
  BY PullAssumption, FS_Subset, FS_CardinalityType DEF Recording
<1>2. Recording' = IF v \in T THEN Recording \cup {p} ELSE Recording \ {p}
  BY DEF Recording, PoolType
<1>3. p \in Recording <=> at[p] \in T
  BY DEF Recording
<1>4. Cardinality(Recording \cup {p}) = IF p \in Recording THEN Cardinality(Recording) ELSE Cardinality(Recording) + 1
  BY <1>1, FS_AddElement
<1>5. /\ Cardinality(Recording \ {p}) = IF p \in Recording THEN Cardinality(Recording) - 1 ELSE Cardinality(Recording)
      /\ Cardinality(Recording \ {p}) \in Nat
  BY <1>1, FS_RemoveElement, FS_CardinalityType
<1> HIDE DEF T
<1>6. CASE v \in T
  BY <1>1, <1>2, <1>3, <1>4, <1>5, <1>6 DEF T, Pending
<1>7. CASE v \notin T
  BY <1>1, <1>2, <1>3, <1>4, <1>5, <1>7 DEF T, Pending
<1> QED
  BY <1>6, <1>7

LEMMA PullStart == Init => PullInv
<1> SUFFICES ASSUME Init PROVE PullInv
  OBVIOUS
<1> USE DEF Init
<1>1. PoolInv
  BY PoolStart
<1>2. PullType
  BY DEF PullType, Answers
<1>3. RequestInv
  BY PullAssumption DEF RequestInv, TokenForImage, PoolInit, Answers
<1>4. EveryOutcomeOnce
  <2>1. Recording = {}
    BY DEF Recording, PoolInit, Transaction, EventTypes
  <2> QED
    BY <2>1, FS_EmptySet DEF EveryOutcomeOnce, PoolInit, EventTypes
<1> QED
  BY <1>1, <1>2, <1>3, <1>4 DEF PullInv

\* Steps of a request that leave the store alone.
LEMMA HandlerStep ==
  ASSUME PullInv, NEW p \in Pullers, UNCHANGED <<pool, owed>>,
         \/ LookUp(p) \/ RealmIssues(p) \/ RealmRefuses(p) \/ Selected(p) \/ NoNode(p)
         \/ Recorded(p) \/ ReplyError(p) \/ ReplyBody(p) \/ Leave(p) \/ Malformed(p)
         \/ \E r \in Requests : Request(p, r)
  PROVE  PullType' /\ RequestInv'
<1> USE DEF PullInv, pool
<1>1. PullType /\ RequestInv /\ UNCHANGED at
  OBVIOUS
<1>2. req[p] \in Requests => req[p].kind \in Kinds /\ req[p].image \in Images
  BY RequestFields
<1>3. CASE LookUp(p)
  BY <1>1, <1>2, StepNames, PullAssumption, <1>3 DEF LookUp, Key, To, counts, PullType, RequestInv, TokenForImage
<1>4. CASE RealmIssues(p)
  BY <1>1, <1>2, StepNames, PullAssumption, <1>4 DEF RealmIssues, Key, To, counts, PullType, RequestInv, TokenForImage
<1>5. CASE RealmRefuses(p)
  BY <1>1, <1>2, StepNames, PullAssumption, <1>5 DEF RealmRefuses, To, counts, PullType, RequestInv, TokenForImage
<1>6. CASE Selected(p)
  BY <1>1, <1>2, StepNames, PullAssumption, <1>6 DEF Selected, To, counts, PullType, RequestInv, TokenForImage
<1>7. CASE NoNode(p)
  BY <1>1, <1>2, StepNames, PullAssumption, <1>7 DEF NoNode, Finish, To, counts, PullType, RequestInv, TokenForImage
<1>8. CASE Recorded(p)
  BY <1>1, <1>2, StepNames, PullAssumption, <1>8 DEF Recorded, To, counts, PullType, RequestInv, TokenForImage
<1>9. CASE ReplyError(p)
  BY <1>1, <1>2, StepNames, PullAssumption, <1>9 DEF ReplyError, Finish, To, counts, PullType, RequestInv, TokenForImage
<1>10. CASE ReplyBody(p)
  BY <1>1, <1>2, StepNames, PullAssumption, <1>10 DEF ReplyBody, Finish, To, counts, PullType, RequestInv, TokenForImage
<1>11. CASE Leave(p)
  BY <1>1, <1>2, StepNames, PullAssumption, <1>11 DEF Leave, To, counts, PullType, RequestInv, TokenForImage
<1>12. CASE Malformed(p)
  BY <1>1, <1>2, StepNames, PullAssumption, <1>12 DEF Malformed, Finish, To, counts, PullType, RequestInv, TokenForImage
<1>13. CASE \E r \in Requests : Request(p, r)
  <2>1. PICK r \in Requests : Request(p, r)
    BY <1>13
  <2>2. First(r.kind) \in Steps /\ First(r.kind) \notin {"ask"} \cup Answers
    BY RequestFields, StepNames
  <2> QED
    BY <1>1, <2>1, <2>2, StepNames, PullAssumption DEF Request, To, counts, PullType, RequestInv, TokenForImage
<1> QED
  BY <1>3, <1>4, <1>5, <1>6, <1>7, <1>8, <1>9, <1>10, <1>11, <1>12, <1>13

\* Begin and the statements of a call, seen from the requests.
LEMMA StoreStep ==
  ASSUME PullInv, NEW p \in Procs, NEW v \in Statements \cup {"none"},
         at' = [at EXCEPT ![p] = v], UNCHANGED <<cached, serve, asked>>,
         v = "none" \/ p \notin Pullers \/ pc[p] \in {"scoring", "record"}
  PROVE  PullType' /\ RequestInv'
<1>1. PullType /\ RequestInv /\ UNCHANGED <<cached, pc, req, token, left, got, asked>>
  BY DEF PullInv, serve
<1>2. \A q \in Procs : at'[q] = IF q = p THEN v ELSE at[q]
  BY DEF PullInv, PoolInv, PoolType
<1> QED
  BY <1>1, <1>2, PullAssumption DEF PullType, RequestInv, TokenForImage

LEMMA QueryStep ==
  ASSUME PullInv, NEW p \in Procs, Query(p)
  PROVE  PullInv'
<1>1. PICK s \in Statements : Run(p, s)
  BY DEF Query
<1>2. PoolInv /\ PoolInv' /\ PoolType /\ at[p] = s /\ EveryOutcomeOnce
  BY <1>1, RunStep DEF PullInv, PoolInv, Run
<1>3. p \in Pullers => pc[p] \in {"scoring", "record"}
  BY <1>2, ChainFacts DEF PullInv, RequestInv
<1>4. UNCHANGED <<cached, serve, asked, owed>>
  BY DEF Query, counts
<1>5. CASE UNCHANGED <<at, durable>>
  <2>1. PullType' /\ RequestInv'
    BY <1>4, <1>5 DEF PullInv, serve, PullType, RequestInv, TokenForImage
  <2>2. EveryOutcomeOnce'
    BY <1>2, <1>4, <1>5 DEF EveryOutcomeOnce, Recording
  <2> QED
    BY <1>2, <2>1, <2>2 DEF PullInv
<1>6. CASE at' = [at EXCEPT ![p] = After[s]] /\ s # "commit" /\ UNCHANGED durable
  <2>1. PullType' /\ RequestInv'
    BY <1>3, <1>4, <1>6, StoreStep, ChainFacts
  <2>2. Pending(s) = Pending(After[s]) /\ Pending(s) \in Nat
    BY <1>6 DEF Pending, Transaction, EventTypes, After, Statements
  <2>3. /\ Cardinality(Recording) \in Nat /\ Cardinality(Recording') \in Nat
        /\ Cardinality(Recording') + Pending(at[p]) = Cardinality(Recording) + Pending(After[s])
    BY <1>2, <1>6, RecordingChange, Zenon
  <2> QED
    BY <1>2, <1>4, <1>6, <2>1, <2>2, <2>3 DEF PullInv, EveryOutcomeOnce
<1>7. CASE at' = [at EXCEPT ![p] = "none"] /\ s = "commit" /\ durable'["success"] = durable["success"] + 1
  <2>1. PullType' /\ RequestInv'
    BY <1>3, <1>4, <1>7, StoreStep
  <2>2. Pending("commit") = 1 /\ Pending("none") = 0
    BY DEF Pending, Transaction, EventTypes
  <2>3. /\ Cardinality(Recording) \in Nat /\ Cardinality(Recording') \in Nat
        /\ Cardinality(Recording') + Pending(at[p]) = Cardinality(Recording) + Pending("none")
    BY <1>2, <1>7, RecordingChange, Zenon
  <2>4. EveryOutcomeOnce'
    BY <1>2, <1>4, <1>7, <2>2, <2>3 DEF EveryOutcomeOnce, PoolType, EventTypes
  <2> QED
    BY <1>2, <2>1, <2>4 DEF PullInv
<1> QED
  BY <1>1, <1>2, <1>5, <1>6, <1>7, RunStep

LEMMA QueryFailsStep ==
  ASSUME PullInv, NEW p \in Procs, QueryFails(p)
  PROVE  PullInv'
<1>1. PICK s \in Statements : RunFails(p, s)
  BY DEF QueryFails
<1>2. /\ PoolInv /\ PoolInv' /\ PoolType /\ EveryOutcomeOnce /\ UNCHANGED durable
      /\ at[p] = s /\ at' = [at EXCEPT ![p] = "none"]
  BY <1>1, FailStep DEF PullInv, PoolInv
<1>3. PullType' /\ RequestInv'
  BY <1>2, StoreStep DEF QueryFails
<1>4. Pending("none") = 0 /\ Pending(s) \in Nat
  BY DEF Pending, Transaction, EventTypes
<1>5. /\ Cardinality(Recording) \in Nat /\ Cardinality(Recording') \in Nat
      /\ Cardinality(Recording') + Pending(at[p]) = Cardinality(Recording) + Pending("none")
  BY <1>2, RecordingChange, Zenon
<1>6. EveryOutcomeOnce'
  BY <1>2, <1>4, <1>5 DEF QueryFails, EveryOutcomeOnce, Pending, PoolType, EventTypes
<1> QED
  BY <1>2, <1>3, <1>6 DEF PullInv

LEMMA SelectStep ==
  ASSUME PullInv, NEW p \in Pullers, Select(p)
  PROVE  PullInv'
<1>1. PullType /\ RequestInv /\ PoolInv /\ PoolType /\ EveryOutcomeOnce
  BY DEF PullInv, PoolInv
<1>2. at[p] = "none" /\ p \in Procs
  BY <1>1, StepNames, PullAssumption DEF Select, RequestInv
<1>3. Candidates - 1 \in Nat /\ "score" \in Calls
  BY PoolAssumption DEF Calls
<1>4. PoolInv'
  BY <1>1, <1>2, <1>3, BeginStep DEF Select
<1>5. at' = [at EXCEPT ![p] = "score"] /\ UNCHANGED <<durable, cached, req, token, left, got, asked, owed>>
  BY DEF Select, Begin, counts
<1>6. PullType'
  BY <1>1, <1>5, StepNames DEF Select, To, PullType
<1>7. RequestInv'
  BY <1>1, <1>2, <1>5, StepNames DEF Select, To, PullType, PoolType, RequestInv, TokenForImage
<1>8. Pending("none") = 0 /\ Pending("score") = 0
  BY DEF Pending, Transaction, EventTypes
<1>9. /\ Cardinality(Recording) \in Nat /\ Cardinality(Recording') \in Nat
      /\ Cardinality(Recording') + Pending(at[p]) = Cardinality(Recording) + Pending("score")
  BY <1>1, <1>2, <1>5, RecordingChange, Zenon
<1>10. EveryOutcomeOnce'
  BY <1>1, <1>2, <1>5, <1>8, <1>9 DEF EveryOutcomeOnce
<1> QED
  BY <1>4, <1>6, <1>7, <1>10 DEF PullInv

\* The outcome of a download is owed from the moment the upstream has answered.
LEMMA UpstreamStep ==
  ASSUME PullInv, NEW p \in Pullers, NEW outcome \in {"ok", "failed"}, Upstream(p, outcome)
  PROVE  PullInv'
<1>1. PullType /\ RequestInv /\ PoolInv /\ PoolType /\ EveryOutcomeOnce
  BY DEF PullInv, PoolInv
<1>2. at[p] = "none" /\ p \in Procs
  BY <1>1, StepNames, PullAssumption DEF Upstream, RequestInv
<1>3. UNCHANGED <<cached, req, left, asked>>
  BY DEF Upstream
<1>4. PullType'
  BY <1>1, <1>3, StepNames DEF Upstream, To, PullType
<1>5. CASE req[p].kind = "blob"
  <2>1. Begin(p, "begin", 0) /\ owed' = owed + 1 /\ To(p, "record")
    BY <1>5 DEF Upstream, Records
  <2>2. PoolInv'
    BY <1>1, <1>2, <2>1, BeginStep DEF Calls
  <2>3. at' = [at EXCEPT ![p] = "begin"] /\ UNCHANGED durable
    BY <2>1 DEF Begin
  <2>4. RequestInv'
    BY <1>1, <1>2, <1>3, <2>1, <2>3, StepNames, PullAssumption
       DEF Upstream, To, PullType, PoolType, RequestInv, TokenForImage
  <2>5. /\ Cardinality(Recording) \in Nat /\ Cardinality(Recording') \in Nat
        /\ Cardinality(Recording') + Pending(at[p]) = Cardinality(Recording) + Pending("begin")
    BY <1>1, <1>2, <2>3, RecordingChange, Zenon
  <2>6. Pending("none") = 0 /\ Pending("begin") = 1
    BY DEF Pending, Transaction, EventTypes
  <2>7. EveryOutcomeOnce'
    BY <1>1, <1>2, <2>1, <2>3, <2>5, <2>6 DEF EveryOutcomeOnce, PoolType, EventTypes
  <2> QED
    BY <1>4, <2>2, <2>4, <2>7 DEF PullInv
<1>6. CASE req[p].kind # "blob"
  <2>1. UNCHANGED <<at, more, holder, rows, durable, owed>> /\ To(p, "reply")
    BY <1>6 DEF Upstream, Records, pool
  <2>2. PoolInv'
    BY <1>1, <2>1 DEF PoolInv, PoolType, PoolSound, OnlyScoresRepeat, RowsAccount
  <2>3. RequestInv'
    BY <1>1, <1>2, <1>3, <2>1, StepNames, PullAssumption
       DEF Upstream, To, PullType, RequestInv, TokenForImage
  <2>4. EveryOutcomeOnce'
    BY <1>1, <2>1 DEF EveryOutcomeOnce, Recording
  <2> QED
    BY <1>4, <2>2, <2>3, <2>4 DEF PullInv
<1> QED
  BY <1>5, <1>6

LEMMA ConsoleStep ==
  ASSUME PullInv, NEW c \in Consoles, NEW call \in Calls, Console(c, call)
  PROVE  PullInv'
<1>1. PullType /\ RequestInv /\ PoolInv /\ PoolType /\ EveryOutcomeOnce
  BY DEF PullInv, PoolInv
<1>2. at[c] = "none" /\ c \in Procs /\ c \notin Pullers /\ UNCHANGED <<cached, serve>>
  BY PullAssumption DEF Console
<1>3. PoolInv'
  <2>1. CASE call = "score"
    BY <1>1, <1>2, <2>1, BeginStep, PoolAssumption DEF Console
  <2>2. CASE call # "score"
    BY <1>1, <1>2, <2>2, BeginStep DEF Console
  <2> QED
    BY <2>1, <2>2
<1>4. at' = [at EXCEPT ![c] = call] /\ UNCHANGED durable
  BY DEF Console, Begin
<1>5. asked' \in Nat
  BY <1>1 DEF Console, PullType
<1>6. PullType' /\ RequestInv'
  BY <1>1, <1>2, <1>4, <1>5 DEF serve, PullType, RequestInv, PoolType, TokenForImage
<1>7. /\ Cardinality(Recording) \in Nat /\ Cardinality(Recording') \in Nat
      /\ Cardinality(Recording') + Pending(at[c]) = Cardinality(Recording) + Pending(call)
  BY <1>1, <1>2, <1>4, RecordingChange, Zenon
<1>8. Pending("none") = 0 /\ Pending(call) = IF call = "begin" THEN 1 ELSE 0
  BY DEF Pending, Calls, Transaction, EventTypes
<1>9. EveryOutcomeOnce'
  BY <1>1, <1>2, <1>4, <1>7, <1>8 DEF Console, EveryOutcomeOnce, PoolType, EventTypes
<1> QED
  BY <1>3, <1>6, <1>9 DEF PullInv

\* The steps that leave the store alone leave its part of the invariant alone.
LEMMA StoreUntouched ==
  ASSUME PullInv, UNCHANGED <<pool, owed>>
  PROVE  PoolInv' /\ EveryOutcomeOnce'
BY DEF PullInv, pool, PoolInv, PoolType, PoolSound, OnlyScoresRepeat, RowsAccount, EveryOutcomeOnce, Recording

LEMMA PullStep == PullInv /\ [Next]_vars => PullInv'
<1> SUFFICES ASSUME PullInv, [Next]_vars PROVE PullInv'
  OBVIOUS
<1> DEFINE Quiet(p) ==
        \/ LookUp(p) \/ RealmIssues(p) \/ RealmRefuses(p) \/ Selected(p) \/ NoNode(p)
        \/ Recorded(p) \/ ReplyError(p) \/ ReplyBody(p) \/ Leave(p) \/ Malformed(p)
        \/ \E r \in Requests : Request(p, r)
<1>1. CASE UNCHANGED vars
  BY <1>1, StoreUntouched
     DEF vars, serve, counts, PullInv, PullType, RequestInv, pool, TokenForImage
<1>2. ASSUME NEW p \in Pullers, Quiet(p) PROVE PullInv'
  <2>1. UNCHANGED <<pool, owed>>
    BY <1>2 DEF LookUp, RealmIssues, RealmRefuses, Selected, NoNode, Recorded, ReplyError,
                ReplyBody, Leave, Malformed, Request, counts
  <2>2. PullType' /\ RequestInv'
    BY <1>2, <2>1, HandlerStep
  <2> QED
    BY <2>1, <2>2, StoreUntouched DEF PullInv
<1>3. ASSUME NEW p \in Pullers, Own(p) \/ Outside(p) PROVE PullInv'
  <2>1. CASE Select(p)
    BY <2>1, SelectStep
  <2>2. CASE UpstreamServes(p) \/ UpstreamFails(p)
    BY <2>2, UpstreamStep DEF UpstreamServes, UpstreamFails
  <2>3. CASE Quiet(p)
    BY <2>3, <1>2
  <2> QED
    BY <1>3, <2>1, <2>2, <2>3 DEF Own, Outside, AskCancelled, UpstreamLost, ReplyLost
<1>4. ASSUME NEW p \in Procs, Query(p) \/ QueryFails(p) PROVE PullInv'
  BY <1>4, QueryStep, QueryFailsStep
<1>5. ASSUME NEW c \in Consoles, NEW call \in Calls, Console(c, call) PROVE PullInv'
  BY <1>5, ConsoleStep
<1> QED
  BY <1>1, <1>3, <1>4, <1>5 DEF Next, Ping

-----------------------------------------------------------------------------
LEMMA PullAlways == Spec => []PullInv
BY PullStart, PullStep, PTL DEF Spec

\* Types of the requests, of the token cache and of the pool, for any number of
\* them; no count of outcomes falls below zero.
THEOREM PullTypeCorrect == Spec => []TypeOK
<1>1. PullInv => TypeOK
  <2> SUFFICES ASSUME PullInv PROVE TypeOK
    OBVIOUS
  <2>1. owed \in Nat
    <3>1. Cardinality(Recording) \in Nat
      BY PullAssumption, FS_Subset, FS_CardinalityType DEF Recording
    <3> QED
      BY <3>1 DEF PullInv, PoolInv, PoolType, EveryOutcomeOnce, EventTypes
  <2> QED
    BY <2>1 DEF PullInv, PoolInv, PoolType, PullType, TypeOK
<1> QED
  BY <1>1, PullAlways, PTL

\* The store's one connection is with a goroutine exactly while its rows or its
\* transaction are open, whatever fails: internal/store never asks for it twice.
THEOREM ConnectionIsSound == Spec => []PoolSound
<1>1. PullInv => PoolSound
  BY DEF PullInv, PoolInv
<1> QED
  BY <1>1, PullAlways, PTL

\* Every reader of node_metrics sees whole outcomes of InsertDownloadEvents.
THEOREM OutcomesAreWhole == Spec => []OutcomesWhole
<1>1. PullInv => OutcomesWhole
  <2> SUFFICES ASSUME PullInv, holder = NoProc PROVE rows = durable
    BY DEF PullInv, PoolInv, RowsAccount, OutcomesWhole
  <2>1. \A p \in Procs : at[p] \notin Owning
    BY PoolAssumption DEF PullInv, PoolInv, PoolSound
  <2>2. Transaction \subseteq Owning
    BY DEF Transaction, EventTypes, Owning, Statements, Taking, After
  <2> QED
    BY <2>1, <2>2 DEF PullInv, PoolInv, RowsAccount
<1> QED
  BY <1>1, PullAlways, PTL

\* GetToken never hands a request the token of another image.
THEOREM TokensFit == Spec => []TokenForImage
<1>1. PullInv => TokenForImage
  BY DEF PullInv, RequestInv
<1> QED
  BY <1>1, PullAlways, PTL

\* Every outcome that RecordDownload is given is in the table once, or its
\* transaction is to come or has failed.
THEOREM OutcomesOnce == Spec => []EveryOutcomeOnce
<1>1. PullInv => EveryOutcomeOnce
  BY DEF PullInv
<1> QED
  BY <1>1, PullAlways, PTL

-----------------------------------------------------------------------------
(* What the upstream has served is on its way to the client.                *)

Served(p)    == got[p] = "ok" => pc[p] \in {"record", "reply"}
ServedInv    == \A p \in Pullers : Served(p) /\ pc[p] # "spoilt"
PassedOn(p)  == got[p] = "ok" => pc'[p] # "error"

\* One request moves to a step that its upstream's answer allows; the others
\* stay as they were.
LEMMA OneMoves ==
  ASSUME PullType, ServedInv, NEW p \in Pullers,
         NEW step, NEW answer,
         pc' = [pc EXCEPT ![p] = step], got' = [got EXCEPT ![p] = answer],
         step # "spoilt",
         answer = "ok" => step \in {"record", "reply"},
         got[p] = "ok" => step # "error"
  PROVE  ServedInv' /\ \A q \in Pullers : PassedOn(q)
<1>1. \A q \in Pullers : /\ pc'[q] = IF q = p THEN step ELSE pc[q]
                         /\ got'[q] = IF q = p THEN answer ELSE got[q]
  BY DEF PullType
<1> QED
  BY <1>1 DEF ServedInv, Served, PassedOn

LEMMA NoneMoves ==
  ASSUME ServedInv, UNCHANGED <<pc, got>>
  PROVE  ServedInv' /\ \A q \in Pullers : PassedOn(q)
BY DEF ServedInv, Served, PassedOn

\* The handler returns with w while nothing served is in hand, or with a body.
LEMMA Returns ==
  ASSUME PullType, ServedInv, NEW p \in Pullers, NEW w \in {"error", "body"},
         Finish(p, w), got[p] = "ok" => w = "body"
  PROVE  ServedInv' /\ \A q \in Pullers : PassedOn(q)
<1> DEFINE step == IF p \in left THEN "unseen" ELSE w
<1>1. pc' = [pc EXCEPT ![p] = step] /\ got' = [got EXCEPT ![p] = "none"]
  BY DEF Finish, To
<1>2. step # "spoilt" /\ (got[p] = "ok" => step # "error")
  OBVIOUS
<1> HIDE DEF step
<1> QED
  BY <1>1, <1>2, OneMoves

\* The handler goes on with another step, before its upstream is asked or, with
\* an answer in hand, to the reply.
LEMMA GoesOn ==
  ASSUME PullType, ServedInv, NEW p \in Pullers, NEW step \in Steps \ {"spoilt"},
         To(p, step), UNCHANGED got, got[p] = "ok" => step = "reply"
  PROVE  ServedInv' /\ \A q \in Pullers : PassedOn(q)
<1>1. got' = [got EXCEPT ![p] = got[p]]
  BY DEF PullType
<1>2. step # "error"
  BY DEF Steps
<1> QED
  BY <1>1, <1>2, OneMoves DEF To

LEMMA ServedStart == Init => ServedInv
BY DEF Init, ServedInv, Served

LEMMA ServedStep ==
  PullType /\ ServedInv /\ [Next]_vars => ServedInv' /\ \A q \in Pullers : PassedOn(q)
<1> DEFINE Goal == ServedInv' /\ \A q \in Pullers : PassedOn(q)
<1> SUFFICES ASSUME PullType, ServedInv, [Next]_vars PROVE Goal
  OBVIOUS
<1>1. \A k : {First(k), AfterToken(k), AfterSelect(k)} \subseteq Steps \ {"spoilt"}
  BY DEF First, AfterToken, AfterSelect, Steps
<1>2. {"ask", "scoring", "record", "reply"} \subseteq Steps \ {"spoilt"}
  BY DEF Steps
<1>3. \A p \in Pullers : pc[p] \notin {"record", "reply"} => got[p] # "ok"
  BY DEF ServedInv, Served
<1> HIDE DEF Goal
<1>4. ASSUME NEW p \in Pullers, Own(p) \/ Outside(p) PROVE Goal
  <2>1. CASE LookUp(p)
    BY <1>1, <1>2, <1>3, <2>1, GoesOn DEF LookUp, Goal
  <2>2. CASE RealmIssues(p) \/ RealmRefuses(p)
    BY <1>1, <1>3, <2>2, GoesOn DEF RealmIssues, RealmRefuses, Goal
  <2>3. CASE Select(p)
    BY <1>2, <1>3, <2>3, GoesOn DEF Select, Goal
  <2>4. CASE Selected(p)
    BY <1>1, <1>3, <2>4, GoesOn DEF Selected, Goal
  <2>5. CASE NoNode(p)
    BY <1>3, <2>5, Returns DEF NoNode, Goal
  <2>6. CASE Recorded(p)
    BY <1>2, <2>6, GoesOn DEF Recorded, AfterRecord, Goal
  <2>7. CASE ReplyError(p)
    <3>1. got[p] # "ok"
      BY <2>7 DEF ReplyError, ServedInv
    <3> QED
      BY <2>7, <3>1, Returns DEF ReplyError, Goal
  <2>8. CASE ReplyBody(p)
    BY <2>8, Returns DEF ReplyBody, Goal
  <2>9. CASE Leave(p)
    BY <2>9, NoneMoves DEF Leave, Goal
  <2>10. CASE Malformed(p)
    <3>1. pc[p] \in {"token", "select"}
      BY <2>10 DEF Malformed, First
    <3> QED
      BY <1>3, <2>10, <3>1, Returns DEF Malformed, Goal
  <2>11. CASE \E r \in Requests : Request(p, r)
    <3>1. PICK r \in Requests : Request(p, r)
      BY <2>11
    <3>2. got[p] # "ok"
      BY <1>3, <3>1 DEF Request, Answers
    <3> QED
      BY <1>1, <3>1, <3>2, GoesOn DEF Request, Goal
  <2>12. ASSUME NEW outcome \in {"ok", "failed"}, Upstream(p, outcome) PROVE Goal
    <3>1. PICK step \in {"record", "reply"} : pc' = [pc EXCEPT ![p] = step]
      BY <2>12 DEF Upstream, To
    <3>2. got' = [got EXCEPT ![p] = outcome]
      BY <2>12 DEF Upstream
    <3> QED
      BY <3>1, <3>2, OneMoves DEF Goal
  <2> QED
    BY <1>4, <2>1, <2>2, <2>3, <2>4, <2>5, <2>6, <2>7, <2>8, <2>9, <2>10, <2>11, <2>12
       DEF Own, Outside, AskCancelled, UpstreamLost, ReplyLost, UpstreamServes, UpstreamFails
<1>5. CASE UNCHANGED <<pc, got>>
  BY <1>5, NoneMoves DEF Goal
<1>6. ASSUME \/ \E p \in Procs : Query(p) \/ QueryFails(p)
             \/ \E c \in Consoles, call \in Calls : Console(c, call)
      PROVE  UNCHANGED <<pc, got>>
  BY <1>6 DEF Query, QueryFails, Console, serve
<1> QED
  BY <1>4, <1>5, <1>6 DEF Next, Ping, vars, serve

\* An answer to a request that the upstream has served is no error, for any
\* number of requests, whatever fails between the upstream and the client.
THEOREM ServedArePassedOn == Spec => ServedIsPassedOn
<1>1. PullInv => PullType
  BY DEF PullInv
<1>2. (\A q \in Pullers : PassedOn(q)) => [\A p \in Pullers : got[p] = "ok" => pc'[p] # "error"]_vars
  BY DEF PassedOn
<1> QED
  BY <1>1, <1>2, PullAlways, ServedStart, ServedStep, PTL DEF Spec, ServedIsPassedOn
-----------------------------------------------------------------------------
(* The chains of statements are a store that takes whole outcomes.          *)

\* What whoever may look sees is what is durable: while a transaction is open
\* nobody may, and otherwise nothing is pending.
AllIsSeen == Visible = durable

LEMMA DurableIsSeen == PullInv => AllIsSeen
BY DEF PullInv, PoolInv, RowsAccount, Visible, AllIsSeen

\* So it is before and after a step.
Seen == AllIsSeen /\ AllIsSeen'

\* The abstract store does a step or stays as it is.
StoreMoves == [Table!StoreNext]_(Table!storeVars)

\* One goroutine moves to another statement: who is recording then.
LEMMA IsToRecord ==
  ASSUME PoolType, NEW p \in Procs, NEW v \in Transaction \cup {"begin"},
         at' = [at EXCEPT ![p] = v]
  PROVE  Recording' = Recording \cup {p}
BY DEF Recording, PoolType

LEMMA NotToRecord ==
  ASSUME PoolType, NEW p \in Procs, NEW v, v \notin Transaction \cup {"begin"},
         at' = [at EXCEPT ![p] = v]
  PROVE  Recording' = Recording \ {p}
BY DEF Recording, PoolType

LEMMA IsRecording ==
  ASSUME NEW p \in Procs
  PROVE  p \in Recording <=> at[p] \in Transaction \cup {"begin"}
BY DEF Recording

LEMMA StoreIdle ==
  ASSUME Seen, Recording' = Recording, UNCHANGED <<holder, durable>>
  PROVE  StoreMoves
BY DEF Seen, AllIsSeen, StoreMoves, Table!storeVars

LEMMA StoreSubmits ==
  ASSUME Seen, NEW p \in Procs, p \notin Recording, Recording' = Recording \cup {p},
         UNCHANGED <<holder, durable>>
  PROVE  StoreMoves
<1>1. Table!Submit(p)
  BY DEF Seen, AllIsSeen, Table!Submit
<1> QED
  BY <1>1 DEF StoreMoves, Table!StoreNext

LEMMA StoreIsTaken ==
  ASSUME Seen, NEW p \in Procs, Recording' = Recording, holder = NoProc, holder' = p,
         UNCHANGED durable
  PROVE  StoreMoves
<1>1. Table!Take(p)
  BY DEF Seen, AllIsSeen, Table!Take
<1> QED
  BY <1>1 DEF StoreMoves, Table!StoreNext

LEMMA StoreIsGivenBack ==
  ASSUME Seen, NEW p \in Procs, p \notin Recording, Recording' = Recording,
         holder = p, holder' = NoProc, UNCHANGED durable
  PROVE  StoreMoves
<1>1. Table!GiveBack(p)
  BY DEF Seen, AllIsSeen, Table!GiveBack
<1> QED
  BY <1>1 DEF StoreMoves, Table!StoreNext

LEMMA StoreCommits ==
  ASSUME Seen, NEW p \in Procs, p \in Recording, Recording' = Recording \ {p},
         holder = p, holder' = NoProc,
         durable' = [t \in EventTypes |-> durable[t] + 1]
  PROVE  StoreMoves
<1>1. Table!Commit(p)
  BY DEF Seen, AllIsSeen, Table!Commit
<1> QED
  BY <1>1 DEF StoreMoves, Table!StoreNext

LEMMA StoreFails ==
  ASSUME Seen, NEW p \in Procs, p \in Recording, Recording' = Recording \ {p},
         holder \in {p, NoProc}, holder' = NoProc, UNCHANGED durable
  PROVE  StoreMoves
<1>1. Table!Fail(p)
  BY DEF Seen, AllIsSeen, Table!Fail
<1> QED
  BY <1>1 DEF StoreMoves, Table!StoreNext

\* A goroutine that asks nothing of the store begins a call: it submits an
\* outcome, or is about to read.
LEMMA BeginSubmits ==
  ASSUME PoolInv, Seen, NEW p \in Procs, at[p] = "none", NEW call \in Calls, NEW n,
         Begin(p, call, n)
  PROVE  StoreMoves
<1>1. PoolType /\ at' = [at EXCEPT ![p] = call] /\ UNCHANGED <<holder, durable>>
  BY DEF PoolInv, Begin
<1>2. p \notin Recording
  BY IsRecording DEF Transaction, EventTypes
<1>3. CASE call = "begin"
  <2>1. Recording' = Recording \cup {p}
    BY <1>1, <1>3, IsToRecord
  <2> QED
    BY <1>1, <1>2, <2>1, StoreSubmits
<1>4. CASE call # "begin"
  <2>1. call \notin Transaction \cup {"begin"}
    BY <1>4 DEF Calls, Transaction, EventTypes
  <2>2. Recording' = Recording
    BY <1>1, <1>2, <2>1, NotToRecord
  <2> QED
    BY <1>1, <2>2, StoreIdle
<1> QED
  BY <1>3, <1>4

\* A statement other than the commit leaves those who are recording at it.
LEMMA RunKeepsRecording ==
  ASSUME PoolInv, NEW p \in Procs, NEW s \in Statements \ {"commit"}, Run(p, s)
  PROVE  Recording' = Recording
<1>1. PoolType /\ at[p] = s
  BY DEF PoolInv, Run
<1>2. p \in Recording <=> s \in Transaction \cup {"begin"}
  BY <1>1, IsRecording
<1>3. s \in Transaction \cup {"begin"} <=> After[s] \in Transaction \cup {"begin"}
  BY DEF Transaction, EventTypes, Statements, After
<1>4. CASE UNCHANGED at
  BY <1>4 DEF Recording
<1>5. CASE at' = [at EXCEPT ![p] = After[s]]
  <2>1. CASE After[s] \in Transaction \cup {"begin"}
    <3>1. Recording' = Recording \cup {p}
      BY <1>1, <1>5, <2>1, IsToRecord
    <3> QED
      BY <1>2, <1>3, <2>1, <3>1
  <2>2. CASE After[s] \notin Transaction \cup {"begin"}
    <3>1. Recording' = Recording \ {p}
      BY <1>1, <1>5, <2>2, NotToRecord
    <3> QED
      BY <1>2, <1>3, <2>2, <3>1
  <2> QED
    BY <2>1, <2>2
<1> QED
  BY <1>4, <1>5 DEF Run

\* The commit: all four rows have been inserted.
LEMMA RunCommits ==
  ASSUME PoolInv, Seen, NEW p \in Procs, Run(p, "commit")
  PROVE  StoreMoves
<1>1. PoolType /\ PoolSound /\ OnlyScoresRepeat /\ RowsAccount /\ at[p] = "commit"
  BY DEF PoolInv, Run
<1>2. at' = [at EXCEPT ![p] = "none"]
  BY <1>1 DEF Run, OnlyScoresRepeat, PoolType, After
<1>3. p \in Recording /\ Recording' = Recording \ {p}
  <2>1. "commit" \in Transaction \cup {"begin"} /\ "none" \notin Transaction \cup {"begin"}
    BY DEF Transaction, EventTypes
  <2> QED
    BY <1>1, <1>2, <2>1, NotToRecord, IsRecording
<1>4. holder = p /\ holder' = NoProc
  BY <1>1 DEF Run, PoolSound, Keeping, Returning, Owning, Statements, Taking, After
<1>5. \A t \in EventTypes : rows[t] = durable[t] + 1
  BY <1>1 DEF RowsAccount, Rank, EventTypes, Transaction
<1>6. durable' = [t \in EventTypes |-> durable[t] + 1]
  BY <1>1, <1>5 DEF Run, PoolType
<1> QED
  BY <1>3, <1>4, <1>6, StoreCommits

LEMMA RunMoves ==
  ASSUME PoolInv, Seen, NEW p \in Procs, NEW s \in Statements, Run(p, s)
  PROVE  StoreMoves
<1>1. CASE s = "commit"
  BY <1>1, RunCommits
<1>2. CASE s # "commit"
  <2>1. Recording' = Recording /\ UNCHANGED durable /\ at[p] = s
    BY <1>2, RunKeepsRecording DEF Run
  <2>2. CASE s \in Keeping
    <3>1. holder = NoProc /\ holder' = p
      BY <2>2 DEF Run, Keeping, Taking
    <3> QED
      BY <2>1, <3>1, StoreIsTaken
  <2>3. CASE s \in Returning
    <3>1. s \notin Keeping /\ s \in Owning /\ s \notin Transaction \cup {"begin"}
      BY <1>2, <2>3 DEF Keeping, Returning, Owning, Taking, Transaction, EventTypes
    <3>2. holder = p /\ holder' = NoProc
      BY <2>1, <2>3, <3>1 DEF Run, PoolInv, PoolSound
    <3>3. p \notin Recording
      BY <2>1, <3>1, IsRecording
    <3> QED
      BY <2>1, <3>2, <3>3, StoreIsGivenBack
  <2>4. CASE s \notin Keeping \cup Returning
    <3>1. UNCHANGED holder
      BY <2>4 DEF Run
    <3> QED
      BY <2>1, <3>1, StoreIdle
  <2> QED
    BY <2>2, <2>3, <2>4
<1> QED
  BY <1>1, <1>2

\* A statement that fails takes the outcome with it, all of it, and leaves the
\* store to the next.
LEMMA FailMoves ==
  ASSUME PoolInv, Seen, NEW p \in Procs, NEW s \in Statements, RunFails(p, s)
  PROVE  StoreMoves
<1>1. /\ PoolType /\ PoolSound /\ UNCHANGED durable
      /\ at[p] = s /\ at' = [at EXCEPT ![p] = "none"]
  BY DEF PoolInv, RunFails
<1>2. Recording' = Recording \ {p}
  BY <1>1, NotToRecord DEF Transaction, EventTypes
<1>3. holder' = IF holder = p THEN NoProc ELSE holder
  BY DEF RunFails, Abandon
<1>4. holder = p <=> s \in Owning
  BY <1>1 DEF PoolSound
<1>5. s \in Taking => holder = NoProc
  BY DEF RunFails
<1>6. CASE s \in Transaction \cup {"begin"}
  <2>1. p \in Recording
    BY <1>1, <1>6, IsRecording
  <2>2. holder \in {p, NoProc} /\ holder' = NoProc
    BY <1>3, <1>4, <1>5 DEF Owning
  <2> QED
    BY <1>1, <1>2, <2>1, <2>2, StoreFails
<1>7. CASE s \notin Transaction \cup {"begin"}
  <2>1. p \notin Recording
    BY <1>1, <1>7, IsRecording
  <2>2. Recording' = Recording
    BY <1>2, <2>1
  <2>3. CASE holder = p
    BY <1>1, <1>3, <2>1, <2>2, <2>3, StoreIsGivenBack
  <2>4. CASE holder # p
    BY <1>1, <1>3, <2>2, <2>4, StoreIdle
  <2> QED
    BY <2>3, <2>4
<1> QED
  BY <1>6, <1>7

\* A request that asks its upstream or selects, and the console, begin a call.
LEMMA CallersSubmit ==
  ASSUME PullInv, Seen, [Next]_vars
  PROVE  \/ UNCHANGED pool
         \/ \E p \in Procs : Query(p) \/ QueryFails(p)
         \/ \E p \in Procs, call \in Calls, n \in Nat : at[p] = "none" /\ Begin(p, call, n)
<1> DEFINE Begins == \E p \in Procs, call \in Calls, n \in Nat : at[p] = "none" /\ Begin(p, call, n)
           Goal   == UNCHANGED pool \/ (\E p \in Procs : Query(p) \/ QueryFails(p)) \/ Begins
<1> SUFFICES Goal
  OBVIOUS
<1>1. Candidates - 1 \in Nat /\ 0 \in Nat /\ "score" \in Calls /\ "begin" \in Calls
  BY PoolAssumption DEF Calls
<1>2. \A p \in Pullers : p \in Procs /\ (pc[p] \in {"get", "select"} => at[p] = "none")
  BY PullAssumption DEF PullInv, RequestInv
<1>3. ASSUME NEW p \in Pullers, Select(p) PROVE Begins
  BY <1>1, <1>2, <1>3 DEF Select
<1>4. ASSUME NEW p \in Pullers, NEW outcome, Upstream(p, outcome) PROVE UNCHANGED pool \/ Begins
  BY <1>1, <1>2, <1>4 DEF Upstream
<1>5. ASSUME NEW c \in Consoles, NEW call \in Calls, Console(c, call) PROVE Begins
  <2>1. c \in Procs /\ at[c] = "none"
    BY <1>5, PullAssumption DEF Console
  <2>2. PICK n \in Nat : Begin(c, call, n)
    BY <1>1, <1>5 DEF Console
  <2> QED
    BY <2>1, <2>2
<1>6. ASSUME NEW p \in Pullers, Own(p) \/ Outside(p) PROVE UNCHANGED pool \/ Begins
  <2>1. CASE Select(p)
    BY <1>3, <2>1
  <2>2. CASE UpstreamServes(p) \/ UpstreamFails(p)
    BY <1>4, <2>2 DEF UpstreamServes, UpstreamFails
  <2>3. CASE \/ LookUp(p) \/ RealmIssues(p) \/ RealmRefuses(p) \/ Selected(p) \/ NoNode(p)
             \/ Recorded(p) \/ ReplyError(p) \/ ReplyBody(p) \/ Leave(p) \/ Malformed(p)
             \/ \E r \in Requests : Request(p, r)
    BY <2>3 DEF LookUp, RealmIssues, RealmRefuses, Selected, NoNode, Recorded, ReplyError,
                ReplyBody, Leave, Malformed, Request
  <2> QED
    BY <1>6, <2>1, <2>2, <2>3 DEF Own, Outside, AskCancelled, UpstreamLost, ReplyLost
<1>7. CASE UNCHANGED vars
  BY <1>7 DEF vars
<1> HIDE DEF Begins
<1> QED
  BY <1>5, <1>6, <1>7 DEF Next, Ping, vars

LEMMA PoolMoves ==
  ASSUME PullInv, Seen, [Next]_vars
  PROVE  StoreMoves
<1>1. PoolInv
  BY DEF PullInv
<1>2. CASE UNCHANGED pool
  <2>1. Recording' = Recording /\ UNCHANGED <<holder, durable>>
    BY <1>2 DEF pool, Recording
  <2> QED
    BY <2>1, StoreIdle
<1>3. ASSUME NEW p \in Procs, Query(p) \/ QueryFails(p) PROVE StoreMoves
  BY <1>1, <1>3, RunMoves, FailMoves DEF Query, QueryFails
<1>4. ASSUME NEW p \in Procs, NEW call \in Calls, NEW n \in Nat, at[p] = "none", Begin(p, call, n)
      PROVE  StoreMoves
  BY <1>1, <1>4, BeginSubmits
<1> QED
  BY <1>2, <1>3, <1>4, CallersSubmit

\* Every behaviour of the requests, with all their goroutines on one connection
\* and any statement failing, is one of a store that takes outcomes as a whole,
\* from one goroutine at a time, or not at all.
THEOREM StoreTakesWholeOutcomes == Spec => ImplementsOutcomeStore
<1>1. Init => Table!StoreInit
  <2> SUFFICES ASSUME Init PROVE Table!StoreInit
    OBVIOUS
  <2>1. Recording = {} /\ Visible = rows
    BY DEF Init, PoolInit, Recording, Visible, Transaction, EventTypes
  <2> QED
    BY <2>1 DEF Init, PoolInit, Table!StoreInit
<1>2. PullInv /\ PullInv' => Seen
  <2>1. PullInv' => AllIsSeen'
    BY DurableIsSeen, PTL
  <2> QED
    BY <2>1, DurableIsSeen DEF Seen
<1>3. PullInv /\ PullInv' /\ [Next]_vars => [Table!StoreNext]_(Table!storeVars)
  BY <1>2, PoolMoves DEF StoreMoves
<1> QED
  BY <1>1, <1>3, PullAlways, PTL DEF Spec, ImplementsOutcomeStore, Table!StoreSpec
=============================================================================
