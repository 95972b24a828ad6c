--------------------------- MODULE NodeSelection ---------------------------
(***************************************************************************)
(* Which node serves a blob, and what that teaches the next choice.        *)
(* downloader.Download asks Manager.SelectBest, which computes one score   *)
(* per candidate by six queries, each on its own; the outcome is written   *)
(* in one transaction.  Dashboard tests write to the same table, and the   *)
(* watcher may replace the list of nodes, while requests select.           *)
(***************************************************************************)
EXTENDS Integers, SequencesExt, Scoring

CONSTANTS
    Procs,      \* goroutines that serve a blob request
    Nodes, NoNode,
    Lists,      \* what the enabled nodes for the registry may be, in order
    Replies,    \* per node, how it may answer: see AllReplies
    Tests,      \* <<node, result>> the dashboard's speed test may record
    Probes,     \* <<node, type, value>> of a test of one metric only
    Waits,      \* numbers of days that may pass at once
    MaxEvents,  \* bound on the rows kept of a node
    MaxDays,    \* bound on the passing of days
    MaxReloads, \* bound on the changes of the list
    MaxFaults,  \* bound on the queries that fail
    Latencies, Speeds, MaxTotal,  \* figures the formula itself is tried with
    Outcomes    \* results compared as what a node may add to its rows

\* ok is a 200; length is the Content-Length, -1 when the node gives none.
AllReplies == [ok : BOOLEAN, latency : Nat, length : Nat \cup {-1}]
Results    == [latency : Nat, speed : Nat, success : {0, 1}]

ASSUME SelectionAssumption ==
    /\ NoNode \notin Nodes
    /\ \A l \in Lists : l \in Seq(Nodes)
    /\ Replies \in [Nodes -> SUBSET AllReplies]
    /\ Tests \subseteq Nodes \X Results
    /\ Probes \subseteq Nodes \X {"latency", "speed"} \X Nat
    /\ Waits \subseteq Nat \ {0}
    /\ MaxEvents \in Nat /\ MaxDays \in Nat /\ MaxReloads \in Nat
    /\ MaxFaults \in Nat
    /\ Latencies \subseteq Nat /\ Speeds \subseteq Nat /\ MaxTotal \in Nat
    /\ Outcomes \subseteq Results

VARIABLES
    list,     \* enabled nodes for the registry, in the manager's order
    db,       \* the store could be opened
    metrics,  \* rows of node_metrics per node, in the order of their ids
    day, reloads, faults,
    pc,       \* "idle", the query of ComputeScore that is next, or "get"
    cands,    \* SelectBest's candidates
    todo,     \* those not yet scored; the head is being scored
    now,      \* ComputeScore's clock
    read,     \* what its queries have returned
    best, bestScore,
    quiet     \* history: no row written, no day passed, no query failed since

rows   == <<db, metrics>>
select == <<cands, todo, now, read, best, bestScore>>
bounds == <<reloads, faults>>
vars   == <<list, rows, day, bounds, pc, select, quiet>>

\* The queries of ComputeScore, in order.
Queries == <<"latency", "speed", "total", "successes", "lastLatency", "lastSpeed">>
Nothing == [latency |-> 0, speed |-> 0, total |-> 0, successes |-> 0,
            lastLatency |-> 0, lastSpeed |-> 0]

-----------------------------------------------------------------------------
(* Queries over the rows of one node at a time.  Averages are rounded down; *)
(* an operator whose name has an underscore is the next one with a          *)
(* programming error in it, which no action uses.                           *)

\* The rows of a type that are younger than some days, by their position.
Window(s, type, time, days) ==
    {i \in DOMAIN s : s[i].type = type /\ time - s[i].day < days}

\* AVG of the values that are not 0; 0 when there are none.
Average(s, window) ==
    LET known == {i \in window : s[i].value > 0}
    IN  IF known = {} THEN 0
        ELSE SumFunctionOnSet([i \in DOMAIN s |-> s[i].value], known) \div Cardinality(known)

Latest(s, type) == LET got == {i \in DOMAIN s : s[i].type = type}
                   IN  IF got = {} THEN 0 ELSE s[Max(got)].value

Answer(s, query, time) ==
    CASE query = "latency"     -> Average(s, Window(s, "latency", time, 1))
      [] query = "speed"       -> Average(s, Window(s, "speed", time, 2))
      [] query = "total"       -> Cardinality(Window(s, "success", time, 7))
      [] query = "successes"   -> Cardinality({i \in Window(s, "success", time, 7) : s[i].value = 1})
      [] query = "lastLatency" -> Latest(s, "latency")
      [] query = "lastSpeed"   -> Latest(s, "speed")

ScoreOf(r) == Score(r.latency, r.speed, r.total, r.successes, r.lastLatency, r.lastSpeed)

\* What ComputeScore returns for a node when nothing happens meanwhile.
ScoreNow(n) == ScoreOf([q \in DOMAIN Nothing |-> Answer(metrics[n], q, day)])

Row(type, value) == [type |-> type, value |-> value, day |-> day]
Rows(o) == <<Row("latency", o.latency), Row("speed", o.speed), Row("success", o.success)>>

\* Bytes per millisecond of a download, where both are known.
SpeedOf_unguarded(latency, length) == IF latency > 0 THEN length \div latency ELSE 0
SpeedOf(latency, length) == IF latency > 0 /\ length > 0 THEN length \div latency ELSE 0

Recorded(r) == [latency |-> r.latency, success |-> IF r.ok THEN 1 ELSE 0,
                speed |-> IF r.ok THEN SpeedOf(r.latency, r.length) ELSE 0]

\* Rows are written, or the transaction fails and is only logged.
Write(n, s) ==
    \/ /\ db /\ Len(metrics[n]) + Len(s) <= MaxEvents
       /\ metrics' = [metrics EXCEPT ![n] = @ \o s]
       /\ quiet' = [p \in Procs |-> FALSE]
    \/ UNCHANGED <<metrics, quiet>>

-----------------------------------------------------------------------------
Init ==
    /\ list \in Lists /\ db \in BOOLEAN
    /\ metrics = [n \in Nodes |-> <<>>] /\ day = 0 /\ reloads = 0 /\ faults = 0
    /\ pc = [p \in Procs |-> "idle"]
    /\ cands = [p \in Procs |-> <<>>] /\ todo = [p \in Procs |-> <<>>]
    /\ now = [p \in Procs |-> 0] /\ read = [p \in Procs |-> Nothing]
    /\ best = [p \in Procs |-> NoNode] /\ bestScore = [p \in Procs |-> 0]
    /\ quiet = [p \in Procs |-> TRUE]

\* SelectBest: the candidates, and without a database the first of them.
Select(p) ==
    /\ pc[p] = "idle"
    /\ cands' = [cands EXCEPT ![p] = list]
    /\ IF list # <<>> /\ db
       THEN pc' = [pc EXCEPT ![p] = Queries[1]] /\ UNCHANGED best
       ELSE /\ pc' = [pc EXCEPT ![p] = "get"]
            /\ best' = [best EXCEPT ![p] = IF list = <<>> THEN NoNode ELSE Head(list)]
    /\ todo' = [todo EXCEPT ![p] = list]
    /\ now' = [now EXCEPT ![p] = day]
    /\ quiet' = [quiet EXCEPT ![p] = TRUE]
    /\ UNCHANGED <<list, rows, day, bounds, read, bestScore>>

QueryFails(p) == /\ faults < MaxFaults /\ faults' = faults + 1
                 /\ quiet' = [quiet EXCEPT ![p] = FALSE]

\* One of the first five queries; one that fails leaves the 0 it found.
Query(p) ==
    \E i \in 1 .. 5 :
        /\ pc[p] = Queries[i]
        /\ \/ /\ read' = [read EXCEPT ![p][Queries[i]] =
                            Answer(metrics[Head(todo[p])], Queries[i], now[p])]
              /\ UNCHANGED <<quiet, faults>>
           \/ QueryFails(p) /\ UNCHANGED read
        /\ pc' = [pc EXCEPT ![p] = Queries[i + 1]]
        /\ UNCHANGED <<list, rows, day, reloads, cands, todo, now, best, bestScore>>

Better_strictly(score, than) == score > than
Better_first(score, than)    == than = 0
Better(score, than)          == score >= than

\* The last query for a candidate, and the comparison with the best so far.
Compare(p) ==
    LET n == Head(todo[p])
        score(v) == ScoreOf([read[p] EXCEPT !.lastSpeed = v])
        take(v) == IF Better(score(v), bestScore[p])
                   THEN /\ best' = [best EXCEPT ![p] = n]
                        /\ bestScore' = [bestScore EXCEPT ![p] = score(v)]
                   ELSE UNCHANGED <<best, bestScore>>
    IN
    /\ pc[p] = "lastSpeed"
    /\ \/ take(Answer(metrics[n], "lastSpeed", now[p])) /\ UNCHANGED <<quiet, faults>>
       \/ take(0) /\ QueryFails(p)
    /\ todo' = [todo EXCEPT ![p] = Tail(@)]
    /\ now' = [now EXCEPT ![p] = day]
    /\ read' = [read EXCEPT ![p] = Nothing]
    /\ pc' = [pc EXCEPT ![p] = IF Tail(todo[p]) = <<>> THEN "get" ELSE Queries[1]]
    /\ UNCHANGED <<list, rows, day, reloads, cands>>

Finish(p) == /\ pc' = [pc EXCEPT ![p] = "idle"]
             /\ cands' = [cands EXCEPT ![p] = <<>>]
             /\ todo' = [todo EXCEPT ![p] = <<>>]
             /\ best' = [best EXCEPT ![p] = NoNode]
             /\ bestScore' = [bestScore EXCEPT ![p] = 0]
             /\ UNCHANGED <<list, db, day, bounds, now, read>>

\* The node answers or does not, and RecordDownload writes it down.
Download(p) ==
    /\ pc[p] = "get" /\ best[p] # NoNode
    /\ \E r \in Replies[best[p]] : Write(best[p], Rows(Recorded(r)))
    /\ Finish(p)

\* A HEAD is passed on to the chosen node, and its outcome is not recorded.
HeadBlob(p) ==
    /\ pc[p] = "get" /\ best[p] # NoNode
    /\ Finish(p)
    /\ UNCHANGED <<metrics, quiet>>

\* There is no node: the request fails, and nothing is recorded.
NoDownload(p) ==
    /\ pc[p] = "get" /\ best[p] = NoNode
    /\ Finish(p)
    /\ UNCHANGED <<metrics, quiet>>

-----------------------------------------------------------------------------
\* The dashboard: test-one and test-all, and the test of one metric.
Test  == /\ \E t \in Tests : Write(t[1], Rows(t[2]))
         /\ UNCHANGED <<list, db, day, bounds, pc, select>>
Probe == /\ \E t \in Probes : Write(t[1], <<Row(t[2], t[3])>>)
         /\ UNCHANGED <<list, db, day, bounds, pc, select>>

\* ReloadNodes; requests that are selecting keep the nodes they hold.
Reload == /\ reloads < MaxReloads
          /\ reloads' = reloads + 1
          /\ list' \in Lists
          /\ UNCHANGED <<rows, day, faults, pc, select, quiet>>

DaysPass == /\ \E d \in Waits : day + d <= MaxDays /\ day' = day + d
            /\ quiet' = [p \in Procs |-> FALSE]
            /\ UNCHANGED <<list, rows, bounds, pc, select>>

Request(p) == \/ Select(p) \/ Query(p) \/ Compare(p)
              \/ Download(p) \/ HeadBlob(p) \/ NoDownload(p)

Next == \/ Test \/ Probe \/ Reload \/ DaysPass
        \/ \E p \in Procs : Request(p)

Spec == Init /\ [][Next]_vars

-----------------------------------------------------------------------------
(* Properties                                                               *)

\* Types of the store's and the requests' state; no row holds a negative
\* latency or speed, whatever Content-Length the node sends.
TypeOK ==
    /\ list \in Lists /\ db \in BOOLEAN /\ day \in Nat
    /\ reloads \in Nat /\ faults \in Nat
    /\ metrics \in [Nodes -> Seq([type : {"latency", "speed", "success"},
                                  value : Nat, day : Nat])]
    /\ pc \in [Procs -> {"idle", "get"} \cup ToSet(Queries)]
    /\ cands \in [Procs -> Seq(Nodes)] /\ todo \in [Procs -> Seq(Nodes)]
    /\ now \in [Procs -> Nat] /\ read \in [Procs -> [DOMAIN Nothing -> Nat]]
    /\ best \in [Procs -> Nodes \cup {NoNode}] /\ bestScore \in [Procs -> Nat]
    /\ quiet \in [Procs -> BOOLEAN]

\* SelectBest returns nil only when no enabled node serves the registry: on a
\* fresh install, after failures and with queries that fail, all scores may be
\* 0, and a node of the list is tried all the same.  (Its comment says that only
\* tested nodes are considered: see OnlyTestedAreChosen.)
SomeNodeIsTried ==
    \A p \in Procs : pc[p] = "get" =>
        best[p] \in ToSet(cands[p]) \/ (best[p] = NoNode /\ cands[p] = <<>>)

\* If nothing was written, no day passed and no query failed while SelectBest
\* ran, the node it returns has the highest score of all candidates, though each
\* score was computed by six queries at six moments.
QuietSelectionIsBest ==
    \A p \in Procs : pc[p] = "get" /\ quiet[p] /\ db =>
        \A n \in ToSet(cands[p]) : ScoreNow(n) <= ScoreNow(best[p])

\* Averages and counts, for boundaries that a few rows never add up to.
Grid == {g \in [latency : Latencies, speed : Speeds, total : 0 .. MaxTotal,
                successes : 0 .. MaxTotal, lastLatency : {0, 1}, lastSpeed : {0}] :
            g.successes <= g.total}

\* The figures of a node that is closer, faster or more reliable, or no longer
\* failing, than one with figures g.
Improvements(g) ==
    {[g EXCEPT !.latency = v] : v \in {w \in Latencies : 0 < w /\ w < g.latency}}
        \cup {[g EXCEPT !.speed = v] : v \in {w \in Speeds : w > g.speed}}
        \cup {[g EXCEPT !.total = @ + 1, !.successes = @ + 1],
              [g EXCEPT !.lastLatency = 1]}

\* db.go on ScoreSnapshot.Score: from 0 to 10000; a node that is not failing
\* has at least the 1500 of the constant load term.
ScoreFits(score, lastLatency) ==
    score \in 0 .. 10000 /\ (lastLatency > 0 => score >= 1500)

GridInRange  == \A g \in Grid : ScoreFits(ScoreOf(g), g.lastLatency)
GridMonotone == \A g \in Grid : \A h \in Improvements(g) : ScoreOf(h) >= ScoreOf(g)

\* Every set of rows is reached with no request under way, too: enough to look.
NobodySelects == \A p \in Procs : pc[p] = "idle"

\* The score keeps the range db.go gives it for any latency and speed, whatever
\* the averages are, and for the rows of every node at any time.
ScoreInRange ==
    /\ GridInRange
    /\ NobodySelects => \A n \in Nodes : ScoreFits(ScoreNow(n), Latest(metrics[n], "latency"))

\* What the rows of one more outcome, all of them, make of the score of n.
ScoreAfter(n, o) ==
    ScoreOf([q \in DOMAIN Nothing |-> Answer(metrics[n] \o Rows(o), q, day)])

\* o2 is no further, no slower and no less a success than o.  A latency or a
\* speed of 0 says that it is not known, so it compares with itself only.
AsGood(o2, o) ==
    /\ o2.latency = o.latency \/ (0 < o2.latency /\ o2.latency < o.latency)
    /\ o2.speed = o.speed \/ (0 < o.speed /\ o.speed < o2.speed)
    /\ o2.success >= o.success

\* The formula never scores a node lower whose figures get better.  And of two
\* outcomes that a node may add to the rows it has, whatever they are and
\* however old, the better one never leaves the lower score.  (An outcome may
\* well lower it: a slow success among fast ones does.)
BetterNeverLowers ==
    /\ GridMonotone
    /\ NobodySelects => \A n \in Nodes :
          LET after == [o \in Outcomes |-> ScoreAfter(n, o)]
          IN  \A o, o2 \in Outcomes : AsGood(o2, o) => after[o] <= after[o2]

-----------------------------------------------------------------------------
(* What the documents say and the code does not do.                         *)

\* db.go on ScoreSnapshot.Success: a rate from 0.0 to 1.0.  The two counts are
\* asked one after the other, and a request may finish in between.
SuccessIsRate ==
    \A p \in Procs : pc[p] \in {"lastLatency", "lastSpeed"} =>
        (read[p].total > 0 => read[p].successes <= read[p].total)

\* manager.go on SelectBest: only enabled nodes that have been tested, with a
\* score above 0, are considered.
OnlyTestedAreChosen ==
    \A p \in Procs : pc[p] = "get" /\ db /\ best[p] # NoNode => bestScore[p] > 0
=============================================================================
