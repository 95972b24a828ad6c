------------------------ MODULE NodeSelectionProofs ------------------------
(***************************************************************************)
(* Theorems about NodeSelection, for every number of requests, nodes, rows,*)
(* days and replies: a request has a node to try whenever there is one,    *)
(* the choice is the best one when nothing comes between its queries, and  *)
(* no node loses by getting better.                                        *)
(***************************************************************************)
EXTENDS NodeSelection, ScoringProofs, SumTheorems

QueryNames == {"latency", "speed", "total", "successes", "lastLatency", "lastSpeed"}
RowTypes   == {"latency", "speed", "success"}
AllRows    == [type : RowTypes, value : Nat, day : Nat]

-----------------------------------------------------------------------------
(* What the queries return.                                                 *)

LEMMA QueryOrder ==
    /\ ToSet(Queries) = QueryNames /\ DOMAIN Nothing = QueryNames
    /\ \A i \in 1 .. 6 : Queries[i] \in QueryNames
    /\ Queries[1] = "latency" /\ Queries[6] = "lastSpeed"
    /\ \A q \in QueryNames : \E i \in 1 .. 6 : q = Queries[i]
    /\ \A i, j \in 1 .. 6 : Queries[i] = Queries[j] => i = j
<1>1. DOMAIN Queries = 1 .. 6
  BY DEF Queries
<1>2. /\ Queries[1] = "latency" /\ Queries[2] = "speed" /\ Queries[3] = "total"
      /\ Queries[4] = "successes" /\ Queries[5] = "lastLatency" /\ Queries[6] = "lastSpeed"
  BY DEF Queries
<1>3. \A i \in 1 .. 6 : i = 1 \/ i = 2 \/ i = 3 \/ i = 4 \/ i = 5 \/ i = 6
  OBVIOUS
<1>4. 1 \in 1 .. 6 /\ 2 \in 1 .. 6 /\ 3 \in 1 .. 6 /\ 4 \in 1 .. 6 /\ 5 \in 1 .. 6 /\ 6 \in 1 .. 6
  OBVIOUS
<1>5. DOMAIN Nothing = QueryNames
  BY DEF Nothing, QueryNames
<1>6. \A i \in 1 .. 6 : Queries[i] \in QueryNames
  BY <1>2, <1>3 DEF QueryNames
<1>7. \A q \in QueryNames : \E i \in 1 .. 6 : q = Queries[i]
  BY <1>2, <1>4 DEF QueryNames
<1>8. \A i, j \in 1 .. 6 : Queries[i] = Queries[j] => i = j
  <2>1. TAKE i, j \in 1 .. 6
  <2> QED
    BY <1>2, <1>3
<1>9. ToSet(Queries) = QueryNames
  <2>1. ToSet(Queries) = {Queries[i] : i \in 1 .. 6}
    BY <1>1 DEF ToSet
  <2> QED
    BY <1>6, <1>7, <2>1
<1> QED
  BY <1>2, <1>5, <1>6, <1>7, <1>8, <1>9

LEMMA WindowFinite ==
  ASSUME NEW s \in Seq(AllRows), NEW S \in SUBSET DOMAIN s
  PROVE  IsFiniteSet(S) /\ Cardinality(S) \in Nat /\ (S # {} => Cardinality(S) > 0)
<1>1. DOMAIN s = 1 .. Len(s) /\ Len(s) \in Nat
  OBVIOUS
<1>2. IsFiniteSet(S)
  <2>1. S \in SUBSET (1 .. Len(s)) /\ 1 \in Int /\ Len(s) \in Int
    BY <1>1
  <2>2. IsFiniteSet(1 .. Len(s))
    BY <2>1, FS_Interval
  <2> QED
    BY <2>1, <2>2, FS_Subset, Zenon
<1>3. Cardinality(S) \in Nat
  BY <1>2, FS_CardinalityType
<1>4. S # {} => Cardinality(S) # 0
  BY <1>2, FS_EmptySet
<1> QED
  BY <1>2, <1>3, <1>4

LEMMA AverageType ==
  ASSUME NEW s \in Seq(AllRows), NEW S \in SUBSET DOMAIN s
  PROVE  Average(s, S) \in Nat
<1> DEFINE known  == {i \in S : s[i].value > 0}
           values == [i \in DOMAIN s |-> s[i].value]
<1>1. known \in SUBSET DOMAIN s
  OBVIOUS
<1>2. NatOn(values, known)
  <2>1. \A i \in DOMAIN s : s[i] \in AllRows
    OBVIOUS
  <2>2. \A i \in DOMAIN s : s[i].value \in Nat
    BY <2>1 DEF AllRows
  <2> QED
    BY <1>1, <2>2 DEF NatOn
<1>3. Average(s, S) = IF known = {} THEN 0
                      ELSE SumFunctionOnSet(values, known) \div Cardinality(known)
  BY DEF Average
<1> HIDE DEF known, values
<1>4. IsFiniteSet(known) /\ Cardinality(known) \in Nat /\ (known # {} => Cardinality(known) > 0)
  BY <1>1, WindowFinite
<1>5. SumFunctionOnSet(values, known) \in Nat
  BY <1>2, <1>4, SumType
<1>6. \A a, n \in Nat : n > 0 => a \div n \in Nat
  BY Z3
<1> QED
  BY <1>3, <1>4, <1>5, <1>6

LEMMA LatestType ==
  ASSUME NEW s \in Seq(AllRows), NEW type
  PROVE  Latest(s, type) \in Nat
<1> DEFINE got == {i \in DOMAIN s : s[i].type = type}
<1>1. DOMAIN s = 1 .. Len(s) /\ Len(s) \in Nat /\ got \in SUBSET (1 .. Len(s))
  OBVIOUS
<1>2. Latest(s, type) = IF got = {} THEN 0 ELSE s[Max(got)].value
  BY DEF Latest
<1> HIDE DEF got
<1>3. ASSUME got # {} PROVE Max(got) \in got
  <2>1. \E x \in got : \A y \in got : x >= y
    BY <1>1, <1>3, Sums!GreatestNumber
  <2> QED
    BY <2>1 DEF Max
<1>4. \A i \in DOMAIN s : s[i] \in AllRows
  OBVIOUS
<1>5. \A i \in DOMAIN s : s[i].value \in Nat
  BY <1>4 DEF AllRows
<1>6. CASE got = {}
  BY <1>2, <1>6
<1>7. CASE got # {}
  <2>1. Max(got) \in DOMAIN s
    BY <1>1, <1>3, <1>7
  <2> QED
    BY <1>2, <1>5, <1>7, <2>1
<1> QED
  BY <1>6, <1>7

LEMMA WindowInDomain ==
  ASSUME NEW s, NEW type, NEW time, NEW days
  PROVE  Window(s, type, time, days) \in SUBSET DOMAIN s
BY DEF Window

\* Every query returns a natural number, whatever the rows and the clock.
LEMMA AnswerType ==
  ASSUME NEW s \in Seq(AllRows), NEW q \in QueryNames, NEW time
  PROVE  Answer(s, q, time) \in Nat
<1>1. Average(s, Window(s, "latency", time, 1)) \in Nat
  BY WindowInDomain, AverageType
<1>2. Average(s, Window(s, "speed", time, 2)) \in Nat
  BY WindowInDomain, AverageType
<1>3. Cardinality(Window(s, "success", time, 7)) \in Nat
  BY WindowInDomain, WindowFinite
<1>4. Cardinality({i \in Window(s, "success", time, 7) : s[i].value = 1}) \in Nat
  <2>1. {i \in Window(s, "success", time, 7) : s[i].value = 1} \in SUBSET DOMAIN s
    BY WindowInDomain
  <2> QED
    BY <2>1, WindowFinite
<1>5. Latest(s, "latency") \in Nat /\ Latest(s, "speed") \in Nat
  BY LatestType
<1> QED
  BY <1>1, <1>2, <1>3, <1>4, <1>5 DEF Answer, QueryNames

\* And so is the score that is made of natural numbers.
LEMMA ScoreOfType ==
  ASSUME NEW r \in [QueryNames -> Nat]
  PROVE  ScoreOf(r) \in Nat
<1>1. Figures(r.latency, r.speed, r.total, r.successes, r.lastLatency, r.lastSpeed)
  BY DEF QueryNames, Figures
<1> QED
  BY <1>1, ScoreIsNatural, Zenon DEF ScoreOf

-----------------------------------------------------------------------------
(* Types.  A request that is between two queries has a candidate to ask     *)
(* about, and one that is not has read nothing.                             *)

PcType == {"idle", "get"} \cup QueryNames

Types ==
    /\ list \in Lists /\ db \in BOOLEAN /\ day \in Nat
    /\ reloads \in Nat /\ faults \in Nat
    /\ metrics \in [Nodes -> Seq(AllRows)]
    /\ pc \in [Procs -> PcType]
    /\ cands \in [Procs -> Seq(Nodes)] /\ todo \in [Procs -> Seq(Nodes)]
    /\ now \in [Procs -> Nat] /\ read \in [Procs -> [QueryNames -> Nat]]
    /\ best \in [Procs -> Nodes \cup {NoNode}] /\ bestScore \in [Procs -> Nat]
    /\ quiet \in [Procs -> BOOLEAN]

Position(p) ==
    /\ pc[p] \in QueryNames => todo[p] # <<>>
    /\ pc[p] \in {"idle", "get"} => read[p] = Nothing

SelectInv == Types /\ \A p \in Procs : Position(p)

LEMMA TypesAreTypeOK == Types => TypeOK
BY QueryOrder, Zenon DEF TypeOK, Types, AllRows, RowTypes, PcType

LEMMA NothingType == Nothing \in [QueryNames -> Nat]
BY DEF Nothing, QueryNames

LEMMA SelectInit == Init => SelectInv
<1> SUFFICES ASSUME Init PROVE SelectInv
  OBVIOUS
<1>1. /\ list \in Lists /\ db \in BOOLEAN /\ day \in Nat
      /\ reloads \in Nat /\ faults \in Nat
  BY DEF Init
<1>2. metrics \in [Nodes -> Seq(AllRows)]
  BY DEF Init
<1>3. pc \in [Procs -> PcType] /\ quiet \in [Procs -> BOOLEAN]
  BY DEF Init, PcType
<1>4. cands \in [Procs -> Seq(Nodes)] /\ todo \in [Procs -> Seq(Nodes)]
  BY DEF Init
<1>5. /\ now \in [Procs -> Nat] /\ read \in [Procs -> [QueryNames -> Nat]]
      /\ best \in [Procs -> Nodes \cup {NoNode}] /\ bestScore \in [Procs -> Nat]
  BY NothingType DEF Init
<1>6. \A p \in Procs : pc[p] = "idle" /\ read[p] = Nothing
  BY DEF Init
<1>7. "idle" \notin QueryNames
  BY DEF QueryNames
<1> QED
  BY <1>1, <1>2, <1>3, <1>4, <1>5, <1>6, <1>7, Zenon DEF SelectInv, Types, Position

\* What may be written of a node keeps its rows of their type.
LEMMA RecordedRows ==
    ASSUME NEW r \in AllReplies, day \in Nat
    PROVE  Rows(Recorded(r)) \in Seq(AllRows)
<1>1. r.latency \in Nat /\ r.length \in Nat \cup {-1} /\ r.ok \in BOOLEAN
  BY DEF AllReplies
<1>2. SpeedOf(r.latency, r.length) \in Nat
  <2>1. \A x, y \in Nat : y > 0 => x \div y \in Nat
    BY Z3
  <2> QED
    BY <1>1, <2>1 DEF SpeedOf
<1>3. /\ Recorded(r).latency \in Nat /\ Recorded(r).speed \in Nat
      /\ Recorded(r).success \in Nat
  BY <1>1, <1>2 DEF Recorded
<1> QED
  BY <1>3 DEF Rows, Row, AllRows, RowTypes

LEMMA TestRows ==
    ASSUME NEW t \in Tests, day \in Nat
    PROVE  t[1] \in Nodes /\ Rows(t[2]) \in Seq(AllRows)
BY SelectionAssumption DEF Rows, Row, AllRows, RowTypes, Results

LEMMA ProbeRows ==
    ASSUME NEW t \in Probes, day \in Nat
    PROVE  t[1] \in Nodes /\ <<Row(t[2], t[3])>> \in Seq(AllRows)
BY SelectionAssumption DEF Row, AllRows, RowTypes

\* What a write leaves of the invariant.
LEMMA WriteTypes ==
    ASSUME SelectInv, NEW n \in Nodes, NEW s \in Seq(AllRows), Write(n, s)
    PROVE  metrics' \in [Nodes -> Seq(AllRows)] /\ quiet' \in [Procs -> BOOLEAN]
<1>1. metrics \in [Nodes -> Seq(AllRows)] /\ quiet \in [Procs -> BOOLEAN]
  BY DEF SelectInv, Types
<1>2. metrics[n] \o s \in Seq(AllRows)
  BY <1>1
<1> QED
  BY <1>1, <1>2 DEF Write

\* A failing query is counted and disturbs the quiet, or nothing happens to either.
LEMMA FaultTypes ==
    ASSUME SelectInv, NEW p \in Procs, UNCHANGED <<quiet, faults>> \/ QueryFails(p)
    PROVE  faults' \in Nat /\ quiet' \in [Procs -> BOOLEAN]
<1>1. faults \in Nat /\ quiet \in [Procs -> BOOLEAN]
  BY DEF SelectInv, Types
<1>2. CASE UNCHANGED <<quiet, faults>>
  BY <1>1, <1>2
<1>3. CASE QueryFails(p)
  BY <1>1, <1>3 DEF QueryFails
<1> QED
  BY <1>2, <1>3

\* The candidates still to be scored: the head is taken off.
LEMMA HeadAndTail ==
    ASSUME NEW t \in Seq(Nodes), t # <<>>
    PROVE  /\ Head(t) \in Nodes /\ Tail(t) \in Seq(Nodes)
           /\ ToSet(t) = ToSet(Tail(t)) \cup {Head(t)}
<1>1. Head(t) \in Nodes /\ Tail(t) \in Seq(Nodes) /\ Head(t) = t[1]
  OBVIOUS
<1>2. DOMAIN t = 1 .. Len(t) /\ Len(t) \in Nat \ {0}
  OBVIOUS
<1>3. DOMAIN Tail(t) = 1 .. (Len(t) - 1)
  OBVIOUS
<1>4. \A i \in 1 .. (Len(t) - 1) : Tail(t)[i] = t[i + 1]
  OBVIOUS
<1>5. \A i \in 1 .. Len(t) : i # 1 => i - 1 \in 1 .. (Len(t) - 1) /\ (i - 1) + 1 = i
  BY <1>2
<1>6. \A i \in 1 .. (Len(t) - 1) : i + 1 \in 1 .. Len(t)
  BY <1>2
<1>7. ASSUME NEW n \in ToSet(t) PROVE n \in ToSet(Tail(t)) \cup {Head(t)}
  <2>1. PICK i \in 1 .. Len(t) : n = t[i]
    BY <1>2 DEF ToSet
  <2>2. CASE i = 1
    BY <1>1, <2>1, <2>2
  <2>3. CASE i # 1
    <3>1. i - 1 \in 1 .. (Len(t) - 1) /\ Tail(t)[i - 1] = n
      BY <1>4, <1>5, <2>1, <2>3
    <3> QED
      BY <1>3, <3>1 DEF ToSet
  <2> QED
    BY <2>2, <2>3
<1>8. ASSUME NEW n \in ToSet(Tail(t)) PROVE n \in ToSet(t)
  <2>1. PICK i \in 1 .. (Len(t) - 1) : n = Tail(t)[i]
    BY <1>3 DEF ToSet
  <2>2. i + 1 \in 1 .. Len(t) /\ t[i + 1] = n
    BY <1>4, <1>6, <2>1
  <2> QED
    BY <1>2, <2>2 DEF ToSet
<1>9. Head(t) \in ToSet(t)
  <2>1. 1 \in 1 .. Len(t)
    BY <1>2
  <2> QED
    BY <1>1, <1>2, <2>1 DEF ToSet
<1> QED
  BY <1>1, <1>7, <1>8, <1>9

LEMMA NothingIsLeft == ToSet(<<>>) = {}
BY DEF ToSet

\* Every query of a request that is scoring a candidate has an answer.
LEMMA AnswerForHead ==
    ASSUME SelectInv, NEW p \in Procs, pc[p] \in QueryNames, NEW q \in QueryNames
    PROVE  Answer(metrics[Head(todo[p])], q, now[p]) \in Nat
<1>1. Head(todo[p]) \in Nodes
  BY HeadAndTail DEF SelectInv, Types, Position
<1>2. metrics[Head(todo[p])] \in Seq(AllRows)
  BY <1>1 DEF SelectInv, Types
<1> QED
  BY <1>2, AnswerType

\* The comparison as one choice of the value that the last query returns.
ScoreWith(p, v) == ScoreOf([read[p] EXCEPT !.lastSpeed = v])

LEMMA CompareTakes ==
    ASSUME SelectInv, NEW p \in Procs, Compare(p)
    PROVE  \E v \in Nat :
             /\ ScoreWith(p, v) \in Nat
             /\ \/ /\ v = Answer(metrics[Head(todo[p])], "lastSpeed", now[p])
                   /\ UNCHANGED <<quiet, faults>>
                \/ QueryFails(p)
             /\ IF ScoreWith(p, v) >= bestScore[p]
                THEN /\ best' = [best EXCEPT ![p] = Head(todo[p])]
                     /\ bestScore' = [bestScore EXCEPT ![p] = ScoreWith(p, v)]
                ELSE UNCHANGED <<best, bestScore>>
<1>1. pc[p] \in QueryNames /\ "lastSpeed" \in QueryNames
  BY DEF Compare, QueryNames
<1>2. Answer(metrics[Head(todo[p])], "lastSpeed", now[p]) \in Nat
  BY <1>1, AnswerForHead
<1>3. ASSUME NEW v \in Nat PROVE ScoreWith(p, v) \in Nat
  <2>1. [read[p] EXCEPT !.lastSpeed = v] \in [QueryNames -> Nat]
    BY DEF SelectInv, Types
  <2> QED
    BY <2>1, ScoreOfType DEF ScoreWith
<1>4. 0 \in Nat
  OBVIOUS
<1>5. \E v \in {Answer(metrics[Head(todo[p])], "lastSpeed", now[p]), 0} :
        /\ \/ /\ v = Answer(metrics[Head(todo[p])], "lastSpeed", now[p])
              /\ UNCHANGED <<quiet, faults>>
           \/ QueryFails(p)
        /\ IF ScoreWith(p, v) >= bestScore[p]
           THEN /\ best' = [best EXCEPT ![p] = Head(todo[p])]
                /\ bestScore' = [bestScore EXCEPT ![p] = ScoreWith(p, v)]
           ELSE UNCHANGED <<best, bestScore>>
  BY Zenon DEF Compare, ScoreWith, Better
<1> QED
  BY <1>2, <1>3, <1>4, <1>5, Zenon

\* Where the actions begin and end: the program counters they use.
LEMMA PcTypes ==
    /\ "idle" \in PcType /\ "get" \in PcType /\ Queries[1] \in PcType
    /\ \A i \in 1 .. 6 : Queries[i] \in PcType /\ Queries[i] \in QueryNames
    /\ "idle" \notin QueryNames /\ "get" \notin QueryNames
    /\ Queries[1] \in QueryNames /\ Queries[1] \notin {"idle", "get"}
    /\ "lastSpeed" \in QueryNames
<1>1. 1 \in 1 .. 6
  OBVIOUS
<1> QED
  BY <1>1, QueryOrder, Zenon DEF PcType, QueryNames

LEMMA FinishTypes ==
    ASSUME SelectInv, NEW p \in Procs, Finish(p), pc[p] = "get",
           metrics' \in [Nodes -> Seq(AllRows)], quiet' \in [Procs -> BOOLEAN]
    PROVE  SelectInv'
<1> USE DEF SelectInv, Types, Position, Finish
<1>1. <<>> \in Seq(Nodes) /\ NoNode \in Nodes \cup {NoNode} /\ 0 \in Nat
  OBVIOUS
<1>2. /\ cands' \in [Procs -> Seq(Nodes)] /\ todo' \in [Procs -> Seq(Nodes)]
      /\ best' \in [Procs -> Nodes \cup {NoNode}] /\ bestScore' \in [Procs -> Nat]
      /\ pc' \in [Procs -> PcType]
  BY <1>1, PcTypes
<1>3. /\ list' \in Lists /\ db' \in BOOLEAN /\ day' \in Nat
      /\ reloads' \in Nat /\ faults' \in Nat
      /\ now' \in [Procs -> Nat] /\ read' \in [Procs -> [QueryNames -> Nat]]
  BY DEF bounds
<1>4. ASSUME NEW q \in Procs PROVE Position(q)'
  <2>1. CASE q = p
    BY <2>1, PcTypes
  <2>2. CASE q # p
    BY <2>2
  <2> QED
    BY <2>1, <2>2
<1> QED
  BY <1>2, <1>3, <1>4, Zenon

\* Steps that leave every request where it is.
LEMMA OutsideTypes ==
    ASSUME SelectInv, UNCHANGED <<pc, select>>,
           list' \in Lists, db' \in BOOLEAN, day' \in Nat, reloads' \in Nat, faults' \in Nat,
           metrics' \in [Nodes -> Seq(AllRows)], quiet' \in [Procs -> BOOLEAN]
    PROVE  SelectInv'
BY DEF SelectInv, Types, Position, select

LEMMA SelectStep == SelectInv /\ [Next]_vars => SelectInv'
<1> SUFFICES ASSUME SelectInv, [Next]_vars PROVE SelectInv'
  OBVIOUS
<1>0. Types
  BY DEF SelectInv
<1>1. CASE UNCHANGED vars
  BY <1>0, <1>1, OutsideTypes DEF vars, rows, bounds, Types
<1>2. CASE Test
  <2>1. PICK t \in Tests : Write(t[1], Rows(t[2]))
    BY <1>2 DEF Test
  <2>2. metrics' \in [Nodes -> Seq(AllRows)] /\ quiet' \in [Procs -> BOOLEAN]
    BY <1>0, <2>1, TestRows, WriteTypes DEF Types
  <2> QED
    BY <1>0, <1>2, <2>2, OutsideTypes DEF Test, Types, bounds
<1>3. CASE Probe
  <2>1. PICK t \in Probes : Write(t[1], <<Row(t[2], t[3])>>)
    BY <1>3 DEF Probe
  <2>2. metrics' \in [Nodes -> Seq(AllRows)] /\ quiet' \in [Procs -> BOOLEAN]
    BY <1>0, <2>1, ProbeRows, WriteTypes DEF Types
  <2> QED
    BY <1>0, <1>3, <2>2, OutsideTypes DEF Probe, Types, bounds
<1>4. CASE Reload
  BY <1>0, <1>4, OutsideTypes DEF Reload, Types, rows
<1>5. CASE DaysPass
  <2>1. PICK d \in Waits : day' = day + d
    BY <1>5 DEF DaysPass
  <2>2. day' \in Nat
    BY <1>0, <2>1, SelectionAssumption DEF Types
  <2>3. quiet' \in [Procs -> BOOLEAN]
    BY <1>5 DEF DaysPass
  <2> QED
    BY <1>0, <1>5, <2>2, <2>3, OutsideTypes DEF DaysPass, Types, rows, bounds
<1>6. ASSUME NEW p \in Procs, Select(p) PROVE SelectInv'
  <2> USE <1>0, <1>6 DEF Select, Types
  <2>1. list \in Seq(Nodes)
    BY SelectionAssumption
  <2>2. /\ cands' \in [Procs -> Seq(Nodes)] /\ todo' \in [Procs -> Seq(Nodes)]
        /\ now' \in [Procs -> Nat] /\ quiet' \in [Procs -> BOOLEAN]
    BY <2>1
  <2>3. pc' \in [Procs -> PcType]
    <3>1. PICK x \in PcType : pc' = [pc EXCEPT ![p] = x]
      BY PcTypes
    <3> QED
      BY <3>1
  <2>4. best' \in [Procs -> Nodes \cup {NoNode}]
    <3>1. list # <<>> => Head(list) \in Nodes
      BY <2>1
    <3>2. PICK n \in Nodes \cup {NoNode} : best' = [best EXCEPT ![p] = n] \/ best' = best
      BY <3>1
    <3> QED
      BY <3>2
  <2>5. /\ list' \in Lists /\ db' \in BOOLEAN /\ day' \in Nat
        /\ reloads' \in Nat /\ faults' \in Nat /\ metrics' \in [Nodes -> Seq(AllRows)]
        /\ read' \in [Procs -> [QueryNames -> Nat]] /\ bestScore' \in [Procs -> Nat]
    BY DEF bounds, rows
  <2>6. ASSUME NEW q \in Procs PROVE Position(q)'
    <3>1. CASE q = p
      BY <3>1, PcTypes DEF SelectInv, Position
    <3>2. CASE q # p
      BY <3>2 DEF SelectInv, Position
    <3> QED
      BY <3>1, <3>2
  <2> QED
    BY <2>2, <2>3, <2>4, <2>5, <2>6, Zenon DEF SelectInv
<1>7. ASSUME NEW p \in Procs, Query(p) PROVE SelectInv'
  <2>1. PICK i \in 1 .. 5 :
            /\ pc[p] = Queries[i]
            /\ \/ /\ read' = [read EXCEPT ![p][Queries[i]] =
                                Answer(metrics[Head(todo[p])], Queries[i], now[p])]
                  /\ UNCHANGED <<quiet, faults>>
               \/ QueryFails(p) /\ UNCHANGED read
            /\ pc' = [pc EXCEPT ![p] = Queries[i + 1]]
            /\ UNCHANGED <<list, rows, day, reloads, cands, todo, now, best, bestScore>>
    BY <1>7, Zenon DEF Query
  <2>2. i \in 1 .. 6 /\ i + 1 \in 1 .. 6
    OBVIOUS
  <2>3. /\ Queries[i] \in QueryNames /\ Queries[i + 1] \in QueryNames
        /\ Queries[i + 1] \in PcType
    BY <2>2, PcTypes
  <2>4. read' \in [Procs -> [QueryNames -> Nat]]
    <3>1. Answer(metrics[Head(todo[p])], Queries[i], now[p]) \in Nat
      BY <2>1, <2>3, AnswerForHead
    <3>2. PICK q : q = Queries[i]
      OBVIOUS
    <3>3. PICK a : a = Answer(metrics[Head(todo[p])], Queries[i], now[p])
      OBVIOUS
    <3>4. read \in [Procs -> [QueryNames -> Nat]]
      BY <1>0 DEF Types
    <3>5. [read EXCEPT ![p][q] = a] \in [Procs -> [QueryNames -> Nat]]
      BY <2>3, <3>1, <3>2, <3>3, <3>4
    <3> QED
      BY <2>1, <3>2, <3>3, <3>4, <3>5
  <2>5. faults' \in Nat /\ quiet' \in [Procs -> BOOLEAN]
    BY <2>1, FaultTypes
  <2>6. pc' \in [Procs -> PcType]
    BY <1>0, <2>1, <2>3 DEF Types
  <2>7. Types'
    BY <1>0, <2>1, <2>4, <2>5, <2>6, Zenon DEF Types, rows
  <2>8. ASSUME NEW q \in Procs PROVE Position(q)'
    <3>1. CASE q = p
      <4>1. pc'[p] = Queries[i + 1] /\ pc'[p] \notin {"idle", "get"}
        BY <1>0, <2>1, <2>3, PcTypes DEF Types
      <4>2. todo[p] # <<>>
        BY <2>1, <2>3 DEF SelectInv, Position
      <4> QED
        BY <2>1, <3>1, <4>1, <4>2 DEF Position
    <3>2. CASE q # p
      <4>1. pc'[q] = pc[q] /\ read'[q] = read[q] /\ todo'[q] = todo[q]
        BY <1>0, <2>1, <3>2 DEF Types
      <4> QED
        BY <4>1 DEF SelectInv, Position
    <3> QED
      BY <3>1, <3>2
  <2> QED
    BY <2>7, <2>8, Zenon DEF SelectInv
<1>8. ASSUME NEW p \in Procs, Compare(p) PROVE SelectInv'
  <2>1. todo[p] # <<>> /\ todo[p] \in Seq(Nodes)
    BY <1>0, <1>8, PcTypes DEF Compare, SelectInv, Position, Types
  <2>2. Head(todo[p]) \in Nodes /\ Tail(todo[p]) \in Seq(Nodes)
    BY <2>1, HeadAndTail
  <2>3. faults' \in Nat /\ quiet' \in [Procs -> BOOLEAN]
    BY <1>8, CompareTakes, FaultTypes
  <2>4. best' \in [Procs -> Nodes \cup {NoNode}] /\ bestScore' \in [Procs -> Nat]
    <3>1. PICK score \in Nat :
              \/ UNCHANGED <<best, bestScore>>
              \/ /\ best' = [best EXCEPT ![p] = Head(todo[p])]
                 /\ bestScore' = [bestScore EXCEPT ![p] = score]
      BY <1>8, CompareTakes, Zenon
    <3> QED
      BY <1>0, <2>2, <3>1 DEF Types
  <2>5. /\ todo' \in [Procs -> Seq(Nodes)] /\ now' \in [Procs -> Nat]
        /\ read' \in [Procs -> [QueryNames -> Nat]] /\ pc' \in [Procs -> PcType]
    BY <1>0, <1>8, <2>2, NothingType, PcTypes DEF Compare, Types
  <2>6. /\ list' \in Lists /\ db' \in BOOLEAN /\ day' \in Nat /\ reloads' \in Nat
        /\ metrics' \in [Nodes -> Seq(AllRows)] /\ cands' \in [Procs -> Seq(Nodes)]
    BY <1>0, <1>8 DEF Compare, Types, rows
  <2>7. ASSUME NEW q \in Procs PROVE Position(q)'
    <3>1. CASE q = p
      BY <1>0, <1>8, <3>1, PcTypes DEF Compare, Types, Position
    <3>2. CASE q # p
      BY <1>0, <1>8, <3>2 DEF Compare, Types, SelectInv, Position
    <3> QED
      BY <3>1, <3>2
  <2> QED
    BY <2>3, <2>4, <2>5, <2>6, <2>7, Zenon DEF SelectInv, Types
<1>9. ASSUME NEW p \in Procs, Download(p) PROVE SelectInv'
  <2>1. PICK r \in Replies[best[p]] : Write(best[p], Rows(Recorded(r)))
    BY <1>9 DEF Download
  <2>2. best[p] \in Nodes /\ r \in AllReplies /\ day \in Nat
    BY <1>0, <1>9, SelectionAssumption DEF Download, Types
  <2>3. metrics' \in [Nodes -> Seq(AllRows)] /\ quiet' \in [Procs -> BOOLEAN]
    BY <2>1, <2>2, RecordedRows, WriteTypes
  <2> QED
    BY <1>9, <2>3, FinishTypes DEF Download
<1>10. ASSUME NEW p \in Procs, HeadBlob(p) \/ NoDownload(p) PROVE SelectInv'
  BY <1>0, <1>10, FinishTypes DEF HeadBlob, NoDownload, Types
<1> QED
  BY <1>1, <1>2, <1>3, <1>4, <1>5, <1>6, <1>7, <1>8, <1>9, <1>10, Zenon DEF Next, Request

\* Whatever Content-Length a node sends and however the queries interleave
\* with writes, tests and reloads, what is stored, read and computed from it is
\* a natural number: a divisor is never 0, and nothing is negative.
THEOREM SelectionTyped == Spec => []TypeOK
<1>1. SelectInv => TypeOK
  BY TypesAreTypeOK DEF SelectInv
<1> QED
  BY <1>1, SelectInit, SelectStep, PTL DEF Spec

-----------------------------------------------------------------------------
(* The choice.  A step is one of the request's own, or leaves it alone; then *)
(* it is still quiet only if no row was written and no day has passed.      *)

Alone(p) ==
    /\ pc'[p] = pc[p] /\ cands'[p] = cands[p] /\ todo'[p] = todo[p] /\ now'[p] = now[p]
    /\ read'[p] = read[p] /\ best'[p] = best[p] /\ bestScore'[p] = bestScore[p]
    /\ db' = db
    /\ quiet'[p] => quiet[p] /\ metrics' = metrics /\ day' = day

LEMMA WriteOrQuiet ==
    ASSUME NEW n, NEW s, Write(n, s), NEW p \in Procs
    PROVE  quiet'[p] => quiet[p] /\ metrics' = metrics
BY DEF Write

LEMMA OthersLeaveAlone ==
    ASSUME Types, NEW p \in Procs, NEW q \in Procs, q # p, Request(q)
    PROVE  Alone(p)
<1> USE DEF Types
<1>1. CASE Select(q)
  BY <1>1 DEF Select, Alone, rows
<1>2. CASE Query(q)
  <2>1. PICK i \in 1 .. 5 :
            /\ \/ /\ \E v : read' = [read EXCEPT ![q][Queries[i]] = v]
                  /\ UNCHANGED <<quiet, faults>>
               \/ QueryFails(q) /\ UNCHANGED read
            /\ pc' = [pc EXCEPT ![q] = Queries[i + 1]]
            /\ UNCHANGED <<list, rows, day, reloads, cands, todo, now, best, bestScore>>
    BY <1>2, Zenon DEF Query
  <2>2. quiet'[p] = quiet[p] /\ read'[p] = read[p]
    BY <2>1 DEF QueryFails
  <2> QED
    BY <2>1, <2>2 DEF Alone, rows
<1>3. CASE Compare(q)
  <2>1. /\ best'[p] = best[p] /\ bestScore'[p] = bestScore[p] /\ quiet'[p] = quiet[p]
    <3>1. /\ \/ \E score : /\ best' = [best EXCEPT ![q] = Head(todo[q])]
                           /\ bestScore' = [bestScore EXCEPT ![q] = score]
             \/ UNCHANGED <<best, bestScore>>
          /\ UNCHANGED <<quiet, faults>> \/ QueryFails(q)
      BY <1>3, Zenon DEF Compare
    <3> QED
      BY <3>1 DEF QueryFails
  <2> QED
    BY <1>3, <2>1 DEF Compare, Alone, rows
<1>4. CASE Download(q)
  <2>1. quiet'[p] => quiet[p] /\ metrics' = metrics
    BY <1>4, WriteOrQuiet DEF Download
  <2> QED
    BY <1>4, <2>1 DEF Download, Finish, Alone
<1>5. CASE HeadBlob(q) \/ NoDownload(q)
  BY <1>5 DEF HeadBlob, NoDownload, Finish, Alone
<1> QED
  BY <1>1, <1>2, <1>3, <1>4, <1>5 DEF Request

LEMMA OwnStepOrAlone ==
    ASSUME Types, NEW p \in Procs, [Next]_vars
    PROVE  Request(p) \/ Alone(p)
<1>1. CASE UNCHANGED vars
  BY <1>1 DEF vars, rows, select, Alone
<1>2. CASE Test \/ Probe
  <2>1. quiet'[p] => quiet[p] /\ metrics' = metrics
    BY <1>2, WriteOrQuiet DEF Test, Probe
  <2> QED
    BY <1>2, <2>1 DEF Test, Probe, select, Alone
<1>3. CASE Reload \/ DaysPass
  BY <1>3 DEF Reload, DaysPass, select, rows, Alone
<1>4. ASSUME NEW q \in Procs, Request(q) PROVE Request(p) \/ Alone(p)
  BY <1>4, OthersLeaveAlone
<1> QED
  BY <1>1, <1>2, <1>3, <1>4 DEF Next

-----------------------------------------------------------------------------
(* What SelectBest has found so far is a candidate, or nothing, with the    *)
(* score 0 that the first candidate's reaches, whatever it is.              *)

Chosen(p) ==
    /\ pc[p] = "idle" => best[p] = NoNode /\ bestScore[p] = 0
    /\ pc[p] \in QueryNames =>
          /\ ToSet(todo[p]) \subseteq ToSet(cands[p])
          /\ best[p] \in ToSet(cands[p]) \/ (best[p] = NoNode /\ bestScore[p] = 0)
    /\ pc[p] = "get" =>
          best[p] \in ToSet(cands[p]) \/ (best[p] = NoNode /\ cands[p] = <<>>)

LEMMA ChosenInit == ASSUME Init, NEW p \in Procs PROVE Chosen(p)
BY DEF Init, Chosen, QueryNames

\* After a comparison there is a best node, for no score is below 0.
LEMMA CompareChooses ==
    ASSUME SelectInv, NEW p \in Procs, Chosen(p), Compare(p)
    PROVE  best'[p] \in ToSet(cands[p]) /\ cands'[p] = cands[p]
           /\ ToSet(Tail(todo[p])) \subseteq ToSet(cands[p])
<1>1. pc[p] = "lastSpeed" /\ pc[p] \in QueryNames
  BY PcTypes DEF Compare
<1>2. todo[p] # <<>> /\ todo[p] \in Seq(Nodes)
  BY <1>1 DEF SelectInv, Types, Position
<1>3. Head(todo[p]) \in ToSet(cands[p]) /\ ToSet(Tail(todo[p])) \subseteq ToSet(cands[p])
  BY <1>1, <1>2, HeadAndTail DEF Chosen
<1>4. PICK score \in Nat :
          IF score >= bestScore[p]
          THEN best' = [best EXCEPT ![p] = Head(todo[p])]
          ELSE UNCHANGED <<best, bestScore>>
  BY CompareTakes, Zenon
<1>5. best'[p] \in ToSet(cands[p])
  <2>1. CASE score >= bestScore[p]
    BY <1>3, <1>4, <2>1 DEF SelectInv, Types
  <2>2. CASE ~ (score >= bestScore[p])
    <3>1. bestScore[p] # 0
      BY <2>2
    <3> QED
      BY <1>1, <1>4, <2>2, <3>1 DEF Chosen
  <2> QED
    BY <2>1, <2>2
<1> QED
  BY <1>3, <1>5 DEF Compare

LEMMA ChosenStep ==
    ASSUME SelectInv, [Next]_vars, NEW p \in Procs, Chosen(p)
    PROVE  Chosen(p)'
<1>0. Types
  BY DEF SelectInv
<1>1. CASE Alone(p)
  BY <1>1 DEF Alone, Chosen
<1>2. CASE Select(p)
  <2> USE <1>0, <1>2 DEF Select, Types
  <2>1. cands'[p] = list /\ todo'[p] = list /\ bestScore'[p] = bestScore[p]
    OBVIOUS
  <2>2. best[p] = NoNode /\ bestScore[p] = 0
    BY DEF Chosen
  <2>3. CASE list # <<>> /\ db
    <3>1. pc'[p] \in QueryNames /\ pc'[p] \notin {"idle", "get"} /\ best'[p] = NoNode
      BY <2>2, <2>3, PcTypes
    <3> QED
      BY <2>1, <2>2, <3>1 DEF Chosen
  <2>4. CASE list = <<>>
    <3>1. pc'[p] = "get" /\ best'[p] = NoNode
      BY <2>4
    <3> QED
      BY <2>1, <2>4, <3>1, PcTypes DEF Chosen
  <2>5. CASE list # <<>> /\ ~db
    <3>1. pc'[p] = "get" /\ best'[p] = Head(list)
      BY <2>5
    <3>2. Head(list) \in ToSet(list)
      BY <2>5, HeadAndTail, SelectionAssumption
    <3> QED
      BY <2>1, <3>1, <3>2, PcTypes DEF Chosen
  <2> QED
    BY <2>3, <2>4, <2>5
<1>3. CASE Query(p)
  <2>1. PICK i \in 1 .. 5 :
            /\ pc[p] = Queries[i] /\ pc' = [pc EXCEPT ![p] = Queries[i + 1]]
            /\ UNCHANGED <<cands, todo, best, bestScore>>
    BY <1>3, Zenon DEF Query
  <2>2. i \in 1 .. 6 /\ i + 1 \in 1 .. 6
    OBVIOUS
  <2>3. pc[p] \in QueryNames /\ pc'[p] \in QueryNames
    BY <1>0, <2>1, <2>2, PcTypes DEF Types
  <2> QED
    BY <2>1, <2>3, PcTypes DEF Chosen
<1>4. CASE Compare(p)
  <2>1. /\ pc'[p] = "get" \/ pc'[p] \in QueryNames
        /\ todo'[p] = Tail(todo[p])
    BY <1>0, <1>4, PcTypes DEF Compare, Types
  <2> QED
    BY <1>4, <2>1, CompareChooses, PcTypes DEF Chosen
<1>5. CASE Download(p) \/ HeadBlob(p) \/ NoDownload(p)
  <2>1. pc'[p] = "idle" /\ best'[p] = NoNode /\ bestScore'[p] = 0
    BY <1>0, <1>5 DEF Download, HeadBlob, NoDownload, Finish, Types
  <2> QED
    BY <2>1, PcTypes DEF Chosen
<1> QED
  BY <1>0, <1>1, <1>2, <1>3, <1>4, <1>5, OwnStepOrAlone DEF Request

Choice == SelectInv /\ \A p \in Procs : Chosen(p)

LEMMA ChoiceInvariant == Spec => []Choice
<1>1. Init => Choice
  BY SelectInit, ChosenInit DEF Choice
<1>2. Choice /\ [Next]_vars => Choice'
  <2>1. SelectInv /\ [Next]_vars => SelectInv'
    BY SelectStep
  <2>2. Choice /\ [Next]_vars => \A p \in Procs : Chosen(p)'
    BY ChosenStep DEF Choice
  <2> QED
    BY <2>1, <2>2 DEF Choice
<1> QED
  BY <1>1, <1>2, PTL DEF Spec

\* SelectBest returns nil only when no enabled node serves the registry, with
\* any number of nodes of which all may have failed, and of failing queries.
THEOREM NodeIsTried == Spec => []SomeNodeIsTried
<1>1. Choice => SomeNodeIsTried
  BY DEF Choice, Chosen, SomeNodeIsTried
<1> QED
  BY <1>1, ChoiceInvariant, PTL

-----------------------------------------------------------------------------
(* The best choice.  As long as nothing was written, no day has passed and  *)
(* no query failed, what was read is what would be read now, and every      *)
(* candidate that has been scored scores what the best does, or less.       *)

Answers(n) == [q \in DOMAIN Nothing |-> Answer(metrics[n], q, day)]

ReadSoFar(p) ==
    \A i, j \in 1 .. 6 : pc[p] = Queries[i] =>
        read[p][Queries[j]] =
            IF j < i THEN Answer(metrics[Head(todo[p])], Queries[j], day) ELSE 0

BestSoFar(p) ==
    /\ \A n \in ToSet(cands[p]) : n \in ToSet(todo[p]) \/ ScoreNow(n) <= bestScore[p]
    /\ best[p] # NoNode => bestScore[p] = ScoreNow(best[p])

Undisturbed(p) ==
    quiet[p] /\ db =>
        /\ pc[p] \in QueryNames => now[p] = day /\ ReadSoFar(p) /\ BestSoFar(p)
        /\ pc[p] = "get" => BestSoFar(p) /\ todo[p] = <<>>

LEMMA ScoresStay ==
    ASSUME metrics' = metrics, day' = day
    PROVE  \A n : ScoreNow(n)' = ScoreNow(n) /\ Answers(n)' = Answers(n)
BY DEF ScoreNow, Answers

LEMMA ScoreNowType ==
    ASSUME SelectInv, NEW n \in Nodes
    PROVE  ScoreNow(n) \in Nat
<1>1. Answers(n) \in [QueryNames -> Nat]
  BY QueryOrder, AnswerType DEF SelectInv, Types, Answers
<1> QED
  BY <1>1, ScoreOfType DEF ScoreNow, Answers

LEMMA UndisturbedInit == ASSUME Init, NEW p \in Procs PROVE Undisturbed(p)
BY PcTypes DEF Init, Undisturbed

LEMMA AloneUndisturbed ==
    ASSUME NEW p \in Procs, Undisturbed(p), Alone(p)
    PROVE  Undisturbed(p)'
<1> SUFFICES ASSUME quiet'[p], db' PROVE Undisturbed(p)'
  BY DEF Undisturbed
<1>1. metrics' = metrics /\ day' = day /\ quiet[p] /\ db
  BY DEF Alone
<1>2. BestSoFar(p) => BestSoFar(p)'
  BY <1>1, ScoresStay DEF Alone, BestSoFar
<1>3. ReadSoFar(p) => ReadSoFar(p)'
  BY <1>1, Zenon DEF Alone, ReadSoFar
<1> QED
  BY <1>1, <1>2, <1>3 DEF Alone, Undisturbed

\* The six queries have read what makes up the candidate's score now.
LEMMA ScoreIsNow ==
    ASSUME SelectInv, NEW p \in Procs, pc[p] = "lastSpeed", ReadSoFar(p), NEW v,
           v = Answer(metrics[Head(todo[p])], "lastSpeed", day)
    PROVE  ScoreWith(p, v) = ScoreNow(Head(todo[p]))
<1> DEFINE n == Head(todo[p])
           r == [read[p] EXCEPT !.lastSpeed = v]
<1>1. read[p] \in [QueryNames -> Nat]
  BY DEF SelectInv, Types
<1>2. Queries[6] = "lastSpeed" /\ 6 \in 1 .. 6
  BY QueryOrder
<1>3. ASSUME NEW q \in QueryNames PROVE r[q] = Answer(metrics[n], q, day)
  <2>1. PICK j \in 1 .. 6 : q = Queries[j]
    BY QueryOrder
  <2>2. CASE j = 6
    BY <1>1, <1>2, <2>1, <2>2, PcTypes
  <2>3. CASE j # 6
    <3>1. j < 6 /\ q # "lastSpeed"
      BY <1>2, <2>1, <2>3, QueryOrder
    <3>2. read[p][q] = Answer(metrics[n], q, day)
      BY <1>2, <2>1, <3>1 DEF ReadSoFar
    <3>3. r[q] = read[p][q]
      BY <1>1, <3>1
    <3> QED
      BY <3>2, <3>3
  <2> QED
    BY <2>2, <2>3
<1>4. r = [q \in QueryNames |-> r[q]]
  BY <1>1
<1>5. r = Answers(n)
  BY <1>3, <1>4, QueryOrder DEF Answers
<1> QED
  BY <1>5, Zenon DEF ScoreWith, ScoreNow, Answers

\* The first query of a candidate finds nothing read.
LEMMA NothingRead ==
    ASSUME NEW p \in Procs, pc'[p] = Queries[1], read'[p] = Nothing
    PROVE  ReadSoFar(p)'
<1> SUFFICES ASSUME NEW i \in 1 .. 6, NEW j \in 1 .. 6, pc'[p] = Queries[i]
             PROVE  read'[p][Queries[j]] = 0 /\ ~(j < i)
  BY DEF ReadSoFar
<1>1. i = 1
  <2>1. 1 \in 1 .. 6
    OBVIOUS
  <2> QED
    BY <2>1, QueryOrder
<1>2. Queries[j] \in QueryNames
  BY PcTypes
<1>3. \A q \in QueryNames : Nothing[q] = 0
  BY DEF Nothing, QueryNames
<1> QED
  BY <1>1, <1>2, <1>3

LEMMA SelectUndisturbed ==
    ASSUME SelectInv, NEW p \in Procs, Chosen(p), Select(p)
    PROVE  Undisturbed(p)'
<1> SUFFICES ASSUME db' PROVE Undisturbed(p)'
  BY DEF Undisturbed
<1> USE DEF Select, SelectInv, Types, rows
<1>1. cands'[p] = list /\ todo'[p] = list /\ now'[p] = day' /\ db
  OBVIOUS
<1>2. best[p] = NoNode /\ bestScore[p] = 0 /\ read[p] = Nothing /\ read' = read
  BY DEF Chosen, Position
<1>3. CASE list # <<>>
  <2>1. pc'[p] = Queries[1] /\ best'[p] = NoNode
    BY <1>1, <1>2, <1>3
  <2>2. BestSoFar(p)'
    BY <1>1, <2>1 DEF BestSoFar
  <2>3. ReadSoFar(p)'
    BY <1>2, <2>1, NothingRead
  <2>4. pc'[p] # "get"
    BY <2>1, PcTypes
  <2> QED
    BY <1>1, <2>2, <2>3, <2>4 DEF Undisturbed
<1>4. CASE list = <<>>
  <2>1. pc'[p] = "get" /\ best'[p] = NoNode
    BY <1>4
  <2>2. BestSoFar(p)'
    BY <1>1, <1>4, <2>1, NothingIsLeft DEF BestSoFar
  <2> QED
    BY <1>1, <1>4, <2>1, <2>2, PcTypes DEF Undisturbed
<1> QED
  BY <1>3, <1>4

LEMMA QueryUndisturbed ==
    ASSUME SelectInv, NEW p \in Procs, Undisturbed(p), Query(p)
    PROVE  Undisturbed(p)'
<1> SUFFICES ASSUME quiet'[p], db' PROVE Undisturbed(p)'
  BY DEF Undisturbed
<1>1. PICK i \in 1 .. 5 :
          /\ pc[p] = Queries[i]
          /\ \/ /\ read' = [read EXCEPT ![p][Queries[i]] =
                              Answer(metrics[Head(todo[p])], Queries[i], now[p])]
                /\ UNCHANGED <<quiet, faults>>
             \/ QueryFails(p) /\ UNCHANGED read
          /\ pc' = [pc EXCEPT ![p] = Queries[i + 1]]
          /\ UNCHANGED <<list, rows, day, reloads, cands, todo, now, best, bestScore>>
  BY Zenon DEF Query
<1>2. i \in 1 .. 6 /\ i + 1 \in 1 .. 6
  OBVIOUS
<1>3. Queries[i] \in QueryNames /\ Queries[i + 1] \in QueryNames /\ pc'[p] = Queries[i + 1]
  BY <1>1, <1>2, PcTypes DEF SelectInv, Types
<1>4. ~ QueryFails(p)
  BY DEF QueryFails, SelectInv, Types
<1>5. quiet[p] /\ db /\ metrics' = metrics /\ day' = day
  BY <1>1, <1>4 DEF rows
<1>6. now[p] = day /\ ReadSoFar(p) /\ BestSoFar(p)
  BY <1>1, <1>3, <1>5 DEF Undisturbed
<1>7. BestSoFar(p)'
  <2>1. cands' = cands /\ todo' = todo /\ best' = best /\ bestScore' = bestScore
    BY <1>1
  <2> QED
    BY <1>5, <1>6, <2>1, ScoresStay DEF BestSoFar
<1>8. ReadSoFar(p)'
  <2> SUFFICES ASSUME NEW k \in 1 .. 6, NEW j \in 1 .. 6, pc'[p] = Queries[k]
               PROVE  read'[p][Queries[j]] =
                        IF j < k THEN Answer(metrics[Head(todo[p])], Queries[j], day) ELSE 0
    BY <1>1, <1>5, Zenon DEF ReadSoFar
  <2>1. k = i + 1
    BY <1>2, <1>3, QueryOrder
  <2>2. Queries[j] \in QueryNames /\ (j # i => Queries[j] # Queries[i])
    BY <1>2, PcTypes, QueryOrder
  <2>3. read' = [read EXCEPT ![p][Queries[i]] =
                    Answer(metrics[Head(todo[p])], Queries[i], day)]
    BY <1>1, <1>4, <1>6
  <2>4. read[p][Queries[j]] =
            IF j < i THEN Answer(metrics[Head(todo[p])], Queries[j], day) ELSE 0
    BY <1>1, <1>2, <1>6 DEF ReadSoFar
  <2>5. read \in [Procs -> [QueryNames -> Nat]]
    BY DEF SelectInv, Types
  <2>6. CASE j = i
    <3>1. read'[p][Queries[i]] = Answer(metrics[Head(todo[p])], Queries[i], day)
      BY <1>3, <2>3, <2>5
    <3> QED
      BY <2>1, <2>6, <3>1
  <2>7. CASE j # i
    <3>1. read'[p][Queries[j]] = read[p][Queries[j]]
      BY <1>3, <2>2, <2>3, <2>5, <2>7
    <3>2. j < k <=> j < i
      BY <2>1, <2>7
    <3> QED
      BY <2>4, <3>1, <3>2
  <2> QED
    BY <2>6, <2>7
<1>9. now'[p] = day' /\ pc'[p] # "get"
  BY <1>1, <1>3, <1>5, <1>6, PcTypes
<1> QED
  BY <1>7, <1>8, <1>9 DEF Undisturbed

LEMMA CompareUndisturbed ==
    ASSUME SelectInv, NEW p \in Procs, Undisturbed(p), Compare(p)
    PROVE  Undisturbed(p)'
<1> SUFFICES ASSUME quiet'[p], db' PROVE Undisturbed(p)'
  BY DEF Undisturbed
<1> DEFINE n == Head(todo[p])
<1>1. PICK v \in Nat :
         /\ \/ /\ v = Answer(metrics[n], "lastSpeed", now[p])
               /\ UNCHANGED <<quiet, faults>>
            \/ QueryFails(p)
         /\ IF ScoreWith(p, v) >= bestScore[p]
            THEN /\ best' = [best EXCEPT ![p] = n]
                 /\ bestScore' = [bestScore EXCEPT ![p] = ScoreWith(p, v)]
            ELSE UNCHANGED <<best, bestScore>>
  BY CompareTakes, Zenon
<1>2. ~ QueryFails(p)
  BY DEF QueryFails, SelectInv, Types
<1>3. /\ quiet[p] /\ db /\ metrics' = metrics /\ day' = day
      /\ v = Answer(metrics[n], "lastSpeed", now[p])
  BY <1>1, <1>2 DEF Compare, rows
<1>4. pc[p] = "lastSpeed" /\ pc[p] \in QueryNames
  BY PcTypes DEF Compare
<1>5. now[p] = day /\ ReadSoFar(p) /\ BestSoFar(p)
  BY <1>3, <1>4 DEF Undisturbed
<1>6. ScoreWith(p, v) = ScoreNow(n)
  BY <1>3, <1>4, <1>5, ScoreIsNow
<1>7. todo[p] # <<>> /\ todo[p] \in Seq(Nodes) /\ cands[p] \in Seq(Nodes)
  BY <1>4 DEF SelectInv, Types, Position
<1>8. n \in Nodes /\ ToSet(todo[p]) = ToSet(Tail(todo[p])) \cup {n}
  BY <1>7, HeadAndTail
<1>9. /\ bestScore[p] \in Nat /\ ScoreNow(n) \in Nat
      /\ \A m \in ToSet(cands[p]) : ScoreNow(m) \in Nat
  <2>1. ToSet(cands[p]) \subseteq Nodes
    BY <1>7 DEF ToSet
  <2> QED
    BY <1>8, <2>1, ScoreNowType DEF SelectInv, Types
<1>10. cands'[p] = cands[p] /\ todo'[p] = Tail(todo[p]) /\ now'[p] = day /\ read'[p] = Nothing
  BY DEF Compare, SelectInv, Types
<1> HIDE DEF n
<1>11. BestSoFar(p)'
  <2> SUFFICES /\ \A m \in ToSet(cands[p]) :
                     m \in ToSet(Tail(todo[p])) \/ ScoreNow(m) <= bestScore'[p]
               /\ best'[p] # NoNode => bestScore'[p] = ScoreNow(best'[p])
    BY <1>3, <1>10, ScoresStay DEF BestSoFar
  <2>1. CASE ScoreNow(n) >= bestScore[p]
    <3>1. best'[p] = n /\ bestScore'[p] = ScoreNow(n)
      BY <1>1, <1>6, <2>1 DEF SelectInv, Types
    <3> QED
      BY <1>5, <1>8, <1>9, <2>1, <3>1 DEF BestSoFar
  <2>2. CASE ~ (ScoreNow(n) >= bestScore[p])
    <3>1. best'[p] = best[p] /\ bestScore'[p] = bestScore[p]
      BY <1>1, <1>6, <2>2
    <3> QED
      BY <1>5, <1>8, <1>9, <2>2, <3>1 DEF BestSoFar
  <2> QED
    BY <2>1, <2>2
<1>12. CASE Tail(todo[p]) = <<>>
  <2>1. pc'[p] = "get"
    BY <1>12 DEF Compare, SelectInv, Types
  <2> QED
    BY <1>10, <1>11, <1>12, <2>1, PcTypes DEF Undisturbed
<1>13. CASE Tail(todo[p]) # <<>>
  <2>1. pc'[p] = Queries[1]
    BY <1>13 DEF Compare, SelectInv, Types
  <2>2. ReadSoFar(p)'
    BY <1>10, <2>1, NothingRead
  <2>3. now'[p] = day' /\ pc'[p] # "get"
    BY <1>3, <1>10, <2>1, PcTypes
  <2> QED
    BY <1>11, <2>2, <2>3 DEF Undisturbed
<1> QED
  BY <1>12, <1>13

LEMMA UndisturbedStep ==
    ASSUME Choice, [Next]_vars, NEW p \in Procs, Undisturbed(p)
    PROVE  Undisturbed(p)'
<1>1. SelectInv /\ Chosen(p) /\ Types
  BY DEF Choice, SelectInv
<1>2. CASE Download(p) \/ HeadBlob(p) \/ NoDownload(p)
  <2>1. pc'[p] = "idle"
    BY <1>1, <1>2 DEF Download, HeadBlob, NoDownload, Finish, Types
  <2> QED
    BY <2>1, PcTypes DEF Undisturbed
<1> QED
  BY <1>1, <1>2, OwnStepOrAlone, AloneUndisturbed, SelectUndisturbed, QueryUndisturbed,
     CompareUndisturbed DEF Request

\* The six queries per candidate run at different moments; when nothing is
\* written between the first and the last, the node that SelectBest returns
\* has the highest score of all candidates, however many there are.
THEOREM QuietChoiceIsBest == Spec => []QuietSelectionIsBest
<1> DEFINE Inv == Choice /\ \A p \in Procs : Undisturbed(p)
<1>1. Init => Inv
  BY SelectInit, ChosenInit, UndisturbedInit DEF Choice
<1>2. Choice /\ Choice' /\ Inv /\ [Next]_vars => Inv'
  BY UndisturbedStep
<1>3. Inv => QuietSelectionIsBest
  <2> SUFFICES ASSUME Inv, NEW p \in Procs, pc[p] = "get", quiet[p], db,
                      NEW n \in ToSet(cands[p])
               PROVE  ScoreNow(n) <= ScoreNow(best[p])
    BY DEF QuietSelectionIsBest
  <2>1. BestSoFar(p) /\ todo[p] = <<>>
    BY DEF Undisturbed
  <2>2. best[p] \in ToSet(cands[p]) /\ cands[p] \in Seq(Nodes)
    BY NothingIsLeft DEF Choice, Chosen, SelectInv, Types
  <2>3. best[p] # NoNode
    BY <2>2, SelectionAssumption DEF ToSet
  <2> QED
    BY <2>1, <2>3, NothingIsLeft DEF BestSoFar
<1> QED
  BY <1>1, <1>2, <1>3, ChoiceInvariant, PTL DEF Spec

-----------------------------------------------------------------------------
(* The score: what it may be, and that no node loses by getting better.     *)

FieldsOf(r) ==
    Figures(r.latency, r.speed, r.total, r.successes, r.lastLatency, r.lastSpeed)

LEMMA WorkingScoreFits ==
    ASSUME NEW score, NEW lastLatency, NEW lastSpeed,
           IF lastLatency = 0 /\ lastSpeed = 0 THEN score = 0 ELSE IsWorkingScore(score)
    PROVE  ScoreFits(score, lastLatency)
<1>1. CASE lastLatency = 0 /\ lastSpeed = 0
  BY <1>1 DEF ScoreFits
<1>2. CASE ~ (lastLatency = 0 /\ lastSpeed = 0)
  <2>1. IsWorkingScore(score)
    BY <1>2
  <2> QED
    BY <2>1 DEF IsWorkingScore, ScoreFits
<1> QED
  BY <1>1, <1>2

\* ScoreRange for the records of NodeSelection.
LEMMA ScoreOfRange ==
    ASSUME NEW r, FieldsOf(r), r.successes <= r.total
    PROVE  ScoreFits(ScoreOf(r), r.lastLatency)
<1>1. IF r.lastLatency = 0 /\ r.lastSpeed = 0 THEN ScoreOf(r) = 0
      ELSE IsWorkingScore(ScoreOf(r))
  BY ScoreRange, Zenon DEF FieldsOf, Figures, ScoreOf
<1> QED
  BY <1>1, WorkingScoreFits, Zenon

\* ScoreMonotone for the same records.
Improved(r, r2) ==
    NoWorse(r.latency, r.speed, r.total, r.successes, r.lastLatency, r.lastSpeed,
            r2.latency, r2.speed, r2.total, r2.successes, r2.lastLatency, r2.lastSpeed)

LEMMA ScoreOfMonotone ==
    ASSUME NEW r, NEW r2, FieldsOf(r), FieldsOf(r2), Improved(r, r2)
    PROVE  ScoreOf(r) <= ScoreOf(r2)
BY ScoreMonotone, Zenon DEF FieldsOf, Improved, ScoreOf

\* One success more, of as many events more, is a rate that is not below.
LEMMA OneMoreEvent ==
    ASSUME NEW total \in Nat, NEW succ \in Nat, succ <= total
    PROVE  Successes(total, succ) * Events(total + 1)
                <= Successes(total + 1, succ + 1) * Events(total)
<1>1. CASE total = 0
  BY <1>1 DEF Successes, Events
<1>2. CASE total # 0
  <2>1. /\ Successes(total, succ) = succ /\ Events(total) = total
        /\ Successes(total + 1, succ + 1) = succ + 1 /\ Events(total + 1) = total + 1
    BY <1>2 DEF Successes, Events
  <2>2. succ * (total + 1) = succ * total + succ /\ (succ + 1) * total = succ * total + total
    OBVIOUS
  <2>3. succ * total \in Nat
    OBVIOUS
  <2>4. succ * (total + 1) <= (succ + 1) * total
    BY <2>2, <2>3
  <2> QED
    BY <2>1, <2>4
<1> QED
  BY <1>1, <1>2

LEMMA SameEvents ==
    ASSUME NEW total \in Nat, NEW succ \in Nat
    PROVE  Successes(total, succ) * Events(total) <= Successes(total, succ) * Events(total)
<1>1. Successes(total, succ) \in Nat /\ Events(total) \in Nat
  BY DEF Successes, Events
<1> QED
  BY <1>1

\* The figures that the formula itself is tried with.
LEMMA GridFields ==
    ASSUME NEW g \in Grid
    PROVE  /\ FieldsOf(g) /\ g.successes <= g.total
           /\ g.lastLatency \in {0, 1} /\ g.lastSpeed = 0
<1>1. g \in [latency : Latencies, speed : Speeds, total : 0 .. MaxTotal,
             successes : 0 .. MaxTotal, lastLatency : {0, 1}, lastSpeed : {0}]
      /\ g.successes <= g.total
  BY DEF Grid
<1>2. Latencies \subseteq Nat /\ Speeds \subseteq Nat
  BY SelectionAssumption
<1>3. /\ g.latency \in Latencies /\ g.speed \in Speeds
      /\ g.total \in 0 .. MaxTotal /\ g.successes \in 0 .. MaxTotal
      /\ g.lastLatency \in {0, 1} /\ g.lastSpeed = 0
  BY <1>1
<1>4. g.total \in Nat /\ g.successes \in Nat /\ g.lastLatency \in Nat /\ g.lastSpeed \in Nat
  BY <1>3
<1> QED
  BY <1>1, <1>2, <1>3, <1>4 DEF FieldsOf, Figures

LEMMA GridIsInRange == GridInRange
<1>1. ASSUME NEW g \in Grid PROVE ScoreFits(ScoreOf(g), g.lastLatency)
  BY GridFields, ScoreOfRange, Zenon
<1> QED
  BY <1>1, Zenon DEF GridInRange

LEMMA GridIsMonotone == GridMonotone
<1> SUFFICES ASSUME NEW g \in Grid, NEW h \in Improvements(g)
             PROVE  ScoreOf(h) >= ScoreOf(g)
  BY DEF GridMonotone
<1>1. /\ FieldsOf(g) /\ g.successes <= g.total
      /\ g.lastLatency \in {0, 1} /\ g.lastSpeed = 0
  BY GridFields
<1>2. FieldsOf(h) /\ Improved(g, h)
  <2>1. CASE \E v \in Latencies : 0 < v /\ v < g.latency /\ h = [g EXCEPT !.latency = v]
    <3>1. PICK v \in Latencies : 0 < v /\ v < g.latency /\ h = [g EXCEPT !.latency = v]
      BY <2>1
    <3>2. /\ h.latency = v /\ h.speed = g.speed /\ h.total = g.total
          /\ h.successes = g.successes /\ h.lastLatency = g.lastLatency
          /\ h.lastSpeed = g.lastSpeed /\ v \in Nat
      BY <3>1, SelectionAssumption DEF Grid
    <3> QED
      BY <1>1, <3>1, <3>2, SameEvents DEF FieldsOf, Figures, Improved, NoWorse, NotFurther
  <2>2. CASE \E v \in Speeds : v > g.speed /\ h = [g EXCEPT !.speed = v]
    <3>1. PICK v \in Speeds : v > g.speed /\ h = [g EXCEPT !.speed = v]
      BY <2>2
    <3>2. /\ h.latency = g.latency /\ h.speed = v /\ h.total = g.total
          /\ h.successes = g.successes /\ h.lastLatency = g.lastLatency
          /\ h.lastSpeed = g.lastSpeed /\ v \in Nat
      BY <3>1, SelectionAssumption DEF Grid
    <3> QED
      BY <1>1, <3>1, <3>2, SameEvents DEF FieldsOf, Figures, Improved, NoWorse, NotFurther
  <2>3. CASE h = [g EXCEPT !.total = @ + 1, !.successes = @ + 1]
    <3>1. /\ h.latency = g.latency /\ h.speed = g.speed /\ h.total = g.total + 1
          /\ h.successes = g.successes + 1 /\ h.lastLatency = g.lastLatency
          /\ h.lastSpeed = g.lastSpeed
      BY <2>3 DEF Grid
    <3> QED
      BY <1>1, <3>1, OneMoreEvent DEF FieldsOf, Figures, Improved, NoWorse, NotFurther
  <2>4. CASE h = [g EXCEPT !.lastLatency = 1]
    <3>1. /\ h.latency = g.latency /\ h.speed = g.speed /\ h.total = g.total
          /\ h.successes = g.successes /\ h.lastLatency = 1 /\ h.lastSpeed = g.lastSpeed
      BY <2>4 DEF Grid
    <3> QED
      BY <1>1, <3>1, SameEvents DEF FieldsOf, Figures, Improved, NoWorse, NotFurther
  <2> QED
    BY <2>1, <2>2, <2>3, <2>4 DEF Improvements
<1>3. ScoreOf(g) <= ScoreOf(h) /\ ScoreOf(g) \in Nat /\ ScoreOf(h) \in Nat
  <2>1. ScoreOf(g) \in Nat /\ ScoreOf(h) \in Nat
    BY <1>1, <1>2, ScoreIsNatural, Zenon DEF FieldsOf, ScoreOf
  <2> QED
    BY <1>1, <1>2, <2>1, ScoreOfMonotone
<1> QED
  BY <1>3

-----------------------------------------------------------------------------
(* The same for the rows a node has, and those of one more outcome.         *)

Figured(s) == [q \in DOMAIN Nothing |-> Answer(s, q, day)]

Happened(s)  == Window(s, "success", day, 7)
Succeeded(s) == {i \in Happened(s) : s[i].value = 1}

LEMMA FiguredIs ==
    ASSUME NEW s
    PROVE  /\ Figured(s).latency = Average(s, Window(s, "latency", day, 1))
           /\ Figured(s).speed = Average(s, Window(s, "speed", day, 2))
           /\ Figured(s).total = Cardinality(Happened(s))
           /\ Figured(s).successes = Cardinality(Succeeded(s))
           /\ Figured(s).lastLatency = Latest(s, "latency")
           /\ Figured(s).lastSpeed = Latest(s, "speed")
<1>1. \A q \in QueryNames : Figured(s)[q] = Answer(s, q, day)
  BY QueryOrder DEF Figured
<1>2. /\ "latency" \in QueryNames /\ "speed" \in QueryNames /\ "total" \in QueryNames
      /\ "successes" \in QueryNames /\ "lastLatency" \in QueryNames /\ "lastSpeed" \in QueryNames
  BY DEF QueryNames
<1> QED
  BY <1>1, <1>2 DEF Answer, Happened, Succeeded

\* Asked without a break, the two counts agree.
LEMMA FiguredFields ==
    ASSUME NEW s \in Seq(AllRows)
    PROVE  FieldsOf(Figured(s)) /\ Figured(s).successes <= Figured(s).total
<1>1. Figured(s) \in [QueryNames -> Nat]
  BY QueryOrder, AnswerType DEF Figured
<1>2. FieldsOf(Figured(s))
  BY <1>1 DEF FieldsOf, Figures, QueryNames
<1>3. Happened(s) \in SUBSET DOMAIN s /\ Succeeded(s) \in SUBSET Happened(s)
  BY DEF Happened, Succeeded, Window
<1>4. Cardinality(Succeeded(s)) <= Cardinality(Happened(s))
  BY <1>3, WindowFinite, FS_Subset
<1> QED
  BY <1>2, <1>4, FiguredIs

\* db.go on ScoreSnapshot.Score: from 0 to 10000, and at least 1500 when the
\* last answer took some time, with any rows whatever.
THEOREM ScoresAreInRange == Spec => []ScoreInRange
<1>1. ASSUME Types, NEW n \in Nodes PROVE ScoreFits(ScoreNow(n), Latest(metrics[n], "latency"))
  <2>1. metrics[n] \in Seq(AllRows)
    BY <1>1 DEF Types
  <2>2. PICK r : r = Figured(metrics[n])
    OBVIOUS
  <2>3. FieldsOf(r) /\ r.successes <= r.total /\ r.lastLatency = Latest(metrics[n], "latency")
    <3>1. r.lastLatency = Latest(metrics[n], "latency")
      BY <2>2, FiguredIs, Zenon
    <3>2. FieldsOf(r) /\ r.successes <= r.total
      BY <2>1, <2>2, FiguredFields, Zenon
    <3> QED
      BY <3>1, <3>2
  <2>4. ScoreNow(n) = ScoreOf(r)
    BY <2>2, Zenon DEF ScoreNow, Figured
  <2> QED
    BY <2>3, <2>4, ScoreOfRange, Zenon
<1>2. SelectInv => ScoreInRange
  BY <1>1, GridIsInRange, Zenon DEF ScoreInRange, SelectInv
<1> QED
  BY <1>2, SelectInit, SelectStep, PTL DEF Spec

\* Rows that differ in nothing but their values, which are no worse.
RowAsGood(r2, r) ==
    /\ r2.type = r.type /\ r2.day = r.day
    /\ r.type = "latency" => NotFurther(r.value, r2.value)
    /\ r.type = "speed" => r2.value = r.value \/ (0 < r.value /\ r.value <= r2.value)
    /\ r.type = "success" => (r.value = 1 => r2.value = 1)

RowsAsGood(u, t) == DOMAIN u = DOMAIN t /\ \A i \in DOMAIN t : RowAsGood(u[i], t[i])

\* Of two averages over the same rows, that of the greater values is greater, if
\* a value is known in both or in neither.
LEMMA AverageInOrder ==
    ASSUME NEW t \in Seq(AllRows), NEW u \in Seq(AllRows), DOMAIN u = DOMAIN t,
           NEW S \in SUBSET DOMAIN t,
           \A i \in S : t[i].value = u[i].value \/ (0 < t[i].value /\ t[i].value <= u[i].value)
    PROVE  /\ Average(t, S) \in Nat /\ Average(u, S) \in Nat
           /\ Average(t, S) <= Average(u, S)
           /\ Average(u, S) # Average(t, S) => 0 < Average(t, S)
<1> DEFINE known == {i \in S : t[i].value > 0}
           f == [i \in DOMAIN t |-> t[i].value]
           g == [i \in DOMAIN u |-> u[i].value]
<1>1. \A i \in DOMAIN t : t[i] \in AllRows /\ u[i] \in AllRows
  OBVIOUS
<1>2. \A i \in DOMAIN t : t[i].value \in Nat /\ u[i].value \in Nat
  BY <1>1 DEF AllRows
<1>3. known = {i \in S : u[i].value > 0}
  <2>1. \A i \in S : t[i].value > 0 <=> u[i].value > 0
    BY <1>2
  <2> QED
    BY <2>1
<1>4. Average(t, S) = IF known = {} THEN 0 ELSE SumFunctionOnSet(f, known) \div Cardinality(known)
  BY DEF Average
<1>5. Average(u, S) = IF known = {} THEN 0 ELSE SumFunctionOnSet(g, known) \div Cardinality(known)
  BY <1>3, Zenon DEF Average
<1>6. /\ known \in SUBSET DOMAIN t /\ NatOn(f, known) /\ NatOn(g, known)
      /\ \A i \in known : f[i] > 0 /\ f[i] <= g[i]
  <2>1. \A i \in known : i \in DOMAIN t /\ f[i] = t[i].value /\ g[i] = u[i].value /\ f[i] > 0
    OBVIOUS
  <2>2. \A i \in known : f[i] \in Nat /\ g[i] \in Nat
    BY <1>2, <2>1
  <2>3. \A i \in known : f[i] <= g[i]
    <3> SUFFICES ASSUME NEW i \in known PROVE f[i] <= g[i]
      OBVIOUS
    <3>1. i \in S /\ i \in DOMAIN t
      OBVIOUS
    <3>2. t[i].value <= u[i].value
      BY <1>2, <3>1
    <3> QED
      BY <2>1, <3>2, Zenon
  <2> HIDE DEF f, g
  <2> QED
    BY <2>1, <2>2, <2>3 DEF NatOn
<1> HIDE DEF known, f, g
<1>7. IsFiniteSet(known) /\ Cardinality(known) \in Nat /\ (known # {} => Cardinality(known) > 0)
  BY <1>6, WindowFinite
<1> DEFINE a == SumFunctionOnSet(f, known)
           b == SumFunctionOnSet(g, known)
           n == Cardinality(known)
<1>8. a \in Nat /\ b \in Nat /\ a <= b /\ n <= a
  BY <1>6, <1>7, SumType, SumInOrder, SumAtLeast
<1>9. CASE known = {}
  BY <1>4, <1>5, <1>9
<1>10. CASE known # {}
  <2>1. n \in Nat /\ n > 0
    BY <1>7, <1>10
  <2>2. Average(t, S) = a \div n /\ Average(u, S) = b \div n
    BY <1>4, <1>5, <1>10
  <2> HIDE DEF a, b, n
  <2>3. a * n <= b * n
    BY <1>8, <2>1
  <2>4. a \div n <= b \div n
    BY <1>8, <2>1, <2>3, QuotientsInOrder
  <2>5. a \div n \in Nat /\ b \div n \in Nat /\ 0 < a \div n
    BY <1>8, <2>1, Z3
  <2> QED
    BY <2>2, <2>4, <2>5
<1> QED
  BY <1>9, <1>10

\* The latest row of a type is at the same place in both.
LEMMA LatestTogether ==
    ASSUME NEW t \in Seq(AllRows), NEW u \in Seq(AllRows), RowsAsGood(u, t), NEW type
    PROVE  \/ Latest(t, type) = 0 /\ Latest(u, type) = 0
           \/ \E i \in DOMAIN t : /\ t[i].type = type
                                  /\ Latest(t, type) = t[i].value /\ Latest(u, type) = u[i].value
<1> DEFINE got == {i \in DOMAIN t : t[i].type = type}
<1>1. got = {i \in DOMAIN u : u[i].type = type}
  BY DEF RowsAsGood, RowAsGood
<1>2. Latest(t, type) = IF got = {} THEN 0 ELSE t[Max(got)].value
  BY DEF Latest
<1>3. Latest(u, type) = IF got = {} THEN 0 ELSE u[Max(got)].value
  BY <1>1, Zenon DEF Latest
<1>4. got # {} => Max(got) \in got
  <2>1. Len(t) \in Nat /\ got \in SUBSET (1 .. Len(t))
    OBVIOUS
  <2> HIDE DEF got
  <2> QED
    BY <2>1, Sums!GreatestNumber DEF Max
<1>5. \A i \in got : i \in DOMAIN t /\ t[i].type = type
  OBVIOUS
<1> HIDE DEF got
<1> QED
  BY <1>2, <1>3, <1>4, <1>5

\* Better rows, better figures.
LEMMA FiguresInOrder ==
    ASSUME NEW t \in Seq(AllRows), NEW u \in Seq(AllRows), RowsAsGood(u, t)
    PROVE  Improved(Figured(t), Figured(u))
<1>1. /\ DOMAIN u = DOMAIN t
      /\ \A i \in DOMAIN t : /\ t[i] \in AllRows /\ u[i] \in AllRows
                              /\ RowAsGood(u[i], t[i])
  BY DEF RowsAsGood
<1>2. \A i \in DOMAIN t : /\ t[i].value \in Nat /\ u[i].value \in Nat
                          /\ u[i].type = t[i].type /\ u[i].day = t[i].day
  BY <1>1 DEF AllRows, RowAsGood
<1>3. \A type, days : Window(u, type, day, days) = Window(t, type, day, days)
  BY <1>1, <1>2 DEF Window
<1>4. NotFurther(Average(t, Window(t, "latency", day, 1)), Average(u, Window(u, "latency", day, 1)))
  <2> DEFINE S == Window(t, "latency", day, 1)
  <2>1. /\ S \in SUBSET DOMAIN u
        /\ \A i \in S : u[i].value = t[i].value \/ (0 < u[i].value /\ u[i].value <= t[i].value)
    BY <1>1 DEF Window, RowAsGood, NotFurther
  <2> HIDE DEF S
  <2>2. /\ Average(t, S) \in Nat /\ Average(u, S) \in Nat /\ Average(u, S) <= Average(t, S)
        /\ Average(t, S) # Average(u, S) => 0 < Average(u, S)
    BY <1>1, <2>1, AverageInOrder
  <2>3. NotFurther(Average(t, S), Average(u, S))
    BY <2>2 DEF NotFurther
  <2> QED
    BY <1>3, <2>3 DEF S
<1>5. Average(t, Window(t, "speed", day, 2)) <= Average(u, Window(u, "speed", day, 2))
  <2> DEFINE S == Window(t, "speed", day, 2)
  <2>1. /\ S \in SUBSET DOMAIN t
        /\ \A i \in S : t[i].value = u[i].value \/ (0 < t[i].value /\ t[i].value <= u[i].value)
    BY <1>1 DEF Window, RowAsGood
  <2> HIDE DEF S
  <2>2. Average(t, S) <= Average(u, S)
    BY <1>1, <2>1, AverageInOrder
  <2> QED
    BY <1>3, <2>2 DEF S
<1>6. Happened(u) = Happened(t)
  BY <1>3 DEF Happened
<1>7. /\ Cardinality(Succeeded(t)) \in Nat /\ Cardinality(Succeeded(u)) \in Nat
      /\ Cardinality(Happened(t)) \in Nat
      /\ Cardinality(Succeeded(t)) <= Cardinality(Succeeded(u))
  <2>1. /\ Happened(t) \in SUBSET DOMAIN t /\ \A i \in Happened(t) : t[i].type = "success"
    BY DEF Happened, Window
  <2>2. Succeeded(t) \in SUBSET Succeeded(u) /\ Succeeded(u) \in SUBSET DOMAIN u
    BY <1>1, <1>6, <2>1 DEF Succeeded, RowAsGood
  <2>3. Succeeded(t) \in SUBSET DOMAIN t
    BY <2>1 DEF Succeeded
  <2> QED
    BY <2>1, <2>2, <2>3, WindowFinite, FS_Subset
<1>8. /\ Latest(u, "latency") = 0 => Latest(t, "latency") = 0
      /\ Latest(u, "speed") = 0 => Latest(t, "speed") = 0
  <2>1. ASSUME NEW i \in DOMAIN t, t[i].type \in {"latency", "speed"}, u[i].value = 0
        PROVE  t[i].value = 0
    BY <1>1, <1>2, <2>1 DEF RowAsGood, NotFurther
  <2> QED
    BY <2>1, LatestTogether
<1>9. ASSUME NEW total \in Nat, NEW a \in Nat, NEW b \in Nat, a <= b
      PROVE  Successes(total, a) * Events(total) <= Successes(total, b) * Events(total)
  <2>1. PICK x : x = Successes(total, a)
    OBVIOUS
  <2>2. PICK y : y = Successes(total, b)
    OBVIOUS
  <2>3. PICK z : z = Events(total)
    OBVIOUS
  <2>4. x \in Nat /\ y \in Nat /\ z \in Nat /\ x <= y
    BY <1>9, <2>1, <2>2, <2>3 DEF Successes, Events
  <2>5. x * z <= y * z
    BY <2>4
  <2> QED
    BY <2>1, <2>2, <2>3, <2>5
<1>10. PICK r : r = Figured(t)
  OBVIOUS
<1>11. PICK r2 : r2 = Figured(u)
  OBVIOUS
<1>12. /\ NotFurther(r.latency, r2.latency) /\ r.speed <= r2.speed
       /\ r2.total = r.total /\ r.total \in Nat
       /\ r.successes \in Nat /\ r2.successes \in Nat /\ r.successes <= r2.successes
       /\ r2.lastLatency = 0 => r.lastLatency = 0
       /\ r2.lastSpeed = 0 => r.lastSpeed = 0
  BY <1>4, <1>5, <1>6, <1>7, <1>8, <1>10, <1>11, FiguredIs, Zenon
<1>13. Successes(r.total, r.successes) * Events(r2.total)
          <= Successes(r2.total, r2.successes) * Events(r.total)
  BY <1>9, <1>12
<1>14. Improved(r, r2)
  BY <1>12, <1>13, Zenon DEF Improved, NoWorse
<1> QED
  BY <1>10, <1>11, <1>14

\* An outcome as good as another gives rows as good as its.
LEMMA OutcomeRows ==
    ASSUME NEW s \in Seq(AllRows), day \in Nat, NEW o \in Results, NEW o2 \in Results, AsGood(o2, o)
    PROVE  /\ s \o Rows(o) \in Seq(AllRows) /\ s \o Rows(o2) \in Seq(AllRows)
           /\ RowsAsGood(s \o Rows(o2), s \o Rows(o))
<1>1. ASSUME NEW r \in Results
      PROVE  /\ Rows(r) \in Seq(AllRows) /\ Len(Rows(r)) = 3
             /\ Rows(r)[1] = Row("latency", r.latency) /\ Rows(r)[2] = Row("speed", r.speed)
             /\ Rows(r)[3] = Row("success", r.success)
  <2>1. r.latency \in Nat /\ r.speed \in Nat /\ r.success \in Nat
    BY DEF Results
  <2>2. Row("latency", r.latency) \in AllRows /\ Row("speed", r.speed) \in AllRows
        /\ Row("success", r.success) \in AllRows
    BY <2>1 DEF Row, AllRows, RowTypes
  <2> QED
    BY <2>2 DEF Rows
<1>2. ASSUME NEW r \in AllRows PROVE RowAsGood(r, r)
  <2>1. r.value \in Nat
    BY DEF AllRows
  <2> QED
    BY <2>1 DEF RowAsGood, NotFurther
<1>3. /\ o.latency \in Nat /\ o.speed \in Nat /\ o.success \in {0, 1}
      /\ o2.latency \in Nat /\ o2.speed \in Nat /\ o2.success \in {0, 1}
  BY DEF Results
<1>4. /\ RowAsGood(Row("latency", o2.latency), Row("latency", o.latency))
      /\ RowAsGood(Row("speed", o2.speed), Row("speed", o.speed))
      /\ RowAsGood(Row("success", o2.success), Row("success", o.success))
  BY <1>3 DEF Row, RowAsGood, NotFurther, AsGood
<1> DEFINE a == Rows(o)
           b == Rows(o2)
<1>5. /\ a \in Seq(AllRows) /\ b \in Seq(AllRows) /\ Len(a) = 3 /\ Len(b) = 3
      /\ RowAsGood(b[1], a[1]) /\ RowAsGood(b[2], a[2]) /\ RowAsGood(b[3], a[3])
  BY <1>1, <1>4, Zenon
<1> HIDE DEF a, b
<1>6. ASSUME NEW i \in DOMAIN (s \o a) PROVE RowAsGood((s \o b)[i], (s \o a)[i])
  <2>1. Len(s) \in Nat /\ DOMAIN (s \o a) = 1 .. (Len(s) + 3) /\ i \in 1 .. (Len(s) + 3)
    <3>0. \A x, y \in Seq(AllRows) : /\ x \o y \in Seq(AllRows) /\ Len(x) \in Nat
                                      /\ Len(x \o y) = Len(x) + Len(y)
      OBVIOUS
    <3>1. s \o a \in Seq(AllRows) /\ Len(s \o a) = Len(s) + Len(a) /\ Len(s) \in Nat
      BY <1>5, <3>0, Zenon
    <3>2. DOMAIN (s \o a) = 1 .. Len(s \o a)
      BY <3>1
    <3> QED
      BY <1>5, <1>6, <3>1, <3>2
  <2>2. CASE i <= Len(s)
    <3>1. (s \o b)[i] = s[i] /\ (s \o a)[i] = s[i] /\ s[i] \in AllRows
      BY <1>5, <2>1, <2>2
    <3> QED
      BY <1>2, <3>1
  <2>3. CASE i > Len(s)
    <3>1. (s \o b)[i] = b[i - Len(s)] /\ (s \o a)[i] = a[i - Len(s)]
      BY <1>5, <2>1, <2>3
    <3>2. i - Len(s) = 1 \/ i - Len(s) = 2 \/ i - Len(s) = 3
      BY <2>1, <2>3
    <3> QED
      BY <1>5, <3>1, <3>2
  <2>4. i <= Len(s) \/ i > Len(s)
    BY <2>1
  <2> QED
    BY <2>2, <2>3, <2>4, Zenon
<1>7. DOMAIN (s \o b) = DOMAIN (s \o a)
  BY <1>5
<1>8. s \o a \in Seq(AllRows) /\ s \o b \in Seq(AllRows)
  BY <1>5
<1> QED
  BY <1>6, <1>7, <1>8 DEF RowsAsGood, a, b

\* The formula never lowers the score of figures that get better; and whatever
\* rows a node has, the better of two outcomes never leaves the lower score.
THEOREM GettingBetterNeverLowers == Spec => []BetterNeverLowers
<1>1. Types => BetterNeverLowers
  <2> SUFFICES ASSUME Types, NEW n \in Nodes, NEW o \in Outcomes, NEW o2 \in Outcomes, AsGood(o2, o)
               PROVE  ScoreAfter(n, o) <= ScoreAfter(n, o2)
    BY GridIsMonotone DEF BetterNeverLowers
  <2>1. metrics[n] \in Seq(AllRows) /\ day \in Nat /\ o \in Results /\ o2 \in Results
    BY SelectionAssumption DEF Types
  <2>2. PICK t : t = metrics[n] \o Rows(o)
    OBVIOUS
  <2>3. PICK u : u = metrics[n] \o Rows(o2)
    OBVIOUS
  <2>4. t \in Seq(AllRows) /\ u \in Seq(AllRows) /\ RowsAsGood(u, t)
    BY <2>1, <2>2, <2>3, OutcomeRows
  <2>5. ScoreAfter(n, o) = ScoreOf(Figured(t)) /\ ScoreAfter(n, o2) = ScoreOf(Figured(u))
    BY <2>2, <2>3, Zenon DEF ScoreAfter, Figured
  <2>6. FieldsOf(Figured(t)) /\ FieldsOf(Figured(u)) /\ Improved(Figured(t), Figured(u))
    BY <2>4, FiguredFields, FiguresInOrder
  <2>7. ScoreOf(Figured(t)) <= ScoreOf(Figured(u))
    BY <2>6, ScoreOfMonotone, Zenon
  <2> QED
    BY <2>5, <2>7, Zenon
<1>2. SelectInv => BetterNeverLowers
  BY <1>1 DEF SelectInv
<1> QED
  BY <1>2, SelectInit, SelectStep, PTL DEF Spec
=============================================================================
