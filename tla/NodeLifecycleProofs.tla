------------------------ MODULE NodeLifecycleProofs ------------------------
(***************************************************************************)
(* Theorems about NodeLifecycle, for every number of handlers, mirrors,    *)
(* edits, crashes and years: what a start saves is kept (the certificate's *)
(* pair, the persisted nodes), no change of nodes.yaml is lost, and the    *)
(* list of nodes is the configuration and what may follow it, once each.   *)
(***************************************************************************)
EXTENDS NodeLifecycle, FiniteSetTheorems, TLAPS

USE DEF Nothing

-----------------------------------------------------------------------------
(* The certificate.  A save only ever begins when the key's file holds      *)
(* nothing: a key, once written, is that of the certificate next to it.     *)

CertInv ==
    /\ TlsTypeOK
    /\ keyFile # Nothing => certFile = keyFile
    /\ serving \in SaveSteps => keyFile = Nothing /\ served # Nothing
    /\ serving \in {"openKey", "writeKey"} => certFile = served
    /\ PairOnDiskIsServed

\* What a step of the program is to the certificate.
LEMMA CertSteps ==
    ASSUME [Next]_vars
    PROVE  UNCHANGED tls \/ TlsOff \/ TlsBegin \/ TlsStart \/ YearPasses
<1>1. CASE UNCHANGED vars
  BY <1>1 DEF vars
<1>2. CASE MainStep
  BY <1>2 DEF MainStep, Boot, StartWatcher, StartServers, Fetch, FetchFails, Merge, Snapshot,
              MergeItem, MergeEnd, SaveOpen, SaveWrite, SaveFails
<1>3. CASE Watcher \/ Operator
  BY <1>3 DEF Watcher, WatcherLoad, WatcherStore, WatcherReload, Operator, EditBegin, EditEnd, Replace
<1>4. CASE Crash \/ Year
  BY <1>4 DEF Crash, Year
<1>5. CASE \E p \in Handlers : Fetch(p) \/ Merge(p)
  BY <1>5 DEF Fetch, Merge, Snapshot, MergeItem, MergeEnd
<1>6. QED
  BY <1>1, <1>2, <1>3, <1>4, <1>5 DEF Next

LEMMA CertInit == Init => CertInv
BY TlsAssumption DEF Init, TlsInit, CertInv, TlsTypeOK, SaveSteps, PairOnDiskIsServed, Loads

LEMMA CertStep == CertInv /\ [Next]_vars => CertInv'
<1> SUFFICES ASSUME CertInv, [Next]_vars PROVE CertInv'
  OBVIOUS
<1> USE DEF CertInv, TlsTypeOK, SaveSteps, PairOnDiskIsServed, Loads
<1>1. CASE UNCHANGED tls
  BY <1>1 DEF tls, pair
<1>2. CASE TlsOff \/ TlsBegin
  BY <1>2 DEF TlsOff, TlsBegin, pair
<1>3. CASE UseConfigured \/ UseSaved
  BY <1>3 DEF UseConfigured, UseSaved, Reusable, pair
<1>4. CASE Generate
  BY <1>4 DEF Generate, Reusable, pair
<1>5. CASE SavePair
  <2>1. CASE serving = "openCert"
    BY <1>5, <2>1 DEF SavePair, SaveOrder
  <2>2. CASE serving = "writeCert"
    BY <1>5, <2>2 DEF SavePair, SaveOrder
  <2>3. CASE serving = "openKey"
    BY <1>5, <2>3 DEF SavePair, SaveOrder
  <2>4. CASE serving = "writeKey"
    BY <1>5, <2>4 DEF SavePair, SaveOrder
  <2>5. QED
    BY <1>5, <2>1, <2>2, <2>3, <2>4 DEF SavePair
<1>6. CASE SavePairFails
  BY <1>6 DEF SavePairFails, pair
<1>7. CASE YearPasses
  BY <1>7, TlsAssumption DEF YearPasses, pair
<1>8. QED
  BY CertSteps, <1>1, <1>2, <1>3, <1>4, <1>5, <1>6, <1>7 DEF TlsStart

\* When the files hold a pair that loads, a start serves that one and no other.
THEOREM DiskPairServed == Spec => []PairOnDiskIsServed
<1>1. CertInv => PairOnDiskIsServed
  BY DEF CertInv
<1>2. QED
  BY CertInit, CertStep, <1>1, PTL DEF Spec

\* A pair that loads is kept, through starts, crashes and saves that fail.
THEOREM PairsAreKept == Spec => PairKept
<1>1. CertInv /\ [Next]_vars => [Loads => UNCHANGED pair]_tls
  <2> SUFFICES ASSUME CertInv, [Next]_vars, Loads PROVE UNCHANGED pair
    OBVIOUS
  <2>1. ~SavePair
    BY DEF CertInv, Loads, SavePair, SaveSteps
  <2>2. QED
    BY <2>1, CertSteps DEF tls, TlsOff, TlsBegin, TlsStart, UseConfigured, UseSaved,
                           Generate, SavePairFails, YearPasses
<1>2. QED
  BY CertInit, CertStep, <1>1, PTL DEF Spec, PairKept

-----------------------------------------------------------------------------
(* nodes.json.  main merges and saves only after it has found no nodes in   *)
(* the file or could not read it, and nobody else writes it.                *)

MainSteps == {"fetch", "snapshot", "merge", "save", "write"}

FileInv ==
    /\ pc \in [Procs -> {"idle"} \cup MainSteps]
    /\ unread \in BOOLEAN
    /\ pc[Main] # "idle" => phase = "fetch" /\ (unread \/ Persisted = <<>>)

LEMMA FileInit == Init => FileInv
BY DEF Init, FileInv, Procs

LEMMA FileStep == FileInv /\ [Next]_vars => FileInv'
<1> SUFFICES ASSUME FileInv, [Next]_vars PROVE FileInv'
  OBVIOUS
<1>m. Main \in Procs /\ Main \notin Handlers /\ Handlers \subseteq Procs
  BY LifecycleAssumption DEF Procs
<1>f. pc \in [Procs -> {"idle"} \cup MainSteps] /\ DOMAIN pc = Procs
  BY DEF FileInv
<1> USE <1>m, <1>f DEF FileInv, Persisted, MainSteps
<1>1. CASE UNCHANGED vars
  BY <1>1 DEF vars, disk, merge
<1>2. CASE Boot
  <2>1. PICK found \in Loadable :
          /\ unread' = (found # Persisted)
          /\ IF MustFetch(found)
             THEN phase' = "fetch" /\ pc' = [pc EXCEPT ![Main] = "fetch"]
             ELSE phase' = "watch" /\ UNCHANGED pc
    BY <1>2 DEF Boot
  <2>2. pc[Main] = "idle" /\ Persisted' = Persisted
    BY <1>2 DEF Boot, disk
  <2>3. CASE found = <<>>
    BY <2>1, <2>2, <2>3 DEF MustFetch
  <2>4. CASE found # <<>>
    BY <2>1, <2>2, <2>4 DEF MustFetch
  <2>5. QED
    BY <2>3, <2>4
<1>3. CASE StartWatcher \/ StartServers \/ Year
  BY <1>3 DEF StartWatcher, StartServers, Year, disk, merge
<1>4. CASE FetchFails \/ SaveFails
  BY <1>4 DEF FetchFails, SaveFails, Idle
<1>5. ASSUME NEW p \in Procs, Fetch(p) \/ Snapshot(p) PROVE FileInv'
  BY <1>5 DEF Fetch, Snapshot, disk
<1>6. ASSUME NEW p \in Procs, MergeItem(p) PROVE FileInv'
  BY <1>6 DEF MergeItem, disk
<1>7. ASSUME NEW p \in Procs, MergeEnd(p) PROVE FileInv'
  <2>1. CASE p = Main
    BY <1>7, <2>1 DEF MergeEnd, Idle, disk
  <2>2. CASE p # Main
    BY <1>7, <2>2 DEF MergeEnd, Idle, disk
  <2>3. QED
    BY <2>1, <2>2
<1>8. CASE SaveOpen
  BY <1>8 DEF SaveOpen
<1>9. CASE SaveWrite
  BY <1>9 DEF SaveWrite, Idle
<1>10. CASE Watcher
  BY <1>10 DEF Watcher, WatcherLoad, WatcherStore, WatcherReload, disk, merge
<1>11. CASE Operator
  BY <1>11 DEF Operator, EditBegin, EditEnd, Replace, merge
<1>12. CASE Crash
  BY <1>12 DEF Crash, disk
<1>13. QED
  BY <1>1, <1>2, <1>3, <1>4, <1>5, <1>6, <1>7, <1>8, <1>9, <1>10, <1>11, <1>12
     DEF Next, MainStep, Merge

\* A nodes.json that holds nodes is written again by no process but one that
\* could not read it when it started.
THEOREM NodesAreKept == Spec => NeverClobbers
<1>1. FileInv /\ [Next]_vars =>
        [file.state = "whole" /\ file.urls # <<>> /\ ~unread => file' = file]_vars
  <2> SUFFICES ASSUME FileInv, [Next]_vars, file.state = "whole", file.urls # <<>>, ~unread
               PROVE  file' = file
    OBVIOUS
  <2>1. pc[Main] = "idle"
    BY DEF FileInv, Persisted
  <2>2. CASE UNCHANGED vars
    BY <2>2 DEF vars, disk
  <2>3. CASE MainStep
    BY <2>1, <2>3 DEF MainStep, Boot, StartWatcher, StartServers, Fetch, FetchFails, Merge,
         Snapshot, MergeItem, MergeEnd, SaveOpen, SaveWrite, SaveFails, disk
  <2>4. CASE Watcher \/ Operator
    BY <2>4 DEF Watcher, WatcherLoad, WatcherStore, WatcherReload, Operator, EditBegin, EditEnd, Replace, disk
  <2>5. CASE Crash \/ Year
    BY <2>5 DEF Crash, Year, disk
  <2>6. CASE \E p \in Handlers : Fetch(p) \/ Merge(p)
    BY <2>6 DEF Fetch, Merge, Snapshot, MergeItem, MergeEnd, disk
  <2>7. QED
    BY <2>2, <2>3, <2>4, <2>5, <2>6 DEF Next
<1>2. QED
  BY FileInit, FileStep, <1>1, PTL DEF Spec, NeverClobbers

-----------------------------------------------------------------------------
(* nodes.yaml.  Before the watcher runs nothing waits for it, and the text  *)
(* main has read is in force unless the file was changed since; once it     *)
(* runs, a change without a watch is remembered in missed.                  *)

EditInv ==
    /\ events \in Nat
    /\ conf \in [text : Configs, whole : BOOLEAN] /\ watching \in BOOLEAN /\ missed \in BOOLEAN
    /\ reloading \in BOOLEAN
    /\ phase # "up" => newCfg = <<>> /\ events = 0 /\ ~watching
    /\ phase \in {"fetch", "watch"} => (conf.whole /\ ~missed => cfg = conf.text)
    /\ pc[Main] # "idle" => phase = "fetch"
    /\ NoEditLost

LEMMA EditInit == Init => EditInv
<1> SUFFICES ASSUME Init PROVE EditInv
  OBVIOUS
<1>1. Main \in Procs /\ pc[Main] = "idle"
  BY DEF Init, Procs
<1>2. conf.whole = TRUE
  BY DEF Init
<1>3. QED
  BY <1>1, <1>2 DEF Init, EditInv, NoEditLost

LEMMA EditStep == FileInv /\ EditInv /\ [Next]_vars => EditInv'
<1> SUFFICES ASSUME FileInv, FileInv', EditInv, [Next]_vars PROVE EditInv'
  BY FileStep
<1>m. pc'[Main] # "idle" => phase' = "fetch"
  BY DEF FileInv
<1>h. Main \in Procs /\ Main \notin Handlers
  BY LifecycleAssumption DEF Procs
<1> USE <1>m DEF EditInv, NoEditLost
<1>1. CASE UNCHANGED vars
  BY <1>1 DEF vars, disk, merge, watch
<1>2. CASE Boot
  BY <1>2 DEF Boot, disk, Readable
<1>3. CASE StartWatcher
  BY <1>3 DEF StartWatcher, disk
<1>4. CASE StartServers \/ Year
  BY <1>4 DEF StartServers, Year, disk, watch
<1>5. CASE FetchFails \/ SaveFails \/ SaveOpen \/ SaveWrite
  BY <1>5 DEF FetchFails, SaveFails, SaveOpen, SaveWrite, AfterFetch, disk, watch
<1>6. ASSUME NEW p \in Procs, Fetch(p) \/ Snapshot(p) \/ MergeItem(p) PROVE EditInv'
  BY <1>6 DEF Fetch, Snapshot, MergeItem, disk, watch
<1>7. ASSUME NEW p \in Procs, MergeEnd(p) PROVE EditInv'
  <2>1. CASE p = Main
    BY <1>7, <2>1 DEF MergeEnd, AfterFetch, disk, watch
  <2>2. CASE p # Main
    BY <1>7, <2>2 DEF MergeEnd, disk, watch
  <2>3. QED
    BY <2>1, <2>2
<1>8. CASE WatcherLoad
  BY <1>8 DEF WatcherLoad, disk, Readable
<1>9. CASE WatcherStore
  <2>1. /\ phase = "up" /\ newCfg # <<>> /\ cfg' = newCfg[1] /\ newCfg' = <<>> /\ reloading' = TRUE
        /\ UNCHANGED <<phase, conf, watching, events, missed, pc>>
    BY <1>9 DEF WatcherStore, disk, merge
  <2>2. newCfg = <<conf.text>> => cfg' = conf.text
    BY <2>1
  <2>3. QED
    BY <2>1, <2>2
<1>14. CASE WatcherReload
  BY <1>14 DEF WatcherReload, Waiting, disk, merge
<1>10. CASE EditBegin \/ EditEnd
  <2>1. conf' \in [text : Configs, whole : BOOLEAN]
    <3>1. CASE EditBegin
      <4>1. conf' \in [text : Configs, whole : {FALSE}]
        BY <3>1 DEF EditBegin
      <4>2. QED
        BY <4>1
    <3>2. CASE EditEnd
      BY <3>2 DEF EditEnd
    <3>3. QED
      BY <1>10, <3>1, <3>2
  <2>2. Notice /\ UNCHANGED <<phase, cfg, watching, newCfg, reloading, pc>>
    BY <1>10 DEF EditBegin, EditEnd, merge
  <2>3. events' \in Nat /\ watching' \in BOOLEAN /\ missed' \in BOOLEAN
    BY <2>2 DEF Notice
  <2>4. missed' \/ (watching' /\ events' > 0 /\ phase' = "up")
    <3>1. CASE watching
      BY <2>2, <3>1 DEF Notice
    <3>2. CASE ~watching
      <4>1. missed' = (missed \/ ~watching)
        BY <2>2 DEF Notice
      <4>2. QED
        BY <3>2, <4>1
    <3>3. QED
      BY <3>1, <3>2
  <2>5. phase' # "up" => newCfg' = <<>> /\ events' = 0 /\ ~watching'
    BY <2>2 DEF Notice
  <2>6. phase' \notin {"fetch", "watch"} \/ missed'
    BY <2>4
  <2>7. NoEditLost'
    BY <2>4
  <2>8. QED
    BY <2>1, <2>2, <2>3, <2>5, <2>6, <2>7
<1>11. CASE Replace
  BY <1>11 DEF Replace
<1>12. CASE Crash
  BY <1>12 DEF Crash, disk
<1>13. QED
  BY <1>h, <1>1, <1>2, <1>3, <1>4, <1>5, <1>6, <1>7, <1>8, <1>9, <1>10, <1>11, <1>12, <1>14
     DEF Next, MainStep, Merge, Watcher, Operator, Procs

\* No change of nodes.yaml under a live watch is lost.
THEOREM EditsAreNotLost == Spec => []NoEditLost
<1>1. EditInv => NoEditLost
  BY DEF EditInv
<1>2. QED
  BY FileInit, FileStep, EditInit, EditStep, <1>1, PTL DEF Spec

-----------------------------------------------------------------------------
(* What the loops of AddNode and loadFromDB make of a list.                 *)

Add(env, u, ns) == AddNode(ns, u)
Row(c, u, ns)   == IF u \in ToSet(c) THEN ns ELSE Append(ns, u)
Adds == INSTANCE FoldTheorems WITH op <- Add, choose <- Max
Rows == INSTANCE FoldTheorems WITH op <- Row, choose <- Max

\* a is ns, then the URLs of S that it lacks, each of them once.
Extends(a, ns, S) ==
    /\ a \in Seq(Urls)
    /\ Len(ns) <= Len(a) /\ \A i \in 1 .. Len(ns) : a[i] = ns[i]
    /\ ToSet(a) = ToSet(ns) \cup S
    /\ \A i, j \in 1 .. Len(a) : i < j /\ a[i] = a[j] => j <= Len(ns)

LEMMA ListMembers ==
    ASSUME NEW a \in Seq(Urls)
    PROVE  /\ ToSet(a) = {a[i] : i \in 1 .. Len(a)} /\ ToSet(a) \subseteq Urls
           /\ DOMAIN a = 1 .. Len(a) /\ Len(a) \in Nat
           /\ \A u \in Urls : ToSet(Append(a, u)) = ToSet(a) \cup {u}
<1>1. DOMAIN a = 1 .. Len(a) /\ Len(a) \in Nat
  OBVIOUS
<1>2. ASSUME NEW u \in Urls PROVE ToSet(Append(a, u)) = ToSet(a) \cup {u}
  <2>1. /\ DOMAIN Append(a, u) = 1 .. Len(a) + 1
        /\ Append(a, u)[Len(a) + 1] = u /\ \A i \in 1 .. Len(a) : Append(a, u)[i] = a[i]
    OBVIOUS
  <2>2. 1 .. Len(a) + 1 = (1 .. Len(a)) \cup {Len(a) + 1}
    BY <1>1
  <2> QED
    BY <1>1, <2>1, <2>2 DEF ToSet
<1>3. ToSet(a) = {a[i] : i \in 1 .. Len(a)} /\ ToSet(a) \subseteq Urls
  BY <1>1 DEF ToSet
<1> QED
  BY <1>1, <1>2, <1>3

\* The greatest index of a part of a sequence is the one the folds choose.
LEMMA GreatestIndex ==
    ASSUME NEW n \in Nat, NEW S \in SUBSET (1 .. n), S # {}
    PROVE  Max(S) \in S /\ \A i \in S : Max(S) >= i
BY Adds!GreatestNumber DEF Max

LEMMA TakeOneMore ==
    ASSUME NEW s, NEW n \in Nat \ {0}
    PROVE  {s[i] : i \in 1 .. n} = {s[i] : i \in 1 .. (n - 1)} \cup {s[n]}
<1>1. \A i : i \in 1 .. n <=> i \in 1 .. (n - 1) \/ i = n
  OBVIOUS
<1> QED
  BY <1>1

LEMMA NothingAdded ==
    ASSUME NEW ns \in Seq(Urls)
    PROVE  Extends(ns, ns, {})
BY ListMembers DEF Extends

\* A URL that is not in the ns yet goes to its end.
LEMMA AppendExtends ==
    ASSUME NEW ns \in Seq(Urls), NEW a \in Seq(Urls), NEW S, NEW u \in Urls,
           Extends(a, ns, S), u \notin ToSet(a)
    PROVE  Extends(Append(a, u), ns, S \cup {u})
<1> DEFINE b == Append(a, u)
<1>1. /\ b \in Seq(Urls) /\ Len(b) = Len(a) + 1 /\ b[Len(a) + 1] = u
      /\ \A i \in 1 .. Len(a) : b[i] = a[i] /\ a[i] # u
      /\ Len(a) \in Nat /\ Len(ns) \in Nat
  BY ListMembers
<1>2. ToSet(b) = ToSet(a) \cup {u}
  BY ListMembers
<1> HIDE DEF b
<1>3. \A i, j \in 1 .. Len(b) : i < j /\ b[i] = b[j] => j <= Len(ns)
  <2> SUFFICES ASSUME NEW i \in 1 .. Len(b), NEW j \in 1 .. Len(b), i < j, b[i] = b[j]
               PROVE  j <= Len(ns)
    OBVIOUS
  <2>1. i \in 1 .. Len(a) /\ (j \in 1 .. Len(a) \/ j = Len(a) + 1)
    BY <1>1
  <2> QED
    BY <1>1, <2>1 DEF Extends
<1>4. Len(ns) <= Len(b) /\ \A i \in 1 .. Len(ns) : b[i] = ns[i]
  BY <1>1 DEF Extends
<1>5. ToSet(b) = ToSet(ns) \cup (S \cup {u})
  BY <1>2 DEF Extends
<1> QED
  BY <1>1, <1>3, <1>4, <1>5 DEF Extends, b

\* What AddNode makes of the ns, and AddAll of the URLs of a sequence.
LEMMA AddNodeExtends ==
    ASSUME NEW ns \in Seq(Urls), NEW a \in Seq(Urls), NEW S, NEW u \in Urls, Extends(a, ns, S)
    PROVE  Extends(AddNode(a, u), ns, S \cup {u})
<1>1. CASE u \in ToSet(a)
  <2>1. S \cup {u} \cup ToSet(ns) = S \cup ToSet(ns)
    BY <1>1 DEF Extends
  <2> QED
    BY <1>1, <2>1 DEF Extends, AddNode
<1>2. CASE u \notin ToSet(a)
  BY <1>2, AppendExtends DEF AddNode
<1> QED
  BY <1>1, <1>2

LEMMA AddAllExtends ==
    ASSUME NEW ns \in Seq(Urls), NEW us \in Seq(Urls)
    PROVE  Extends(AddAll(ns, us), ns, ToSet(us))
<1> DEFINE Taken(n) == {us[i] : i \in 1 .. n}
           Good     == {p \in Nat \X Seq(Urls) : Extends(p[2], ns, Taken(p[1]))}
<1>1. AddAll(ns, us) = Adds!Fold(0, ns, us, DOMAIN us)
  BY Zenon DEF AddAll, FoldLeft, MapThenFoldSet, Adds!Fold, Adds!MapThenFoldSet, Add
<1>2. <<0, ns>> \in Good
  <2>1. Taken(0) = {}
    OBVIOUS
  <2> QED
    BY <2>1, NothingAdded
<1>3. ASSUME NEW n \in 1 .. Len(us), NEW a, <<n - 1, a>> \in Good
      PROVE  <<n, Add(0, us[n], a)>> \in Good
  <2>1. a \in Seq(Urls) /\ Extends(a, ns, Taken(n - 1)) /\ us[n] \in Urls
    <3> HIDE DEF Taken
    <3> QED
      BY <1>3
  <2>2. Taken(n) = Taken(n - 1) \cup {us[n]}
    BY TakeOneMore
  <2>3. Extends(AddNode(a, us[n]), ns, Taken(n))
    BY <2>1, <2>2, AddNodeExtends
  <2> QED
    BY <2>3 DEF Extends, Add
<1>4. Len(us) \in Nat /\ DOMAIN us = 1 .. Len(us) /\ Taken(Len(us)) = ToSet(us)
  BY ListMembers
<1> HIDE DEF Good
<1>5. <<Len(us), Adds!Fold(0, ns, us, 1 .. Len(us))>> \in Good
  BY <1>2, <1>3, <1>4, GreatestIndex, Adds!FoldInduction
<1> QED
  BY <1>1, <1>4, <1>5 DEF Good

\* loadFromDB compares a row with the configuration only: url is UNIQUE.
LEMMA ConfiguredExtends ==
    ASSUME NEW c \in Seq(Urls), NEW d \in Tables
    PROVE  Extends(Configured(c, d), c, ToSet(d))
<1> DEFINE Taken(n) == {d[i] : i \in 1 .. n}
           Good     == {p \in Nat \X Seq(Urls) : Extends(p[2], c, Taken(p[1]))}
<1>d. d \in Seq(Urls) /\ IsInjective(d)
  BY LifecycleAssumption
<1>1. Configured(c, d) = Rows!Fold(c, c, d, DOMAIN d)
  BY Zenon DEF Configured, FoldLeft, MapThenFoldSet, Rows!Fold, Rows!MapThenFoldSet, Row
<1>2. <<0, c>> \in Good
  <2>1. Taken(0) = {}
    OBVIOUS
  <2> QED
    BY <2>1, NothingAdded
<1>3. ASSUME NEW n \in 1 .. Len(d), NEW a, <<n - 1, a>> \in Good
      PROVE  <<n, Row(c, d[n], a)>> \in Good
  <2>1. a \in Seq(Urls) /\ Extends(a, c, Taken(n - 1)) /\ d[n] \in Urls
    <3> HIDE DEF Taken
    <3> QED
      BY <1>3, <1>d
  <2>2. Taken(n) = Taken(n - 1) \cup {d[n]}
    BY TakeOneMore
  <2>3. d[n] \notin Taken(n - 1)
    <3>1. \A i \in 1 .. (n - 1) : i \in DOMAIN d /\ n \in DOMAIN d /\ i # n
      BY <1>d, ListMembers
    <3> QED
      BY <1>d, <3>1 DEF IsInjective
  <2>4. Extends(Row(c, d[n], a), c, Taken(n))
    <3>1. CASE d[n] \in ToSet(c)
      BY <2>1, <2>2, <3>1 DEF Row, Extends
    <3>2. CASE d[n] \notin ToSet(c)
      <4>1. d[n] \notin ToSet(a)
        BY <2>1, <2>3, <3>2 DEF Extends
      <4> QED
        BY <2>1, <2>2, <3>2, <4>1, AppendExtends DEF Row
    <3> QED
      BY <3>1, <3>2
  <2> QED
    BY <2>4 DEF Extends
<1>4. Len(d) \in Nat /\ DOMAIN d = 1 .. Len(d) /\ Taken(Len(d)) = ToSet(d)
  BY <1>d, ListMembers
<1> HIDE DEF Good
<1>5. <<Len(d), Rows!Fold(c, c, d, 1 .. Len(d))>> \in Good
  BY <1>2, <1>3, <1>4, GreatestIndex, Rows!FoldInduction
<1> QED
  BY <1>1, <1>4, <1>5 DEF Good

LEMMA ExtendsFurther ==
    ASSUME NEW ns \in Seq(Urls), NEW a \in Seq(Urls), NEW b, NEW S, NEW T,
           Extends(a, ns, S), Extends(b, a, T)
    PROVE  Extends(b, ns, S \cup T)
<1>1. b \in Seq(Urls) /\ Len(ns) \in Nat /\ Len(a) \in Nat /\ Len(b) \in Nat
  BY ListMembers DEF Extends
<1>2. Len(ns) <= Len(b) /\ \A i \in 1 .. Len(ns) : b[i] = ns[i]
  BY <1>1 DEF Extends
<1>3. ASSUME NEW i \in 1 .. Len(b), NEW j \in 1 .. Len(b), i < j, b[i] = b[j]
      PROVE  j <= Len(ns)
  <2>1. j <= Len(a)
    BY <1>3 DEF Extends
  <2>2. i \in 1 .. Len(a) /\ j \in 1 .. Len(a)
    BY <1>1, <1>3, <2>1
  <2> QED
    BY <1>3, <2>2 DEF Extends
<1> QED
  BY <1>1, <1>2, <1>3 DEF Extends

-----------------------------------------------------------------------------
(* The list, and where its nodes are from.  A process that fetches has found *)
(* nothing in nodes.json, so what it writes over is not what it has.        *)

\* The items are some the site serves.
Served(s) == \A k \in 1 .. Len(s) : s[k].usable => Trim[s[k].url] \in FeedUrls

ListInv ==
    /\ TypeOK
    /\ Extends(nodes, applied, ToSet(nodes))
    /\ cfg # applied => reloading
    /\ NoGhostMirror
    /\ phase = "fetch" => ToSet(nodes) \subseteq ToSet(applied) \cup DbUrls \cup FeedUrls
    /\ \A p \in Procs : Served(items[p])
    /\ file.state # "whole" => file.urls = <<>>

LEMMA ReadableType == TypeOK => Readable \subseteq Seq(Urls)
<1> SUFFICES ASSUME TypeOK PROVE Readable \subseteq Seq(Urls)
  OBVIOUS
<1>1. conf.text \in Seq(Urls)
  BY LifecycleAssumption DEF TypeOK
<1>2. \A k \in 0 .. Len(conf.text) : SubSeq(conf.text, 1, k) \in Seq(Urls)
  BY <1>1
<1> QED
  BY <1>1, <1>2 DEF Readable

LEMMA FeedServed ==
    ASSUME NEW f \in Feeds
    PROVE  f \in Seq(Items) /\ Served(f)
<1>1. f \in Seq(Items) /\ DOMAIN f = 1 .. Len(f)
  BY LifecycleAssumption
<1>2. ASSUME NEW k \in 1 .. Len(f), f[k].usable PROVE Trim[f[k].url] \in FeedUrls
  <2>1. f[k] \in UNION {ToSet(g) : g \in Feeds}
    BY <1>1 DEF ToSet
  <2> QED
    BY <1>2, <2>1 DEF FeedUrls
<1> QED
  BY <1>1, <1>2 DEF Served

LEMMA ListInit == Init => ListInv
<1> SUFFICES ASSUME Init PROVE ListInv
  OBVIOUS
<1>1. TypeOK
  <2>1. TlsTypeOK
    BY CertInit DEF CertInv
  <2>2. conf \in [text : Configs, whole : BOOLEAN]
    BY EditInit DEF EditInv
  <2>3. /\ items \in [Procs -> Seq(Items)] /\ added \in [Procs -> Nat]
        /\ existing \in [Procs -> SUBSET {Trim[u] : u \in Urls}]
    BY DEF Init
  <2>4. /\ pc \in [Procs -> {"idle", "fetch", "snapshot", "merge", "save", "write"}]
        /\ nodes \in Seq(Urls) /\ applied \in Seq(Urls) /\ cfg \in Seq(Urls) /\ newCfg = <<>>
        /\ file \in [state : {"absent", "torn", "whole"}, urls : Seq(Urls)]
    BY DEF Init
  <2>5. /\ phase = "down" /\ watching \in BOOLEAN /\ events \in Nat /\ missed \in BOOLEAN
        /\ reloading \in BOOLEAN /\ unread \in BOOLEAN /\ edits \in Nat /\ crashes \in Nat
    BY DEF Init
  <2> QED
    BY <2>1, <2>2, <2>3, <2>4, <2>5 DEF TypeOK
<1>2. Extends(nodes, applied, ToSet(nodes)) /\ cfg = applied /\ NoGhostMirror
  <2>1. <<>> \in Seq(Urls) /\ ToSet(<<>>) = {}
    BY DEF ToSet
  <2> QED
    BY <2>1, NothingAdded DEF Init, NoGhostMirror
<1> QED
  BY <1>1, <1>2 DEF Init, ListInv, Served

\* A step that leaves the lists, the file and what is to be merged alone.
LEMMA ListStays ==
    ASSUME ListInv, TypeOK', UNCHANGED <<phase, nodes, applied, cfg, reloading, file, items>>
    PROVE  ListInv'
BY DEF ListInv, NoGhostMirror, Served

\* A goroutine that is through with its merge forgets it.
LEMMA IdleStep ==
    ASSUME TypeOK, NEW p \in Procs, Idle(p), \A q \in Procs : Served(items[q])
    PROVE  /\ items' \in [Procs -> Seq(Items)] /\ added' \in [Procs -> Nat]
           /\ existing' \in [Procs -> SUBSET {Trim[u] : u \in Urls}]
           /\ \A q \in Procs : Served(items'[q])
BY DEF TypeOK, Idle, Served

LEMMA ListStep == CertInv /\ FileInv /\ EditInv /\ ListInv /\ [Next]_vars => ListInv'
<1> SUFFICES ASSUME CertInv', FileInv, FileInv', EditInv, EditInv', ListInv, [Next]_vars
             PROVE  ListInv'
  BY CertStep, FileStep, EditStep
<1>a. /\ TlsTypeOK' /\ pc' \in [Procs -> {"idle"} \cup MainSteps]
      /\ events' \in Nat /\ watching' \in BOOLEAN /\ missed' \in BOOLEAN
      /\ conf' \in [text : Configs, whole : BOOLEAN]
      /\ reloading' \in BOOLEAN /\ unread' \in BOOLEAN
  BY DEF CertInv, FileInv, EditInv
<1>b. ASSUME phase' \in {phase, "watch", "up"},
             UNCHANGED <<nodes, applied, cfg, reloading, file, newCfg>>,
             items' \in [Procs -> Seq(Items)], added' \in [Procs -> Nat],
             existing' \in [Procs -> SUBSET {Trim[u] : u \in Urls}],
             \A q \in Procs : Served(items'[q]),
             UNCHANGED <<edits, crashes>>
      PROVE  ListInv'
  <2>1. TypeOK'
    BY <1>a, <1>b DEF ListInv, TypeOK, MainSteps
  <2> QED
    BY <1>b, <2>1 DEF ListInv, NoGhostMirror, Served
<1>m. Main \in Procs /\ Handlers \subseteq Procs
  BY DEF Procs
<1>t. TypeOK
  BY DEF ListInv
<1>1. CASE UNCHANGED vars
  BY <1>1, <1>b DEF vars, list, disk, watch, merge, bounds, ListInv, TypeOK
<1>2. CASE Boot
  <2>1. PICK c \in Readable, rows \in Tables, found \in Loadable :
          /\ cfg' = c /\ applied' = c /\ nodes' = AddAll(Configured(c, rows), found)
          /\ phase' = "fetch" => found = <<>>
    BY <1>2 DEF Boot, MustFetch
  <2>2. /\ phase' \in {"fetch", "watch"}
        /\ UNCHANGED <<file, newCfg, items, existing, added, edits, crashes>>
    BY <1>2 DEF Boot, disk, bounds
  <2>3. /\ c \in Seq(Urls) /\ found \in Seq(Urls) /\ ToSet(found) \subseteq ToSet(file.urls)
        /\ ToSet(<<>>) = {} /\ ToSet(rows) \subseteq DbUrls
    <3>1. c \in Seq(Urls) /\ file.urls \in Seq(Urls) /\ found \in {file.urls, <<>>}
      BY <1>t, ReadableType DEF TypeOK, Loadable, Persisted
    <3>2. ToSet(<<>>) = {}
      BY DEF ToSet
    <3>3. ToSet(rows) \subseteq DbUrls
      BY DEF DbUrls
    <3>4. CASE found = file.urls
      BY <3>1, <3>2, <3>3, <3>4
    <3>5. CASE found = <<>>
      BY <3>1, <3>2, <3>3, <3>5
    <3> QED
      BY <3>1, <3>4, <3>5
  <2>4. Extends(Configured(c, rows), c, ToSet(rows)) /\ Configured(c, rows) \in Seq(Urls)
    BY <2>3, ConfiguredExtends DEF Extends
  <2>5. Extends(nodes', Configured(c, rows), ToSet(found))
    BY <2>1, <2>3, <2>4, AddAllExtends
  <2>6. Extends(nodes', c, ToSet(rows) \cup ToSet(found))
    BY <2>3, <2>4, <2>5, ExtendsFurther
  <2>7. ToSet(nodes') = ToSet(c) \cup ToSet(rows) \cup ToSet(found)
    BY <2>6 DEF Extends
  <2>8. Extends(nodes, applied, ToSet(nodes))'
    BY <2>1, <2>6 DEF Extends
  <2>9. NoGhostMirror'
    BY <2>1, <2>2, <2>3, <2>7 DEF NoGhostMirror
  <2>10. phase' = "fetch" => ToSet(nodes') \subseteq ToSet(applied') \cup DbUrls \cup FeedUrls
    BY <2>1, <2>3, <2>7
  <2>11. TypeOK'
    BY <1>a, <1>t, <2>1, <2>2, <2>3, <2>6 DEF TypeOK, Extends, MainSteps
  <2> QED
    BY <2>1, <2>2, <2>8, <2>9, <2>10, <2>11 DEF ListInv, Served
<1>3. CASE StartWatcher \/ StartServers \/ Year
  BY <1>3, <1>b DEF StartWatcher, StartServers, Year, list, disk, watch, merge, bounds, ListInv, TypeOK
<1>4. CASE FetchFails
  BY <1>4, <1>b, <1>m, <1>t, IdleStep DEF FetchFails, AfterFetch, list, disk, watch, bounds, ListInv
<1>5. CASE SaveFails
  BY <1>5, <1>b, <1>m, <1>t, IdleStep DEF SaveFails, AfterFetch, list, disk, watch, bounds, ListInv
<1>6. ASSUME NEW p \in Procs, Fetch(p) PROVE ListInv'
  <2>1. PICK f \in Feeds : items' = [items EXCEPT ![p] = f]
    BY <1>6 DEF Fetch
  <2>2. items' \in [Procs -> Seq(Items)] /\ \A q \in Procs : Served(items'[q])
    BY <1>t, <2>1, FeedServed DEF ListInv, TypeOK
  <2> QED
    BY <1>6, <1>b, <2>2 DEF Fetch, list, disk, watch, bounds, ListInv, TypeOK
<1>7. ASSUME NEW p \in Procs, Snapshot(p) PROVE ListInv'
  <2>1. Known(nodes) \in SUBSET {Trim[u] : u \in Urls}
    BY <1>t, ListMembers DEF Known, TypeOK
  <2> QED
    BY <1>7, <1>b, <2>1 DEF Snapshot, list, disk, watch, bounds, ListInv, TypeOK
<1>8. ASSUME NEW p \in Procs, MergeItem(p) PROVE ListInv'
  <2> DEFINE it == Head(items[p])
             u  == Trim[it.url]
  <2>1. items[p] \in Seq(Items) /\ items[p] # <<>> /\ Served(items[p])
    BY <1>8 DEF MergeItem, ListInv, TypeOK
  <2>2. it \in Items /\ (it.usable => u \in FeedUrls) /\ u \in {Trim[w] : w \in Urls}
    <3>1. 1 \in 1 .. Len(items[p]) /\ it = items[p][1] /\ it \in Items
      BY <2>1
    <3> QED
      BY <2>1, <3>1 DEF Served, Items
  <2>3. Tail(items[p]) \in Seq(Items) /\ Served(Tail(items[p]))
    BY <2>1 DEF Served
  <2>4. /\ items' = [items EXCEPT ![p] = Tail(items[p])]
        /\ UNCHANGED <<phase, applied, cfg, reloading, file, newCfg, edits, crashes>>
    BY <1>8 DEF MergeItem, disk, watch, bounds
  <2>5. items' \in [Procs -> Seq(Items)] /\ \A q \in Procs : Served(items'[q])
    BY <1>t, <2>3, <2>4 DEF ListInv, TypeOK
  <2>6. CASE it.usable /\ u \notin existing[p]
    <3>1. /\ existing' = [existing EXCEPT ![p] = existing[p] \cup {u}]
          /\ nodes' = AddNode(nodes, u) /\ added' = [added EXCEPT ![p] = added[p] + 1]
      BY <1>8, <2>6 DEF MergeItem
    <3>2. u \in Urls /\ u \in FeedUrls
      BY <2>2, <2>6, LifecycleAssumption DEF Items
    <3>3. Extends(nodes', applied, ToSet(nodes) \cup {u})
      BY <1>t, <3>1, <3>2, AddNodeExtends DEF ListInv, TypeOK
    <3>4. ToSet(nodes') = ToSet(nodes) \cup {u}
      BY <3>3 DEF Extends, ListInv
    <3>6. Extends(nodes, applied, ToSet(nodes))' /\ NoGhostMirror'
      BY <2>4, <3>2, <3>3, <3>4 DEF Extends, ListInv, NoGhostMirror
    <3>5. TypeOK'
      <4>1. existing' \in [Procs -> SUBSET {Trim[w] : w \in Urls}]
        <5>1. PICK s \in SUBSET {Trim[w] : w \in Urls} : existing' = [existing EXCEPT ![p] = s]
          BY <1>t, <2>2, <3>1 DEF TypeOK
        <5> QED
          BY <1>t, <5>1 DEF TypeOK
      <4>2. nodes' \in Seq(Urls) /\ added' \in [Procs -> Nat]
        BY <1>t, <3>1, <3>3 DEF TypeOK, Extends
      <4>3. items' \in [Procs -> Seq(Items)]
        BY <2>5
      <4> HIDE DEF u, it
      <4> QED
        BY <1>a, <1>t, <2>4, <4>1, <4>2, <4>3 DEF TypeOK, MainSteps
    <3> QED
      BY <2>4, <2>5, <3>2, <3>4, <3>5, <3>6 DEF ListInv
  <2>7. CASE ~(it.usable /\ u \notin existing[p])
    <3>1. UNCHANGED <<existing, nodes, added>>
      BY <1>8, <2>7 DEF MergeItem
    <3> QED
      BY <1>b, <1>t, <2>4, <2>5, <3>1 DEF TypeOK
  <2> QED
    BY <2>6, <2>7
<1>9. ASSUME NEW p \in Procs, MergeEnd(p) PROVE ListInv'
  <2>1. CASE UNCHANGED <<phase, items, existing, added>>
    BY <1>9, <1>b, <2>1 DEF MergeEnd, list, disk, watch, bounds, ListInv, TypeOK
  <2>2. CASE Idle(p) /\ phase' \in {phase, AfterFetch}
    BY <1>9, <1>b, <1>t, <2>2, IdleStep DEF MergeEnd, AfterFetch, list, disk, watch, bounds, ListInv, TypeOK
  <2> QED
    BY <1>9, <2>1, <2>2 DEF MergeEnd
<1>10. CASE SaveOpen
  <2>1. file' = [state |-> "torn", urls |-> <<>>]
        /\ UNCHANGED <<phase, list, cfg, reloading, newCfg, items, existing, added, edits, crashes>>
    BY <1>10 DEF SaveOpen, watch, bounds
  <2>2. phase = "fetch"
    BY <1>10 DEF SaveOpen, FileInv
  <2>3. TypeOK'
    BY <1>a, <1>t, <2>1 DEF TypeOK, MainSteps, list
  <2> QED
    BY <2>1, <2>2, <2>3 DEF ListInv, NoGhostMirror, Served, list
<1>11. CASE SaveWrite
  <2>1. file' = [state |-> "whole", urls |-> nodes] /\ phase' = "watch" /\ Idle(Main)
        /\ UNCHANGED <<nodes, applied, cfg, reloading, newCfg, edits, crashes>>
    BY <1>11 DEF SaveWrite, AfterFetch, list, watch, bounds
  <2>2. /\ items' \in [Procs -> Seq(Items)] /\ added' \in [Procs -> Nat]
        /\ existing' \in [Procs -> SUBSET {Trim[u] : u \in Urls}]
        /\ \A q \in Procs : Served(items'[q])
    BY <1>m, <1>t, <2>1, IdleStep DEF ListInv
  <2>3. TypeOK'
    BY <1>a, <1>t, <2>1, <2>2 DEF TypeOK, MainSteps
  <2> QED
    BY <2>1, <2>2, <2>3 DEF ListInv, NoGhostMirror
<1>12. CASE WatcherLoad
  <2>1. UNCHANGED <<phase, nodes, applied, cfg, reloading, file, items, existing, added, edits, crashes>>
    BY <1>12 DEF WatcherLoad, list, disk, merge, bounds
  <2>2. newCfg' = <<>> \/ (Len(newCfg') = 1 /\ newCfg'[1] \in Seq(Urls))
    BY <1>12, <1>t, ReadableType DEF WatcherLoad, TypeOK
  <2>3. TypeOK'
    BY <1>a, <1>t, <2>1, <2>2 DEF TypeOK, MainSteps
  <2> QED
    BY <2>1, <2>3, ListStays
<1>13. CASE WatcherStore
  <2>1. cfg' = newCfg[1] /\ newCfg[1] \in Seq(Urls) /\ newCfg' = <<>> /\ reloading' = TRUE
    BY <1>13, <1>t DEF WatcherStore, TypeOK
  <2>2. UNCHANGED <<phase, nodes, applied, file, items, existing, added, edits, crashes>>
    BY <1>13 DEF WatcherStore, list, disk, merge, bounds
  <2>3. TypeOK'
    BY <1>a, <1>t, <2>1, <2>2 DEF TypeOK, MainSteps
  <2> QED
    BY <2>1, <2>2, <2>3 DEF ListInv, NoGhostMirror, Served
<1>16. CASE WatcherReload
  <2>1. nodes' = cfg /\ applied' = cfg /\ cfg \in Seq(Urls)
    BY <1>16, <1>t DEF WatcherReload, Reloaded, TypeOK
  <2>2. UNCHANGED <<phase, cfg, newCfg, file, items, existing, added, edits, crashes>>
    BY <1>16 DEF WatcherReload, disk, merge, bounds
  <2>3. Extends(nodes, applied, ToSet(nodes))' /\ NoGhostMirror'
    BY <2>1, NothingAdded DEF Extends, NoGhostMirror
  <2>4. TypeOK'
    BY <1>a, <1>t, <2>1, <2>2 DEF TypeOK, MainSteps
  <2> QED
    BY <2>1, <2>2, <2>3, <2>4 DEF ListInv, Served
<1>14. CASE Operator
  <2>1. /\ UNCHANGED <<phase, list, cfg, reloading, file, newCfg, items, existing, added, crashes>>
        /\ edits' \in Nat
    <3>1. CASE EditBegin
      BY <1>t, <3>1 DEF EditBegin, merge, TypeOK
    <3>2. CASE EditEnd
      BY <1>t, <3>2 DEF EditEnd, merge, bounds, TypeOK
    <3>3. CASE Replace
      BY <1>t, <3>3 DEF Replace, merge, TypeOK
    <3> QED
      BY <1>14, <3>1, <3>2, <3>3 DEF Operator
  <2>2. TypeOK'
    BY <1>a, <1>t, <2>1 DEF TypeOK, MainSteps, list
  <2> QED
    BY <2>1, <2>2, ListStays DEF list
<1>15. CASE Crash
  <2>1. /\ nodes' = <<>> /\ applied' = <<>> /\ cfg' = <<>> /\ newCfg' = <<>> /\ phase' = "down"
        /\ items' = [p \in Procs |-> <<>>] /\ existing' = [p \in Procs |-> {}]
        /\ added' = [p \in Procs |-> 0] /\ crashes' \in Nat /\ UNCHANGED <<file, edits>>
    BY <1>15, <1>t DEF Crash, disk, TypeOK
  <2>2. <<>> \in Seq(Urls) /\ ToSet(<<>>) = {}
    BY DEF ToSet
  <2>3. Extends(nodes, applied, ToSet(nodes))' /\ NoGhostMirror'
    BY <2>1, <2>2, NothingAdded DEF NoGhostMirror
  <2>4. TypeOK' /\ \A p \in Procs : Served(items'[p])
    BY <1>a, <1>t, <2>1, <2>2 DEF TypeOK, MainSteps, Served
  <2> QED
    BY <2>1, <2>3, <2>4 DEF ListInv
<1> QED
  BY <1>m, <1>1, <1>2, <1>3, <1>4, <1>5, <1>6, <1>7, <1>8, <1>9, <1>10, <1>11, <1>12, <1>13,
     <1>14, <1>15, <1>16 DEF Next, MainStep, Merge, Watcher

\* The invariant behind the theorems about the list.
LEMMA ListInvariant == Spec => []ListInv
BY CertInit, CertStep, FileInit, FileStep, EditInit, EditStep, ListInit, ListStep, PTL DEF Spec

\* Every state of main, the handlers, the watcher and the files is well typed,
\* and the keys a merge compares have lost their trailing slash.
THEOREM TypeCorrect == Spec => []TypeOK
<1>1. ListInv => TypeOK
  BY DEF ListInv
<1> QED
  BY <1>1, ListInvariant, PTL

\* AddNode keeps the list free of a second copy of any URL, for every number of
\* merges that run at a time and of reloads between their steps.
THEOREM UrlsAddedOnce == Spec => []NoDuplicateUrl
<1>1. ListInv => NoDuplicateUrl
  BY ListMembers DEF ListInv, TypeOK, Extends, NoDuplicateUrl
<1> QED
  BY <1>1, ListInvariant, PTL

\* The mirrors the list was last built from are all in it; they are those of
\* the configuration in memory, unless the watcher has just stored a new one
\* and has still to rebuild the list.
THEOREM ConfigAlwaysInForce == Spec => []ConfigInForce
<1>1. ListInv => ConfigInForce
  BY DEF ListInv, Extends, ConfigInForce
<1> QED
  BY <1>1, ListInvariant, PTL

\* Each node is one of the configuration the list was last built from, of the
\* table, of nodes.json or of the site: a mirror that was taken out of
\* nodes.yaml does not outlive the reload.
THEOREM MirrorsDoNotLinger == Spec => []NoGhostMirror
<1>1. ListInv => NoGhostMirror
  BY DEF ListInv
<1> QED
  BY <1>1, ListInvariant, PTL
=============================================================================
