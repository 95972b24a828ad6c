--------------------------- MODULE NodeLifecycle ---------------------------
(***************************************************************************)
(* Where the list of mirror nodes comes from and what becomes of it: the   *)
(* start of cmd/pullfusion, nodemgr.Manager, the fetcher that merges nodes *)
(* from the status site, persist's nodes.json, and the watcher that reloads *)
(* nodes.yaml.  A node is its URL.  The last part of a start, before any   *)
(* request is served, is that of TlsCert.                                  *)
(***************************************************************************)
EXTENDS TlsCert, SequencesExt

CONSTANTS
    Handlers,    \* goroutines that serve POST /admin/nodes/fetch
    Main,        \* the goroutine of main()
    Urls,        \* spellings of node URLs
    Trim,        \* strings.TrimRight(url, "/"), as a function on Urls
    Configs,     \* mirror lists an operator may write into nodes.yaml
    Feeds,       \* lists of items the status site may serve
    Tables,      \* what a start may read of the nodes table (url is UNIQUE)
    EditModes,   \* how an operator saves nodes.yaml
    MaxEdits, MaxCrashes

Procs == Handlers \cup {Main}
Items == [url : Urls, usable : BOOLEAN]
DbUrls == UNION {ToSet(t) : t \in Tables}
FeedUrls == {Trim[it.url] : it \in {i \in UNION {ToSet(f) : f \in Feeds} : i.usable}}

ASSUME LifecycleAssumption ==
    /\ Main \notin Handlers
    /\ Trim \in [Urls -> Urls] /\ \A u \in Urls : Trim[Trim[u]] = Trim[u]
    /\ Configs # {} /\ Configs \subseteq Seq(Urls)
    /\ Feeds \subseteq Seq(Items)
    /\ Tables \subseteq Seq(Urls) /\ \A t \in Tables : IsInjective(t)
    /\ <<>> \in Tables
    /\ EditModes \subseteq {"inPlace", "replace"}
    /\ MaxEdits \in Nat /\ MaxCrashes \in Nat

VARIABLES
    phase,     \* "down", "fetch" (the first fetch), "watch", "up" (the watcher runs)
    nodes,     \* Manager.nodes
    cfg,       \* the mirrors of the Config in memory
    file,      \* nodes.json
    conf,      \* nodes.yaml: its text, and is it wholly written
    watching,  \* fsnotify still watches the file nodes.yaml names
    events,    \* Write events that wait for the watcher
    newCfg,    \* <<c>> while the watcher holds a config it has just loaded
    reloading, \* the watcher has stored it and not yet rebuilt the list
    applied,   \* history: the mirrors the list was last built from
    missed,    \* history: nodes.yaml changed with no watch on it, or could not
               \*   be loaded, since it was last read
    unread,    \* history: this start could not read a nodes.json with nodes
    pc, items, existing, added,   \* per goroutine in FetchAndMerge
    edits, crashes

disk   == <<file, conf>>
watch  == <<watching, events, newCfg, reloading, missed>>
list   == <<nodes, applied>>
merge  == <<pc, items, existing, added>>
bounds == <<edits, crashes>>
vars   == <<phase, list, cfg, unread, disk, watch, merge, bounds, tls>>

-----------------------------------------------------------------------------
(* An operator whose name has an underscore is the next one with a          *)
(* programming error in it; no action uses it.                              *)

\* Manager.AddNode: one critical section, equal URLs are dropped.
AddNode_blind(ns, u) == Append(ns, u)
AddNode(ns, u) == IF u \in ToSet(ns) THEN ns ELSE Append(ns, u)
AddAll(ns, us) == FoldLeft(AddNode, ns, us)

\* initNodes for ReloadNodes: the old list goes first.
Reloaded_kept(c)  == AddAll(nodes, c)
Reloaded_empty(c) == <<>>
Reloaded(c)       == c

\* initNodes, then loadFromDB: database rows whose URL the config lacks.
Configured(c, rows) ==
    FoldLeft(LAMBDA ns, u : IF u \in ToSet(c) THEN ns ELSE Append(ns, u), c, rows)

\* FetchAndMerge: the URLs that are already in the list, without their slash.
Known_asWritten(ns) == ToSet(ns)
Known(ns)           == {Trim[u] : u \in ToSet(ns)}

\* main goes on without nodes from the site.
AfterFetch_fatal == "down"
AfterFetch       == "watch"

\* config.Load of a file that is being written sees a prefix, or fails.
Readable == IF conf.whole THEN {conf.text}
            ELSE {SubSeq(conf.text, 1, k) : k \in 0 .. Len(conf.text)}

\* persist.Load: the entries it finds, none if it cannot read the file, which
\* main does not tell from an empty one: without any it fetches.
Persisted == IF file.state = "whole" THEN file.urls ELSE <<>>
Loadable  == {Persisted, <<>>}
MustFetch_always(found) == TRUE
MustFetch(found)        == found = <<>>

Idle(p) == /\ pc' = [pc EXCEPT ![p] = "idle"]
           /\ items' = [items EXCEPT ![p] = <<>>]
           /\ existing' = [existing EXCEPT ![p] = {}]
           /\ added' = [added EXCEPT ![p] = 0]

-----------------------------------------------------------------------------
Init ==
    /\ phase = "down" /\ nodes = <<>> /\ applied = <<>> /\ cfg = <<>> /\ unread = FALSE
    /\ file = [state |-> "absent", urls |-> <<>>]
    /\ conf \in [text : Configs, whole : {TRUE}]
    /\ watching = FALSE /\ events = 0 /\ newCfg = <<>> /\ reloading = FALSE /\ missed = FALSE
    /\ pc = [p \in Procs |-> "idle"] /\ items = [p \in Procs |-> <<>>]
    /\ existing = [p \in Procs |-> {}] /\ added = [p \in Procs |-> 0]
    /\ edits = 0 /\ crashes = 0
    /\ TlsInit

\* main: config, node manager, persisted nodes; then fetch, or watch at once.
\* (A start that cannot load its config is over without a step.)
Boot ==
    /\ phase = "down"
    /\ \E c \in Readable, rows \in Tables, found \in Loadable :
          /\ cfg' = c /\ applied' = c
          /\ nodes' = AddAll(Configured(c, rows), found)
          /\ unread' = (found # Persisted)
          /\ IF MustFetch(found)
             THEN phase' = "fetch" /\ pc' = [pc EXCEPT ![Main] = "fetch"]
             ELSE phase' = "watch" /\ UNCHANGED pc
    /\ missed' = FALSE
    /\ UNCHANGED <<disk, watching, events, newCfg, reloading, items, existing, added, bounds, tls>>

\* StartWatcher, then NewRegistryServer with the watcher running.
StartWatcher ==
    /\ phase = "watch"
    /\ phase' = "up" /\ watching' = TRUE
    /\ TlsBegin
    /\ UNCHANGED <<list, cfg, unread, disk, events, newCfg, reloading, missed, merge, bounds>>

\* The certificate, then the servers: from here on handlers run.
StartServers == TlsStart /\ UNCHANGED <<phase, list, cfg, unread, disk, watch, merge, bounds>>

Year == YearPasses /\ UNCHANGED <<phase, list, cfg, unread, disk, watch, merge, bounds>>

Crash ==
    /\ phase # "down" /\ crashes < MaxCrashes
    /\ phase' = "down" /\ nodes' = <<>> /\ applied' = <<>> /\ cfg' = <<>> /\ unread' = FALSE
    /\ watching' = FALSE /\ events' = 0 /\ newCfg' = <<>> /\ reloading' = FALSE /\ missed' = FALSE
    /\ pc' = [p \in Procs |-> "idle"] /\ items' = [p \in Procs |-> <<>>]
    /\ existing' = [p \in Procs |-> {}] /\ added' = [p \in Procs |-> 0]
    /\ crashes' = crashes + 1
    /\ TlsOff
    /\ UNCHANGED <<disk, edits>>

-----------------------------------------------------------------------------
(* FetchAndMerge, in main with a saveFn and in handlers without.            *)

Fetch(p) ==
    /\ IF p = Main THEN pc[p] = "fetch" ELSE serving = "listening" /\ pc[p] = "idle"
    /\ \E f \in Feeds : items' = [items EXCEPT ![p] = f]
    /\ pc' = [pc EXCEPT ![p] = "snapshot"]
    /\ UNCHANGED <<phase, list, cfg, unread, disk, watch, existing, added, bounds, tls>>

\* The site does not answer, or main's 30 seconds are over.
FetchFails ==
    /\ pc[Main] = "fetch"
    /\ Idle(Main) /\ phase' = AfterFetch
    /\ UNCHANGED <<list, cfg, unread, disk, watch, bounds, tls>>

Snapshot(p) ==
    /\ pc[p] = "snapshot"
    /\ existing' = [existing EXCEPT ![p] = Known(nodes)]
    /\ pc' = [pc EXCEPT ![p] = "merge"]
    /\ UNCHANGED <<phase, list, cfg, unread, disk, watch, items, added, bounds, tls>>

\* One turn of MergeIntoManager's loop; added counts what AddNode was given.
MergeItem(p) ==
    /\ pc[p] = "merge" /\ items[p] # <<>>
    /\ LET it == Head(items[p])
           u  == Trim[it.url]
       IN IF it.usable /\ u \notin existing[p]
          THEN /\ existing' = [existing EXCEPT ![p] = @ \cup {u}]
               /\ nodes' = AddNode(nodes, u)
               /\ added' = [added EXCEPT ![p] = @ + 1]
          ELSE UNCHANGED <<existing, nodes, added>>
    /\ items' = [items EXCEPT ![p] = Tail(@)]
    /\ UNCHANGED <<phase, applied, cfg, unread, disk, watch, pc, bounds, tls>>

MergeEnd(p) ==
    /\ pc[p] = "merge" /\ items[p] = <<>>
    /\ IF p = Main /\ added[p] > 0
       THEN pc' = [pc EXCEPT ![p] = "save"] /\ UNCHANGED <<phase, items, existing, added>>
       ELSE Idle(p) /\ phase' = IF p = Main THEN AfterFetch ELSE phase
    /\ UNCHANGED <<list, cfg, unread, disk, watch, bounds, tls>>

\* os.WriteFile truncates nodes.json, then writes it.
SaveOpen ==
    /\ pc[Main] = "save"
    /\ file' = [state |-> "torn", urls |-> <<>>]
    /\ pc' = [pc EXCEPT ![Main] = "write"]
    /\ UNCHANGED <<phase, list, cfg, unread, conf, watch, items, existing, added, bounds, tls>>

SaveFails ==
    /\ pc[Main] \in {"save", "write"}
    /\ Idle(Main) /\ phase' = AfterFetch
    /\ UNCHANGED <<list, cfg, unread, disk, watch, bounds, tls>>

SaveWrite ==
    /\ pc[Main] = "write"
    /\ file' = [state |-> "whole", urls |-> nodes]
    /\ Idle(Main) /\ phase' = AfterFetch
    /\ UNCHANGED <<list, cfg, unread, conf, watch, bounds, tls>>

-----------------------------------------------------------------------------
(* The watcher.                                                             *)

\* A Load that fails has taken its event; what nodes.yaml says is lost with it,
\* unless more is being written.
WatcherLoad ==
    /\ phase = "up" /\ events > 0 /\ newCfg = <<>> /\ ~reloading
    /\ events' = events - 1
    /\ \/ /\ \E c \in Readable : newCfg' = <<c>>
          /\ missed' = (missed /\ ~conf.whole)
       \/ /\ UNCHANGED newCfg
          /\ missed' = (missed \/ conf.whole)
    /\ UNCHANGED <<phase, list, cfg, unread, disk, watching, reloading, merge, bounds, tls>>

\* *cfg = *newCfg: who reads the config now sees mirrors the list has not.
WatcherStore ==
    /\ newCfg # <<>>
    /\ cfg' = newCfg[1] /\ newCfg' = <<>> /\ reloading' = TRUE
    /\ UNCHANGED <<phase, list, unread, disk, watching, events, missed, merge, bounds, tls>>

\* After a reload the watcher throws away what queued up meanwhile.
Waiting_drained == 0
Waiting         == events

\* ReloadNodes: nodes from anywhere else go.
WatcherReload ==
    /\ reloading
    /\ nodes' = Reloaded(cfg) /\ applied' = cfg
    /\ reloading' = FALSE
    /\ events' = Waiting
    /\ UNCHANGED <<phase, cfg, unread, disk, watching, newCfg, missed, merge, bounds, tls>>

-----------------------------------------------------------------------------
(* The operator: an editor that truncates and rewrites the file, or one     *)
(* that renames a new file over it, which takes the inotify watch away.     *)

Notice == /\ events' = IF watching THEN events + 1 ELSE events
          /\ missed' = (missed \/ ~watching)

EditBegin ==
    /\ "inPlace" \in EditModes /\ conf.whole /\ edits < MaxEdits
    /\ conf' \in [text : Configs, whole : {FALSE}]
    /\ Notice
    /\ edits' = edits + 1
    /\ UNCHANGED <<phase, list, cfg, unread, file, watching, newCfg, reloading, merge, crashes, tls>>

EditEnd ==
    /\ ~conf.whole
    /\ conf' = [conf EXCEPT !.whole = TRUE]
    /\ Notice
    /\ UNCHANGED <<phase, list, cfg, unread, file, watching, newCfg, reloading, merge, bounds, tls>>

Replace ==
    /\ "replace" \in EditModes /\ conf.whole /\ edits < MaxEdits
    /\ conf' \in [text : Configs, whole : {TRUE}]
    /\ watching' = FALSE
    /\ missed' = TRUE
    /\ edits' = edits + 1
    /\ UNCHANGED <<phase, list, cfg, unread, file, events, newCfg, reloading, merge, crashes, tls>>

-----------------------------------------------------------------------------
Merge(p) == Snapshot(p) \/ MergeItem(p) \/ MergeEnd(p)
MainStep == Boot \/ StartWatcher \/ StartServers \/ Fetch(Main) \/ FetchFails \/ Merge(Main)
              \/ SaveOpen \/ SaveWrite \/ SaveFails
Watcher  == WatcherLoad \/ WatcherStore \/ WatcherReload
Operator == EditBegin \/ EditEnd \/ Replace

Next == \/ MainStep \/ Watcher \/ Operator \/ Crash \/ Year
        \/ \E p \in Handlers : Fetch(p) \/ Merge(p)

Spec == Init /\ [][Next]_vars

\* main and the watcher run when they can (the first fetch has a deadline),
\* and an editor that has begun to write a file finishes it.
LiveSpec == Spec /\ WF_vars(MainStep) /\ WF_vars(Watcher) /\ WF_vars(EditEnd)

-----------------------------------------------------------------------------
(* Properties                                                               *)

\* Types of the manager's, the disk's and the goroutines' state; the keys a
\* merge compares have lost their trailing slash.
TypeOK ==
    /\ phase \in {"down", "fetch", "watch", "up"}
    /\ nodes \in Seq(Urls) /\ applied \in Seq(Urls) /\ cfg \in Seq(Urls)
    /\ file \in [state : {"absent", "torn", "whole"}, urls : Seq(Urls)]
    /\ conf \in [text : Configs, whole : BOOLEAN]
    /\ watching \in BOOLEAN /\ events \in Nat
    /\ reloading \in BOOLEAN /\ missed \in BOOLEAN /\ unread \in BOOLEAN
    /\ newCfg = <<>> \/ (Len(newCfg) = 1 /\ newCfg[1] \in Seq(Urls))
    /\ pc \in [Procs -> {"idle", "fetch", "snapshot", "merge", "save", "write"}]
    /\ items \in [Procs -> Seq(Items)]
    /\ existing \in [Procs -> SUBSET {Trim[u] : u \in Urls}] /\ added \in [Procs -> Nat]
    /\ edits \in Nat /\ crashes \in Nat
    /\ TlsTypeOK

\* No URL gets into the list a second time, though several handlers merge at a
\* time, each from its own snapshot, and the watcher swaps the list under them.
\* (The configuration comes first, and may name a mirror for both registries.)
NoDuplicateUrl ==
    \A i, j \in DOMAIN nodes : i < j /\ nodes[i] = nodes[j] => j <= Len(applied)

\* The list has every mirror of one configuration, whatever the merges and the
\* reloads did in which order: of the one in memory or, only while the watcher
\* is between storing a new one and rebuilding the list, of the one before.
ConfigInForce ==
    /\ ToSet(applied) \subseteq ToSet(nodes)
    /\ cfg # applied => reloading

\* A mirror taken out of nodes.yaml is gone once the reload is through, unless
\* it is a persisted node, a database row or one the site serves: a merge under
\* way meanwhile brings back none of the old ones.
NoGhostMirror ==
    ToSet(nodes) \subseteq ToSet(applied) \cup DbUrls \cup FeedUrls \cup ToSet(file.urls)

\* A nodes.json that holds nodes is written again, at the risk of losing them,
\* only by a process that could not read it when it started: any other finds
\* its nodes and does not fetch.
NeverClobbers ==
    [][file.state = "whole" /\ file.urls # <<>> /\ ~unread => file' = file]_vars

\* No change of nodes.yaml under a live watch is lost but by a Load that fails:
\* until it is in memory, an event for it waits, or the watcher is about to
\* store that very text.
NoEditLost ==
    (phase = "up" /\ conf.whole /\ ~missed) =>
        events > 0 \/ newCfg = <<conf.text>> \/ (newCfg = <<>> /\ cfg = conf.text)

\* A start completes, also after a crash that left nodes.json or the certificate's
\* files torn, when nodes.json cannot be read, the status site does not answer or
\* a save fails.  (One that cannot load nodes.yaml does not count as a start.)
BootCompletes == phase = "down" ~> serving = "listening"

\* An edit made under a live watch takes effect in the list, unless another
\* edit, a loss of the watch, a Load that fails or a crash comes first.
WatchedEditTakesEffect ==
    (phase = "up" /\ conf.whole /\ ~missed)
        ~> ((cfg = conf.text /\ applied = cfg) \/ ~conf.whole \/ missed \/ phase # "up")

-----------------------------------------------------------------------------
(* What the documents say and the code does not do.                         *)

\* docs/deployment.md on hot reload: a change of nodes.yaml takes effect, so
\* one that is renamed into place does, too.
RenamedEditTakesEffect ==
    (phase = "up" /\ conf.whole /\ ~watching)
        ~> (cfg = conf.text \/ ~conf.whole \/ phase # "up")

\* README on persistence: nodes that were fetched outlive a restart.  Where
\* nodes.json can be written and no fetch is under way, a node is in a file the
\* next start reads.
FetchedArePersisted ==
    (phase = "up" /\ file.state = "whole" /\ \A p \in Procs : pc[p] = "idle") =>
        ToSet(nodes) \subseteq ToSet(applied) \cup DbUrls \cup ToSet(file.urls)
=============================================================================
