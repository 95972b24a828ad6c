----------------------------- MODULE BlobCache -----------------------------
(***************************************************************************)
(* The on-disk blob cache of internal/cache: files named by digest, an LRU *)
(* map of access times, two counters, one mutex.  Get looks at the disk    *)
(* before it takes the mutex; Put holds the mutex while it evicts, copies  *)
(* and renames; a crash of the process loses the memory and keeps the disk.*)
(***************************************************************************)
EXTENDS Integers, FiniteSets, Functions

CONSTANTS
    Procs,       \* goroutines that call the cache
    NoProc,      \* "nobody holds the mutex"
    Digests,     \* blob digests
    Deliveries,  \* what a caller may hand to Put: digest, declared size, bytes
    Limits,      \* values of maxSize a (re)start may be configured with
    Faults,      \* file operations that may fail
    MaxCrashes   \* bound on the crashes of one behaviour

FileOps == {"readdir", "info", "stat", "open", "unlink", "create", "copy", "rename"}

ASSUME CacheAssumption ==
    /\ NoProc \notin Procs
    /\ Digests # {} /\ IsFiniteSet(Digests)
    /\ Deliveries \subseteq [digest : Digests, size : Int, body : Nat]
    /\ Limits \subseteq Nat
    /\ Faults \subseteq FileOps
    /\ MaxCrashes \in Nat

VARIABLES
    phase,      \* no Cache, one that scans its directory, one in use
    crashes,    \* crashes so far
    blob,       \* digests with a .blob file
    len,        \* length of each .blob file, 0 when there is none
    tmp,        \* digests with a .blob.tmp file
    orphans,    \* history: .tmp files a start found, or a failed unlink left
    maxSize, usedSize, count,
    strayBytes, \* history: what the disk has beyond the two counters because
    strayFiles, \*   a scan or a Stat failed, negative what was counted twice
    accessed,   \* digests with an entry in accessTimes
    older,      \* strict order on stamps: <<s, t>> when s is earlier than t
    mu,         \* the holder of c.mu
    todo,       \* evictLocked: snapshot entries not yet visited
    short,      \* evictLocked: needed - freed
    pc, call    \* per goroutine: where it stands, and its arguments

disk   == <<blob, len, tmp>>
stats  == <<usedSize, count>>
stray  == <<strayBytes, strayFiles>>
lru    == <<accessed, older>>
evict  == <<todo, short>>
procs  == <<pc, call>>
life   == <<phase, crashes, maxSize, orphans>>
vars   == <<life, disk, stats, stray, lru, mu, evict, procs>>

(***************************************************************************)
(* Time is kept as an order of events, so it needs no bound: Access(d) is  *)
(* the time accessTimes holds for d, Written(d) the modification time of   *)
(* d's file.                                                               *)
(***************************************************************************)
Access(d)  == <<"access", d>>
Written(d) == <<"written", d>>
Stamps     == {"access", "written"} \X Digests

Live == {Access(d) : d \in accessed} \cup {Written(d) : d \in blob}

Forget(rel, S)  == {r \in rel : r[1] \notin S /\ r[2] \notin S}
Restamp(rel, s) == Forget(rel, {s}) \cup ((Live \ {s}) \X {s})

\* Access(d) takes the place Written(d) has in the order.
StampAsWritten(rel, d) ==
    LET base == Forget(rel, {Access(d)}) IN
    base \cup {r \in Stamps \X Stamps :
                \/ r[2] = Access(d) /\ <<r[1], Written(d)>> \in base
                \/ r[1] = Access(d) /\ <<Written(d), r[2]>> \in base}

Touch_once(d) == /\ accessed' = accessed \cup {d}
                 /\ older' = IF d \in accessed THEN older ELSE Restamp(older, Access(d))
Touch(d)      == /\ accessed' = accessed \cup {d}
                 /\ older' = Restamp(older, Access(d))

\* The timestamp evictLocked sorts by: accessTimes, else the file's ModTime.
Ts(d)     == IF d \in accessed THEN Access(d) ELSE Written(d)
Oldest(S) == {d \in S : \A e \in S : <<Ts(e), Ts(d)>> \notin older}

PCs == {"idle", "getOpen", "getTouch", "putLock", "evict", "putCreate",
        "putCopy", "putRename", "putAccount", "removeLock"}
InLock == {"evict", "putCreate", "putCopy", "putRename", "putAccount"}

Calls == [digest : Digests, size : Int, body : Nat]
Blank == [digest |-> CHOOSE d \in Digests : TRUE, size |-> 0, body |-> 0]

Goto(p, l)     == pc' = [pc EXCEPT ![p] = l] /\ UNCHANGED call
Enter(p, l, c) == pc' = [pc EXCEPT ![p] = l] /\ call' = [call EXCEPT ![p] = c]
Return(p)      == Enter(p, "idle", Blank)

(***************************************************************************)
(* Pieces of the actions.  An operator whose name has an underscore is the *)
(* next one with a programming error in it: no action uses it, and the     *)
(* properties must tell it from the real one.                              *)
(***************************************************************************)
CanLock_always == TRUE
CanLock        == mu = NoProc
Unlock         == mu' = NoProc

Fits_full(c)        == usedSize <= maxSize
Fits(c)             == usedSize + c.size <= maxSize
Shortfall(c)        == usedSize + c.size - maxSize
StillShort_orEven   == short >= 0
StillShort          == short > 0

WriteTmp_inPlace(d) == blob' = blob \cup {d} /\ UNCHANGED tmp
WriteTmp(d)         == tmp' = tmp \cup {d} /\ UNCHANGED blob

\* A failed Put takes its temporary file away; that may fail in turn.
DiscardTmp_not(d) == UNCHANGED <<tmp, orphans>>
DiscardTmp(d) ==
    \/ tmp' = tmp \ {d} /\ UNCHANGED orphans
    \/ "unlink" \in Faults /\ orphans' = orphans \cup {d} /\ UNCHANGED tmp

Discount_keepsSize(d)  == usedSize' = usedSize /\ count' = count - 1
Discount_keepsCount(d) == usedSize' = usedSize - len[d] /\ count' = count
Discount(d)            == usedSize' = usedSize - len[d] /\ count' = count - 1

\* The file goes, the counters follow, its access time is forgotten.
DropFile(d) ==
    /\ blob' = blob \ {d}
    /\ len' = [len EXCEPT ![d] = 0]
    /\ Discount(d)
    /\ accessed' = accessed \ {d}
    /\ older' = Forget(older, {Access(d), Written(d)})

-----------------------------------------------------------------------------
Init ==
    /\ phase = "down" /\ crashes = 0 /\ maxSize = 0 /\ orphans = {}
    /\ blob = {} /\ tmp = {} /\ len = [d \in Digests |-> 0]
    /\ usedSize = 0 /\ count = 0 /\ strayBytes = 0 /\ strayFiles = 0
    /\ accessed = {} /\ older = {}
    /\ mu = NoProc /\ todo = {} /\ short = 0
    /\ pc = [p \in Procs |-> "idle"] /\ call = [p \in Procs |-> Blank]

\* NewCache, then scanExisting: .blob files are counted and given their
\* modification time as access time; names in .tmp are passed over.  If ReadDir
\* fails the cache goes up all the same, with nothing counted.
Start ==
    /\ phase = "down"
    /\ maxSize' \in Limits
    /\ orphans' = tmp
    /\ \/ phase' = "scan" /\ todo' = blob /\ UNCHANGED stray
       \/ /\ "readdir" \in Faults
          /\ phase' = "up"
          /\ strayBytes' = SumFunctionOnSet(len, blob)
          /\ strayFiles' = Cardinality(blob)
          /\ UNCHANGED todo
    /\ UNCHANGED <<crashes, disk, stats, lru, mu, short, procs>>

ScanFile ==
    /\ phase = "scan"
    /\ \E d \in todo :
          /\ todo' = todo \ {d}
          /\ usedSize' = usedSize + len[d]
          /\ count' = count + 1
          /\ accessed' = accessed \cup {d}
          /\ older' = StampAsWritten(older, d)
    /\ UNCHANGED <<life, disk, stray, mu, short, procs>>

\* Info fails: the loop goes on with the next file.
ScanSkip ==
    /\ phase = "scan" /\ "info" \in Faults
    /\ \E d \in todo :
          /\ todo' = todo \ {d}
          /\ strayBytes' = strayBytes + len[d]
          /\ strayFiles' = strayFiles + 1
    /\ UNCHANGED <<life, disk, stats, lru, mu, short, procs>>

ScanDone ==
    /\ phase = "scan" /\ todo = {}
    /\ phase' = "up"
    /\ UNCHANGED <<crashes, maxSize, orphans, disk, stats, stray, lru, mu, evict, procs>>

\* The process dies: files stay, memory and callers go.
Crash ==
    /\ phase # "down" /\ crashes < MaxCrashes
    /\ phase' = "down" /\ crashes' = crashes + 1
    /\ usedSize' = 0 /\ count' = 0 /\ strayBytes' = 0 /\ strayFiles' = 0
    /\ accessed' = {}
    /\ older' = Forget(older, {Access(d) : d \in Digests})
    /\ mu' = NoProc /\ todo' = {} /\ short' = 0
    /\ pc' = [p \in Procs |-> "idle"] /\ call' = [p \in Procs |-> Blank]
    /\ UNCHANGED <<maxSize, orphans, disk>>

-----------------------------------------------------------------------------
(* Get: Stat, Open, then the touch under the mutex.  call.size is the size  *)
(* the caller will be told, call.body the length of the file it opened.  A  *)
(* Get whose Stat finds nothing or fails is over without a step.            *)

Miss_ignored(p) == Enter(p, "getTouch", [call[p] EXCEPT !.body = -1])
Miss(p)         == Return(p)

GetStat(p, d) ==
    /\ phase = "up" /\ pc[p] = "idle" /\ d \in blob
    /\ Enter(p, "getOpen", [digest |-> d, size |-> len[d], body |-> 0])
    /\ UNCHANGED <<life, disk, stats, stray, lru, mu, evict>>

GetOpen(p) ==
    LET d == call[p].digest IN
    /\ pc[p] = "getOpen"
    /\ \/ d \in blob /\ Enter(p, "getTouch", [call[p] EXCEPT !.body = len[d]])
       \/ (d \notin blob \/ "open" \in Faults) /\ Miss(p)
    /\ UNCHANGED <<life, disk, stats, stray, lru, mu, evict>>

\* The file may have been evicted since Open: the entry is made all the same.
GetTouch(p) ==
    /\ pc[p] = "getTouch" /\ CanLock
    /\ Touch(call[p].digest)
    /\ Return(p)
    /\ UNCHANGED <<life, disk, stats, stray, mu, evict>>

-----------------------------------------------------------------------------
(* Put                                                                      *)

PutCall(p, c) ==
    /\ phase = "up" /\ pc[p] = "idle"
    /\ Enter(p, "putLock", c)
    /\ UNCHANGED <<life, disk, stats, stray, lru, mu, evict>>

PutPresent(p) ==
    LET d == call[p].digest IN
    /\ pc[p] = "putLock" /\ CanLock /\ d \in blob
    /\ Touch(d)
    /\ Return(p)
    /\ UNCHANGED <<life, disk, stats, stray, mu, evict>>

\* Any error of Stat counts as "not there", so a file may be written again.
LooksAbsent(d) == d \notin blob \/ "stat" \in Faults

PutFits(p) ==
    /\ pc[p] = "putLock" /\ CanLock /\ LooksAbsent(call[p].digest)
    /\ Fits(call[p])
    /\ mu' = p
    /\ Goto(p, "putCreate")
    /\ UNCHANGED <<life, disk, stats, stray, lru, evict>>

\* The directory as evictLocked reads it: files whose Info fails are left out.
Snapshots == IF "info" \in Faults THEN SUBSET blob ELSE {blob}

\* ReadDir of evictLocked, or its two early error returns.
PutNeedsRoom(p) ==
    /\ pc[p] = "putLock" /\ CanLock /\ LooksAbsent(call[p].digest)
    /\ ~Fits(call[p])
    /\ \/ /\ mu' = p
          /\ todo' \in Snapshots \ {{}}
          /\ short' = Shortfall(call[p])
          /\ Goto(p, "evict")
       \/ /\ {} \in Snapshots \/ "readdir" \in Faults
          /\ Return(p)
          /\ UNCHANGED <<mu, evict>>
    /\ UNCHANGED <<life, disk, stats, stray, lru>>

EvictOldest(p) ==
    /\ pc[p] = "evict" /\ StillShort
    /\ \E d \in Oldest(todo) :
          /\ todo' = todo \ {d}
          /\ short' = short - len[d]
          /\ DropFile(d)
    /\ UNCHANGED <<life, tmp, stray, mu, procs>>

\* os.Remove fails: the loop goes on with the next file.
EvictSkip(p) ==
    /\ pc[p] = "evict" /\ StillShort /\ "unlink" \in Faults
    /\ \E d \in Oldest(todo) : todo' = todo \ {d}
    /\ UNCHANGED <<life, disk, stats, stray, lru, mu, short, procs>>

EvictDone(p) ==
    /\ pc[p] = "evict" /\ (~StillShort \/ todo = {})
    /\ IF ~Fits(call[p])
       THEN Unlock /\ Return(p)
       ELSE Goto(p, "putCreate") /\ UNCHANGED mu
    /\ todo' = {} /\ short' = 0
    /\ UNCHANGED <<life, disk, stats, stray, lru>>

PutCreate(p) ==
    /\ pc[p] = "putCreate"
    /\ \/ WriteTmp(call[p].digest) /\ Goto(p, "putCopy") /\ UNCHANGED mu
       \/ "create" \in Faults /\ Unlock /\ Return(p) /\ UNCHANGED <<blob, tmp>>
    /\ UNCHANGED <<life, len, stats, stray, lru, evict>>

GiveUp_locked(p) ==
    /\ DiscardTmp(call[p].digest)
    /\ Return(p)
    /\ UNCHANGED <<blob, len, lru, mu>>
GiveUp(p) ==
    /\ DiscardTmp(call[p].digest)
    /\ Unlock /\ Return(p)
    /\ UNCHANGED <<blob, len, lru>>

PutCopy(p) ==
    /\ pc[p] = "putCopy"
    /\ \/ Goto(p, "putRename") /\ UNCHANGED <<orphans, disk, lru, mu>>
       \/ "copy" \in Faults /\ GiveUp(p)
    /\ UNCHANGED <<phase, crashes, maxSize, stats, stray, evict>>

\* A file that was there already is replaced; the counters keep its share.
PutRename(p) ==
    LET d == call[p].digest IN
    /\ pc[p] = "putRename"
    /\ \/ /\ blob' = blob \cup {d}
          /\ len' = [len EXCEPT ![d] = call[p].body]
          /\ tmp' = tmp \ {d}
          /\ older' = Restamp(older, Written(d))
          /\ IF d \in blob
             THEN strayBytes' = strayBytes - len[d] /\ strayFiles' = strayFiles - 1
             ELSE UNCHANGED stray
          /\ Goto(p, "putAccount")
          /\ UNCHANGED <<orphans, mu, accessed>>
       \/ "rename" \in Faults /\ GiveUp(p) /\ UNCHANGED stray
    /\ UNCHANGED <<phase, crashes, maxSize, stats, evict>>

PutAccount(p) ==
    /\ pc[p] = "putAccount"
    /\ usedSize' = usedSize + call[p].body
    /\ count' = count + 1
    /\ Touch(call[p].digest)
    /\ Unlock /\ Return(p)
    /\ UNCHANGED <<life, disk, stray, evict>>

-----------------------------------------------------------------------------
RemoveCall(p, d) ==
    /\ phase = "up" /\ pc[p] = "idle"
    /\ Enter(p, "removeLock", [Blank EXCEPT !.digest = d])
    /\ UNCHANGED <<life, disk, stats, stray, lru, mu, evict>>

Remove(p) ==
    LET d == call[p].digest IN
    /\ pc[p] = "removeLock" /\ CanLock
    /\ \/ d \in blob /\ DropFile(d)
       \/ /\ d \notin blob \/ {"stat", "unlink"} \cap Faults # {}
          /\ UNCHANGED <<blob, len, stats, lru>>
    /\ Return(p)
    /\ UNCHANGED <<life, tmp, stray, mu, evict>>

-----------------------------------------------------------------------------
\* What a goroutine does on its own once it has, or does not need, the mutex.
Proceed(p) == \/ GetOpen(p) \/ EvictOldest(p) \/ EvictSkip(p) \/ EvictDone(p)
              \/ PutCreate(p) \/ PutCopy(p) \/ PutRename(p) \/ PutAccount(p)
\* Steps that begin with c.mu.Lock().
Acquire(p) == GetTouch(p) \/ PutPresent(p) \/ PutFits(p) \/ PutNeedsRoom(p)
                \/ Remove(p)
Begin(p)   == \/ \E d \in Digests : GetStat(p, d) \/ RemoveCall(p, d)
              \/ \E c \in Deliveries : PutCall(p, c)

Next == \/ Start \/ ScanFile \/ ScanSkip \/ ScanDone \/ Crash
        \/ \E p \in Procs : Begin(p) \/ Acquire(p) \/ Proceed(p)

Spec == Init /\ [][Next]_vars

\* A goroutine that can run runs, a reader handed to Put ends or fails, and
\* sync.Mutex hands the lock to a waiter that has waited too long.
LiveSpec == Spec /\ \A p \in Procs : WF_vars(Proceed(p)) /\ SF_vars(Acquire(p))

-----------------------------------------------------------------------------
(* Properties                                                               *)

\* Types of the state of a Cache and of its callers.
TypeOK ==
    /\ phase \in {"down", "scan", "up"} /\ crashes \in Nat /\ maxSize \in Nat
    /\ blob \subseteq Digests /\ tmp \subseteq Digests /\ orphans \subseteq Digests
    /\ len \in [Digests -> Nat]
    /\ usedSize \in Int /\ count \in Int /\ strayBytes \in Int /\ strayFiles \in Int
    /\ accessed \subseteq Digests /\ older \subseteq Stamps \X Stamps
    /\ mu \in Procs \cup {NoProc}
    /\ todo \subseteq Digests /\ short \in Int
    /\ pc \in [Procs -> PCs] /\ call \in [Procs -> Calls]

\* The file a goroutine has renamed into place and not yet accounted for.
Unaccounted == {call[p].digest : p \in {q \in Procs : pc[q] = "putAccount"}}

\* The files the counters are about: those scanned so far, later all but the
\* one a Put is about to account for.
Counted == CASE phase = "down" -> {}
             [] phase = "scan" -> blob \ todo
             [] phase = "up"   -> blob \ Unaccounted
Bytes(S) == SumFunctionOnSet(len, S)

\* usedSize and count, kept by increments, agree with the disk after every way
\* a call can end, eviction, failed copy, Remove and restart, but for what two
\* ignored errors lead astray: files a scan could not read, which the counters
\* never saw, and files a Put whose Stat failed wrote again, which they saw
\* twice.  No other step adds to that difference, and none makes it good
\* before the next start.
UsedSizeExact == usedSize + strayBytes = Bytes(Counted)
CountExact    == count + strayFiles = Cardinality(Counted)

\* At most one goroutine is in the part of Put that c.mu protects, and it is
\* the holder the mutex records.
MutualExclusion == \A p \in Procs : pc[p] \in InLock <=> mu = p

\* A Put never leaves the cache above its limit: usedSize grows only up to
\* maxSize.  (A start under a smaller limit may find more than that on disk.)
PutWithinLimit ==
    [][(phase = "up" /\ usedSize' > usedSize) => usedSize' <= maxSize]_vars

\* Get reports the length of the very file it opened, and that file is one
\* complete delivery: no reader sees a blob that is still being written, or
\* one cut short by a crash.
HitIsWhole ==
    \A p \in Procs : pc[p] = "getTouch" =>
        \E c \in Deliveries : /\ c.digest = call[p].digest
                              /\ c.body = call[p].body
                              /\ c.body = call[p].size

\* Whenever the mutex is free, the time evictLocked would sort a cached file by
\* is no earlier than the file itself: an entry left behind by a Get that lost
\* a race with an eviction never ages a later copy of that blob.  (A file the
\* scan overlooked has no entry and goes by its modification time.)
AccessIsCurrent ==
    (phase = "up" /\ mu = NoProc) => \A d \in blob : <<Ts(d), Written(d)>> \notin older

\* evictLocked removes a file only when the call that pays for it does not fit
\* yet, and then one no younger than any file it could read, has not tried and
\* leaves in place.
EvictsOldestOnDemand ==
    [][\A p \in Procs : (pc[p] = "evict" /\ blob' # blob) =>
          /\ usedSize + call[p].size > maxSize
          /\ \A d \in blob \ blob' : \A e \in todo' : <<Ts(e), Ts(d)>> \notin older]_vars

\* Temporary files do not pile up: apart from those a crash or a failed unlink
\* left behind, the only one belongs to the Put that is running.
NoTmpLeak ==
    \A d \in tmp \ orphans :
        phase = "down" \/ \E p \in Procs : mu = p /\ call[p].digest = d

\* The cache implements the store of BlobStore: every step of it, scan, lookup,
\* eviction and copy included, is one step of the store or none.  A blob is in
\* the store once it has its name, counted or not; a reader holds its view
\* from its Open on; what went astray is what the store has overlooked.
LentTo(p) == IF pc[p] = "getTouch"
             THEN [digest |-> call[p].digest, told |-> call[p].size, body |-> call[p].body]
             ELSE <<>>
Store == INSTANCE BlobStore WITH
            Readers <- Procs, held <- blob, length <- len,
            isOpen <- phase = "up",
            limit <- IF phase = "up" THEN maxSize ELSE 0,
            overlooked <- IF phase = "up" THEN strayBytes ELSE 0,
            view <- [p \in Procs |-> LentTo(p)]
ImplementsBlobStore == Store!StoreSpec

\* Every call returns, unless the process dies under it.
CallsReturn == \A p \in Procs : pc[p] # "idle" ~> pc[p] = "idle"

-----------------------------------------------------------------------------
(* The inductive invariant behind them.  LockInv: what a goroutine inside   *)
(* Put knows about the disk, because everyone who changes the disk holds    *)
(* the mutex.  LruInv: no file passed by the scan or by a Put sorts before  *)
(* its own writing.  PutInv: the room a Put has made, and whose bytes a     *)
(* file holds.                                                              *)

LockInv ==
    /\ MutualExclusion
    /\ phase # "up" => \A p \in Procs : pc[p] = "idle"
    /\ todo \subseteq blob
    /\ phase # "scan" /\ (\A p \in Procs : pc[p] # "evict") => todo = {}
    /\ \A p \in Procs : pc[p] = "putAccount" => call[p].digest \in blob

LruInv ==
    /\ \A d \in Digests : <<Written(d), Written(d)>> \notin older
    /\ \A d \in Counted : d \in accessed => <<Access(d), Written(d)>> \notin older

\* d's bytes, as some caller of Put delivered them.
Delivered(d, n) == \E c \in Deliveries : c.digest = d /\ c.body = n

PutInv ==
    /\ \A d \in blob : Delivered(d, len[d])
    /\ \A p \in Procs :
          /\ pc[p] \in InLock \cup {"putLock"} => call[p] \in Deliveries
          /\ pc[p] = "evict" => short = usedSize + call[p].size - maxSize
          /\ pc[p] \in InLock \ {"evict"} => usedSize + call[p].size <= maxSize
          /\ pc[p] \in {"getOpen", "getTouch"} => Delivered(call[p].digest, call[p].size)
          /\ pc[p] = "getTouch" => Delivered(call[p].digest, call[p].body)

\* A temporary file that no start found and no failed unlink left is one some
\* Put is writing.
TmpInv ==
    \A d \in tmp \ orphans :
        \/ phase = "down"
        \/ \E p \in Procs : pc[p] \in {"putCopy", "putRename"} /\ call[p].digest = d

\* A start begins with nothing, and what it counts or overlooks is there.
ScanInv ==
    /\ phase = "down" => stats = <<0, 0>> /\ stray = <<0, 0>> /\ accessed = {}
    /\ phase = "scan" => usedSize >= 0 /\ strayBytes >= 0 /\ accessed \cap todo = {}

\* Between the rename and the accounting the new file has the bytes that will
\* be added for it.
UsedInv ==
    /\ UsedSizeExact
    /\ \A p \in Procs : pc[p] = "putAccount" => len[call[p].digest] = call[p].body

\* The invariant the proofs use: who is inside Put, what it may assume of the
\* disk, what a start has found, the counters and the access times of the files
\* it has passed, the room a Put has secured, and whose the temporary files are.
IInv == TypeOK /\ LockInv /\ ScanInv /\ LruInv /\ CountExact /\ UsedInv /\ PutInv /\ TmpInv

\* Two assumptions on the callers of Put that some theorems need: they declare
\* the true size, and deliver the same bytes for the same digest.
HonestSizes == \A c \in Deliveries : c.size = c.body
SameBytes   == \A c, e \in Deliveries : c.digest = e.digest => c.body = e.body
=============================================================================
