-------------------------- MODULE BlobCacheProofs --------------------------
(* What holds of BlobCache for every number of goroutines, blobs and sizes. *)
EXTENDS BlobCache, SumTheorems

USE DEF Access, Written, CanLock, Unlock, Fits, Shortfall, StillShort, WriteTmp, DiscardTmp,
        Discount, DropFile, Miss

\* The sets the state is built from are what TypeOK says they are.
LEMMA BlankIsCall == Blank \in Calls
BY CacheAssumption DEF Blank, Calls

LEMMA RestampType ==
    ASSUME TypeOK, NEW s \in Stamps
    PROVE  Restamp(older, s) \subseteq Stamps \X Stamps
<1>1. Live \subseteq Stamps
  BY DEF TypeOK, Live, Stamps
<1> QED
  BY <1>1 DEF TypeOK, Restamp, Forget

\* Every sum over files is a sum of natural numbers over a finite set.
LEMMA BytesType ==
    ASSUME TypeOK, NEW S \in SUBSET Digests
    PROVE  IsFiniteSet(S) /\ NatOn(len, S) /\ Bytes(S) \in Nat
<1>1. IsFiniteSet(S) /\ NatOn(len, S)
  BY CacheAssumption, FS_Subset DEF TypeOK, NatOn
<1> QED BY <1>1, SumType DEF Bytes

\* Every state is well typed: counters are integers, files and access times
\* are those of digests, every goroutine is at a point of Get, Put or Remove.
THEOREM TypeCorrect == Spec => []TypeOK
<1>1. Init => TypeOK
  BY BlankIsCall, CacheAssumption DEF Init, TypeOK, PCs
<1>2. TypeOK /\ [Next]_vars => TypeOK'
  <2> SUFFICES ASSUME TypeOK, [Next]_vars PROVE TypeOK'
    OBVIOUS
  <2> USE BlankIsCall, CacheAssumption DEF TypeOK
  <2>1. CASE Start
    <3>1. blob \in SUBSET Digests /\ IsFiniteSet(blob)
      BY CacheAssumption, FS_Subset
    <3>2. Bytes(blob) \in Nat /\ Cardinality(blob) \in Nat
      BY <3>1, BytesType, FS_CardinalityType
    <3> QED BY <2>1, <3>2, CacheAssumption DEF Start, Bytes, disk, stats, stray, lru, procs
  <2>2. CASE ScanFile
    <3>1. PICK d \in todo : /\ todo' = todo \ {d}
                            /\ usedSize' = usedSize + len[d]
                            /\ count' = count + 1
                            /\ accessed' = accessed \cup {d}
                            /\ older' = StampAsWritten(older, d)
      BY <2>2 DEF ScanFile
    <3>2. d \in Digests /\ len[d] \in Nat
      BY <3>1
    <3>3. older' \subseteq Stamps \X Stamps
      BY <3>1 DEF StampAsWritten, Forget
    <3> QED
      BY <2>2, <3>1, <3>2, <3>3 DEF ScanFile, life, disk, stray, procs
  <2>2a. CASE ScanSkip
    <3>1. PICK d \in todo : /\ todo' = todo \ {d}
                            /\ strayBytes' = strayBytes + len[d]
                            /\ strayFiles' = strayFiles + 1
      BY <2>2a DEF ScanSkip
    <3>2. d \in Digests /\ len[d] \in Nat
      BY <3>1
    <3> QED
      BY <2>2a, <3>1, <3>2 DEF ScanSkip, life, disk, stats, lru, procs
  <2>3. CASE ScanDone
    BY <2>3 DEF ScanDone, disk, stats, stray, lru, evict, procs
  <2>4. CASE Crash
    BY <2>4 DEF Crash, disk, Forget, PCs
  <2>5. ASSUME NEW p \in Procs, Begin(p) PROVE TypeOK'
    <3>1. CASE \E d \in Digests : GetStat(p, d)
      BY <3>1 DEF GetStat, Enter, Calls, life, disk, stats, stray, lru, evict, PCs
    <3>2. CASE \E d \in Digests : RemoveCall(p, d)
      BY <3>2 DEF RemoveCall, Enter, Calls, life, disk, stats, stray, lru, evict, PCs
    <3>3. CASE \E c \in Deliveries : PutCall(p, c)
      BY <3>3 DEF PutCall, Enter, Calls, life, disk, stats, stray, lru, evict, PCs
    <3> QED BY <2>5, <3>1, <3>2, <3>3 DEF Begin
  <2>6. ASSUME NEW p \in Procs, Acquire(p) PROVE TypeOK'
    <3> DEFINE d == call[p].digest
    <3>0. d \in Digests /\ call[p].size \in Int /\ len[d] \in Nat
      BY DEF Calls
    <3>1. CASE GetTouch(p)
      <4>1. older' \subseteq Stamps \X Stamps
        BY <3>0, <3>1, RestampType DEF GetTouch, Touch, Stamps
      <4> QED BY <3>0, <3>1, <4>1 DEF GetTouch, Touch, Return, Enter, life, disk, stats, stray, evict, PCs
    <3>2. CASE PutPresent(p)
      <4>1. older' \subseteq Stamps \X Stamps
        BY <3>0, <3>2, RestampType DEF PutPresent, Touch, Stamps
      <4> QED BY <3>0, <3>2, <4>1 DEF PutPresent, Touch, Return, Enter, life, disk, stats, stray, evict, PCs
    <3>3. CASE PutFits(p)
      BY <3>0, <3>3 DEF PutFits, Goto, life, disk, stats, stray, lru, evict, PCs
    <3>4. CASE PutNeedsRoom(p)
      <4>1. todo' \subseteq Digests /\ short' \in Int
        BY <3>0, <3>4 DEF PutNeedsRoom, Snapshots, evict
      <4> QED
        BY <3>0, <3>4, <4>1 DEF PutNeedsRoom, Goto, Return, Enter, life, disk, stats, stray, lru, PCs
    <3>5. CASE Remove(p)
      <4>1. older' \subseteq Stamps \X Stamps
        BY <3>5 DEF Remove, Forget, lru
      <4>2. blob' \subseteq Digests /\ len' \in [Digests -> Nat] /\ usedSize' \in Int
              /\ count' \in Int /\ accessed' \subseteq Digests
        BY <3>0, <3>5 DEF Remove, stats, stray, lru
      <4> QED BY <3>5, <4>1, <4>2 DEF Remove, Return, Enter, life, stray, evict, PCs
    <3> QED BY <2>6, <3>1, <3>2, <3>3, <3>4, <3>5 DEF Acquire
  <2>7. ASSUME NEW p \in Procs, Proceed(p) PROVE TypeOK'
    <3>0. call[p].digest \in Digests /\ call[p].size \in Int /\ call[p].body \in Nat
      BY DEF Calls
    <3>1. CASE GetOpen(p)
      <4>1. [call[p] EXCEPT !.body = len[call[p].digest]] \in Calls
        BY <3>0 DEF Calls
      <4> QED BY <3>1, <4>1 DEF GetOpen, Return, Enter, life, disk, stats, stray, lru, evict, PCs
    <3>2. CASE EvictOldest(p)
      <4>1. PICK d \in Oldest(todo) :
              /\ todo' = todo \ {d}
              /\ short' = short - len[d]
              /\ blob' = blob \ {d}
              /\ len' = [len EXCEPT ![d] = 0]
              /\ usedSize' = usedSize - len[d]
              /\ count' = count - 1
              /\ accessed' = accessed \ {d}
              /\ older' = Forget(older, {Access(d), Written(d)})
        BY <3>2 DEF EvictOldest
      <4>2. d \in Digests /\ len[d] \in Nat
        BY DEF Oldest
      <4>3. older' \subseteq Stamps \X Stamps
        BY <4>1 DEF Forget
      <4>4. blob' \subseteq Digests /\ len' \in [Digests -> Nat]
              /\ accessed' \subseteq Digests /\ todo' \subseteq Digests
        BY <4>1, <4>2
      <4>5. usedSize' \in Int /\ count' \in Int /\ short' \in Int
        BY <4>1, <4>2
      <4> QED BY <3>2, <4>3, <4>4, <4>5 DEF EvictOldest, life, stray, procs
    <3>3. CASE EvictSkip(p)
      BY <3>3 DEF EvictSkip, life, disk, stats, stray, lru, procs
    <3>4. CASE EvictDone(p)
      BY <3>4 DEF EvictDone, Return, Goto, Enter, life, disk, stats, stray, lru, PCs
    <3>5. CASE PutCreate(p)
      BY <3>0, <3>5 DEF PutCreate, Return, Goto, Enter, life, stats, stray, lru, evict, PCs
    <3>6. CASE PutCopy(p)
      BY <3>0, <3>6 DEF PutCopy, GiveUp, Return, Goto, Enter, life, disk, stats, stray, lru, evict, PCs
    <3>7. CASE PutRename(p)
      <4>1. older' \subseteq Stamps \X Stamps
        BY <3>0, <3>7, RestampType DEF PutRename, GiveUp, lru, Stamps
      <4>2. strayBytes' \in Int /\ strayFiles' \in Int
        BY <3>0, <3>7 DEF PutRename, stray
      <4>3. len' \in [Digests -> Nat] /\ blob' \subseteq Digests
        BY <3>0, <3>7 DEF PutRename, GiveUp
      <4> QED BY <3>0, <3>7, <4>1, <4>2, <4>3
              DEF PutRename, GiveUp, Return, Goto, Enter, life, stats, lru, evict, PCs
    <3>8. CASE PutAccount(p)
      <4>1. older' \subseteq Stamps \X Stamps
        BY <3>0, <3>8, RestampType DEF PutAccount, Touch, Stamps
      <4> QED BY <3>0, <3>8, <4>1 DEF PutAccount, Touch, Return, Enter, life, disk, stray, evict, PCs
    <3> QED BY <2>7, <3>1, <3>2, <3>3, <3>4, <3>5, <3>6, <3>7, <3>8 DEF Proceed
  <2>8. CASE UNCHANGED vars
    BY <2>8 DEF vars, life, disk, stats, stray, lru, evict, procs
  <2> QED BY <2>1, <2>2, <2>2a, <2>3, <2>4, <2>5, <2>6, <2>7, <2>8 DEF Next
<1> QED BY <1>1, <1>2, PTL DEF Spec

-----------------------------------------------------------------------------
(* The mutex and what its holder knows.                                     *)

LEMMA LockInit == Init => LockInv
BY CacheAssumption DEF Init, LockInv, MutualExclusion, InLock

\* A step of a goroutine outside the mutex leaves the disk alone; one inside
\* is alone there, so what it knows of the disk stays true of the others.
LEMMA LockStep == TypeOK /\ LockInv /\ [Next]_vars => LockInv'
<1> SUFFICES ASSUME TypeOK, LockInv, [Next]_vars PROVE LockInv'
  OBVIOUS
<1> USE CacheAssumption DEF TypeOK, LockInv, MutualExclusion, InLock
<1>1. CASE Start
  BY <1>1 DEF Start, disk, procs
<1>2. CASE ScanFile
  BY <1>2 DEF ScanFile, life, disk, procs
<1>2a. CASE ScanSkip
  BY <1>2a DEF ScanSkip, life, disk, procs
<1>3. CASE ScanDone
  BY <1>3 DEF ScanDone, disk, evict, procs
<1>4. CASE Crash
  BY <1>4 DEF Crash, disk
<1>5. ASSUME NEW p \in Procs, Begin(p) PROVE LockInv'
  <2>1. CASE \E d \in Digests : GetStat(p, d)
    BY <2>1 DEF GetStat, Enter, life, disk, evict
  <2>2. CASE \E d \in Digests : RemoveCall(p, d)
    BY <2>2 DEF RemoveCall, Enter, life, disk, evict
  <2>3. CASE \E c \in Deliveries : PutCall(p, c)
    BY <2>3 DEF PutCall, Enter, life, disk, evict
  <2> QED BY <1>5, <2>1, <2>2, <2>3 DEF Begin
<1>6. ASSUME NEW p \in Procs, Acquire(p) PROVE LockInv'
  <2>0. mu = NoProc /\ phase = "up" /\ todo = {}
        /\ \A q \in Procs : pc[q] \notin InLock
    <3>1. mu = NoProc /\ pc[p] # "idle"
      BY <1>6 DEF Acquire, GetTouch, PutPresent, PutFits, PutNeedsRoom, Remove
    <3> QED BY <3>1
  <2>1. CASE GetTouch(p)
    BY <2>0, <2>1 DEF GetTouch, Return, Enter, life, disk, evict
  <2>2. CASE PutPresent(p)
    BY <2>0, <2>2 DEF PutPresent, Return, Enter, life, disk, evict
  <2>3. CASE PutFits(p)
    BY <2>0, <2>3 DEF PutFits, Goto, life, disk, evict
  <2>4. CASE PutNeedsRoom(p)
    BY <2>0, <2>4 DEF PutNeedsRoom, Snapshots, Goto, Return, Enter, life, disk, evict
  <2>5. CASE Remove(p)
    BY <2>0, <2>5 DEF Remove, Return, Enter, life, evict
  <2> QED BY <1>6, <2>1, <2>2, <2>3, <2>4, <2>5 DEF Acquire
<1>7. ASSUME NEW p \in Procs, Proceed(p) PROVE LockInv'
  <2>1. CASE GetOpen(p)
    BY <2>1 DEF GetOpen, Return, Enter, life, disk, evict
  <2>2. ASSUME ~GetOpen(p)
        PROVE  /\ pc[p] \in InLock /\ mu = p /\ phase = "up"
               /\ \A q \in Procs \ {p} : pc[q] \notin InLock
    <3>1. pc[p] \in InLock
      BY <1>7, <2>2 DEF Proceed, EvictOldest, EvictSkip, EvictDone, PutCreate,
                        PutCopy, PutRename, PutAccount
    <3> QED BY <3>1
  <2>3. CASE EvictOldest(p)
    <3>1. pc[p] = "evict" BY <2>3 DEF EvictOldest
    <3> QED BY <2>2, <2>3, <3>1 DEF EvictOldest, GetOpen, life, procs
  <2>4. CASE EvictSkip(p)
    <3>1. pc[p] = "evict" BY <2>4 DEF EvictSkip
    <3> QED BY <2>2, <2>4, <3>1 DEF EvictSkip, GetOpen, life, disk, procs
  <2>5. CASE EvictDone(p)
    <3>1. pc[p] = "evict" BY <2>5 DEF EvictDone
    <3> QED BY <2>2, <2>5, <3>1 DEF EvictDone, GetOpen, Goto, Return, Enter, life, disk
  <2>6. CASE PutCreate(p)
    <3>1. pc[p] = "putCreate" BY <2>6 DEF PutCreate
    <3> QED BY <2>2, <2>6, <3>1 DEF PutCreate, GetOpen, Goto, Return, Enter, life, evict
  <2>7. CASE PutCopy(p)
    <3>1. pc[p] = "putCopy" BY <2>7 DEF PutCopy
    <3> QED BY <2>2, <2>7, <3>1 DEF PutCopy, GiveUp, GetOpen, Goto, Return, Enter, life, disk, evict
  <2>8. CASE PutRename(p)
    <3>1. pc[p] = "putRename" BY <2>8 DEF PutRename
    <3> QED BY <2>2, <2>8, <3>1 DEF PutRename, GiveUp, GetOpen, Goto, Return, Enter, life, evict
  <2>9. CASE PutAccount(p)
    <3>1. pc[p] = "putAccount" BY <2>9 DEF PutAccount
    <3> QED BY <2>2, <2>9, <3>1 DEF PutAccount, GetOpen, Return, Enter, life, disk, evict
  <2> QED BY <1>7, <2>1, <2>3, <2>4, <2>5, <2>6, <2>7, <2>8, <2>9 DEF Proceed
<1>8. CASE UNCHANGED vars
  BY <1>8 DEF vars, life, disk, evict, procs
<1> QED BY <1>1, <1>2, <1>2a, <1>3, <1>4, <1>5, <1>6, <1>7, <1>8 DEF Next

\* Put and evictLocked run under c.mu: at most one goroutine at a time is in
\* them, the one the mutex names.
THEOREM LockedSectionExclusive == Spec => []MutualExclusion
<1>1. LockInv => MutualExclusion
  BY DEF LockInv
<1> QED BY <1>1, LockInit, LockStep, TypeCorrect, PTL DEF Spec

-----------------------------------------------------------------------------
(* A start, and access times.                                               *)

LEMMA ScanInit == Init => ScanInv
BY DEF Init, ScanInv, stats, stray

\* Only a start counts and overlooks files while the cache is not in use.
LEMMA ScanStep == TypeOK /\ LockInv /\ ScanInv /\ [Next]_vars => ScanInv'
<1> SUFFICES ASSUME TypeOK, LockInv, ScanInv, [Next]_vars PROVE ScanInv'
  OBVIOUS
<1> USE DEF TypeOK, ScanInv
<1>1. CASE Start
  BY <1>1 DEF Start, stats, stray, lru
<1>2. CASE ScanFile
  BY <1>2 DEF ScanFile, life, stray
<1>3. CASE ScanSkip
  BY <1>3 DEF ScanSkip, life, stats, lru
<1>4. CASE ScanDone
  BY <1>4 DEF ScanDone
<1>5. CASE Crash
  BY <1>5 DEF Crash, stats, stray
<1>6. ASSUME NEW p \in Procs, Begin(p) \/ Acquire(p) \/ Proceed(p) PROVE ScanInv'
  <2>1. phase = "up" /\ phase' = phase
    BY <1>6 DEF LockInv, Begin, Acquire, Proceed, GetStat, RemoveCall, PutCall, GetTouch,
                PutPresent, PutFits, PutNeedsRoom, Remove, GetOpen, EvictOldest, EvictSkip,
                EvictDone, PutCreate, PutCopy, PutRename, PutAccount, life
  <2> QED BY <2>1
<1>7. CASE UNCHANGED vars
  BY <1>7 DEF vars, life, stats, stray, lru, evict
<1> QED BY <1>1, <1>2, <1>3, <1>4, <1>5, <1>6, <1>7 DEF Next


Current(d) == d \in accessed => <<Access(d), Written(d)>> \notin older

LEMMA LruInit == Init => LruInv
BY DEF Init, LruInv, Counted

\* Stamping d as just used makes it current and ages nobody else.
LEMMA TouchCurrent ==
    ASSUME TypeOK, NEW d \in Digests, Touch(d), blob' = blob,
           \A e \in Digests : <<Written(e), Written(e)>> \notin older
    PROVE  /\ Current(d)'
           /\ \A e \in Digests : Current(e) => Current(e)'
           /\ \A e \in Digests : <<Written(e), Written(e)>> \notin older'
BY DEF TypeOK, Touch, Current, Restamp, Forget, Stamps

\* The access times of the counted files stay current in every step.
LEMMA LruStep == TypeOK /\ LockInv /\ ScanInv /\ LruInv /\ [Next]_vars => LruInv'
<1> SUFFICES ASSUME TypeOK, LockInv, ScanInv, LruInv, [Next]_vars PROVE LruInv'
  OBVIOUS
<1> USE CacheAssumption DEF TypeOK, LockInv, MutualExclusion, InLock, LruInv
<1>1. CASE Start
  BY <1>1 DEF Start, ScanInv, disk, lru, procs, Counted, Unaccounted
<1>2. CASE ScanFile
  <2>1. PICK d \in todo : /\ todo' = todo \ {d}
                          /\ accessed' = accessed \cup {d}
                          /\ older' = StampAsWritten(older, d)
    BY <1>2 DEF ScanFile
  <2>2. d \in Digests /\ Counted' = Counted \cup {d}
        /\ phase = "scan" /\ phase' = "scan"
    BY <1>2, <2>1 DEF ScanFile, Counted, life, disk, procs
  <2>3. ASSUME NEW e \in Digests PROVE <<Written(e), Written(e)>> \notin older'
    <3>1. <<Written(e), Written(e)>> \notin older /\ Written(e) # Access(d)
      OBVIOUS
    <3> QED BY <2>1, <3>1 DEF StampAsWritten, Forget
  <2>4. \A e \in Digests \ {d} :
          <<Access(e), Written(e)>> \notin older => <<Access(e), Written(e)>> \notin older'
    BY <2>1 DEF StampAsWritten, Forget
  <2>5. <<Access(d), Written(d)>> \notin older'
    BY <2>1, <2>2 DEF StampAsWritten, Forget
  <2> QED BY <2>1, <2>2, <2>3, <2>4, <2>5
<1>2a. CASE ScanSkip
  <2>1. PICK d \in todo : todo' = todo \ {d}
    BY <1>2a DEF ScanSkip
  <2>2. /\ d \in Digests /\ Counted' = Counted \cup {d} /\ UNCHANGED <<accessed, older>>
        /\ phase = "scan"
    BY <1>2a, <2>1 DEF ScanSkip, Counted, life, disk, lru, procs
  <2>3. d \notin accessed
    BY <2>1, <2>2 DEF ScanInv
  <2> QED BY <2>2, <2>3
<1>3. CASE ScanDone
  BY <1>3 DEF ScanDone, disk, lru, evict, procs, Counted, Unaccounted
<1>4. CASE Crash
  BY <1>4 DEF Crash, Forget, Counted
<1>5. ASSUME NEW p \in Procs, Begin(p) PROVE LruInv'
  <2>1. Counted' = Counted /\ phase' = phase /\ UNCHANGED lru
    <3>1. CASE \E d \in Digests : GetStat(p, d)
      BY <3>1 DEF GetStat, Enter, Counted, Unaccounted, life, disk, evict
    <3>2. CASE \E d \in Digests : RemoveCall(p, d)
      BY <3>2 DEF RemoveCall, Enter, Counted, Unaccounted, life, disk, evict
    <3>3. CASE \E c \in Deliveries : PutCall(p, c)
      BY <3>3 DEF PutCall, Enter, Counted, Unaccounted, life, disk, evict
    <3> QED BY <1>5, <3>1, <3>2, <3>3 DEF Begin
  <2> QED BY <2>1 DEF lru
<1>6. ASSUME NEW p \in Procs, Acquire(p) PROVE LruInv'
  <2>0. /\ pc[p] # "putAccount" /\ phase = "up" /\ Counted = blob
        /\ call[p].digest \in Digests
    <3>1. mu = NoProc /\ pc[p] # "idle" /\ pc[p] # "putAccount"
      BY <1>6 DEF Acquire, GetTouch, PutPresent, PutFits, PutNeedsRoom, Remove
    <3> QED BY <3>1 DEF Counted, Unaccounted, Calls
  <2>1. CASE GetTouch(p)
    <3>1. Counted' = Counted /\ phase' = "up" /\ blob' = blob
      BY <2>0, <2>1 DEF GetTouch, Return, Enter, Counted, Unaccounted, life, disk
    <3>2. Counted \subseteq Digests BY DEF Counted
    <3> QED BY <2>0, <2>1, <3>1, <3>2, TouchCurrent DEF GetTouch, Current
  <2>2. CASE PutPresent(p)
    <3>1. Counted' = Counted /\ phase' = "up" /\ blob' = blob
      BY <2>0, <2>2 DEF PutPresent, Return, Enter, Counted, Unaccounted, life, disk
    <3>2. Counted \subseteq Digests BY DEF Counted
    <3> QED BY <2>0, <2>2, <3>1, <3>2, TouchCurrent DEF PutPresent, Current
  <2>3. CASE PutFits(p)
    BY <2>0, <2>3 DEF PutFits, Goto, Counted, Unaccounted, life, disk, lru
  <2>4. CASE PutNeedsRoom(p)
    BY <2>0, <2>4 DEF PutNeedsRoom, Goto, Return, Enter, Counted, Unaccounted, life, disk, lru
  <2>5. CASE Remove(p)
    BY <2>0, <2>5 DEF Remove, Return, Enter, Counted, Unaccounted, Forget, life, lru
  <2> QED BY <1>6, <2>1, <2>2, <2>3, <2>4, <2>5 DEF Acquire
<1>7. ASSUME NEW p \in Procs, Proceed(p) PROVE LruInv'
  <2>1. CASE GetOpen(p)
    BY <2>1 DEF GetOpen, Return, Enter, Counted, Unaccounted, life, disk, evict, lru
  <2>2. ASSUME pc[p] \in InLock
        PROVE  phase = "up" /\ call[p].digest \in Digests
               /\ \A q \in Procs \ {p} : pc[q] \notin InLock
    BY <2>2 DEF Calls
  <2>3. CASE EvictOldest(p)
    <3>1. pc[p] = "evict" BY <2>3 DEF EvictOldest
    <3>2. PICK d \in todo : /\ blob' = blob \ {d}
                            /\ accessed' = accessed \ {d}
                            /\ older' = Forget(older, {Access(d), Written(d)})
      BY <2>3 DEF EvictOldest, Oldest
    <3>3. Counted' = Counted \ {d} /\ phase' = "up"
      BY <2>2, <2>3, <3>1, <3>2 DEF EvictOldest, Counted, Unaccounted, life, procs
    <3> QED BY <3>2, <3>3, <2>2, <3>1 DEF Forget
  <2>4. CASE EvictSkip(p)
    <3>1. pc[p] = "evict" BY <2>4 DEF EvictSkip
    <3> QED BY <2>2, <2>4, <3>1 DEF EvictSkip, Counted, Unaccounted, life, disk, lru, procs
  <2>5. CASE EvictDone(p)
    <3>1. pc[p] = "evict" BY <2>5 DEF EvictDone
    <3> QED BY <2>2, <2>5, <3>1 DEF EvictDone, Goto, Return, Enter, Counted, Unaccounted, life, disk, lru
  <2>6. CASE PutCreate(p)
    <3>1. pc[p] = "putCreate" BY <2>6 DEF PutCreate
    <3> QED BY <2>2, <2>6, <3>1 DEF PutCreate, Goto, Return, Enter, Counted, Unaccounted, life, lru
  <2>7. CASE PutCopy(p)
    <3>1. pc[p] = "putCopy" BY <2>7 DEF PutCopy
    <3> QED BY <2>2, <2>7, <3>1 DEF PutCopy, GiveUp, Goto, Return, Enter, Counted, Unaccounted, life, disk, lru
  <2>8. CASE PutRename(p)
    <3>1. pc[p] = "putRename" BY <2>8 DEF PutRename
    <3>2. phase' = "up"
      BY <2>2, <2>8, <3>1 DEF PutRename, life
    <3>4. CASE /\ older' = Restamp(older, Written(call[p].digest)) /\ accessed' = accessed
               /\ blob' = blob \cup {call[p].digest} /\ Goto(p, "putAccount")
      <4>1. ASSUME NEW e \in Digests PROVE <<Written(e), Written(e)>> \notin older'
        <5>1. <<Written(e), Written(e)>> \notin older
          OBVIOUS
        <5> QED BY <3>4, <5>1 DEF Restamp, Forget
      <4>2. Counted' = Counted \ {call[p].digest}
        BY <2>2, <3>1, <3>2, <3>4 DEF Goto, Counted, Unaccounted
      <4>3. \A e \in Counted' : e \in accessed' => <<Access(e), Written(e)>> \notin older'
        <5> TAKE e \in Counted'
        <5>1. e \in Counted /\ Written(e) # Written(call[p].digest)
          BY <4>2
        <5>2. e \in accessed => <<Access(e), Written(e)>> \notin older
          BY <5>1
        <5> QED BY <3>4, <5>1, <5>2 DEF Restamp, Forget
      <4> QED BY <4>1, <4>3
    <3>5. CASE GiveUp(p)
      <4>1. Counted' = Counted /\ UNCHANGED lru
        BY <2>2, <3>1, <3>2, <3>5 DEF GiveUp, Return, Enter, Counted, Unaccounted
      <4> QED BY <4>1 DEF lru
    <3> QED BY <2>8, <3>4, <3>5 DEF PutRename
  <2>9. CASE PutAccount(p)
    <3>1. pc[p] = "putAccount" BY <2>9 DEF PutAccount
    <3>2. Counted' = Counted \cup {call[p].digest} /\ phase' = "up" /\ blob' = blob
      BY <2>2, <2>9, <3>1 DEF PutAccount, Return, Enter, Counted, Unaccounted, life, disk
    <3>3. Counted \subseteq Digests BY DEF Counted
    <3> QED BY <2>2, <2>9, <3>1, <3>2, <3>3, TouchCurrent DEF PutAccount, Current
  <2> QED BY <1>7, <2>1, <2>3, <2>4, <2>5, <2>6, <2>7, <2>8, <2>9 DEF Proceed
<1>8. CASE UNCHANGED vars
  BY <1>8 DEF vars, life, disk, lru, evict, procs, Counted, Unaccounted
<1> QED BY <1>1, <1>2, <1>2a, <1>3, <1>4, <1>5, <1>6, <1>7, <1>8 DEF Next

\* Whenever c.mu is free, no cached file would be sorted by a time before its
\* own writing: evictLocked never goes by an entry left from an earlier copy.
THEOREM AccessTimesCurrent == Spec => []AccessIsCurrent
<1>1. TypeOK /\ LockInv /\ LruInv => AccessIsCurrent
  <2> SUFFICES ASSUME TypeOK, LockInv, LruInv, phase = "up", mu = NoProc
               PROVE  \A d \in blob : <<Ts(d), Written(d)>> \notin older
    BY DEF AccessIsCurrent
  <2>1. \A p \in Procs : pc[p] # "putAccount"
    BY CacheAssumption DEF LockInv, MutualExclusion, InLock
  <2>2. Unaccounted = {}
    BY <2>1 DEF Unaccounted
  <2>3. Counted = blob
    BY <2>2 DEF Counted
  <2>4. blob \subseteq Digests
    BY DEF TypeOK
  <2> QED
    BY <2>3, <2>4 DEF LruInv, Ts
<1>2. Spec => []LockInv
  BY LockInit, LockStep, TypeCorrect, PTL DEF Spec
<1>3. Spec => []LruInv
  BY <1>2, ScanInit, ScanStep, LruInit, LruStep, TypeCorrect, PTL DEF Spec
<1> QED BY <1>1, <1>2, <1>3, TypeCorrect, PTL

-----------------------------------------------------------------------------
(* The file count.                                                          *)

LEMMA CountInit == Init => CountExact
BY FS_EmptySet DEF Init, CountExact, Counted

LEMMA CountedFinite == TypeOK => IsFiniteSet(Counted) /\ Cardinality(Counted) \in Nat
BY CacheAssumption, FS_Subset, FS_CardinalityType DEF TypeOK, Counted

\* One more file counted, or one less.
LEMMA CountChange ==
    ASSUME TypeOK, CountExact, NEW d,
           \/ /\ d \notin Counted /\ Counted' = Counted \cup {d}
              /\ (count + strayFiles)' = count + strayFiles + 1
           \/ /\ d \in Counted /\ Counted' = Counted \ {d}
              /\ (count + strayFiles)' = count + strayFiles - 1
    PROVE  CountExact'
<1>1. /\ IsFiniteSet(Counted) /\ Cardinality(Counted) \in Nat
      /\ count + strayFiles = Cardinality(Counted) /\ count \in Int /\ strayFiles \in Int
  BY CountedFinite DEF CountExact, TypeOK
<1>2. CASE d \notin Counted /\ Counted' = Counted \cup {d} /\ (count + strayFiles)' = count + strayFiles + 1
  <2>1. Cardinality(Counted \cup {d}) = Cardinality(Counted) + 1
    BY <1>1, <1>2, FS_AddElement
  <2>2. (count + strayFiles)' = Cardinality(Counted')
    BY <1>1, <1>2, <2>1
  <2> QED BY <2>2 DEF CountExact
<1>3. CASE d \in Counted /\ Counted' = Counted \ {d} /\ (count + strayFiles)' = count + strayFiles - 1
  <2>1. Cardinality(Counted \ {d}) = Cardinality(Counted) - 1
    BY <1>1, <1>3, FS_RemoveElement
  <2>2. count + strayFiles - 1 = Cardinality(Counted) - 1
    BY <1>1
  <2>3. (count + strayFiles)' = Cardinality(Counted \ {d})
    BY <1>3, <2>1, <2>2, Zenon
  <2> QED BY <1>3, <2>3 DEF CountExact
<1> QED BY <1>2, <1>3

\* Every step that changes the counted files changes count with them.
LEMMA CountStep == TypeOK /\ LockInv /\ ScanInv /\ CountExact /\ [Next]_vars => CountExact'
<1> SUFFICES ASSUME TypeOK, LockInv, ScanInv, CountExact, [Next]_vars PROVE CountExact'
  OBVIOUS
<1> DEFINE Same == Counted' = Counted /\ count' = count /\ strayFiles' = strayFiles
<1>0. Same => CountExact'
  BY DEF CountExact
<1> HIDE DEF Same
<1> USE CacheAssumption DEF TypeOK, LockInv, MutualExclusion, InLock
<1>1. CASE Start
  <2>1. CASE phase' = "scan" /\ todo' = blob /\ UNCHANGED stray
    <3>1. Counted = {} /\ Counted' = {}
      BY <1>1, <2>1 DEF Start, Counted, disk, procs
    <3> QED BY <1>0, <1>1, <2>1, <3>1 DEF Start, stats, stray, Same
  <2>2. CASE phase' = "up" /\ strayFiles' = Cardinality(blob)
    <3>1. Counted' = blob
      BY <1>1, <2>2 DEF Start, LockInv, Counted, Unaccounted, disk, procs
    <3>2. count' = 0 /\ Cardinality(blob) \in Nat
      BY <1>1, FS_Subset, FS_CardinalityType DEF Start, ScanInv, stats
    <3> QED BY <2>2, <3>1, <3>2 DEF CountExact
  <2> QED BY <1>1, <2>1, <2>2 DEF Start
<1>2. CASE ScanFile
  <2>1. PICK d \in todo : todo' = todo \ {d} /\ count' = count + 1
    BY <1>2 DEF ScanFile
  <2>2. d \notin Counted /\ Counted' = Counted \cup {d}
    BY <1>2, <2>1 DEF ScanFile, Counted, life, disk, procs
  <2>3. strayFiles' = strayFiles
    BY <1>2 DEF ScanFile, stray
  <2> QED BY <2>1, <2>2, <2>3, CountChange
<1>2a. CASE ScanSkip
  <2>1. PICK d \in todo : todo' = todo \ {d} /\ strayFiles' = strayFiles + 1
    BY <1>2a DEF ScanSkip
  <2>2. d \notin Counted /\ Counted' = Counted \cup {d} /\ count' = count
    BY <1>2a, <2>1 DEF ScanSkip, Counted, life, disk, stats, stray, procs
  <2> QED BY <2>1, <2>2, CountChange
<1>3. CASE ScanDone
  <2>1. Same
    BY <1>3 DEF ScanDone, disk, stats, stray, procs, Counted, Unaccounted, Same
  <2> QED BY <1>0, <2>1
<1>4. CASE Crash
  BY <1>4, FS_EmptySet DEF Crash, Counted, CountExact
<1>5. ASSUME NEW p \in Procs, Begin(p) PROVE CountExact'
  <2>1. Same
    <3>1. CASE \E d \in Digests : GetStat(p, d)
      BY <3>1 DEF GetStat, Enter, Counted, Unaccounted, life, disk, stats, stray, evict, Same
    <3>2. CASE \E d \in Digests : RemoveCall(p, d)
      BY <3>2 DEF RemoveCall, Enter, Counted, Unaccounted, life, disk, stats, stray, evict, Same
    <3>3. CASE \E c \in Deliveries : PutCall(p, c)
      BY <3>3 DEF PutCall, Enter, Counted, Unaccounted, life, disk, stats, stray, evict, Same
    <3> QED BY <1>5, <3>1, <3>2, <3>3 DEF Begin
  <2> QED BY <1>0, <2>1
<1>6. ASSUME NEW p \in Procs, Acquire(p) PROVE CountExact'
  <2>0. pc[p] # "putAccount" /\ phase = "up" /\ Counted = blob
    <3>1. mu = NoProc /\ pc[p] # "idle" /\ pc[p] # "putAccount"
      BY <1>6 DEF Acquire, GetTouch, PutPresent, PutFits, PutNeedsRoom, Remove
    <3> QED BY <3>1 DEF Counted, Unaccounted
  <2>1. CASE GetTouch(p)
    BY <1>0, <2>0, <2>1 DEF GetTouch, Return, Enter, Counted, Unaccounted, life, disk, stats, stray, Same
  <2>2. CASE PutPresent(p)
    BY <1>0, <2>0, <2>2 DEF PutPresent, Return, Enter, Counted, Unaccounted, life, disk, stats, stray, Same
  <2>3. CASE PutFits(p)
    BY <1>0, <2>0, <2>3 DEF PutFits, Goto, Counted, Unaccounted, life, disk, stats, stray, Same
  <2>4. CASE PutNeedsRoom(p)
    BY <1>0, <2>0, <2>4 DEF PutNeedsRoom, Goto, Return, Enter, Counted, Unaccounted, life, disk, stats, stray, Same
  <2>5. CASE Remove(p)
    <3>1. Counted' = blob'
      BY <2>0, <2>5 DEF Remove, Return, Enter, Counted, Unaccounted, life
    <3>2. strayFiles' = strayFiles
      BY <2>5 DEF Remove, stray
    <3>3. CASE call[p].digest \in blob /\ blob' = blob \ {call[p].digest} /\ count' = count - 1
      BY <2>0, <3>1, <3>2, <3>3, CountChange
    <3>4. CASE blob' = blob /\ count' = count
      BY <1>0, <2>0, <3>1, <3>2, <3>4 DEF Same
    <3> QED BY <2>5, <3>3, <3>4 DEF Remove, stats
  <2> QED BY <1>6, <2>1, <2>2, <2>3, <2>4, <2>5 DEF Acquire
<1>7. ASSUME NEW p \in Procs, Proceed(p) PROVE CountExact'
  <2>1. CASE GetOpen(p)
    BY <1>0, <2>1 DEF GetOpen, Return, Enter, Counted, Unaccounted, life, disk, stats, stray, evict, Same
  <2>2. ASSUME pc[p] \in InLock
        PROVE  phase = "up" /\ \A q \in Procs \ {p} : pc[q] \notin InLock
    BY <2>2
  <2>3. CASE EvictOldest(p)
    <3>1. pc[p] = "evict" BY <2>3 DEF EvictOldest
    <3>2. PICK d \in todo : blob' = blob \ {d} /\ count' = count - 1
      BY <2>3 DEF EvictOldest, Oldest
    <3>3. d \in Counted /\ Counted' = Counted \ {d}
      BY <2>2, <2>3, <3>1, <3>2 DEF EvictOldest, Counted, Unaccounted, life, procs
    <3>4. strayFiles' = strayFiles
      BY <2>3 DEF EvictOldest, stray
    <3> QED BY <3>2, <3>3, <3>4, CountChange
  <2>4. CASE EvictSkip(p)
    BY <1>0, <2>2, <2>4 DEF EvictSkip, Counted, Unaccounted, life, disk, stats, stray, procs, Same
  <2>5. CASE EvictDone(p)
    BY <1>0, <2>2, <2>5 DEF EvictDone, Goto, Return, Enter, Counted, Unaccounted, life, disk, stats, stray, Same
  <2>6. CASE PutCreate(p)
    BY <1>0, <2>2, <2>6 DEF PutCreate, Goto, Return, Enter, Counted, Unaccounted, life, stats, stray, Same
  <2>7. CASE PutCopy(p)
    BY <1>0, <2>2, <2>7 DEF PutCopy, GiveUp, Goto, Return, Enter, Counted, Unaccounted, life, disk, stats, stray, Same
  <2>8. CASE PutRename(p)
    <3>1. pc[p] = "putRename" BY <2>8 DEF PutRename
    <3>2. phase' = "up" /\ count' = count
      BY <2>2, <2>8, <3>1 DEF PutRename, life, stats
    <3>3. CASE /\ blob' = blob \cup {call[p].digest} /\ Goto(p, "putAccount")
               /\ call[p].digest \in blob /\ strayFiles' = strayFiles - 1
      <4>1. call[p].digest \in Counted /\ Counted' = Counted \ {call[p].digest}
        BY <2>2, <3>1, <3>2, <3>3 DEF Goto, Counted, Unaccounted
      <4> QED BY <3>2, <3>3, <4>1, CountChange
    <3>4. CASE /\ blob' = blob \cup {call[p].digest} /\ Goto(p, "putAccount")
               /\ call[p].digest \notin blob /\ UNCHANGED stray
      <4>1. Counted' = Counted
        BY <2>2, <3>1, <3>2, <3>4 DEF Goto, Counted, Unaccounted
      <4> QED BY <1>0, <3>2, <3>4, <4>1 DEF Same, stray
    <3>5. CASE GiveUp(p) /\ UNCHANGED stray
      <4>1. Counted' = Counted
        BY <2>2, <3>1, <3>2, <3>5 DEF GiveUp, Return, Enter, Counted, Unaccounted
      <4> QED BY <1>0, <3>2, <3>5, <4>1 DEF Same, stray
    <3> QED BY <2>8, <3>3, <3>4, <3>5 DEF PutRename
  <2>9. CASE PutAccount(p)
    <3>1. pc[p] = "putAccount" BY <2>9 DEF PutAccount
    <3>2. /\ call[p].digest \notin Counted /\ count' = count + 1
          /\ Counted' = Counted \cup {call[p].digest} /\ strayFiles' = strayFiles
      BY <2>2, <2>9, <3>1 DEF PutAccount, Return, Enter, Counted, Unaccounted, life, disk, stray
    <3> QED BY <3>2, CountChange
  <2> QED BY <1>7, <2>1, <2>3, <2>4, <2>5, <2>6, <2>7, <2>8, <2>9 DEF Proceed
<1>8. CASE UNCHANGED vars
  BY <1>0, <1>8 DEF vars, life, disk, stats, stray, lru, evict, procs, Counted, Unaccounted, Same
<1> QED BY <1>1, <1>2, <1>2a, <1>3, <1>4, <1>5, <1>6, <1>7, <1>8 DEF Next

\* count, kept by increments, is the number of files on disk, but for the one
\* a Put has renamed into place and not yet accounted for, and for what failed
\* scans left out and failed Stats had counted twice.
THEOREM CountMatchesDisk == Spec => []CountExact
BY ScanInit, ScanStep, CountInit, CountStep, LockInit, LockStep, TypeCorrect, PTL DEF Spec

-----------------------------------------------------------------------------
(* The bytes in use.                                                        *)

LEMMA UsedInit == Init => UsedInv
BY FS_EmptySet, SumUnfolds DEF Init, UsedInv, UsedSizeExact, Bytes, Counted

LEMMA CountedDigests == TypeOK => Counted \in SUBSET Digests
BY DEF TypeOK, Counted

\* What the counter and the history together know of the disk.
Known == usedSize + strayBytes

\* One more file counted or overlooked, with its length; or one less, and its
\* length changes, which no other file notices.
LEMMA UsedGrows ==
    ASSUME TypeOK, UsedSizeExact, NEW d \in Digests, d \notin Counted,
           Counted' = Counted \cup {d}, len' = len, Known' = Known + len[d]
    PROVE  UsedSizeExact'
<1>1. Bytes(Counted \cup {d}) = len[d] + Bytes(Counted)
  BY CountedDigests, BytesType, SumAdd DEF TypeOK, Bytes
<1>2. Known = Bytes(Counted) /\ Bytes(Counted) \in Nat /\ len[d] \in Nat
  BY CountedDigests, BytesType DEF TypeOK, UsedSizeExact, Known
<1>3. Known' = Bytes(Counted \cup {d})
  BY <1>1, <1>2
<1> QED BY <1>3 DEF UsedSizeExact, Bytes, Known

LEMMA UsedShrinks ==
    ASSUME TypeOK, UsedSizeExact, NEW d \in Counted, Counted' = Counted \ {d}, NEW n,
           len' = [len EXCEPT ![d] = n], Known' = Known - len[d]
    PROVE  UsedSizeExact'
<1> DEFINE rest == Counted \ {d}
<1>1. Bytes(Counted) = len[d] + Bytes(rest)
  BY CountedDigests, BytesType, SumRemove DEF Bytes
<1>2. IsFiniteSet(rest) /\ Bytes(rest) \in Nat /\ len[d] \in Nat
  <2>1. rest \in SUBSET Digests /\ d \in Digests
    BY CountedDigests
  <2> QED BY <2>1, BytesType DEF TypeOK
<1>3. SumFunctionOnSet(len', rest) = Bytes(rest)
  <2>1. SameTerms(len', len, rest)
    BY CountedDigests DEF TypeOK, SameTerms
  <2> HIDE DEF rest
  <2>2. SameSum(len', len, rest)
    BY <1>2, <2>1, SumsAgree, Zenon
  <2> QED BY <2>2, Zenon DEF Bytes, SameSum
<1>4. Known = Bytes(Counted)
  BY DEF UsedSizeExact, Known
<1>5. Known' = Bytes(rest)
  BY <1>1, <1>2, <1>4
<1> QED BY <1>3, <1>5 DEF UsedSizeExact, Bytes, Known

\* What is counted, the lengths and the sum all stand still, or a file that
\* is not counted changes its length.
LEMMA UsedStays ==
    ASSUME TypeOK, UsedSizeExact, Counted' = Counted, Known' = Known,
           \A x \in Counted : len'[x] = len[x]
    PROVE  UsedSizeExact'
<1>1. SumFunctionOnSet(len', Counted) = SumFunctionOnSet(len, Counted)
  BY CountedDigests, BytesType, SumSame
<1> QED BY <1>1 DEF UsedSizeExact, Bytes, Known

\* Every step that changes the counted files, or their lengths, changes
\* usedSize with them.
LEMMA UsedStep == TypeOK /\ LockInv /\ ScanInv /\ UsedInv /\ [Next]_vars => UsedInv'
<1> SUFFICES ASSUME TypeOK, LockInv, ScanInv, UsedInv, [Next]_vars PROVE UsedInv'
  OBVIOUS
<1> DEFINE Same == Counted' = Counted /\ len' = len /\ usedSize' = usedSize /\ strayBytes' = strayBytes
           Laid == \A p \in Procs : pc[p] = "putAccount" => len[call[p].digest] = call[p].body
<1>0. /\ UsedSizeExact /\ Laid
      /\ UsedSizeExact' /\ Laid' => UsedInv'
      /\ Same => UsedSizeExact'
  BY UsedStays DEF UsedInv, Known
<1>a. ASSUME \A p \in Procs : pc'[p] = "putAccount" =>
                 pc[p] = "putAccount" /\ call'[p] = call[p],
             len' = len
      PROVE  Laid'
  BY <1>0, <1>a
<1>b. ASSUME \A p \in Procs : pc[p] # "putAccount",
             \A p \in Procs : pc'[p] # "putAccount"
      PROVE  Laid'
  BY <1>b
<1> HIDE DEF Same, Laid
<1> USE CacheAssumption DEF TypeOK, LockInv, MutualExclusion, InLock
<1>1. CASE Start
  <2>1. Laid' /\ UNCHANGED <<blob, len, stats>> /\ phase = "down"
    BY <1>1, <1>a DEF Start, disk, procs
  <2>2. CASE phase' = "scan" /\ todo' = blob /\ UNCHANGED stray
    <3>1. Counted = {} /\ Counted' = {}
      BY <2>1, <2>2 DEF Counted
    <3> QED BY <1>0, <2>1, <2>2, <3>1 DEF stats, stray, Same
  <2>3. CASE phase' = "up" /\ strayBytes' = SumFunctionOnSet(len, blob)
    <3>1. Counted' = blob
      BY <1>1, <2>1, <2>3 DEF Start, LockInv, Counted, Unaccounted, procs
    <3>2. usedSize' = 0 /\ strayBytes' = Bytes(blob) /\ Bytes(blob) \in Nat
      BY <2>1, <2>3, BytesType DEF ScanInv, stats, Bytes
    <3> QED BY <1>0, <2>1, <3>1, <3>2 DEF UsedSizeExact, Bytes
  <2> QED BY <1>1, <2>2, <2>3 DEF Start
<1>2. CASE ScanFile
  <2>1. PICK d \in todo : todo' = todo \ {d} /\ usedSize' = usedSize + len[d]
    BY <1>2 DEF ScanFile
  <2>2. d \in Digests /\ d \notin Counted /\ Counted' = Counted \cup {d} /\ len' = len
    BY <1>2, <2>1 DEF ScanFile, Counted, life, disk, procs
  <2>3. Laid'
    BY <1>2, <1>a DEF ScanFile, disk, procs
  <2>4. Known' = Known + len[d]
    BY <1>2, <2>1, <2>2 DEF ScanFile, stray, Known
  <2> QED BY <1>0, <2>2, <2>3, <2>4, UsedGrows
<1>2a. CASE ScanSkip
  <2>1. PICK d \in todo : todo' = todo \ {d} /\ strayBytes' = strayBytes + len[d]
    BY <1>2a DEF ScanSkip
  <2>2. d \in Digests /\ d \notin Counted /\ Counted' = Counted \cup {d} /\ len' = len
    BY <1>2a, <2>1 DEF ScanSkip, Counted, life, disk, procs
  <2>3. Laid'
    BY <1>2a, <1>a DEF ScanSkip, disk, procs
  <2>4. Known' = Known + len[d]
    BY <1>2a, <2>1, <2>2 DEF ScanSkip, stats, Known
  <2> QED BY <1>0, <2>2, <2>3, <2>4, UsedGrows
<1>3. CASE ScanDone
  <2>1. Same /\ Laid'
    BY <1>3, <1>a DEF ScanDone, disk, stats, stray, procs, Counted, Unaccounted, Same
  <2> QED BY <1>0, <2>1
<1>4. CASE Crash
  <2>1. Counted' = {} /\ usedSize' = 0 /\ strayBytes' = 0 /\ Laid'
    BY <1>4, <1>a DEF Crash, Counted, disk
  <2>2. UsedSizeExact'
    <3>1. SumFunctionOnSet(len', {}) = 0
      BY FS_EmptySet, SumUnfolds
    <3> QED BY <2>1, <3>1 DEF UsedSizeExact, Bytes
  <2> QED BY <1>0, <2>1, <2>2
<1>5. ASSUME NEW p \in Procs, Begin(p) PROVE UsedInv'
  <2>1. Same /\ Laid'
    <3>1. CASE \E d \in Digests : GetStat(p, d)
      BY <3>1, <1>a DEF GetStat, Enter, Counted, Unaccounted, life, disk, stats, stray, evict, Same
    <3>2. CASE \E d \in Digests : RemoveCall(p, d)
      BY <3>2, <1>a DEF RemoveCall, Enter, Counted, Unaccounted, life, disk, stats, stray, evict, Same
    <3>3. CASE \E c \in Deliveries : PutCall(p, c)
      BY <3>3, <1>a DEF PutCall, Enter, Counted, Unaccounted, life, disk, stats, stray, evict, Same
    <3> QED BY <1>5, <3>1, <3>2, <3>3 DEF Begin
  <2> QED BY <1>0, <2>1
<1>6. ASSUME NEW p \in Procs, Acquire(p) PROVE UsedInv'
  <2>0. phase = "up" /\ Counted = blob /\ \A q \in Procs : pc[q] # "putAccount"
    <3>1. mu = NoProc /\ pc[p] # "idle"
      BY <1>6 DEF Acquire, GetTouch, PutPresent, PutFits, PutNeedsRoom, Remove
    <3>2. \A q \in Procs : pc[q] # "putAccount"
      BY <3>1
    <3> QED BY <3>1, <3>2 DEF Counted, Unaccounted
  <2>1. Laid'
    <3>1. \A q \in Procs : pc'[q] # "putAccount"
      BY <1>6, <2>0 DEF Acquire, GetTouch, PutPresent, PutFits, PutNeedsRoom, Remove,
                        Goto, Return, Enter
    <3> QED BY <2>0, <3>1, <1>b
  <2>2. CASE GetTouch(p) \/ PutPresent(p) \/ PutFits(p) \/ PutNeedsRoom(p)
    <3>1. /\ blob' = blob /\ phase' = phase /\ len' = len /\ usedSize' = usedSize
          /\ strayBytes' = strayBytes
      BY <2>2 DEF GetTouch, PutPresent, PutFits, PutNeedsRoom, life, disk, stats, stray
    <3>2. \A q \in Procs : pc'[q] # "putAccount"
      BY <1>6, <2>0 DEF Acquire, GetTouch, PutPresent, PutFits, PutNeedsRoom, Remove,
                        Goto, Return, Enter
    <3>3. Same
      BY <2>0, <3>1, <3>2 DEF Same, Counted, Unaccounted
    <3> QED BY <1>0, <2>1, <3>3
  <2>3. CASE Remove(p)
    <3>1. Counted' = blob'
      BY <2>0, <2>3 DEF Remove, Return, Enter, Counted, Unaccounted, life
    <3>2. CASE call[p].digest \in blob /\ DropFile(call[p].digest)
      <4>1. Known' = Known - len[call[p].digest]
        BY <2>0, <2>3, <3>2 DEF Remove, stray, Known
      <4> QED BY <1>0, <2>0, <2>1, <3>1, <3>2, <4>1, UsedShrinks
    <3>3. CASE UNCHANGED <<blob, len, stats>>
      BY <1>0, <2>0, <2>1, <2>3, <3>1, <3>3 DEF Remove, Same, stats, stray
    <3> QED BY <2>3, <3>2, <3>3 DEF Remove
  <2> QED BY <1>6, <2>2, <2>3 DEF Acquire
<1>7. ASSUME NEW p \in Procs, Proceed(p) PROVE UsedInv'
  <2>1. CASE GetOpen(p)
    <3>1. Same /\ Laid'
      BY <2>1, <1>a DEF GetOpen, Return, Enter, Counted, Unaccounted, life, disk, stats, stray, evict, Same
    <3> QED BY <1>0, <3>1
  <2>2. ASSUME pc[p] \in InLock
        PROVE  /\ phase = "up" /\ \A q \in Procs \ {p} : pc[q] \notin InLock
               /\ call[p].digest \in Digests /\ call[p].body \in Nat
    BY <2>2 DEF Calls
  <2>3. CASE EvictOldest(p)
    <3>1. pc[p] = "evict" BY <2>3 DEF EvictOldest
    <3>2. PICK d \in todo : /\ blob' = blob \ {d} /\ len' = [len EXCEPT ![d] = 0]
                            /\ usedSize' = usedSize - len[d]
      BY <2>3 DEF EvictOldest, Oldest
    <3>3. d \in Counted /\ Counted' = Counted \ {d}
      BY <2>2, <2>3, <3>1, <3>2 DEF EvictOldest, Counted, Unaccounted, life, procs
    <3>4. Laid'
      BY <2>2, <2>3, <3>1, <1>b DEF EvictOldest, procs
    <3>5. Known' = Known - len[d]
      BY <2>3, <3>2 DEF EvictOldest, stray, Known
    <3> QED BY <1>0, <3>2, <3>3, <3>4, <3>5, UsedShrinks
  <2>4. CASE EvictSkip(p)
    <3>1. Same /\ Laid'
      BY <1>a, <2>4 DEF EvictSkip, Counted, Unaccounted, life, disk, stats, stray, procs, Same
    <3> QED BY <1>0, <3>1
  <2>5. CASE EvictDone(p)
    <3>1. Same /\ Laid'
      BY <1>a, <2>2, <2>5 DEF EvictDone, Goto, Return, Enter, Counted, Unaccounted, life, disk, stats, stray, Same
    <3> QED BY <1>0, <3>1
  <2>6. CASE PutCreate(p)
    <3>1. Same /\ Laid'
      BY <1>a, <2>2, <2>6 DEF PutCreate, Goto, Return, Enter, Counted, Unaccounted, life, stats, stray, Same
    <3> QED BY <1>0, <3>1
  <2>7. CASE PutCopy(p)
    <3>1. Same /\ Laid'
      BY <1>a, <2>2, <2>7 DEF PutCopy, GiveUp, Goto, Return, Enter, Counted, Unaccounted, life, disk, stats, stray, Same
    <3> QED BY <1>0, <3>1
  <2>8. CASE PutRename(p)
    <3> DEFINE d == call[p].digest
    <3>1. pc[p] = "putRename" BY <2>8 DEF PutRename
    <3>2. d \in Digests /\ phase' = "up" /\ usedSize' = usedSize
      BY <2>2, <2>8, <3>1 DEF PutRename, life, stats
    <3>3. CASE /\ blob' = blob \cup {d} /\ len' = [len EXCEPT ![d] = call[p].body]
               /\ Goto(p, "putAccount")
               /\ IF d \in blob
                  THEN strayBytes' = strayBytes - len[d] /\ strayFiles' = strayFiles - 1
                  ELSE UNCHANGED stray
      <4>1. Laid'
        BY <2>2, <3>1, <3>2, <3>3 DEF Goto, Laid
      <4>2. CASE d \in blob
        <5>1. d \in Counted /\ Counted' = Counted \ {d}
          BY <2>2, <3>1, <3>2, <3>3, <4>2 DEF Goto, Counted, Unaccounted
        <5>2. Known' = Known - len[d]
          BY <3>2, <3>3, <4>2 DEF Known
        <5> QED BY <1>0, <3>3, <4>1, <5>1, <5>2, UsedShrinks
      <4>3. CASE d \notin blob
        <5>1. d \notin Counted /\ Counted' = Counted
          BY <2>2, <3>1, <3>2, <3>3, <4>3 DEF Goto, Counted, Unaccounted
        <5>2. Known' = Known
          BY <3>2, <3>3, <4>3 DEF Known, stray
        <5>3. UsedSizeExact'
          BY <1>0, <3>3, <5>1, <5>2, CountedDigests, UsedStays
        <5> QED BY <1>0, <4>1, <5>3
      <4> QED BY <4>2, <4>3
    <3>4. CASE GiveUp(p) /\ UNCHANGED <<len, stray>>
      <4>1. Same /\ Laid'
        BY <1>a, <2>2, <3>1, <3>2, <3>4 DEF GiveUp, Return, Enter, Counted, Unaccounted, stray, Same
      <4> QED BY <1>0, <4>1
    <3> QED BY <2>8, <3>3, <3>4 DEF PutRename, GiveUp
  <2>9. CASE PutAccount(p)
    <3>1. pc[p] = "putAccount" BY <2>9 DEF PutAccount
    <3>2. /\ call[p].digest \notin Counted
          /\ Counted' = Counted \cup {call[p].digest} /\ len' = len
      BY <2>2, <2>9, <3>1 DEF PutAccount, Return, Enter, Counted, Unaccounted, life, disk
    <3>3. Known' = Known + len[call[p].digest]
      BY <1>0, <2>2, <2>9, <3>1 DEF PutAccount, stray, Laid, Known
    <3>4. Laid'
      BY <1>a, <2>9 DEF PutAccount, Return, Enter, disk
    <3> QED BY <1>0, <2>2, <3>1, <3>2, <3>3, <3>4, UsedGrows
  <2> QED BY <1>7, <2>1, <2>3, <2>4, <2>5, <2>6, <2>7, <2>8, <2>9 DEF Proceed
<1>8. CASE UNCHANGED vars
  <2>1. Same /\ Laid'
    BY <1>a, <1>8 DEF vars, life, disk, stats, stray, lru, evict, procs, Counted, Unaccounted, Same
  <2> QED BY <1>0, <2>1
<1> QED BY <1>1, <1>2, <1>2a, <1>3, <1>4, <1>5, <1>6, <1>7, <1>8 DEF Next

\* usedSize, kept by increments, is the sum of the lengths of the files that
\* are counted, after evictions, failed copies, Remove, crashes and restarts,
\* but for what failed scans left out and failed Stats had added twice.
THEOREM UsedSizeMatchesDisk == Spec => []UsedSizeExact
<1>1. UsedInv => UsedSizeExact
  BY DEF UsedInv
<1> QED BY <1>1, ScanInit, ScanStep, UsedInit, UsedStep, LockInit, LockStep, TypeCorrect, PTL DEF Spec

-----------------------------------------------------------------------------
(* Room and contents.                                                       *)

LEMMA PutInit == Init => PutInv
BY DEF Init, PutInv, InLock

\* The room a Put secured stays free, and files hold what was delivered.
LEMMA PutStep == TypeOK /\ LockInv /\ PutInv /\ [Next]_vars => PutInv'
<1> SUFFICES ASSUME TypeOK, LockInv, PutInv, [Next]_vars PROVE PutInv'
  OBVIOUS
<1> USE CacheAssumption DEF TypeOK, LockInv, MutualExclusion, InLock, PutInv
<1>1. CASE Start
  BY <1>1 DEF Start, disk, procs
<1>2. CASE ScanFile
  BY <1>2 DEF ScanFile, life, disk, procs
<1>2a. CASE ScanSkip
  BY <1>2a DEF ScanSkip, life, disk, procs
<1>3. CASE ScanDone
  BY <1>3 DEF ScanDone, disk, evict, procs
<1>4. CASE Crash
  BY <1>4 DEF Crash, disk
<1>5. ASSUME NEW p \in Procs, Begin(p) PROVE PutInv'
  <2>1. CASE \E d \in Digests : GetStat(p, d)
    BY <2>1 DEF GetStat, Enter, life, disk, stats, evict
  <2>2. CASE \E d \in Digests : RemoveCall(p, d)
    BY <2>2 DEF RemoveCall, Enter, life, disk, stats, evict
  <2>3. CASE \E c \in Deliveries : PutCall(p, c)
    BY <2>3 DEF PutCall, Enter, life, disk, stats, evict
  <2> QED BY <1>5, <2>1, <2>2, <2>3 DEF Begin
<1>6. ASSUME NEW p \in Procs, Acquire(p) PROVE PutInv'
  <2>0. mu = NoProc /\ \A q \in Procs : pc[q] \notin InLock
    BY <1>6 DEF Acquire, GetTouch, PutPresent, PutFits, PutNeedsRoom, Remove
  <2>1. CASE GetTouch(p)
    BY <2>0, <2>1 DEF GetTouch, Return, Enter, life, disk, stats, evict
  <2>2. CASE PutPresent(p)
    BY <2>0, <2>2 DEF PutPresent, Return, Enter, life, disk, stats, evict
  <2>3. CASE PutFits(p)
    BY <2>0, <2>3 DEF PutFits, Goto, life, disk, stats, evict
  <2>4. CASE PutNeedsRoom(p)
    BY <2>0, <2>4 DEF PutNeedsRoom, Goto, Return, Enter, life, disk, stats, evict
  <2>5. CASE Remove(p)
    BY <2>0, <2>5 DEF Remove, Return, Enter, life, evict, stats
  <2> QED BY <1>6, <2>1, <2>2, <2>3, <2>4, <2>5 DEF Acquire
<1>7. ASSUME NEW p \in Procs, Proceed(p) PROVE PutInv'
  <2>1. CASE GetOpen(p)
    BY <2>1 DEF GetOpen, Return, Enter, life, disk, stats, evict, Calls
  <2>2. ASSUME pc[p] \in InLock
        PROVE  /\ call[p] \in Deliveries /\ call[p].size \in Int /\ call[p].body \in Nat
               /\ \A q \in Procs \ {p} : pc[q] \notin InLock
    BY <2>2 DEF Calls
  <2>3. CASE EvictOldest(p)
    <3>1. pc[p] = "evict" BY <2>3 DEF EvictOldest
    <3>2. PICK d \in todo : /\ blob' = blob \ {d}
                            /\ len' = [len EXCEPT ![d] = 0]
                            /\ short' = short - len[d]
                            /\ usedSize' = usedSize - len[d]
      BY <2>3 DEF EvictOldest, Oldest
    <3>3. UNCHANGED <<life, procs>>
      BY <2>3 DEF EvictOldest
    <3> QED BY <2>2, <3>1, <3>2, <3>3 DEF life, procs
  <2>4. CASE EvictSkip(p)
    BY <2>2, <2>4 DEF EvictSkip, life, disk, stats, procs
  <2>5. CASE EvictDone(p)
    <3>1. pc[p] = "evict" BY <2>5 DEF EvictDone
    <3> QED BY <2>2, <2>5, <3>1 DEF EvictDone, Goto, Return, Enter, life, disk, stats
  <2>6. CASE PutCreate(p)
    <3>1. pc[p] = "putCreate" BY <2>6 DEF PutCreate
    <3> QED BY <2>2, <2>6, <3>1 DEF PutCreate, Goto, Return, Enter, life, stats, evict
  <2>7. CASE PutCopy(p)
    <3>1. pc[p] = "putCopy" BY <2>7 DEF PutCopy
    <3> QED BY <2>2, <2>7, <3>1 DEF PutCopy, GiveUp, Goto, Return, Enter, life, disk, stats, evict
  <2>8. CASE PutRename(p)
    <3>1. pc[p] = "putRename" BY <2>8 DEF PutRename
    <3> QED BY <2>2, <2>8, <3>1 DEF PutRename, GiveUp, Goto, Return, Enter, life, stats, evict, Delivered
  <2>9. CASE PutAccount(p)
    <3>1. pc[p] = "putAccount" BY <2>9 DEF PutAccount
    <3> QED BY <2>2, <2>9, <3>1 DEF PutAccount, Return, Enter, life, disk, evict
  <2> QED BY <1>7, <2>1, <2>3, <2>4, <2>5, <2>6, <2>7, <2>8, <2>9 DEF Proceed
<1>8. CASE UNCHANGED vars
  BY <1>8 DEF vars, life, disk, stats, evict, procs
<1> QED BY <1>1, <1>2, <1>2a, <1>3, <1>4, <1>5, <1>6, <1>7, <1>8 DEF Next

-----------------------------------------------------------------------------
(* Temporary files.                                                         *)

LEMMA TmpInit == Init => TmpInv
BY DEF Init, TmpInv

\* A Put that leaves its writing takes the file away, or it becomes an orphan.
LEMMA TmpStep == TypeOK /\ LockInv /\ TmpInv /\ [Next]_vars => TmpInv'
<1> SUFFICES ASSUME TypeOK, LockInv, TmpInv, [Next]_vars PROVE TmpInv'
  OBVIOUS
<1> USE CacheAssumption DEF TypeOK, LockInv, MutualExclusion, InLock, TmpInv
<1>1. CASE Start
  BY <1>1 DEF Start, disk
<1>2. CASE ScanFile \/ ScanSkip \/ ScanDone \/ UNCHANGED vars
  BY <1>2 DEF ScanFile, ScanSkip, ScanDone, vars, life, disk, procs
<1>3. CASE Crash
  BY <1>3 DEF Crash
<1>4. ASSUME NEW p \in Procs, pc[p] \notin {"putCopy", "putRename"},
             UNCHANGED <<tmp, orphans, phase>>,
             \A q \in Procs \ {p} : pc'[q] = pc[q] /\ call'[q] = call[q]
      PROVE  TmpInv'
  BY <1>4
<1>5. ASSUME NEW p \in Procs, Begin(p) PROVE TmpInv'
  <2>1. CASE \E d \in Digests : GetStat(p, d)
    BY <2>1, <1>4 DEF GetStat, Enter, life, disk
  <2>2. CASE \E d \in Digests : RemoveCall(p, d)
    BY <2>2, <1>4 DEF RemoveCall, Enter, life, disk
  <2>3. CASE \E c \in Deliveries : PutCall(p, c)
    BY <2>3, <1>4 DEF PutCall, Enter, life, disk
  <2> QED BY <1>5, <2>1, <2>2, <2>3 DEF Begin
<1>6. ASSUME NEW p \in Procs, Acquire(p) PROVE TmpInv'
  <2>1. CASE GetTouch(p)
    BY <2>1, <1>4 DEF GetTouch, Return, Enter, life, disk
  <2>2. CASE PutPresent(p)
    BY <2>2, <1>4 DEF PutPresent, Return, Enter, life, disk
  <2>3. CASE PutFits(p)
    BY <2>3, <1>4 DEF PutFits, Goto, life, disk
  <2>4. CASE PutNeedsRoom(p)
    BY <2>4, <1>4 DEF PutNeedsRoom, Goto, Return, Enter, life, disk
  <2>5. CASE Remove(p)
    BY <2>5, <1>4 DEF Remove, Return, Enter, life
  <2> QED BY <1>6, <2>1, <2>2, <2>3, <2>4, <2>5 DEF Acquire
<1>7. ASSUME NEW p \in Procs, Proceed(p) PROVE TmpInv'
  <2>1. CASE GetOpen(p)
    BY <2>1, <1>4 DEF GetOpen, Return, Enter, life, disk
  <2>2. CASE EvictOldest(p)
    BY <2>2, <1>4 DEF EvictOldest, life, procs
  <2>3. CASE EvictSkip(p)
    BY <2>3, <1>4 DEF EvictSkip, life, disk, procs
  <2>4. CASE EvictDone(p)
    BY <2>4, <1>4 DEF EvictDone, Goto, Return, Enter, life, disk
  <2>5. ASSUME pc[p] \in InLock
        PROVE  \A q \in Procs \ {p} : pc[q] \notin InLock
    BY <2>5
  <2>6. CASE PutCreate(p)
    BY <2>5, <2>6 DEF PutCreate, Goto, Return, Enter, life
  <2>7. CASE PutCopy(p)
    BY <2>5, <2>7 DEF PutCopy, GiveUp, Goto, Return, Enter, disk
  <2>8. CASE PutRename(p)
    BY <2>5, <2>8 DEF PutRename, GiveUp, Goto, Return, Enter
  <2>9. CASE PutAccount(p)
    BY <2>9, <1>4 DEF PutAccount, Return, Enter, life, disk
  <2> QED BY <1>7, <2>1, <2>2, <2>3, <2>4, <2>6, <2>7, <2>8, <2>9 DEF Proceed
<1> QED BY <1>1, <1>2, <1>3, <1>5, <1>6, <1>7 DEF Next

\* The whole inductive invariant holds in every reachable state.
THEOREM InductiveInvariant == Spec => []IInv
<1>1. TypeOK /\ LockInv /\ ScanInv /\ LruInv /\ CountExact /\ UsedInv /\ PutInv /\ TmpInv => IInv
  BY DEF IInv
<1> QED BY <1>1, ScanInit, ScanStep, CountInit, CountStep, UsedInit, UsedStep, LockInit, LockStep, LruInit, LruStep, PutInit, PutStep,
           TmpInit, TmpStep, TypeCorrect, PTL DEF Spec

\* If callers deliver the same bytes for a digest, the size Get reports is the
\* size of the file it opened, and that file is one whole delivery, whatever
\* was evicted, removed and put again between its Stat and its Open.
THEOREM HitsAreWhole == ASSUME SameBytes PROVE Spec => []HitIsWhole
<1>1. IInv => HitIsWhole
  BY SameBytes DEF SameBytes, IInv, PutInv, Delivered, HitIsWhole
<1> QED BY <1>1, InductiveInvariant, PTL

\* If callers declare true sizes, no Put takes usedSize beyond maxSize.
THEOREM LimitRespected == ASSUME HonestSizes PROVE Spec => PutWithinLimit
<1>1. IInv /\ [Next]_vars => [(phase = "up" /\ usedSize' > usedSize) => usedSize' <= maxSize]_vars
  <2> SUFFICES ASSUME IInv, [Next]_vars, phase = "up", usedSize' > usedSize
               PROVE  usedSize' <= maxSize
    OBVIOUS
  <2> USE DEF IInv, TypeOK
  <2>1. CASE Start \/ ScanFile \/ ScanSkip \/ ScanDone \/ UNCHANGED vars
    BY <2>1 DEF Start, ScanFile, ScanSkip, ScanDone, vars, stats
  <2>2. CASE Crash
    BY <2>2 DEF Crash
  <2>3. ASSUME NEW p \in Procs, Begin(p) \/ Acquire(p) PROVE usedSize' <= maxSize
    <3>1. CASE Remove(p)
      <4>1. call[p].digest \in Digests
        BY DEF Calls
      <4>2. len[call[p].digest] \in Nat
        BY <4>1
      <4> QED BY <3>1, <4>2 DEF Remove, stats
    <3>2. CASE Begin(p)
      <4>1. CASE \E d \in Digests : GetStat(p, d)
        BY <4>1 DEF GetStat, stats
      <4>2. CASE \E d \in Digests : RemoveCall(p, d)
        BY <4>2 DEF RemoveCall, stats
      <4>3. CASE \E c \in Deliveries : PutCall(p, c)
        BY <4>3 DEF PutCall, stats
      <4> QED BY <3>2, <4>1, <4>2, <4>3 DEF Begin
    <3>3. CASE GetTouch(p) \/ PutPresent(p) \/ PutFits(p) \/ PutNeedsRoom(p)
      BY <3>3 DEF GetTouch, PutPresent, PutFits, PutNeedsRoom, stats
    <3> QED BY <2>3, <3>1, <3>2, <3>3 DEF Acquire
  <2>4. ASSUME NEW p \in Procs, Proceed(p) PROVE usedSize' <= maxSize
    <3>1. CASE PutAccount(p)
      <4>1. call[p] \in Deliveries /\ usedSize + call[p].size <= maxSize
        BY <3>1 DEF PutAccount, PutInv, InLock
      <4> QED BY <3>1, <4>1, HonestSizes DEF PutAccount, HonestSizes
    <3>2. CASE EvictOldest(p)
      <4>1. PICK d \in todo : usedSize' = usedSize - len[d]
        BY <3>2 DEF EvictOldest, Oldest
      <4> QED BY <4>1
    <3>3. CASE GetOpen(p) \/ EvictSkip(p) \/ EvictDone(p) \/ PutCreate(p) \/ PutCopy(p)
                 \/ PutRename(p)
      BY <3>3 DEF GetOpen, EvictSkip, EvictDone, PutCreate, PutCopy, PutRename, stats
    <3> QED BY <2>4, <3>1, <3>2, <3>3 DEF Proceed
  <2> QED BY <2>1, <2>2, <2>3, <2>4 DEF Next
<1> QED BY <1>1, InductiveInvariant, PTL DEF Spec, PutWithinLimit

\* Temporary files do not pile up: apart from those a start found or a failed
\* unlink left, there is only that of the Put that holds the mutex.
THEOREM TmpFilesOwned == Spec => []NoTmpLeak
<1>1. IInv => NoTmpLeak
  BY DEF IInv, TmpInv, NoTmpLeak, LockInv, MutualExclusion, InLock
<1> QED BY <1>1, InductiveInvariant, PTL

\* evictLocked takes a file only for a call that does not fit, and then one no
\* younger than those it has not tried: while a goroutine evicts nobody else
\* changes the files.
THEOREM EvictionInOrder == Spec => EvictsOldestOnDemand
<1> DEFINE Fair(p) == /\ usedSize + call[p].size > maxSize
                      /\ \A d \in blob \ blob' : \A e \in todo' : <<Ts(e), Ts(d)>> \notin older
<1>1. ASSUME IInv, [Next]_vars, NEW p \in Procs, pc[p] = "evict", blob' # blob
      PROVE  Fair(p)
  <2> USE CacheAssumption DEF IInv, LockInv, MutualExclusion, InLock
  <2>1. mu = p /\ phase = "up" /\ \A q \in Procs \ {p} : pc[q] \notin InLock
    BY <1>1 DEF TypeOK
  <2>2. ~Start /\ ~ScanFile /\ ~ScanSkip /\ ~ScanDone /\ ~Crash /\ ~UNCHANGED vars
    BY <1>1 DEF Start, ScanFile, ScanSkip, ScanDone, Crash, vars, disk
  <2>3. PICK q \in Procs : Begin(q) \/ Acquire(q) \/ Proceed(q)
    BY <1>1, <2>2 DEF Next
  <2>4. ~Begin(q)
    BY <1>1 DEF Begin, GetStat, RemoveCall, PutCall, disk
  <2>5. ~Acquire(q)
    BY <2>1, <1>1 DEF Acquire, GetTouch, PutPresent, PutFits, PutNeedsRoom, Remove, TypeOK
  <2>6. EvictOldest(q) \/ PutRename(q)
    BY <1>1, <2>3, <2>4, <2>5
       DEF Proceed, GetOpen, EvictSkip, EvictDone, PutCreate, PutCopy, GiveUp, PutAccount, disk
  <2>7. q = p /\ EvictOldest(p)
    BY <1>1, <2>1, <2>6 DEF EvictOldest, PutRename
  <2>8. usedSize + call[p].size > maxSize
    <3>1. short > 0 /\ short = usedSize + call[p].size - maxSize
      BY <1>1, <2>7 DEF EvictOldest, PutInv
    <3>2. call[p].size \in Int
      BY <1>1 DEF TypeOK, Calls
    <3> QED BY <1>1, <3>1, <3>2 DEF TypeOK
  <2>9. PICK d \in Oldest(todo) : todo' = todo \ {d} /\ blob' = blob \ {d}
    BY <2>7 DEF EvictOldest
  <2> QED BY <2>8, <2>9 DEF Oldest
<1>2. IInv /\ [Next]_vars =>
        [\A p \in Procs : (pc[p] = "evict" /\ blob' # blob) =>
          /\ usedSize + call[p].size > maxSize
          /\ \A d \in blob \ blob' : \A e \in todo' : <<Ts(e), Ts(d)>> \notin older]_vars
  BY <1>1
<1> QED BY <1>2, InductiveInvariant, PTL DEF Spec, EvictsOldestOnDemand
-----------------------------------------------------------------------------
(* The cache implements the store.                                          *)

View == [p \in Procs |-> LentTo(p)]
Rest == /\ UNCHANGED <<blob, len, phase, maxSize, strayBytes>>
        /\ \A p \in Procs : LentTo(p)' = LentTo(p)

\* The sum the store limits is the sum the cache keeps.
LEMMA SameTotal == Store!TotalLength = Bytes(blob)
BY Zenon DEF Store!TotalLength, Bytes, SumFunctionOnSet, FoldFunctionOnSet, MapThenFoldSet,
             Store!SumFunctionOnSet, Store!FoldFunctionOnSet, Store!MapThenFoldSet

LEMMA StoreInitial == Init => Store!StoreInit
BY DEF Init, LentTo, Store!StoreInit, Store!NoViews, Store!Nothing

\* Only a goroutine that holds an open file has a view.
LEMMA ViewIsOpenFile ==
    ASSUME NEW p \in Procs
    PROVE  (LentTo(p) # <<>>) <=> pc[p] = "getTouch"
BY DEF LentTo

\* A step that changes neither the files nor what a goroutine has open is no
\* step of the store.
LEMMA RestStutters == Rest => UNCHANGED Store!storeVars
BY DEF Rest, Store!storeVars

\* A file that goes is a blob dropped.
LEMMA DropRefines ==
    ASSUME TypeOK, phase = "up", UNCHANGED <<phase, maxSize, strayBytes>>, NEW d \in blob,
           blob' = blob \ {d}, len' = [len EXCEPT ![d] = 0],
           \A p \in Procs : LentTo(p)' = LentTo(p)
    PROVE  Store!StoreNext
<1>1. Store!DropBlob(d)
  BY DEF Store!DropBlob
<1> QED BY <1>1 DEF Store!StoreNext, TypeOK

\* What the caller of Get is told, what it reads and what the store holds are
\* the same when digests determine their bytes.
LEMMA LendRefines ==
    ASSUME SameBytes, IInv, NEW p \in Procs, GetOpen(p)
    PROVE  [Store!StoreNext]_Store!storeVars
<1> DEFINE d == call[p].digest
<1>1. pc[p] = "getOpen" /\ UNCHANGED <<blob, len, phase, maxSize, strayBytes>>
  BY DEF GetOpen, life, disk, stray
<1>2. phase = "up" /\ d \in Digests /\ call[p] \in Calls /\ pc \in [Procs -> PCs] /\ call \in [Procs -> Calls]
  BY <1>1 DEF IInv, TypeOK, LockInv, Calls
<1>3. CASE d \in blob /\ Enter(p, "getTouch", [call[p] EXCEPT !.body = len[d]])
  <2>1. call[p].size = len[d]
    BY <1>1, <1>3, SameBytes DEF IInv, PutInv, Delivered, SameBytes
  <2>2. /\ pc' = [pc EXCEPT ![p] = "getTouch"]
        /\ call' = [call EXCEPT ![p] = [call[p] EXCEPT !.body = len[d]]]
    BY <1>3 DEF Enter
  <2>3. LentTo(p)' = Store!Whole(d)
    BY <1>2, <2>1, <2>2 DEF LentTo, Store!Whole, Calls
  <2>4. \A q \in Procs \ {p} : LentTo(q)' = LentTo(q)
    BY <1>2, <2>2 DEF LentTo
  <2>5. View' = [View EXCEPT ![p] = Store!Whole(d)] /\ View[p] = <<>>
    BY <1>1, <2>3, <2>4 DEF View, LentTo
  <2>6. Store!Lend(p, d)
    BY <1>1, <1>2, <1>3, <2>5 DEF Store!Lend, Store!Nothing, View
  <2> QED BY <1>2, <2>6 DEF Store!StoreNext
<1>4. CASE Return(p)
  <2>1. pc' = [pc EXCEPT ![p] = "idle"] /\ call' = [call EXCEPT ![p] = Blank]
    BY <1>4 DEF Return, Enter
  <2>2. Rest
    BY <1>1, <1>2, <2>1 DEF Rest, LentTo
  <2> QED BY <2>2, RestStutters
<1> QED BY <1>3, <1>4 DEF GetOpen

\* A reader that closes its file gives its view back.
LEMMA GiveBackRefines ==
    ASSUME TypeOK, NEW p \in Procs, GetTouch(p)
    PROVE  Store!StoreNext
<1>1. /\ pc[p] = "getTouch" /\ UNCHANGED <<blob, len, phase, maxSize, strayBytes>>
      /\ pc' = [pc EXCEPT ![p] = "idle"] /\ call' = [call EXCEPT ![p] = Blank]
  BY DEF GetTouch, Return, Enter, life, disk, stray
<1>2. View' = [View EXCEPT ![p] = <<>>] /\ View[p] # <<>>
  BY <1>1, ViewIsOpenFile DEF View, LentTo, TypeOK
<1>3. Store!GiveBack(p)
  BY <1>1, <1>2 DEF Store!GiveBack, Store!Nothing, View
<1> QED BY <1>3 DEF Store!StoreNext

\* A rename inserts a whole delivery, or charges a blob that is there once
\* more, and the room evictLocked made or found is room in the store: usedSize
\* is what the files hold, less what was overlooked.
LEMMA InsertRefines ==
    ASSUME HonestSizes, SameBytes, IInv, NEW p \in Procs, PutRename(p)
    PROVE  [Store!StoreNext]_Store!storeVars
<1> DEFINE d == call[p].digest
           n == call[p].body
<1>1. /\ pc[p] = "putRename" /\ pc[p] \in InLock /\ phase = "up" /\ d \in Digests
      /\ pc \in [Procs -> PCs] /\ call \in [Procs -> Calls] /\ len \in [Digests -> Nat]
      /\ UNCHANGED <<phase, maxSize>>
  BY DEF PutRename, IInv, TypeOK, LockInv, Calls, InLock
<1>2. CASE /\ blob' = blob \cup {d} /\ len' = [len EXCEPT ![d] = n]
           /\ IF d \in blob
              THEN strayBytes' = strayBytes - len[d] /\ strayFiles' = strayFiles - 1
              ELSE UNCHANGED stray
           /\ Goto(p, "putAccount")
  <2>1. \A q \in Procs : LentTo(q)' = LentTo(q)
    BY <1>1, <1>2 DEF Goto, LentTo
  <2>2. Counted = blob
    <3>1. \A q \in Procs : pc[q] # "putAccount"
      BY <1>1 DEF IInv, LockInv, MutualExclusion, InLock
    <3> QED BY <1>1, <3>1 DEF Counted, Unaccounted
  <2>3. Bytes(blob) \in Nat /\ n \in Nat /\ Bytes(blob) - strayBytes + n <= maxSize
    <3>1. call[p] \in Deliveries /\ usedSize + call[p].size <= maxSize
      BY <1>1 DEF IInv, PutInv, InLock
    <3>2. call[p].size = n /\ usedSize + strayBytes = Bytes(blob)
      BY <2>2, <3>1, HonestSizes DEF HonestSizes, IInv, UsedInv, UsedSizeExact
    <3>3. n \in Nat /\ usedSize \in Int /\ strayBytes \in Int /\ maxSize \in Nat
      BY <3>1, CacheAssumption DEF IInv, TypeOK
    <3>4. Bytes(blob) \in Nat
      BY BytesType DEF IInv, TypeOK
    <3> QED BY <3>1, <3>2, <3>3, <3>4
  <2>4. strayBytes \in Int /\ maxSize \in Nat
    BY DEF IInv, TypeOK
  <2>5. CASE d \notin blob
    <3>1. n \in 0 .. maxSize - (Bytes(blob) - strayBytes)
      BY <2>3, <2>4
    <3>2. Store!InsertBlob(d)
      BY <1>1, <1>2, <2>1, <2>5, <3>1, SameTotal DEF Store!InsertBlob, Store!Charged, stray
    <3> QED BY <1>1, <3>2 DEF Store!StoreNext
  <2>6. CASE d \in blob
    <3>1. n = len[d]
      BY <1>1, <2>6, SameBytes DEF IInv, PutInv, InLock, Delivered, SameBytes
    <3>2. blob' = blob /\ len' = len
      BY <1>1, <1>2, <2>6, <3>1
    <3>3. Store!ChargeAgain(d)
      BY <1>1, <1>2, <2>1, <2>3, <2>6, <3>1, <3>2, SameTotal DEF Store!ChargeAgain, Store!Charged
    <3> QED BY <1>1, <3>3 DEF Store!StoreNext
  <2> QED BY <2>5, <2>6
<1>3. CASE GiveUp(p) /\ UNCHANGED <<blob, len, stray>>
  <2>1. Rest
    BY <1>1, <1>3 DEF GiveUp, Return, Enter, Rest, LentTo, stray
  <2> QED BY <2>1, RestStutters
<1> QED BY <1>2, <1>3 DEF PutRename, GiveUp

\* Every step of the cache is a step of the store, or none.
LEMMA StoreStep ==
    ASSUME HonestSizes, SameBytes, IInv, [Next]_vars
    PROVE  [Store!StoreNext]_Store!storeVars
<1> USE DEF IInv
<1>0. pc \in [Procs -> PCs] /\ call \in [Procs -> Calls]
  BY DEF TypeOK
<1>1. ASSUME ~(phase = "up"), ~(phase = "up")', UNCHANGED <<blob, len, procs>>
      PROVE  [Store!StoreNext]_Store!storeVars
  <2>1. UNCHANGED Store!storeVars
    BY <1>1 DEF procs, LentTo, Store!storeVars
  <2> QED BY <2>1
<1>2. ASSUME ~(phase = "up"), (phase = "up")', UNCHANGED <<blob, len, procs>>,
             strayBytes' \in 0 .. Bytes(blob), maxSize' \in Nat
      PROVE  Store!StoreNext
  <2>1. Store!OpenStore
    BY <1>2, SameTotal DEF procs, LentTo, Store!OpenStore
  <2> QED BY <2>1 DEF Store!StoreNext
<1>2a. CASE Start
  <2>1. phase = "down" /\ UNCHANGED <<blob, len, procs>> /\ maxSize' \in Nat
    BY <1>2a, CacheAssumption DEF Start, disk
  <2>2. CASE phase' = "scan"
    BY <1>1, <2>1, <2>2
  <2>3. CASE phase' = "up" /\ strayBytes' = SumFunctionOnSet(len, blob)
    <3>1. strayBytes' \in 0 .. Bytes(blob)
      BY <2>3, BytesType DEF TypeOK, Bytes
    <3> QED BY <1>2, <2>1, <2>3, <3>1
  <2> QED BY <1>2a, <2>2, <2>3 DEF Start
<1>2b. CASE ScanFile \/ ScanSkip
  <2>1. UNCHANGED <<blob, len, procs>> /\ phase = "scan" /\ phase' = "scan"
    BY <1>2b DEF ScanFile, ScanSkip, disk, life
  <2> QED BY <1>1, <2>1
<1>2c. CASE ScanDone
  <2>1. /\ phase = "scan" /\ todo = {} /\ phase' = "up" /\ UNCHANGED <<blob, len, procs>>
        /\ strayBytes' = strayBytes /\ maxSize' \in Nat
    BY <1>2c DEF ScanDone, TypeOK, disk, stray
  <2>2. strayBytes \in 0 .. Bytes(blob)
    <3>1. usedSize + strayBytes = Bytes(blob) /\ usedSize >= 0 /\ strayBytes >= 0
      BY <2>1 DEF UsedInv, UsedSizeExact, Counted, ScanInv
    <3> QED BY <3>1, BytesType DEF TypeOK
  <2> QED BY <1>2, <2>1, <2>2
<1>3. CASE Crash
  <2>1. Store!CloseStore
    BY <1>3 DEF Crash, disk, LentTo, Store!CloseStore, Store!NoViews, Store!Nothing
  <2> QED BY <2>1 DEF Store!StoreNext
<1>4. ASSUME NEW p \in Procs, Begin(p) PROVE Rest
  <2>1. CASE \E d \in Digests : GetStat(p, d)
    BY <1>0, <2>1 DEF GetStat, Enter, Rest, LentTo, life, disk, stray
  <2>2. CASE \E d \in Digests : RemoveCall(p, d)
    BY <1>0, <2>2 DEF RemoveCall, Enter, Rest, LentTo, life, disk, stray
  <2>3. CASE \E c \in Deliveries : PutCall(p, c)
    BY <1>0, <2>3 DEF PutCall, Enter, Rest, LentTo, life, disk, stray
  <2> QED BY <1>4, <2>1, <2>2, <2>3 DEF Begin
<1>5. ASSUME NEW p \in Procs, PutPresent(p) \/ PutFits(p) \/ PutNeedsRoom(p) PROVE Rest
  <2>1. CASE PutPresent(p)
    BY <1>0, <2>1 DEF PutPresent, Return, Enter, Rest, LentTo, life, disk, stray
  <2>2. CASE PutFits(p)
    BY <1>0, <2>2 DEF PutFits, Goto, Rest, LentTo, life, disk, stray
  <2>3. CASE PutNeedsRoom(p)
    BY <1>0, <2>3 DEF PutNeedsRoom, Goto, Return, Enter, Rest, LentTo, life, disk, stray
  <2> QED BY <1>5, <2>1, <2>2, <2>3
<1>6. ASSUME NEW p \in Procs, Remove(p) PROVE [Store!StoreNext]_Store!storeVars
  <2>1. /\ phase = "up" /\ UNCHANGED <<phase, maxSize, strayBytes>>
        /\ \A q \in Procs : LentTo(q)' = LentTo(q)
    BY <1>0, <1>6 DEF Remove, Return, Enter, LentTo, life, stray, LockInv
  <2>2. CASE call[p].digest \in blob /\ DropFile(call[p].digest)
    BY <2>1, <2>2, DropRefines
  <2>3. CASE UNCHANGED <<blob, len>>
    BY <2>1, <2>3, RestStutters DEF Rest
  <2> QED BY <1>6, <2>2, <2>3 DEF Remove
<1>7. ASSUME NEW p \in Procs, EvictOldest(p) PROVE [Store!StoreNext]_Store!storeVars
  <2>1. /\ phase = "up" /\ UNCHANGED <<phase, maxSize, strayBytes>>
        /\ \A q \in Procs : LentTo(q)' = LentTo(q)
    BY <1>0, <1>7 DEF EvictOldest, LentTo, life, stray, procs, LockInv
  <2>2. PICK d \in blob : blob' = blob \ {d} /\ len' = [len EXCEPT ![d] = 0]
    BY <1>7 DEF EvictOldest, Oldest, LockInv
  <2> QED BY <2>1, <2>2, DropRefines
<1>8. ASSUME NEW p \in Procs, EvictSkip(p) \/ EvictDone(p) \/ PutCreate(p) \/ PutCopy(p)
                               \/ PutAccount(p)
      PROVE  Rest
  <2>1. CASE EvictSkip(p)
    BY <2>1 DEF EvictSkip, Rest, LentTo, life, disk, stray, procs
  <2>2. CASE EvictDone(p)
    BY <1>0, <2>2 DEF EvictDone, Goto, Return, Enter, Rest, LentTo, life, disk, stray
  <2>3. CASE PutCreate(p)
    BY <1>0, <2>3 DEF PutCreate, Goto, Return, Enter, Rest, LentTo, life, stray
  <2>4. CASE PutCopy(p)
    BY <1>0, <2>4 DEF PutCopy, GiveUp, Goto, Return, Enter, Rest, LentTo, disk, stray
  <2>5. CASE PutAccount(p)
    BY <1>0, <2>5 DEF PutAccount, Return, Enter, Rest, LentTo, life, disk, stray
  <2> QED BY <1>8, <2>1, <2>2, <2>3, <2>4, <2>5
<1>9. CASE UNCHANGED vars
  BY <1>9, RestStutters DEF vars, Rest, LentTo, life, disk, stray, procs
<1>10. ASSUME NEW p \in Procs, Begin(p) \/ Acquire(p) \/ Proceed(p)
       PROVE  [Store!StoreNext]_Store!storeVars
  BY <1>4, <1>5, <1>6, <1>7, <1>8, <1>10, GiveBackRefines, LendRefines, InsertRefines,
     RestStutters DEF Acquire, Proceed
<1> QED BY <1>2a, <1>2b, <1>2c, <1>3, <1>9, <1>10 DEF Next

\* With callers that declare true sizes and deliver the same bytes for the
\* same digest, the cache implements the store: files, counters, mutex, scan
\* and crashes show a user a set of whole blobs within its limit.
THEOREM CacheImplementsStore ==
    ASSUME HonestSizes, SameBytes PROVE Spec => ImplementsBlobStore
<1>1. IInv /\ [Next]_vars => [Store!StoreNext]_Store!storeVars
  BY HonestSizes, SameBytes, StoreStep
<1> QED BY <1>1, StoreInitial, InductiveInvariant, PTL
       DEF Spec, ImplementsBlobStore, Store!StoreSpec
=============================================================================
