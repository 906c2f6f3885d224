----------------------------- MODULE HeaderChain -----------------------------
(***************************************************************************)
(* The header chain of core/headerchain.go: the header store and the      *)
(* canonical number->hash table in the database, the in-memory current    *)
(* head, the heads registry with its garbage collection (trim), the       *)
(* header and number caches, and SetCurrentHeader's reorg walk.           *)
(*                                                                         *)
(* Blocks are identified by their hash: a block is a model value and the  *)
(* fixed constant ParentOf gives its parent hash, so the set of headers   *)
(* that can ever exist is a fixed tree rooted at Genesis.  NoHash is the  *)
(* zero hash (common.Hash{}), Nil is a nil *types.Header.                 *)
(*                                                                         *)
(* Append, ResetWithGenesisBlock and Stop hold headermu (or run alone)    *)
(* and are one atomic step each.  SetCurrentHeader takes no lock: it is a *)
(* process whose program counter `pc` follows the loops of lines 217-334, *)
(* one loop iteration per step, so other calls may interleave with it     *)
(* unless SerialisedCallers says the caller never overlaps them.  A nil   *)
(* header dereferenced by the code is a Go panic: the process dies and    *)
(* only what was written to the database survives (Die).                  *)
(***************************************************************************)
EXTENDS Naturals, Sequences, SequencesExt, FiniteSets

CONSTANTS
    Blocks,             \* hashes of every header that can ever exist
    Genesis,            \* the genesis hash (config.GenesisHashes[ctx])
    PrimeGenesis,       \* config.GenesisHashes[0], read by the reorg's genesis checks
    ParentOf,           \* ParentOf[b]: the parent hash of b (NoHash for Genesis)
    NoHash,             \* common.Hash{}
    Nil,                \* a nil *types.Header
    MaxHeadsQueueLimit, \* maxHeadsQueueLimit
    SerialisedCallers,  \* TRUE: no call overlaps a SetCurrentHeader in progress
    ProcessCrashes,     \* TRUE: the process may be killed between any two steps
    KnownAppendable,    \* TRUE: the engine and body chain accept a stored header again
    ResetCalled,        \* TRUE: Reset (ResetWithGenesisBlock) is ever called
    InZone,             \* TRUE: types.QuaiNetworkContext = params.ZONE
    Location,           \* Location[b]: the byte Location[ctx] of b's header
    NoLocation          \* a Location too short to hold a byte at ctx

ASSUME /\ Genesis \in Blocks
       /\ ParentOf \in [Blocks -> Blocks \cup {NoHash}]
       /\ ParentOf[Genesis] = NoHash
       /\ {NoHash, Nil} \cap Blocks = {}
       /\ MaxHeadsQueueLimit \in Nat \ {0}
       /\ SerialisedCallers \in BOOLEAN /\ ProcessCrashes \in BOOLEAN
       /\ KnownAppendable \in BOOLEAN /\ ResetCalled \in BOOLEAN
       /\ PrimeGenesis \notin {NoHash, Nil}
       /\ InZone \in BOOLEAN
       /\ Location \in [Blocks -> (0..255) \cup {NoLocation}]

(* Number64(): the block number, one more than the parent's.              *)
Num[b \in Blocks] == IF b = Genesis THEN 0 ELSE Num[ParentOf[b]] + 1

(* b together with every header on its parent-linked path to genesis.     *)
Chain[b \in Blocks] == IF b = Genesis THEN {b} ELSE {b} \cup Chain[ParentOf[b]]

Heights == {Num[b] : b \in Blocks}

(* SetCurrentHeader's sliceHeaders := make([]*types.Header, 3), indexed  *)
(* outside a zone by Location[ctx]-1, a byte: 0 wraps to 255.  An index   *)
(* out of range, or a Location without a byte at ctx, panics.            *)
SliceSlots == 3

(* Mutant of SliceIndex: Location[ctx] used without the -1.              *)
SliceIndexNoDecrement(b) == Location[b] % 256

SliceIndex(b) == (Location[b] + 255) % 256

SliceOk(b) == InZone \/ (Location[b] # NoLocation /\ SliceIndex(b) < SliceSlots)

(* The replay (lines 326-329) skips a header with an empty Location.     *)
RecordOk(b) == Location[b] = NoLocation \/ SliceOk(b)

VARIABLES
    \* database (ethdb.Database), survives a restart
    headers,        \* hashes whose header (and hash->number entry) is written
    canonicalHash,  \* rawdb canonical table: number -> hash or NoHash
    headBlockHash,  \* rawdb head block hash
    headsHashes,    \* rawdb heads hashes (written by Stop)
    \* process memory
    alive,          \* the node process is running
    stopped,        \* hc.running = 1 (Stop has run)
    currentHeader,  \* hc.currentHeader
    heads,          \* hc.heads
    headerCache,    \* keys of hc.headerCache
    numberCache,    \* keys of hc.numberCache
    \* locals of the SetCurrentHeader call in progress
    pc, head, prevHeader, newHeader, commonHeader, hashStack

dbVars    == <<headers, canonicalHash, headBlockHash, headsHashes>>
setVars   == <<pc, head, prevHeader, newHeader, commonHeader, hashStack>>
memVars   == <<alive, stopped, currentHeader, heads, headerCache, numberCache>>
vars      == <<dbVars, memVars, setVars>>

Header  == Blocks \cup {Nil}
PCs     == {"idle", "common", "walk", "fillNew", "unwindOld", "replay"}

-----------------------------------------------------------------------------
(***************************************************************************)
(* Read paths.  A walk threads a record st = [db, hc, nc] holding the     *)
(* stored headers and the two cache key sets, so that every read's cache  *)
(* fill is kept.  The caches are LRU caches of 512 and 2048 entries, far  *)
(* more than Blocks, so nothing is evicted, and nothing removes an entry  *)
(* when a header is deleted: a deleted header stays readable while it is  *)
(* cached.                                                                 *)
(***************************************************************************)
St == [db |-> headers, hc |-> headerCache, nc |-> numberCache]

(* GetHeader(hash, number): the cache, else the database (filling the     *)
(* cache).  Returns [hdr, st].                                             *)
GetHeader(h, st) ==
    [hdr |-> IF h \in st.hc \/ h \in st.db THEN h ELSE Nil,
     st  |-> IF h \in st.db THEN [st EXCEPT !.hc = @ \cup {h}] ELSE st]

(* GetHeaderByHash(hash): GetBlockNumber (number cache, else the stored   *)
(* hash->number entry), then GetHeader.                                    *)
GetHeaderByHash(h, st) ==
    IF h \in st.nc \/ h \in st.db
    THEN GetHeader(h, IF h \in st.db THEN [st EXCEPT !.nc = @ \cup {h}] ELSE st)
    ELSE [hdr |-> Nil, st |-> st]

(* findCommonHeader(header): walk back until the canonical hash at the    *)
(* header's number is its own hash or the genesis hash.                   *)
(* Mutant of FindCommonHeader: only the genesis hash ends the walk, the   *)
(* header's own canonical entry is not compared.                          *)
RECURSIVE FindCommonHeaderGenesisOnly(_, _, _)
FindCommonHeaderGenesisOnly(h, canon, st) ==
    IF h = Nil THEN [hdr |-> Nil, st |-> st]
    ELSE IF canon[Num[h]] = Genesis
         THEN GetHeaderByHash(canon[Num[h]], st)
         ELSE LET p == GetHeader(ParentOf[h], st)
              IN  FindCommonHeaderGenesisOnly(p.hdr, canon, p.st)

RECURSIVE FindCommonHeader(_, _, _)
FindCommonHeader(h, canon, st) ==
    IF h = Nil THEN [hdr |-> Nil, st |-> st]
    ELSE IF canon[Num[h]] \in {h, Genesis}
         THEN GetHeaderByHash(canon[Num[h]], st)
         ELSE LET p == GetHeader(ParentOf[h], st)
              IN  FindCommonHeader(p.hdr, canon, p.st)

(* trim(commonHeader, startHeader): delete each header from startHeader   *)
(* back to (excluding) commonHeader; stop silently at an unreadable one.  *)
(* The body chain's bc.Trim is outside this model.                        *)
(* Mutant of Trim: the header is deleted before the loop asks whether it *)
(* is the common header, so the common header goes too.                   *)
RECURSIVE TrimPastCommon(_, _, _)
TrimPastCommon(common, start, st) ==
    LET st1 == [st EXCEPT !.db = @ \ {start}]
        p   == GetHeader(ParentOf[start], st1)
    IN  IF start = common \/ p.hdr = Nil THEN st1
        ELSE TrimPastCommon(common, p.hdr, p.st)

RECURSIVE Trim(_, _, _)
Trim(common, start, st) ==
    IF start = common THEN st
    ELSE LET p == GetHeader(ParentOf[start], [st EXCEPT !.db = @ \ {start}])
         IN  IF p.hdr = Nil THEN p.st ELSE Trim(common, p.hdr, p.st)

(* The orders sort.Slice may leave s in: ascending by number, ties in     *)
(* any order (sort.Slice is not stable).                                  *)
SortedByNumber(s) ==
    {t \in [1..Len(s) -> Range(s)] :
        /\ ToBag(t) = ToBag(s)
        /\ IsSorted(t, LAMBDA x, y : Num[x] <= Num[y])}

-----------------------------------------------------------------------------
(* A nil dereference panics, or the process ends: what was written to   *)
(* the database so far (db, canon) stays, all process memory is gone.     *)
LoseMemory(st, canon) ==
    /\ headers' = st.db
    /\ canonicalHash' = canon
    /\ alive' = FALSE
    /\ stopped' = FALSE
    /\ currentHeader' = Nil
    /\ heads' = <<>>
    /\ headerCache' = {}
    /\ numberCache' = {}
    /\ pc' = "idle"
    /\ head' = Nil /\ prevHeader' = Nil /\ newHeader' = Nil
    /\ commonHeader' = Nil /\ hashStack' = <<>>

Die(st, canon) == LoseMemory(st, canon) /\ UNCHANGED <<headBlockHash, headsHashes>>

(* A call other than a SetCurrentHeader step may run now.                 *)
CallerMayRun == alive /\ (SerialisedCallers => pc = "idle")

(* The database right after genesis setup, and NewHeaderChain on it:     *)
(* GetHeaderByNumber(0) and loadLastState's GetHeaderByHash fill caches. *)
Init ==
    /\ headers = {Genesis}
    /\ canonicalHash = [n \in Heights |-> IF n = 0 THEN Genesis ELSE NoHash]
    /\ headBlockHash = Genesis
    /\ headsHashes = <<>>
    /\ alive = TRUE
    /\ stopped = FALSE
    /\ currentHeader = Genesis
    /\ heads = <<>>
    /\ headerCache = {Genesis}
    /\ numberCache = {Genesis}
    /\ pc = "idle"
    /\ head = Nil /\ prevHeader = Nil /\ newHeader = Nil
    /\ commonHeader = Nil /\ hashStack = <<>>

(* Keep the database headers and the caches of a finished walk.           *)
SetStore(st) ==
    /\ headers' = st.db
    /\ headerCache' = st.hc
    /\ numberCache' = st.nc

-----------------------------------------------------------------------------
(***************************************************************************)
(* Append(block), lines 144-204, under headermu.  Appendable asks the     *)
(* consensus engine, which reads the parent through hc.GetHeader, and the *)
(* body chain; either may reject.  The header is written, then the body   *)
(* chain's Append may fail, and the header is deleted again.  On success, *)
(* a full registry first trims the branch of heads[0] back to its common  *)
(* header and dequeues it; then the header is queued and the queue sorted *)
(* by number.  A nil common header ends the call with an error after the  *)
(* header and body were written.                                          *)
(***************************************************************************)
UnchangedButHeaders ==
    UNCHANGED <<canonicalHash, headBlockHash, headsHashes, alive, stopped,
                currentHeader, setVars>>

(* Queue b and sort.  sort.Slice's less reads Number of both headers, so *)
(* a nil entry (restored by loadLastState) panics once there are two.    *)
Enqueue(hs, b, st) ==
    LET q == Append(hs, b)
    IN  IF Nil \in Range(q)
        THEN Die(st, canonicalHash)
        ELSE /\ SetStore(st)
             /\ \E sorted \in SortedByNumber(q) : heads' = sorted
             /\ UnchangedButHeaders

(* Mutant of AppendOk: eviction only once the registry is over the limit. *)
AppendOkLateEvict(b, st) ==
    LET st1 == [st EXCEPT !.db = @ \cup {b}]
    IN  IF Len(heads) > MaxHeadsQueueLimit
        THEN LET fc == FindCommonHeader(heads[1], canonicalHash, st1)
             IN  IF fc.hdr = Nil
                 THEN SetStore(fc.st) /\ UNCHANGED heads /\ UnchangedButHeaders
                 ELSE Enqueue(Tail(heads), b, Trim(fc.hdr, heads[1], fc.st))
        ELSE Enqueue(heads, b, st1)

AppendOk(b, st) ==
    LET st1 == [st EXCEPT !.db = @ \cup {b}]
    IN  IF Len(heads) = MaxHeadsQueueLimit
        THEN LET fc == FindCommonHeader(heads[1], canonicalHash, st1)
             IN  IF fc.hdr = Nil
                 THEN SetStore(fc.st) /\ UNCHANGED heads /\ UnchangedButHeaders
                 ELSE Enqueue(Tail(heads), b, Trim(fc.hdr, heads[1], fc.st))
        ELSE Enqueue(heads, b, st1)

AppendBlock(b) ==
    /\ CallerMayRun
    /\ LET par == GetHeader(ParentOf[b], St)
       IN  \/ /\ SetStore(par.st)                     \* Appendable rejects
              /\ UNCHANGED heads /\ UnchangedButHeaders
           \/ /\ par.hdr # Nil                        \* bc.Append fails
              /\ KnownAppendable \/ b \notin headers
              /\ SetStore([par.st EXCEPT !.db = @ \ {b}])
              /\ UNCHANGED heads /\ UnchangedButHeaders
           \/ /\ par.hdr # Nil
              /\ KnownAppendable \/ b \notin headers
              /\ AppendOk(b, par.st)

(***************************************************************************)
(* ResetWithGenesisBlock(hc.genesisHeader), lines 337-354: trim every     *)
(* registered head back to genesis.  A nil head panics inside trim.       *)
(***************************************************************************)
RECURSIVE TrimAll(_, _)
TrimAll(hs, st) ==
    IF hs = <<>> THEN [st |-> st, panic |-> FALSE]
    ELSE IF Head(hs) = Nil THEN [st |-> st, panic |-> TRUE]
    ELSE TrimAll(Tail(hs), Trim(Genesis, Head(hs), st))

Reset ==
    /\ ResetCalled /\ CallerMayRun
    /\ LET r == TrimAll(heads, St)
       IN  IF r.panic
           THEN Die(r.st, canonicalHash)
           ELSE /\ SetStore(r.st)
                /\ UNCHANGED <<canonicalHash, headBlockHash, headsHashes, alive,
                               stopped, currentHeader, heads, setVars>>

(***************************************************************************)
(* Stop, lines 422-442: once only (CompareAndSwap on hc.running), write    *)
(* the heads' hashes and the current head's hash.  A nil entry in heads   *)
(* panics on heads[i].Hash().  Insertion is not refused afterwards:       *)
(* Append never reads procInterrupt.                                      *)
(***************************************************************************)
(* Mutant of Stop: the heads' hashes are added to the stored list rather *)
(* than replacing it.                                                      *)
StopAppendsHashes ==
    /\ CallerMayRun
    /\ ~stopped
    /\ IF Nil \in Range(heads)
       THEN Die(St, canonicalHash)
       ELSE /\ headsHashes' = headsHashes \o heads
            /\ headBlockHash' = currentHeader
            /\ stopped' = TRUE
            /\ UNCHANGED <<headers, canonicalHash, alive, currentHeader, heads,
                           headerCache, numberCache, setVars>>

Stop ==
    /\ CallerMayRun
    /\ ~stopped
    /\ IF Nil \in Range(heads)
       THEN Die(St, canonicalHash)
       ELSE /\ headsHashes' = heads
            /\ headBlockHash' = currentHeader
            /\ stopped' = TRUE
            /\ UNCHANGED <<headers, canonicalHash, alive, currentHeader, heads,
                           headerCache, numberCache, setVars>>

(* The process exits after Stop, or is killed at any point.               *)
Exit ==
    /\ alive
    /\ \/ stopped /\ CallerMayRun
       \/ ProcessCrashes
    /\ Die(St, canonicalHash)

(***************************************************************************)
(* NewHeaderChain on the existing database, lines 98-141 and              *)
(* loadLastState, lines 396-418: genesisHeader from GetHeaderByNumber(0), *)
(* the current head from the stored head hash, the heads from the stored  *)
(* heads hashes (nil where a header is gone).  With no genesis header, or *)
(* no readable head header, startup panics and the node cannot start.     *)
(***************************************************************************)
Loadable(h) == h \in headers

CanStart == Loadable(canonicalHash[0]) /\ Loadable(headBlockHash)

Restart ==
    LET found == ({headBlockHash} \cup Range(headsHashes)) \cap headers
    IN  /\ ~alive
        /\ CanStart
        /\ alive' = TRUE
        /\ currentHeader' = headBlockHash
        /\ heads' = [i \in DOMAIN headsHashes |->
                        IF Loadable(headsHashes[i]) THEN headsHashes[i] ELSE Nil]
        /\ headerCache' = found \cup {canonicalHash[0]}
        /\ numberCache' = found
        /\ UNCHANGED <<dbVars, stopped, setVars>>

(* GetHeader called by any reader (no lock): fills the header cache.     *)
GetHeaderCall(h) ==
    /\ alive
    /\ headerCache' = GetHeader(h, St).st.hc
    /\ UNCHANGED <<dbVars, alive, stopped, currentHeader, heads, numberCache,
                   setVars>>

-----------------------------------------------------------------------------
(***************************************************************************)
(* SetCurrentHeader(head), lines 217-334, without any lock.               *)
(***************************************************************************)
(* Move the call to the code at label `to`.                              *)
Goto(to) == pc' = to

(* Lines 219-238: read the old head, store and persist the new one; a    *)
(* child of the old head only gets its canonical entry written, and      *)
(* outside a zone its sliceHeaders slot (line 235).                       *)
SetCurrentHeader(h) ==
    /\ alive /\ pc = "idle"
    /\ h \in headers
    /\ headBlockHash' = h
    /\ UNCHANGED headsHashes
    /\ LET canon == [canonicalHash EXCEPT ![Num[h]] = h]
       IN  CASE ParentOf[h] = currentHeader /\ ~SliceOk(h)
                 -> LoseMemory(St, canon)
             [] ParentOf[h] = currentHeader
                 -> /\ canonicalHash' = canon
                    /\ currentHeader' = h
                    /\ UNCHANGED <<setVars, headers, alive, stopped, heads,
                                   headerCache, numberCache>>
             [] OTHER
                 -> /\ currentHeader' = h
                    /\ Goto("common")
                    /\ head' = h
                    /\ prevHeader' = currentHeader
                    /\ UNCHANGED <<canonicalHash, newHeader, commonHeader, hashStack,
                                   headers, alive, stopped, heads, headerCache,
                                   numberCache>>

(* Lines 241-246: the common header; calling Hash() on a nil one panics. *)
SCHCommon ==
    /\ alive /\ pc = "common"
    /\ LET c == FindCommonHeader(head, canonicalHash, St)
       IN  IF c.hdr = Nil
           THEN Die(c.st, canonicalHash)
           ELSE /\ SetStore(c.st)
                /\ commonHeader' = c.hdr
                /\ newHeader' = head
                /\ hashStack' = <<>>
                /\ Goto("walk")
                /\ UNCHANGED <<canonicalHash, headBlockHash, headsHashes, alive,
                               stopped, currentHeader, heads, head, prevHeader>>

UnchangedButWalk == UNCHANGED <<headBlockHash, headsHashes, alive, stopped,
                                currentHeader, heads, head, commonHeader>>

(* Lines 247-315, one iteration of the outer loop.  The old side deletes *)
(* the canonical entry at prevHeader and steps back; if the new side is  *)
(* at the common header the inner loop of lines 276-292 finishes the old *)
(* side, otherwise newHeader is pushed and steps back, and the loop ends *)
(* once prevHeader is GenesisHashes[0]; else, outside a zone, prevHeader  *)
(* takes its sliceHeaders slot (line 311).  With prevHeader at the common *)
(* header the inner loop of lines 250-265 finishes the new side.          *)
SCHWalk ==
    /\ alive /\ pc = "walk"
    /\ IF prevHeader = commonHeader
       THEN Goto("fillNew") /\ UNCHANGED <<headers, canonicalHash, headerCache,
                 numberCache, prevHeader, newHeader, hashStack>> /\ UnchangedButWalk
       ELSE LET canon == [canonicalHash EXCEPT ![Num[prevHeader]] = NoHash]
                p     == GetHeader(ParentOf[prevHeader], St)
                n     == GetHeader(ParentOf[newHeader], p.st)
            IN  CASE newHeader = Nil
                      -> Die(p.st, canon)
                  [] newHeader # commonHeader /\ p.hdr = Nil
                      -> Die(n.st, canon)
                  [] newHeader = commonHeader /\ p.hdr = Nil
                      -> Die(p.st, canon)
                  [] newHeader = commonHeader
                      -> /\ canonicalHash' = canon
                         /\ SetStore(p.st)
                         /\ prevHeader' = p.hdr
                         /\ Goto("unwindOld")
                         /\ UNCHANGED <<newHeader, hashStack>> /\ UnchangedButWalk
                  [] p.hdr # PrimeGenesis /\ ~SliceOk(p.hdr)
                      -> Die(n.st, canon)
                  [] OTHER
                      -> /\ canonicalHash' = canon
                         /\ SetStore(n.st)
                         /\ hashStack' = Append(hashStack, newHeader)
                         /\ newHeader' = n.hdr
                         /\ prevHeader' = p.hdr
                         /\ Goto(IF p.hdr = PrimeGenesis THEN "replay" ELSE "walk")
                         /\ UnchangedButWalk

(* Lines 250-265: step the new side back, pushing each parent read, until *)
(* the common header or genesis.                                          *)
SCHFillNew ==
    /\ alive /\ pc = "fillNew"
    /\ LET n == GetHeader(ParentOf[newHeader], St)
       IN  CASE newHeader = Nil
                 -> Die(St, canonicalHash)
             [] newHeader # commonHeader /\ n.hdr = Nil
                 -> Die(n.st, canonicalHash)
             [] newHeader = commonHeader
                 -> Goto("replay")
                    /\ UNCHANGED <<headers, canonicalHash, headerCache, numberCache,
                                   prevHeader, newHeader, hashStack>>
                    /\ UnchangedButWalk
             [] OTHER
                 -> /\ SetStore(n.st)
                    /\ hashStack' = Append(hashStack, n.hdr)
                    /\ newHeader' = n.hdr
                    /\ Goto(IF n.hdr = PrimeGenesis THEN "replay" ELSE "fillNew")
                    /\ UNCHANGED <<canonicalHash, prevHeader>> /\ UnchangedButWalk

(* Lines 276-292: delete the old side's canonical entries back to the     *)
(* common header or genesis.                                               *)
(* Mutants of SCHUnwindOld: the canonical entry is not deleted; the entry *)
(* is deleted before the common-header test; prevHeader is not advanced.  *)
SCHUnwindOldKeepsEntry ==
    /\ alive /\ pc = "unwindOld"
    /\ LET p == GetHeader(ParentOf[prevHeader], St)
       IN  CASE prevHeader = commonHeader
                 -> Goto("replay")
                    /\ UNCHANGED <<headers, canonicalHash, headerCache, numberCache,
                                   prevHeader, newHeader, hashStack>>
                    /\ UnchangedButWalk
             [] p.hdr = Nil
                 -> Die(p.st, canonicalHash)
             [] OTHER
                 -> /\ SetStore(p.st)
                    /\ prevHeader' = p.hdr
                    /\ Goto(IF p.hdr = PrimeGenesis THEN "replay" ELSE "unwindOld")
                    /\ UNCHANGED <<canonicalHash, newHeader, hashStack>>
                    /\ UnchangedButWalk

SCHUnwindOldDeleteFirst ==
    /\ alive /\ pc = "unwindOld"
    /\ LET canon == [canonicalHash EXCEPT ![Num[prevHeader]] = NoHash]
           p     == GetHeader(ParentOf[prevHeader], St)
       IN  CASE prevHeader = commonHeader
                 -> Goto("replay") /\ canonicalHash' = canon
                    /\ UNCHANGED <<headers, headerCache, numberCache,
                                   prevHeader, newHeader, hashStack>>
                    /\ UnchangedButWalk
             [] p.hdr = Nil
                 -> Die(p.st, canon)
             [] OTHER
                 -> /\ canonicalHash' = canon
                    /\ SetStore(p.st)
                    /\ prevHeader' = p.hdr
                    /\ Goto(IF p.hdr = PrimeGenesis THEN "replay" ELSE "unwindOld")
                    /\ UNCHANGED <<newHeader, hashStack>> /\ UnchangedButWalk

SCHUnwindOldStays ==
    /\ alive /\ pc = "unwindOld"
    /\ LET canon == [canonicalHash EXCEPT ![Num[prevHeader]] = NoHash]
           p     == GetHeader(ParentOf[prevHeader], St)
       IN  CASE prevHeader = commonHeader
                 -> Goto("replay")
                    /\ UNCHANGED <<headers, canonicalHash, headerCache, numberCache,
                                   prevHeader, newHeader, hashStack>>
                    /\ UnchangedButWalk
             [] p.hdr = Nil
                 -> Die(p.st, canon)
             [] OTHER
                 -> /\ canonicalHash' = canon
                    /\ SetStore(p.st)
                    /\ Goto("unwindOld")
                    /\ UNCHANGED <<prevHeader, newHeader, hashStack>>
                    /\ UnchangedButWalk

SCHUnwindOld ==
    /\ alive /\ pc = "unwindOld"
    /\ LET canon == [canonicalHash EXCEPT ![Num[prevHeader]] = NoHash]
           p     == GetHeader(ParentOf[prevHeader], St)
       IN  CASE prevHeader = commonHeader
                 -> Goto("replay")
                    /\ UNCHANGED <<headers, canonicalHash, headerCache, numberCache,
                                   prevHeader, newHeader, hashStack>>
                    /\ UnchangedButWalk
             [] p.hdr = Nil
                 -> Die(p.st, canon)
             [] OTHER
                 -> /\ canonicalHash' = canon
                    /\ SetStore(p.st)
                    /\ prevHeader' = p.hdr
                    /\ Goto(IF p.hdr = PrimeGenesis THEN "replay" ELSE "unwindOld")
                    /\ UNCHANGED <<newHeader, hashStack>> /\ UnchangedButWalk

(* Lines 321-333: pop the stack, writing each canonical entry and, out-  *)
(* side a zone, the slot of a header with a Location; return.             *)
SCHReplay ==
    /\ alive /\ pc = "replay"
    /\ IF hashStack = <<>>
       THEN /\ Goto("idle")
            /\ head' = Nil /\ prevHeader' = Nil /\ newHeader' = Nil
            /\ commonHeader' = Nil
            /\ UNCHANGED <<dbVars, memVars, hashStack>>
       ELSE LET canon == [canonicalHash EXCEPT ![Num[Last(hashStack)]] =
                                 Last(hashStack)]
            IN  IF RecordOk(Last(hashStack))
                THEN /\ canonicalHash' = canon
                     /\ hashStack' = Front(hashStack)
                     /\ UNCHANGED <<headers, headBlockHash, headsHashes, memVars,
                                    pc, head, prevHeader, newHeader, commonHeader>>
                ELSE Die(St, canon)

(* The steps of a SetCurrentHeader call in progress.  Its goroutine       *)
(* never blocks (no lock, no channel, local database calls), so once a   *)
(* call has started it keeps being scheduled: weak fairness.              *)
SetCurrentHeaderSteps ==
    SCHCommon \/ SCHWalk \/ SCHFillNew \/ SCHUnwindOld \/ SCHReplay

-----------------------------------------------------------------------------
Next ==
    \/ \E b \in Blocks \ {Genesis} : AppendBlock(b)
    \/ \E h \in Blocks : SetCurrentHeader(h)
    \/ SetCurrentHeaderSteps
    \/ Reset \/ Stop \/ Exit \/ Restart
    \/ \E h \in Blocks : GetHeaderCall(h)

Spec == Init /\ [][Next]_vars

FairSpec == Spec /\ WF_vars(SetCurrentHeaderSteps)

-----------------------------------------------------------------------------
TypeOK ==
    /\ headers \in SUBSET Blocks
    /\ canonicalHash \in [Heights -> Blocks \cup {NoHash}]
    /\ headBlockHash \in Blocks
    /\ headsHashes \in Seq(Header) /\ Len(headsHashes) <= MaxHeadsQueueLimit
    /\ alive \in BOOLEAN /\ stopped \in BOOLEAN
    /\ currentHeader \in Header
    /\ heads \in Seq(Header)
    /\ headerCache \in SUBSET Blocks /\ numberCache \in SUBSET Blocks
    /\ pc \in PCs
    /\ {head, prevHeader, newHeader, commonHeader} \subseteq Header
    /\ hashStack \in Seq(Header)

(* The header of b's chain at height n.                                   *)
AncestorAt(b, n) == CHOOSE a \in Chain[b] : Num[a] = n

(* Spec section 3: with no SetCurrentHeader in progress, the canonical    *)
(* table from 0 to the head's number is exactly the parent-linked path    *)
(* ending at the stored head, and empty above it.                         *)
CanonicalIsHeadChain ==
    pc = "idle" =>
        \A n \in Heights :
            canonicalHash[n] = IF n <= Num[headBlockHash]
                               THEN AncestorAt(headBlockHash, n) ELSE NoHash

(* Spec section 8: no reorg, trim or eviction deletes genesis's entry.   *)
GenesisCanonical == canonicalHash[0] = Genesis

(* Spec sections 4.2 and 8: once SetCurrentHeader has returned, the       *)
(* canonical entry at the head's own number is the head, however the walk *)
(* went (fast-forward, old side first, new side first).                   *)
HeadCanonical == pc = "idle" => canonicalHash[Num[headBlockHash]] = headBlockHash

(* Spec section 5 serialises every reorg under the header chain's lock:   *)
(* while a SetCurrentHeader call is in progress, the header it installs   *)
(* stays stored, whatever other callers do.                               *)
InstalledHeadStored == pc # "idle" => head \in headers

(* Spec section 3: the genesis header is never deleted by any garbage-  *)
(* collection path (trim from eviction or Reset, or the rollback of a     *)
(* failed body append).                                                   *)
GenesisKept == Genesis \in headers

(* Garbage collection only deletes non-canonical branches: every header *)
(* on the head's chain stays in the database.                             *)
HeadChainStored == Chain[headBlockHash] \subseteq headers

(* The heads registry as its abstract specification sees it.            *)
Registry == INSTANCE HeadsRegistry
                WITH reg <- heads, saved <- headsHashes,
                     Number <- Num, Limit <- MaxHeadsQueueLimit

(* Append, Stop, panics and restart use hc.heads as HeadsRegistry says:  *)
(* at most maxHeadsQueueLimit heads in ascending number order, a full    *)
(* registry dropping a head of the lowest number before an insertion,    *)
(* the saved list restored at startup.  Eviction takes heads[0] after    *)
(* sort.Slice, and restart restores the list Stop saved.                 *)
RegistryRefined == Registry!Spec

(* Every SetCurrentHeader call returns: its walks reach the common      *)
(* header or genesis and the replay empties the stack.                    *)
ReorgReturns == pc # "idle" ~> pc = "idle"

(* Spec section 4.2: a reorg records rollback and rollforward headers   *)
(* in sliceHeaders and returns it.  Where nothing else ends the process,  *)
(* every SetCurrentHeader call completes without a panic: no nil header  *)
(* dereferenced and, outside a zone, no slot index out of range for a    *)
(* header whose Location is in CheckLocationRange's range.                *)
StaysAlive == alive

(* A node that went down can start again: genesis and the stored head    *)
(* are readable by NewHeaderChain/loadLastState.                          *)
RestartPossible == ~alive => CanStart

(* Spec section 5: Stop persists the registry and insertion is disabled *)
(* for good afterwards, so the hashes it saved name stored headers:      *)
(* loadLastState restores every saved head, and a running node's        *)
(* registry holds no nil entry for sort.Slice, Stop or Reset to         *)
(* dereference.                                                           *)
HeadsLoadable == alive => Nil \notin Range(heads)

=============================================================================
