---------------------------- MODULE HeaderQueries ----------------------------
(***************************************************************************)
(* The read paths of the query engine beside the header chain: a reader   *)
(* running GetAncestor (lines 518-550) and GetBlockHashesFromHash (lines  *)
(* 492-511).  Neither takes headermu, so a reader's database reads may    *)
(* interleave with the steps of a SetCurrentHeader in progress, and with  *)
(* whole SetCurrentHeader calls, unless SerialisedCallers says the caller *)
(* runs them one at a time.                                               *)
(*                                                                         *)
(* GetAncestor is a process with a program counter rpc: one step per read *)
(* of the canonical table or of a header, because a reorg may change the  *)
(* table between any two of them.  GetBlockHashesFromHash is a RECURSIVE  *)
(* operator, checked against the parent chain over every stored header.   *)
(***************************************************************************)
EXTENDS HeaderChain

CONSTANTS
    MaxBudget,      \* largest *maxNonCanonical a caller passes
    MaxCount        \* largest max a caller passes to GetBlockHashesFromHash

ASSUME MaxBudget \in Nat /\ MaxCount \in Nat

VARIABLES
    rpc,            \* where the GetAncestor call is: "idle", "check", ...
    rIn,            \* the call's arguments [hash, number, ancestor]
    rHash, rNum,    \* hash and number, stepped back by the loop
    rAnc,           \* ancestor, counted down by the loop
    rBudget,        \* *maxNonCanonical
    rAncHash,       \* ancestorHash read at line 531
    rOut            \* the returned (hash, number), once rpc = "done"

readVars == <<rpc, rIn, rHash, rNum, rAnc, rBudget, rAncHash, rOut>>
qvars    == <<vars, readVars>>

Zero == [hash |-> NoHash, num |-> 0]

(* Return (h, n) and finish.                                              *)
Return(h, n) == rOut' = [hash |-> h, num |-> n] /\ rpc' = "done"

QInit(init) ==
    /\ init
    /\ rpc = "idle" /\ rIn = Zero /\ rHash = NoHash /\ rNum = 0 /\ rAnc = 0
    /\ rBudget = 0 /\ rAncHash = NoHash /\ rOut = Zero

(* A caller that does not overlap a SetCurrentHeader may start.           *)
ReaderMayRun == alive /\ (SerialisedCallers => pc = "idle")

UnchangedChain == UNCHANGED vars

UnchangedButCache ==
    UNCHANGED <<dbVars, alive, stopped, currentHeader, heads, numberCache, setVars>>

(* Lines 518-529: the call with a stored header's hash and number, and   *)
(* its two early returns; ancestor 1 reads the header for its parent.     *)
GetAncestorStart ==
    /\ rpc = "idle" /\ ReaderMayRun
    /\ \E h \in headers, b \in 0..MaxBudget : \E a \in 0..(Num[h] + 1) :
        /\ rIn' = [hash |-> h, num |-> Num[h], ancestor |-> a]
        /\ rHash' = h /\ rNum' = Num[h] /\ rAnc' = a /\ rBudget' = b
        /\ UNCHANGED rAncHash
        /\ CASE a > Num[h] -> Return(NoHash, 0) /\ UnchangedChain
             [] a = 1      -> LET r == GetHeader(h, St)
                              IN  /\ headerCache' = r.st.hc /\ UnchangedButCache
                                  /\ IF r.hdr = Nil THEN Return(NoHash, 0)
                                     ELSE Return(ParentOf[h], Num[h] - 1)
             [] a = 0      -> Return(h, Num[h]) /\ UnchangedChain
             [] OTHER      -> rpc' = "check" /\ UNCHANGED rOut /\ UnchangedChain

(* Line 530: is the header canonical at its number?                       *)
GACheck ==
    /\ rpc = "check"
    /\ rpc' = IF canonicalHash[rNum] = rHash THEN "ancestor" ELSE "walk"
    /\ UNCHANGED <<rIn, rHash, rNum, rAnc, rBudget, rAncHash, rOut>> /\ UnchangedChain

(* Mutant of GAAncestor: reads one height too high.                       *)
GAAncestorOffByOne ==
    /\ rpc = "ancestor"
    /\ rAncHash' = canonicalHash[rNum - rAnc + 1]
    /\ rpc' = "recheck"
    /\ UNCHANGED <<rIn, rHash, rNum, rAnc, rBudget, rOut>> /\ UnchangedChain

(* Line 531: read the canonical hash ancestor blocks further down.        *)
GAAncestor ==
    /\ rpc = "ancestor"
    /\ rAncHash' = canonicalHash[rNum - rAnc]
    /\ rpc' = "recheck"
    /\ UNCHANGED <<rIn, rHash, rNum, rAnc, rBudget, rOut>> /\ UnchangedChain

(* Lines 532-535: still canonical?  Then return the hash read.            *)
GARecheck ==
    /\ rpc = "recheck"
    /\ IF canonicalHash[rNum] = rHash
       THEN Return(rAncHash, rNum - rAnc)
       ELSE rpc' = "walk" /\ UNCHANGED rOut
    /\ UNCHANGED <<rIn, rHash, rNum, rAnc, rBudget, rAncHash>> /\ UnchangedChain

(* Lines 537-549: spend one unit of budget, read the header, step to its *)
(* parent; the loop ends when ancestor reaches 0.                         *)
GAWalk ==
    /\ rpc = "walk"
    /\ UNCHANGED <<rIn, rAncHash>>
    /\ IF rBudget = 0
       THEN Return(NoHash, 0) /\ UNCHANGED <<rHash, rNum, rAnc, rBudget>>
            /\ UnchangedChain
       ELSE LET r == GetHeader(rHash, St)
            IN  /\ headerCache' = r.st.hc /\ UnchangedButCache
                /\ rBudget' = rBudget - 1
                /\ IF r.hdr = Nil
                   THEN Return(NoHash, 0) /\ UNCHANGED <<rHash, rNum, rAnc>>
                   ELSE /\ rHash' = ParentOf[rHash]
                        /\ rNum' = rNum - 1
                        /\ rAnc' = rAnc - 1
                        /\ IF rAnc - 1 = 0
                           THEN Return(ParentOf[rHash], rNum - 1)
                           ELSE rpc' = "check" /\ UNCHANGED rOut

(* The caller takes the result; the call's locals are gone.              *)
GADone ==
    /\ rpc = "done"
    /\ rpc' = "idle" /\ rIn' = Zero /\ rHash' = NoHash /\ rNum' = 0 /\ rAnc' = 0
    /\ rBudget' = 0 /\ rAncHash' = NoHash /\ rOut' = Zero
    /\ UnchangedChain

GetAncestorSteps == GACheck \/ GAAncestor \/ GARecheck \/ GAWalk \/ GADone

(* The header chain's own steps, with the reader standing still; a new   *)
(* SetCurrentHeader call waits for the reader if calls are serialised.    *)
ChainStep(next) ==
    /\ next
    /\ \/ ~SerialisedCallers \/ rpc = "idle" \/ pc # "idle"
    /\ UNCHANGED readVars

QNext(next) == ChainStep(next) \/ GetAncestorStart \/ GetAncestorSteps

-----------------------------------------------------------------------------
(***************************************************************************)
(* GetBlockHashesFromHash(hash, max): the origin by GetHeaderByHash, then *)
(* up to max parent hashes, stopping after genesis or at a header that   *)
(* cannot be read.  A pure read; the cache fills it makes are not kept.   *)
(***************************************************************************)
RECURSIVE CollectParents(_, _, _)
CollectParents(h, i, st) ==
    IF i = 0 THEN <<>>
    ELSE LET p == GetHeader(ParentOf[h], st)
         IN  IF p.hdr = Nil THEN <<>>
             ELSE <<ParentOf[h]>> \o
                  (IF p.hdr = Genesis THEN <<>> ELSE CollectParents(p.hdr, i - 1, p.st))

(* Mutant of GetBlockHashesFromHash: the loop runs while i <= max.        *)
GetBlockHashesFromHashOneMore(h, max, st) ==
    LET o == GetHeaderByHash(h, st)
    IN  IF o.hdr = Nil THEN <<>> ELSE CollectParents(h, max + 1, o.st)

GetBlockHashesFromHash(h, max, st) ==
    LET o == GetHeaderByHash(h, st)
    IN  IF o.hdr = Nil THEN <<>> ELSE CollectParents(h, max, o.st)

(* The reference: the first max hashes of h's ancestry, parent first.    *)
Ancestry(h) == [i \in 1..Num[h] |-> AncestorAt(h, Num[h] - i)]

-----------------------------------------------------------------------------
(* Spec section 4.4: GetAncestor returns the header ancestor generations *)
(* back from the given one, with its number, or the zero hash when its    *)
(* budget runs out or a header is missing; never another header.          *)
AncestorSound ==
    rpc = "done" =>
        \/ rOut.hash = NoHash
        \/ /\ rIn.ancestor <= rIn.num
           /\ rOut = [hash |-> AncestorAt(rIn.hash, rIn.num - rIn.ancestor),
                      num  |-> rIn.num - rIn.ancestor]

(* Spec section 4.4: GetBlockHashesFromHash of a stored header lists its  *)
(* ancestors from the parent toward genesis, max of them or all there    *)
(* are, whatever the caches hold; where an ancestor is missing it stops   *)
(* early.                                                                 *)
BlockHashesAreAncestry ==
    \A h \in headers, m \in 0..MaxCount :
        LET got == GetBlockHashesFromHash(h, m, St)
            ref == SubSeq(Ancestry(h), 1, IF m < Num[h] THEN m ELSE Num[h])
        IN  /\ IsPrefix(got, ref)
            /\ Chain[h] \subseteq headers => got = ref
=============================================================================
