---------------------------- MODULE MC_Concurrent ----------------------------
(***************************************************************************)
(* Append racing SetCurrentHeader.  The node has just started from a      *)
(* consistent database: every header but the fresh one C1 is stored, the  *)
(* canonical table is the chain of the stored head, and the registry      *)
(* holds one head saved by the last Stop (limit 1, so the next Append     *)
(* evicts it).  Callers then append C1, move the head and read headers,   *)
(* in any interleaving with the steps of a SetCurrentHeader in progress   *)
(* unless SerialisedCallers.  Every branch has one header, so a reorg    *)
(* never meets the walk defects of runs reorg_gap and reorg_head_unwritten *)
(* nor leaves a cached orphan (run canonical_unstored): what goes wrong    *)
(* here is due to the interleaving alone.                                  *)
(*                                                                         *)
(*     G <- A1        G <- B1        G <- C1 (fresh)                       *)
(***************************************************************************)
EXTENDS HeaderChain

CONSTANTS G, A1, B1, C1

MCBlocks == {G, A1, B1, C1}

(* Location[ctx]: one slot per branch, none for genesis.                  *)
MCLocation == (G :> NoLocation) @@ (A1 :> 1) @@ (B1 :> 2) @@ (C1 :> 3)

MCParentOf == (G :> NoHash) @@ (A1 :> G) @@ (B1 :> G) @@ (C1 :> G)

Fresh == {C1}

(* With a limit of one the saved head is the last header appended, and no *)
(* stored header can have been appended after its own child: a leaf.     *)
StoredLeaves == {b \in Blocks \ Fresh : \A c \in Blocks \ Fresh : ParentOf[c] # b}

(* NewHeaderChain and loadLastState on that database: GetHeaderByNumber(0) *)
(* caches genesis, GetHeaderByHash caches the head and the saved head.    *)
ConcInit ==
    /\ headers = Blocks \ Fresh
    /\ \E h \in Blocks \ Fresh, r \in StoredLeaves :
        /\ canonicalHash = [n \in Heights |->
                               IF n <= Num[h] THEN AncestorAt(h, n) ELSE NoHash]
        /\ headBlockHash = h
        /\ currentHeader = h
        /\ heads = <<r>>
        /\ headsHashes = <<r>>
        /\ headerCache = {Genesis, h, r}
        /\ numberCache = {h, r}
    /\ alive = TRUE
    /\ stopped = FALSE
    /\ pc = "idle"
    /\ head = Nil /\ prevHeader = Nil /\ newHeader = Nil
    /\ commonHeader = Nil /\ hashStack = <<>>

ConcNext ==
    \/ \E b \in Fresh : AppendBlock(b)
    \/ \E h \in Blocks : SetCurrentHeader(h)
    \/ SetCurrentHeaderSteps
    \/ \E h \in Blocks : GetHeaderCall(h)

ConcSpec == ConcInit /\ [][ConcNext]_vars
=============================================================================
