------------------------------ MODULE MC_Reorg ------------------------------
(***************************************************************************)
(* SetCurrentHeader alone, from every consistent database: every header  *)
(* of the tree is stored, the canonical table is exactly the chain of the *)
(* stored head, and the node has just started (loadLastState filled the   *)
(* caches with genesis and the head).  The caller then makes any sequence *)
(* of SetCurrentHeader calls, one at a time, with any stored header.  No  *)
(* Append, so no garbage collection: this isolates the reorg walk.        *)
(*                                                                         *)
(*     G <- A1 <- A2                                                       *)
(*           A1 <- B2 <- B3                                                *)
(*     G <- C1                                                             *)
(***************************************************************************)
EXTENDS HeaderExport

CONSTANTS G, A1, A2, B2, B3, C1

MCBlocks == {G, A1, A2, B2, B3, C1}

(* Location[ctx] of each header: the A branch was mined in slot 1, B in  *)
(* slot 2, C in slot 3; genesis carries no Location.                      *)
MCLocation == (G :> NoLocation) @@ (A1 :> 1) @@ (A2 :> 1) @@ (B2 :> 2)
              @@ (B3 :> 2) @@ (C1 :> 3)

MCParentOf == (G :> NoHash) @@ (A1 :> G) @@ (A2 :> A1) @@ (B2 :> A1)
              @@ (B3 :> B2) @@ (C1 :> G)

ReorgInit ==
    /\ headers = Blocks
    /\ \E h \in Blocks :
        /\ canonicalHash = [n \in Heights |->
                               IF n <= Num[h] THEN AncestorAt(h, n) ELSE NoHash]
        /\ headBlockHash = h
        /\ currentHeader = h
        /\ headerCache = {Genesis, h}
        /\ numberCache = {h}
    /\ headsHashes = <<>>
    /\ alive = TRUE
    /\ stopped = FALSE
    /\ heads = <<>>
    /\ pc = "idle"
    /\ head = Nil /\ prevHeader = Nil /\ newHeader = Nil
    /\ commonHeader = Nil /\ hashStack = <<>>

ReorgNext ==
    \/ \E h \in Blocks : SetCurrentHeader(h)
    \/ SetCurrentHeaderSteps

ReorgSpec == ReorgInit /\ [][ReorgNext]_vars /\ WF_vars(SetCurrentHeaderSteps)
=============================================================================
