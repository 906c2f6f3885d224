--------------------------- MODULE MC_HeaderChain ---------------------------
(***************************************************************************)
(* Two branches off genesis, of lengths 2 and 2:                           *)
(*                                                                         *)
(*     G <- A1 <- A2                                                       *)
(*     G <- B1 <- B2                                                       *)
(*                                                                         *)
(* Reorgs go to shorter, equal and longer branches (A2 -> B1, A2 -> B2,   *)
(* A1 -> B2) and to a non-child descendant (G -> A2), and the registry of *)
(* two heads overflows after the third append.                            *)
(***************************************************************************)
EXTENDS HeaderChain

CONSTANTS G, A1, A2, B1, B2

MCBlocks == {G, A1, A2, B1, B2}

(* Location[ctx]: the A branch in slot 1, B in slot 2, none for genesis. *)
MCLocation == (G :> NoLocation) @@ (A1 :> 1) @@ (A2 :> 1) @@ (B1 :> 2) @@ (B2 :> 2)

MCParentOf == (G :> NoHash) @@ (A1 :> G) @@ (A2 :> A1) @@ (B1 :> G) @@ (B2 :> B1)
=============================================================================
