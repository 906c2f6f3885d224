----------------------------- MODULE MC_Queries -----------------------------
(***************************************************************************)
(* A GetAncestor reader beside the reorgs of MC_Reorg: every header is    *)
(* stored, the node starts from any consistent canonical table, and the  *)
(* caller moves the head to any header, again and again.                  *)
(***************************************************************************)
EXTENDS MC_Reorg, HeaderQueries

QSpec == QInit(ReorgInit) /\ [][QNext(ReorgNext)]_qvars

=============================================================================
