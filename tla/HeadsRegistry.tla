---------------------------- MODULE HeadsRegistry ----------------------------
(***************************************************************************)
(* What the heads registry promises, without the header store: a list of  *)
(* at most Limit heads kept in ascending number order; a head is added by *)
(* inserting it in order, and when the list is full one head of the      *)
(* lowest number is dropped first.  The list is saved as a whole, lost    *)
(* when the process ends, and loaded back from the saved copy, where a   *)
(* head whose header is gone comes back as Nil.  HeaderChain's heads and  *)
(* headsHashes implement it (HeaderChain!RegistryRefined).                *)
(***************************************************************************)
EXTENDS Naturals, Sequences, SequencesExt

CONSTANTS
    Blocks,     \* the heads that can be registered
    Nil,        \* an entry whose header could not be loaded
    Number,     \* Number[b]: the block number a head is ordered by
    Limit       \* the capacity of the registry

VARIABLES
    reg,        \* the registry in memory
    saved       \* the registry as last saved

regVars == <<reg, saved>>

(* s lists its heads by ascending number.                                  *)
Ordered(s) == \A i, j \in DOMAIN s : i < j => Number[s[i]] <= Number[s[j]]

(* Every ordering of the heads of s.                                      *)
Arrange(s) ==
    {t \in [1..Len(s) -> Range(s)] : ToBag(t) = ToBag(s) /\ Ordered(t)}

(* The positions of the heads of the lowest number.                       *)
LowestAt(s) == {i \in DOMAIN s : \A j \in DOMAIN s : Number[s[i]] <= Number[s[j]]}

(* The registry left after making room for one more head.                 *)
Kept(s) == IF Len(s) < Limit THEN {s} ELSE {RemoveAt(s, i) : i \in LowestAt(s)}

Init == reg = <<>> /\ saved = <<>>

(* Insert and Save are written to fail fast on steps that leave the       *)
(* registry alone; such steps are stuttering steps of Spec anyway.        *)
Insert(b) ==
    /\ reg' # reg
    /\ Nil \notin Range(reg)
    /\ \E kept \in Kept(reg) : reg' \in Arrange(Append(kept, b))
    /\ UNCHANGED saved

Save  == saved' # saved /\ saved' = reg /\ UNCHANGED reg

Lose  == reg' = <<>> /\ UNCHANGED saved

Load ==
    /\ reg = <<>>
    /\ reg' \in {t \in [DOMAIN saved -> Blocks \cup {Nil}] :
                    \A i \in DOMAIN saved : t[i] \in {saved[i], Nil}}
    /\ UNCHANGED saved

Next == (\E b \in Blocks : Insert(b)) \/ Save \/ Lose \/ Load

Spec == Init /\ [][Next]_regVars
=============================================================================
