---------------------------- MODULE HeaderExport ----------------------------
(***************************************************************************)
(* Export and ExportN (lines 728-757) with the block lookups they call,   *)
(* GetBlockByNumber (lines 770-776) and GetBlock (lines 671-673).         *)
(*                                                                         *)
(* ExportN holds headermu for reading, so no Append or Reset runs while it *)
(* loops; it does not exclude SetCurrentHeader, which takes no lock.  With *)
(* SerialisedCallers no SetCurrentHeader overlaps it either, and a whole  *)
(* export is then a function of one state: an operator, evaluated where   *)
(* the caller may start it (no reorg in progress).                        *)
(*                                                                         *)
(* The blocks are read from the body chain (bc.GetBlock).  A block is     *)
(* readable when its header is stored: the body chain writes the body in  *)
(* the Append that stored the header, deletes it in the trim that deletes *)
(* the header (bc.Trim), and rawdb needs both to read a block.  Encoding *)
(* a block to the writer may fail at any block (io.Writer errors).        *)
(***************************************************************************)
EXTENDS HeaderChain, Integers

(* EncodeRLP(w) succeeds for every block (no write error in this export). *)
NoWriteError == -1

(* GetBlock(hash, number), lines 671-673: bc.GetBlock, nil unless the    *)
(* header (and so the body) is stored.                                     *)
GetBlock(h) == IF h \in headers THEN h ELSE Nil

(* GetBlockByNumber(number): the canonical hash, then GetBlock; nil for a *)
(* number with no canonical entry.                                        *)
GetBlockByNumber(nr) ==
    LET h == IF nr \in DOMAIN canonicalHash THEN canonicalHash[nr] ELSE NoHash
    IN  IF h = NoHash THEN Nil ELSE GetBlock(h)

(* ExportN(w, first, last): blocks first..last in order.  Returns what    *)
(* reached the writer and whether the call returned nil.  failAt is the  *)
(* number whose EncodeRLP fails, or NoWriteError.                          *)
(* Mutant of ExportN: the loop stops before last (nr < last).             *)
ExportNExclusive(first, last, failAt) ==
    LET RECURSIVE Loop(_, _)
        Loop(nr, out) ==
            IF nr >= last THEN [out |-> out, ok |-> TRUE]
            ELSE LET b == GetBlockByNumber(nr)
                 IN  IF b = Nil THEN [out |-> out, ok |-> FALSE]
                     ELSE IF nr = failAt THEN [out |-> out, ok |-> FALSE]
                     ELSE Loop(nr + 1, Append(out, b))
    IN  IF first > last THEN [out |-> <<>>, ok |-> FALSE] ELSE Loop(first, <<>>)

ExportN(first, last, failAt) ==
    LET RECURSIVE Loop(_, _)
        Loop(nr, out) ==
            IF nr > last THEN [out |-> out, ok |-> TRUE]
            ELSE LET b == GetBlockByNumber(nr)
                 IN  IF b = Nil THEN [out |-> out, ok |-> FALSE]
                     ELSE IF nr = failAt THEN [out |-> out, ok |-> FALSE]
                     ELSE Loop(nr + 1, Append(out, b))
    IN  IF first > last THEN [out |-> <<>>, ok |-> FALSE] ELSE Loop(first, <<>>)

(* Export(w): ExportN from genesis to the current header's number.        *)
Export(failAt) == ExportN(0, Num[currentHeader], failAt)

(* The caller may start an export: the node runs, no reorg is half done.  *)
ExportMayRun == alive /\ pc = "idle"

(* The current header's chain at heights first..last, as far as it goes.  *)
HeadChainFrom(first, last) ==
    [i \in 1..(IF last < Num[currentHeader] THEN last ELSE Num[currentHeader])
              - first + 1 |-> AncestorAt(currentHeader, first + i - 1)]

-----------------------------------------------------------------------------
(* Spec section 4.5: ExportN streams the canonical blocks first..last in  *)
(* order and fails if one is missing.  Whatever it writes before it       *)
(* returns, after any sequence of reorgs (which may leave gaps in the    *)
(* table, runs reorg_gap and reorg_head_unwritten), is the current        *)
(* header's chain from first on; when                                     *)
(* it returns nil it has written every number of the range; and Export   *)
(* that returns nil has written the whole head chain from genesis.        *)
ExportWritesHeadChain ==
    ExportMayRun =>
        /\ \A first, last \in Heights, failAt \in Heights \cup {NoWriteError} :
            LET r == ExportN(first, last, failAt)
            IN  /\ IsPrefix(r.out, HeadChainFrom(first, last))
                /\ r.ok => Len(r.out) = last - first + 1
        /\ LET e == Export(NoWriteError)
           IN  e.ok => e.out = HeadChainFrom(0, Num[currentHeader])
=============================================================================
