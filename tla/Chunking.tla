------------------------------- MODULE Chunking -------------------------------
(***************************************************************************)
(* How the ingestion-worker cuts a parsed document into chunks: short      *)
(* blocks of prose are merged, rows of a table are not, and a long text is *)
(* cut by a sliding window that backs off to the end of a sentence.        *)
(* Positions count from 0 as in the code; a piece is the interval from its *)
(* first position to the one after its last.                               *)
(***************************************************************************)
EXTENDS Integers, Sequences, FiniteSets, SequencesExt

CONSTANTS MergeMaxLen, MergeMaxBlocks,   \* _MERGE_MAX_LEN, _MERGE_MAX_BLOCKS
          MaxChunkLen                     \* _MAX_CHUNK_LEN

ASSUME ChunkingAssumption == {MergeMaxLen, MergeMaxBlocks, MaxChunkLen} \subseteq Nat

-----------------------------------------------------------------------------
(* A block is known by its length.  A group of blocks becomes one text, its *)
(* blocks separated by a space.                                             *)
CanMerge(group, block, table) ==
    /\ ~table
    /\ group.length + block + 1 <= MergeMaxLen
    /\ group.count < MergeMaxBlocks
Grown(group, block) == [length |-> group.length + block + 1, count |-> group.count + 1]
Merged(blocks, table) ==
    FoldLeft(LAMBDA groups, block :
                 IF groups # << >> /\ CanMerge(Last(groups), block, table)
                 THEN Front(groups) \o << Grown(Last(groups), block) >>
                 ELSE groups \o << [length |-> block, count |-> 1] >>,
             << >>, blocks)

-----------------------------------------------------------------------------
(* The window over a text of length n whose sentences end at the positions  *)
(* in ends.  It backs off to the last of them in its second half, but moves *)
(* on by the same advance whether it backed off or not.                     *)
Advance(window, overlap) == IF window - overlap < 1 THEN 1 ELSE window - overlap
Starts(n, window, overlap) ==
    {k * Advance(window, overlap) : k \in
        {j \in 0 .. n : j = 0 \/ (j - 1) * Advance(window, overlap) + window < n}}
BackedOff(start, n, window, ends) ==
    LET whole == start + window
        late == {e \in ends : e > start + window \div 2 /\ e < whole}
    IN IF whole >= n THEN n
       ELSE IF late = {} THEN whole ELSE 1 + CHOOSE e \in late : \A f \in late : f <= e
SlidingWindow(n, window, overlap, ends) ==
    IF n <= window THEN {<<0, n>>}
    ELSE {<<s, BackedOff(s, n, window, ends)>> : s \in Starts(n, window, overlap)}

(* The positions of the text that no piece holds.                           *)
LostPositions(n, window, overlap, ends) ==
    {p \in 0 .. n - 1 : \A piece \in SlidingWindow(n, window, overlap, ends) :
                            p < piece[1] \/ p >= piece[2]}

-----------------------------------------------------------------------------
(* The other strategy cuts a long text after its last sentence end, or else *)
(* at its greatest length.  A cut of the second kind spares an alarm code:  *)
(* the first one of the piece, if it is found within Reach positions.  A    *)
(* code [from, sure, to] is found by its first two digits, which end at     *)
(* sure; the rest of a code that was cut is no code.                        *)
Reach == 8   \* end + 8
CutAfter(start, n, longest, ends, codes) ==
    LET whole == start + longest
        late == {e \in ends : e > start /\ e < whole}
        found == {c \in codes : c.from >= start /\ c.sure <= whole + Reach}
        first == CHOOSE c \in found : \A d \in found : c.from <= d.from
    IN  IF whole >= n THEN n
        ELSE IF late # {} THEN 1 + CHOOSE e \in late : \A f \in late : f <= e
        ELSE IF found # {} /\ first.from < whole /\ whole < first.to THEN first.from
        ELSE whole

(* Where the pieces end; a cut that does not move on is repeated for ever.  *)
SplitLongBlock(n, longest, ends, codes) ==
    LET cut[k \in 0 .. n] == IF k = 0 THEN 0 ELSE CutAfter(cut[k - 1], n, longest, ends, codes)
    IN  {<<cut[k - 1], cut[k]>> : k \in {j \in 1 .. n : cut[j - 1] < n}}

(* No piece of the sliding window is longer than it, so that the cut which  *)
(* the code provides for such a piece never happens.                        *)
SplitMerged(strategy, n, window, overlap, ends, codes) ==
    IF strategy = "sliding" THEN SlidingWindow(n, window, overlap, ends)
                            ELSE SplitLongBlock(n, MaxChunkLen, ends, codes)
=============================================================================
