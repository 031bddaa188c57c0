-------------------------------- MODULE OutputTail --------------------------------
(***************************************************************************)
(* The bounded tail of a CI plan's output.  A byte is what UTF-8 makes of  *)
(* it: 0 continues a character, 1 is one by itself, 2, 3 and 4 begin one   *)
(* of that many bytes, 5 never occurs in one.  (That some second bytes are *)
(* wrong for their first byte is left out.)                                *)
(***************************************************************************)
EXTENDS Integers, Sequences, FiniteSets

CONSTANT TailBytes   \* the bytes that are kept for the reader of the Check

ASSUME TailAssumption == TailBytes \in Nat

Continuation == 0
Bytes == 0..5

LastOf(seq, n) == SubSeq(seq, Len(seq) - n + 1, Len(seq))

\* What the reader thread keeps after a read.
Kept_NoMargin(kept, chunk) ==
    LET all == kept \o chunk IN IF Len(all) > TailBytes THEN LastOf(all, TailBytes) ELSE all

Kept(kept, chunk) ==
    LET all == kept \o chunk
        bound == TailBytes + 3
    IN  IF Len(all) > bound THEN LastOf(all, bound) ELSE all

\* Byte i belongs to a character that byte j begins: only continuations are between.
Continues(bytes, j, i) ==
    /\ bytes[j] \in 2..4 /\ i \in j + 1..j + bytes[j] - 1
    /\ \A k \in j + 1..i : bytes[k] = Continuation

Inside(bytes, i) == \E j \in i - 3..i - 1 : j >= 1 /\ Continues(bytes, j, i)

\* from_utf8_lossy: the bytes from i on are a character, or else a replacement, of three bytes,
\* stands for a byte that begins none or for a character that is cut short.
Whole(bytes, i) ==
    /\ bytes[i] \in 1..4 /\ i + bytes[i] - 1 <= Len(bytes)
    /\ \A k \in i + 1..i + bytes[i] - 1 : bytes[k] = Continuation

Replacement == <<5>>
Char(bytes, i) == IF Whole(bytes, i) THEN SubSeq(bytes, i, i + bytes[i] - 1) ELSE Replacement
Width(bytes, i) == IF Whole(bytes, i) THEN bytes[i] ELSE 3

\* Where the characters begin, counted in bytes from the end, and the bytes of the text from
\* such a place on.
Place(bytes, d) == Len(bytes) - d + 1
Begins(bytes) == {d \in 1..Len(bytes) : ~Inside(bytes, Place(bytes, d))}
Room(bytes, d) ==
    UNION {{e} \X (1..Width(bytes, Place(bytes, e))) : e \in {x \in Begins(bytes) : x <= d}}

\* The decoded text, trimmed at a character boundary: as many whole characters as fit.
Text[bytes \in Seq(Bytes)] ==
    [d \in {x \in Begins(bytes) : Cardinality(Room(bytes, x)) <= TailBytes} |->
        Char(bytes, Place(bytes, d))]

\* How many bytes after the cut belong to a character that begins before it.
SplitContinuations(bytes, start) ==
    LET leads == {j \in 1..start : j > start - 3 /\ bytes[j] # Continuation}
        lead == CHOOSE j \in leads : \A k \in leads : k <= j
    IN  IF leads = {} THEN 0
        ELSE Cardinality({i \in start + 1..Len(bytes) : Continues(bytes, lead, i)})

BoundedTail[bytes \in Seq(Bytes)] ==
    LET start == IF Len(bytes) > TailBytes THEN Len(bytes) - TailBytes ELSE 0
    IN  Text[LastOf(bytes, Len(bytes) - start - SplitContinuations(bytes, start))]
=============================================================================
