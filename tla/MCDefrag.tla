------------------------------ MODULE MCDefrag ------------------------------
(***************************************************************************)
(* Defrag on a flash of 17 pages: up to three files, with holes between    *)
(* them, or four that are kept apart.                                      *)
(***************************************************************************)
EXTENDS Defrag

Three == 3               \* files
FileLengths == {1, 2, 5} \* pages of a file
Gaps == {0, 1, 5}        \* free pages before a file

\* Four files: a first hole that takes three pages, and a page between two.
Four == 4
FourLengths == 1..4
FourGaps == <<3, 1, 1, 1>>

NoCharacter == "none"
FileNames == [k \in 1..5 |-> <<"f", k>>]

\* Where each of the files starts, and where the last one ends.
Places(gap, len) ==
    LET at[k \in 1..Len(gap)] ==
            gap[k] + (IF k = 1 THEN FirstPage ELSE at[k - 1] + len[k - 1])
    IN  at

Fit(gap, len) ==
    gap = <<>> \/ Places(gap, len)[Len(gap)] + len[Len(gap)] <= EndPage

\* The flash of such files: each fills its last page to the last byte.
FlashOf(gap, len) ==
    LET at == Places(gap, len) IN
    [page \in Pages |->
        LET holders == {k \in DOMAIN at : page \in at[k]..(at[k] + len[k] - 1)}
        IN  IF holders = {} THEN BlankPage
            ELSE LET k == CHOOSE k \in holders : TRUE
                     n == (page - at[k]) * PageBytes
                     data == [b \in 0..(PageBytes - 1) |-> Byte(FileNames[k], n + b - MetaBytes)]
                 IN  IF page = at[k]
                     THEN WithMeta(data, FileNames[k], len[k] * PageBytes - MetaBytes)
                     ELSE data]

FlashesOf(gaps, lengths) ==
    {FlashOf(p[1], p[2]) : p \in {q \in gaps \X lengths : Fit(q[1], q[2])}}

AllLayouts ==
    UNION {FlashesOf([1..n -> Gaps], [1..n -> FileLengths]) : n \in 0..Three}
        \cup FlashesOf({FourGaps}, [1..Four -> FourLengths])

\* On 25 pages: a file that runs to the end of the flash, a best block that is
\* larger than the second hole, and one that was moved before it is used.
StaleLayouts ==
    {FlashOf(<<2, 1>>, <<3, 19>>),
     FlashOf(<<5, 2, 1, 1>>, <<6, 1, 3, 5>>),
     FlashOf(<<2, 1, 2, 1, 1>>, <<3, 1, 3, 5, 2>>)}

=============================================================================
