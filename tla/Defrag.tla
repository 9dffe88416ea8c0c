------------------------------- MODULE Defrag -------------------------------
(***************************************************************************)
(* The defragmentation functions of base/lib/fs/fs.c over the flash of     *)
(* Flash.tla: the three kinds, one turn of a loop per action, so that the  *)
(* locals that live from one turn to the next are in the state.            *)
(*                                                                         *)
(* Nothing runs beside them.  Moving a region is one step: what a power    *)
(* cut in the middle of it leaves is not looked at here.  (A local of the  *)
(* code that is used more than once is bound by \E x \in {its value}.)     *)
(***************************************************************************)
EXTENDS Flash, FiniteSets

CONSTANTS
    Layouts,    \* the flashes to begin with
    Calls       \* what is called: "simple", "file" (for a file), "overall"

VARIABLES
    flash,      \* the pages
    job         \* the call: where it is, and its locals

defragVars == <<flash, job>>

\* The locals of a call.  at: the loop it is in.  origin: the argument of
\* "file".  mean: mean_space_per_file.  block: block_size.  best: best_block_*.
\* err: what the function returns, "none" while it runs.
NewJob(call, origin) ==
    [at |-> call, i |-> FirstPage, origin |-> origin, mean |-> 0,
     block |-> 0, best |-> [origin |-> 0, size |-> 0], err |-> "none"]

Returns(err) == job' = [job EXCEPT !.at = "done", !.err = err]

Region(source, dest, len) == [source |-> source, dest |-> dest, len |-> len]

\* nx_fs_move_region; the job goes on as `next`.  A page past the end of the
\* flash is an assertion of the flash driver: the pages moved before stay moved.
Moves(region, next) ==
    LET last == Max({region.source, region.dest}) + region.len
        first == IF region.source < region.dest THEN 0 ELSE EndPage - region.source
    IN  IF last <= EndPage
        THEN /\ flash' = Moved(flash, region.source, region.dest, region.len)
             /\ job' = next
        ELSE /\ flash' = Moved(flash, region.source, region.dest, first)
             /\ Returns("assertion")

\* nx_fs_find_next_hole: a page that no file found from start on covers;
\* EndPage when there is none.
NextHole(f, start) ==
    LET from[i \in Nat] ==
            IF i >= EndPage THEN EndPage
            ELSE IF HasMagic(f, i) THEN from[EndOf(f, i)]
            ELSE i
    IN  from[start]

PagesOf(page) == PageCount(SizeAt(flash, page))

---------------------------------------------------------------------------
(* nx_fs_defrag_simple *)

\* The search for the block to move into a hole: [file, block, best] when the
\* loop ends.  block keeps its value when there is no space after the file.
BlockFor(length, start, size, found) ==
    LET from[s \in [file : Nat, block : Nat, best : [origin : Nat, size : Nat]]] ==
            LET end == NextHole(flash, s.file)
                block == end - s.file
                best == IF block < length /\ block > s.best.size
                        THEN [origin |-> s.file, size |-> block] ELSE s.best
                next == NextOrigin(flash, end)
            IN  IF end = EndPage THEN s
                ELSE IF block = length \/ next = EndPage
                THEN [file |-> s.file, block |-> block, best |-> best]
                ELSE from[[file |-> next, block |-> block, best |-> best]]
    IN  from[[file |-> start, block |-> size, best |-> found]]

\* The next hole, and the file behind it.
HoleAt == NextHole(flash, job.i)
Behind == IF HoleAt = EndPage THEN EndPage ELSE NextOrigin(flash, HoleAt)

\* One turn of the loop of nx_fs_defrag_simple_zone, for the whole flash.
Simple ==
    /\ job.at = "simple"
    /\ \E hole \in {HoleAt}, file \in {Behind} :
       \E found \in {BlockFor(file - hole, file, job.block, job.best)} :
       LET length == file - hole
           kept == [job EXCEPT !.block = found.block, !.best = found.best]
           end == NextHole(flash, file)
       IN
       \/ /\ job.i >= EndPage \/ hole = EndPage \/ file = EndPage
          /\ Returns("FS_ERR_NO_ERROR") /\ UNCHANGED flash
       \/ /\ job.i < EndPage /\ hole < EndPage /\ file < EndPage
          /\ \/ /\ found.block = length
                /\ Moves(Region(found.file, hole, found.block),
                         [kept EXCEPT !.i = hole + found.block])
             \/ /\ found.block # length /\ found.best.origin # 0
                /\ Moves(Region(found.best.origin, hole, found.best.size),
                         [kept EXCEPT !.at = "done", !.err = "FS_ERR_NO_ERROR"])
             \/ /\ found.block # length /\ found.best.origin = 0
                /\ Moves(Region(file, hole, end - file),
                         [kept EXCEPT !.i = hole + end - file])

---------------------------------------------------------------------------
(* nx_fs_defrag_for_file_by_origin *)

\* The page of the second region is erased before it is read.
SwapPageErased(f, j, start1, dest1, start2, len2) ==
    LET freed == IF j < len2 THEN [f EXCEPT ![start2 + j] = BlankPage] ELSE f
        moved == Moved(freed, start1 + j, dest1 + j, 1)
    IN  IF j < len2 THEN [moved EXCEPT ![start1 + j] = BlankPage] ELSE moved

\* The j-th turn of the loop of nx_fs_swap_regions, on a flash f: a page of the
\* second region is read and erased, and one of the first goes to its place.
SwapPage(f, j, start1, dest1, start2, len2) ==
    LET freed == IF j < len2 THEN [f EXCEPT ![start2 + j] = BlankPage] ELSE f
        moved == Moved(freed, start1 + j, dest1 + j, 1)
    IN  IF j < len2 THEN [moved EXCEPT ![start1 + j] = f[start2 + j]] ELSE moved

Swapped(start1, dest1, len1, start2, len2) ==
    LET after[n \in Nat] ==
            IF n = 0 THEN flash
            ELSE CHOOSE g \in {SwapPage(f, n - 1, start1, dest1, start2, len2) :
                                   f \in {after[n - 1]}} : TRUE
    IN  after[len1]

Last == Max(Origins(flash))

ForFile ==
    /\ job.at = "file"
    /\ \E npages \in {PagesOf(job.origin)}, hole \in {NextHole(flash, job.origin)},
          last \in {Last} :
       LET simple == [job EXCEPT !.at = "simple"]
       IN
       \/ /\ job.origin = last
          /\ job' = simple /\ UNCHANGED flash
       \/ /\ job.origin # last /\ EndPage - EndOf(flash, last) > npages
          /\ Moves(Region(job.origin, EndOf(flash, last), npages), simple)
       \/ /\ job.origin # last /\ EndPage - EndOf(flash, last) <= npages
          /\ \/ /\ hole = EndPage \/ NextOrigin(flash, hole) = EndPage
                /\ Returns("FS_ERR_NO_SPACE_LEFT_ON_DEVICE") /\ UNCHANGED flash
             \/ /\ hole # EndPage /\ NextOrigin(flash, hole) = last
                /\ IF npages <= EndPage - hole /\ PagesOf(last) <= npages
                   THEN /\ flash' = Swapped(job.origin, hole, npages, last, PagesOf(last))
                        /\ job' = simple
                   ELSE Returns("FS_ERR_NO_SPACE_LEFT_ON_DEVICE") /\ UNCHANGED flash
             \/ \* the search starts at the same page again, for ever
                /\ hole # EndPage /\ NextOrigin(flash, hole) \notin {last, EndPage}
                /\ UNCHANGED <<job, flash>>

---------------------------------------------------------------------------
(* nx_fs_defrag_best_overall *)

\* Each page without a marker is counted as free.
MeanSpaceUnskipped ==
    IF Origins(flash) = {} THEN 0
    ELSE Cardinality(Pages \ Origins(flash)) \div Cardinality(Origins(flash))

\* nx_fs_defrag_get_mean_space
MeanSpace ==
    LET used == UNION {o..(EndOf(flash, o) - 1) : o \in Origins(flash)}
    IN  IF Origins(flash) = {} THEN 0
        ELSE Cardinality(Pages \ used) \div Cardinality(Origins(flash))

\* Where a hole ends, for the searches of this function: the last page is
\* never counted when no file follows.
HoleEnd(hole) == IF NextOrigin(flash, hole) = EndPage THEN EndPage - 1
                                                      ELSE NextOrigin(flash, hole)

\* The searches for a hole of a size: EndPage when there is none.
HoleOf(start, size) ==
    LET from[o \in Nat] ==
            LET hole == NextHole(flash, o)
                end == HoleEnd(hole)
            IN  IF hole = EndPage THEN EndPage
                ELSE IF end - hole >= size THEN hole
                ELSE from[IF end = EndPage - 1 THEN EndPage ELSE end]
    IN  from[start]

\* The first file is left where it is.
OverallUnpulled ==
    /\ job.at = "overall"
    /\ job' = IF MeanSpace = 0 THEN [job EXCEPT !.at = "simple"]
              ELSE [job EXCEPT !.at = "spread", !.mean = MeanSpace]
    /\ UNCHANGED flash

\* The mean space, and the first file pulled to the first page.
Overall ==
    /\ job.at = "overall"
    /\ LET first == NextOrigin(flash, FirstPage)
       IN  IF MeanSpace = 0
           THEN job' = [job EXCEPT !.at = "simple"] /\ UNCHANGED flash
           ELSE Moves(Region(first, FirstPage, PagesOf(first)),
                      [job EXCEPT !.at = "spread", !.mean = MeanSpace])

\* What becomes of the file at next, when lack pages are missing before it.
MakeRoom(next, lack, i) ==
    \E hole \in {NextHole(flash, next)} :
    \E there \in {HoleOf(next, hole - next)}, beyond \in {HoleOf(next, lack)} :
    LET block == hole - next
        turn == [job EXCEPT !.i = i]
    IN
    \/ /\ hole = EndPage
       /\ Returns("FS_ERR_NO_ERROR") /\ UNCHANGED flash
    \/ /\ hole # EndPage /\ HoleEnd(hole) - hole >= lack
       /\ Moves(Region(next, next + lack, block), turn)
    \/ /\ hole # EndPage /\ HoleEnd(hole) - hole < lack
       /\ \/ /\ there # EndPage
             /\ Moves(Region(next, there, block), job)
          \/ /\ there = EndPage /\ beyond # EndPage
             /\ Moves(Region(next, next + lack, beyond - next), job)
          \/ /\ there = EndPage /\ beyond = EndPage
             /\ Returns("FS_ERR_NO_SPACE_LEFT_ON_DEVICE") /\ UNCHANGED flash

\* One turn of the loop over the files.  With no file at i it turns for ever.
SpreadFile ==
    \E end \in {EndOf(flash, job.i)} :
    \E next \in {NextOrigin(flash, end)} :
    LET size == next - end
        turn == [job EXCEPT !.i = end + job.mean]
    IN
    \/ /\ next = EndPage
       /\ Returns("FS_ERR_NO_ERROR") /\ UNCHANGED flash
    \/ /\ next # EndPage /\ size = job.mean
       /\ job' = turn /\ UNCHANGED flash
    \/ /\ next # EndPage /\ size > job.mean
       /\ Moves(Region(next, end + job.mean, PagesOf(next)), turn)
    \/ /\ next # EndPage /\ size < job.mean
       /\ MakeRoom(next, job.mean - size, end + job.mean)

Spread ==
    /\ job.at = "spread"
    /\ \/ /\ job.i >= EndPage
          /\ Returns("FS_ERR_NO_ERROR") /\ UNCHANGED flash
       \/ /\ job.i < EndPage /\ ~HasMagic(flash, job.i)
          /\ UNCHANGED <<job, flash>>
       \/ /\ job.i < EndPage /\ HasMagic(flash, job.i)
          /\ SpreadFile

---------------------------------------------------------------------------
\* Any of the functions, on a flash that was written before.
Call ==
    /\ job.at = "idle"
    /\ \E call \in Calls :
           \/ call # "file" /\ job' = NewJob(call, 0)
           \/ call = "file" /\ \E o \in Origins(flash) : job' = NewJob(call, o)
    /\ UNCHANGED flash

Init ==
    /\ flash \in Layouts
    /\ job = NewJob("idle", 0)

Turn == Simple \/ ForFile \/ Overall \/ Spread

Next == Call \/ Turn

Spec == Init /\ [][Next]_defragVars /\ WF_defragVars(Turn)

---------------------------------------------------------------------------
(* Properties *)

\* A file found at an origin: its name and what its pages hold.
FileAt(f, o) ==
    [name |-> NameAt(f, o), size |-> SizeAt(f, o),
     pages |-> [k \in 0..(PageCount(SizeAt(f, o)) - 1) |->
                   IF o + k < EndPage THEN f[o + k] ELSE BlankPage]]

FilesIn(f) == {FileAt(f, o) : o \in Origins(f)}

\* A turn that has a hole, with a file behind it, to fill, and what its search
\* leaves in block_size and in best_block_*.
Filling == job.at = "simple" /\ job.i < EndPage /\ HoleAt < EndPage /\ Behind < EndPage

Found == BlockFor(Behind - HoleAt, Behind, job.block, job.best)

\* The search ended at a block that runs to the end of the flash, with the size
\* of an earlier one, which is the size of the hole.
StaleMatch ==
    /\ Filling /\ Found.block = Behind - HoleAt
    /\ NextHole(flash, Found.file) = EndPage

\* The best block is one that an earlier turn found, for a larger hole than
\* this one, or it is no longer there.
StaleBest ==
    /\ Filling /\ Found.block # Behind - HoleAt /\ Found.best.origin # 0
    /\ \/ Found.best.size > Behind - HoleAt
       \/ NextHole(flash, Found.best.origin) # Found.best.origin + Found.best.size

\* Every page of every file holds what the file's own data has there.
Sound(f) ==
    \A o \in Origins(f), k \in 1..(EndPage - 1) :
        k < PageCount(SizeAt(f, o)) =>
            /\ o + k < EndPage
            /\ f[o + k][0] = Byte(NameAt(f, o), k * PageBytes - MetaBytes)

\* Whatever a turn of any of the loops moves where, the flash then holds the
\* files it held, each once, whole, under its name and with its contents, and
\* no page past the end is touched.  The exceptions are the two uses of what
\* the search for an earlier hole left behind, StaleMatch and StaleBest.
FilesKept ==
    [][Sound(flash) /\ ~StaleMatch /\ ~StaleBest =>
          /\ FilesIn(flash') = FilesIn(flash)
          /\ Cardinality(Origins(flash')) = Cardinality(Origins(flash))
          /\ job'.err # "assertion"]_defragVars

\* Without the exceptions: fs.c has the regions' overlap "asserted anyway to
\* avoid data loss", and a defragmentation loses no file.
NothingLost == [][FilesIn(flash') = FilesIn(flash)]_defragVars

\* The swap case of a file's defragmentation looks for the hole before the
\* last file from the same page each time: it finds it at once or never.
Searching ==
    /\ job.at = "file"
    /\ \E last \in {Last} :
          /\ job.origin # last
          /\ EndPage - EndOf(flash, last) <= PagesOf(job.origin)
          /\ NextOrigin(flash, NextHole(flash, job.origin)) # last

\* Every call returns, moving files to and fro a bounded number of times, but
\* for the search above.
Ends == job.at # "idle" ~> (job.at = "done" \/ Searching)

\* nx_fs_defrag_best_overall, where it has a page to give to each file, ends
\* with as much space after every file but the last, whatever had to be moved
\* out of the way: it never runs out of space, and none of its early returns
\* is taken before the work is done.
SpreadEvenly ==
    job.at = "done" /\ job.mean > 0 =>
        /\ job.err = "FS_ERR_NO_ERROR"
        /\ \A o \in Origins(flash) :
              o # Last => NextOrigin(flash, EndOf(flash, o)) = EndOf(flash, o) + job.mean

=============================================================================
