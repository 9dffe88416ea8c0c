------------------------------- MODULE Flash -------------------------------
(***************************************************************************)
(* The on-board flash as base/lib/fs/fs.c uses it: an array of pages, some *)
(* of which are the origin of a file.  A file is its origin page, which    *)
(* starts with the metadata, and the pages that follow it: there is no     *)
(* directory, and every search walks over the pages from the first one.    *)
(*                                                                         *)
(* A page is a function from its bytes to what they hold.  A byte of a     *)
(* file is the record of whose it is and at which offset: no property      *)
(* needs more of it, but one thing: the code takes a page for an origin    *)
(* when one of its bytes is the marker 0x42, the letter B, and a file may  *)
(* well contain that letter there.  "alike" bytes are the ones that do; the*)
(* size the code then reads is made of the bytes beside it.                *)
(***************************************************************************)
EXTENDS Integers, Sequences, FiniteSetsExt

CONSTANTS
    FirstPage,  \* FS_PAGE_START
    EndPage,    \* FS_PAGE_END, which is EFC_PAGES
    PageBytes,  \* EFC_PAGE_BYTES
    MetaBytes,  \* FS_FILE_METADATA_BYTES
    NoName,     \* the empty name
    Alike,      \* the names of the files whose bytes look like a marker
    AlikeSize   \* the size that is read beside such a marker

ASSUME FlashAssumption ==
    /\ FirstPage \in Nat \ {0}
    /\ EndPage \in Nat
    /\ FirstPage < EndPage
    /\ MetaBytes \in Nat \ {0}
    /\ PageBytes \in Nat
    /\ MetaBytes < PageBytes
    /\ AlikeSize \in Nat

Pages == FirstPage..(EndPage - 1)

Zero == [kind |-> "data", of |-> NoName, at |-> 0]

Byte(name, k) ==
    [kind |-> IF name \in Alike THEN "alike" ELSE "data", of |-> name, at |-> k]

Meta(name, size) == [kind |-> "meta", of |-> name, at |-> size]

BlankPage == [i \in 0..(PageBytes - 1) |-> Zero]

\* nx_fs_create_metadata over a page that is otherwise the given one.
WithMeta(page, name, size) ==
    [i \in 0..(PageBytes - 1) |->
        IF i = 0 THEN Meta(name, size)
        ELSE IF i < MetaBytes THEN Zero ELSE page[i]]

---------------------------------------------------------------------------
(* What the code reads in a page *)

\* nx_fs_page_has_magic
HasMagic(flash, page) == flash[page][0].kind \in {"meta", "alike"}

NameAt(flash, page) ==
    IF flash[page][0].kind = "meta" THEN flash[page][0].of ELSE NoName

SizeAt(flash, page) ==
    IF flash[page][0].kind = "meta" THEN flash[page][0].at ELSE AlikeSize

\* nx_fs_get_file_page_count
PageCount(size) == (size + MetaBytes + PageBytes - 1) \div PageBytes

\* The first page after the file whose origin is the page given.
EndOf(flash, page) == page + PageCount(SizeAt(flash, page))

\* The pages where the walk from FS_PAGE_START finds a file: it steps over
\* the pages of each file it meets.
Origins(flash) ==
    LET from[i \in Nat] ==
            IF i \notin Pages THEN {}
            ELSE IF HasMagic(flash, i) THEN {i} \cup from[EndOf(flash, i)]
            ELSE from[i + 1]
    IN  from[FirstPage]

\* The pages where nx_fs_find_file_origin can find the name.
OriginsOf(flash, name) == {o \in Origins(flash) : NameAt(flash, o) = name}

\* nx_fs_find_last_origin, and the page after that file; FS_PAGE_START when
\* there is no file.
FreeAfterLast(flash) ==
    IF Origins(flash) = {} THEN FirstPage
                           ELSE EndOf(flash, Max(Origins(flash)))

\* nx_fs_find_next_origin, which looks at every page; EndPage when there is
\* none.
NextOrigin(flash, start) ==
    Min({p \in start..(EndPage - 1) : HasMagic(flash, p)} \cup {EndPage})

\* nx_fs_move_region, in either direction.
Moved(flash, source, dest, len) ==
    [p \in Pages |->
        IF source = dest THEN flash[p]
        ELSE IF p \in dest..(dest + len - 1) THEN flash[source + (p - dest)]
        ELSE IF p \in source..(source + len - 1) THEN BlankPage
        ELSE flash[p]]

=============================================================================
