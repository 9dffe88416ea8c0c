----------------------------- MODULE FileSystem -----------------------------
(***************************************************************************)
(* The calls of base/lib/fs/fs.c over the flash: opening, reading, writing,*)
(* flushing, closing, seeking, deleting and formatting, with a power cut   *)
(* between any two of the code's writes to the flash that leave different  *)
(* states.  Defragmentation is not a part of this module.                  *)
(*                                                                         *)
(* fs.c has no lock and no interrupt of its own: one program calls it, one *)
(* call after the other.  What that program remembers of each descriptor,  *)
(* the name it opened and the offset of its next byte, is "client": the    *)
(* properties compare what the code does with it.  "Rules" says how        *)
(* careful the program is; the callers in systems/ keep all the rules.     *)
(*                                                                         *)
(* A name is a sequence of characters, because nx_fs_init_fd copies it     *)
(* without its end.  Permissions are left out: the code stores them and    *)
(* never looks at them.                                                    *)
(***************************************************************************)
EXTENDS Flash

CONSTANTS
    Name,       \* the names that the program uses
    Fd,         \* the descriptors, FS_MAX_OPENED_FILES of them
    Rules,      \* the rules that the program keeps
    MaxSize     \* bound: the program writes no file longer than this

\* "last_grows": only the last file on the flash is appended to.
\* "no_rewrite": a file that is opened by FS_FILE_MODE_OPEN is only read.
\* "exclusive": nobody else uses the file that is written or deleted, nothing
\*     is created or appended to while a file is written, and the flash is
\*     formatted when no file is open.
\* "room": a file whose last page is exactly full is not appended to.
AllRules == {"last_grows", "no_rewrite", "exclusive", "room"}

ASSUME FileSystemAssumption ==
    /\ Name \subseteq Seq(STRING) \ {<<>>}
    /\ NoName = <<>>
    /\ Alike \subseteq Name
    /\ Fd # {} /\ Fd \subseteq Nat
    /\ Rules \subseteq AllRules
    /\ MaxSize \in Nat

VARIABLES
    flash,      \* the pages
    fdset,      \* the descriptors
    client,     \* what the program remembers of each descriptor
    erasing,    \* the pages that nx_fs_unlink or nx_fs_soft_format has still to erase
    halted      \* an NX_ASSERT has failed

vars == <<flash, fdset, client, erasing, halted>>

Slots == [kind : {"data", "alike", "meta"}, of : Seq(STRING), at : Nat]

PageData == [0..(PageBytes - 1) -> Slots]

\* fs_file_t.  What an unused slot holds is never read, but for its name.
NoFile(name) ==
    [used |-> FALSE, name |-> name, origin |-> 0, size |-> 0,
     rpage |-> 0, rpos |-> 0, rdata |-> BlankPage,
     wpage |-> 0, wpos |-> 0, wdata |-> BlankPage]

NoClient == [name |-> NoName, mode |-> "none", next |-> 0]

TypeOK ==
    /\ flash \in [Pages -> PageData]
    /\ \A fd \in Fd :
           LET file == fdset[fd] IN
           /\ file.used \in BOOLEAN
           /\ file.name \in Seq(STRING)
           /\ file.origin \in 0..EndPage
           /\ file.size \in Nat
           /\ {file.rpage, file.wpage} \subseteq 0..EndPage
           /\ {file.rpos, file.wpos} \subseteq 0..PageBytes
           /\ {file.rdata, file.wdata} \subseteq PageData
    /\ client \in [Fd -> [name : Name \cup {NoName},
                          mode : {"none", "read", "write"}, next : 0..MaxSize]]
    /\ erasing \subseteq Pages
    /\ halted \in BOOLEAN

---------------------------------------------------------------------------
(* The program *)

\* It calls when nothing has stopped the brick and no call is in progress.
Calling == ~halted /\ erasing = {}

InUse(name) == {fd \in Fd : client[fd].name = name}

Writers == {fd \in Fd : client[fd].mode = "write"}

Keeps(rule, condition) == rule \in Rules => condition

Remembers(fd, name, mode, next) ==
    client' = [client EXCEPT ![fd] = [name |-> name, mode |-> mode,
                                      next |-> next]]

Forgets(fd) == client' = [client EXCEPT ![fd] = NoClient]

---------------------------------------------------------------------------
(* Opening *)

\* The first free slot; every way to open a file needs one.
Slot == Min({fd \in Fd : ~fdset[fd].used})

HasSlot == \E fd \in Fd : ~fdset[fd].used

\* The copy of a name over an old one, without its terminating 0.
CopiedName(name, old) == name \o SubSeq(old, Len(name) + 1, Len(old))

\* nx_fs_init_fd, and the buffers nx_fs_open fills: each is on the page, at
\* the position given.
Opened(f, slot, origin, rpage, rpos, wpage, wpos) ==
    [used |-> TRUE, name |-> CopiedName(NameAt(f, origin), fdset[slot].name),
     origin |-> origin, size |-> SizeAt(f, origin),
     rpage |-> rpage, rpos |-> rpos, rdata |-> f[rpage],
     wpage |-> wpage, wpos |-> wpos, wdata |-> f[wpage]]

\* Broken variant: the origin of the last file instead of the page after it.
NewOriginLast == IF Origins(flash) = {} THEN FirstPage ELSE Max(Origins(flash))

\* Where nx_fs_create_by_name puts a file.
NewOrigin == FreeAfterLast(flash)

\* FS_FILE_MODE_CREATE, with nx_fs_create_by_name
Create(name) ==
    /\ Calling
    /\ HasSlot
    /\ Keeps("exclusive", Writers = {})
    /\ OriginsOf(flash, name) = {}
    /\ NewOrigin < EndPage
    /\ LET f == [flash EXCEPT ![NewOrigin] = WithMeta(BlankPage, name, 0)] IN
       /\ flash' = f
       /\ fdset' = [fdset EXCEPT ![Slot] =
              Opened(f, Slot, NewOrigin, NewOrigin, MetaBytes,
                     NewOrigin, MetaBytes)]
    /\ Remembers(Slot, name, "write", 0)
    /\ UNCHANGED <<erasing, halted>>

\* FS_FILE_MODE_OPEN, to read the file or to write it again from its start.
Open(name, mode) ==
    /\ Calling
    /\ HasSlot
    /\ Keeps("no_rewrite", mode = "read")
    /\ Keeps("exclusive", InUse(name) \cap Writers = {})
    /\ OriginsOf(flash, name) # {}
    /\ LET origin == Min(OriginsOf(flash, name)) IN
       fdset' = [fdset EXCEPT ![Slot] =
           Opened(flash, Slot, origin, origin, MetaBytes, origin, MetaBytes)]
    /\ Remembers(Slot, name, mode, 0)
    /\ UNCHANGED <<flash, erasing, halted>>

\* FS_FILE_MODE_APPEND: the writing position is after the last byte, modulo
\* the page.
OpenAppend(name) ==
    /\ Calling
    /\ HasSlot
    /\ OriginsOf(flash, name) # {}
    /\ LET origin == Min(OriginsOf(flash, name))
           size == SizeAt(flash, origin)
           last == EndOf(flash, origin) - 1
       IN
       /\ Keeps("exclusive", InUse(name) \cup Writers = {})
       /\ Keeps("last_grows", origin = Max(Origins(flash)))
       /\ Keeps("room", (MetaBytes + size) % PageBytes # 0)
       /\ fdset' = [fdset EXCEPT ![Slot] =
              Opened(flash, Slot, origin, origin, MetaBytes,
                     last, (MetaBytes + size) % PageBytes)]
       /\ Remembers(Slot, name, "write", size)
    /\ UNCHANGED <<flash, erasing, halted>>

---------------------------------------------------------------------------
(* Reading *)

\* The end of the file, as nx_fs_read tests for it.
AtEnd(file) ==
    (file.rpage - file.origin) * PageBytes + file.rpos > MetaBytes + file.size

\* The reading position is at the end of its page.
TurnsPage(file) == file.rpos = PageBytes

\* The byte that nx_fs_read returns.
NextByte(file) ==
    IF TurnsPage(file) THEN flash[file.rpage + 1][0] ELSE file.rdata[file.rpos]

\* nx_fs_read; the program knows the size of the file and reads no more.
Read(fd) ==
    LET file == fdset[fd] IN
    /\ Calling
    /\ client[fd].mode = "read"
    /\ client[fd].next < file.size
    /\ ~AtEnd(file)
    /\ fdset' = [fdset EXCEPT ![fd] =
           IF TurnsPage(file)
           THEN [file EXCEPT !.rpage = @ + 1, !.rpos = 1,
                             !.rdata = flash[file.rpage + 1]]
           ELSE [file EXCEPT !.rpos = @ + 1]]
    /\ client' = [client EXCEPT ![fd].next = @ + 1]
    /\ UNCHANGED <<flash, erasing, halted>>

\* Broken variant: the buffer is not filled again.
SoughtDataStale(file, page) == file.rdata

\* The reading buffer after a seek to the page.
SoughtData(file, page) == IF page = file.rpage THEN file.rdata ELSE flash[page]

\* nx_fs_seek, which moves the reading position only.  The end of a file
\* whose last page is full may be past the flash, and cannot be read.
Seek(fd, position) ==
    LET file == fdset[fd]
        page == file.origin + (position + MetaBytes) \div PageBytes
    IN
    /\ Calling
    /\ client[fd].mode = "read"
    /\ position <= file.size
    /\ IF page = EndPage
       THEN halted' = TRUE /\ UNCHANGED <<fdset, client>>
       ELSE /\ fdset' = [fdset EXCEPT ![fd] =
                   [file EXCEPT !.rpage = page,
                                !.rpos = (position + MetaBytes) % PageBytes,
                                !.rdata = SoughtData(file, page)]]
            /\ client' = [client EXCEPT ![fd].next = position]
            /\ UNCHANGED halted
    /\ UNCHANGED <<flash, erasing>>

---------------------------------------------------------------------------
(* Writing *)

\* nx_fs_relocate: the page to which the file moves; 0 when there is none.
RelocationTarget(file) ==
    LET size == PageCount(file.size)
        from[start \in Nat] ==
            LET origin == NextOrigin(flash, start) IN
            IF origin = EndPage THEN 0
            ELSE IF \/ size < origin - start
                    \/ origin = file.origin /\ origin > start
            THEN origin
            ELSE from[EndOf(flash, origin)]
    IN  IF Origins(flash) # {} /\ size < EndPage - FreeAfterLast(flash)
        THEN FreeAfterLast(flash)
        ELSE from[FirstPage]

\* nx_fs_write asks whether the page it is about to write belongs to another
\* file, but only when its position is 0.
MustRelocate(file) ==
    /\ file.wpos = 0
    /\ file.wpage > file.origin + PageCount(file.size) - 1
    /\ HasMagic(flash, file.wpage)

\* nx_fs_relocate_to_page
Relocated(file, origin) ==
    [file EXCEPT !.origin = origin,
                 !.rpage = @ + origin - file.origin,
                 !.wpage = @ + origin - file.origin]

\* Broken variant: the position stays at the end of the page.
TurnedUnreset(file) ==
    IF file.wpos = PageBytes
    THEN [file EXCEPT !.wpage = @ + 1, !.wdata = BlankPage]
    ELSE file

\* The buffer is full: it is flushed and the next page begins, empty.
Turned(file) ==
    IF file.wpos = PageBytes
    THEN [file EXCEPT !.wpage = @ + 1, !.wpos = 0, !.wdata = BlankPage]
    ELSE file

\* Broken variant: the first byte of a page is not counted.
PutUncounted(file, byte, pages) ==
    LET room == file.size + MetaBytes - pages * PageBytes IN
    [file EXCEPT
        !.wdata[file.wpos] = byte,
        !.wpos = @ + 1,
        !.size = IF /\ file.wpage = file.origin + pages
                    /\ room > 0 /\ file.wpos + 1 > room
                 THEN @ + 1 ELSE @]

\* The byte goes into the buffer; it counts if it is beyond the end of the
\* file, which is looked for in its last page only.  The room is unsigned.
Put(file, byte, pages) ==
    LET room == file.size + MetaBytes - pages * PageBytes IN
    [file EXCEPT
        !.wdata[file.wpos] = byte,
        !.wpos = @ + 1,
        !.size = IF /\ file.wpage = file.origin + pages
                    /\ room >= 0 /\ file.wpos + 1 > room
                 THEN @ + 1 ELSE @]

\* nx_fs_write of the program's next byte; it gives up when relocation finds
\* no space, and fails an assertion beyond the end of the flash.
Write(fd) ==
    LET old == fdset[fd]
        target == RelocationTarget(old)
        moves == MustRelocate(old)
        file == IF moves THEN Relocated(old, target) ELSE old
        f == IF moves THEN Moved(flash, old.origin, target, PageCount(old.size))
                      ELSE flash
        turns == file.wpos = PageBytes
        pages == PageCount(file.size) - 1 + (IF turns THEN 1 ELSE 0)
    IN
    /\ Calling
    /\ client[fd].mode = "write"
    /\ client[fd].next < MaxSize
    /\ moves => target # 0
    /\ IF turns /\ file.wpage = EndPage
       THEN halted' = TRUE /\ UNCHANGED <<flash, fdset, client>>
       ELSE /\ flash' = IF turns THEN [f EXCEPT ![file.wpage] = file.wdata]
                                 ELSE f
            /\ fdset' = [fdset EXCEPT ![fd] =
                   Put(Turned(file), Byte(client[fd].name, client[fd].next),
                       pages)]
            /\ client' = [client EXCEPT ![fd].next = @ + 1]
            /\ UNCHANGED halted
    /\ UNCHANGED erasing

\* nx_fs_flush
Flush(fd) ==
    LET file == fdset[fd] IN
    /\ Calling
    /\ client[fd].mode = "write"
    /\ IF file.wpage = EndPage
       THEN halted' = TRUE /\ UNCHANGED flash
       ELSE flash' = [flash EXCEPT ![file.wpage] = file.wdata] /\ UNCHANGED halted
    /\ UNCHANGED <<fdset, client, erasing>>

---------------------------------------------------------------------------
(* Closing and deleting *)

\* Broken variant: the origin page is read before the buffer is flushed.
SavedPagesEarly(file) ==
    [flash EXCEPT
        ![file.wpage] = file.wdata,
        ![file.origin] = WithMeta(flash[file.origin], file.name, file.size)]

\* What nx_fs_close leaves on the flash: the buffer, and then the metadata,
\* in the origin page as it has become.
SavedPages(file) ==
    LET f == [flash EXCEPT ![file.wpage] = file.wdata]
    IN  [f EXCEPT ![file.origin] = WithMeta(@, file.name, file.size)]

\* nx_fs_close of a descriptor that was used for reading writes its untouched
\* buffer and its metadata back as well.
Close(fd) ==
    LET file == fdset[fd] IN
    /\ Calling
    /\ client[fd].mode # "none"
    /\ IF file.wpage = EndPage
       THEN halted' = TRUE /\ UNCHANGED <<flash, fdset, client>>
       ELSE /\ flash' = SavedPages(file)
            /\ fdset' = [fdset EXCEPT ![fd] = NoFile(file.name)]
            /\ Forgets(fd)
            /\ UNCHANGED halted
    /\ UNCHANGED erasing

\* Broken variant: the page after the file is looked at as well.
MarkedBeyond(file) ==
    {p \in file.origin..(file.origin + PageCount(file.size)) \cap Pages :
        HasMagic(flash, p)}

\* The pages of the file that look like an origin.
Marked(file) ==
    {p \in file.origin..(file.origin + PageCount(file.size) - 1) \cap Pages :
        HasMagic(flash, p)}

\* nx_fs_unlink finds the pages to erase as it goes; it erases no page that
\* it has yet to look at, so they are known from the beginning.
Unlink(fd) ==
    /\ Calling
    /\ client[fd].mode = "read"
    /\ Keeps("exclusive", InUse(client[fd].name) = {fd})
    /\ erasing' = Marked(fdset[fd])
    /\ fdset' = [fdset EXCEPT ![fd] = NoFile(@.name)]
    /\ Forgets(fd)
    /\ UNCHANGED <<flash, halted>>

\* nx_fs_soft_format, all of whose pages are known from the beginning too.
Format ==
    /\ Calling
    /\ Keeps("exclusive", \A fd \in Fd : client[fd].mode = "none")
    /\ erasing' = {p \in Pages : \E o \in Origins(flash) : p \in o..(EndOf(flash, o) - 1)}
    /\ UNCHANGED <<flash, fdset, client, halted>>

\* One turn of the loop of either.
Erase ==
    /\ ~halted
    /\ erasing # {}
    /\ flash' = [flash EXCEPT ![Min(erasing)] = BlankPage]
    /\ erasing' = erasing \ {Min(erasing)}
    /\ UNCHANGED <<fdset, client, halted>>

---------------------------------------------------------------------------

\* The power fails: only the flash is left.
PowerCut ==
    /\ fdset' = [fd \in Fd |-> NoFile(NoName)]
    /\ client' = [fd \in Fd |-> NoClient]
    /\ erasing' = {}
    /\ halted' = FALSE
    /\ UNCHANGED flash

\* A new flash, and a brick just switched on.
Init ==
    /\ flash = [p \in Pages |-> BlankPage]
    /\ fdset = [fd \in Fd |-> NoFile(NoName)]
    /\ client = [fd \in Fd |-> NoClient]
    /\ erasing = {}
    /\ halted = FALSE

Next ==
    \/ \E name \in Name : Create(name) \/ OpenAppend(name)
    \/ \E name \in Name, mode \in {"read", "write"} : Open(name, mode)
    \/ \E fd \in Fd : Read(fd) \/ Write(fd) \/ Flush(fd) \/ Close(fd) \/ Unlink(fd)
    \/ \E fd \in Fd, position \in 0..MaxSize : Seek(fd, position)
    \/ Erase
    \/ Format
    \/ PowerCut

Spec == Init /\ [][Next]_vars

---------------------------------------------------------------------------
(* Properties *)

\* The size that the code reads for a file may lie past the flash.
ByteAt(page, offset) ==
    LET p == page + (offset + MetaBytes) \div PageBytes
    IN  IF p \in Pages THEN flash[p][(offset + MetaBytes) % PageBytes] ELSE Zero

\* What a program that opens each file now would find in it: the first file
\* of each name.
Found ==
    LET origins == Origins(flash)
        first(n) == Min({o \in origins : NameAt(flash, o) = n})
    IN  [n \in Name \cap {NameAt(flash, o) : o \in origins} |->
            [k \in 1..SizeAt(flash, first(n)) |-> ByteAt(first(n), k - 1)]]

Store == INSTANCE FileStore WITH files <- Found

\* The files on the flash change as the calls say: each call the one file it
\* names, a file grows when it is closed, and a power cut changes none.
ImplementsStore == Store!Spec

\* Every file holds the bytes that were written to it, in order.
FilesIntact ==
    \A name \in DOMAIN Found : \A k \in 1..Len(Found[name]) :
        Found[name][k] = Byte(name, k - 1)

\* The byte that a program reads next is the one it expects.
ReadsRight ==
    \A fd \in Fd : LET file == fdset[fd] IN
        client[fd].mode = "read" /\ client[fd].next < file.size =>
            /\ ~AtEnd(file)
            /\ NextByte(file) = Byte(client[fd].name, client[fd].next)

\* The cached origin of an open file is a page where a search finds it.
OriginsFresh ==
    \A fd \in Fd : client[fd].mode # "none" =>
        fdset[fd].origin \in OriginsOf(flash, client[fd].name)

\* What the program has written is in the file, counted: a close makes it
\* last (fs.h:156 "flushing any data left to be written and sync its
\* metadata").
WrittenIsCounted ==
    \A fd \in Writers : fdset[fd].size = client[fd].next

\* The name of an open file, which nx_fs_close writes over the one on the
\* flash, is the one it was opened by (fs.h:103 "The file name.").
NamesKept ==
    \A fd \in Fd : client[fd].mode # "none" => fdset[fd].name = client[fd].name

\* The flash and what the descriptors cache of it tell the same story, and it
\* is the one that the programs wrote.
FilesTrue == TypeOK /\ FilesIntact /\ OriginsFresh /\ WrittenIsCounted

=============================================================================
