------------------------- MODULE FileSystemProofs -------------------------
(***************************************************************************)
(* Theorems about the calls of base/lib/fs/fs.c, for a flash of any size,  *)
(* any number of descriptors and files of any length: FilesTrue,           *)
(* ReadsRight, and that the calls implement FileStore.                     *)
(*                                                                         *)
(* The invariant is FsInv.  Of the flash it says that the files have       *)
(* different names and lie apart, each with the bytes of its name in it    *)
(* (FlashOK), so that the walk from the first page steps exactly from file *)
(* to file, and page by page over what merely looks like a file            *)
(* (OriginsAre).  Of a descriptor that reads, that its buffer is its page  *)
(* and that what nx_fs_close writes back is there already (Reading).  Of   *)
(* one that writes, that each byte is in the buffer or on the flash, that  *)
(* its file is the last one with nothing behind it that looks like an      *)
(* origin, and that its position in the page is never 0, the one case in   *)
(* which nx_fs_write looks for another place (Writing).  Of a deletion     *)
(* half done, that the origin of a file goes before its other pages        *)
(* (ErasingOK).                                                            *)
(*                                                                         *)
(* There are three hypotheses.  Careful: the program keeps the rules of    *)
(* FileSystem.  OneLength: names are copied without their end, so that     *)
(* those of different lengths mix.  AlikeFits: the size that is read       *)
(* beside a letter that looks like the marker is that of a file of one     *)
(* page.  A deletion erases the origin of a file before its other pages:   *)
(* one that then looks like the origin of a longer file hides the files    *)
(* after it.                                                               *)
(***************************************************************************)
EXTENDS FileSystem, WellFoundedInduction, TLAPS

---------------------------------------------------------------------------
(* Numbers *)

LEMMA LeastOf ==
    ASSUME NEW T, T \subseteq Nat, T # {}
    PROVE  \E x \in T : \A y \in T : x <= y
<1>1. PICK x \in T : \A y \in T : <<y, x>> \notin OpToRel(<, Nat)
  BY NatLessThanWellFounded, WFMin, Zenon
<1>2. \A y \in T : ~(y < x)
  BY <1>1 DEF OpToRel
<1> QED
  BY <1>2

\* The minimum of a set of numbers.
LEMMA MinIs ==
    ASSUME NEW T, T \subseteq Nat, T # {}
    PROVE  Min(T) \in T /\ \A y \in T : Min(T) <= y
BY LeastOf DEF Min

LEMMA MinOfOne ==
    ASSUME NEW n \in Nat
    PROVE  Min({n}) = n
BY MinIs

\* The maximum of a set of pages.
LEMMA MaxIs ==
    ASSUME NEW T, T \subseteq Pages, T # {}
    PROVE  Max(T) \in T /\ \A y \in T : y <= Max(T)
<1>1. FirstPage \in Nat /\ EndPage \in Nat
  BY FlashAssumption
<1> DEFINE U == {EndPage - p : p \in T}
<1>2. U \subseteq Nat /\ U # {}
  <2>1. \A p \in Pages : EndPage - p \in Nat
    BY <1>1 DEF Pages
  <2> QED
    BY <2>1
<1>3. PICK u \in U : \A v \in U : u <= v
  BY <1>2, LeastOf
<1>4. PICK p \in T : u = EndPage - p
  OBVIOUS
<1>5. \A y \in T : p >= y
  <2>1. SUFFICES ASSUME NEW y \in T PROVE p >= y
    OBVIOUS
  <2>2. u <= EndPage - y
    BY <1>3
  <2>3. y \in Int /\ p \in Int
    BY <1>1 DEF Pages
  <2> QED
    BY <1>1, <1>4, <2>2, <2>3
<1>6. Max(T) \in T /\ \A y \in T : Max(T) >= y
  BY <1>5 DEF Max
<1>7. T \subseteq Int
  BY <1>1 DEF Pages
<1> QED
  BY <1>6, <1>7

LEMMA Sizes ==
    /\ FirstPage \in Nat \ {0} /\ EndPage \in Nat /\ FirstPage < EndPage
    /\ MetaBytes \in Nat \ {0} /\ PageBytes \in Nat \ {0} /\ MetaBytes < PageBytes
    /\ AlikeSize \in Nat /\ MaxSize \in Nat
BY FlashAssumption, FileSystemAssumption

LEMMA Division ==
    ASSUME NEW a \in Nat, NEW b \in Nat \ {0}
    PROVE  a \div b \in Nat /\ a % b \in 0..(b - 1) /\ a = (a \div b) * b + (a % b)
<1>1. a \div b \in Int /\ a % b \in Int /\ 0 <= a % b /\ a % b < b
  OBVIOUS
<1>2. a = (a \div b) * b + (a % b)
  OBVIOUS
<1>3. a \div b >= 0
  OBVIOUS
<1> QED
  BY <1>1, <1>2, <1>3

LEMMA DivisionIs ==
    ASSUME NEW b \in Nat \ {0}, NEW q \in Nat, NEW r \in 0..(b - 1)
    PROVE  (q * b + r) \div b = q /\ (q * b + r) % b = r
OBVIOUS

LEMMA Smaller ==
    ASSUME NEW a \in Int, NEW b \in Int, NEW n \in Nat \ {0}, a * n < b * n
    PROVE  a < b
OBVIOUS

\* The page, counted from the origin of its file, and the position of a byte.
PageOf(k) == (k + MetaBytes) \div PageBytes
PosOf(k) == (k + MetaBytes) % PageBytes

LEMMA Place ==
    ASSUME NEW k \in Nat
    PROVE  /\ PageOf(k) \in Nat /\ PosOf(k) \in 0..(PageBytes - 1)
           /\ k + MetaBytes = PageOf(k) * PageBytes + PosOf(k)
<1>1. k + MetaBytes \in Nat /\ PageBytes \in Nat \ {0}
  BY Sizes
<1> QED
  BY <1>1, Division DEF PageOf, PosOf

LEMMA PlaceIs ==
    ASSUME NEW k \in Nat, NEW q \in Nat, NEW r \in 0..(PageBytes - 1),
           k + MetaBytes = q * PageBytes + r
    PROVE  PageOf(k) = q /\ PosOf(k) = r
BY Sizes, DivisionIs DEF PageOf, PosOf

\* The metadata come before the first byte of the file.
LEMMA AfterMeta ==
    ASSUME NEW k \in Nat, PageOf(k) = 0
    PROVE  PosOf(k) \in MetaBytes..(PageBytes - 1)
<1>1. k + MetaBytes = 0 * PageBytes + PosOf(k) /\ PosOf(k) \in 0..(PageBytes - 1)
  BY Place
<1> QED
  BY <1>1, Sizes

\* The number of pages of a file of s bytes.
LEMMA Counts ==
    ASSUME NEW s \in Nat
    PROVE  /\ PageCount(s) \in Nat \ {0}
           /\ (PageCount(s) - 1) * PageBytes < s + MetaBytes
           /\ s + MetaBytes <= PageCount(s) * PageBytes
<1> DEFINE a == s + MetaBytes + PageBytes - 1
           q == PageCount(s)
<1>1. a \in Nat /\ PageBytes \in Nat \ {0}
  BY Sizes
<1>2. q \in Nat /\ a % PageBytes \in 0..(PageBytes - 1) /\ a = q * PageBytes + (a % PageBytes)
  BY <1>1, Division DEF PageCount
<1>3. MetaBytes \in Nat \ {0}
  BY Sizes
<1> DEFINE r == a % PageBytes
<1> HIDE DEF q
<1>4. r \in 0..(PageBytes - 1) /\ s + MetaBytes + PageBytes - 1 = q * PageBytes + r
  BY <1>2, Zenon
<1> HIDE DEF r, a
<1>5. (q - 1) * PageBytes = q * PageBytes - PageBytes /\ q * PageBytes \in Nat
  BY <1>1, <1>2
<1>6. (q - 1) * PageBytes < s + MetaBytes /\ s + MetaBytes <= q * PageBytes
  BY <1>1, <1>3, <1>4, <1>5
<1>7. q # 0
  <2>1. SUFFICES ASSUME q = 0 PROVE FALSE
    OBVIOUS
  <2>2. q * PageBytes = 0
    BY <2>1, <1>1
  <2> QED
    BY <1>6, <1>3, <2>2
<1> QED
  BY <1>2, <1>6, <1>7 DEF q

LEMMA CountIs ==
    ASSUME NEW s \in Nat, NEW n \in Nat, NEW r \in 1..PageBytes,
           n * PageBytes + r = s + MetaBytes
    PROVE  PageCount(s) = n + 1
<1>1. PageBytes \in Nat \ {0} /\ MetaBytes \in Nat
  BY Sizes
<1>2. r - 1 \in 0..(PageBytes - 1) /\ n + 1 \in Nat
  BY <1>1
<1>3. (n + 1) * PageBytes = n * PageBytes + PageBytes /\ n * PageBytes \in Nat
  BY <1>1
<1>4. s + MetaBytes + PageBytes - 1 = (n + 1) * PageBytes + (r - 1)
  BY <1>1, <1>3
<1>5. ((n + 1) * PageBytes + (r - 1)) \div PageBytes = n + 1
  BY <1>1, <1>2, DivisionIs
<1> QED
  BY <1>4, <1>5 DEF PageCount

\* Every byte of a file is in one of its pages.
LEMMA PlaceInCount ==
    ASSUME NEW s \in Nat, NEW k \in 0..(s - 1)
    PROVE  PageOf(k) < PageCount(s)
<1>1. k \in Nat /\ k < s
  OBVIOUS
<1>2. PageOf(k) \in Nat /\ PosOf(k) \in Nat /\ k + MetaBytes = PageOf(k) * PageBytes + PosOf(k)
  BY <1>1, Place
<1>3. PageCount(s) \in Nat /\ s + MetaBytes <= PageCount(s) * PageBytes
  BY Counts
<1>4. PageOf(k) * PageBytes \in Int /\ PageCount(s) * PageBytes \in Int /\ MetaBytes \in Nat
  BY <1>2, <1>3, Sizes
<1>5. PageOf(k) * PageBytes < PageCount(s) * PageBytes
  BY <1>1, <1>2, <1>3, <1>4
<1> QED
  BY <1>2, <1>3, <1>5, Smaller, Sizes

LEMMA CountGrows ==
    ASSUME NEW s \in Nat, NEW t \in Nat, s <= t
    PROVE  PageCount(s) <= PageCount(t)
<1>1. /\ PageCount(s) \in Nat \ {0} /\ PageCount(t) \in Nat \ {0}
      /\ (PageCount(s) - 1) * PageBytes < s + MetaBytes
      /\ t + MetaBytes <= PageCount(t) * PageBytes
  BY Counts
<1>2. (PageCount(s) - 1) * PageBytes \in Int /\ PageCount(t) * PageBytes \in Int
  BY <1>1, Sizes
<1>3. (PageCount(s) - 1) * PageBytes < PageCount(t) * PageBytes
  BY <1>1, <1>2, Sizes
<1>4. PageCount(s) - 1 < PageCount(t)
  BY <1>1, <1>3, Smaller, Sizes
<1> QED
  BY <1>1, <1>4

LEMMA CountOne ==
    ASSUME NEW s \in Nat, s + MetaBytes <= PageBytes
    PROVE  PageCount(s) = 1
<1>1. s + MetaBytes \in 1..PageBytes /\ 0 * PageBytes + (s + MetaBytes) = s + MetaBytes
  BY Sizes
<1> QED
  BY <1>1, CountIs

---------------------------------------------------------------------------
(* The flash *)

IsMeta(F, p) == F[p][0].kind = "meta"

\* The pages from o on hold the first s bytes of the file n.
Holds(F, o, n, s) ==
    \A k \in 0..(s - 1) : F[o + PageOf(k)][PosOf(k)] = Byte(n, k)

\* What the metadata in page o says is so.
FileAt(F, o) ==
    /\ NameAt(F, o) \in Name /\ SizeAt(F, o) \in 0..MaxSize
    /\ EndOf(F, o) <= EndPage
    /\ \A i \in 1..(MetaBytes - 1) : F[o][i] = Zero
    /\ Holds(F, o, NameAt(F, o), SizeAt(F, o))

\* No two files share a page.
Apart(F) ==
    \A o, q \in Pages : IsMeta(F, o) /\ IsMeta(F, q) /\ o < q => EndOf(F, o) <= q

\* No two files have the same name.
OneEach(F) ==
    \A o, q \in Pages :
        IsMeta(F, o) /\ IsMeta(F, q) /\ NameAt(F, o) = NameAt(F, q) => o = q

FlashOK(F) ==
    /\ F \in [Pages -> PageData]
    /\ \A o \in Pages : IsMeta(F, o) => FileAt(F, o)
    /\ Apart(F)
    /\ OneEach(F)

\* The origins at or after page i that a walk from it finds: the marked pages
\* that are in no file that starts there or later.
OrgFrom(F, i) ==
    {p \in Pages : /\ i \in Pages /\ i <= p /\ HasMagic(F, p)
                   /\ \A q \in Pages : IsMeta(F, q) /\ i <= q /\ q < p => EndOf(F, q) <= p}

Org(F) ==
    {p \in Pages : /\ HasMagic(F, p)
                   /\ \A q \in Pages : IsMeta(F, q) /\ q < p => EndOf(F, q) <= p}

LEMMA PagesAre ==
    /\ Pages \subseteq Nat
    /\ FirstPage \in Pages /\ 0 \notin Pages /\ EndPage \notin Pages
    /\ \A p \in Pages : FirstPage <= p /\ p < EndPage
    /\ \A p \in Nat : FirstPage <= p /\ p < EndPage => p \in Pages
BY Sizes DEF Pages

LEMMA ZeroInPage == 0 \in 0..(PageBytes - 1) /\ 0 \notin 1..(MetaBytes - 1)
BY Sizes

\* Where a byte of the flash comes from.
LEMMA SlotIs ==
    ASSUME NEW F \in [Pages -> PageData], NEW p \in Pages, NEW i \in 0..(PageBytes - 1)
    PROVE  F[p] \in PageData /\ F[p][i] \in Slots
BY DEF PageData

LEMMA KindIs ==
    ASSUME NEW F \in [Pages -> PageData], NEW p \in Pages
    PROVE  /\ F[p][0] \in Slots
           /\ F[p][0].kind \in {"data", "alike", "meta"} /\ F[p][0].at \in Nat
           /\ IsMeta(F, p) => HasMagic(F, p)
<1>1. F[p][0] \in Slots
  BY ZeroInPage, SlotIs
<1> QED
  BY <1>1 DEF Slots, IsMeta, HasMagic

LEMMA SizeIs ==
    ASSUME NEW F \in [Pages -> PageData], NEW p \in Pages
    PROVE  /\ SizeAt(F, p) \in Nat
           /\ EndOf(F, p) \in Nat /\ p < EndOf(F, p)
           /\ EndOf(F, p) = p + PageCount(SizeAt(F, p))
<1>1. SizeAt(F, p) \in Nat
  BY KindIs, Sizes DEF SizeAt
<1>2. PageCount(SizeAt(F, p)) \in Nat \ {0} /\ p \in Nat
  BY <1>1, Counts, PagesAre
<1> QED
  BY <1>1, <1>2 DEF EndOf

\* A page that only looks like an origin stands for one page.
AlikeFits == MetaBytes + AlikeSize <= PageBytes

LEMMA AlikeEnds ==
    ASSUME AlikeFits, NEW F \in [Pages -> PageData], NEW p \in Pages, ~IsMeta(F, p)
    PROVE  EndOf(F, p) = p + 1
<1>1. SizeAt(F, p) = AlikeSize
  BY DEF SizeAt, IsMeta
<1>2. PageCount(AlikeSize) = 1
  BY CountOne, Sizes DEF AlikeFits
<1> QED
  BY <1>1, <1>2 DEF EndOf

LEMMA WalkStep ==
    ASSUME AlikeFits, NEW F, FlashOK(F), NEW i \in Pages
    PROVE  OrgFrom(F, i) = IF HasMagic(F, i) THEN {i} \cup OrgFrom(F, EndOf(F, i))
                           ELSE OrgFrom(F, i + 1)
<1> DEFINE e == IF HasMagic(F, i) THEN EndOf(F, i) ELSE i + 1
<1>1. F \in [Pages -> PageData] /\ Apart(F)
  BY DEF FlashOK
<1>2. e \in Nat /\ i < e /\ i \in Nat
  BY <1>1, SizeIs, PagesAre
<1>3. ~IsMeta(F, i) => e = i + 1
  BY <1>1, AlikeEnds
<1>4. IsMeta(F, i) => e = EndOf(F, i)
  BY <1>1, KindIs
<1>5. ASSUME NEW p \in Pages
      PROVE  p \in OrgFrom(F, i) <=> (p = i /\ HasMagic(F, i)) \/ p \in OrgFrom(F, e)
  <2>1. p \in Nat
    BY PagesAre
  <2>2. ASSUME p \in OrgFrom(F, i), p # i PROVE p \in OrgFrom(F, e)
    <3>1. i < p /\ HasMagic(F, p)
          /\ \A q \in Pages : IsMeta(F, q) /\ i <= q /\ q < p => EndOf(F, q) <= p
      BY <2>1, <2>2, <1>2 DEF OrgFrom
    <3>2. e <= p
      <4>1. CASE IsMeta(F, i)
        BY <3>1, <4>1, <1>4, <1>2
      <4>2. CASE ~IsMeta(F, i)
        BY <3>1, <4>2, <1>3, <1>2, <2>1
      <4> QED
        BY <4>1, <4>2
    <3>3. e \in Pages
      <4>1. FirstPage <= i /\ p < EndPage /\ FirstPage \in Nat /\ EndPage \in Nat
        BY PagesAre, Sizes
      <4>2. FirstPage <= e /\ e < EndPage
        BY <4>1, <3>2, <1>2, <2>1
      <4> QED
        BY <4>2, <1>2, PagesAre
    <3>4. \A q \in Pages : e <= q => i <= q
      BY <1>2, PagesAre
    <3> HIDE DEF e
    <3> QED
      BY <3>1, <3>2, <3>3, <3>4 DEF OrgFrom
  <2>3. ASSUME p \in OrgFrom(F, e) PROVE p \in OrgFrom(F, i)
    <3> HIDE DEF e
    <3>1. e <= p /\ HasMagic(F, p)
          /\ \A q \in Pages : IsMeta(F, q) /\ e <= q /\ q < p => EndOf(F, q) <= p
      BY <2>3 DEF OrgFrom
    <3>2. ASSUME NEW q \in Pages, IsMeta(F, q), i <= q, q < p PROVE EndOf(F, q) <= p
      <4>1. q \in Nat
        BY PagesAre
      <4>2. CASE q = i
        BY <4>2, <3>2, <1>4, <3>1
      <4>3. CASE i < q
        <5>1. e <= q
          <6>1. CASE IsMeta(F, i)
            BY <6>1, <4>3, <3>2, <1>1, <1>4 DEF Apart
          <6>2. CASE ~IsMeta(F, i)
            BY <6>2, <4>3, <1>2, <4>1, <1>3
          <6> QED
            BY <6>1, <6>2
        <5> QED
          BY <5>1, <3>1, <3>2
      <4> QED
        BY <4>1, <4>2, <4>3, <3>2, <1>2
    <3>3. i <= p
      BY <3>1, <1>2, <2>1
    <3> QED
      BY <3>1, <3>2, <3>3 DEF OrgFrom
  <2>4. ASSUME HasMagic(F, i) PROVE i \in OrgFrom(F, i)
    <3>1. \A q \in Pages : ~(i <= q /\ q < i)
      BY <1>2, PagesAre
    <3>2. i <= i
      BY <1>2
    <3> QED
      BY <2>4, <3>1, <3>2 DEF OrgFrom
  <2>5. p = i /\ p \in OrgFrom(F, i) => HasMagic(F, i)
    BY DEF OrgFrom
  <2> QED
    BY <2>2, <2>3, <2>4, <2>5
<1>6. OrgFrom(F, i) \subseteq Pages /\ OrgFrom(F, e) \subseteq Pages
  BY DEF OrgFrom
<1>7. CASE HasMagic(F, i)
  <2>1. OrgFrom(F, i) = {i} \cup OrgFrom(F, e)
    <3> HIDE DEF e
    <3> QED
      BY <1>5, <1>6, <1>7
  <2> QED
    BY <2>1, <1>7
<1>8. CASE ~HasMagic(F, i)
  <2>1. OrgFrom(F, i) = OrgFrom(F, e)
    <3> HIDE DEF e
    <3> QED
      BY <1>5, <1>6, <1>8
  <2> QED
    BY <2>1, <1>8
<1> QED
  BY <1>7, <1>8

\* The walk of the code, from any page on.
Walks(F, f) ==
    f = [i \in Nat |->
            IF i \notin Pages THEN {}
            ELSE IF HasMagic(F, i) THEN {i} \cup f[EndOf(F, i)]
            ELSE f[i + 1]]

\* The walk finds the marked pages that are in no file before them.
LEMMA OriginsAre ==
    ASSUME AlikeFits, NEW F, FlashOK(F)
    PROVE  Origins(F) = Org(F)
<1> DEFINE w == [i \in Nat |-> OrgFrom(F, i)]
<1>1. F \in [Pages -> PageData] /\ Pages \subseteq Nat
  BY PagesAre DEF FlashOK
<1>2. \A i \in Pages : EndOf(F, i) \in Nat /\ i + 1 \in Nat /\ i < EndOf(F, i) /\ i < i + 1
  BY <1>1, SizeIs
<1>3. \A i \in Nat : i \notin Pages => OrgFrom(F, i) = {}
  BY DEF OrgFrom
<1>4. \A i \in Nat : w[i] = OrgFrom(F, i)
  OBVIOUS
<1>5. \A i \in Pages : w[i] = IF HasMagic(F, i) THEN {i} \cup w[EndOf(F, i)] ELSE w[i + 1]
  <2>1. SUFFICES ASSUME NEW i \in Pages
                 PROVE  w[i] = IF HasMagic(F, i) THEN {i} \cup w[EndOf(F, i)] ELSE w[i + 1]
    OBVIOUS
  <2>2. /\ w[i] = OrgFrom(F, i) /\ w[EndOf(F, i)] = OrgFrom(F, EndOf(F, i))
        /\ w[i + 1] = OrgFrom(F, i + 1)
    BY <1>1, <1>2, <1>4
  <2> HIDE DEF w
  <2> QED
    BY <2>2, WalkStep
<1>6. Walks(F, w)
  <2>1. w = [i \in Nat |-> w[i]]
    OBVIOUS
  <2>2. \A i \in Nat : i \notin Pages => w[i] = {}
    BY <1>3, <1>4
  <2> HIDE DEF w
  <2> QED
    BY <2>1, <2>2, <1>5 DEF Walks
<1>7. ASSUME NEW f, Walks(F, f) PROVE f[FirstPage] = w[FirstPage]
  <2>1. /\ \A i \in Nat : i \notin Pages => f[i] = {}
        /\ \A i \in Pages : f[i] = IF HasMagic(F, i) THEN {i} \cup f[EndOf(F, i)] ELSE f[i + 1]
    BY <1>7, <1>1 DEF Walks
  <2>2. \A i \in Nat : i \notin Pages => w[i] = {}
    BY <1>3, <1>4
  <2> HIDE DEF w
  <2> DEFINE B == {i \in Pages : f[i] # w[i]}
  <2>3. SUFFICES ASSUME B # {} PROVE FALSE
    BY PagesAre
  <2>4. PICK i \in B : \A j \in B : j <= i
    BY <2>3, MaxIs
  <2>5. i \in Pages /\ i \in Nat
    BY <1>1
  <2>6. \A j \in Nat : i < j => f[j] = w[j]
    <3>1. SUFFICES ASSUME NEW j \in Nat, i < j PROVE f[j] = w[j]
      OBVIOUS
    <3>2. ~(j <= i)
      BY <3>1, <2>5
    <3> QED
      BY <3>2, <2>4, <2>1, <2>2
  <2>7. f[EndOf(F, i)] = w[EndOf(F, i)] /\ f[i + 1] = w[i + 1]
    BY <2>5, <2>6, <1>2
  <2>8. f[i] = w[i]
    BY <2>5, <2>7, <2>1, <1>5
  <2> QED
    BY <2>8
<1>8. Origins(F) = (CHOOSE f : Walks(F, f))[FirstPage]
  BY DEF Origins, Walks
<1>9. Walks(F, CHOOSE f : Walks(F, f))
  <2> HIDE DEF w
  <2> QED
    BY <1>6
<1>10. OrgFrom(F, FirstPage) = Org(F)
  BY PagesAre DEF OrgFrom, Org
<1> QED
  BY <1>4, <1>7, <1>8, <1>9, <1>10, PagesAre

---------------------------------------------------------------------------
(* What a search finds *)

LEMMA NamesAre ==
    /\ Name \subseteq Seq(STRING) /\ NoName \in Seq(STRING)
    /\ NoName \notin Name /\ NoName = <<>>
BY FileSystemAssumption

LEMMA MetasAreOrigins ==
    ASSUME NEW F, FlashOK(F), NEW o \in Pages, IsMeta(F, o)
    PROVE  o \in Org(F)
BY KindIs DEF FlashOK, Apart, Org

LEMMA OriginsOfAre ==
    ASSUME AlikeFits, NEW F, FlashOK(F), NEW n \in Name
    PROVE  OriginsOf(F, n) = {o \in Pages : IsMeta(F, o) /\ NameAt(F, o) = n}
<1>1. OriginsOf(F, n) = {o \in Org(F) : NameAt(F, o) = n}
  BY OriginsAre DEF OriginsOf
<1>2. \A o \in Pages : ~IsMeta(F, o) => NameAt(F, o) # n
  BY NamesAre DEF NameAt, IsMeta
<1>3. \A o \in Pages : IsMeta(F, o) => o \in Org(F)
  BY MetasAreOrigins
<1>4. Org(F) \subseteq Pages
  BY DEF Org
<1> QED
  BY <1>1, <1>2, <1>3, <1>4

LEMMA OriginOfIs ==
    ASSUME AlikeFits, NEW F, FlashOK(F), NEW o \in Pages, IsMeta(F, o)
    PROVE  /\ NameAt(F, o) \in Name
           /\ OriginsOf(F, NameAt(F, o)) = {o}
           /\ Min(OriginsOf(F, NameAt(F, o))) = o
<1>1. NameAt(F, o) \in Name
  BY DEF FlashOK, FileAt
<1>2. OriginsOf(F, NameAt(F, o)) = {o}
  BY <1>1, OriginsOfAre DEF FlashOK, OneEach
<1>3. o \in Nat
  BY PagesAre
<1> QED
  BY <1>1, <1>2, <1>3, MinOfOne

LEMMA OriginOfOpen ==
    ASSUME AlikeFits, NEW F, FlashOK(F), NEW n \in Name, OriginsOf(F, n) # {}
    PROVE  /\ Min(OriginsOf(F, n)) \in Pages
           /\ IsMeta(F, Min(OriginsOf(F, n)))
           /\ NameAt(F, Min(OriginsOf(F, n))) = n
<1>1. OriginsOf(F, n) \subseteq Nat
  BY OriginsOfAre, PagesAre
<1>2. Min(OriginsOf(F, n)) \in OriginsOf(F, n)
  BY <1>1, MinIs
<1> QED
  BY <1>2, OriginsOfAre

\* After the last origin and its pages, nothing is marked.
LEMMA NothingAfter ==
    ASSUME AlikeFits, NEW F, FlashOK(F), NEW m \in Org(F), \A o \in Org(F) : o <= m,
           NEW p \in Pages, EndOf(F, m) <= p
    PROVE  ~HasMagic(F, p)
<1>1. SUFFICES ASSUME HasMagic(F, p) PROVE FALSE
  OBVIOUS
<1>2. /\ m \in Pages /\ m \in Nat /\ p \in Nat
      /\ \A q \in Pages : IsMeta(F, q) /\ q < m => EndOf(F, q) <= m
  BY PagesAre DEF Org
<1>3. F \in [Pages -> PageData] /\ m < EndOf(F, m) /\ EndOf(F, m) \in Nat
  BY <1>2, SizeIs DEF FlashOK
<1>4. p \notin Org(F)
  BY <1>2, <1>3
<1>5. PICK q \in Pages : IsMeta(F, q) /\ q < p /\ ~(EndOf(F, q) <= p)
  BY <1>1, <1>4 DEF Org
<1>6. q \in Nat /\ q <= m /\ EndOf(F, q) \in Nat
  BY <1>3, <1>5, MetasAreOrigins, PagesAre, SizeIs
<1>7. CASE q = m
  BY <1>5, <1>7
<1>8. CASE q < m
  <2>1. EndOf(F, q) <= m
    BY <1>2, <1>5, <1>8
  <2> QED
    BY <2>1, <1>2, <1>3, <1>5, <1>6
<1> QED
  BY <1>2, <1>6, <1>7, <1>8

\* The page where a new file would begin.
LEMMA FreeIs ==
    ASSUME AlikeFits, NEW F, FlashOK(F)
    PROVE  /\ FreeAfterLast(F) \in Nat /\ FirstPage <= FreeAfterLast(F)
           /\ \A p \in Pages : FreeAfterLast(F) <= p => ~HasMagic(F, p)
           /\ \A o \in Pages : IsMeta(F, o) => o < FreeAfterLast(F) /\ EndOf(F, o) <= FreeAfterLast(F)
<1>1. Origins(F) = Org(F) /\ Org(F) \subseteq Pages /\ F \in [Pages -> PageData]
  BY OriginsAre DEF Org, FlashOK
<1>2. CASE Org(F) = {}
  <2>1. FreeAfterLast(F) = FirstPage
    BY <1>1, <1>2 DEF FreeAfterLast
  <2>2. \A o \in Pages : ~IsMeta(F, o)
    BY <1>2, MetasAreOrigins
  <2>3. \A p \in Pages : ~HasMagic(F, p)
    BY <1>2, <2>2 DEF Org
  <2> QED
    BY <2>1, <2>2, <2>3, Sizes
<1>3. CASE Org(F) # {}
  <2> DEFINE m == Max(Org(F))
  <2>1. FreeAfterLast(F) = EndOf(F, m)
    BY <1>1, <1>3 DEF FreeAfterLast
  <2>2. m \in Org(F) /\ \A o \in Org(F) : o <= m
    BY <1>1, <1>3, MaxIs
  <2> HIDE DEF m
  <2>3. m \in Pages /\ m \in Nat /\ FirstPage <= m
    BY <1>1, <2>2, PagesAre
  <2>4. EndOf(F, m) \in Nat /\ m < EndOf(F, m)
    BY <1>1, <2>3, SizeIs
  <2>5. \A p \in Pages : EndOf(F, m) <= p => ~HasMagic(F, p)
    BY <2>2, NothingAfter
  <2>6. ASSUME NEW o \in Pages, IsMeta(F, o)
        PROVE  o < EndOf(F, m) /\ EndOf(F, o) <= EndOf(F, m)
    <3>1. o <= m /\ o \in Nat /\ EndOf(F, o) \in Nat
      BY <2>2, <2>6, MetasAreOrigins, PagesAre, <1>1, SizeIs
    <3>2. o < m => EndOf(F, o) <= m
      BY <2>2, <2>6 DEF Org
    <3> QED
      BY <3>1, <3>2, <2>3, <2>4
  <2> QED
    BY <2>1, <2>3, <2>4, <2>5, <2>6, Sizes
<1> QED
  BY <1>2, <1>3

LEMMA LastFileIs ==
    ASSUME AlikeFits, NEW F, FlashOK(F), NEW o \in Pages, IsMeta(F, o),
           o = Max(Origins(F))
    PROVE  /\ \A p \in Pages : EndOf(F, o) <= p => ~HasMagic(F, p)
           /\ \A p \in Pages : o < p => ~IsMeta(F, p)
<1>1. Origins(F) = Org(F) /\ Org(F) \subseteq Pages
  BY OriginsAre DEF Org
<1>2. o \in Org(F) /\ \A q \in Org(F) : q <= o
  BY <1>1, MetasAreOrigins, MaxIs
<1>3. \A p \in Pages : EndOf(F, o) <= p => ~HasMagic(F, p)
  BY <1>2, NothingAfter
<1>4. ASSUME NEW p \in Pages, o < p PROVE ~IsMeta(F, p)
  <2>1. p \in Nat /\ o \in Nat
    BY PagesAre
  <2> QED
    BY <1>2, <1>4, <2>1, MetasAreOrigins
<1> QED
  BY <1>3, <1>4

---------------------------------------------------------------------------
(* Flashes that hold the same *)

Agree(F, G, a, b) == \A q \in Pages : a <= q /\ q < b => G[q] = F[q]

LEMMA HoldsKept ==
    ASSUME NEW F, NEW G, NEW o \in Pages, NEW s \in Nat, NEW n,
           o + PageCount(s) <= EndPage, Agree(F, G, o, o + PageCount(s)), Holds(F, o, n, s)
    PROVE  Holds(G, o, n, s)
<1>1. SUFFICES ASSUME NEW k \in 0..(s - 1)
               PROVE  G[o + PageOf(k)][PosOf(k)] = Byte(n, k)
  BY DEF Holds
<1>2. PageOf(k) \in Nat /\ PageOf(k) < PageCount(s) /\ PageCount(s) \in Nat
  <2>1. k \in Nat
    OBVIOUS
  <2>2. PageOf(k) \in Nat
    BY <2>1, Place
  <2>3. PageOf(k) < PageCount(s)
    BY PlaceInCount
  <2>4. PageCount(s) \in Nat
    BY Counts
  <2> QED
    BY <2>2, <2>3, <2>4
<1>3. o \in Nat /\ FirstPage <= o /\ EndPage \in Nat /\ FirstPage \in Nat
  BY PagesAre, Sizes
<1>4. o + PageOf(k) \in Pages
  BY <1>2, <1>3, PagesAre
<1>5. G[o + PageOf(k)] = F[o + PageOf(k)]
  BY <1>2, <1>3, <1>4 DEF Agree
<1> QED
  BY <1>5 DEF Holds

\* In G, page o still begins the file that it began in F.
Stays(F, G, o) ==
    /\ G[o][0] = F[o][0]
    /\ \A i \in 1..(MetaBytes - 1) : G[o][i] = Zero
    /\ Holds(G, o, NameAt(F, o), SizeAt(F, o))

LEMMA SameMetaIs ==
    ASSUME NEW F, NEW G, NEW o, G[o][0] = F[o][0]
    PROVE  /\ NameAt(G, o) = NameAt(F, o) /\ SizeAt(G, o) = SizeAt(F, o)
           /\ EndOf(G, o) = EndOf(F, o)
           /\ IsMeta(G, o) <=> IsMeta(F, o)
           /\ HasMagic(G, o) <=> HasMagic(F, o)
<1>1. NameAt(G, o) = NameAt(F, o) /\ SizeAt(G, o) = SizeAt(F, o)
  BY DEF NameAt, SizeAt
<1> QED
  BY <1>1 DEF EndOf, IsMeta, HasMagic

LEMMA AgreeStays ==
    ASSUME NEW F, FlashOK(F), NEW G, NEW o \in Pages, IsMeta(F, o),
           Agree(F, G, o, EndOf(F, o))
    PROVE  Stays(F, G, o)
<1>1. FileAt(F, o) /\ F \in [Pages -> PageData]
  BY DEF FlashOK
<1>2. o < EndOf(F, o) /\ o <= o /\ SizeAt(F, o) \in Nat
      /\ EndOf(F, o) = o + PageCount(SizeAt(F, o))
  BY <1>1, SizeIs, PagesAre
<1>3. G[o] = F[o]
  BY <1>2 DEF Agree
<1>4. Holds(G, o, NameAt(F, o), SizeAt(F, o))
  BY <1>1, <1>2, HoldsKept DEF FileAt
<1> QED
  BY <1>1, <1>3, <1>4 DEF Stays, FileAt

\* A flash in which every file is one that was there before.
LEMMA FlashStays ==
    ASSUME NEW F, FlashOK(F), NEW G \in [Pages -> PageData],
           \A o \in Pages : IsMeta(G, o) => IsMeta(F, o) /\ Stays(F, G, o)
    PROVE  FlashOK(G)
<1>1. \A o \in Pages : IsMeta(G, o) =>
          /\ IsMeta(F, o) /\ FileAt(F, o) /\ Stays(F, G, o)
          /\ NameAt(G, o) = NameAt(F, o) /\ SizeAt(G, o) = SizeAt(F, o)
          /\ EndOf(G, o) = EndOf(F, o)
  <2>1. SUFFICES ASSUME NEW o \in Pages, IsMeta(G, o)
                 PROVE  /\ IsMeta(F, o) /\ FileAt(F, o) /\ Stays(F, G, o)
                        /\ NameAt(G, o) = NameAt(F, o) /\ SizeAt(G, o) = SizeAt(F, o)
                        /\ EndOf(G, o) = EndOf(F, o)
    OBVIOUS
  <2>2. G[o][0] = F[o][0]
    BY <2>1 DEF Stays
  <2> QED
    BY <2>1, <2>2, SameMetaIs DEF FlashOK
<1>2. ASSUME NEW o \in Pages, IsMeta(G, o) PROVE FileAt(G, o)
  BY <1>1, <1>2 DEF FileAt, Stays
<1>3. Apart(G)
  BY <1>1 DEF FlashOK, Apart
<1>4. OneEach(G)
  BY <1>1 DEF FlashOK, OneEach
<1> QED
  BY <1>2, <1>3, <1>4 DEF FlashOK

\* A flash in which one file is new or has a new size, after all the others.
LEMMA FlashGrows ==
    ASSUME NEW F, FlashOK(F), NEW G \in [Pages -> PageData], NEW o \in Pages,
           \A p \in Pages : IsMeta(G, p) /\ p # o => IsMeta(F, p) /\ Stays(F, G, p),
           \A p \in Pages : IsMeta(F, p) /\ p # o =>
               /\ p < o /\ EndOf(F, p) <= o /\ NameAt(F, p) # NameAt(G, o),
           FileAt(G, o)
    PROVE  FlashOK(G)
<1>1. \A p \in Pages : IsMeta(G, p) /\ p # o =>
          /\ IsMeta(F, p) /\ FileAt(F, p) /\ Stays(F, G, p)
          /\ NameAt(G, p) = NameAt(F, p) /\ SizeAt(G, p) = SizeAt(F, p)
          /\ EndOf(G, p) = EndOf(F, p)
  <2>1. SUFFICES ASSUME NEW p \in Pages, IsMeta(G, p), p # o
                 PROVE  /\ IsMeta(F, p) /\ FileAt(F, p) /\ Stays(F, G, p)
                        /\ NameAt(G, p) = NameAt(F, p) /\ SizeAt(G, p) = SizeAt(F, p)
                        /\ EndOf(G, p) = EndOf(F, p)
    OBVIOUS
  <2>2. G[p][0] = F[p][0]
    BY <2>1 DEF Stays
  <2> QED
    BY <2>1, <2>2, SameMetaIs DEF FlashOK
<1>2. ASSUME NEW p \in Pages, IsMeta(G, p) PROVE FileAt(G, p)
  <2>1. CASE p = o
    BY <2>1
  <2>2. CASE p # o
    BY <1>1, <1>2, <2>2 DEF FileAt, Stays
  <2> QED
    BY <2>1, <2>2
<1>3. Apart(G)
  <2>1. SUFFICES ASSUME NEW p \in Pages, NEW q \in Pages, IsMeta(G, p), IsMeta(G, q), p < q
                 PROVE  EndOf(G, p) <= q
    BY DEF Apart
  <2>2. p \in Nat /\ q \in Nat /\ o \in Nat
    BY PagesAre
  <2>3. p # o
    BY <1>1, <2>1, <2>2
  <2>4. CASE q = o
    BY <1>1, <2>1, <2>3, <2>4
  <2>5. CASE q # o
    BY <1>1, <2>1, <2>3, <2>5 DEF FlashOK, Apart
  <2> QED
    BY <2>4, <2>5
<1>4. OneEach(G)
  <2>1. SUFFICES ASSUME NEW p \in Pages, NEW q \in Pages, IsMeta(G, p), IsMeta(G, q),
                        NameAt(G, p) = NameAt(G, q)
                 PROVE  p = q
    BY DEF OneEach
  <2>2. CASE p # o /\ q # o
    BY <1>1, <2>1, <2>2 DEF FlashOK, OneEach
  <2>3. CASE p = o \/ q = o
    BY <1>1, <2>1, <2>3
  <2> QED
    BY <2>2, <2>3
<1> QED
  BY <1>2, <1>3, <1>4 DEF FlashOK

---------------------------------------------------------------------------
(* The files on the flash *)

Content(n, s) == [k \in 1..s |-> Byte(n, k - 1)]

NamesOn(F) == {NameAt(F, o) : o \in {p \in Pages : IsMeta(F, p)}}

\* The files that the flash F holds are fs.
AreFiles(F, fs) ==
    /\ fs = [n \in NamesOn(F) |-> fs[n]]
    /\ \A o \in Pages : IsMeta(F, o) =>
           fs[NameAt(F, o)] = Content(NameAt(F, o), SizeAt(F, o))

LEMMA FoundIs ==
    ASSUME AlikeFits
    PROVE  FlashOK(flash) => AreFiles(flash, Found)
<1>1. SUFFICES ASSUME FlashOK(flash) PROVE AreFiles(flash, Found)
  OBVIOUS
<1> DEFINE dom == Name \cap {NameAt(flash, o) : o \in Origins(flash)}
           first(n) == Min(OriginsOf(flash, n))
<1>2. Found = [n \in dom |-> [k \in 1..SizeAt(flash, first(n)) |-> ByteAt(first(n), k - 1)]]
  BY DEF Found, OriginsOf
<1>3. dom = NamesOn(flash)
  <2>1. Origins(flash) = Org(flash) /\ Org(flash) \subseteq Pages
    BY <1>1, OriginsAre DEF Org
  <2>2. \A o \in Pages : IsMeta(flash, o) => o \in Org(flash) /\ NameAt(flash, o) \in Name
    BY <1>1, MetasAreOrigins DEF FlashOK, FileAt
  <2>3. \A o \in Pages : ~IsMeta(flash, o) => NameAt(flash, o) \notin Name
    BY NamesAre DEF NameAt, IsMeta
  <2> QED
    BY <2>1, <2>2, <2>3 DEF NamesOn
<1>4. ASSUME NEW o \in Pages, IsMeta(flash, o)
      PROVE  Found[NameAt(flash, o)] = Content(NameAt(flash, o), SizeAt(flash, o))
  <2> DEFINE n == NameAt(flash, o)
             s == SizeAt(flash, o)
  <2>1. first(n) = o /\ n \in dom
    BY <1>1, <1>3, <1>4, OriginOfIs DEF NamesOn
  <2>2. Found[n] = [k \in 1..s |-> ByteAt(o, k - 1)]
    <3> HIDE DEF dom, first, n
    <3>1. Found[n] = [k \in 1..SizeAt(flash, first(n)) |-> ByteAt(first(n), k - 1)]
      BY <1>2, <2>1
    <3> QED
      BY <2>1, <3>1
  <2>3. FileAt(flash, o) /\ flash \in [Pages -> PageData]
    BY <1>1, <1>4 DEF FlashOK
  <2>4. s \in Nat /\ EndOf(flash, o) <= EndPage /\ EndOf(flash, o) = o + PageCount(s)
    BY <2>3, SizeIs DEF FileAt
  <2>5. Holds(flash, o, n, s)
    BY <2>3 DEF FileAt
  <2> HIDE DEF n, s, dom, first
  <2>6. ASSUME NEW k \in 1..s PROVE ByteAt(o, k - 1) = Byte(n, k - 1)
    <3>1. k - 1 \in 0..(s - 1) /\ k - 1 \in Nat
      BY <2>4
    <3>2. /\ PageOf(k - 1) \in Nat /\ PageOf(k - 1) < PageCount(s) /\ PageCount(s) \in Nat
      BY <3>1, <2>4, Place, PlaceInCount, Counts
    <3>3. o \in Nat /\ FirstPage <= o /\ EndPage \in Nat /\ FirstPage \in Nat
      BY PagesAre, Sizes
    <3>4. o + PageOf(k - 1) \in Pages
      BY <3>2, <3>3, <2>4, PagesAre
    <3>5. ByteAt(o, k - 1) = flash[o + PageOf(k - 1)][PosOf(k - 1)]
      BY <3>4 DEF ByteAt, PageOf, PosOf
    <3> QED
      BY <3>1, <3>5, <2>5 DEF Holds
  <2> QED
    BY <2>2, <2>6 DEF Content, n, s
<1>5. Found = [n \in NamesOn(flash) |-> Found[n]]
  <2> HIDE DEF first
  <2> QED
    BY <1>2, <1>3
<1> QED
  BY <1>4, <1>5 DEF AreFiles

LEMMA SameFiles ==
    ASSUME NEW F, NEW G, NEW fs, NEW gs, AreFiles(F, fs), AreFiles(G, gs),
           \A o \in Pages : IsMeta(F, o) \/ IsMeta(G, o) => G[o][0] = F[o][0]
    PROVE  gs = fs
<1>1. \A o \in Pages : IsMeta(F, o) \/ IsMeta(G, o) =>
          /\ IsMeta(F, o) /\ IsMeta(G, o)
          /\ NameAt(G, o) = NameAt(F, o) /\ SizeAt(G, o) = SizeAt(F, o)
  BY SameMetaIs
<1>2. NamesOn(G) = NamesOn(F)
  BY <1>1 DEF NamesOn
<1>3. ASSUME NEW n \in NamesOn(F) PROVE gs[n] = fs[n]
  <2>1. PICK o \in Pages : IsMeta(F, o) /\ NameAt(F, o) = n
    BY DEF NamesOn
  <2> QED
    BY <2>1, <1>1 DEF AreFiles
<1>4. fs = [n \in NamesOn(F) |-> fs[n]] /\ gs = [n \in NamesOn(F) |-> gs[n]]
  BY <1>2 DEF AreFiles
<1> QED
  BY <1>3, <1>4

LEMMA CreatesFile ==
    ASSUME NEW F, NEW G, NEW fs, NEW gs, AreFiles(F, fs), AreFiles(G, gs),
           NEW o \in Pages, ~IsMeta(F, o), NEW n \in Name, n \notin NamesOn(F),
           G[o][0] = Meta(n, 0),
           \A p \in Pages : p # o /\ (IsMeta(F, p) \/ IsMeta(G, p)) => G[p][0] = F[p][0]
    PROVE  Store!Create(n, fs, gs)
<1>1. IsMeta(G, o) /\ NameAt(G, o) = n /\ SizeAt(G, o) = 0
  BY DEF IsMeta, NameAt, SizeAt, Meta
<1>2. \A p \in Pages : p # o /\ (IsMeta(F, p) \/ IsMeta(G, p)) =>
          /\ IsMeta(F, p) /\ IsMeta(G, p)
          /\ NameAt(G, p) = NameAt(F, p) /\ SizeAt(G, p) = SizeAt(F, p)
  BY SameMetaIs
<1>3. NamesOn(G) = NamesOn(F) \cup {n}
  BY <1>1, <1>2 DEF NamesOn
<1>4. ASSUME NEW m \in NamesOn(F) PROVE gs[m] = fs[m]
  <2>1. PICK p \in Pages : IsMeta(F, p) /\ NameAt(F, p) = m
    BY DEF NamesOn
  <2> QED
    BY <2>1, <1>2 DEF AreFiles
<1>5. gs[n] = <<>>
  <2>1. gs[n] = Content(n, 0)
    BY <1>1 DEF AreFiles
  <2> QED
    BY <2>1 DEF Content
<1>6. fs = [m \in NamesOn(F) |-> fs[m]] /\ gs = [m \in NamesOn(G) |-> gs[m]]
  BY DEF AreFiles
<1>7. DOMAIN fs = NamesOn(F)
  BY <1>6
<1>8. gs = [m \in NamesOn(F) \cup {n} |-> IF m = n THEN <<>> ELSE fs[m]]
  BY <1>3, <1>4, <1>5, <1>6
<1> QED
  BY <1>7, <1>8 DEF Store!Create, Store!With

LEMMA ContentIs ==
    ASSUME NEW n, NEW s \in Nat, NEW t \in Nat, s <= t
    PROVE  /\ Len(Content(n, s)) = s /\ Len(Content(n, t)) = t
           /\ SubSeq(Content(n, t), 1, s) = Content(n, s)
<1>1. \A u \in Nat : Len(Content(n, u)) = u /\ DOMAIN Content(n, u) = 1..u
  BY DEF Content
<1>2. SubSeq(Content(n, t), 1, s) = [i \in 1..s |-> Content(n, t)[i]]
  OBVIOUS
<1>3. \A i \in 1..s : Content(n, t)[i] = Byte(n, i - 1)
  BY DEF Content
<1>4. SubSeq(Content(n, t), 1, s) = [i \in 1..s |-> Byte(n, i - 1)]
  BY <1>2, <1>3
<1> QED
  BY <1>1, <1>4 DEF Content

LEMMA SavesFile ==
    ASSUME NEW F, NEW G, NEW fs, NEW gs, AreFiles(F, fs), AreFiles(G, gs), OneEach(F),
           NEW o \in Pages, IsMeta(F, o), NEW t \in Nat,
           SizeAt(F, o) \in Nat, SizeAt(F, o) <= t,
           G[o][0] = Meta(NameAt(F, o), t),
           \A p \in Pages : p # o /\ (IsMeta(F, p) \/ IsMeta(G, p)) => G[p][0] = F[p][0]
    PROVE  Store!Save(NameAt(F, o), fs, gs)
<1> DEFINE n == NameAt(F, o)
<1>1. IsMeta(G, o) /\ NameAt(G, o) = n /\ SizeAt(G, o) = t
  BY DEF IsMeta, NameAt, SizeAt, Meta
<1>2. \A p \in Pages : p # o /\ (IsMeta(F, p) \/ IsMeta(G, p)) =>
          /\ IsMeta(F, p) /\ IsMeta(G, p)
          /\ NameAt(G, p) = NameAt(F, p) /\ SizeAt(G, p) = SizeAt(F, p)
  BY SameMetaIs
<1>3. NamesOn(G) = NamesOn(F) /\ n \in NamesOn(F)
  BY <1>1, <1>2 DEF NamesOn
<1>4. ASSUME NEW m \in NamesOn(F), m # n PROVE gs[m] = fs[m]
  <2>1. PICK p \in Pages : IsMeta(F, p) /\ NameAt(F, p) = m
    BY DEF NamesOn
  <2>2. p # o
    BY <2>1, <1>4
  <2> QED
    BY <2>1, <2>2, <1>2 DEF AreFiles
<1>5. gs[n] = Content(n, t) /\ fs[n] = Content(n, SizeAt(F, o))
  BY <1>1 DEF AreFiles
<1> HIDE DEF n
<1>6. /\ Len(gs[n]) = t /\ Len(fs[n]) = SizeAt(F, o)
      /\ SubSeq(gs[n], 1, Len(fs[n])) = fs[n]
  BY <1>5, ContentIs
<1>7. fs = [m \in NamesOn(F) |-> fs[m]] /\ gs = [m \in NamesOn(F) |-> gs[m]]
  BY <1>3 DEF AreFiles
<1>8. DOMAIN fs = NamesOn(F) /\ DOMAIN gs = NamesOn(F) /\ NamesOn(F) \cup {n} = NamesOn(F)
  BY <1>3, <1>7
<1>9. gs = [m \in NamesOn(F) |-> IF m = n THEN gs[n] ELSE fs[m]]
  BY <1>4, <1>7
<1>10. gs = Store!With(fs, n, gs[n])
  BY <1>8, <1>9 DEF Store!With
<1> QED
  BY <1>3, <1>6, <1>8, <1>10 DEF Store!Save, n

LEMMA RemovesFile ==
    ASSUME NEW F, NEW G, NEW fs, NEW gs, AreFiles(F, fs), AreFiles(G, gs), OneEach(F),
           NEW o \in Pages, IsMeta(F, o), ~IsMeta(G, o),
           \A p \in Pages : p # o /\ (IsMeta(F, p) \/ IsMeta(G, p)) => G[p][0] = F[p][0]
    PROVE  Store!Remove(NameAt(F, o), fs, gs)
<1> DEFINE n == NameAt(F, o)
<1>2. \A p \in Pages : p # o /\ (IsMeta(F, p) \/ IsMeta(G, p)) =>
          /\ IsMeta(F, p) /\ IsMeta(G, p)
          /\ NameAt(G, p) = NameAt(F, p) /\ SizeAt(G, p) = SizeAt(F, p)
  BY SameMetaIs
<1>3. n \in NamesOn(F)
  BY DEF NamesOn
<1>4. NamesOn(G) = NamesOn(F) \ {n}
  <2>1. ASSUME NEW m \in NamesOn(G) PROVE m \in NamesOn(F) /\ m # n
    <3>1. PICK p \in Pages : IsMeta(G, p) /\ NameAt(G, p) = m
      BY DEF NamesOn
    <3>2. p # o /\ IsMeta(F, p) /\ NameAt(F, p) = m
      BY <3>1, <1>2
    <3> QED
      BY <3>2 DEF NamesOn, OneEach
  <2>2. ASSUME NEW m \in NamesOn(F), m # n PROVE m \in NamesOn(G)
    <3>1. PICK p \in Pages : IsMeta(F, p) /\ NameAt(F, p) = m
      BY DEF NamesOn
    <3> QED
      BY <3>1, <2>2, <1>2 DEF NamesOn
  <2> QED
    BY <2>1, <2>2
<1>5. ASSUME NEW m \in NamesOn(G) PROVE gs[m] = fs[m]
  <2>1. PICK p \in Pages : IsMeta(G, p) /\ NameAt(G, p) = m
    BY DEF NamesOn
  <2> QED
    BY <2>1, <1>2 DEF AreFiles
<1> HIDE DEF n
<1>6. fs = [m \in NamesOn(F) |-> fs[m]] /\ gs = [m \in NamesOn(G) |-> gs[m]]
  BY DEF AreFiles
<1>7. DOMAIN fs = NamesOn(F)
  BY <1>6
<1>8. gs = [m \in NamesOn(F) \ {n} |-> fs[m]]
  BY <1>4, <1>5, <1>6
<1> QED
  BY <1>3, <1>7, <1>8 DEF Store!Remove, n

---------------------------------------------------------------------------
(* The invariant *)

FileType ==
    [used : BOOLEAN, name : Seq(STRING), origin : 0..EndPage, size : Nat,
     rpage : 0..EndPage, rpos : 0..PageBytes, rdata : PageData,
     wpage : 0..EndPage, wpos : 0..PageBytes, wdata : PageData]

ClientType ==
    [name : Name \cup {NoName}, mode : {"none", "read", "write"}, next : 0..MaxSize]

\* A descriptor that reads: its position is the program's, and what it caches
\* is what is on the flash; nx_fs_close will write back what is there.
Reading(F, file, c) ==
    /\ file.origin \in Pages
    /\ F[file.origin][0] = Meta(c.name, file.size)
    /\ c.next <= file.size
    /\ file.origin <= file.rpage
    /\ (file.rpage - file.origin) * PageBytes + file.rpos = MetaBytes + c.next
    /\ file.rpage < EndOf(F, file.origin) => file.rdata = F[file.rpage]
    /\ file.wpage = file.origin /\ file.wdata = F[file.origin]

\* Byte k of a file that is written: in the buffer, or already on the flash.
Written(F, file, k) ==
    IF file.origin + PageOf(k) = file.wpage THEN file.wdata[PosOf(k)]
    ELSE F[file.origin + PageOf(k)][PosOf(k)]

\* A descriptor that writes: its file is the last one on the flash, what the
\* program has written is in the buffer or on the flash, and the position is
\* the one after it.
Writing(F, file, c) ==
    /\ file.origin \in Pages
    /\ IsMeta(F, file.origin) /\ NameAt(F, file.origin) = c.name
    /\ SizeAt(F, file.origin) <= c.next /\ file.size = c.next
    /\ file.origin <= file.wpage /\ 1 <= file.wpos
    /\ (file.wpage - file.origin) * PageBytes + file.wpos = MetaBytes + file.size
    /\ \A k \in 0..(file.size - 1) : Written(F, file, k) = Byte(c.name, k)
    /\ file.wpage = file.origin =>
           \A i \in 0..(MetaBytes - 1) : file.wdata[i] = F[file.origin][i]
    /\ file.wpage # file.origin => file.wdata[0].kind # "meta"
    /\ \A p \in Pages : file.origin < p => ~IsMeta(F, p)
    /\ \A p \in Pages : file.wpage < p => ~HasMagic(F, p)

FdOK(F, E, file, c) ==
    /\ file.used <=> c.mode # "none"
    /\ file.used => file.name = c.name /\ c.name \in Name
    /\ ~file.used => file.name \in Name \cup {NoName} /\ c.name = NoName
    /\ c.mode = "read" => Reading(F, file, c) /\ file.origin \notin E
    /\ c.mode = "write" => Writing(F, file, c) /\ \A p \in E : p < file.origin

\* The pages of a file are erased after its origin.
ErasingOK(F, E) ==
    \A p \in E, o \in Pages : IsMeta(F, o) /\ o <= p /\ p < EndOf(F, o) => o \in E

\* Nobody else uses the file that is written, and one file is written at most.
Alone(C) ==
    \A f, g \in Fd : C[f].mode = "write" =>
        /\ C[g].mode # "none" /\ C[f].name = C[g].name => f = g
        /\ C[g].mode = "write" => f = g

Inv(F, S, C, E) ==
    /\ S \in [Fd -> FileType] /\ C \in [Fd -> ClientType]
    /\ E \subseteq Pages
    /\ FlashOK(F)
    /\ \A fd \in Fd : FdOK(F, E, S[fd], C[fd])
    /\ ErasingOK(F, E)
    /\ Alone(C)

FsInv == Inv(flash, fdset, client, erasing) /\ halted \in BOOLEAN

---------------------------------------------------------------------------
(* A descriptor that reads *)

LEMMA FileFields ==
    ASSUME NEW file \in FileType
    PROVE  /\ file.used \in BOOLEAN /\ file.name \in Seq(STRING)
           /\ file.origin \in Nat /\ file.origin <= EndPage /\ file.size \in Nat
           /\ file.rpage \in Nat /\ file.rpage <= EndPage
           /\ file.rpos \in Nat /\ file.rpos <= PageBytes
           /\ file.wpage \in Nat /\ file.wpage <= EndPage
           /\ file.wpos \in Nat /\ file.wpos <= PageBytes
           /\ file.rdata \in PageData /\ file.wdata \in PageData
BY Sizes DEF FileType

LEMMA ClientFields ==
    ASSUME NEW c \in ClientType
    PROVE  c.name \in Name \cup {NoName} /\ c.mode \in {"none", "read", "write"}
           /\ c.next \in Nat /\ c.next <= MaxSize
BY Sizes DEF ClientType

LEMMA MetaIs ==
    ASSUME NEW F \in [Pages -> PageData], NEW o \in Pages, IsMeta(F, o)
    PROVE  F[o][0] = Meta(NameAt(F, o), SizeAt(F, o))
BY KindIs DEF IsMeta, NameAt, SizeAt, Meta, Slots

LEMMA MetaSays ==
    ASSUME NEW F, NEW o, NEW n, NEW s, F[o][0] = Meta(n, s)
    PROVE  IsMeta(F, o) /\ NameAt(F, o) = n /\ SizeAt(F, o) = s
           /\ EndOf(F, o) = o + PageCount(s)
BY DEF IsMeta, NameAt, SizeAt, EndOf, Meta

\* The file of a descriptor that reads.
LEMMA ReadingFile ==
    ASSUME NEW F, FlashOK(F), NEW file \in FileType, NEW c \in ClientType,
           Reading(F, file, c)
    PROVE  /\ IsMeta(F, file.origin) /\ NameAt(F, file.origin) = c.name
           /\ SizeAt(F, file.origin) = file.size
           /\ EndOf(F, file.origin) = file.origin + PageCount(file.size)
           /\ EndOf(F, file.origin) <= EndPage /\ EndOf(F, file.origin) \in Nat
           /\ Holds(F, file.origin, c.name, file.size)
           /\ file.size <= MaxSize
<1>1. /\ IsMeta(F, file.origin) /\ NameAt(F, file.origin) = c.name
      /\ SizeAt(F, file.origin) = file.size
      /\ EndOf(F, file.origin) = file.origin + PageCount(file.size)
      /\ file.origin \in Pages
  BY MetaSays DEF Reading
<1>2. FileAt(F, file.origin) /\ EndOf(F, file.origin) \in Nat
  BY <1>1, SizeIs DEF FlashOK
<1> QED
  BY <1>1, <1>2, Sizes DEF FileAt

\* The place of the next byte of a descriptor that reads, in its file.
LEMMA ReadingNext ==
    ASSUME NEW F, FlashOK(F), NEW file \in FileType, NEW c \in ClientType,
           Reading(F, file, c), c.next < file.size
    PROVE  /\ ~AtEnd(file)
           /\ PageOf(c.next) < PageCount(file.size)
           /\ TurnsPage(file) => /\ file.origin + PageOf(c.next) = file.rpage + 1
                                 /\ PosOf(c.next) = 0
           /\ ~TurnsPage(file) => /\ file.origin + PageOf(c.next) = file.rpage
                                  /\ PosOf(c.next) = file.rpos
           /\ file.origin + PageOf(c.next) \in Pages
           /\ file.origin + PageOf(c.next) < EndOf(F, file.origin)
           /\ F[file.origin + PageOf(c.next)][PosOf(c.next)] = Byte(c.name, c.next)
<1> DEFINE n == c.next
           s == file.size
           o == file.origin
           r == file.rpage
           i == file.rpos
<1>1. /\ n \in Nat /\ s \in Nat /\ o \in Nat /\ r \in Nat /\ i \in Nat /\ i <= PageBytes
      /\ n < s /\ o <= r
      /\ (r - o) * PageBytes + i = MetaBytes + n
      /\ FirstPage <= o /\ o + PageCount(s) <= EndPage
      /\ EndOf(F, o) = o + PageCount(s)
  BY FileFields, ClientFields, ReadingFile, PagesAre DEF Reading
<1>2. Holds(F, o, c.name, s)
  BY ReadingFile
<1>3. AtEnd(file) <=> (r - o) * PageBytes + i > MetaBytes + s
  BY DEF AtEnd
<1>4. TurnsPage(file) <=> i = PageBytes
  BY DEF TurnsPage
<1> HIDE DEF n, s, o, r, i
<1>5. /\ MetaBytes \in Nat /\ PageBytes \in Nat \ {0} /\ r - o \in Nat
      /\ FirstPage \in Nat /\ EndPage \in Nat
  BY <1>1, Sizes
<1>6. ~AtEnd(file)
  BY <1>1, <1>3, <1>5
<1>7. n \in 0..(s - 1)
  BY <1>1
<1>8. PageOf(n) < PageCount(s) /\ PageOf(n) \in Nat /\ PageCount(s) \in Nat
  BY <1>1, <1>7, PlaceInCount, Place, Counts
<1>9. ASSUME i = PageBytes PROVE o + PageOf(n) = r + 1 /\ PosOf(n) = 0
  <2>1. (r - o + 1) * PageBytes = (r - o) * PageBytes + PageBytes
    BY <1>5
  <2>2. n + MetaBytes = (r - o + 1) * PageBytes + 0
    BY <2>1, <1>1, <1>5, <1>9
  <2>3. r - o + 1 \in Nat /\ 0 \in 0..(PageBytes - 1)
    BY <1>5
  <2>4. PageOf(n) = r - o + 1 /\ PosOf(n) = 0
    BY <2>2, <2>3, <1>1, PlaceIs
  <2> QED
    BY <2>4, <1>1
<1>10. ASSUME i # PageBytes PROVE o + PageOf(n) = r /\ PosOf(n) = i
  <2>1. i \in 0..(PageBytes - 1)
    BY <1>1, <1>5, <1>10
  <2>2. n + MetaBytes = (r - o) * PageBytes + i
    BY <1>1, <1>5
  <2>3. PageOf(n) = r - o /\ PosOf(n) = i
    BY <2>1, <2>2, <1>1, <1>5, PlaceIs
  <2> QED
    BY <2>3, <1>1
<1>11. o + PageOf(n) < o + PageCount(s)
  BY <1>1, <1>8
<1>12. o + PageOf(n) \in Pages
  BY <1>1, <1>5, <1>8, PagesAre
<1>13. F[o + PageOf(n)][PosOf(n)] = Byte(c.name, n)
  BY <1>2, <1>7 DEF Holds
<1> QED
  BY <1>1, <1>4, <1>6, <1>8, <1>9, <1>10, <1>11, <1>12, <1>13 DEF n, s, o, r, i

\* What a descriptor reads does not change while its file stays.
LEMMA ReadingKept ==
    ASSUME NEW F, FlashOK(F), NEW G, NEW file \in FileType, NEW c \in ClientType,
           Reading(F, file, c), Agree(F, G, file.origin, EndOf(F, file.origin))
    PROVE  Reading(G, file, c)
<1> DEFINE o == file.origin
<1>0. o \in Pages /\ F \in [Pages -> PageData] /\ EndOf(F, o) <= EndPage
  BY ReadingFile DEF Reading, FlashOK
<1> HIDE DEF o
<1>1. /\ o \in Pages /\ o <= o /\ o < EndOf(F, o) /\ EndOf(F, o) <= EndPage
      /\ EndOf(F, o) \in Nat /\ o \in Nat
  BY <1>0, SizeIs, PagesAre
<1>2. G[o] = F[o]
  BY <1>1 DEF Agree, o
<1>3. EndOf(G, o) = EndOf(F, o)
  BY <1>2, SameMetaIs
<1>4. file.rpage \in Nat /\ o <= file.rpage /\ FirstPage <= o /\ EndPage \in Nat /\ FirstPage \in Nat
  BY <1>1, FileFields, PagesAre, Sizes DEF Reading, o
<1>5. file.rpage < EndOf(F, o) => file.rpage \in Pages
  BY <1>1, <1>4, PagesAre
<1>6. file.rpage < EndOf(F, o) => G[file.rpage] = F[file.rpage]
  BY <1>4, <1>5 DEF Agree, o
<1> QED
  BY <1>2, <1>3, <1>6 DEF Reading, o

\* Every name of the program is as long as any other.
OneLength == \A m, n \in Name : Len(m) = Len(n)

\* A name over one that is no longer leaves nothing of the old one.
LEMMA CopiedNameIs ==
    ASSUME OneLength, NEW n \in Name, NEW old \in Name \cup {NoName}
    PROVE  CopiedName(n, old) = n
<1>1. n \in Seq(STRING) /\ old \in Seq(STRING)
  BY NamesAre
<1>2. Len(n) \in Nat /\ Len(old) \in Nat /\ Len(old) <= Len(n)
  BY <1>1, NamesAre DEF OneLength
<1>3. SubSeq(old, Len(n) + 1, Len(old)) = <<>>
  BY <1>1, <1>2
<1>4. n \o <<>> = n
  BY <1>1
<1> QED
  BY <1>3, <1>4 DEF CopiedName

LEMMA OpenedIs ==
    ASSUME OneLength, NEW F \in [Pages -> PageData], NEW slot,
           fdset[slot].name \in Name \cup {NoName},
           NEW o \in Pages, NameAt(F, o) \in Name,
           NEW rp \in Pages, NEW ri \in 0..PageBytes,
           NEW wp \in Pages, NEW wi \in 0..PageBytes
    PROVE  /\ Opened(F, slot, o, rp, ri, wp, wi) \in FileType
           /\ Opened(F, slot, o, rp, ri, wp, wi) =
                  [used |-> TRUE, name |-> NameAt(F, o), origin |-> o, size |-> SizeAt(F, o),
                   rpage |-> rp, rpos |-> ri, rdata |-> F[rp],
                   wpage |-> wp, wpos |-> wi, wdata |-> F[wp]]
<1>1. CopiedName(NameAt(F, o), fdset[slot].name) = NameAt(F, o)
  BY CopiedNameIs
<1>2. SizeAt(F, o) \in Nat /\ NameAt(F, o) \in Seq(STRING)
  BY SizeIs, NamesAre
<1>3. Pages \subseteq 0..EndPage
  BY Sizes DEF Pages
<1>4. F[rp] \in PageData /\ F[wp] \in PageData
  OBVIOUS
<1>5. Opened(F, slot, o, rp, ri, wp, wi) =
          [used |-> TRUE, name |-> NameAt(F, o), origin |-> o, size |-> SizeAt(F, o),
           rpage |-> rp, rpos |-> ri, rdata |-> F[rp],
           wpage |-> wp, wpos |-> wi, wdata |-> F[wp]]
  BY <1>1 DEF Opened
<1>6. o \in 0..EndPage /\ rp \in 0..EndPage /\ wp \in 0..EndPage
  BY <1>3
<1> QED
  BY <1>2, <1>4, <1>5, <1>6 DEF FileType

\* A file that was just opened is read from its start.
LEMMA OpenReads ==
    ASSUME OneLength, NEW F, FlashOK(F), NEW slot, fdset[slot].name \in Name \cup {NoName},
           NEW o \in Pages, IsMeta(F, o)
    PROVE  LET file == Opened(F, slot, o, o, MetaBytes, o, MetaBytes)
               c == [name |-> NameAt(F, o), mode |-> "read", next |-> 0]
           IN  file \in FileType /\ c \in ClientType /\ FdOK(F, {}, file, c)
<1> DEFINE file == Opened(F, slot, o, o, MetaBytes, o, MetaBytes)
           c == [name |-> NameAt(F, o), mode |-> "read", next |-> 0]
<1>1. F \in [Pages -> PageData] /\ NameAt(F, o) \in Name
  BY DEF FlashOK, FileAt
<1>2. MetaBytes \in 0..PageBytes /\ 0 \in 0..MaxSize /\ o \in Nat /\ PageBytes \in Nat
      /\ MetaBytes \in Nat
  BY Sizes, PagesAre
<1>3. /\ file \in FileType
      /\ file = [used |-> TRUE, name |-> NameAt(F, o), origin |-> o, size |-> SizeAt(F, o),
                 rpage |-> o, rpos |-> MetaBytes, rdata |-> F[o],
                 wpage |-> o, wpos |-> MetaBytes, wdata |-> F[o]]
  BY <1>1, <1>2, OpenedIs
<1>4. c \in ClientType
  BY <1>1, <1>2 DEF ClientType
<1>5. F[o][0] = Meta(NameAt(F, o), SizeAt(F, o)) /\ SizeAt(F, o) \in Nat
  BY <1>1, MetaIs, SizeIs
<1>6. /\ file.used = TRUE /\ file.name = NameAt(F, o) /\ file.origin = o
      /\ file.size = SizeAt(F, o)
      /\ file.rpage = o /\ file.rpos = MetaBytes /\ file.rdata = F[o]
      /\ file.wpage = o /\ file.wdata = F[o]
      /\ c.name = NameAt(F, o) /\ c.mode = "read" /\ c.next = 0
  <2> HIDE DEF file
  <2> QED
    BY <1>3
<1> HIDE DEF file, c
<1>7. (o - o) * PageBytes + MetaBytes = MetaBytes + 0 /\ o <= o /\ 0 <= SizeAt(F, o)
  BY <1>2, <1>5
<1>8. Reading(F, file, c)
  BY <1>5, <1>6, <1>7 DEF Reading
<1>9. FdOK(F, {}, file, c)
  BY <1>1, <1>6, <1>8 DEF FdOK
<1> QED
  BY <1>3, <1>4, <1>9 DEF file, c

\* Reading one byte.
LEMMA ReadReads ==
    ASSUME NEW F, FlashOK(F), NEW file \in FileType, NEW c \in ClientType,
           c.mode = "read", FdOK(F, {}, file, c), c.next < file.size
    PROVE  LET new == IF TurnsPage(file)
                      THEN [file EXCEPT !.rpage = @ + 1, !.rpos = 1,
                                        !.rdata = F[file.rpage + 1]]
                      ELSE [file EXCEPT !.rpos = @ + 1]
               d == [c EXCEPT !.next = @ + 1]
           IN  new \in FileType /\ d \in ClientType /\ FdOK(F, {}, new, d)
<1> DEFINE new == IF TurnsPage(file)
                  THEN [file EXCEPT !.rpage = @ + 1, !.rpos = 1,
                                    !.rdata = F[file.rpage + 1]]
                  ELSE [file EXCEPT !.rpos = @ + 1]
           d == [c EXCEPT !.next = @ + 1]
<1>1. /\ Reading(F, file, c) /\ file.used /\ file.name = c.name /\ c.name \in Name
      /\ F \in [Pages -> PageData]
  BY DEF FdOK, FlashOK
<1>2. /\ file.rpage \in Nat /\ file.rpos \in Nat /\ file.rpos <= PageBytes /\ file.origin \in Nat
      /\ c.next \in Nat /\ c.next <= MaxSize /\ file.size \in Nat /\ file.size <= MaxSize
      /\ file.rpage <= EndPage
  BY <1>1, FileFields, ClientFields, ReadingFile
<1>3. /\ PageBytes \in Nat \ {0} /\ MetaBytes \in Nat /\ EndPage \in Nat /\ MaxSize \in Nat
  BY Sizes
<1>4. d \in ClientType /\ d.next = c.next + 1 /\ d.name = c.name /\ d.mode = c.mode
  <2>1. c.next + 1 \in 0..MaxSize
    BY <1>2, <1>3
  <2> QED
    BY <2>1 DEF ClientType
<1> HIDE DEF d
<1>5. CASE TurnsPage(file)
  <2>1. file.rpage + 1 \in Pages /\ file.rpos = PageBytes
    BY <1>1, <1>5, ReadingNext DEF TurnsPage
  <2>2. file.rpage + 1 \in 0..EndPage /\ 1 \in 0..PageBytes /\ F[file.rpage + 1] \in PageData
    <3>1. file.rpage + 1 < EndPage /\ 1 <= PageBytes
      BY <2>1, <1>2, <1>3, PagesAre
    <3>2. F[file.rpage + 1] \in PageData
      BY <2>1, <1>1
    <3> QED
      BY <3>1, <3>2, <1>2, <1>3
  <2>3. new = [file EXCEPT !.rpage = file.rpage + 1, !.rpos = 1, !.rdata = F[file.rpage + 1]]
    BY <1>5
  <2> HIDE DEF new
  <2>4. /\ new \in FileType
        /\ new.used = file.used /\ new.name = file.name /\ new.origin = file.origin
        /\ new.size = file.size /\ new.wpage = file.wpage /\ new.wdata = file.wdata
        /\ new.rpage = file.rpage + 1 /\ new.rpos = 1 /\ new.rdata = F[file.rpage + 1]
    BY <2>2, <2>3 DEF FileType
  <2>5. (file.rpage + 1 - file.origin) * PageBytes =
            (file.rpage - file.origin) * PageBytes + PageBytes
        /\ (file.rpage - file.origin) * PageBytes \in Int
    BY <1>2, <1>3
  <2>6. (file.rpage + 1 - file.origin) * PageBytes + 1 = MetaBytes + (c.next + 1)
    BY <2>1, <2>5, <1>1, <1>2, <1>3 DEF Reading
  <2>7. c.next + 1 <= file.size /\ file.origin <= file.rpage + 1
    BY <1>1, <1>2 DEF Reading
  <2>8. Reading(F, new, d)
    <3>1. (new.rpage - new.origin) * PageBytes + new.rpos = MetaBytes + d.next
      <4>1. new.rpage - new.origin = file.rpage + 1 - file.origin
        <5>1. new.rpage = file.rpage + 1 /\ new.origin = file.origin
          BY <2>4
        <5> QED
          BY <5>1, <1>2
      <4>2. (new.rpage - new.origin) * PageBytes = (file.rpage + 1 - file.origin) * PageBytes
        BY <4>1
      <4>3. new.rpos = 1 /\ d.next = c.next + 1
        BY <1>4, <2>4
      <4> QED
        BY <4>2, <4>3, <2>6
    <3>2. new.rpage < EndOf(F, new.origin) => new.rdata = F[new.rpage]
      BY <2>4
    <3>3. d.next <= new.size /\ new.origin <= new.rpage
      BY <1>4, <2>4, <2>7
    <3>4. /\ new.origin \in Pages /\ F[new.origin][0] = Meta(d.name, new.size)
          /\ new.wpage = new.origin /\ new.wdata = F[new.origin]
      BY <1>1, <1>4, <2>4 DEF Reading
    <3> QED
      BY <3>1, <3>2, <3>3, <3>4 DEF Reading
  <2> QED
    BY <1>1, <1>4, <2>4, <2>8 DEF FdOK, new, d
<1>6. CASE ~TurnsPage(file)
  <2>1. file.rpos # PageBytes
    BY <1>6 DEF TurnsPage
  <2>2. file.rpos + 1 \in 0..PageBytes
    BY <2>1, <1>2, <1>3
  <2>3. new = [file EXCEPT !.rpos = file.rpos + 1]
    BY <1>6
  <2> HIDE DEF new
  <2>4. /\ new \in FileType
        /\ new.used = file.used /\ new.name = file.name /\ new.origin = file.origin
        /\ new.size = file.size /\ new.wpage = file.wpage /\ new.wdata = file.wdata
        /\ new.rpage = file.rpage /\ new.rpos = file.rpos + 1 /\ new.rdata = file.rdata
    BY <2>2, <2>3 DEF FileType
  <2>5. (file.rpage - file.origin) * PageBytes \in Int
    BY <1>2, <1>3
  <2>6. (file.rpage - file.origin) * PageBytes + (file.rpos + 1) = MetaBytes + (c.next + 1)
    <3> DEFINE x == (file.rpage - file.origin) * PageBytes
    <3>1. x \in Int /\ x + file.rpos = MetaBytes + c.next
      BY <2>5, <1>1 DEF Reading
    <3>2. file.rpos \in Int /\ MetaBytes \in Int /\ c.next \in Int
      BY <1>2, <1>3
    <3> HIDE DEF x
    <3>3. x + (file.rpos + 1) = MetaBytes + (c.next + 1)
      BY <3>1, <3>2
    <3> QED
      BY <3>3 DEF x
  <2>7. c.next + 1 <= file.size
    BY <1>2
  <2>8. Reading(F, new, d)
    BY <1>1, <1>4, <2>4, <2>6, <2>7 DEF Reading
  <2> QED
    BY <1>1, <1>4, <2>4, <2>8 DEF FdOK, new, d
<1> QED
  BY <1>5, <1>6

\* Moving to a byte of the file, or to its end.
LEMMA SeekReads ==
    ASSUME NEW F, FlashOK(F), NEW file \in FileType, NEW c \in ClientType,
           c.mode = "read", FdOK(F, {}, file, c),
           NEW k \in 0..MaxSize, k <= file.size, file.origin + PageOf(k) # EndPage
    PROVE  LET page == file.origin + PageOf(k)
               new == [file EXCEPT !.rpage = page, !.rpos = PosOf(k),
                                   !.rdata = IF page = file.rpage THEN file.rdata ELSE F[page]]
               d == [c EXCEPT !.next = k]
           IN  new \in FileType /\ d \in ClientType /\ FdOK(F, {}, new, d)
<1> DEFINE page == file.origin + PageOf(k)
           data == IF page = file.rpage THEN file.rdata ELSE F[page]
           new == [file EXCEPT !.rpage = page, !.rpos = PosOf(k), !.rdata = data]
           d == [c EXCEPT !.next = k]
<1>1. /\ Reading(F, file, c) /\ file.used /\ file.name = c.name /\ c.name \in Name
      /\ F \in [Pages -> PageData] /\ file.origin \in Pages
  BY DEF FdOK, FlashOK, Reading
<1>2. /\ PageBytes \in Nat \ {0} /\ MetaBytes \in Nat /\ EndPage \in Nat /\ MaxSize \in Nat
      /\ FirstPage \in Nat /\ FirstPage <= file.origin /\ file.origin \in Nat
      /\ k \in Nat /\ file.size \in Nat
  BY <1>1, Sizes, PagesAre, FileFields
<1>3. /\ PageOf(k) \in Nat /\ PosOf(k) \in 0..(PageBytes - 1)
      /\ k + MetaBytes = PageOf(k) * PageBytes + PosOf(k)
  BY <1>2, Place
<1>4. /\ PageCount(file.size) \in Nat
      /\ file.size + MetaBytes <= PageCount(file.size) * PageBytes
      /\ file.origin + PageCount(file.size) <= EndPage
  BY <1>1, <1>2, Counts, ReadingFile
<1>5. PageOf(k) <= PageCount(file.size)
  <2>1. PageOf(k) * PageBytes \in Nat /\ PageCount(file.size) * PageBytes \in Nat
    BY <1>2, <1>3, <1>4
  <2>2. PageOf(k) * PageBytes <= PageCount(file.size) * PageBytes
    BY <2>1, <1>2, <1>3, <1>4
  <2>3. ~(PageCount(file.size) * PageBytes < PageOf(k) * PageBytes)
    BY <2>1, <2>2
  <2>4. (PageCount(file.size) < PageOf(k)) =>
            PageCount(file.size) * PageBytes < PageOf(k) * PageBytes
    BY <1>2, <1>3, <1>4
  <2> QED
    BY <2>3, <2>4, <1>3, <1>4
<1>6. page \in Nat /\ page < EndPage /\ file.origin <= page
  BY <1>2, <1>3, <1>4, <1>5
<1>7. page \in Pages /\ page \in 0..EndPage
  BY <1>6, <1>2, PagesAre
<1>8. d \in ClientType /\ d.next = k /\ d.name = c.name /\ d.mode = c.mode
  BY DEF ClientType
<1> HIDE DEF d
<1>9. data \in PageData
  BY <1>1, <1>7, FileFields
<1>10. page < EndOf(F, file.origin) => data = F[page]
  BY <1>1 DEF Reading
<1> HIDE DEF data
<1>11. PosOf(k) \in 0..PageBytes
  BY <1>2, <1>3
<1>12. /\ new \in FileType
       /\ new.used = file.used /\ new.name = file.name /\ new.origin = file.origin
       /\ new.size = file.size /\ new.wpage = file.wpage /\ new.wdata = file.wdata
       /\ new.rpage = page /\ new.rpos = PosOf(k) /\ new.rdata = data
  <2> HIDE DEF page
  <2> QED
    BY <1>7, <1>9, <1>11 DEF FileType
<1> HIDE DEF new
<1>13. (page - file.origin) * PageBytes + PosOf(k) = MetaBytes + k
  <2>1. page - file.origin = PageOf(k)
    BY <1>2, <1>3
  <2> QED
    BY <2>1, <1>2, <1>3
<1> HIDE DEF page
<1>14. Reading(F, new, d)
  BY <1>1, <1>6, <1>8, <1>10, <1>12, <1>13 DEF Reading
<1>15. FdOK(F, {}, new, d)
  BY <1>1, <1>8, <1>12, <1>14 DEF FdOK
<1> QED
  BY <1>8, <1>12, <1>15 DEF new, d, data, page

---------------------------------------------------------------------------
(* A descriptor that writes *)

LEMMA WritingFile ==
    ASSUME NEW F, FlashOK(F), NEW file \in FileType, NEW c \in ClientType,
           Writing(F, file, c)
    PROVE  /\ file.origin \in Pages /\ file.origin \in Nat /\ file.wpage \in Nat
           /\ IsMeta(F, file.origin) /\ FileAt(F, file.origin)
           /\ NameAt(F, file.origin) = c.name
           /\ file.wpage = file.origin + PageCount(file.size) - 1
           /\ file.size = c.next /\ file.size \in Nat /\ file.size <= MaxSize
           /\ SizeAt(F, file.origin) \in Nat /\ SizeAt(F, file.origin) <= file.size
           /\ \A p \in Pages : IsMeta(F, p) /\ p # file.origin =>
                  p < file.origin /\ EndOf(F, p) <= file.origin
<1>1. /\ file.origin \in Pages /\ IsMeta(F, file.origin) /\ NameAt(F, file.origin) = c.name
      /\ SizeAt(F, file.origin) <= c.next /\ file.size = c.next
      /\ file.origin <= file.wpage /\ 1 <= file.wpos
      /\ (file.wpage - file.origin) * PageBytes + file.wpos = MetaBytes + file.size
      /\ \A p \in Pages : file.origin < p => ~IsMeta(F, p)
  BY DEF Writing
<1>2. /\ file.origin \in Nat /\ file.wpage \in Nat /\ file.wpos \in Nat /\ file.wpos <= PageBytes
      /\ file.size \in Nat /\ c.next \in Nat /\ c.next <= MaxSize
  BY FileFields, ClientFields
<1>3. FileAt(F, file.origin) /\ F \in [Pages -> PageData] /\ Apart(F)
  BY <1>1 DEF FlashOK
<1>4. SizeAt(F, file.origin) \in Nat
  BY <1>1, <1>3, SizeIs
<1>5. PageCount(file.size) = file.wpage - file.origin + 1
  <2>1. file.wpage - file.origin \in Nat /\ file.wpos \in 1..PageBytes
    BY <1>1, <1>2, Sizes
  <2>2. (file.wpage - file.origin) * PageBytes + file.wpos = file.size + MetaBytes
    BY <1>1, <1>2, Sizes
  <2> QED
    BY <2>1, <2>2, <1>2, CountIs
<1>6. ASSUME NEW p \in Pages, IsMeta(F, p), p # file.origin
      PROVE  p < file.origin /\ EndOf(F, p) <= file.origin
  <2>1. p \in Nat
    BY PagesAre
  <2>2. p < file.origin
    BY <1>1, <1>2, <1>6, <2>1
  <2> QED
    BY <1>1, <1>3, <1>6, <2>2 DEF Apart
<1> QED
  BY <1>1, <1>2, <1>3, <1>4, <1>5, <1>6

LEMMA WritingPlace ==
    ASSUME NEW F, FlashOK(F), NEW file \in FileType, NEW c \in ClientType,
           Writing(F, file, c), NEW k \in 0..(file.size - 1)
    PROVE  /\ PageOf(k) \in Nat /\ PosOf(k) \in 0..(PageBytes - 1) /\ k \in Nat
           /\ file.origin + PageOf(k) \in Nat /\ file.origin + PageOf(k) <= file.wpage
           /\ file.wpage # EndPage => file.origin + PageOf(k) \in Pages
<1>1. /\ file.origin \in Pages /\ file.origin \in Nat /\ file.wpage \in Nat
      /\ file.wpage = file.origin + PageCount(file.size) - 1 /\ file.size \in Nat
  BY WritingFile
<1>2. k \in Nat
  BY <1>1
<1>3. PageOf(k) \in Nat /\ PosOf(k) \in 0..(PageBytes - 1)
  BY <1>2, Place
<1>4. PageOf(k) < PageCount(file.size) /\ PageCount(file.size) \in Nat
  BY <1>1, PlaceInCount, Counts
<1>5. file.wpage <= EndPage /\ FirstPage <= file.origin /\ FirstPage \in Nat /\ EndPage \in Nat
  BY <1>1, FileFields, PagesAre, Sizes
<1>6. file.origin + PageOf(k) <= file.wpage
  BY <1>1, <1>3, <1>4
<1>7. file.wpage # EndPage => file.origin + PageOf(k) \in Pages
  BY <1>1, <1>3, <1>5, <1>6, PagesAre
<1> QED
  BY <1>1, <1>2, <1>3, <1>6, <1>7

\* G is F with one page written.
SetPage(F, G, p, page) ==
    G \in [Pages -> PageData] /\ G[p] = page /\ \A q \in Pages : q # p => G[q] = F[q]

LEMMA SetPageIs ==
    ASSUME NEW F \in [Pages -> PageData], NEW p \in Pages, NEW page \in PageData
    PROVE  SetPage(F, [F EXCEPT ![p] = page], p, page)
BY DEF SetPage

\* The buffer goes to its page: the file is what it was, and so are the others.
LEMMA FlushWrites ==
    ASSUME NEW F, FlashOK(F), NEW file \in FileType, NEW c \in ClientType,
           Writing(F, file, c), file.wpage # EndPage,
           NEW G, SetPage(F, G, file.wpage, file.wdata)
    PROVE  /\ FlashOK(G) /\ Writing(G, file, c)
           /\ file.wpage \in Pages /\ G[file.wpage] = file.wdata
           /\ \A p \in Pages : p < file.origin => G[p] = F[p]
           /\ \A p \in Pages : IsMeta(F, p) \/ IsMeta(G, p) => G[p][0] = F[p][0]
<1> DEFINE o == file.origin
           w == file.wpage
<1>1. /\ o \in Pages /\ o \in Nat /\ w \in Nat /\ IsMeta(F, o) /\ FileAt(F, o)
      /\ NameAt(F, o) = c.name /\ SizeAt(F, o) \in Nat /\ SizeAt(F, o) <= file.size
      /\ file.size \in Nat
      /\ \A p \in Pages : IsMeta(F, p) /\ p # o => p < o /\ EndOf(F, p) <= o
  BY WritingFile
<1>2. /\ o <= w
      /\ \A k \in 0..(file.size - 1) : Written(F, file, k) = Byte(c.name, k)
      /\ w = o => \A i \in 0..(MetaBytes - 1) : file.wdata[i] = F[o][i]
      /\ w # o => file.wdata[0].kind # "meta"
      /\ \A p \in Pages : o < p => ~IsMeta(F, p)
      /\ \A p \in Pages : w < p => ~HasMagic(F, p)
  BY DEF Writing
<1>3. F \in [Pages -> PageData] /\ file.wdata \in PageData
  BY FileFields DEF FlashOK
<1>4. w \in Pages
  <2>1. w <= EndPage /\ w # EndPage /\ FirstPage <= o /\ FirstPage \in Nat /\ EndPage \in Nat
    BY <1>1, FileFields, PagesAre, Sizes
  <2> QED
    BY <2>1, <1>1, <1>2, PagesAre
<1>5. /\ G \in [Pages -> PageData] /\ G[w] = file.wdata
      /\ \A p \in Pages : p # w => G[p] = F[p]
  BY <1>3, <1>4 DEF SetPage
<1>6. \A p \in Pages : p < o => G[p] = F[p]
  BY <1>1, <1>2, <1>5, PagesAre
<1>7. \A k \in 0..(file.size - 1) :
          o + PageOf(k) \in Pages /\ G[o + PageOf(k)][PosOf(k)] = Byte(c.name, k)
  <2>1. SUFFICES ASSUME NEW k \in 0..(file.size - 1)
                 PROVE  o + PageOf(k) \in Pages /\ G[o + PageOf(k)][PosOf(k)] = Byte(c.name, k)
    OBVIOUS
  <2>2. o + PageOf(k) \in Pages
    BY WritingPlace
  <2>3. Written(F, file, k) = Byte(c.name, k)
    BY <1>2
  <2> QED
    BY <2>2, <2>3, <1>5 DEF Written
<1>8. 0 \in 0..(MetaBytes - 1) /\ \A i \in 1..(MetaBytes - 1) : i \in 0..(MetaBytes - 1)
  BY Sizes
<1>9. Stays(F, G, o)
  <2>1. G[o][0] = F[o][0] /\ \A i \in 1..(MetaBytes - 1) : G[o][i] = Zero
    BY <1>1, <1>2, <1>5, <1>8 DEF FileAt
  <2>2. Holds(G, o, c.name, SizeAt(F, o))
    <3>1. \A k \in 0..(SizeAt(F, o) - 1) : k \in 0..(file.size - 1)
      BY <1>1
    <3> QED
      BY <3>1, <1>7 DEF Holds
  <2> QED
    BY <2>1, <2>2, <1>1 DEF Stays
<1>10. \A p \in Pages : o < p => ~IsMeta(G, p)
  BY <1>1, <1>2, <1>5 DEF IsMeta
<1>11. ASSUME NEW p \in Pages, IsMeta(G, p) PROVE IsMeta(F, p) /\ Stays(F, G, p)
  <2>1. p \in Nat
    BY PagesAre
  <2>2. CASE p = o
    <3>1. IsMeta(F, o)
      BY <1>1
    <3> QED
      BY <3>1, <1>9, <2>2
  <2>3. CASE p < o
    <3>1. G[p] = F[p]
      BY <1>6, <2>3
    <3>2. IsMeta(F, p)
      BY <1>11, <3>1 DEF IsMeta
    <3>3. EndOf(F, p) <= o /\ EndOf(F, p) \in Nat
      BY <1>1, <1>3, <2>1, <2>3, <3>2, SizeIs
    <3>4. Agree(F, G, p, EndOf(F, p))
      BY <1>1, <1>6, <3>3, PagesAre DEF Agree
    <3> QED
      BY <3>2, <3>4, AgreeStays
  <2>4. p = o \/ p < o
    BY <1>1, <1>10, <1>11, <2>1
  <2> QED
    BY <2>2, <2>3, <2>4
<1>12. FlashOK(G)
  BY <1>5, <1>11, FlashStays
<1>13. ASSUME NEW p \in Pages, IsMeta(F, p) \/ IsMeta(G, p) PROVE G[p][0] = F[p][0]
  <2>1. CASE IsMeta(G, p)
    BY <2>1, <1>11 DEF Stays
  <2>2. CASE IsMeta(F, p)
    <3>1. p = o \/ p < o
      BY <2>2, <1>1
    <3> QED
      BY <3>1, <1>6, <1>9 DEF Stays
  <2> QED
    BY <2>1, <2>2, <1>13
<1>14. Writing(G, file, c)
  <2>1. NameAt(G, o) = NameAt(F, o) /\ SizeAt(G, o) = SizeAt(F, o) /\ IsMeta(G, o)
    BY <1>1, <1>9, SameMetaIs DEF Stays
  <2>2. ASSUME NEW k \in 0..(file.size - 1) PROVE Written(G, file, k) = Byte(c.name, k)
    BY <1>5, <1>7 DEF Written
  <2>3. w = o => \A i \in 0..(MetaBytes - 1) : file.wdata[i] = G[o][i]
    BY <1>5
  <2>4. \A p \in Pages : w < p => ~HasMagic(G, p)
    <3>1. SUFFICES ASSUME NEW p \in Pages, w < p PROVE ~HasMagic(G, p)
      OBVIOUS
    <3>2. G[p] = F[p]
      BY <3>1, <1>1, <1>5
    <3> QED
      BY <3>1, <3>2, <1>2 DEF HasMagic
  <2> QED
    BY <2>1, <2>2, <2>3, <2>4, <1>2, <1>10 DEF Writing
<1> QED
  BY <1>4, <1>5, <1>6, <1>12, <1>13, <1>14

LEMMA PutIs ==
    ASSUME NEW file \in FileType, NEW b \in Slots, NEW pages \in Nat, file.wpos # PageBytes
    PROVE  /\ Put(file, b, pages).used = file.used /\ Put(file, b, pages).name = file.name
           /\ Put(file, b, pages).origin = file.origin
           /\ Put(file, b, pages).wpage = file.wpage
           /\ Put(file, b, pages).wpos = file.wpos + 1
           /\ Put(file, b, pages).wdata = [file.wdata EXCEPT ![file.wpos] = b]
           /\ file.wpage = file.origin + pages /\ file.size + MetaBytes - pages * PageBytes = file.wpos
                  => Put(file, b, pages).size = file.size + 1 /\ Put(file, b, pages) \in FileType
<1> DEFINE room == file.size + MetaBytes - pages * PageBytes
           counts == file.wpage = file.origin + pages /\ room >= 0 /\ file.wpos + 1 > room
           data == [file.wdata EXCEPT ![file.wpos] = b]
           size == IF counts THEN file.size + 1 ELSE file.size
<1>1. Put(file, b, pages) = [file EXCEPT !.wdata = data, !.wpos = file.wpos + 1, !.size = size]
  BY DEF Put
<1>2. /\ file.wpos \in Nat /\ file.wpos <= PageBytes /\ file.wdata \in PageData
      /\ file.size \in Nat /\ PageBytes \in Nat
  BY FileFields, Sizes
<1>3. data \in PageData
  BY <1>2 DEF PageData
<1>4. file.wpos + 1 \in 0..PageBytes
  BY <1>2
<1>5. file.wpage = file.origin + pages /\ room = file.wpos => size = file.size + 1
  BY <1>2
<1> HIDE DEF data, size, room
<1>6. size \in Nat => [file EXCEPT !.wdata = data, !.wpos = file.wpos + 1, !.size = size] \in FileType
  BY <1>3, <1>4 DEF FileType
<1>7. /\ [file EXCEPT !.wdata = data, !.wpos = file.wpos + 1, !.size = size].used = file.used
      /\ [file EXCEPT !.wdata = data, !.wpos = file.wpos + 1, !.size = size].name = file.name
      /\ [file EXCEPT !.wdata = data, !.wpos = file.wpos + 1, !.size = size].origin = file.origin
      /\ [file EXCEPT !.wdata = data, !.wpos = file.wpos + 1, !.size = size].wpage = file.wpage
      /\ [file EXCEPT !.wdata = data, !.wpos = file.wpos + 1, !.size = size].wpos = file.wpos + 1
      /\ [file EXCEPT !.wdata = data, !.wpos = file.wpos + 1, !.size = size].wdata = data
      /\ [file EXCEPT !.wdata = data, !.wpos = file.wpos + 1, !.size = size].size = size
  BY DEF FileType
<1>8. file.size + 1 \in Nat
  BY <1>2
<1> QED
  BY <1>1, <1>5, <1>6, <1>7, <1>8 DEF data, room

LEMMA BytesAre ==
    ASSUME NEW n \in Name, NEW k \in Nat
    PROVE  Byte(n, k) \in Slots /\ Byte(n, k).kind # "meta" /\ Meta(n, k) \in Slots
BY NamesAre DEF Byte, Meta, Slots

LEMMA BlankIs ==
    /\ Zero \in Slots /\ BlankPage \in PageData
    /\ \A i \in 0..(PageBytes - 1) : BlankPage[i] = Zero
    /\ Zero.kind = "data"
<1>1. Zero \in Slots /\ Zero.kind = "data"
  BY NamesAre DEF Zero, Slots
<1> QED
  BY <1>1 DEF BlankPage, PageData

LEMMA WithMetaIs ==
    ASSUME NEW page \in PageData, NEW n \in Name, NEW s \in Nat
    PROVE  /\ WithMeta(page, n, s) \in PageData
           /\ WithMeta(page, n, s)[0] = Meta(n, s)
           /\ \A i \in 1..(MetaBytes - 1) : WithMeta(page, n, s)[i] = Zero
           /\ \A i \in MetaBytes..(PageBytes - 1) : WithMeta(page, n, s)[i] = page[i]
<1>1. Meta(n, s) \in Slots /\ Zero \in Slots
  BY BytesAre, BlankIs
<1>2. \A i \in 0..(PageBytes - 1) : page[i] \in Slots
  BY DEF PageData
<1>3. \A i \in 1..(MetaBytes - 1) : i # 0 /\ i < MetaBytes /\ i \in 0..(PageBytes - 1)
  BY Sizes
<1>4. \A i \in MetaBytes..(PageBytes - 1) : i # 0 /\ ~(i < MetaBytes) /\ i \in 0..(PageBytes - 1)
  BY Sizes
<1>5. WithMeta(page, n, s) \in PageData
  BY <1>1, <1>2 DEF WithMeta, PageData
<1>6. WithMeta(page, n, s)[0] = Meta(n, s)
  BY ZeroInPage DEF WithMeta
<1> QED
  BY <1>3, <1>4, <1>5, <1>6 DEF WithMeta

\* The buffer of a descriptor about to write its next byte: not full.
LEMMA TurnedIs ==
    ASSUME NEW F, FlashOK(F), NEW file \in FileType, NEW c \in ClientType,
           Writing(F, file, c), file.wpos = PageBytes => file.wpage # EndPage,
           NEW pages, pages = PageCount(file.size) - 1
                              + (IF file.wpos = PageBytes THEN 1 ELSE 0)
    PROVE  /\ Turned(file) \in FileType /\ pages \in Nat
           /\ Turned(file).used = file.used /\ Turned(file).name = file.name
           /\ Turned(file).origin = file.origin /\ Turned(file).size = file.size
           /\ Turned(file).wpos \in 0..(PageBytes - 1)
           /\ Turned(file).wpage = file.origin + pages
           /\ pages * PageBytes + Turned(file).wpos = file.size + MetaBytes
           /\ file.wpos # PageBytes => Turned(file) = file
           /\ file.wpos = PageBytes =>
                  /\ Turned(file).wpage = file.wpage + 1 /\ Turned(file).wpos = 0
                  /\ Turned(file).wdata = BlankPage
<1>1. /\ file.origin \in Nat /\ file.wpage \in Nat /\ file.wpos \in Nat
      /\ file.size \in Nat /\ file.wpage <= EndPage /\ file.wpos <= PageBytes
  BY FileFields
<1>2. /\ file.origin <= file.wpage
      /\ (file.wpage - file.origin) * PageBytes + file.wpos = MetaBytes + file.size
  BY DEF Writing
<1>3. file.wpage = file.origin + PageCount(file.size) - 1 /\ PageCount(file.size) \in Nat \ {0}
  BY <1>1, WritingFile, Counts
<1>4. PageBytes \in Nat \ {0} /\ MetaBytes \in Nat /\ EndPage \in Nat
  BY Sizes
<1>5. CASE file.wpos # PageBytes
  <2>1. Turned(file) = file
    BY <1>5 DEF Turned
  <2>2. pages = file.wpage - file.origin
    BY <1>1, <1>3, <1>5
  <2>3. file.wpos \in 0..(PageBytes - 1)
    BY <1>1, <1>4, <1>5
  <2>4. pages * PageBytes + file.wpos = file.size + MetaBytes
    BY <2>2, <1>1, <1>2, <1>4
  <2>5. pages \in Nat /\ file.wpage = file.origin + pages
    BY <2>2, <1>1, <1>2
  <2> QED
    BY <2>1, <2>3, <2>4, <2>5, <1>5
<1>6. CASE file.wpos = PageBytes
  <2>1. Turned(file) = [file EXCEPT !.wpage = file.wpage + 1, !.wpos = 0, !.wdata = BlankPage]
    BY <1>6 DEF Turned
  <2>2. file.wpage + 1 \in 0..EndPage /\ 0 \in 0..PageBytes /\ BlankPage \in PageData
        /\ 0 \in 0..(PageBytes - 1)
    BY <1>1, <1>4, <1>6, BlankIs
  <2>3. /\ Turned(file) \in FileType
        /\ Turned(file).used = file.used /\ Turned(file).name = file.name
        /\ Turned(file).origin = file.origin /\ Turned(file).size = file.size
        /\ Turned(file).wpage = file.wpage + 1 /\ Turned(file).wpos = 0
        /\ Turned(file).wdata = BlankPage
    BY <2>1, <2>2 DEF FileType
  <2>4. pages = file.wpage - file.origin + 1
    BY <1>1, <1>3, <1>6
  <2>5. (file.wpage - file.origin + 1) * PageBytes =
            (file.wpage - file.origin) * PageBytes + PageBytes
        /\ (file.wpage - file.origin) * PageBytes \in Int
    BY <1>1, <1>4
  <2>6. pages * PageBytes + 0 = file.size + MetaBytes
    BY <2>4, <2>5, <1>1, <1>2, <1>4, <1>6
  <2>7. pages \in Nat /\ file.wpage + 1 = file.origin + pages
    BY <2>4, <1>1, <1>2
  <2> QED
    BY <2>2, <2>3, <2>6, <2>7, <1>6
<1> QED
  BY <1>5, <1>6

LEMMA PutWrites ==
    ASSUME NEW F, FlashOK(F), NEW file \in FileType, NEW c \in ClientType,
           Writing(F, file, c), c.name \in Name, c.next < MaxSize,
           file.wpos = PageBytes => file.wpage # EndPage /\ F[file.wpage] = file.wdata,
           NEW pages, pages = PageCount(file.size) - 1
                              + (IF file.wpos = PageBytes THEN 1 ELSE 0),
           NEW new, new = Put(Turned(file), Byte(c.name, c.next), pages),
           NEW d, d = [c EXCEPT !.next = @ + 1]
    PROVE  /\ new \in FileType /\ d \in ClientType
           /\ d.name = c.name /\ d.mode = c.mode
           /\ new.used = file.used /\ new.name = file.name /\ new.origin = file.origin
           /\ Writing(F, new, d)
<1> DEFINE o == file.origin
           n == c.next
           T == Turned(file)
           b == Byte(c.name, n)
<1>1. /\ o \in Pages /\ o \in Nat /\ file.wpage \in Nat
      /\ IsMeta(F, o) /\ NameAt(F, o) = c.name
      /\ file.size = n /\ n \in Nat
      /\ SizeAt(F, o) \in Nat /\ SizeAt(F, o) <= n
  BY WritingFile
<1>2. /\ o <= file.wpage /\ 1 <= file.wpos /\ file.wpos \in Nat
      /\ (file.wpage - o) * PageBytes + file.wpos = MetaBytes + file.size
      /\ \A k \in 0..(file.size - 1) : Written(F, file, k) = Byte(c.name, k)
      /\ file.wpage = o => \A i \in 0..(MetaBytes - 1) : file.wdata[i] = F[o][i]
      /\ file.wpage # o => file.wdata[0].kind # "meta"
      /\ \A p \in Pages : o < p => ~IsMeta(F, p)
      /\ \A p \in Pages : file.wpage < p => ~HasMagic(F, p)
  BY FileFields DEF Writing
<1>3. b \in Slots /\ b.kind # "meta"
  BY <1>1, BytesAre
<1>4. /\ T \in FileType /\ pages \in Nat
      /\ T.used = file.used /\ T.name = file.name /\ T.origin = o /\ T.size = n
      /\ T.wpos \in 0..(PageBytes - 1)
      /\ T.wpage = o + pages
      /\ pages * PageBytes + T.wpos = n + MetaBytes
      /\ file.wpos # PageBytes => T = file
      /\ file.wpos = PageBytes => T.wpage = file.wpage + 1 /\ T.wpos = 0 /\ T.wdata = BlankPage
  BY <1>1, TurnedIs
<1> HIDE DEF T
<1>5. PageBytes \in Nat \ {0} /\ MetaBytes \in Nat \ {0} /\ MaxSize \in Nat
  BY Sizes
<1>6. T.wdata \in PageData /\ T.wpos # PageBytes
  BY <1>4, <1>5, FileFields
<1>7. /\ new \in FileType
      /\ new.used = file.used /\ new.name = file.name /\ new.origin = o
      /\ new.size = n + 1 /\ new.wpage = T.wpage /\ new.wpos = T.wpos + 1
      /\ new.wdata = [T.wdata EXCEPT ![T.wpos] = b]
  <2>1. T.size + MetaBytes - pages * PageBytes = T.wpos /\ T.wpage = T.origin + pages
    BY <1>1, <1>4, <1>5
  <2>2. new = Put(T, b, pages)
    BY DEF T
  <2> HIDE DEF b
  <2> QED
    BY <2>1, <2>2, <1>3, <1>4, <1>6, PutIs
<1>8. d \in ClientType /\ d.name = c.name /\ d.mode = c.mode /\ d.next = n + 1
  <2>1. n + 1 \in 0..MaxSize
    BY <1>1, <1>5
  <2> QED
    BY <2>1 DEF ClientType
<1>9. PageOf(n) = pages /\ PosOf(n) = T.wpos
  BY <1>1, <1>4, <1>5, PlaceIs
<1>10. new.wdata[T.wpos] = b /\ \A i \in 0..(PageBytes - 1) : i # T.wpos => new.wdata[i] = T.wdata[i]
  BY <1>4, <1>6, <1>7 DEF PageData
<1> HIDE DEF b
<1>11. ASSUME NEW k \in 0..(new.size - 1) PROVE Written(F, new, k) = Byte(c.name, k)
  <2>1. CASE k = n
    <3>1. new.origin + PageOf(k) = new.wpage /\ PosOf(k) = T.wpos
      BY <2>1, <1>4, <1>7, <1>9
    <3> QED
      BY <3>1, <2>1, <1>10 DEF Written, b
  <2>2. CASE k # n
    <3>1. k \in 0..(file.size - 1)
      BY <2>2, <1>1, <1>7
    <3>2. /\ PageOf(k) \in Nat /\ PosOf(k) \in 0..(PageBytes - 1) /\ k \in Nat
          /\ o + PageOf(k) <= file.wpage
      BY <3>1, WritingPlace
    <3>3. Written(F, file, k) = Byte(c.name, k)
      BY <3>1, <1>2
    <3>4. CASE file.wpos # PageBytes
      <4>1. T = file
        BY <3>4, <1>4
      <4>2. CASE o + PageOf(k) = file.wpage
        <5>1. PageOf(k) = pages
          BY <4>1, <4>2, <3>2, <1>1, <1>4
        <5>2. k + MetaBytes = PageOf(k) * PageBytes + PosOf(k)
          BY <3>2, Place
        <5>3. PosOf(k) # T.wpos
          <6>1. SUFFICES ASSUME PosOf(k) = T.wpos PROVE FALSE
            OBVIOUS
          <6>2. k + MetaBytes = n + MetaBytes
            BY <6>1, <5>1, <5>2, <1>4
          <6> QED
            BY <6>2, <2>2, <3>2, <1>1, <1>5
        <5>4. new.wdata[PosOf(k)] = file.wdata[PosOf(k)]
          BY <5>3, <4>1, <3>2, <1>10
        <5> QED
          BY <5>4, <4>1, <4>2, <3>3, <1>7 DEF Written
      <4>3. CASE o + PageOf(k) # file.wpage
        BY <4>1, <4>3, <3>3, <1>7 DEF Written
      <4> QED
        BY <4>2, <4>3
    <3>5. CASE file.wpos = PageBytes
      <4>1. F[o + PageOf(k)][PosOf(k)] = Byte(c.name, k)
        BY <3>3, <3>5 DEF Written
      <4>2. o + PageOf(k) # new.wpage
        BY <3>2, <3>5, <1>1, <1>4, <1>7
      <4> QED
        BY <4>1, <4>2, <1>7 DEF Written
    <3> QED
      BY <3>4, <3>5
  <2> QED
    BY <2>1, <2>2
<1>12. new.wpage = o => \A i \in 0..(MetaBytes - 1) : new.wdata[i] = F[o][i]
  <2>1. SUFFICES ASSUME new.wpage = o, NEW i \in 0..(MetaBytes - 1)
                 PROVE  new.wdata[i] = F[o][i]
    OBVIOUS
  <2>2. file.wpos # PageBytes
    BY <2>1, <1>1, <1>2, <1>4, <1>7
  <2>3. T = file /\ file.wpage = o
    BY <2>1, <2>2, <1>4, <1>7
  <2>4. pages = 0
    BY <2>1, <1>1, <1>4, <1>7
  <2>5. T.wpos = n + MetaBytes
    BY <2>4, <1>1, <1>4, <1>5
  <2>6. i # T.wpos /\ i \in 0..(PageBytes - 1)
    BY <2>5, <1>1, <1>4, <1>5
  <2> QED
    BY <2>3, <2>6, <1>2, <1>10
<1>13. new.wpage # o => new.wdata[0].kind # "meta"
  <2>1. SUFFICES ASSUME new.wpage # o PROVE new.wdata[0].kind # "meta"
    OBVIOUS
  <2>2. CASE T.wpos = 0
    BY <2>2, <1>3, <1>10
  <2>3. CASE T.wpos # 0
    <3>1. T = file
      BY <2>3, <1>4
    <3>2. new.wdata[0] = file.wdata[0]
      BY <3>1, <2>3, <1>10, ZeroInPage
    <3> QED
      BY <3>1, <3>2, <2>1, <1>2, <1>7
  <2> QED
    BY <2>2, <2>3
<1>14. file.wpage <= new.wpage
  BY <1>1, <1>4, <1>7
<1>15. \A p \in Pages : new.wpage < p => ~HasMagic(F, p)
  <2>1. SUFFICES ASSUME NEW p \in Pages, new.wpage < p PROVE ~HasMagic(F, p)
    OBVIOUS
  <2>2. p \in Nat /\ new.wpage \in Nat
    BY PagesAre, <1>7, FileFields
  <2> QED
    BY <2>1, <2>2, <1>1, <1>2, <1>14
<1>16. (new.wpage - new.origin) * PageBytes + new.wpos = MetaBytes + new.size
  <2>1. new.wpage - new.origin = pages
    BY <1>1, <1>4, <1>7
  <2>2. (new.wpage - new.origin) * PageBytes = pages * PageBytes /\ pages * PageBytes \in Int
    BY <2>1, <1>4, <1>5
  <2> QED
    BY <2>2, <1>1, <1>4, <1>5, <1>7
<1>17. o <= new.wpage /\ 1 <= new.wpos /\ SizeAt(F, o) <= n + 1
  BY <1>1, <1>4, <1>7
<1>18. Writing(F, new, d)
  <2>1. new.origin \in Pages /\ IsMeta(F, new.origin) /\ NameAt(F, new.origin) = d.name
        /\ SizeAt(F, new.origin) <= d.next /\ new.size = d.next
    BY <1>1, <1>7, <1>8, <1>17
  <2>2. new.origin <= new.wpage /\ 1 <= new.wpos
    BY <1>7, <1>17
  <2>3. \A k \in 0..(new.size - 1) : Written(F, new, k) = Byte(d.name, k)
    BY <1>8, <1>11
  <2>4. new.wpage = new.origin =>
            \A i \in 0..(MetaBytes - 1) : new.wdata[i] = F[new.origin][i]
    BY <1>7, <1>12
  <2>5. new.wpage # new.origin => new.wdata[0].kind # "meta"
    BY <1>7, <1>13
  <2>6. \A p \in Pages : new.origin < p => ~IsMeta(F, p)
    BY <1>2, <1>7
  <2> QED
    BY <2>1, <2>2, <2>3, <2>4, <2>5, <2>6, <1>15, <1>16 DEF Writing
<1> QED
  BY <1>7, <1>8, <1>18

NewClient(n, mode, next) == [name |-> n, mode |-> mode, next |-> next]

AppendFile(F, slot, o) ==
    Opened(F, slot, o, o, MetaBytes, EndOf(F, o) - 1, (MetaBytes + SizeAt(F, o)) % PageBytes)

CreatedFile(F, slot, o) == Opened(F, slot, o, o, MetaBytes, o, MetaBytes)

IsLast(F, o) == o = Max(Origins(F))

\* The last file is opened to be written on.
LEMMA AppendWrites ==
    ASSUME OneLength, AlikeFits, NEW F, FlashOK(F), NEW slot,
           fdset[slot].name \in Name \cup {NoName},
           NEW o \in Pages, IsMeta(F, o), IsLast(F, o),
           (MetaBytes + SizeAt(F, o)) % PageBytes # 0
    PROVE  /\ AppendFile(F, slot, o) \in FileType
           /\ NewClient(NameAt(F, o), "write", SizeAt(F, o)) \in ClientType
           /\ FdOK(F, {}, AppendFile(F, slot, o),
                   NewClient(NameAt(F, o), "write", SizeAt(F, o)))
<1> DEFINE file == AppendFile(F, slot, o)
           c == NewClient(NameAt(F, o), "write", SizeAt(F, o))
<1> DEFINE s == SizeAt(F, o)
           n == NameAt(F, o)
           q == PageOf(s)
           r == PosOf(s)
<1>1. F \in [Pages -> PageData] /\ FileAt(F, o) /\ Apart(F)
  BY DEF FlashOK
<1>2. /\ n \in Name /\ s \in Nat /\ s \in 0..MaxSize /\ EndOf(F, o) <= EndPage
      /\ EndOf(F, o) = o + PageCount(s) /\ EndOf(F, o) \in Nat /\ o < EndOf(F, o)
  BY <1>1, SizeIs, Sizes DEF FileAt
<1>3. Holds(F, o, n, s)
  BY <1>1 DEF FileAt
<1>4. /\ \A p \in Pages : EndOf(F, o) <= p => ~HasMagic(F, p)
      /\ \A p \in Pages : o < p => ~IsMeta(F, p)
  BY LastFileIs DEF IsLast
<1> HIDE DEF s, n
<1>5. /\ PageBytes \in Nat \ {0} /\ MetaBytes \in Nat \ {0} /\ MetaBytes < PageBytes
      /\ EndPage \in Nat /\ FirstPage \in Nat /\ o \in Nat /\ FirstPage <= o
  BY Sizes, PagesAre
<1>6. (MetaBytes + s) % PageBytes = r
  <2>1. MetaBytes + s = s + MetaBytes
    BY <1>2, <1>5
  <2> QED
    BY <2>1 DEF PosOf
<1>7. q \in Nat /\ r \in 0..(PageBytes - 1) /\ s + MetaBytes = q * PageBytes + r /\ r # 0
  BY <1>2, <1>6, Place DEF s
<1> HIDE DEF q, r
<1>8. PageCount(s) = q + 1
  <2>1. r \in 1..PageBytes
    BY <1>5, <1>7
  <2> QED
    BY <2>1, <1>2, <1>7, CountIs
<1>9. EndOf(F, o) - 1 = o + q /\ o + q \in Pages /\ o + q \in Nat
  <2>1. EndOf(F, o) - 1 = o + q /\ o + q \in Nat /\ FirstPage <= o + q /\ o + q < EndPage
    BY <1>2, <1>5, <1>7, <1>8
  <2> QED
    BY <2>1, PagesAre
<1>10. r \in 0..PageBytes /\ MetaBytes \in 0..PageBytes
  BY <1>5, <1>7
<1>11. /\ file \in FileType
       /\ file = [used |-> TRUE, name |-> n, origin |-> o, size |-> s,
                  rpage |-> o, rpos |-> MetaBytes, rdata |-> F[o],
                  wpage |-> o + q, wpos |-> r, wdata |-> F[o + q]]
  <2>1. file = Opened(F, slot, o, o, MetaBytes, o + q, r)
    BY <1>6, <1>9 DEF s, AppendFile
  <2>2. NameAt(F, o) \in Name
    BY <1>2 DEF n
  <2> DEFINE w == o + q
  <2>3. w \in Pages
    BY <1>9
  <2> HIDE DEF w
  <2>4. /\ Opened(F, slot, o, o, MetaBytes, w, r) \in FileType
        /\ Opened(F, slot, o, o, MetaBytes, w, r) =
               [used |-> TRUE, name |-> NameAt(F, o), origin |-> o, size |-> SizeAt(F, o),
                rpage |-> o, rpos |-> MetaBytes, rdata |-> F[o],
                wpage |-> w, wpos |-> r, wdata |-> F[w]]
    BY <2>2, <2>3, <1>1, <1>10, OpenedIs
  <2> QED
    BY <2>1, <2>4 DEF n, s, w
<1>12. /\ file.used = TRUE /\ file.name = n /\ file.origin = o /\ file.size = s
       /\ file.wpage = o + q /\ file.wpos = r /\ file.wdata = F[o + q]
  <2> HIDE DEF file
  <2> QED
    BY <1>11
<1>13. c \in ClientType /\ c.name = n /\ c.mode = "write" /\ c.next = s
  BY <1>2 DEF ClientType, NewClient, n, s
<1> HIDE DEF file, c
<1>14. Writing(F, file, c)
  <2>1. o <= o + q /\ 1 <= r
    BY <1>5, <1>7
  <2>2. (o + q - o) * PageBytes + r = MetaBytes + s
    <3>1. o + q - o = q
      BY <1>5, <1>7
    <3>2. (o + q - o) * PageBytes = q * PageBytes /\ q * PageBytes \in Int
      BY <3>1, <1>5, <1>7
    <3> QED
      BY <3>2, <1>2, <1>5, <1>7
  <2>3. ASSUME NEW k \in 0..(s - 1) PROVE Written(F, file, k) = Byte(n, k)
    <3>1. F[o + PageOf(k)][PosOf(k)] = Byte(n, k)
      BY <1>3 DEF Holds
    <3> QED
      BY <3>1, <1>12 DEF Written
  <2>4. o + q = o => \A i \in 0..(MetaBytes - 1) : F[o + q][i] = F[o][i]
    OBVIOUS
  <2>5. o + q # o => F[o + q][0].kind # "meta"
    BY <2>1, <1>4, <1>5, <1>9 DEF IsMeta
  <2>6. \A p \in Pages : o + q < p => ~HasMagic(F, p)
    <3>1. SUFFICES ASSUME NEW p \in Pages, o + q < p PROVE ~HasMagic(F, p)
      OBVIOUS
    <3>2. EndOf(F, o) <= p
      BY <3>1, <1>2, <1>9, PagesAre
    <3> QED
      BY <3>2, <1>4
  <2>7. /\ file.origin \in Pages /\ IsMeta(F, file.origin) /\ NameAt(F, file.origin) = c.name
        /\ SizeAt(F, file.origin) <= c.next /\ file.size = c.next
    BY <1>2, <1>12, <1>13 DEF n, s
  <2>8. file.origin <= file.wpage /\ 1 <= file.wpos
    BY <2>1, <1>12
  <2>9. (file.wpage - file.origin) * PageBytes + file.wpos = MetaBytes + file.size
    <3>1. file.wpage - file.origin = o + q - o
      BY <1>5, <1>7, <1>12
    <3>2. (file.wpage - file.origin) * PageBytes = (o + q - o) * PageBytes
      BY <3>1
    <3>3. file.wpos = r /\ file.size = s
      BY <1>12
    <3> QED
      BY <2>2, <3>2, <3>3
  <2>10. \A k \in 0..(file.size - 1) : Written(F, file, k) = Byte(c.name, k)
    BY <2>3, <1>12, <1>13
  <2>11. /\ file.wpage = file.origin =>
                \A i \in 0..(MetaBytes - 1) : file.wdata[i] = F[file.origin][i]
         /\ file.wpage # file.origin => file.wdata[0].kind # "meta"
    BY <2>4, <2>5, <1>12
  <2>12. /\ \A p \in Pages : file.origin < p => ~IsMeta(F, p)
         /\ \A p \in Pages : file.wpage < p => ~HasMagic(F, p)
    BY <2>6, <1>4, <1>12
  <2> QED
    BY <2>7, <2>8, <2>9, <2>10, <2>11, <2>12 DEF Writing
<1>15. FdOK(F, {}, file, c)
  BY <1>2, <1>12, <1>13, <1>14 DEF FdOK
<1> QED
  BY <1>11, <1>13, <1>15 DEF file, c

IsFree(F, o) == o = FreeAfterLast(F)

\* A new file begins after the last one.
LEMMA CreateWrites ==
    ASSUME OneLength, AlikeFits, NEW F, FlashOK(F), NEW slot,
           fdset[slot].name \in Name \cup {NoName},
           NEW n \in Name, OriginsOf(F, n) = {},
           NEW o \in Pages, IsFree(F, o),
           NEW G, SetPage(F, G, o, WithMeta(BlankPage, n, 0))
    PROVE  /\ FlashOK(G) /\ ~IsMeta(F, o) /\ G[o][0] = Meta(n, 0)
           /\ \A p \in Pages : IsMeta(F, p) => p < o /\ EndOf(F, p) <= o /\ NameAt(F, p) # n
           /\ CreatedFile(G, slot, o) \in FileType
           /\ NewClient(n, "write", 0) \in ClientType
           /\ FdOK(G, {}, CreatedFile(G, slot, o), NewClient(n, "write", 0))
<1> DEFINE file == CreatedFile(G, slot, o)
           c == NewClient(n, "write", 0)
<1>1. F \in [Pages -> PageData]
  BY DEF FlashOK
<1>2. /\ o \in Nat /\ FirstPage <= o
      /\ \A p \in Pages : o <= p => ~HasMagic(F, p)
      /\ \A p \in Pages : IsMeta(F, p) => p < o /\ EndOf(F, p) <= o
  BY FreeIs DEF IsFree
<1>3. o \in Pages /\ o < EndPage /\ FirstPage \in Nat /\ EndPage \in Nat
  BY <1>2, PagesAre, Sizes
<1>4. ~HasMagic(F, o) /\ ~IsMeta(F, o)
  BY <1>1, <1>2, <1>3, KindIs
<1>5. \A p \in Pages : IsMeta(F, p) => NameAt(F, p) # n
  BY OriginsOfAre
<1> DEFINE page == WithMeta(BlankPage, n, 0)
<1>6. /\ page \in PageData /\ page[0] = Meta(n, 0)
      /\ \A i \in 1..(MetaBytes - 1) : page[i] = Zero
  BY BlankIs, WithMetaIs
<1> HIDE DEF page
<1>7. G \in [Pages -> PageData] /\ G[o] = page /\ \A p \in Pages : p # o => G[p] = F[p]
  BY <1>1, <1>3, <1>6 DEF page, SetPage
<1>8. IsMeta(G, o) /\ NameAt(G, o) = n /\ SizeAt(G, o) = 0 /\ EndOf(G, o) = o + PageCount(0)
  <2>1. G[o][0] = Meta(n, 0)
    BY <1>6, <1>7
  <2> QED
    BY <2>1, MetaSays
<1>9. EndOf(G, o) = o + 1
  BY <1>8, CountOne, Sizes
<1>10. FileAt(G, o)
  <2>1. Holds(G, o, n, 0)
    BY DEF Holds
  <2>2. EndOf(G, o) <= EndPage
    BY <1>2, <1>3, <1>9
  <2>3. 0 \in 0..MaxSize
    BY Sizes
  <2> QED
    BY <2>1, <2>2, <2>3, <1>6, <1>7, <1>8 DEF FileAt
<1>11. ASSUME NEW p \in Pages, IsMeta(G, p), p # o PROVE IsMeta(F, p) /\ Stays(F, G, p)
  <2>1. IsMeta(F, p)
    BY <1>7, <1>11 DEF IsMeta
  <2>2. EndOf(F, p) <= o /\ EndOf(F, p) \in Nat
    BY <2>1, <1>1, <1>2, SizeIs
  <2>3. Agree(F, G, p, EndOf(F, p))
    BY <2>2, <1>2, <1>7, PagesAre DEF Agree
  <2> QED
    BY <2>1, <2>3, AgreeStays
<1>12. FlashOK(G)
  <2>1. \A p \in Pages : IsMeta(G, p) /\ p # o => IsMeta(F, p) /\ Stays(F, G, p)
    BY <1>11
  <2>2. \A p \in Pages : IsMeta(F, p) /\ p # o =>
            p < o /\ EndOf(F, p) <= o /\ NameAt(F, p) # NameAt(G, o)
    BY <1>2, <1>5, <1>8
  <2>3. G \in [Pages -> PageData]
    BY <1>7
  <2> QED
    BY <2>1, <2>2, <2>3, <1>3, <1>10, FlashGrows
<1>13. MetaBytes \in 0..PageBytes /\ MetaBytes \in Nat \ {0} /\ PageBytes \in Nat \ {0}
  BY Sizes
<1>14. /\ file \in FileType
       /\ file = [used |-> TRUE, name |-> n, origin |-> o, size |-> 0,
                  rpage |-> o, rpos |-> MetaBytes, rdata |-> G[o],
                  wpage |-> o, wpos |-> MetaBytes, wdata |-> G[o]]
  <2>1. NameAt(G, o) \in Name /\ G \in [Pages -> PageData]
    BY <1>7, <1>8
  <2>2. /\ Opened(G, slot, o, o, MetaBytes, o, MetaBytes) \in FileType
        /\ Opened(G, slot, o, o, MetaBytes, o, MetaBytes) =
               [used |-> TRUE, name |-> NameAt(G, o), origin |-> o, size |-> SizeAt(G, o),
                rpage |-> o, rpos |-> MetaBytes, rdata |-> G[o],
                wpage |-> o, wpos |-> MetaBytes, wdata |-> G[o]]
    BY <2>1, <1>3, <1>13, OpenedIs
  <2> QED
    BY <2>2, <1>8 DEF CreatedFile
<1>15. /\ file.used = TRUE /\ file.name = n /\ file.origin = o /\ file.size = 0
       /\ file.wpage = o /\ file.wpos = MetaBytes /\ file.wdata = G[o]
  <2> HIDE DEF file
  <2> QED
    BY <1>14
<1>16. c \in ClientType /\ c.name = n /\ c.mode = "write" /\ c.next = 0
  BY Sizes DEF ClientType, NewClient
<1> HIDE DEF file, c
<1>17. \A p \in Pages : o < p => ~HasMagic(G, p) /\ ~IsMeta(G, p)
  <2>1. SUFFICES ASSUME NEW p \in Pages, o < p PROVE ~HasMagic(G, p) /\ ~IsMeta(G, p)
    OBVIOUS
  <2>2. G[p] = F[p] /\ ~HasMagic(F, p)
    BY <2>1, <1>2, <1>7, PagesAre
  <2>3. ~HasMagic(G, p)
    BY <2>2 DEF HasMagic
  <2> QED
    BY <2>3, <1>7, KindIs
<1>18. Writing(G, file, c)
  <2>1. (o - o) * PageBytes + MetaBytes = MetaBytes + 0 /\ o <= o /\ 1 <= MetaBytes /\ 0 <= 0
    BY <1>2, <1>13
  <2>2. \A k \in 0..(file.size - 1) : FALSE
    BY <1>15
  <2>3. (file.wpage - file.origin) * PageBytes + file.wpos = MetaBytes + file.size
    BY <2>1, <1>15, Zenon
  <2>4. /\ file.origin \in Pages /\ IsMeta(G, file.origin) /\ NameAt(G, file.origin) = c.name
        /\ SizeAt(G, file.origin) <= c.next /\ file.size = c.next
        /\ file.origin <= file.wpage /\ 1 <= file.wpos
    BY <2>1, <1>3, <1>8, <1>15, <1>16
  <2> QED
    BY <2>2, <2>3, <2>4, <1>15, <1>17 DEF Writing
<1>19. FdOK(G, {}, file, c)
  BY <1>15, <1>16, <1>18 DEF FdOK
<1> QED
  BY <1>2, <1>4, <1>5, <1>6, <1>7, <1>12, <1>14, <1>16, <1>19 DEF file, c

\* What nx_fs_close writes after the buffer: the metadata, with the new size.
LEMMA CloseWrites ==
    ASSUME NEW F, FlashOK(F), NEW file \in FileType, NEW c \in ClientType,
           Writing(F, file, c), c.name \in Name, file.name = c.name,
           file.wpage # EndPage, F[file.wpage] = file.wdata,
           NEW G, SetPage(F, G, file.origin,
                          WithMeta(F[file.origin], file.name, file.size))
    PROVE  /\ FlashOK(G)
           /\ G[file.origin][0] = Meta(c.name, file.size)
           /\ \A p \in Pages : p # file.origin => G[p] = F[p]
<1> DEFINE o == file.origin
           s == file.size
           page == WithMeta(F[o], file.name, s)
<1>1. /\ o \in Pages /\ o \in Nat /\ file.wpage \in Nat /\ IsMeta(F, o)
      /\ NameAt(F, o) = c.name /\ s \in Nat /\ s <= MaxSize
      /\ file.wpage = o + PageCount(s) - 1
      /\ \A p \in Pages : IsMeta(F, p) /\ p # o => p < o /\ EndOf(F, p) <= o
  BY WritingFile
<1>2. \A k \in 0..(s - 1) : Written(F, file, k) = Byte(c.name, k)
  BY DEF Writing
<1>3. F \in [Pages -> PageData] /\ F[o] \in PageData /\ OneEach(F)
  BY <1>1 DEF FlashOK
<1>4. /\ page \in PageData /\ page[0] = Meta(c.name, s)
      /\ \A i \in 1..(MetaBytes - 1) : page[i] = Zero
      /\ \A i \in MetaBytes..(PageBytes - 1) : page[i] = F[o][i]
  <2>1. file.name \in Name /\ s \in Nat /\ F[o] \in PageData
    BY <1>1, <1>3
  <2> HIDE DEF o, s
  <2>2. /\ page \in PageData /\ page[0] = Meta(file.name, s)
        /\ \A i \in 1..(MetaBytes - 1) : page[i] = Zero
        /\ \A i \in MetaBytes..(PageBytes - 1) : page[i] = F[o][i]
    BY <2>1, WithMetaIs
  <2> QED
    BY <2>2
<1> HIDE DEF page
<1>5. G \in [Pages -> PageData] /\ G[o] = page /\ \A p \in Pages : p # o => G[p] = F[p]
  BY <1>1, <1>3, <1>4 DEF page, SetPage
<1>6. IsMeta(G, o) /\ NameAt(G, o) = c.name /\ SizeAt(G, o) = s /\ EndOf(G, o) = o + PageCount(s)
  <2>1. G[o][0] = Meta(c.name, s)
    BY <1>4, <1>5
  <2> HIDE DEF o, s
  <2> QED
    BY <2>1, MetaSays
<1>7. EndOf(G, o) <= EndPage
  <2>1. file.wpage <= EndPage /\ EndPage \in Nat /\ PageCount(s) \in Nat
    BY <1>1, FileFields, Sizes, Counts
  <2> HIDE DEF o, s
  <2> QED
    BY <2>1, <1>1, <1>6
<1>8. Holds(G, o, c.name, s)
  <2>1. SUFFICES ASSUME NEW k \in 0..(s - 1)
                 PROVE  G[o + PageOf(k)][PosOf(k)] = Byte(c.name, k)
    BY DEF Holds
  <2>2. /\ o + PageOf(k) \in Pages /\ PosOf(k) \in 0..(PageBytes - 1) /\ PageOf(k) \in Nat
        /\ k \in Nat
    BY WritingPlace
  <2>3. F[o + PageOf(k)][PosOf(k)] = Byte(c.name, k)
    BY <1>2 DEF Written
  <2>4. CASE PageOf(k) = 0
    <3>1. PosOf(k) \in MetaBytes..(PageBytes - 1) /\ o + PageOf(k) = o
      BY <2>2, <2>4, <1>1, AfterMeta
    <3> QED
      BY <3>1, <2>3, <1>4, <1>5
  <2>5. CASE PageOf(k) # 0
    <3>1. o + PageOf(k) # o
      BY <2>2, <2>5, <1>1
    <3> QED
      BY <3>1, <2>2, <2>3, <1>5
  <2> QED
    BY <2>4, <2>5
<1>9. FileAt(G, o)
  <2>1. s \in 0..MaxSize
    BY <1>1, Sizes
  <2> QED
    BY <2>1, <1>4, <1>5, <1>6, <1>7, <1>8 DEF FileAt
<1>10. ASSUME NEW p \in Pages, IsMeta(G, p), p # o PROVE IsMeta(F, p) /\ Stays(F, G, p)
  <2>1. IsMeta(F, p)
    BY <1>5, <1>10 DEF IsMeta
  <2>2. EndOf(F, p) <= o /\ EndOf(F, p) \in Nat
    BY <2>1, <1>1, <1>3, <1>10, SizeIs
  <2>3. Agree(F, G, p, EndOf(F, p))
    BY <2>2, <1>1, <1>5, PagesAre DEF Agree
  <2> QED
    BY <2>1, <2>3, AgreeStays
<1>11. \A p \in Pages : IsMeta(F, p) /\ p # o =>
           p < o /\ EndOf(F, p) <= o /\ NameAt(F, p) # NameAt(G, o)
  BY <1>1, <1>3, <1>6 DEF OneEach
<1>12. FlashOK(G)
  <2> HIDE DEF o
  <2>1. \A p \in Pages : IsMeta(G, p) /\ p # o => IsMeta(F, p) /\ Stays(F, G, p)
    BY <1>10
  <2>2. G \in [Pages -> PageData] /\ o \in Pages
    BY <1>1, <1>5
  <2> QED
    BY <2>1, <2>2, <1>9, <1>11, FlashGrows
<1> QED
  BY <1>4, <1>5, <1>12

---------------------------------------------------------------------------
(* The other descriptors *)

\* Whoever does not write the file at o, or after it, does not notice.
LEMMA OthersKept ==
    ASSUME NEW F, FlashOK(F), NEW G, NEW o \in Pages,
           \A p \in Pages : p < o => G[p] = F[p],
           \A p \in Pages : IsMeta(F, p) /\ p # o => p < o /\ EndOf(F, p) <= o,
           NEW file \in FileType, NEW c \in ClientType, FdOK(F, {}, file, c),
           c.mode # "write", c.mode = "read" => file.origin # o
    PROVE  FdOK(G, {}, file, c)
<1>1. CASE c.mode = "read"
  <2>1. Reading(F, file, c)
    BY <1>1 DEF FdOK
  <2>2. file.origin \in Pages /\ IsMeta(F, file.origin) /\ EndOf(F, file.origin) \in Nat
    BY <2>1, ReadingFile DEF Reading
  <2>3. EndOf(F, file.origin) <= o
    BY <2>2, <1>1
  <2>4. Agree(F, G, file.origin, EndOf(F, file.origin))
    <3>1. SUFFICES ASSUME NEW q \in Pages, q < EndOf(F, file.origin) PROVE G[q] = F[q]
      BY DEF Agree
    <3>2. q < o
      BY <3>1, <2>2, <2>3, PagesAre
    <3> QED
      BY <3>2
  <2>5. Reading(G, file, c)
    BY <2>1, <2>4, ReadingKept
  <2> QED
    BY <2>5, <1>1 DEF FdOK
<1>2. CASE c.mode # "read"
  BY <1>2 DEF FdOK
<1> QED
  BY <1>1, <1>2

LEMMA WritingKept ==
    ASSUME NEW F, FlashOK(F), NEW G, NEW file \in FileType, NEW c \in ClientType,
           Writing(F, file, c), \A p \in Pages : file.origin <= p => G[p] = F[p]
    PROVE  Writing(G, file, c)
<1> DEFINE o == file.origin
           w == file.wpage
<1>1. /\ o \in Pages /\ o \in Nat /\ w \in Nat /\ w <= EndPage /\ EndPage \in Nat
      /\ FirstPage <= o /\ FirstPage \in Nat
  BY WritingFile, FileFields, Sizes, PagesAre
<1>2. o <= w
  BY DEF Writing
<1>3. G[o] = F[o]
  BY <1>1
<1>4. NameAt(G, o) = NameAt(F, o) /\ SizeAt(G, o) = SizeAt(F, o) /\ (IsMeta(G, o) <=> IsMeta(F, o))
  BY <1>3, SameMetaIs
<1>5. ASSUME NEW k \in 0..(file.size - 1) PROVE Written(G, file, k) = Written(F, file, k)
  <2>1. /\ PageOf(k) \in Nat /\ o + PageOf(k) \in Nat /\ o + PageOf(k) <= w
    BY WritingPlace
  <2>2. CASE o + PageOf(k) = w
    BY <2>2 DEF Written
  <2>3. CASE o + PageOf(k) # w
    <3>1. o + PageOf(k) \in Pages /\ o <= o + PageOf(k)
      BY <2>1, <2>3, <1>1, PagesAre
    <3>2. G[o + PageOf(k)] = F[o + PageOf(k)]
      BY <3>1
    <3> QED
      BY <2>3, <3>2 DEF Written
  <2> QED
    BY <2>2, <2>3
<1>6. \A p \in Pages : o < p => (IsMeta(G, p) <=> IsMeta(F, p))
  BY <1>1, PagesAre DEF IsMeta
<1>7. \A p \in Pages : w < p => (HasMagic(G, p) <=> HasMagic(F, p))
  <2>1. SUFFICES ASSUME NEW p \in Pages, w < p PROVE HasMagic(G, p) <=> HasMagic(F, p)
    OBVIOUS
  <2>2. G[p] = F[p]
    BY <2>1, <1>1, <1>2, PagesAre
  <2> QED
    BY <2>2 DEF HasMagic
<1> QED
  BY <1>3, <1>4, <1>5, <1>6, <1>7 DEF Writing

\* One page is erased, the first of those that remain.
Erases(F, G, E, m) ==
    /\ E \subseteq Pages /\ ErasingOK(F, E)
    /\ m \in E /\ \A p \in E : m <= p
    /\ SetPage(F, G, m, BlankPage)

Without(F, G, m) ==
    /\ ~IsMeta(G, m)
    /\ \A p \in Pages : p # m => G[p] = F[p]
    /\ \A o \in Pages : IsMeta(F, o) /\ o # m => Agree(F, G, o, EndOf(F, o))

LEMMA EraseKeeps ==
    ASSUME NEW F, FlashOK(F), NEW E, NEW m, NEW G, Erases(F, G, E, m)
    PROVE  FlashOK(G) /\ ErasingOK(G, E \ {m}) /\ Without(F, G, m)
<1>0. E \subseteq Pages /\ ErasingOK(F, E) /\ m \in E /\ \A p \in E : m <= p
  BY DEF Erases
<1>1. F \in [Pages -> PageData] /\ m \in Pages /\ m \in Nat /\ E \subseteq Nat
  BY <1>0, PagesAre DEF FlashOK
<1>2. G \in [Pages -> PageData] /\ G[m] = BlankPage /\ \A p \in Pages : p # m => G[p] = F[p]
  BY DEF Erases, SetPage
<1>3. ~IsMeta(G, m)
  BY <1>2, BlankIs, ZeroInPage DEF IsMeta
<1>4. ASSUME NEW o \in Pages, IsMeta(F, o), o # m PROVE Agree(F, G, o, EndOf(F, o))
  <2>1. o \in Nat /\ EndOf(F, o) \in Nat
    BY <1>1, SizeIs, PagesAre
  <2>2. ~(o <= m /\ m < EndOf(F, o))
    <3>1. SUFFICES ASSUME o <= m, m < EndOf(F, o) PROVE FALSE
      OBVIOUS
    <3>2. o \in E
      BY <3>1, <1>0, <1>1, <1>4 DEF ErasingOK
    <3> QED
      BY <3>1, <3>2, <2>1, <1>0, <1>1, <1>4
  <2> QED
    BY <2>2, <1>2 DEF Agree
<1>5. ASSUME NEW o \in Pages, IsMeta(G, o) PROVE IsMeta(F, o) /\ o # m /\ Stays(F, G, o)
  <2>1. o # m
    BY <1>3, <1>5
  <2>2. IsMeta(F, o)
    BY <2>1, <1>2, <1>5 DEF IsMeta
  <2> QED
    BY <2>1, <2>2, <1>4, AgreeStays
<1>6. FlashOK(G)
  BY <1>2, <1>5, FlashStays
<1>7. ErasingOK(G, E \ {m})
  <2>1. SUFFICES ASSUME NEW p \in E \ {m}, NEW o \in Pages,
                        IsMeta(G, o), o <= p, p < EndOf(G, o)
                 PROVE  o \in E \ {m}
    BY DEF ErasingOK
  <2>2. IsMeta(F, o) /\ o # m /\ G[o] = F[o]
    BY <2>1, <1>2, <1>5
  <2>3. EndOf(G, o) = EndOf(F, o)
    BY <2>2, SameMetaIs
  <2> QED
    BY <2>1, <2>2, <2>3, <1>0 DEF ErasingOK
<1>8. Without(F, G, m)
  BY <1>2, <1>3, <1>4 DEF Without
<1> QED
  BY <1>6, <1>7, <1>8

LEMMA EraseKeepsFd ==
    ASSUME NEW F, FlashOK(F), NEW E, NEW m, NEW G, Erases(F, G, E, m),
           NEW file \in FileType, NEW c \in ClientType, FdOK(F, E, file, c)
    PROVE  FdOK(G, E \ {m}, file, c)
<1>1. m \in Pages /\ m \in Nat /\ m \in E
  BY PagesAre DEF Erases
<1>2. /\ \A p \in Pages : p # m => G[p] = F[p]
      /\ \A o \in Pages : IsMeta(F, o) /\ o # m => Agree(F, G, o, EndOf(F, o))
  <2>1. Without(F, G, m)
    BY EraseKeeps
  <2> QED
    BY <2>1 DEF Without
<1>3. CASE c.mode = "read"
  <2>1. Reading(F, file, c) /\ file.origin \notin E
    BY <1>3 DEF FdOK
  <2>2. file.origin \in Pages /\ IsMeta(F, file.origin)
    BY <2>1, ReadingFile DEF Reading
  <2>3. Agree(F, G, file.origin, EndOf(F, file.origin))
    BY <2>1, <2>2, <1>1, <1>2
  <2>4. Reading(G, file, c)
    BY <2>1, <2>3, ReadingKept
  <2> QED
    BY <2>1, <2>4, <1>3 DEF FdOK
<1>4. CASE c.mode = "write"
  <2>1. Writing(F, file, c) /\ \A p \in E : p < file.origin
    BY <1>4 DEF FdOK
  <2>2. \A p \in Pages : file.origin <= p => G[p] = F[p]
    <3>1. SUFFICES ASSUME NEW p \in Pages, file.origin <= p PROVE G[p] = F[p]
      OBVIOUS
    <3>2. m < file.origin /\ file.origin \in Nat /\ p \in Nat
      BY <2>1, <1>1, FileFields, PagesAre
    <3> QED
      BY <3>1, <3>2, <1>1, <1>2
  <2>3. Writing(G, file, c)
    BY <2>1, <2>2, WritingKept
  <2> QED
    BY <2>1, <2>3, <1>4 DEF FdOK
<1>5. CASE c.mode = "none"
  BY <1>5 DEF FdOK
<1> QED
  BY <1>3, <1>4, <1>5, ClientFields

\* A descriptor that is free again.
LEMMA NoFileIs ==
    ASSUME NEW F, NEW E, NEW n \in Name \cup {NoName}
    PROVE  NoFile(n) \in FileType /\ NoClient \in ClientType /\ FdOK(F, E, NoFile(n), NoClient)
<1>1. n \in Seq(STRING)
  BY NamesAre
<1>2. 0 \in 0..EndPage /\ 0 \in 0..PageBytes /\ 0 \in 0..MaxSize /\ BlankPage \in PageData
  BY Sizes, BlankIs
<1>3. NoFile(n) \in FileType
  BY <1>1, <1>2 DEF NoFile, FileType
<1>4. NoClient \in ClientType
  BY <1>2 DEF NoClient, ClientType
<1>5. /\ NoFile(n).used = FALSE /\ NoFile(n).name = n
      /\ NoClient.name = NoName /\ NoClient.mode = "none"
  BY DEF NoFile, NoClient
<1> QED
  BY <1>3, <1>4, <1>5 DEF FdOK

---------------------------------------------------------------------------
(* Steps *)

\* The files of G are those of F, but for what the step does to the one at o.
OthersSame(F, G, o) ==
    \A p \in Pages : p # o /\ (IsMeta(F, p) \/ IsMeta(G, p)) => G[p][0] = F[p][0]

AllSame(F, G) == \A p \in Pages : IsMeta(F, p) \/ IsMeta(G, p) => G[p][0] = F[p][0]

Adds(F, G, o, n) == ~IsMeta(F, o) /\ n \notin NamesOn(F) /\ G[o][0] = Meta(n, 0)

Extends(F, G, o, t) == IsMeta(F, o) /\ SizeAt(F, o) <= t /\ G[o][0] = Meta(NameAt(F, o), t)

FlashStep(F, G) ==
    \/ AllSame(F, G)
    \/ \E o \in Pages, n \in Name : OthersSame(F, G, o) /\ Adds(F, G, o, n)
    \/ \E o \in Pages, t \in Nat : OthersSame(F, G, o) /\ Extends(F, G, o, t)
    \/ \E o \in Pages : OthersSame(F, G, o) /\ IsMeta(F, o) /\ ~IsMeta(G, o)

\* Whatever a step does to the flash is a step of FileStore.
LEMMA StoreStep ==
    ASSUME NEW F, FlashOK(F), NEW G, FlashOK(G), NEW fs, NEW gs,
           AreFiles(F, fs), AreFiles(G, gs), FlashStep(F, G)
    PROVE  Store!Step(fs, gs)
<1>1. CASE AllSame(F, G)
  <2>1. gs = fs
    BY <1>1, SameFiles DEF AllSame
  <2> QED
    BY <2>1 DEF Store!Step, Store!Nothing
<1>2. CASE \E o \in Pages, n \in Name : OthersSame(F, G, o) /\ Adds(F, G, o, n)
  <2>1. PICK o \in Pages, n \in Name : OthersSame(F, G, o) /\ Adds(F, G, o, n)
    BY <1>2
  <2>2. Store!Create(n, fs, gs)
    BY <2>1, CreatesFile DEF OthersSame, Adds
  <2> QED
    BY <2>2 DEF Store!Step
<1>3. CASE \E o \in Pages, t \in Nat : OthersSame(F, G, o) /\ Extends(F, G, o, t)
  <2>1. PICK o \in Pages, t \in Nat : OthersSame(F, G, o) /\ Extends(F, G, o, t)
    BY <1>3
  <2>2. IsMeta(F, o) /\ NameAt(F, o) \in Name /\ SizeAt(F, o) \in Nat /\ OneEach(F)
    BY <2>1, SizeIs DEF Extends, FlashOK, FileAt
  <2>3. Store!Save(NameAt(F, o), fs, gs)
    BY <2>1, <2>2, SavesFile DEF OthersSame, Extends
  <2> QED
    BY <2>2, <2>3 DEF Store!Step
<1>4. CASE \E o \in Pages : OthersSame(F, G, o) /\ IsMeta(F, o) /\ ~IsMeta(G, o)
  <2>1. PICK o \in Pages : OthersSame(F, G, o) /\ IsMeta(F, o) /\ ~IsMeta(G, o)
    BY <1>4
  <2>2. NameAt(F, o) \in Name /\ OneEach(F)
    BY <2>1 DEF FlashOK, FileAt
  <2>3. Store!Remove(NameAt(F, o), fs, gs)
    BY <2>1, <2>2, RemovesFile DEF OthersSame
  <2> QED
    BY <2>2, <2>3 DEF Store!Step
<1> QED
  BY <1>1, <1>2, <1>3, <1>4 DEF FlashStep

\* The program keeps all the rules.
Careful == Rules = AllRules

LEMMA RulesAre ==
    ASSUME Careful
    PROVE  /\ "last_grows" \in Rules /\ "no_rewrite" \in Rules
           /\ "exclusive" \in Rules /\ "room" \in Rules
BY DEF Careful, AllRules

Sets(f, g, x, v) == g = [f EXCEPT ![x] = v]

\* What client fd becomes lets it write alone, if it writes.
Joins(C, fd, c) ==
    \A g \in Fd : g # fd =>
        /\ c.mode = "write" => C[g].mode # "write" /\ (C[g].mode = "none" \/ C[g].name # c.name)
        /\ C[g].mode = "write" => c.mode = "none" \/ C[g].name # c.name

\* One descriptor changes, and perhaps the flash.
LEMMA OneMoves ==
    ASSUME NEW S \in [Fd -> FileType], NEW C \in [Fd -> ClientType], Alone(C),
           NEW G, FlashOK(G), NEW E, E \subseteq Pages, ErasingOK(G, E),
           NEW fd \in Fd, NEW file \in FileType, NEW c \in ClientType,
           NEW S2, Sets(S, S2, fd, file), NEW C2, Sets(C, C2, fd, c),
           FdOK(G, E, file, c), Joins(C, fd, c),
           \A g \in Fd : g # fd => FdOK(G, E, S[g], C[g])
    PROVE  Inv(G, S2, C2, E)
<1>1. S2 \in [Fd -> FileType] /\ S2[fd] = file /\ \A g \in Fd : g # fd => S2[g] = S[g]
  BY DEF Sets
<1>2. C2 \in [Fd -> ClientType] /\ C2[fd] = c /\ \A g \in Fd : g # fd => C2[g] = C[g]
  BY DEF Sets
<1>3. \A g \in Fd : FdOK(G, E, S2[g], C2[g])
  BY <1>1, <1>2
<1>4. Alone(C2)
  <2>1. SUFFICES ASSUME NEW f \in Fd, NEW g \in Fd, C2[f].mode = "write", f # g
                 PROVE  C2[g].mode # "write" /\ (C2[g].mode = "none" \/ C2[f].name # C2[g].name)
    BY DEF Alone
  <2>2. CASE f = fd
    BY <2>1, <2>2, <1>2 DEF Joins
  <2>3. CASE g = fd
    BY <2>1, <2>3, <1>2 DEF Joins
  <2>4. CASE f # fd /\ g # fd
    BY <2>1, <2>4, <1>2 DEF Alone
  <2> QED
    BY <2>2, <2>3, <2>4
<1> QED
  BY <1>1, <1>2, <1>3, <1>4 DEF Inv

LEMMA JoinsAgain ==
    ASSUME NEW C, Alone(C), NEW fd \in Fd, NEW c, c.mode = C[fd].mode, c.name = C[fd].name
    PROVE  Joins(C, fd, c)
BY DEF Joins, Alone

LEMMA NothingErased ==
    ASSUME NEW F
    PROVE  ErasingOK(F, {})
BY DEF ErasingOK

LEMMA SlotIsFree ==
    ASSUME FsInv, HasSlot
    PROVE  /\ Slot \in Fd /\ ~fdset[Slot].used
           /\ client[Slot].mode = "none" /\ fdset[Slot].name \in Name \cup {NoName}
<1> DEFINE T == {fd \in Fd : ~fdset[fd].used}
<1>1. T \subseteq Nat /\ T # {}
  BY FileSystemAssumption DEF HasSlot
<1>2. Slot \in T
  BY <1>1, MinIs DEF Slot
<1>3. Slot \in Fd /\ ~fdset[Slot].used
  BY <1>2
<1>4. FdOK(flash, erasing, fdset[Slot], client[Slot])
  BY <1>3 DEF FsInv, Inv
<1> QED
  BY <1>3, <1>4 DEF FdOK

LEMMA WhileCalling ==
    ASSUME FsInv, Calling
    PROVE  /\ erasing = {} /\ ~halted
           /\ fdset \in [Fd -> FileType] /\ client \in [Fd -> ClientType]
           /\ FlashOK(flash) /\ flash \in [Pages -> PageData] /\ Alone(client)
           /\ \A fd \in Fd : FdOK(flash, {}, fdset[fd], client[fd])
BY DEF FsInv, Inv, Calling, FlashOK

---------------------------------------------------------------------------
(* Opening *)

LEMMA CreateStep ==
    ASSUME Careful, OneLength, AlikeFits, FsInv, NEW name \in Name, Create(name)
    PROVE  FsInv' /\ FlashStep(flash, flash')
<1>1. /\ fdset \in [Fd -> FileType] /\ client \in [Fd -> ClientType]
      /\ FlashOK(flash) /\ flash \in [Pages -> PageData] /\ Alone(client)
      /\ \A fd \in Fd : FdOK(flash, {}, fdset[fd], client[fd])
  BY WhileCalling DEF Create
<1>2. /\ Slot \in Fd /\ fdset[Slot].name \in Name \cup {NoName}
  BY SlotIsFree DEF Create
<1>3. erasing = {} /\ erasing' = {} /\ halted' = halted /\ halted \in BOOLEAN
  BY DEF Create, Calling, FsInv
<1>4. \A g \in Fd : client[g].mode # "write"
  BY RulesAre DEF Create, Keeps, Writers
<1>5. OriginsOf(flash, name) = {} /\ NewOrigin < EndPage
  BY DEF Create
<1> DEFINE o == NewOrigin
<1>6. o \in Pages /\ IsFree(flash, o)
  <2>1. o \in Nat /\ FirstPage <= o
    BY <1>1, FreeIs DEF NewOrigin
  <2> QED
    BY <2>1, <1>5, PagesAre DEF IsFree, NewOrigin
<1>7. flash' = [flash EXCEPT ![o] = WithMeta(BlankPage, name, 0)]
  BY DEF Create
<1>8. Sets(fdset, fdset', Slot, CreatedFile(flash', Slot, o))
  BY <1>7 DEF Create, Sets, CreatedFile
<1>9. Sets(client, client', Slot, NewClient(name, "write", 0))
  BY DEF Create, Remembers, Sets, NewClient
<1>10. SetPage(flash, flash', o, WithMeta(BlankPage, name, 0))
  <2>1. WithMeta(BlankPage, name, 0) \in PageData
    BY BlankIs, WithMetaIs
  <2> QED
    BY <2>1, <1>1, <1>6, <1>7, SetPageIs
<1> HIDE DEF o
<1>11. /\ FlashOK(flash') /\ ~IsMeta(flash, o) /\ flash'[o][0] = Meta(name, 0)
       /\ \A p \in Pages : IsMeta(flash, p) =>
              p < o /\ EndOf(flash, p) <= o /\ NameAt(flash, p) # name
       /\ CreatedFile(flash', Slot, o) \in FileType
       /\ NewClient(name, "write", 0) \in ClientType
       /\ FdOK(flash', {}, CreatedFile(flash', Slot, o), NewClient(name, "write", 0))
  BY <1>1, <1>2, <1>5, <1>6, <1>10, CreateWrites
<1>12. \A p \in Pages : p # o => flash'[p] = flash[p]
  BY <1>10 DEF SetPage
<1>13. ASSUME NEW g \in Fd
       PROVE  /\ client[g].mode = "read" => IsMeta(flash, fdset[g].origin)
                  /\ fdset[g].origin \in Pages /\ NameAt(flash, fdset[g].origin) = client[g].name
              /\ client[g].mode = "read" => fdset[g].origin # o
              /\ client[g].mode # "none" => client[g].name # name
  <2>1. fdset[g] \in FileType /\ client[g] \in ClientType /\ FdOK(flash, {}, fdset[g], client[g])
    BY <1>1
  <2>2. client[g].mode \in {"none", "read"}
    BY <2>1, <1>4, ClientFields
  <2>3. client[g].mode = "read" => IsMeta(flash, fdset[g].origin)
                  /\ fdset[g].origin \in Pages /\ NameAt(flash, fdset[g].origin) = client[g].name
    BY <2>1, <1>1, ReadingFile DEF FdOK, Reading
  <2> QED
    BY <2>2, <2>3, <1>11
<1>14. \A g \in Fd : FdOK(flash', {}, fdset[g], client[g])
  <2>1. SUFFICES ASSUME NEW g \in Fd PROVE FdOK(flash', {}, fdset[g], client[g])
    OBVIOUS
  <2>2. \A p \in Pages : p < o => flash'[p] = flash[p]
    BY <1>6, <1>12, PagesAre
  <2>3. \A p \in Pages : IsMeta(flash, p) /\ p # o => p < o /\ EndOf(flash, p) <= o
    BY <1>11
  <2>4. fdset[g] \in FileType /\ client[g] \in ClientType /\ FdOK(flash, {}, fdset[g], client[g])
    BY <1>1
  <2>5. client[g].mode # "write" /\ (client[g].mode = "read" => fdset[g].origin # o)
    BY <1>4, <1>13
  <2> QED
    BY <2>2, <2>3, <2>4, <2>5, <1>1, <1>6, OthersKept
<1>15. Joins(client, Slot, NewClient(name, "write", 0))
  <2>1. NewClient(name, "write", 0).name = name /\ NewClient(name, "write", 0).mode = "write"
    BY DEF NewClient
  <2> QED
    BY <2>1, <1>4, <1>13 DEF Joins
<1>16. Inv(flash', fdset', client', {})
  BY <1>1, <1>2, <1>8, <1>9, <1>11, <1>14, <1>15, NothingErased, OneMoves
<1>17. FlashStep(flash, flash')
  <2>1. OthersSame(flash, flash', o)
    BY <1>12 DEF OthersSame
  <2>2. name \notin NamesOn(flash)
    BY <1>11 DEF NamesOn
  <2>3. Adds(flash, flash', o, name)
    BY <2>2, <1>11 DEF Adds
  <2> QED
    BY <2>1, <2>3, <1>6 DEF FlashStep
<1> QED
  BY <1>3, <1>16, <1>17 DEF FsInv

\* The flash is what it was.
LEMMA FlashSame ==
    ASSUME NEW F
    PROVE  FlashStep(F, F)
BY DEF FlashStep, AllSame

LEMMA OpenStep ==
    ASSUME Careful, OneLength, AlikeFits, FsInv, NEW name \in Name, NEW mode, Open(name, mode)
    PROVE  FsInv' /\ FlashStep(flash, flash')
<1>1. /\ fdset \in [Fd -> FileType] /\ client \in [Fd -> ClientType]
      /\ FlashOK(flash) /\ Alone(client)
      /\ \A fd \in Fd : FdOK(flash, {}, fdset[fd], client[fd])
  BY WhileCalling DEF Open
<1>2. /\ Slot \in Fd /\ fdset[Slot].name \in Name \cup {NoName}
  BY SlotIsFree DEF Open
<1>3. erasing' = {} /\ halted' = halted /\ halted \in BOOLEAN /\ flash' = flash
  BY DEF Open, Calling, FsInv
<1>4. mode = "read" /\ InUse(name) \cap Writers = {}
  BY RulesAre DEF Open, Keeps
<1> DEFINE o == Min(OriginsOf(flash, name))
           file == Opened(flash, Slot, o, o, MetaBytes, o, MetaBytes)
           c == [name |-> NameAt(flash, o), mode |-> "read", next |-> 0]
<1>5. OriginsOf(flash, name) # {}
  BY DEF Open
<1>6. o \in Pages /\ IsMeta(flash, o) /\ NameAt(flash, o) = name
  BY <1>1, <1>5, OriginOfOpen
<1>7. Sets(fdset, fdset', Slot, file)
  BY DEF Open, Sets
<1>8. Sets(client, client', Slot, c)
  BY <1>4, <1>6 DEF Open, Remembers, Sets
<1> HIDE DEF o
<1>9. file \in FileType /\ c \in ClientType /\ FdOK(flash, {}, file, c)
  BY <1>1, <1>2, <1>6, OpenReads
<1>10. c.mode = "read" /\ c.name = name
  BY <1>6
<1> HIDE DEF file, c
<1>11. Joins(client, Slot, c)
  <2>1. \A g \in Fd : client[g].mode = "write" => client[g].name # name
    BY <1>4 DEF InUse, Writers
  <2> QED
    BY <2>1, <1>10 DEF Joins
<1>12. Inv(flash, fdset', client', {})
  BY <1>1, <1>2, <1>7, <1>8, <1>9, <1>11, NothingErased, OneMoves
<1> QED
  BY <1>3, <1>12, FlashSame DEF FsInv

LEMMA OpenAppendStep ==
    ASSUME Careful, OneLength, AlikeFits, FsInv, NEW name \in Name, OpenAppend(name)
    PROVE  FsInv' /\ FlashStep(flash, flash')
<1>1. /\ fdset \in [Fd -> FileType] /\ client \in [Fd -> ClientType]
      /\ FlashOK(flash) /\ Alone(client)
      /\ \A fd \in Fd : FdOK(flash, {}, fdset[fd], client[fd])
  BY WhileCalling DEF OpenAppend
<1>2. /\ Slot \in Fd /\ fdset[Slot].name \in Name \cup {NoName}
  BY SlotIsFree DEF OpenAppend
<1>3. erasing' = {} /\ halted' = halted /\ halted \in BOOLEAN /\ flash' = flash
  BY DEF OpenAppend, Calling, FsInv
<1> DEFINE o == Min(OriginsOf(flash, name))
           s == SizeAt(flash, o)
<1>4. OriginsOf(flash, name) # {}
  BY DEF OpenAppend
<1>5. o \in Pages /\ IsMeta(flash, o) /\ NameAt(flash, o) = name
  BY <1>1, <1>4, OriginOfOpen
<1>6. /\ InUse(name) \cup Writers = {}
      /\ IsLast(flash, o)
      /\ (MetaBytes + s) % PageBytes # 0
  BY RulesAre DEF OpenAppend, Keeps, IsLast
<1>7. Sets(fdset, fdset', Slot, AppendFile(flash, Slot, o))
  BY DEF OpenAppend, Sets, AppendFile
<1>8. Sets(client, client', Slot, NewClient(NameAt(flash, o), "write", s))
  BY <1>5 DEF OpenAppend, Remembers, Sets, NewClient
<1> HIDE DEF o
<1>9. /\ AppendFile(flash, Slot, o) \in FileType
      /\ NewClient(NameAt(flash, o), "write", s) \in ClientType
      /\ FdOK(flash, {}, AppendFile(flash, Slot, o), NewClient(NameAt(flash, o), "write", s))
  BY <1>1, <1>2, <1>5, <1>6, AppendWrites
<1> DEFINE c == NewClient(NameAt(flash, o), "write", s)
<1>10. c.mode = "write" /\ c.name = name
  BY <1>5 DEF NewClient
<1>11. Joins(client, Slot, c)
  <2>1. \A g \in Fd : client[g].mode # "write" /\ client[g].name # name
    BY <1>6 DEF InUse, Writers
  <2> HIDE DEF c
  <2> QED
    BY <2>1, <1>10 DEF Joins
<1>12. Inv(flash, fdset', client', {})
  <2> HIDE DEF s
  <2> QED
    BY <1>1, <1>2, <1>7, <1>8, <1>9, <1>11, NothingErased, OneMoves
<1> QED
  BY <1>3, <1>12, FlashSame DEF FsInv

---------------------------------------------------------------------------
(* Reading *)

LEMMA ReadStep ==
    ASSUME FsInv, NEW fd \in Fd, Read(fd)
    PROVE  FsInv' /\ FlashStep(flash, flash')
<1>1. /\ fdset \in [Fd -> FileType] /\ client \in [Fd -> ClientType]
      /\ FlashOK(flash) /\ Alone(client)
      /\ \A g \in Fd : FdOK(flash, {}, fdset[g], client[g])
  BY WhileCalling DEF Read
<1>2. erasing' = {} /\ halted' = halted /\ halted \in BOOLEAN /\ flash' = flash
  BY DEF Read, Calling, FsInv
<1> DEFINE file == fdset[fd]
           c == client[fd]
           new == IF TurnsPage(file)
                  THEN [file EXCEPT !.rpage = @ + 1, !.rpos = 1,
                                    !.rdata = flash[file.rpage + 1]]
                  ELSE [file EXCEPT !.rpos = @ + 1]
           d == [c EXCEPT !.next = @ + 1]
<1>3. c.mode = "read" /\ c.next < file.size
  BY DEF Read
<1>4. Sets(fdset, fdset', fd, new)
  BY DEF Read, Sets
<1>5. Sets(client, client', fd, d)
  BY DEF Read, Sets
<1>6. file \in FileType /\ c \in ClientType /\ FdOK(flash, {}, file, c)
  BY <1>1
<1>7. new \in FileType /\ d \in ClientType /\ FdOK(flash, {}, new, d)
  <2> HIDE DEF file, c
  <2> QED
    BY <1>1, <1>3, <1>6, ReadReads
<1>8. d.mode = c.mode /\ d.name = c.name
  <2> HIDE DEF c
  <2> QED
    BY <1>6 DEF ClientType
<1> HIDE DEF new, d
<1>9. Joins(client, fd, d)
  BY <1>1, <1>8, JoinsAgain
<1>10. Inv(flash, fdset', client', {})
  BY <1>1, <1>4, <1>5, <1>7, <1>9, NothingErased, OneMoves
<1> QED
  BY <1>2, <1>10, FlashSame DEF FsInv

LEMMA SeekStep ==
    ASSUME FsInv, NEW fd \in Fd, NEW k \in 0..MaxSize, Seek(fd, k)
    PROVE  FsInv' /\ FlashStep(flash, flash')
<1>1. /\ fdset \in [Fd -> FileType] /\ client \in [Fd -> ClientType]
      /\ FlashOK(flash) /\ Alone(client)
      /\ \A g \in Fd : FdOK(flash, {}, fdset[g], client[g])
  BY WhileCalling DEF Seek
<1>2. erasing' = {} /\ erasing = {} /\ halted' \in BOOLEAN /\ flash' = flash
  BY DEF Seek, Calling, FsInv
<1> DEFINE file == fdset[fd]
           c == client[fd]
           page == file.origin + PageOf(k)
           new == [file EXCEPT !.rpage = page, !.rpos = PosOf(k),
                               !.rdata = IF page = file.rpage THEN file.rdata ELSE flash[page]]
           d == [c EXCEPT !.next = k]
<1>3. c.mode = "read" /\ k <= file.size
  BY DEF Seek
<1>4. CASE page = EndPage
  <2>1. fdset' = fdset /\ client' = client
    BY <1>4 DEF Seek, PageOf
  <2> QED
    BY <2>1, <1>2, FlashSame DEF FsInv
<1>5. CASE page # EndPage
  <2>1. Sets(fdset, fdset', fd, new)
    BY <1>5 DEF Seek, Sets, PageOf, PosOf, SoughtData
  <2>2. Sets(client, client', fd, d)
    BY <1>5 DEF Seek, Sets, PageOf
  <2>3. file \in FileType /\ c \in ClientType /\ FdOK(flash, {}, file, c)
    BY <1>1
  <2>4. new \in FileType /\ d \in ClientType /\ FdOK(flash, {}, new, d)
    <3> HIDE DEF file, c
    <3> QED
      BY <1>1, <1>3, <1>5, <2>3, SeekReads
  <2>5. d.mode = c.mode /\ d.name = c.name
    <3> HIDE DEF c
    <3> QED
      BY <2>3 DEF ClientType
  <2> HIDE DEF new, d
  <2>6. Joins(client, fd, d)
    BY <1>1, <2>5, JoinsAgain
  <2>7. Inv(flash, fdset', client', {})
    BY <1>1, <2>1, <2>2, <2>4, <2>6, NothingErased, OneMoves
  <2> QED
    BY <1>2, <2>7, FlashSame DEF FsInv
<1> QED
  BY <1>4, <1>5

---------------------------------------------------------------------------
(* Writing *)

\* The others, when fd writes its file.
LEMMA WhileWriting ==
    ASSUME NEW F, FlashOK(F), NEW S \in [Fd -> FileType], NEW C \in [Fd -> ClientType],
           Alone(C), \A g \in Fd : FdOK(F, {}, S[g], C[g]),
           NEW fd \in Fd, C[fd].mode = "write",
           NEW G, \A p \in Pages : p < S[fd].origin => G[p] = F[p]
    PROVE  \A g \in Fd : g # fd => FdOK(G, {}, S[g], C[g])
<1>1. SUFFICES ASSUME NEW g \in Fd, g # fd PROVE FdOK(G, {}, S[g], C[g])
  OBVIOUS
<1> DEFINE o == S[fd].origin
<1>2. S[fd] \in FileType /\ C[fd] \in ClientType /\ Writing(F, S[fd], C[fd])
  BY DEF FdOK
<1>3. /\ o \in Pages /\ NameAt(F, o) = C[fd].name
      /\ \A p \in Pages : IsMeta(F, p) /\ p # o => p < o /\ EndOf(F, p) <= o
  BY <1>2, WritingFile
<1>4. S[g] \in FileType /\ C[g] \in ClientType /\ FdOK(F, {}, S[g], C[g])
  OBVIOUS
<1>5. C[g].mode # "write" /\ (C[g].mode # "none" => C[g].name # C[fd].name)
  BY <1>1 DEF Alone
<1>6. C[g].mode = "read" => S[g].origin # o
  <2>1. C[g].mode = "read" => NameAt(F, S[g].origin) = C[g].name
    BY <1>4, ReadingFile DEF FdOK
  <2> QED
    BY <2>1, <1>3, <1>5
<1>7. \A p \in Pages : p < o => G[p] = F[p]
  OBVIOUS
<1> HIDE DEF o
<1> QED
  BY <1>3, <1>4, <1>5, <1>6, <1>7, OthersKept

LEMMA FlushStep ==
    ASSUME FsInv, NEW fd \in Fd, Flush(fd)
    PROVE  FsInv' /\ FlashStep(flash, flash')
<1>1. /\ fdset \in [Fd -> FileType] /\ client \in [Fd -> ClientType]
      /\ FlashOK(flash) /\ flash \in [Pages -> PageData] /\ Alone(client)
      /\ \A g \in Fd : FdOK(flash, {}, fdset[g], client[g])
  BY WhileCalling DEF Flush
<1>2. erasing' = {} /\ erasing = {} /\ halted' \in BOOLEAN /\ fdset' = fdset /\ client' = client
  BY DEF Flush, Calling, FsInv
<1> DEFINE file == fdset[fd]
           c == client[fd]
<1>3. c.mode = "write"
  BY DEF Flush
<1>4. CASE file.wpage = EndPage
  <2>1. flash' = flash
    BY <1>4 DEF Flush
  <2> QED
    BY <2>1, <1>2, FlashSame DEF FsInv
<1>5. CASE file.wpage # EndPage
  <2>1. file \in FileType /\ c \in ClientType /\ FdOK(flash, {}, file, c)
    BY <1>1
  <2>2. Writing(flash, file, c)
    BY <2>1, <1>3 DEF FdOK
  <2>3. flash' = [flash EXCEPT ![file.wpage] = file.wdata]
    BY <1>5 DEF Flush
  <2>4. file.wpage \in Pages /\ file.wdata \in PageData
    <3>1. /\ file.origin \in Pages /\ file.origin <= file.wpage
      BY <2>2 DEF Writing
    <3>2. file.wpage \in Nat /\ file.wpage <= EndPage /\ file.wdata \in PageData
      BY <2>1, FileFields
    <3> HIDE DEF file
    <3>3. FirstPage <= file.origin /\ file.origin \in Nat /\ FirstPage \in Nat /\ EndPage \in Nat
      BY <3>1, PagesAre, Sizes
    <3> QED
      BY <3>1, <3>2, <3>3, <1>5, PagesAre
  <2>5. SetPage(flash, flash', file.wpage, file.wdata)
    BY <2>3, <2>4, <1>1, SetPageIs
  <2> HIDE DEF file, c
  <2>6. /\ FlashOK(flash') /\ Writing(flash', file, c)
        /\ \A p \in Pages : p < file.origin => flash'[p] = flash[p]
        /\ AllSame(flash, flash')
    <3>1. file \in FileType /\ c \in ClientType /\ FlashOK(flash) /\ file.wpage # EndPage
      BY <2>1, <1>1, <1>5
    <3>2. /\ FlashOK(flash') /\ Writing(flash', file, c)
          /\ \A p \in Pages : p < file.origin => flash'[p] = flash[p]
          /\ \A p \in Pages : IsMeta(flash, p) \/ IsMeta(flash', p) => flash'[p][0] = flash[p][0]
      BY <3>1, <2>2, <2>5, FlushWrites
    <3> QED
      BY <3>2 DEF AllSame
  <2>7. \A g \in Fd : g # fd => FdOK(flash', {}, fdset[g], client[g])
    <3>1. client[fd].mode = "write" /\ \A p \in Pages : p < fdset[fd].origin => flash'[p] = flash[p]
      BY <2>6, <1>3 DEF file, c
    <3> QED
      BY <3>1, <1>1, WhileWriting
  <2>8. FdOK(flash', {}, file, c)
    BY <2>1, <2>6, <1>3 DEF FdOK
  <2>9. Inv(flash', fdset, client, {})
    BY <2>6, <2>7, <2>8, <1>1, NothingErased DEF Inv, file, c
  <2> QED
    BY <2>6, <2>9, <1>2 DEF FsInv, FlashStep
<1> QED
  BY <1>4, <1>5

LEMMA WriterPage ==
    ASSUME NEW F, NEW file \in FileType, NEW c, Writing(F, file, c), file.wpage # EndPage
    PROVE  file.wpage \in Pages /\ file.wdata \in PageData
<1>1. /\ file.origin \in Pages /\ file.origin <= file.wpage
  BY DEF Writing
<1>2. file.wpage \in Nat /\ file.wpage <= EndPage /\ file.wdata \in PageData
  BY FileFields
<1>3. FirstPage <= file.origin /\ file.origin \in Nat /\ FirstPage \in Nat /\ EndPage \in Nat
  BY <1>1, PagesAre, Sizes
<1> QED
  BY <1>1, <1>2, <1>3, PagesAre

LEMMA WriteStep ==
    ASSUME FsInv, NEW fd \in Fd, Write(fd)
    PROVE  FsInv' /\ FlashStep(flash, flash')
<1>1. /\ fdset \in [Fd -> FileType] /\ client \in [Fd -> ClientType]
      /\ FlashOK(flash) /\ flash \in [Pages -> PageData] /\ Alone(client)
      /\ \A g \in Fd : FdOK(flash, {}, fdset[g], client[g])
  BY WhileCalling DEF Write
<1>2. erasing' = {} /\ erasing = {} /\ halted' \in BOOLEAN
  BY DEF Write, Calling, FsInv
<1> DEFINE file == fdset[fd]
           c == client[fd]
           turns == file.wpos = PageBytes
           pages == PageCount(file.size) - 1 + (IF turns THEN 1 ELSE 0)
           new == Put(Turned(file), Byte(c.name, c.next), pages)
           d == [c EXCEPT !.next = @ + 1]
<1>3. c.mode = "write" /\ c.next < MaxSize
  BY DEF Write
<1>4. /\ file \in FileType /\ c \in ClientType /\ FdOK(flash, {}, file, c)
      /\ Writing(flash, file, c) /\ c.name \in Name /\ file.name = c.name
  <2>1. file \in FileType /\ c \in ClientType /\ FdOK(flash, {}, file, c)
    BY <1>1
  <2> QED
    BY <2>1, <1>3 DEF FdOK
<1>5. ~MustRelocate(file)
  <2>1. 1 <= file.wpos
    BY <1>4 DEF Writing
  <2> QED
    BY <2>1 DEF MustRelocate
<1>6. CASE turns /\ file.wpage = EndPage
  <2>1. flash' = flash /\ fdset' = fdset /\ client' = client
    BY <1>5, <1>6 DEF Write
  <2> QED
    BY <2>1, <1>2, FlashSame DEF FsInv
<1>7. CASE ~(turns /\ file.wpage = EndPage)
  <2>1. flash' = IF turns THEN [flash EXCEPT ![file.wpage] = file.wdata] ELSE flash
    BY <1>5, <1>7 DEF Write
  <2>2. Sets(fdset, fdset', fd, new)
    BY <1>5, <1>7 DEF Write, Sets
  <2>3. Sets(client, client', fd, d)
    BY <1>5, <1>7 DEF Write, Sets
  <2> HIDE DEF file, c
  <2>4. /\ FlashOK(flash') /\ Writing(flash', file, c)
        /\ \A p \in Pages : p < file.origin => flash'[p] = flash[p]
        /\ AllSame(flash, flash')
        /\ turns => file.wpage # EndPage /\ flash'[file.wpage] = file.wdata
    <3>1. CASE turns
      <4>1. file.wpage # EndPage
        BY <3>1, <1>7
      <4>2. file.wpage \in Pages /\ file.wdata \in PageData
        BY <4>1, <1>4, WriterPage
      <4>3. SetPage(flash, flash', file.wpage, file.wdata)
        BY <2>1, <3>1, <4>2, <1>1, SetPageIs
      <4> HIDE DEF turns
      <4> QED
        BY <4>1, <4>3, <1>1, <1>4, FlushWrites DEF AllSame
    <3>2. CASE ~turns
      <4>1. flash' = flash
        BY <2>1, <3>2
      <4> HIDE DEF turns
      <4> QED
        BY <4>1, <3>2, <1>1, <1>4 DEF AllSame
    <3> QED
      BY <3>1, <3>2
  <2>5. /\ new \in FileType /\ d \in ClientType
        /\ d.name = c.name /\ d.mode = c.mode
        /\ new.used = file.used /\ new.name = file.name /\ new.origin = file.origin
        /\ Writing(flash', new, d)
    <3>1. PageCount(file.size) - 1 + (IF file.wpos = PageBytes THEN 1 ELSE 0) = pages
      BY DEF turns
    <3>2. file.wpos = PageBytes => file.wpage # EndPage /\ flash'[file.wpage] = file.wdata
      BY <2>4 DEF turns
    <3>3. new = Put(Turned(file), Byte(c.name, c.next), pages) /\ d = [c EXCEPT !.next = @ + 1]
      OBVIOUS
    <3> HIDE DEF new, d, pages
    <3> QED
      BY <3>1, <3>2, <3>3, <2>4, <1>3, <1>4, PutWrites
  <2> HIDE DEF new, d
  <2>6. FdOK(flash', {}, new, d)
    BY <2>5, <1>3, <1>4 DEF FdOK
  <2>7. \A g \in Fd : g # fd => FdOK(flash', {}, fdset[g], client[g])
    BY <2>4, <1>1, <1>3, WhileWriting DEF file, c
  <2>8. Joins(client, fd, d)
    BY <2>5, <1>1, JoinsAgain DEF c
  <2>9. Inv(flash', fdset', client', {})
    BY <1>1, <2>2, <2>3, <2>4, <2>5, <2>6, <2>7, <2>8, NothingErased, OneMoves
  <2> QED
    BY <2>4, <2>9, <1>2 DEF FsInv, FlashStep
<1> QED
  BY <1>6, <1>7

---------------------------------------------------------------------------
(* Closing and deleting *)

\* A descriptor that reads has nothing to write back.
LEMMA ReaderSavesNothing ==
    ASSUME FlashOK(flash), NEW file \in FileType, NEW c \in ClientType,
           Reading(flash, file, c), file.name = c.name
    PROVE  SavedPages(file) = flash
<1> DEFINE o == file.origin
           page == WithMeta(flash[o], file.name, file.size)
<1>1. /\ o \in Pages /\ flash \in [Pages -> PageData]
      /\ flash[o][0] = Meta(c.name, file.size) /\ file.wpage = o /\ file.wdata = flash[o]
  BY DEF Reading, FlashOK
<1>2. \A i \in 1..(MetaBytes - 1) : flash[o][i] = Zero
  BY <1>1, ReadingFile DEF FlashOK, FileAt
<1>3. [flash EXCEPT ![o] = flash[o]] = flash
  BY <1>1
<1>4. page = flash[o]
  <2>1. flash[o] \in PageData
    BY <1>1
  <2>2. \A i \in 0..(PageBytes - 1) : i # 0 /\ i < MetaBytes => i \in 1..(MetaBytes - 1)
    BY Sizes
  <2>3. \A i \in 0..(PageBytes - 1) : flash[o][i] =
            IF i = 0 THEN Meta(file.name, file.size)
            ELSE IF i < MetaBytes THEN Zero ELSE flash[o][i]
    BY <2>2, <1>1, <1>2
  <2>4. flash[o] = [i \in 0..(PageBytes - 1) |-> flash[o][i]]
    BY <2>1 DEF PageData
  <2> QED
    BY <2>3, <2>4 DEF WithMeta
<1>5. [flash EXCEPT ![file.wpage] = file.wdata] = flash
  BY <1>1, <1>3
<1>6. SavedPages(file) = [flash EXCEPT ![o] = page]
  BY <1>5 DEF SavedPages
<1> HIDE DEF page
<1> QED
  BY <1>3, <1>4, <1>6

LEMMA CloseStep ==
    ASSUME FsInv, NEW fd \in Fd, Close(fd)
    PROVE  FsInv' /\ FlashStep(flash, flash')
<1>1. /\ fdset \in [Fd -> FileType] /\ client \in [Fd -> ClientType]
      /\ FlashOK(flash) /\ flash \in [Pages -> PageData] /\ Alone(client)
      /\ \A g \in Fd : FdOK(flash, {}, fdset[g], client[g])
  BY WhileCalling DEF Close
<1>2. erasing' = {} /\ erasing = {} /\ halted' \in BOOLEAN
  BY DEF Close, Calling, FsInv
<1> DEFINE file == fdset[fd]
           c == client[fd]
           o == file.origin
<1>3. c.mode # "none"
  BY DEF Close
<1>4. CASE file.wpage = EndPage
  <2>1. flash' = flash /\ fdset' = fdset /\ client' = client
    BY <1>4 DEF Close
  <2> QED
    BY <2>1, <1>2, FlashSame DEF FsInv
<1>5. CASE file.wpage # EndPage
  <2>1. flash' = SavedPages(file)
    BY <1>5 DEF Close
  <2>2. Sets(fdset, fdset', fd, NoFile(file.name))
    BY <1>5 DEF Close, Sets
  <2>3. Sets(client, client', fd, NoClient)
    BY <1>5 DEF Close, Forgets, Sets
  <2>4. file \in FileType /\ c \in ClientType /\ FdOK(flash, {}, file, c)
    BY <1>1
  <2> HIDE DEF file, c
  <2>5. file.name = c.name /\ c.name \in Name
    BY <2>4, <1>3 DEF FdOK
  <2>6. /\ NoFile(file.name) \in FileType /\ NoClient \in ClientType
        /\ FdOK(flash', {}, NoFile(file.name), NoClient)
    BY <2>5, NoFileIs
  <2>7. Joins(client, fd, NoClient)
    BY DEF Joins, NoClient
  <2>8. FlashOK(flash') /\ FlashStep(flash, flash')
        /\ \A g \in Fd : g # fd => FdOK(flash', {}, fdset[g], client[g])
    <3>1. CASE c.mode = "read"
      <4>1. flash' = flash
        BY <2>1, <2>4, <2>5, <3>1, <1>1, ReaderSavesNothing DEF FdOK
      <4> QED
        BY <4>1, <1>1, FlashSame
    <3>2. CASE c.mode = "write"
      <4>1. Writing(flash, file, c)
        BY <2>4, <3>2 DEF FdOK
      <4>2. file.wpage \in Pages /\ file.wdata \in PageData
        BY <4>1, <2>4, <1>5, WriterPage
      <4> DEFINE G == [flash EXCEPT ![file.wpage] = file.wdata]
      <4>3. SetPage(flash, G, file.wpage, file.wdata)
        BY <4>2, <1>1, SetPageIs
      <4>4. flash' = [G EXCEPT ![o] = WithMeta(@, file.name, file.size)]
        BY <2>1 DEF SavedPages
      <4> HIDE DEF G
      <4>5. /\ FlashOK(G) /\ Writing(G, file, c) /\ G[file.wpage] = file.wdata
            /\ \A p \in Pages : p < o => G[p] = flash[p]
            /\ AllSame(flash, G)
        BY <4>1, <4>3, <2>4, <1>1, <1>5, FlushWrites DEF AllSame
      <4>6. /\ o \in Pages /\ o \in Nat /\ IsMeta(flash, o) /\ NameAt(flash, o) = c.name
            /\ file.size \in Nat /\ SizeAt(flash, o) <= file.size
        BY <4>1, <2>4, <1>1, WritingFile
      <4>7. SetPage(G, flash', o, WithMeta(G[o], file.name, file.size))
        <5>1. G \in [Pages -> PageData] /\ G[o] \in PageData
          BY <4>5, <4>6 DEF FlashOK
        <5>2. WithMeta(G[o], file.name, file.size) \in PageData
          BY <5>1, <2>5, <4>6, WithMetaIs
        <5> QED
          BY <5>1, <5>2, <4>4, <4>6, SetPageIs
      <4>8. /\ FlashOK(flash') /\ flash'[o][0] = Meta(c.name, file.size)
            /\ \A p \in Pages : p # o => flash'[p] = G[p]
        BY <4>5, <4>7, <2>4, <2>5, <1>5, CloseWrites
      <4>9. \A p \in Pages : p < o => flash'[p] = flash[p]
        BY <4>5, <4>6, <4>8, PagesAre
      <4>10. \A g \in Fd : g # fd => FdOK(flash', {}, fdset[g], client[g])
        BY <4>9, <3>2, <1>1, WhileWriting DEF file, c
      <4>11. OthersSame(flash, flash', o)
        <5>1. SUFFICES ASSUME NEW p \in Pages, p # o, IsMeta(flash, p) \/ IsMeta(flash', p)
                       PROVE  flash'[p][0] = flash[p][0]
          BY DEF OthersSame
        <5>2. flash'[p] = G[p]
          BY <5>1, <4>8
        <5>3. IsMeta(flash, p) \/ IsMeta(G, p)
          BY <5>1, <5>2 DEF IsMeta
        <5>4. G[p][0] = flash[p][0]
          BY <5>3, <4>5 DEF AllSame
        <5> QED
          BY <5>2, <5>4
      <4>12. Extends(flash, flash', o, file.size)
        BY <4>6, <4>8 DEF Extends
      <4> HIDE DEF o
      <4> QED
        BY <4>6, <4>8, <4>10, <4>11, <4>12 DEF FlashStep
    <3> QED
      BY <3>1, <3>2, <2>4, <1>3, ClientFields
  <2>9. Inv(flash', fdset', client', {})
    BY <1>1, <2>2, <2>3, <2>6, <2>7, <2>8, NothingErased, OneMoves
  <2> QED
    BY <2>8, <2>9, <1>2 DEF FsInv
<1> QED
  BY <1>4, <1>5

LEMMA UnlinkStep ==
    ASSUME Careful, FsInv, NEW fd \in Fd, Unlink(fd)
    PROVE  FsInv' /\ FlashStep(flash, flash')
<1>1. /\ fdset \in [Fd -> FileType] /\ client \in [Fd -> ClientType]
      /\ FlashOK(flash) /\ flash \in [Pages -> PageData] /\ Alone(client)
      /\ \A g \in Fd : FdOK(flash, {}, fdset[g], client[g])
  BY WhileCalling DEF Unlink
<1>2. halted' \in BOOLEAN /\ flash' = flash
  BY DEF Unlink, FsInv
<1> DEFINE file == fdset[fd]
           c == client[fd]
           o == file.origin
           E == Marked(file)
<1>3. c.mode = "read" /\ InUse(c.name) = {fd} /\ erasing' = E
  BY RulesAre DEF Unlink, Keeps
<1>4. Sets(fdset, fdset', fd, NoFile(file.name))
  BY DEF Unlink, Sets
<1>5. Sets(client, client', fd, NoClient)
  BY DEF Unlink, Forgets, Sets
<1>6. \A g \in Fd : g # fd => client[g].name # c.name
  BY <1>3 DEF InUse
<1>7. file \in FileType /\ c \in ClientType /\ FdOK(flash, {}, file, c)
  BY <1>1
<1> HIDE DEF file, c
<1>8. Reading(flash, file, c) /\ file.name = c.name /\ c.name \in Name
  BY <1>3, <1>7 DEF FdOK
<1>9. /\ o \in Pages /\ o \in Nat /\ IsMeta(flash, o) /\ NameAt(flash, o) = c.name
      /\ EndOf(flash, o) = o + PageCount(file.size) /\ PageCount(file.size) \in Nat \ {0}
      /\ EndOf(flash, o) \in Nat
  BY <1>1, <1>7, <1>8, ReadingFile, PagesAre, Counts, FileFields DEF Reading
<1>10. E \subseteq Pages /\ \A p \in E : o <= p /\ p < EndOf(flash, o)
  <2>1. E \subseteq Pages /\ \A p \in E : p \in o..(o + PageCount(file.size) - 1)
    BY DEF Marked
  <2> QED
    BY <2>1, <1>9
<1>11. o \in E
  <2>1. HasMagic(flash, o)
    BY <1>1, <1>9, KindIs
  <2>2. o \in o..(o + PageCount(file.size) - 1)
    BY <1>9
  <2> QED
    BY <2>1, <2>2, <1>9 DEF Marked
<1> HIDE DEF E, o
<1>12. ASSUME NEW q \in Pages, IsMeta(flash, q), q # o
       PROVE  \A p \in E : p < q \/ EndOf(flash, q) <= p
  <2>1. q \in Nat /\ EndOf(flash, q) \in Nat /\ E \subseteq Nat
    BY <1>1, <1>10, PagesAre, SizeIs
  <2>2. (q < o => EndOf(flash, q) <= o) /\ (o < q => EndOf(flash, o) <= q)
    BY <1>1, <1>9, <1>12 DEF FlashOK, Apart
  <2> QED
    BY <2>1, <2>2, <1>9, <1>10, <1>12
<1>13. ErasingOK(flash, E)
  <2>1. SUFFICES ASSUME NEW p \in E, NEW q \in Pages, IsMeta(flash, q), q <= p,
                        p < EndOf(flash, q)
                 PROVE  q \in E
    BY DEF ErasingOK
  <2>2. p \in Nat /\ q \in Nat /\ EndOf(flash, q) \in Nat
    BY <1>1, <1>10, PagesAre, SizeIs
  <2>3. q = o
    BY <2>1, <2>2, <1>12
  <2> QED
    BY <2>3, <1>11
<1>14. ASSUME NEW g \in Fd, g # fd PROVE FdOK(flash, E, fdset[g], client[g])
  <2>1. fdset[g] \in FileType /\ client[g] \in ClientType /\ FdOK(flash, {}, fdset[g], client[g])
    BY <1>1
  <2>2. client[g].name # c.name
    BY <1>6, <1>14
  <2>3. CASE client[g].mode = "read"
    <3>1. Reading(flash, fdset[g], client[g])
      BY <2>1, <2>3 DEF FdOK
    <3>2. /\ fdset[g].origin \in Pages /\ IsMeta(flash, fdset[g].origin)
          /\ NameAt(flash, fdset[g].origin) = client[g].name
      BY <3>1, <2>1, <1>1, ReadingFile DEF Reading
    <3>3. fdset[g].origin # o
      BY <3>2, <2>2, <1>9
    <3>4. fdset[g].origin \in Nat /\ EndOf(flash, fdset[g].origin) \in Nat
          /\ fdset[g].origin < EndOf(flash, fdset[g].origin)
      BY <3>2, <1>1, PagesAre, SizeIs
    <3>5. fdset[g].origin \notin E
      <4>1. SUFFICES ASSUME fdset[g].origin \in E PROVE FALSE
        OBVIOUS
      <4>2. fdset[g].origin < fdset[g].origin \/ EndOf(flash, fdset[g].origin) <= fdset[g].origin
        BY <4>1, <3>2, <3>3, <1>12
      <4> QED
        BY <4>2, <3>4
    <3> QED
      BY <2>1, <2>3, <3>1, <3>5 DEF FdOK
  <2>4. CASE client[g].mode = "write"
    <3>1. Writing(flash, fdset[g], client[g])
      BY <2>1, <2>4 DEF FdOK
    <3>2. /\ fdset[g].origin \in Pages /\ fdset[g].origin \in Nat
          /\ NameAt(flash, fdset[g].origin) = client[g].name
          /\ \A p \in Pages : IsMeta(flash, p) /\ p # fdset[g].origin =>
                 EndOf(flash, p) <= fdset[g].origin
      BY <3>1, <2>1, <1>1, WritingFile
    <3>3. o # fdset[g].origin
      BY <3>2, <2>2, <1>9
    <3>4. EndOf(flash, o) <= fdset[g].origin
      BY <3>2, <3>3, <1>9
    <3>5. \A p \in E : p < fdset[g].origin
      BY <3>2, <3>4, <1>9, <1>10, PagesAre
    <3> QED
      BY <2>1, <2>4, <3>1, <3>5 DEF FdOK
  <2>5. CASE client[g].mode = "none"
    BY <2>1, <2>5 DEF FdOK
  <2> QED
    BY <2>1, <2>3, <2>4, <2>5, ClientFields
<1>15. /\ NoFile(file.name) \in FileType /\ NoClient \in ClientType
       /\ FdOK(flash, E, NoFile(file.name), NoClient)
  BY <1>8, NoFileIs
<1>16. Joins(client, fd, NoClient)
  BY DEF Joins, NoClient
<1>17. Inv(flash, fdset', client', E)
  BY <1>1, <1>4, <1>5, <1>10, <1>13, <1>14, <1>15, <1>16, OneMoves
<1> QED
  BY <1>2, <1>3, <1>17, FlashSame DEF FsInv

\* Formatting erases whole files, with no file open.
LEMMA FormatStep ==
    ASSUME Careful, AlikeFits, FsInv, Format
    PROVE  FsInv' /\ FlashStep(flash, flash')
<1>1. /\ fdset \in [Fd -> FileType] /\ client \in [Fd -> ClientType]
      /\ FlashOK(flash) /\ flash \in [Pages -> PageData] /\ Alone(client)
      /\ \A g \in Fd : FdOK(flash, {}, fdset[g], client[g])
  BY WhileCalling DEF Format
<1>2. flash' = flash /\ fdset' = fdset /\ client' = client /\ halted' \in BOOLEAN
  BY DEF Format, FsInv
<1>3. \A g \in Fd : client[g].mode = "none"
  BY RulesAre DEF Format, Keeps
<1> DEFINE E == {p \in Pages : \E o \in Origins(flash) : p \in o..(EndOf(flash, o) - 1)}
<1>4. erasing' = E /\ E \subseteq Pages
  BY DEF Format
<1>5. ASSUME NEW o \in Pages, IsMeta(flash, o) PROVE o \in E
  <2>1. o \in Origins(flash)
    BY <1>1, <1>5, MetasAreOrigins, OriginsAre
  <2>2. o \in Nat /\ EndOf(flash, o) \in Nat /\ o < EndOf(flash, o)
    BY <1>1, <1>5, PagesAre, SizeIs
  <2>3. o \in o..(EndOf(flash, o) - 1)
    BY <2>2
  <2> QED
    BY <2>1, <2>3
<1> HIDE DEF E
<1>6. ErasingOK(flash, E)
  BY <1>5 DEF ErasingOK
<1>7. \A g \in Fd : FdOK(flash, E, fdset[g], client[g])
  BY <1>1, <1>3 DEF FdOK
<1>8. Inv(flash, fdset, client, E)
  BY <1>1, <1>4, <1>6, <1>7 DEF Inv
<1> QED
  BY <1>2, <1>4, <1>8, FlashSame DEF FsInv

\* One page less: a file disappears with its origin, and only with it.
LEMMA EraseStep ==
    ASSUME FsInv, Erase
    PROVE  FsInv' /\ FlashStep(flash, flash')
<1> DEFINE m == Min(erasing)
<1>1. /\ fdset \in [Fd -> FileType] /\ client \in [Fd -> ClientType]
      /\ erasing \subseteq Pages /\ ErasingOK(flash, erasing)
      /\ FlashOK(flash) /\ flash \in [Pages -> PageData] /\ Alone(client)
      /\ \A g \in Fd : FdOK(flash, erasing, fdset[g], client[g])
  BY DEF FsInv, Inv, FlashOK
<1>2. m \in erasing /\ \A p \in erasing : m <= p
  <2>1. erasing \subseteq Nat /\ erasing # {}
    BY <1>1, PagesAre DEF Erase
  <2> QED
    BY <2>1, MinIs
<1>3. /\ flash' = [flash EXCEPT ![m] = BlankPage] /\ erasing' = erasing \ {m}
      /\ fdset' = fdset /\ client' = client /\ halted' \in BOOLEAN
  BY DEF Erase, FsInv
<1> HIDE DEF m
<1>4. m \in Pages /\ SetPage(flash, flash', m, BlankPage)
  BY <1>1, <1>2, <1>3, BlankIs, SetPageIs
<1>5. Erases(flash, flash', erasing, m)
  BY <1>1, <1>2, <1>4 DEF Erases
<1>6. FlashOK(flash') /\ ErasingOK(flash', erasing \ {m}) /\ Without(flash, flash', m)
  BY <1>1, <1>5, EraseKeeps
<1>7. \A g \in Fd : FdOK(flash', erasing \ {m}, fdset[g], client[g])
  BY <1>1, <1>5, EraseKeepsFd
<1>8. Inv(flash', fdset, client, erasing \ {m})
  BY <1>1, <1>6, <1>7 DEF Inv
<1>9. OthersSame(flash, flash', m)
  BY <1>6 DEF OthersSame, Without
<1>10. FlashStep(flash, flash')
  <2>1. CASE IsMeta(flash, m)
    BY <2>1, <1>4, <1>6, <1>9 DEF FlashStep, Without
  <2>2. CASE ~IsMeta(flash, m)
    <3>1. AllSame(flash, flash')
      BY <2>2, <1>6, <1>9 DEF AllSame, OthersSame, Without
    <3> QED
      BY <3>1 DEF FlashStep
  <2> QED
    BY <2>1, <2>2
<1> QED
  BY <1>3, <1>8, <1>10 DEF FsInv

---------------------------------------------------------------------------
(* Switching on *)

\* A brick with no file open, over any flash in order.
LEMMA SwitchedOn ==
    ASSUME NEW F, FlashOK(F)
    PROVE  Inv(F, [fd \in Fd |-> NoFile(NoName)], [fd \in Fd |-> NoClient], {})
<1> DEFINE S == [fd \in Fd |-> NoFile(NoName)]
           C == [fd \in Fd |-> NoClient]
<1>1. NoFile(NoName) \in FileType /\ NoClient \in ClientType /\ FdOK(F, {}, NoFile(NoName), NoClient)
  BY NoFileIs
<1>2. S \in [Fd -> FileType] /\ C \in [Fd -> ClientType]
  BY <1>1
<1>3. \A fd \in Fd : FdOK(F, {}, S[fd], C[fd])
  BY <1>1
<1>4. \A fd \in Fd : C[fd].mode = "none"
  BY DEF NoClient
<1>5. Alone(C)
  <2> HIDE DEF C
  <2> QED
    BY <1>4 DEF Alone
<1> HIDE DEF S, C
<1>6. Inv(F, S, C, {})
  BY <1>2, <1>3, <1>5, NothingErased DEF Inv
<1> QED
  BY <1>6 DEF S, C

LEMMA PowerCutStep ==
    ASSUME FsInv, PowerCut
    PROVE  FsInv' /\ FlashStep(flash, flash')
<1>1. FlashOK(flash) /\ flash' = flash /\ halted' \in BOOLEAN /\ erasing' = {}
  BY DEF FsInv, Inv, PowerCut
<1>2. /\ fdset' = [fd \in Fd |-> NoFile(NoName)]
      /\ client' = [fd \in Fd |-> NoClient]
  BY DEF PowerCut
<1>3. Inv(flash', fdset', client', {})
  BY <1>1, <1>2, SwitchedOn
<1> QED
  BY <1>1, <1>3, FlashSame DEF FsInv

\* There is no file on a blank flash.
LEMMA BlankFlash ==
    ASSUME Init
    PROVE  FlashOK(flash) /\ \A p \in Pages : ~IsMeta(flash, p)
<1>1. flash = [p \in Pages |-> BlankPage]
  BY DEF Init
<1>2. flash \in [Pages -> PageData]
  BY <1>1, BlankIs
<1>3. \A p \in Pages : ~IsMeta(flash, p)
  BY <1>1, BlankIs, ZeroInPage DEF IsMeta
<1> QED
  BY <1>2, <1>3 DEF FlashOK, Apart, OneEach

LEMMA Starts ==
    ASSUME Init
    PROVE  FsInv
<1>1. Inv(flash, [fd \in Fd |-> NoFile(NoName)], [fd \in Fd |-> NoClient], {})
  BY BlankFlash, SwitchedOn
<1> QED
  BY <1>1 DEF Init, FsInv

LEMMA EveryStep ==
    ASSUME Careful, OneLength, AlikeFits, FsInv, [Next]_vars
    PROVE  FsInv' /\ FlashStep(flash, flash')
<1>1. ASSUME NEW name \in Name, Create(name) \/ OpenAppend(name)
      PROVE  FsInv' /\ FlashStep(flash, flash')
  BY <1>1, CreateStep, OpenAppendStep
<1>2. ASSUME NEW name \in Name, NEW mode \in {"read", "write"}, Open(name, mode)
      PROVE  FsInv' /\ FlashStep(flash, flash')
  BY <1>2, OpenStep
<1>3. ASSUME NEW fd \in Fd, Read(fd) \/ Write(fd) \/ Flush(fd) \/ Close(fd) \/ Unlink(fd)
      PROVE  FsInv' /\ FlashStep(flash, flash')
  BY <1>3, ReadStep, WriteStep, FlushStep, CloseStep, UnlinkStep
<1>4. ASSUME NEW fd \in Fd, NEW position \in 0..MaxSize, Seek(fd, position)
      PROVE  FsInv' /\ FlashStep(flash, flash')
  BY <1>4, SeekStep
<1>5. CASE Erase
  BY <1>5, EraseStep
<1>6. CASE Format
  BY <1>6, FormatStep
<1>7. CASE PowerCut
  BY <1>7, PowerCutStep
<1>8. CASE UNCHANGED vars
  BY <1>8, FlashSame DEF vars, FsInv
<1> QED
  BY <1>1, <1>2, <1>3, <1>4, <1>5, <1>6, <1>7, <1>8 DEF Next

---------------------------------------------------------------------------
(* What follows from the invariant *)

LEMMA TypesAre ==
    ASSUME FsInv
    PROVE  TypeOK
<1>1. /\ fdset \in [Fd -> FileType] /\ client \in [Fd -> ClientType] /\ erasing \subseteq Pages
      /\ flash \in [Pages -> PageData] /\ halted \in BOOLEAN
  BY DEF FsInv, Inv, FlashOK
<1>2. ASSUME NEW fd \in Fd
      PROVE  /\ fdset[fd].used \in BOOLEAN
             /\ fdset[fd].name \in Seq(STRING)
             /\ fdset[fd].origin \in 0..EndPage
             /\ fdset[fd].size \in Nat
             /\ {fdset[fd].rpage, fdset[fd].wpage} \subseteq 0..EndPage
             /\ {fdset[fd].rpos, fdset[fd].wpos} \subseteq 0..PageBytes
             /\ {fdset[fd].rdata, fdset[fd].wdata} \subseteq PageData
  <2>1. fdset[fd] \in FileType
    BY <1>1
  <2> QED
    BY <2>1 DEF FileType
<1>3. client \in [Fd -> [name : Name \cup {NoName},
                          mode : {"none", "read", "write"}, next : 0..MaxSize]]
  BY <1>1 DEF ClientType
<1> QED
  BY <1>1, <1>2, <1>3 DEF TypeOK

LEMMA BytesAreTrue ==
    ASSUME AlikeFits, FsInv
    PROVE  FilesIntact
<1>1. FlashOK(flash) /\ AreFiles(flash, Found)
  BY FoundIs DEF FsInv, Inv
<1>2. DOMAIN Found = NamesOn(flash)
  BY <1>1 DEF AreFiles
<1>3. ASSUME NEW name \in DOMAIN Found, NEW k \in 1..Len(Found[name])
      PROVE  Found[name][k] = Byte(name, k - 1)
  <2>1. PICK o \in Pages : IsMeta(flash, o) /\ NameAt(flash, o) = name
    BY <1>2 DEF NamesOn
  <2> DEFINE s == SizeAt(flash, o)
  <2>2. s \in Nat
    BY <1>1, <2>1, SizeIs DEF FlashOK
  <2>3. Found[name] = Content(name, s)
    BY <1>1, <2>1 DEF AreFiles
  <2> HIDE DEF s
  <2>4. Len(Content(name, s)) = s
    BY <2>2 DEF Content
  <2>5. k \in 1..s
    BY <2>3, <2>4
  <2> QED
    BY <2>3, <2>5 DEF Content
<1> QED
  BY <1>3 DEF FilesIntact

LEMMA OriginsAreTrue ==
    ASSUME AlikeFits, FsInv
    PROVE  OriginsFresh /\ WrittenIsCounted
<1>1. /\ fdset \in [Fd -> FileType] /\ client \in [Fd -> ClientType] /\ FlashOK(flash)
      /\ \A fd \in Fd : FdOK(flash, erasing, fdset[fd], client[fd])
  BY DEF FsInv, Inv
<1>2. ASSUME NEW fd \in Fd, client[fd].mode = "read"
      PROVE  fdset[fd].origin \in OriginsOf(flash, client[fd].name)
  <2>1. /\ Reading(flash, fdset[fd], client[fd]) /\ client[fd].name \in Name
        /\ fdset[fd] \in FileType /\ client[fd] \in ClientType
    BY <1>1, <1>2 DEF FdOK
  <2>2. /\ fdset[fd].origin \in Pages /\ IsMeta(flash, fdset[fd].origin)
        /\ NameAt(flash, fdset[fd].origin) = client[fd].name
    BY <1>1, <2>1, ReadingFile DEF Reading
  <2> QED
    BY <1>1, <2>1, <2>2, OriginsOfAre
<1>3. ASSUME NEW fd \in Fd, client[fd].mode = "write"
      PROVE  /\ fdset[fd].origin \in OriginsOf(flash, client[fd].name)
             /\ fdset[fd].size = client[fd].next
  <2>1. Writing(flash, fdset[fd], client[fd]) /\ client[fd].name \in Name
    BY <1>1, <1>3 DEF FdOK
  <2>2. /\ fdset[fd].origin \in Pages /\ IsMeta(flash, fdset[fd].origin)
        /\ NameAt(flash, fdset[fd].origin) = client[fd].name
        /\ fdset[fd].size = client[fd].next
    BY <2>1 DEF Writing
  <2> QED
    BY <1>1, <2>1, <2>2, OriginsOfAre
<1>4. \A fd \in Fd : client[fd].mode \in {"none", "read", "write"}
  BY <1>1, ClientFields
<1>5. OriginsFresh
  BY <1>2, <1>3, <1>4 DEF OriginsFresh
<1>6. WrittenIsCounted
  BY <1>3 DEF WrittenIsCounted, Writers
<1> QED
  BY <1>5, <1>6

LEMMA NextIsRight ==
    ASSUME FsInv
    PROVE  ReadsRight
<1>1. SUFFICES ASSUME NEW fd \in Fd, client[fd].mode = "read", client[fd].next < fdset[fd].size
               PROVE  /\ ~AtEnd(fdset[fd])
                      /\ NextByte(fdset[fd]) = Byte(client[fd].name, client[fd].next)
  BY DEF ReadsRight
<1> DEFINE file == fdset[fd]
           c == client[fd]
<1>2. /\ file \in FileType /\ c \in ClientType /\ FlashOK(flash)
      /\ FdOK(flash, erasing, file, c)
  BY DEF FsInv, Inv
<1>3. Reading(flash, file, c) /\ c.next < file.size
  BY <1>1, <1>2 DEF FdOK
<1> HIDE DEF file, c
<1>4. /\ ~AtEnd(file)
      /\ TurnsPage(file) => /\ file.origin + PageOf(c.next) = file.rpage + 1
                            /\ PosOf(c.next) = 0
      /\ ~TurnsPage(file) => /\ file.origin + PageOf(c.next) = file.rpage
                             /\ PosOf(c.next) = file.rpos
      /\ file.origin + PageOf(c.next) < EndOf(flash, file.origin)
      /\ flash[file.origin + PageOf(c.next)][PosOf(c.next)] = Byte(c.name, c.next)
  BY <1>2, <1>3, ReadingNext
<1>5. NextByte(file) = Byte(c.name, c.next)
  <2>1. CASE TurnsPage(file)
    BY <2>1, <1>4 DEF NextByte
  <2>2. CASE ~TurnsPage(file)
    <3>1. file.rdata = flash[file.rpage]
      BY <2>2, <1>3, <1>4 DEF Reading
    <3> QED
      BY <2>2, <3>1, <1>4 DEF NextByte
  <2> QED
    BY <2>1, <2>2
<1> QED
  BY <1>4, <1>5 DEF file, c

\* A new flash is an empty store.
LEMMA StoreStarts ==
    ASSUME AlikeFits, Init
    PROVE  Store!Init
<1>1. AreFiles(flash, Found)
  BY BlankFlash, FoundIs
<1>2. NamesOn(flash) = {}
  BY BlankFlash DEF NamesOn
<1>3. Found = [n \in {} |-> Found[n]]
  BY <1>1, <1>2 DEF AreFiles
<1> HIDE DEF Found
<1>4. Found = [n \in {} |-> <<>>]
  BY <1>3
<1> QED
  BY <1>4 DEF Store!Init

---------------------------------------------------------------------------
(* The theorems *)

\* The invariant, of a program that keeps all the rules: the metadata on the
\* flash are those of whole files that lie apart, and every descriptor caches
\* what is on the flash, or what the program has added to it.
THEOREM Invariant ==
    ASSUME Careful, OneLength, AlikeFits
    PROVE  Spec => []FsInv
<1>1. Init => FsInv
  BY Starts
<1>2. FsInv /\ [Next]_vars => FsInv'
  BY EveryStep
<1> QED
  BY <1>1, <1>2, PTL DEF Spec

\* The flash and what the descriptors cache of it tell the same story at
\* every moment, in the middle of a deletion and after a power cut too: every
\* file a search finds holds the bytes that were written to it, in order; the
\* origin that nx_fs_open has cached is where a search finds the file; and
\* what nx_fs_write has taken is counted.
THEOREM FilesAreTrue ==
    ASSUME Careful, OneLength, AlikeFits
    PROVE  Spec => []FilesTrue
<1>1. FsInv => FilesTrue
  BY TypesAre, BytesAreTrue, OriginsAreTrue DEF FilesTrue
<1> QED
  BY <1>1, Invariant, PTL

\* Whatever is opened, sought, written and deleted in between, nx_fs_read
\* returns the byte that was written at the program's offset, and does not
\* take it for the end of the file.
THEOREM ReadsAreRight ==
    ASSUME Careful, OneLength, AlikeFits
    PROVE  Spec => []ReadsRight
<1>1. FsInv => ReadsRight
  BY NextIsRight
<1> QED
  BY <1>1, Invariant, PTL

\* The calls of fs.c implement the store of named byte sequences: each step
\* changes one file at most, in the way its call says, and neither a power
\* cut nor a deletion half done changes another.
THEOREM StoreImplemented ==
    ASSUME Careful, OneLength, AlikeFits
    PROVE  Spec => ImplementsStore
<1>1. Init => Store!Init
  BY StoreStarts
<1>2. FsInv => FlashOK(flash) /\ AreFiles(flash, Found)
  BY FoundIs DEF FsInv, Inv
<1>3. FsInv' => FlashOK(flash)' /\ AreFiles(flash, Found)'
  BY <1>2, PTL
<1>4. FsInv /\ FsInv' /\ [Next]_vars => [Store!Next]_Found
  <2>1. SUFFICES ASSUME FsInv, FsInv', [Next]_vars
                 PROVE  Store!Step(Found, Found')
    BY DEF Store!Next
  <2>2. FlashStep(flash, flash')
    BY <2>1, EveryStep
  <2>3. FlashOK(flash) /\ AreFiles(flash, Found) /\ FlashOK(flash') /\ AreFiles(flash', Found')
    BY <2>1, <1>2, <1>3
  <2> HIDE DEF Found
  <2> QED
    BY <2>2, <2>3, StoreStep
<1> QED
  BY <1>1, <1>4, Invariant, PTL DEF Spec, ImplementsStore, Store!Spec

=============================================================================
