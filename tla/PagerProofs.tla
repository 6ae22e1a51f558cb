---------------------------- MODULE PagerProofs ----------------------------
(***************************************************************************)
(* Proofs about the pager, for every page limit, buffer size and set of    *)
(* page contents: its state stays well-formed and both free lists, the one *)
(* in memory and the one a restart would find, stay sound, whichever calls *)
(* fail half way.                                                          *)
(***************************************************************************)
EXTENDS Pager, TLAPS

-----------------------------------------------------------------------------
(* Linked lists of pages, as facts about a function `link' of links.       *)

(* The walk along `link' from `head' stays in F, and its pages differ.     *)
ListOn(F, link, head) ==
  /\ head \in F \cup {0}
  /\ \A p \in F :
       /\ link[p] \in F \cup {0}
       /\ link[p] = head => head = 0
       /\ \A q \in F : link[p] = link[q] => p = q \/ link[p] = 0

(* Taking the head off a list leaves a list that starts at its link
   (the free-list branch of AllocatePage).                                 *)
LEMMA TakeHead ==
  ASSUME NEW F, NEW link, NEW head, ListOn(F, link, head), head # 0,
         NEW new, \A p \in F \ {head} : new[p] = link[p]
  PROVE  ListOn(F \ {head}, new, link[head])
BY DEF ListOn

(* Putting a page in front makes it the head (FreePage).                   *)
LEMMA AddHead ==
  ASSUME NEW F, NEW link, NEW head, ListOn(F, link, head),
         NEW p, p \notin F, p # 0,
         NEW new, new[p] = head, \A q \in F : new[q] = link[q]
  PROVE  ListOn(F \cup {p}, new, p)
BY DEF ListOn

(* A list is not disturbed by ending it early at some pages: clearing a page
   sets its link to 0.                                                     *)
LEMMA CutList ==
  ASSUME NEW F, NEW link, NEW head, ListOn(F, link, head),
         NEW new, \A q \in F : new[q] = link[q] \/ new[q] = 0
  PROVE  ListOn(F, new, head)
BY DEF ListOn

-----------------------------------------------------------------------------
(* The state of the pager.                                                 *)

(* The link in the first word of each page, as ReadPage would see it.      *)
Links == [p \in DOMAIN filePages |-> View(p).word]

(* F is a free list starting at head, below page number count.             *)
LEMMA FreeListAsList ==
  ASSUME NEW F, NEW head, NEW count
  PROVE  IsFreeList(F, head, count) <=>
           /\ F \subseteq DOMAIN filePages \cap 1..(count - 1)
           /\ F \cap owned = {}
           /\ ListOn(F, Links, head)
BY DEF IsFreeList, ListOn, Links

(* What the pages are made of.                                             *)
LEMMA Pages ==
  /\ ZeroPage \in Page /\ ZeroPage.word = 0
  /\ \A n \in Nat : LinkPage(n) \in Page /\ LinkPage(n).word = n
  /\ \A c \in Content : c \in Page
  /\ \A c \in Page : c.word \in Nat
BY WordsAssumption DEF ZeroPage, LinkPage, Page, Content

(* The invariant in a form without records: what the steps below use.      *)
LEMMA TypeFacts ==
  ASSUME PagerTypeOK
  PROVE  /\ header.PageCount \in 1..PageLimit /\ fileHeader.PageCount \in 1..PageLimit
         /\ header.FreeListHead \in Nat /\ fileHeader.FreeListHead \in Nat
         /\ fileHeader.PageCount <= header.PageCount
         /\ \A p \in DOMAIN filePages : View(p) \in Page /\ Links[p] = View(p).word
         /\ \A p \in DOMAIN buffer : buffer[p] \in Page
         /\ \A p \in DOMAIN filePages : filePages[p] \in Page /\ p \in Nat \ {0}
BY LimitAssumption DEF PagerTypeOK, Header, View, Links

(* The effect of BufferWrite.                                              *)
LEMMA BufferWriteEffect ==
  ASSUME PagerTypeOK, NEW p, NEW c \in Page, BufferWrite(p, c)
  PROVE  /\ DOMAIN buffer' = DOMAIN buffer \cup {p}
         /\ buffer' \in [DOMAIN buffer' -> Page]
         /\ buffer'[p] = c
         /\ \A q \in DOMAIN buffer : q # p => buffer'[q] = buffer[q]
         /\ dirty' = dirty \cup {p}
         /\ dirty' \subseteq DOMAIN buffer'
BY DEF PagerTypeOK, BufferWrite, Cached

(* The effect of writing back some of the dirty pages: nobody sees it, and the
   pages written agree with their copies.                                  *)
LEMMA WriteBackEffect ==
  ASSUME PagerTypeOK, NEW S \in SUBSET dirty, WriteBack(S), buffer' = buffer
  PROVE  /\ DOMAIN filePages' = DOMAIN filePages
         /\ filePages' \in [DOMAIN filePages' -> Page]
         /\ \A q \in S : filePages'[q] = buffer[q]
         /\ \A q \in DOMAIN filePages \ S : filePages'[q] = filePages[q]
         /\ Links' = Links
         /\ CacheCoherent => \A q \in DOMAIN buffer \ (dirty \ S) : buffer[q] = filePages'[q]
<1>1. /\ DOMAIN filePages' = DOMAIN filePages
      /\ \A q \in S : filePages'[q] = buffer[q]
      /\ \A q \in DOMAIN filePages \ S : filePages'[q] = filePages[q]
      /\ filePages' = [q \in DOMAIN filePages' |-> filePages'[q]]
  BY DEF PagerTypeOK, WriteBack
<1>2. filePages' \in [DOMAIN filePages' -> Page]
  BY <1>1 DEF PagerTypeOK
<1>3. \A q \in DOMAIN filePages : View(q)' = View(q)
  BY <1>1 DEF View, PagerTypeOK
<1>4. Links' = Links
  BY <1>1, <1>3 DEF Links
<1>5. CacheCoherent => \A q \in DOMAIN buffer \ (dirty \ S) : buffer[q] = filePages'[q]
  BY <1>1 DEF CacheCoherent, PagerTypeOK
<1> QED BY <1>1, <1>2, <1>4, <1>5

(* The part of the type invariant about the pages.                         *)
PagesOK ==
  /\ DOMAIN filePages \subseteq 1..PageLimit
  /\ filePages \in [DOMAIN filePages -> Page]
  /\ DOMAIN buffer \subseteq DOMAIN filePages
  /\ buffer \in [DOMAIN buffer -> Page]
  /\ dirty \subseteq DOMAIN buffer
  /\ open \in BOOLEAN

(* A free list survives a step that touches its pages at most by ending it
   early, and takes none of them.                                          *)
LEMMA KeepFreeList ==
  ASSUME NEW F, NEW head, NEW count \in Nat, NEW count2 \in Nat, count <= count2,
         IsFreeList(F, head, count),
         DOMAIN filePages \subseteq DOMAIN filePages',
         F \cap owned' = {},
         \A p \in F : Links'[p] = Links[p] \/ Links'[p] = 0
  PROVE  IsFreeList(F, head, count2)'
<1>1. ListOn(F, Links', head)
  BY FreeListAsList, CutList
<1>2. F \subseteq DOMAIN filePages' \cap 1..(count2 - 1)
  BY FreeListAsList
<1> QED BY <1>1, <1>2 DEF IsFreeList, ListOn, Links

(* TakeFree: the head leaves the list in memory, every other page reads as
   before, and the list that the file's header starts is at most cut.      *)
LEMMA TakeFreeEffect ==
  ASSUME PagerTypeOK, CacheCoherent, TakeFree,
         NEW h, h = header.FreeListHead, NEW count, count = header.PageCount,
         NEW F, IsFreeList(F, h, count),
         owned' = owned \cup {h} \/ owned' = owned
  PROVE  /\ PagesOK' /\ CacheCoherent'
         /\ h \in DOMAIN filePages \cap 1..(count - 1)
         /\ filePages' = filePages /\ open' = open
         /\ \A q \in DOMAIN filePages : q # h => View(q)' = View(q)
         /\ View(h)' = ZeroPage
         /\ \A q \in DOMAIN filePages : Links'[q] = Links[q] \/ Links'[q] = 0
         /\ View(h).word \in Nat
         /\ \A next : next = View(h).word => IsFreeList(F \ {h}, next, count)'
<1>1. h # 0 /\ h \in F /\ h \in DOMAIN filePages \cap 1..(count - 1)
  BY DEF TakeFree, IsFreeList
<1>2. /\ BufferWrite(h, ZeroPage) /\ ZeroPage \in Page
      /\ filePages' = filePages /\ open' = open
  BY Pages DEF TakeFree
<1>3. /\ DOMAIN buffer' = DOMAIN buffer \cup {h}
      /\ buffer' \in [DOMAIN buffer' -> Page]
      /\ buffer'[h] = ZeroPage
      /\ \A q \in DOMAIN buffer : q # h => buffer'[q] = buffer[q]
      /\ dirty' = dirty \cup {h}
      /\ dirty' \subseteq DOMAIN buffer'
  BY <1>2, BufferWriteEffect
<1>4. PagesOK' /\ CacheCoherent'
  BY <1>1, <1>2, <1>3 DEF PagerTypeOK, PagesOK, CacheCoherent
<1>5. /\ \A q \in DOMAIN filePages : q # h => View(q)' = View(q)
      /\ View(h)' = ZeroPage
  BY <1>2, <1>3 DEF View
<1>6. /\ \A q \in DOMAIN filePages : q # h => Links'[q] = Links[q]
      /\ Links'[h] = 0
      /\ View(h).word \in Nat /\ Links[h] = View(h).word
  BY <1>1, <1>2, <1>5, Pages, TypeFacts DEF Links
<1>7. ListOn(F \ {h}, Links', View(h).word)
  <2>1. ListOn(F, Links, h) /\ F \subseteq DOMAIN filePages
    BY FreeListAsList
  <2>2. \A p \in F \ {h} : Links'[p] = Links[p]
    BY <1>6, <2>1
  <2>3. ListOn(F \ {h}, Links', Links[h])
    BY <1>1, <2>1, <2>2, TakeHead
  <2> QED BY <1>6, <2>3
<1>8. F \ {h} \subseteq DOMAIN filePages' \cap 1..(count - 1)
      /\ (F \ {h}) \cap owned' = {}
  BY <1>2 DEF IsFreeList
<1>9. \A next : next = View(h).word => IsFreeList(F \ {h}, next, count)'
  BY <1>7, <1>8 DEF IsFreeList, ListOn, Links
<1> QED BY <1>1, <1>2, <1>4, <1>5, <1>6, <1>9

(* AppendPage: a new page of zeros beyond both page counts; every page below
   the count in memory reads as before.                                    *)
LEMMA AppendEffect ==
  ASSUME PagerTypeOK, CacheCoherent, AppendPage,
         NEW n, n = header.PageCount
  PROVE  /\ PagesOK' /\ CacheCoherent'
         /\ n \in DOMAIN filePages' /\ n \in 1..(PageLimit - 1)
         /\ DOMAIN filePages \subseteq DOMAIN filePages'
         /\ open' = open
         /\ View(n)' = ZeroPage
         /\ \A q \in DOMAIN filePages : q # n => View(q)' = View(q)
         /\ \A q \in DOMAIN filePages : q # n => Links'[q] = Links[q]
<1>1. /\ n \in 1..(PageLimit - 1)
      /\ BufferWrite(n, ZeroPage) /\ ZeroPage \in Page
      /\ open' = open
      /\ DOMAIN filePages' = DOMAIN filePages \cup 1..n
      /\ filePages' = [q \in DOMAIN filePages \cup 1..n |->
                         IF q \in DOMAIN filePages \ {n} THEN filePages[q] ELSE ZeroPage]
  BY Pages, TypeFacts, LimitAssumption DEF AppendPage
<1>2. /\ DOMAIN buffer' = DOMAIN buffer \cup {n}
      /\ buffer' \in [DOMAIN buffer' -> Page]
      /\ buffer'[n] = ZeroPage
      /\ \A q \in DOMAIN buffer : q # n => buffer'[q] = buffer[q]
      /\ dirty' = dirty \cup {n}
      /\ dirty' \subseteq DOMAIN buffer'
  BY <1>1, BufferWriteEffect
<1>3. /\ filePages' \in [DOMAIN filePages' -> Page]
      /\ DOMAIN filePages' \subseteq 1..PageLimit
      /\ \A q \in DOMAIN filePages : q # n => filePages'[q] = filePages[q]
  BY <1>1, LimitAssumption DEF PagerTypeOK
<1>4. PagesOK' /\ CacheCoherent'
  BY <1>1, <1>2, <1>3 DEF PagerTypeOK, PagesOK, CacheCoherent
<1>5. /\ View(n)' = ZeroPage
      /\ \A q \in DOMAIN filePages : q # n => View(q)' = View(q)
  BY <1>2, <1>3 DEF View
<1>6. \A q \in DOMAIN filePages : q # n => Links'[q] = Links[q]
  BY <1>1, <1>5 DEF Links
<1> QED BY <1>1, <1>4, <1>5, <1>6

(* GiveBack: the page joins the free list in memory as its new head and leaves
   the client's hands; every other page reads as before.                   *)
LEMMA GiveBackEffect ==
  ASSUME PagerTypeOK, CacheCoherent, FileHeaderSound,
         NEW p, GiveBack(p),
         NEW h, h = header.FreeListHead, NEW count, count = header.PageCount,
         NEW F, IsFreeList(F, h, count)
  PROVE  /\ PagesOK' /\ CacheCoherent'
         /\ p \in DOMAIN filePages \cap 1..(count - 1)
         /\ filePages' = filePages /\ open' = open
         /\ owned' = owned \ {p}
         /\ \A q \in DOMAIN filePages : q # p => View(q)' = View(q)
         /\ \A q \in DOMAIN filePages : q # p => Links'[q] = Links[q]
         /\ IsFreeList(F \cup {p}, p, count)'
<1>1. /\ p \in owned /\ p \in DOMAIN filePages \cap 1..(count - 1) /\ p # 0
      /\ h \in Nat /\ LinkPage(h) \in Page /\ LinkPage(h).word = h
      /\ BufferWrite(p, LinkPage(h))
      /\ filePages' = filePages /\ open' = open /\ owned' = owned \ {p}
  BY Pages, TypeFacts DEF GiveBack, FileHeaderSound, PagerTypeOK
<1>2. /\ DOMAIN buffer' = DOMAIN buffer \cup {p}
      /\ buffer' \in [DOMAIN buffer' -> Page]
      /\ buffer'[p] = LinkPage(h)
      /\ \A q \in DOMAIN buffer : q # p => buffer'[q] = buffer[q]
      /\ dirty' = dirty \cup {p}
      /\ dirty' \subseteq DOMAIN buffer'
  BY <1>1, BufferWriteEffect
<1>3. PagesOK' /\ CacheCoherent'
  BY <1>1, <1>2 DEF PagerTypeOK, PagesOK, CacheCoherent
<1>4. /\ View(p)' = LinkPage(h)
      /\ \A q \in DOMAIN filePages : q # p => View(q)' = View(q)
  BY <1>1, <1>2 DEF View
<1>5. /\ \A q \in DOMAIN filePages : q # p => Links'[q] = Links[q]
      /\ Links'[p] = h
  BY <1>1, <1>4 DEF Links
<1>6. ListOn(F \cup {p}, Links', p)
  <2>1. ListOn(F, Links, h) /\ F \subseteq DOMAIN filePages /\ p \notin F
    BY <1>1, FreeListAsList DEF IsFreeList
  <2>2. \A q \in F : Links'[q] = Links[q]
    BY <1>5, <2>1
  <2> QED BY <1>1, <1>5, <2>1, <2>2, AddHead
<1>7. /\ F \cup {p} \subseteq DOMAIN filePages' \cap 1..(count - 1)
      /\ (F \cup {p}) \cap owned' = {}
  BY <1>1 DEF IsFreeList
<1>8. IsFreeList(F \cup {p}, p, count)'
  BY <1>6, <1>7 DEF IsFreeList, ListOn, Links
<1> QED BY <1>1, <1>3, <1>4, <1>5, <1>8

-----------------------------------------------------------------------------
(* The invariant.                                                          *)

PagerInv == PagerTypeOK /\ CacheCoherent /\ FreeListSound /\ FileHeaderSound

(* The way the steps below establish it: the pages are in order, and F and G
   are the free lists that the two headers start.                          *)
LEMMA InvFromLists ==
  ASSUME header' \in Header, fileHeader' \in Header,
         fileHeader'.PageCount <= header'.PageCount,
         PagesOK', CacheCoherent',
         owned' \subseteq DOMAIN filePages' \cap 1..(fileHeader'.PageCount - 1),
         \E F : IsFreeList(F, header.FreeListHead, header.PageCount)',
         \E G : IsFreeList(G, fileHeader.FreeListHead, fileHeader.PageCount)'
  PROVE  PagerInv'
<1>1. PagerTypeOK'
  BY DEF PagerTypeOK, PagesOK
<1>2. \A F : IsFreeList(F, header.FreeListHead, header.PageCount)' =>
               F \in SUBSET DOMAIN filePages'
  BY DEF IsFreeList
<1>3. \A G : IsFreeList(G, fileHeader.FreeListHead, fileHeader.PageCount)' =>
               G \in SUBSET DOMAIN filePages'
  BY DEF IsFreeList
<1>4. FreeListSound'
  BY <1>2 DEF FreeListSound
<1>5. FileHeaderSound'
  BY <1>3 DEF FileHeaderSound
<1> QED BY <1>1, <1>4, <1>5 DEF PagerInv

LEMMA InitInv == PagerInit => PagerInv
<1> SUFFICES ASSUME PagerInit PROVE PagerInv
  OBVIOUS
<1>1. PagerTypeOK /\ CacheCoherent
  BY LimitAssumption DEF PagerInit, PagerTypeOK, Header, CacheCoherent
<1>2. IsFreeList({}, header.FreeListHead, header.PageCount)
  BY DEF PagerInit, IsFreeList
<1>3. IsFreeList({}, fileHeader.FreeListHead, fileHeader.PageCount)
  BY DEF PagerInit, IsFreeList
<1>4. owned \subseteq 1..(fileHeader.PageCount - 1)
  BY DEF PagerInit
<1> QED BY <1>1, <1>2, <1>3, <1>4 DEF PagerInv, FreeListSound, FileHeaderSound

(* AllocatePage and its failures.  When the header write fails after the head
   was taken, the file's list still runs through that page, but ends there. *)
LEMMA AllocateKeepsInv ==
  ASSUME PagerInv, AllocatePage \/ AllocatePageFails
  PROVE  PagerInv'
<1> USE DEF PagerInv
<1> PICK h, count, fh, fcount :
       /\ h = header.FreeListHead /\ count = header.PageCount
       /\ fh = fileHeader.FreeListHead /\ fcount = fileHeader.PageCount
  OBVIOUS
<1>1. PICK F : IsFreeList(F, h, count)
  BY DEF FreeListSound
<1>2. PICK G : IsFreeList(G, fh, fcount)
  BY DEF FileHeaderSound
<1>3. /\ count \in 1..PageLimit /\ fcount \in 1..PageLimit /\ fcount <= count
      /\ owned \subseteq DOMAIN filePages \cap 1..(fcount - 1)
  BY TypeFacts DEF FileHeaderSound, PagerTypeOK
<1>4. CASE TakeFree /\ WriteHeader(AfterTakeFree) /\ owned' = owned \cup {NextPage}
  <2> PICK next : next = View(h).word
    OBVIOUS
  <2>1. owned' = owned \cup {h}
    BY <1>4 DEF NextPage, TakeFree
  <2>2. /\ PagesOK' /\ CacheCoherent' /\ filePages' = filePages
        /\ h \in DOMAIN filePages \cap 1..(count - 1)
        /\ next \in Nat
        /\ IsFreeList(F \ {h}, next, count)'
    BY <1>1, <1>4, <2>1, TakeFreeEffect
  <2>3. /\ header' \in Header /\ fileHeader' = header'
        /\ header'.FreeListHead = next /\ header'.PageCount = count
    BY <1>4, <2>2 DEF WriteHeader, AfterTakeFree, PagerTypeOK, Header
  <2>4. owned' \subseteq DOMAIN filePages' \cap 1..(fileHeader'.PageCount - 1)
    BY <1>3, <2>1, <2>2, <2>3
  <2>5. IsFreeList(F \ {h}, header.FreeListHead, header.PageCount)'
        /\ IsFreeList(F \ {h}, fileHeader.FreeListHead, fileHeader.PageCount)'
    BY <2>2, <2>3 DEF IsFreeList
  <2> QED BY <1>3, <2>2, <2>3, <2>4, <2>5, InvFromLists
<1>5. CASE TakeFree /\ WriteHeaderFails(AfterTakeFree) /\ owned' = owned
  <2> PICK next : next = View(h).word
    OBVIOUS
  <2>2. /\ PagesOK' /\ CacheCoherent' /\ filePages' = filePages
        /\ \A q \in DOMAIN filePages : Links'[q] = Links[q] \/ Links'[q] = 0
        /\ next \in Nat
        /\ IsFreeList(F \ {h}, next, count)'
    BY <1>1, <1>5, TakeFreeEffect
  <2>3. /\ header' \in Header /\ fileHeader' = fileHeader
        /\ header'.FreeListHead = next /\ header'.PageCount = count
    BY <1>5, <2>2 DEF WriteHeaderFails, AfterTakeFree, PagerTypeOK, Header
  <2>4. G \subseteq DOMAIN filePages /\ G \cap owned' = {}
    BY <1>2, <1>5 DEF IsFreeList
  <2>5. IsFreeList(G, fh, fcount)'
    BY <1>2, <1>3, <2>2, <2>4, KeepFreeList, LimitAssumption
  <2>6. IsFreeList(F \ {h}, header.FreeListHead, header.PageCount)'
        /\ IsFreeList(G, fileHeader.FreeListHead, fileHeader.PageCount)'
    BY <2>2, <2>3, <2>5 DEF IsFreeList
  <2> QED BY <1>3, <1>5, <2>2, <2>3, <2>6, InvFromLists DEF PagerTypeOK
<1>6. CASE AppendPage /\ WriteHeader(AfterAppend) /\ owned' = owned \cup {NextPage}
  <2>1. owned' = owned \cup {count}
    BY <1>6 DEF NextPage, AppendPage
  <2>2. /\ PagesOK' /\ CacheCoherent'
        /\ count \in DOMAIN filePages' /\ count \in 1..(PageLimit - 1)
        /\ DOMAIN filePages \subseteq DOMAIN filePages'
        /\ \A q \in DOMAIN filePages : q # count => Links'[q] = Links[q]
    BY <1>6, AppendEffect
  <2>3. /\ header' \in Header /\ fileHeader' = header'
        /\ header'.FreeListHead = h /\ header'.PageCount = count + 1
    BY <1>3, <1>6, <2>2, LimitAssumption DEF WriteHeader, AfterAppend, PagerTypeOK, Header
  <2>4. F \subseteq DOMAIN filePages /\ count \notin F /\ F \cap owned' = {}
    BY <1>1, <1>3, <2>1, LimitAssumption DEF IsFreeList
  <2>5. IsFreeList(F, h, count + 1)'
    BY <1>1, <1>3, <2>2, <2>4, KeepFreeList, LimitAssumption
  <2>6. IsFreeList(F, header.FreeListHead, header.PageCount)'
        /\ IsFreeList(F, fileHeader.FreeListHead, fileHeader.PageCount)'
    BY <2>3, <2>5 DEF IsFreeList
  <2>7. owned' \subseteq DOMAIN filePages' \cap 1..(fileHeader'.PageCount - 1)
    BY <1>3, <2>1, <2>2, <2>3, LimitAssumption
  <2> QED BY <1>3, <2>2, <2>3, <2>6, <2>7, InvFromLists, LimitAssumption
<1>7. CASE AppendPage /\ WriteHeaderFails(AfterAppend) /\ owned' = owned
  <2>2. /\ PagesOK' /\ CacheCoherent'
        /\ count \in 1..(PageLimit - 1)
        /\ DOMAIN filePages \subseteq DOMAIN filePages'
        /\ \A q \in DOMAIN filePages : q # count => Links'[q] = Links[q]
    BY <1>7, AppendEffect
  <2>3. /\ header' \in Header /\ fileHeader' = fileHeader
        /\ header'.FreeListHead = h /\ header'.PageCount = count + 1
    BY <1>3, <1>7, <2>2, LimitAssumption DEF WriteHeaderFails, AfterAppend, PagerTypeOK, Header
  <2>4. /\ F \subseteq DOMAIN filePages /\ count \notin F /\ F \cap owned' = {}
        /\ G \subseteq DOMAIN filePages /\ count \notin G /\ G \cap owned' = {}
    BY <1>1, <1>2, <1>3, <1>7, LimitAssumption DEF IsFreeList
  <2>5. IsFreeList(F, h, count + 1)' /\ IsFreeList(G, fh, fcount)'
    BY <1>1, <1>2, <1>3, <2>2, <2>4, KeepFreeList, LimitAssumption
  <2>6. IsFreeList(F, header.FreeListHead, header.PageCount)'
        /\ IsFreeList(G, fileHeader.FreeListHead, fileHeader.PageCount)'
    BY <2>3, <2>5 DEF IsFreeList
  <2> QED BY <1>3, <1>7, <2>2, <2>3, <2>6, InvFromLists, LimitAssumption DEF PagerTypeOK
<1>8. CASE /\ UNCHANGED <<fileHeader, buffer, dirty, filePages, open, owned>>
           /\ header' = header \/ (count < PageLimit /\ header' = AfterAppend)
  <2>1. /\ header' \in Header /\ header'.FreeListHead = h
        /\ header'.PageCount \in {count, count + 1}
    BY <1>3, <1>8, LimitAssumption DEF AfterAppend, PagerTypeOK, Header
  <2>2. PagesOK' /\ CacheCoherent' /\ Links' = Links
    BY <1>8 DEF PagerTypeOK, PagesOK, CacheCoherent, Links, View
  <2>3. F \cap owned' = {} /\ G \cap owned' = {}
    BY <1>1, <1>2, <1>8 DEF IsFreeList
  <2>4. /\ IsFreeList(F, h, count)' /\ IsFreeList(F, h, count + 1)'
        /\ IsFreeList(G, fh, fcount)'
    BY <1>1, <1>2, <1>3, <1>8, <2>2, <2>3, KeepFreeList, LimitAssumption
  <2>5. IsFreeList(F, header.FreeListHead, header.PageCount)'
        /\ IsFreeList(G, fileHeader.FreeListHead, fileHeader.PageCount)'
    BY <1>8, <2>1, <2>4 DEF IsFreeList
  <2> QED BY <1>3, <1>8, <2>1, <2>2, <2>5, InvFromLists, LimitAssumption DEF PagerTypeOK
<1> QED BY <1>4, <1>5, <1>6, <1>7, <1>8
        DEF AllocatePage, AllocatePageFails, WriteHeaderFails

(* FreePage and its failure: the page was in use, so it is on neither list. *)
LEMMA FreeKeepsInv ==
  ASSUME PagerInv, NEW p, FreePage(p) \/ FreePageFails(p)
  PROVE  PagerInv'
<1> USE DEF PagerInv
<1> PICK h, count, fh, fcount :
       /\ h = header.FreeListHead /\ count = header.PageCount
       /\ fh = fileHeader.FreeListHead /\ fcount = fileHeader.PageCount
  OBVIOUS
<1>1. PICK F : IsFreeList(F, h, count)
  BY DEF FreeListSound
<1>2. PICK G : IsFreeList(G, fh, fcount)
  BY DEF FileHeaderSound
<1>3. /\ count \in 1..PageLimit /\ fcount \in 1..PageLimit /\ fcount <= count
      /\ owned \subseteq DOMAIN filePages \cap 1..(fcount - 1)
  BY TypeFacts DEF FileHeaderSound, PagerTypeOK
<1>4. GiveBack(p) /\ p \in owned
  BY DEF FreePage, FreePageFails, GiveBack
<1>5. /\ PagesOK' /\ CacheCoherent'
      /\ p \in DOMAIN filePages \cap 1..(count - 1)
      /\ filePages' = filePages
      /\ owned' = owned \ {p}
      /\ \A q \in DOMAIN filePages : q # p => Links'[q] = Links[q]
      /\ IsFreeList(F \cup {p}, p, count)'
  BY <1>1, <1>4, GiveBackEffect
<1>6. header' = [header EXCEPT !.FreeListHead = p]
  BY DEF FreePage, FreePageFails, WriteHeader, WriteHeaderFails
<1>7. header' \in Header /\ header'.FreeListHead = p /\ header'.PageCount = count
  BY <1>3, <1>5, <1>6, LimitAssumption DEF PagerTypeOK, Header
<1>8. IsFreeList(F \cup {p}, header.FreeListHead, header.PageCount)'
  BY <1>5, <1>7 DEF IsFreeList
<1>9. CASE FreePage(p)
  <2>1. fileHeader' = header'
    BY <1>9 DEF FreePage, WriteHeader
  <2>2. IsFreeList(F \cup {p}, fileHeader.FreeListHead, fileHeader.PageCount)'
    BY <1>8, <2>1 DEF IsFreeList
  <2>3. owned' \subseteq DOMAIN filePages' \cap 1..(fileHeader'.PageCount - 1)
    BY <1>3, <1>5, <1>7, <2>1, LimitAssumption
  <2> QED BY <1>3, <1>5, <1>7, <1>8, <2>1, <2>2, <2>3, InvFromLists, LimitAssumption
<1>10. CASE FreePageFails(p)
  <2>1. fileHeader' = fileHeader
    BY <1>10 DEF FreePageFails, WriteHeaderFails
  <2>2. G \subseteq DOMAIN filePages /\ p \notin G /\ G \cap owned' = {}
    BY <1>2, <1>4, <1>5 DEF IsFreeList
  <2>3. IsFreeList(G, fh, fcount)'
    BY <1>2, <1>3, <1>5, <2>2, KeepFreeList, LimitAssumption
  <2>4. IsFreeList(G, fileHeader.FreeListHead, fileHeader.PageCount)'
    BY <2>1, <2>3 DEF IsFreeList
  <2> QED BY <1>3, <1>5, <1>7, <1>8, <2>1, <2>4, InvFromLists DEF PagerTypeOK
<1> QED BY <1>9, <1>10

(* The steps that leave the headers, the pages in use and all links of free
   pages alone: ReadPage, WritePage, the flushes and Close.                *)
LEMMA QuietStepKeepsInv ==
  ASSUME PagerInv,
         UNCHANGED <<header, fileHeader, owned>>,
         PagesOK', CacheCoherent',
         DOMAIN filePages' = DOMAIN filePages,
         \A q \in DOMAIN filePages \ owned : Links'[q] = Links[q]
  PROVE  PagerInv'
<1> USE DEF PagerInv
<1> PICK h, count, fh, fcount :
       /\ h = header.FreeListHead /\ count = header.PageCount
       /\ fh = fileHeader.FreeListHead /\ fcount = fileHeader.PageCount
  OBVIOUS
<1>1. PICK F : IsFreeList(F, h, count)
  BY DEF FreeListSound
<1>2. PICK G : IsFreeList(G, fh, fcount)
  BY DEF FileHeaderSound
<1>3. /\ count \in 1..PageLimit /\ fcount \in 1..PageLimit /\ fcount <= count
      /\ owned \subseteq DOMAIN filePages \cap 1..(fcount - 1)
  BY TypeFacts DEF FileHeaderSound, PagerTypeOK
<1>4. /\ F \subseteq DOMAIN filePages \ owned /\ G \subseteq DOMAIN filePages \ owned
  BY <1>1, <1>2 DEF IsFreeList
<1>5. IsFreeList(F, h, count)' /\ IsFreeList(G, fh, fcount)'
  BY <1>1, <1>2, <1>3, <1>4, KeepFreeList, LimitAssumption
<1>6. IsFreeList(F, header.FreeListHead, header.PageCount)'
      /\ IsFreeList(G, fileHeader.FreeListHead, fileHeader.PageCount)'
  BY <1>5 DEF IsFreeList
<1> QED BY <1>3, <1>6, InvFromLists DEF PagerTypeOK

LEMMA ReadKeepsInv ==
  ASSUME PagerInv, NEW p \in owned, ReadPage(p)
  PROVE  PagerInv'
<1>1. /\ p \in DOMAIN filePages /\ filePages[p] \in Page
      /\ PagerTypeOK /\ CacheCoherent
  BY DEF PagerInv, PagerTypeOK
<1>2. CASE buffer' = buffer
  <2>1. PagesOK' /\ CacheCoherent' /\ Links' = Links /\ filePages' = filePages
    BY <1>1, <1>2 DEF ReadPage, PagerTypeOK, PagesOK, CacheCoherent, Links, View
  <2> QED BY <2>1, QuietStepKeepsInv DEF ReadPage
<1>3. CASE p \notin DOMAIN buffer /\ buffer' = Cached(p, filePages[p])
  <2>1. /\ DOMAIN buffer' = DOMAIN buffer \cup {p}
        /\ buffer' \in [DOMAIN buffer' -> Page]
        /\ \A q \in DOMAIN buffer : buffer'[q] = buffer[q]
        /\ buffer'[p] = filePages[p]
    BY <1>1, <1>3 DEF Cached, PagerTypeOK
  <2>2. filePages' = filePages /\ dirty' = dirty /\ open' = open
    BY DEF ReadPage
  <2>3. PagesOK' /\ CacheCoherent'
    BY <1>1, <2>1, <2>2 DEF PagerTypeOK, PagesOK, CacheCoherent
  <2>4. \A q \in DOMAIN filePages : View(q)' = View(q)
    BY <1>3, <2>1, <2>2 DEF View
  <2>5. Links' = Links
    BY <2>2, <2>4 DEF Links
  <2> QED BY <2>2, <2>3, <2>5, QuietStepKeepsInv DEF ReadPage
<1> QED BY <1>2, <1>3 DEF ReadPage

LEMMA WriteKeepsInv ==
  ASSUME PagerInv, NEW p \in owned, NEW c \in Page, WritePage(p, c)
  PROVE  PagerInv'
<1>1. p \in DOMAIN filePages /\ c \in Page /\ PagerTypeOK /\ CacheCoherent
  BY DEF PagerInv, PagerTypeOK
<1>2. BufferWrite(p, c) /\ filePages' = filePages /\ open' = open
  BY DEF WritePage
<1>3. /\ DOMAIN buffer' = DOMAIN buffer \cup {p}
      /\ buffer' \in [DOMAIN buffer' -> Page]
      /\ \A q \in DOMAIN buffer : q # p => buffer'[q] = buffer[q]
      /\ dirty' = dirty \cup {p}
      /\ dirty' \subseteq DOMAIN buffer'
  BY <1>1, <1>2, BufferWriteEffect
<1>4. PagesOK' /\ CacheCoherent'
  BY <1>1, <1>2, <1>3 DEF PagerTypeOK, PagesOK, CacheCoherent
<1>5. \A q \in DOMAIN filePages : q # p => View(q)' = View(q)
  BY <1>2, <1>3 DEF View
<1>6. \A q \in DOMAIN filePages \ owned : Links'[q] = Links[q]
  BY <1>2, <1>5 DEF Links
<1> QED BY <1>2, <1>4, <1>6, QuietStepKeepsInv DEF WritePage

(* Flush, Close and their failures: some dirty pages S are written, and those
   that were not written stay dirty.                                       *)
LEMMA FlushKeepsInv ==
  ASSUME PagerInv, NEW S \in SUBSET dirty, WriteBack(S),
         dirty' = dirty \/ dirty' = dirty \ S,
         open' \in BOOLEAN,
         UNCHANGED <<header, buffer, fileHeader, owned>>
  PROVE  PagerInv'
<1>1. PagerTypeOK /\ CacheCoherent
  BY DEF PagerInv
<1>2. /\ DOMAIN filePages' = DOMAIN filePages
      /\ filePages' \in [DOMAIN filePages' -> Page]
      /\ Links' = Links
      /\ \A q \in DOMAIN buffer \ (dirty \ S) : buffer[q] = filePages'[q]
  BY <1>1, WriteBackEffect
<1>3. PagesOK' /\ CacheCoherent'
  BY <1>1, <1>2 DEF PagerTypeOK, PagesOK, CacheCoherent
<1> QED BY <1>2, <1>3, QuietStepKeepsInv

(* SetRootPage touches neither list; a successful header write brings the
   file's header up to date.                                               *)
LEMMA SetRootKeepsInv ==
  ASSUME PagerInv, NEW p \in owned, SetRootPage(p) \/ SetRootPageFails(p)
  PROVE  PagerInv'
<1> USE DEF PagerInv
<1> PICK h, count, fh, fcount :
       /\ h = header.FreeListHead /\ count = header.PageCount
       /\ fh = fileHeader.FreeListHead /\ fcount = fileHeader.PageCount
  OBVIOUS
<1>1. PICK F : IsFreeList(F, h, count)
  BY DEF FreeListSound
<1>2. PICK G : IsFreeList(G, fh, fcount)
  BY DEF FileHeaderSound
<1>3. /\ count \in 1..PageLimit /\ fcount \in 1..PageLimit /\ fcount <= count
      /\ owned \subseteq DOMAIN filePages \cap 1..(fcount - 1)
      /\ p \in Nat
  BY TypeFacts DEF FileHeaderSound, PagerTypeOK
<1>4. /\ header' = [header EXCEPT !.RootPageID = p]
      /\ UNCHANGED <<buffer, dirty, filePages, open, owned>>
      /\ fileHeader' = header' \/ fileHeader' = fileHeader
  BY DEF SetRootPage, SetRootPageFails, WriteHeader, WriteHeaderFails
<1>5. header' \in Header /\ header'.FreeListHead = h /\ header'.PageCount = count
  BY <1>3, <1>4 DEF PagerTypeOK, Header
<1>6. PagesOK' /\ CacheCoherent' /\ Links' = Links
  BY <1>4 DEF PagerTypeOK, PagesOK, CacheCoherent, Links, View
<1>7. F \cap owned' = {} /\ G \cap owned' = {}
  BY <1>1, <1>2, <1>4 DEF IsFreeList
<1>8. IsFreeList(F, h, count)' /\ IsFreeList(G, fh, fcount)'
  BY <1>1, <1>2, <1>3, <1>4, <1>6, <1>7, KeepFreeList, LimitAssumption
<1>9. IsFreeList(F, header.FreeListHead, header.PageCount)'
  BY <1>5, <1>8 DEF IsFreeList
<1>10. \E H : IsFreeList(H, fileHeader.FreeListHead, fileHeader.PageCount)'
  <2>1. CASE fileHeader' = header'
    BY <1>9, <2>1 DEF IsFreeList
  <2>2. CASE fileHeader' = fileHeader
    BY <1>8, <2>2 DEF IsFreeList
  <2> QED BY <1>4, <2>1, <2>2
<1>11. CASE fileHeader' = header'
  <2>1. fileHeader' \in Header /\ fileHeader'.PageCount = count
    BY <1>5, <1>11
  <2>2. owned' \subseteq DOMAIN filePages' \cap 1..(fileHeader'.PageCount - 1)
    BY <1>3, <1>4, <2>1, LimitAssumption
  <2> QED BY <1>3, <1>5, <1>6, <1>9, <1>10, <2>1, <2>2, InvFromLists, LimitAssumption
<1>12. CASE fileHeader' = fileHeader
  <2>1. fileHeader' \in Header /\ fileHeader'.PageCount = fcount
    BY <1>12 DEF PagerTypeOK
  <2>2. owned' \subseteq DOMAIN filePages' \cap 1..(fileHeader'.PageCount - 1)
    BY <1>3, <1>4, <2>1
  <2> QED BY <1>3, <1>5, <1>6, <1>9, <1>10, <2>1, <2>2, InvFromLists
<1> QED BY <1>4, <1>11, <1>12

(* OpenPager: with nothing dirty the file holds what the buffer held, so the
   list the file's header starts becomes the list in memory.               *)
LEMMA OpenKeepsInv ==
  ASSUME PagerInv, OpenPager
  PROVE  PagerInv'
<1> USE DEF PagerInv
<1> PICK fh, fcount : fh = fileHeader.FreeListHead /\ fcount = fileHeader.PageCount
  OBVIOUS
<1>1. PICK G : IsFreeList(G, fh, fcount)
  BY DEF FileHeaderSound
<1>2. /\ fcount \in 1..PageLimit
      /\ owned \subseteq DOMAIN filePages \cap 1..(fcount - 1)
  BY TypeFacts DEF FileHeaderSound, PagerTypeOK
<1>3. /\ header' = fileHeader /\ fileHeader' = fileHeader /\ owned' = owned
      /\ filePages' = filePages /\ DOMAIN buffer' = {} /\ dirty' = {} /\ open'
      /\ buffer' \in [DOMAIN buffer' -> Page]
  BY DEF OpenPager
<1>4. PagesOK' /\ CacheCoherent'
  BY <1>3 DEF OpenPager, PagerTypeOK, PagesOK, CacheCoherent
<1>5. \A q \in DOMAIN filePages : View(q)' = View(q)
  BY <1>3 DEF OpenPager, View, CacheCoherent
<1>6. Links' = Links
  BY <1>3, <1>5 DEF Links
<1>7. G \cap owned' = {}
  BY <1>1, <1>3 DEF IsFreeList
<1>8. IsFreeList(G, fh, fcount)'
  BY <1>1, <1>2, <1>3, <1>6, <1>7, KeepFreeList, LimitAssumption
<1>9. IsFreeList(G, header.FreeListHead, header.PageCount)'
      /\ IsFreeList(G, fileHeader.FreeListHead, fileHeader.PageCount)'
  BY <1>3, <1>8 DEF IsFreeList
<1> QED BY <1>2, <1>3, <1>4, <1>9, InvFromLists, LimitAssumption DEF PagerTypeOK

-----------------------------------------------------------------------------
LEMMA NextInv == PagerInv /\ [PagerNext]_pagerVars => PagerInv'
<1> SUFFICES ASSUME PagerInv, [PagerNext]_pagerVars PROVE PagerInv'
  OBVIOUS
<1>1. dirty \cap DOMAIN buffer = dirty
  BY DEF PagerInv, PagerTypeOK
<1>2. ASSUME AllocatePage \/ AllocatePageFails PROVE PagerInv'
  BY <1>2, AllocateKeepsInv
<1>3. ASSUME NEW p \in owned, FreePage(p) \/ FreePageFails(p) PROVE PagerInv'
  BY <1>3, FreeKeepsInv
<1>4. ASSUME NEW p \in owned, ReadPage(p) PROVE PagerInv'
  BY <1>4, ReadKeepsInv
<1>5. ASSUME NEW p \in owned, SetRootPage(p) \/ SetRootPageFails(p) PROVE PagerInv'
  BY <1>5, SetRootKeepsInv
<1>6. ASSUME NEW p \in owned, NEW c \in Content, WritePage(p, c) PROVE PagerInv'
  BY <1>6, Pages, WriteKeepsInv
<1>7. ASSUME Flush \/ Close PROVE PagerInv'
  BY <1>1, <1>7, FlushKeepsInv DEF Flush, Close, PagerInv, PagerTypeOK
<1>8. ASSUME FlushFails \/ CloseFails PROVE PagerInv'
  <2>1. open' \in BOOLEAN /\ UNCHANGED <<header, buffer, fileHeader, owned>>
    BY <1>8 DEF FlushFails, CloseFails, PagerInv, PagerTypeOK
  <2>2. CASE FlushStopsHalfway
    BY <1>1, <2>1, <2>2, FlushKeepsInv DEF FlushStopsHalfway
  <2>3. CASE SyncFails
    BY <1>1, <2>1, <2>3, FlushKeepsInv DEF SyncFails
  <2> QED BY <1>8, <2>2, <2>3 DEF FlushFails, CloseFails
<1>9. ASSUME OpenPager PROVE PagerInv'
  BY <1>9, OpenKeepsInv
<1>10. CASE UNCHANGED pagerVars
  BY <1>10 DEF pagerVars, PagerInv, PagerTypeOK, CacheCoherent, FreeListSound,
               FileHeaderSound, IsFreeList, View
<1> QED BY <1>2, <1>3, <1>4, <1>5, <1>6, <1>7, <1>8, <1>9, <1>10
        DEF PagerNext, PagerNextReliable

(* The whole invariant holds in every state of the pager, also when file I/O
   fails at any point.                                                     *)
THEOREM PagerInvariant == PagerSpec => []PagerInv
<1>1. PagerInit => PagerInv
  BY InitInv
<1>2. PagerInv /\ [PagerNext]_pagerVars => PagerInv'
  BY NextInv
<1> QED BY <1>1, <1>2, PTL DEF PagerSpec

(* The state stays well-formed: in particular every dirty page is buffered and
   every page in use has its place in the file.                            *)
THEOREM PagerTypeCorrect == PagerSpec => []PagerTypeOK
<1>1. PagerInv => PagerTypeOK
  BY DEF PagerInv
<1> QED BY <1>1, PagerInvariant, PTL

(* AllocatePage never finds a page in use on its free list.                *)
THEOREM FreeListCorrect == PagerSpec => []FreeListSound
<1>1. PagerInv => FreeListSound
  BY DEF PagerInv
<1> QED BY <1>1, PagerInvariant, PTL

(* Nor would the process that reads the header left in the file.           *)
THEOREM FileHeaderCorrect == PagerSpec => []FileHeaderSound
<1>1. PagerInv => FileHeaderSound
  BY DEF PagerInv
<1> QED BY <1>1, PagerInvariant, PTL

(* A clean page of the buffer is what the file holds.                      *)
THEOREM CacheCorrect == PagerSpec => []CacheCoherent
<1>1. PagerInv => CacheCoherent
  BY DEF PagerInv
<1> QED BY <1>1, PagerInvariant, PTL

-----------------------------------------------------------------------------
(* The pager implements PageStore: its client sees numbered pages that hold
   what was last written to them, whatever the cache, the free list, failing
   I/O and restarts do underneath.                                         *)

HandedOut == [p \in owned |-> View(p)]

LEMMA AllocateRefines ==
  ASSUME PagerInv, AllocatePage
  PROVE  \E n \in 1..PageLimit : PS!Allocate(n)
<1> USE DEF PagerInv
<1> PICK h, count : h = header.FreeListHead /\ count = header.PageCount
  OBVIOUS
<1>1. PICK F : IsFreeList(F, h, count)
  BY DEF FreeListSound
<1>2. /\ count \in 1..PageLimit
      /\ owned \subseteq DOMAIN filePages \cap 1..(count - 1)
  BY TypeFacts DEF FileHeaderSound, PagerTypeOK
<1>3. CASE TakeFree
  <2>1. owned' = owned \cup {h}
    BY <1>3 DEF AllocatePage, NextPage, TakeFree
  <2>2. /\ h \in DOMAIN filePages \cap 1..(count - 1)
        /\ \A q \in DOMAIN filePages : q # h => View(q)' = View(q)
        /\ View(h)' = ZeroPage
    BY <1>1, <1>3, <2>1, TakeFreeEffect
  <2>3. h \notin owned
    BY <1>1, <1>3 DEF IsFreeList, TakeFree
  <2>4. PS!Allocate(h)
    BY <1>2, <2>1, <2>2, <2>3 DEF PS!Allocate
  <2> QED BY <1>2, <2>2, <2>4, LimitAssumption
<1>4. CASE AppendPage
  <2>1. owned' = owned \cup {count}
    BY <1>4 DEF AllocatePage, NextPage, AppendPage
  <2>2. /\ \A q \in DOMAIN filePages : q # count => View(q)' = View(q)
        /\ View(count)' = ZeroPage
    BY <1>4, AppendEffect
  <2>3. count \notin owned
    BY <1>2
  <2>4. PS!Allocate(count)
    BY <1>2, <2>1, <2>2, <2>3 DEF PS!Allocate
  <2> QED BY <1>2, <2>4
<1> QED BY <1>3, <1>4 DEF AllocatePage

LEMMA FreeRefines ==
  ASSUME PagerInv, NEW p, GiveBack(p)
  PROVE  \E n \in 1..PageLimit : PS!Release(n)
<1> USE DEF PagerInv
<1> PICK h, count : h = header.FreeListHead /\ count = header.PageCount
  OBVIOUS
<1>1. PICK F : IsFreeList(F, h, count)
  BY DEF FreeListSound
<1>2. /\ owned' = owned \ {p} /\ p \in owned
      /\ \A q \in DOMAIN filePages : q # p => View(q)' = View(q)
  BY <1>1, GiveBackEffect DEF GiveBack
<1>3. owned \subseteq DOMAIN filePages /\ p \in 1..PageLimit
  BY <1>2 DEF PagerTypeOK
<1>4. PS!Release(p)
  BY <1>2, <1>3 DEF PS!Release
<1> QED BY <1>3, <1>4

LEMMA WriteRefines ==
  ASSUME PagerInv, NEW p \in owned, NEW c \in Content, WritePage(p, c)
  PROVE  \E n \in 1..PageLimit : PS!Write(n, c)
<1>1. p \in 1..PageLimit /\ c \in Page /\ PagerTypeOK
  BY Pages DEF PagerInv, PagerTypeOK
<1>2. BufferWrite(p, c) /\ filePages' = filePages /\ owned' = owned
  BY DEF WritePage
<1>3. /\ DOMAIN buffer' = DOMAIN buffer \cup {p}
      /\ buffer'[p] = c
      /\ \A q \in DOMAIN buffer : q # p => buffer'[q] = buffer[q]
  BY <1>1, <1>2, BufferWriteEffect
<1>4. View(p)' = c /\ \A q : q # p => View(q)' = View(q)
  BY <1>2, <1>3 DEF View
<1>5. PS!Write(p, c)
  BY <1>2, <1>4 DEF PS!Write
<1> QED BY <1>1, <1>5

(* Everything else is invisible to the client: a step after which the pages in
   use read as before.                                                     *)
LEMMA SameView ==
  ASSUME owned' = owned, \A p \in owned : View(p)' = View(p)
  PROVE  UNCHANGED HandedOut
BY DEF HandedOut

LEMMA FailedAllocateInvisible ==
  ASSUME PagerInv, AllocatePageFails
  PROVE  UNCHANGED HandedOut
<1> USE DEF PagerInv
<1> PICK h, count : h = header.FreeListHead /\ count = header.PageCount
  OBVIOUS
<1>1. PICK F : IsFreeList(F, h, count)
  BY DEF FreeListSound
<1>2. /\ owned' = owned
      /\ count \in 1..PageLimit
      /\ owned \subseteq DOMAIN filePages \cap 1..(count - 1)
  BY TypeFacts DEF FileHeaderSound, PagerTypeOK, AllocatePageFails
<1>3. CASE TakeFree
  <2>1. \A q \in DOMAIN filePages : q # h => View(q)' = View(q)
    BY <1>1, <1>2, <1>3, TakeFreeEffect
  <2>2. h \notin owned
    BY <1>1, <1>3 DEF IsFreeList, TakeFree
  <2> QED BY <1>2, <2>1, <2>2, SameView
<1>4. CASE AppendPage
  <2>1. \A q \in DOMAIN filePages : q # count => View(q)' = View(q)
    BY <1>4, AppendEffect
  <2> QED BY <1>2, <2>1, SameView
<1>5. CASE UNCHANGED <<buffer, filePages>>
  <2>1. \A q : View(q)' = View(q)
    BY <1>5 DEF View
  <2> QED BY <1>2, <2>1, SameView
<1> QED BY <1>3, <1>4, <1>5 DEF AllocatePageFails

LEMMA FlushInvisible ==
  ASSUME PagerInv, NEW S \in SUBSET dirty, WriteBack(S), UNCHANGED <<buffer, owned>>
  PROVE  UNCHANGED HandedOut
<1>1. \A p \in owned : View(p)' = View(p)
  BY DEF PagerInv, PagerTypeOK, WriteBack, View
<1> QED BY <1>1, SameView

LEMMA ReadInvisible ==
  ASSUME PagerInv, NEW p \in owned, ReadPage(p)
  PROVE  UNCHANGED HandedOut
<1>1. \A q \in owned : View(q)' = View(q)
  BY DEF PagerInv, PagerTypeOK, ReadPage, Cached, View
<1> QED BY <1>1, SameView DEF ReadPage

LEMMA OpenInvisible ==
  ASSUME PagerInv, OpenPager
  PROVE  UNCHANGED HandedOut
<1>1. \A q \in owned : View(q)' = View(q)
  BY DEF PagerInv, CacheCoherent, OpenPager, View
<1> QED BY <1>1, SameView DEF OpenPager

LEMMA StepRefines ==
  ASSUME PagerInv, [PagerNext]_pagerVars
  PROVE  PS!Next \/ UNCHANGED HandedOut
<1>1. dirty \cap DOMAIN buffer = dirty
  BY DEF PagerInv, PagerTypeOK
<1>2. ASSUME AllocatePage PROVE PS!Next
  BY <1>2, AllocateRefines DEF PS!Next
<1>3. ASSUME NEW p \in owned, FreePage(p) \/ FreePageFails(p) PROVE PS!Next
  BY <1>3, FreeRefines DEF PS!Next, FreePage, FreePageFails
<1>4. ASSUME NEW p \in owned, NEW c \in Content, WritePage(p, c) PROVE PS!Next
  BY <1>4, WriteRefines DEF PS!Next
<1>5. ASSUME AllocatePageFails PROVE UNCHANGED HandedOut
  BY <1>5, FailedAllocateInvisible
<1>6. ASSUME NEW p \in owned, ReadPage(p) PROVE UNCHANGED HandedOut
  BY <1>6, ReadInvisible
<1>7. ASSUME NEW p \in owned, SetRootPage(p) \/ SetRootPageFails(p) PROVE UNCHANGED HandedOut
  BY <1>7 DEF SetRootPage, SetRootPageFails, HandedOut, View
<1>8. ASSUME Flush \/ Close \/ FlushFails \/ CloseFails PROVE UNCHANGED HandedOut
  BY <1>1, <1>8, FlushInvisible DEF Flush, Close, FlushFails, CloseFails,
                                    FlushStopsHalfway, SyncFails
<1>9. ASSUME OpenPager PROVE UNCHANGED HandedOut
  BY <1>9, OpenInvisible
<1>10. ASSUME UNCHANGED pagerVars PROVE UNCHANGED HandedOut
  BY <1>10 DEF pagerVars, HandedOut, View
<1> QED BY <1>2, <1>3, <1>4, <1>5, <1>6, <1>7, <1>8, <1>9, <1>10
        DEF PagerNext, PagerNextReliable

(* The pager, with all the failures of its file, implements the page store. *)
THEOREM PagerRefinement == PagerSpec => PageStoreSpec
<1>1. PagerInit => PS!Init
  BY DEF PagerInit, PS!Init
<1>2. PagerInv /\ [PagerNext]_pagerVars => [PS!Next]_([p \in owned |-> View(p)])
  BY StepRefines DEF HandedOut
<1> QED BY <1>1, <1>2, PagerInvariant, PTL DEF PagerSpec, PageStoreSpec, PS!Spec

=============================================================================
