------------------------------- MODULE Pager -------------------------------
(***************************************************************************)
(* internal/storage/pager.go: the only code that touches the database      *)
(* file.  Pages are buffered in memory and written back by Flush; the file *)
(* header (page count, root, head of the free list) is written through at  *)
(* every change.  Every method takes p.mu, so each one is a single step.   *)
(*                                                                         *)
(* A page is the record [word, body]: `word' is the little-endian uint32   *)
(* in its first four bytes, which is all the pager itself ever interprets  *)
(* (the free-list link), and `body' stands for the rest.                   *)
(*                                                                         *)
(* File I/O can fail: each method that writes has a ...Fails companion     *)
(* whose disjuncts are its error returns, with the memory changes already  *)
(* made at that point.  After Close the file handle is gone and only those *)
(* failing steps, and what the buffer alone can serve, remain.             *)
(***************************************************************************)
EXTENDS Integers, FiniteSets

CONSTANTS
  Words,           \* first words of the pages the client below writes
  Body,            \* what the rest of a page in use may hold
  Zeros,           \* the rest of a cleared page
  MaxBufferPages,  \* 256 in the code
  PageLimit        \* bound on PageCount (below 2^32: the counter is a uint32)

VARIABLES
  header,      \* p.header: [PageCount, RootPageID, FreeListHead]
  buffer,      \* p.buffer: page id -> page, for the cached pages
  dirty,       \* p.dirty: pages to be written by Flush
  fileHeader,  \* the header page of the file
  filePages,   \* the other pages of the file
  open,        \* p.file is open
  owned        \* auxiliary: pages handed out by AllocatePage, not freed since

pagerVars == <<header, buffer, dirty, fileHeader, filePages, open, owned>>

ASSUME WordsAssumption == Words \subseteq Nat
ASSUME LimitAssumption == PageLimit \in Nat \ {0} /\ MaxBufferPages \in Nat

(* The page FreePage builds: a link to the next free page, then zeros.     *)
LinkPage(next) == [word |-> next, body |-> Zeros]

ZeroPage == LinkPage(0)

Page == [word : Nat, body : Body \cup {Zeros}]

Content == [word : Words, body : Body]

Header == [PageCount : 1..PageLimit, RootPageID : Nat, FreeListHead : Nat]

(* What ReadPage returns: the cached copy if there is one, else the file's. *)
View(p) == IF p \in DOMAIN buffer THEN buffer[p] ELSE filePages[p]

(* The conditions under which readPageLocked gets data at all.             *)
Readable(p) ==
  /\ p < header.PageCount
  /\ p \in DOMAIN buffer \/ open

Cached(p, c) ==
  [q \in DOMAIN buffer \cup {p} |-> IF q = p THEN c ELSE buffer[q]]

(* The assignments p.buffer[pageID] = data; p.dirty[pageID] = true.        *)
BufferWrite(p, c) ==
  /\ buffer' = Cached(p, c)
  /\ dirty' = dirty \cup {p}

(* writeHeader when WriteAt fails: memory has moved on, the file has not.  *)
WriteHeaderFails(h) == header' = h /\ UNCHANGED fileHeader

(* writeHeader: the header as the memory has it and the file gets it.      *)
WriteHeader(h) == header' = h /\ fileHeader' = h

-----------------------------------------------------------------------------
(* OpenPager on an empty file, with initNewFile.                           *)
PagerInit ==
  /\ header = [PageCount |-> 1, RootPageID |-> 0, FreeListHead |-> 0]
  /\ fileHeader = header
  /\ buffer = [p \in {} |-> ZeroPage]
  /\ dirty = {}
  /\ filePages = [p \in {} |-> ZeroPage]
  /\ open = TRUE
  /\ owned = {}

(* The page the next AllocatePage takes.                                   *)
NextPage ==
  IF header.FreeListHead # 0 THEN header.FreeListHead ELSE header.PageCount

(* Mutant of TakeFree: the recycled page keeps its old bytes.              *)
TakeFreeUncleared ==
  /\ header.FreeListHead # 0
  /\ Readable(header.FreeListHead)
  /\ BufferWrite(header.FreeListHead, View(header.FreeListHead))
  /\ UNCHANGED <<filePages, open>>

(* The free-list branch of AllocatePage up to the header write: read the
   head's link, move the head on, clear the page in the buffer.            *)
TakeFree ==
  /\ header.FreeListHead # 0
  /\ Readable(header.FreeListHead)
  /\ BufferWrite(header.FreeListHead, ZeroPage)
  /\ UNCHANGED <<filePages, open>>

(* Mutant of AfterTakeFree: the head stays on the page handed out.         *)
HeadNotMoved == header

AfterTakeFree == [header EXCEPT !.FreeListHead = View(header.FreeListHead).word]

(* Mutant of AppendPage: the file is left to the next Flush.               *)
AppendInMemory ==
  /\ header.FreeListHead = 0
  /\ header.PageCount < PageLimit
  /\ BufferWrite(header.PageCount, ZeroPage)
  /\ UNCHANGED <<filePages, open>>

(* The other branch: append a page of zeros to the file.  Writing past the
   end of the file leaves zeros in any gap.                                *)
AppendPage ==
  /\ header.FreeListHead = 0
  /\ header.PageCount < PageLimit
  /\ open
  /\ filePages' = [q \in DOMAIN filePages \cup 1..header.PageCount |->
                     IF q \in DOMAIN filePages \ {header.PageCount}
                       THEN filePages[q] ELSE ZeroPage]
  /\ BufferWrite(header.PageCount, ZeroPage)
  /\ UNCHANGED open

AfterAppend == [header EXCEPT !.PageCount = @ + 1]

AllocatePage ==
  /\ open
  /\ \/ TakeFree /\ WriteHeader(AfterTakeFree)
     \/ AppendPage /\ WriteHeader(AfterAppend)
  /\ owned' = owned \cup {NextPage}

(* The error returns of AllocatePage, in the order of the code: the link of
   the free head cannot be read; the header write fails after the head has
   moved; the append fails after PageCount was incremented (at PageLimit the
   model's counter stays there: the file system is full); the header write
   fails after the append.                                                 *)
AllocatePageFails ==
  /\ \/ /\ header.FreeListHead # 0
        /\ ~(header.FreeListHead < header.PageCount
             /\ header.FreeListHead \in DOMAIN buffer)
        /\ UNCHANGED <<header, fileHeader, buffer, dirty, filePages, open>>
     \/ TakeFree /\ WriteHeaderFails(AfterTakeFree)
     \/ /\ header.FreeListHead = 0
        /\ IF header.PageCount < PageLimit
             THEN WriteHeaderFails(AfterAppend)
             ELSE UNCHANGED <<header, fileHeader>>
        /\ UNCHANGED <<buffer, dirty, filePages, open>>
     \/ AppendPage /\ WriteHeaderFails(AfterAppend)
  /\ UNCHANGED owned

(* Mutant of GiveBack: the link to the rest of the list is forgotten.      *)
GiveBackUnlinked(p) ==
  /\ p \in owned
  /\ BufferWrite(p, ZeroPage)
  /\ owned' = owned \ {p}
  /\ UNCHANGED <<filePages, open>>

(* FreePage up to the header write.  The caller owns the page: the code only
   refuses page 0 and does not detect a second free of the same page.      *)
GiveBack(p) ==
  /\ p \in owned
  /\ BufferWrite(p, LinkPage(header.FreeListHead))
  /\ owned' = owned \ {p}
  /\ UNCHANGED <<filePages, open>>

FreePage(p) ==
  /\ open
  /\ GiveBack(p)
  /\ WriteHeader([header EXCEPT !.FreeListHead = p])

FreePageFails(p) ==
  /\ GiveBack(p)
  /\ WriteHeaderFails([header EXCEPT !.FreeListHead = p])

(* ReadPage: served from the buffer, or from the file and then cached, but
   only while the buffer holds fewer than MaxBufferPages pages.            *)
ReadPage(p) ==
  /\ Readable(p)
  /\ buffer' = IF p \notin DOMAIN buffer /\ Cardinality(DOMAIN buffer) < MaxBufferPages
               THEN Cached(p, filePages[p]) ELSE buffer
  /\ UNCHANGED <<header, dirty, fileHeader, filePages, open, owned>>

(* WritePage changes the buffer only, whatever its size.                   *)
WritePage(p, c) ==
  /\ BufferWrite(p, c)
  /\ UNCHANGED <<header, fileHeader, filePages, open, owned>>

(* Mutant of WriteBack: the file is truncated and written afresh.          *)
WriteBackAfresh(S) ==
  filePages' = [q \in DOMAIN filePages \cup S |->
                  IF q \in S THEN buffer[q] ELSE ZeroPage]

(* The effect on the file of writing back the dirty pages in S.            *)
WriteBack(S) ==
  filePages' = [q \in DOMAIN filePages \cup S |->
                  IF q \in S THEN buffer[q] ELSE filePages[q]]

Flush ==
  /\ open
  /\ WriteBack(dirty \cap DOMAIN buffer)
  /\ dirty' = {}
  /\ UNCHANGED <<header, buffer, fileHeader, open, owned>>

(* Mutant of FlushStopsHalfway: the dirty map is reset before the error.   *)
HalfFlushForgets ==
  /\ \E S \in SUBSET (dirty \cap DOMAIN buffer) :
       /\ S # {} => open
       /\ WriteBack(S)
  /\ dirty' = {}

(* Flush gives up at the first page it cannot write.  The map of dirty pages
   is walked in random order, so any part of them may have reached the file;
   all of them stay dirty.                                                 *)
FlushStopsHalfway ==
  /\ \E S \in SUBSET (dirty \cap DOMAIN buffer) :
       /\ S # {} => open
       /\ WriteBack(S)
  /\ UNCHANGED dirty

(* Or every page is written and only the final Sync fails.                 *)
SyncFails ==
  /\ open \/ dirty = {}
  /\ WriteBack(dirty \cap DOMAIN buffer)
  /\ dirty' = {}

FlushFails ==
  /\ FlushStopsHalfway \/ SyncFails
  /\ UNCHANGED <<header, buffer, fileHeader, open, owned>>

SetRootPage(p) ==
  /\ open
  /\ WriteHeader([header EXCEPT !.RootPageID = p])
  /\ UNCHANGED <<buffer, dirty, filePages, open, owned>>

SetRootPageFails(p) ==
  /\ WriteHeaderFails([header EXCEPT !.RootPageID = p])
  /\ UNCHANGED <<buffer, dirty, filePages, open, owned>>

(* Mutant of Close: the file is closed without the flush.                  *)
CloseUnflushed ==
  /\ open
  /\ dirty' = {}
  /\ open' = FALSE
  /\ UNCHANGED <<header, buffer, fileHeader, filePages, owned>>

(* Close flushes and then closes the file.                                 *)
Close ==
  /\ open
  /\ WriteBack(dirty \cap DOMAIN buffer)
  /\ dirty' = {}
  /\ open' = FALSE
  /\ UNCHANGED <<header, buffer, fileHeader, owned>>

(* When the flush in Close fails the file is closed all the same.          *)
CloseFails ==
  /\ open
  /\ FlushStopsHalfway \/ SyncFails
  /\ open' = FALSE
  /\ UNCHANGED <<header, buffer, fileHeader, owned>>

(* OpenPager on an existing file: a new Pager with the file's header and an
   empty buffer.  The step is taken when nothing unflushed is left behind.  *)
OpenPager ==
  /\ ~open
  /\ dirty = {}
  /\ header' = fileHeader
  /\ buffer' = [p \in {} |-> ZeroPage]
  /\ open' = TRUE
  /\ UNCHANGED <<dirty, fileHeader, filePages, owned>>

-----------------------------------------------------------------------------
(* A client that respects the interface: it reads, writes and frees only
   pages it owns.                                                          *)
PagerNextReliable ==
  \/ AllocatePage
  \/ \E p \in owned :
       \/ FreePage(p)
       \/ ReadPage(p)
       \/ SetRootPage(p)
       \/ \E c \in Content : WritePage(p, c)
  \/ Flush
  \/ Close
  \/ OpenPager

PagerNext ==
  \/ PagerNextReliable
  \/ AllocatePageFails
  \/ \E p \in owned : FreePageFails(p) \/ SetRootPageFails(p)
  \/ FlushFails
  \/ CloseFails

PagerSpec == PagerInit /\ [][PagerNext]_pagerVars

-----------------------------------------------------------------------------
(* Types, with two facts the other definitions rely on: whatever is dirty is
   still in the buffer (so the `continue' of Flush is never taken), and what
   is dirty or handed out has its place in the file.                       *)
PagerTypeOK ==
  /\ header \in Header
  /\ fileHeader \in Header
  /\ fileHeader.PageCount <= header.PageCount
  /\ DOMAIN filePages \subseteq 1..PageLimit
  /\ filePages \in [DOMAIN filePages -> Page]
  /\ DOMAIN buffer \subseteq DOMAIN filePages
  /\ buffer \in [DOMAIN buffer -> Page]
  /\ dirty \subseteq DOMAIN buffer
  /\ open \in BOOLEAN
  /\ owned \subseteq DOMAIN filePages

(* F is a set of pages through which the links starting at head run: none of
   them is in a client's hands, no link leaves F, nothing links back to the
   head, and no two pages link to the same one.  The pages met from the head
   on are then all different and the walk ends at 0.                       *)
IsFreeList(F, head, count) ==
  /\ F \subseteq DOMAIN filePages \cap 1..(count - 1)
  /\ F \cap owned = {}
  /\ head \in F \cup {0}
  /\ \A p \in F :
       /\ View(p).word \in F \cup {0}
       /\ View(p).word = head => head = 0
       /\ \A q \in F : View(p).word = View(q).word => p = q \/ View(p).word = 0

(* The free list AllocatePage takes pages from is sound, whichever calls have
   failed half way before: it never leads to a page in use.                *)
FreeListSound ==
  \E F \in SUBSET DOMAIN filePages :
    IsFreeList(F, header.FreeListHead, header.PageCount)

(* The header in the file may lag behind the one in memory when a header write
   failed.  A restart that finds it still gets a sound free list, and a page
   count that covers every page in use.                                    *)
FileHeaderSound ==
  /\ owned \subseteq 1..(fileHeader.PageCount - 1)
  /\ \E F \in SUBSET DOMAIN filePages :
       IsFreeList(F, fileHeader.FreeListHead, fileHeader.PageCount)

(* A buffered page that is not dirty is what the file holds, so dropping the
   buffer after a flush loses nothing.                                     *)
CacheCoherent ==
  \A p \in DOMAIN buffer \ dirty : buffer[p] = filePages[p]

(* The pages the links lead to from the head of the free list.             *)
FreeChain ==
  LET reach[n \in 0..PageLimit] ==
        IF n = 0 THEN {header.FreeListHead} \ {0}
        ELSE (reach[n - 1] \cup {View(p).word : p \in reach[n - 1]}) \ {0}
  IN reach[PageLimit]

(* The pages nobody can get at: neither in use nor on the free list.        *)
LostPages == 1..(header.PageCount - 1) \ (owned \cup FreeChain)

(* Only a header write that fails can lose a page: every other step of
   AllocatePage, FreePage, Flush, Close and OpenPager, failed flushes included,
   leaves each page in use or on the free list, whatever went wrong before. *)
NoPageLost ==
  [][header = fileHeader /\ header' = fileHeader'
       => LostPages' \subseteq LostPages]_pagerVars

(* The pager implements the abstract page store, whose pages are the ones
   handed out and whose contents are what ReadPage returns for them.        *)
PS == INSTANCE PageStore WITH
        PageIds <- 1..PageLimit,
        contents <- [p \in owned |-> View(p)]

PageStoreSpec == PS!Spec

=============================================================================
