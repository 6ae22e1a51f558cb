# rawth: specification, model checking and proofs

This directory holds TLA+ modules for rawth (the storage stack, the RQL front end and
the server process), TLC configurations that check them on small instances, and TLAPS
proofs for every instance. `PROJECT.json` lists the components, the runs, the source
lines behind each definition, the hazards and the theorems.

## 1. The system and its parts

    web UI ──HTTP/WebSocket──► HTTP server ─┐
    telnet ──────TCP─────────► TCP server ──┼─► RQL executor ─► Engine ─► B+Tree ─► Pager ─► file
    main: opens the engine, seeds it, starts the servers, closes all on a signal

| Part | State | Operations | Talks to | What is hard | What makes it correct |
|---|---|---|---|---|---|
| **Pager** (`pager.go`) | header (page count, root, free-list head), buffer, dirty set, the file | OpenPager, AllocatePage, FreePage, ReadPage, WritePage, Flush, SetRootPage, Close | the file | header is written through, pages are written back; each write can fail after memory has moved on; the link of a free page is read out of the page itself; ReadPage fills the buffer under a read lock | no page handed out twice, clean cache = file, a restart sees what was written |
| **B+Tree** (`btree.go`) | pages of the pager, root in the header | Put, Get, Has, Delete, Keys, ForEach, Count, Depth, NewBPlusTree | pager calls | a split is up to a dozen pager calls, each of which may fail or be the last before a kill; Get follows the tree and Keys the leaf links; size arithmetic | behaves as a map; the damage of an error or a kill is bounded; every operation returns |
| **Engine** (`engine.go`) | tree, pager, deadlines in memory, counters, RW lock | OpenEngine, Put, Get, Has, Delete, Keys, Stats, Nuke, Close | tree, pager, clock | lazy expiry, deadlines apart from their keys, Nuke that fails half-way, restart without deadlines | expiry is invisible, no stale value, no key comes back |
| **RQL lexer/parser** | position in the input, tokens | Tokenize, Parse | – | quoting, escapes, the end of the input, numbers that do not fit | what is typed reaches the engine; every line comes to an end |
| **RQL executor** | none | one method per command | engine | – | each result reports what the engine did |
| **TCP server** | listener, one goroutine per connection | Start, accept loop, connection handler, Stop | executor | Stop leaves connections alive while the engine is closed; a panic ends the process | every command is answered |
| **HTTP/WebSocket server** | http.Server, registered connections | REST handlers, upgrade, read loop, Stop | executor, engine | hijacked connections outlive shutdown; Start reports success before the port is taken | no connection is left behind |
| **main** | – | serve: open, count, seed, start, wait, close | all | order of the deferred closes; errors that are ignored at start-up | what was answered is there after the next start, however this process ends |
| **Web UI** (`web/static`) | socket, history | send, reconnect, HTTP fallback | HTTP server | reconnects | – |

All but the web UI is modelled; of the HTTP server, what frames and files look like is
left out (section 9).

## 2. Modules

| Module | Role |
|---|---|
| `PageStore` | what the pager promises: pages handed out, freed, read and written |
| `Pager` | `pager.go`; `MCPager` its instances; `PagerProofs` its proofs |
| `KVMap` | what the tree promises: a finite map with Put, Get, Delete, Keys |
| `BTree` | `btree.go`, extending `Pager`; `MCBTree` its instances; `BTreeProofs`, `BTreeMapProofs` and `BTreeShapeProofs` its proofs |
| `TTLMap` | what the engine promises: a map whose entries vanish at their deadline |
| `Engine` | `engine.go` over the map of the tree; `MCEngine` its instances; `EngineProofs` its proofs |
| `RQL` | lexer, parser and the start of Execute; `MCRQL` its lines; `RQLProofs` its proofs |
| `Recursion` | lemmas about recursive functions and induction over sets of numbers |
| `Commands` | vocabulary of lines, answers and file contents, shared by the next two |
| `Service` | what the server promises its clients: commands take effect one at a time and last |
| `Server` | `main.go`, `tcp.go`, `http.go`, the executor and `e.mu`; `MCServer` its instances; `ServerProofs` its proofs |
| `Readers` | two scans inside `Pager.ReadPage` |

Four refinements carry the composition: `Pager` implements `PageStore`
(`PageStoreSpec`), `BTree` implements `KVMap` (`KVMapSpec`), `Engine` implements `TTLMap`
(`TTLMapSpec`), `Server` implements `Service` (`ServiceSpec`). `BTree` calls the actions
of `Pager` itself. `Engine` uses the map that `BTree` is shown to implement, and what the
error runs of `BTree` show about failed operations. `Server` uses the map too, and
what the kills of `BTree` (`KillDamageIsBounded`) leave of it.

### Pager

Every method takes `p.mu`, so a method is one step. `header`, `buffer` and `dirty`
are the fields of the struct; `fileHeader` and `filePages` are the file; `open` is
the file handle. A page is `[word, body]`: `word` is the number in its first four
bytes, all the pager interprets (the free-list link), `body` the rest. A node's
first bytes are its type and key count, so an empty leaf reads as "link to page 2";
the instances write exactly such pages. `owned` is auxiliary: the pages some client
holds. Each method that writes has a `...Fails` action whose disjuncts are the error
returns in code order, with what memory (or the file) has suffered by then. Flush
walks a Go map, so a failing Flush has written *any* subset of the dirty pages.
`Close`/`CloseFails` and `OpenPager` make a restart.

The client of the pager's own run may call anything on pages it owns. The tree is
a tamer client (it never frees a page).

### B+Tree

An operation runs alone (the engine's lock) but is not atomic: one step is one
pager call with the computation around it, and the recursion of `insert` is the
explicit `stack`. `pc` names the next call (the module's header lists the values).
A key is a number with a length, a value is any value with a length; node sizes are
the formulas of `leafNodeSize`, `internalNodeSize` and `serializeNode`, so "does not
fit" happens exactly as in the code. `PagerError` lets any pager call of a step fail;
`FileFull` is the append that fails because the file cannot grow. `CloseTree` and
`ReopenTree` are a clean restart between operations. `Crash` is a kill between any two
steps or in the middle of a flush: the file keeps the header as last changed and, of the
dirty pages, any subset if a flush was under way and none otherwise. `before` (auxiliary)
remembers what the tree held when the operation began, and whether the file held it too.

### Engine

Each operation holds `e.mu` from start to end and is one step (`Server` looks at the
lock). `dict` is what a search of the tree finds; `ttls` the deadlines; `file`/`saved`
tell an open pager from one a failed Nuke has closed or removed, and what a new process
would then find. `now` is the clock, advanced by `Tick`. A failed `tree.Put` may have
taken effect and may hide other keys; a failed `tree.Delete` may have taken effect; after
a failure a restart may hide keys (older root) and Keys may list more than Get finds.
`TreePutFails` also stands for a Put that the tree refuses because a node overflows.
`due`, `maybe`, `absent` and `ghosts` are auxiliary: the deadline promised, the values a
key may legitimately have, the keys the client was told are gone, and those of them that
a failed call may have left behind out of sight. Close's flush is taken to succeed
here; a failing one is an action of `Pager` (`CloseFails`). The counters of the dashboard
are left out.

### RQL

A text is a sequence of atoms: the classes of bytes that the lexer tells apart, and whole
keywords. `Trim` is Execute's TrimSpace; one `Lex...` action per kind of token moves `pos`
as the lexer's `readX` does and appends to `tokens`; the `Parse...` actions are the parse
functions. `LexPanic` is the slice beyond the end of the input. The lines a client may type
are the texts of `Texts` and every spelling of a command over `Keys`, `Values`, `TTLs` and
the blanks in `Gaps`; `wanted` remembers which command a line was meant to be.

### Server

One step of a connection's goroutine is what it does between two points where others can
notice it: receive a line, announce itself to `e.mu`, get the lock, do the engine
call and unlock, visit one key of a scan, reply. `wlock` and `readers` are sync.RWMutex: a
writer that has announced itself keeps new readers out, and the readers that wait go in
when it unlocks. `main` is the position of cmdServe; `Startup` and `Shutdown` are its
statements in order, the deferred ones included. `Exit`, `Kill` and `Panic` end the process
by `Die`, which sets everything of the process back and leaves in the file what `Damage`
says: the last flushed contents, or, if an update was under way, what `BTree`'s kills allow.
`Restart` starts the next process. `tree` is the map in memory (or `Hollow`, a root page
that holds no node), `file` what the next process finds. Kinds of connection are TCP,
WebSocket (upgraded, hijacked, registered in `wsConns`) and HTTP.

The mapping to `Service` is: `Store` (the map the commands see), `OnFile` (what the next
process finds), `Usable` (there is a root node), `Sealed` (engine.Close is done), `Calls`
(the command of each session, and whether its answer is decided). A scan takes effect where
it ends, an update where it unlocks.

### Readers

The buffer map of the pager as Go sees it: a lookup and an insertion take time, and
`ReadPage` does both under `p.mu.RLock`, which stops no other reader.

## 3. Runs

Times are for two workers.

| Run | Checks | Shows |
|---|---|---|
| `pager` (30 s) | PagerTypeOK, FreeListSound, FileHeaderSound, CacheCoherent, NoPageLost, PageStoreSpec | with I/O failing anywhere and restarts, the pager is a page store; both free lists (memory and file) never lead to a page in use; a call that succeeds loses no page |
| `tree` (35 s) | TreeTypeOK, NoOrphanPages, Balanced, ChainMatchesTree, FileHoldsAcknowledged, KVMapSpec | cells of one size, reliable file: the tree is a map, balanced, its leaf links follow it, and the file alone holds every update that has returned |
| `tree_errors` (80 s) | KeysSurviveErrors, RestartKeepsKeys | an I/O error anywhere in leaf, internal or root splits, a full file, and restarts from a header that may lag behind: no other key leaves the leaf chain |
| `tree_mixed_sizes` (60 s) | NoForeignValue, AcknowledgedIsExact, KillDamageIsBounded, OperationsReturn | overflowing nodes, a full file, an I/O error or a kill: no wrong value, success means what it says, a kill hurts only as far as stated, no operation hangs |
| `engine` (110 s) | EngineTypeOK, TtlsHaveKeys, NoResurrection, ReadsRecentWrite, ExpiresOnTime, TTLMapSpec | lazy expiry is invisible, with restarts; failures and failed Nukes bring back no older value, and only keys whose removal failed |
| `rql` (20 s) | CommandsArriveIntact, TokensCoverInput, PanicsOnlyOnLastBackslash, LineIsProcessed | every short text, and every spelling of awkward commands, is processed, and reaches the engine as typed |
| `server` (160 s) | ServerTypeOK, WritersAlone, ServiceSpec, DemoReplacesNothing, CommandsAnswered, ShutdownCompletes, HandlersEnd | concurrent clients see one command after the other; what is answered survives kills, panics and shutdown; nobody waits for ever and nothing is left behind |

Runs that find a disagreement between the code and what it says of itself:

| Run | Property | Disagreement |
|---|---|---|
| `tree_update_overflow` | AcceptedPutSucceeds | replacing a value by a longer one overfills the leaf: the Put fails where the comment says the leaf splits |
| `tree_split_overflow` | PutKeepsOtherKeys | a leaf is halved by count; if the upper half does not fit, its keys are lost after the lower half has overwritten the page |
| `engine_ttl_wrap` | ExpiresOnTime | a TTL above 9223372036 s wraps and the key has expired at once |
| `lexer_panic` | NeverPanics | a string that is not closed and ends in a backslash makes the lexer slice past the end; on a TCP connection nobody recovers the panic |
| `reader_race` | NoConcurrentMapAccess | two scans can be in the buffer map at once, one of them writing |

`reader_race` needs a cold buffer while two scans run. The Stats call at start-up usually
warms it, so in the server it takes a read error during that call, which is ignored; a
program that uses the storage package alone needs none.

Some more are plain from the text and have no run:
- only reads respect `MaxBufferPages` (`BufferWrite` has no guard), while the web page says
  that nothing is cached beyond 256 pages;
- no code calls FreePage, deleting frees nothing, while the web page says that the free
  list recycles empty pages;
- a ping is never answered: the pong frame is built and dropped (`http.go:310-313`);
- a NUL byte ends the input, and what follows a complete command is ignored, without an
  error;
- HTTPServer.Start reports success before ListenAndServe has taken the port.

Every property of a passing run has a mutant, a small change of a modelled definition (a
link not set, a lock not waited for, a deadline not dropped) under which TLC finds the
property violated. Mutants are defined next to what they mutate, are marked `Mutant`, and
are used by no specification.

### Bounds, and why they are enough

- Pager: `PageLimit = 4`, so three pages, lets the free list have two pages while one is
  in use, with `MaxBufferPages = 2` so that some page is not cached. The only page contents
  are the dangerous ones, an empty leaf that looks like a link.
- Tree: `cellAreaSize = 14` makes a node hold two cells, so that six keys give depth 3 with
  leaf, internal and root splits; a buffer of three pages is smaller than the tree, and
  `PageLimit = 12` is never reached. It is deliberately small in `tree_errors` (8: seven
  pages, just a tree of depth 3, so that a page lost to an error makes a later split fail)
  and in `tree_mixed_sizes` (5), where a full file is one of the errors. `tree_errors` has long
  values only: one cell per leaf, so four keys split an internal node. Mixed: two short
  cells or one long one, the smallest case in which a half does not fit.
- `MaxFaults` bounds I/O errors: one puts an error at every call of every split. A kill
  uses up what is left of the bound. The full file adds failures that are not counted. The
  engine runs with two.
- Engine: a second of two clock units and `Half = 16` make 8 s the first TTL that wraps;
  `MaxTime = 4` is past the deadline of a one-second TTL.
- RQL: `Texts` is every text of up to four atoms, which has every pair of quote, escape and end; longer
  lines are spelled commands whose keys and values contain keywords, blanks, quotes and
  escapes. `MaxInt = 10` stands for the 63 bits of ParseInt: 11 does not fit.
- Server: one client on TCP and one on WebSocket and HTTP give every pair of a handler that
  Stop closes and one that it does not; two keys, one of them a demo entry, are the least on
  which a scan can be torn. Kills and restarts are not bounded.
- Readers: two goroutines, three pages.
- `VIEW WithoutResult` leaves out `ret`, which no action reads; it is used only where
  no property reads it between steps.

### Fairness

- `OperationsReturn`: `WF_vars(Step)`. An operation runs in the goroutine of its caller,
  which waits for nothing but the file, so the scheduler eventually runs its next step.
- `LineIsProcessed`: weak fairness of the next step, for the same reason.
- `CommandsAnswered`, `ShutdownCompletes`, `HandlersEnd`: weak fairness of main once it has
  received the signal and of each handler (goroutines are scheduled), and strong fairness of
  the two steps that announce a writer to `e.mu` (`Lock(s)`, `CallClose`): the Mutex inside
  sync.RWMutex serves a waiter in turn after a millisecond (starvation mode), and a writer
  that has announced itself keeps new readers out.

No fairness is assumed of clients, signals, kills or start-up. `CHECK_DEADLOCK FALSE` appears
only in the runs of `RQL`, where a line's processing ends.

## 4. Proofs: `PagerProofs`

Proved for every `PageLimit`, `MaxBufferPages`, page contents, any number of I/O
failures and restarts. Assumptions: `WordsAssumption`, `LimitAssumption`.

- `PagerTypeCorrect`, `FreeListCorrect`, `FileHeaderCorrect`, `CacheCorrect`: the
  four invariants of the run `pager`.
- `PagerRefinement`: `PagerSpec => PageStoreSpec`.

The inductive invariant is `PagerInv == PagerTypeOK /\ CacheCoherent /\ FreeListSound
/\ FileHeaderSound`. None of the parts stands alone: AllocatePage makes the first word
of the free head the new head, so that the head is a page number at all depends on the
free list being sound; the next process starts from the file's header and the file's
copies, so the in-memory list is sound after a restart only if the file's list was;
and the file's list is read through pages whose clean cached copies must agree with it.

The free lists are described without recursion: `ListOn(F, link, head)` says that `F`
is a set of pages closed under the links from `head`, on which links are injective and
never lead back to the head. Three lemmas carry the proof: `TakeHead` (removing the
head leaves a list), `AddHead` (a page outside becomes the head) and `CutList` (a list
may lose a tail that starts at a page now in use). Then one lemma per method shows its
effect on pages and lists, including each error return; `NextInv` combines them.

## 5. Proofs: `BTreeProofs`

Proved for every set of keys and values and their lengths, every size of page, buffer and
file, any number of I/O errors, clean restarts and kills. Assumptions: `TreeAssumption`,
`ZerosAssumption` (no node is written as zeros: its first byte is its type), those of the
pager, and the hypothesis of the theorems, `NodeType \subseteq Body`: what serializeNode
writes is something a page can hold.

- `TreeTypeCorrect`: every local of an operation has its type.
- `NoDanglingPagesEver`: on every page of the tree, in memory and in the file, there are
  zeros or a well-formed node, with a value per key or a child per key and one more, that
  names only pages the tree has allocated. btree.go indexes `values` and `children` by the
  position of a key without a check, and no walk checks a page number, so the tree
  depends on this; the kill in the middle of a split and the torn flush are the cases in doubt.
- `TreeKeepsPagerSound`: the pager's invariants hold under the tree, also across kills.

The inductive invariant is `TreeInv`:

- `PagesInv`: the pager's `PagerInv`; `NodesOK`, the statement about pages above, for the
  buffered and for the filed copy of each page (a kill replaces one by the other, and a page
  that an error has left allocated in memory only is zeros in the file); `NothingFree`, since
  the tree frees no page AllocatePage always appends; `RootsInUse`;
- `LocalsOver(owned)`: frames, pending writes, the separator on its way up and the next page
  name pages in use. An allocation makes `owned` larger in the middle of an operation, so
  these are stated over a set of pages, with lemmas that they survive its growth;
- `PlacesOK`: what each control point relies on, e.g. that a node about to be split has a key
  (splitLeaf reads `keys[mid]`), and that only the very first root is made without a split;
- `OpOK`, `CountsOK`.

It rests on lemmas about slices.Insert and slices.Delete (`InsertAtFacts`, `RemoveAtFacts`),
about the halves of a node (`SplitOver`) and about the loops that look for a position
(`ChildIdxFacts`, `LeafPosFacts`: the loop stops at a position at which its test holds and all
earlier ones fail), one lemma for what each pager call does to the nodes on the pages
(`ReadEffect`, `AllocateEffect`, `WriteEffect`, ...), and one per action.

### `BTreeMapProofs`: the tree is a map

Under the same assumptions, and until the process is killed (`NeverKilled`):

- `AcknowledgedIsExactEver`: a Put, Get or Delete that reports success has done exactly
  what it says to its key and nothing to any other, on the healthy tree as on one in which
  failed operations have left half of a split behind;
- `NoForeignValueEver`: whatever an operation ends with, no key then has a value other than
  the one it had or the one that was being put under it. It may be gone: the run
  `tree_split_overflow` shows the code losing keys in just this way;
- `BalancedEver`: all ways down from the root to a leaf are equally long (`Balanced`), where the
  run only has operations that do not fail. It needs a key to search for: `Keys # {}`.

The specifications are `TreeSpec` and `TreeFairSpec`; this invariant speaks of the running
process only, and says nothing of clean restarts (`TreeSpecRestart`).

`Tree(m, P, L)` says that the memory `m` (a node for each page; page 0 is the header, as a
node without keys above the root) is a search tree. It does not speak of key ranges or of
the pages below a page, which a failed split invalidates, but of the *paths of searches*:
`P[j][k]` is the page on level `j` by which the search for key `k` comes, from the header on
level `L` down to a leaf on level 0. Each search goes on along its path (`Leads`); two
that meet came the same way (`Meets`); the keys in a page are keys whose searches come
by it (`NodeFits`); and some search takes the first child (`FirstTaken`, which keeps a
separator from landing left of keys that went elsewhere). `LookupNow` is the link to the
code: `Lookup`, btree.go's search, finds in `Mem` what is in the leaf on level 0.

The inductive invariant `MapInv` relates three memories. `Mem` is the tree on its pages
now. `NextMem` is the tree when the writes in `todo` and the separator in `split` have been
carried out: with each allocation, write and step upwards of an insert, `NextMem` goes on
being a tree, and each key finds in it the value it is to have (`Target`); the frames in `stack`
are the path of the operation's key (`OnPath`). `Mem` must be a tree as well, at every
moment, since an error may end the operation there: in it, each key finds what it had, the
new value or nothing (`Allowed`), and the pages just allocated are not on any path yet
(`Unlinked`). Between the two writes of a split, the memory with only the left half written
(`LeftMem`) must be a tree too; the keys of the right half find nothing in it, and here the
invariant allows what the code does. When a half does not fit its page (`Hopeless`,
`Overflows`) there is no `NextMem` to reach; the operation can only fail.

Its lemmas come in layers: sequences and nodes (`InsertedAscending`, `LeafWithValues`,
`HalvedFacts`), trees (`LeafReplaced`, `HalfTree`, `SplitTree`, `RaisedTree`: a tree after an
edited leaf, after the left half alone, after a whole split on any level, under a new root), and
one `...Map` lemma per action of `BTree`. `MapInv` is no invariant of a run, since TLC cannot
enumerate the paths it quantifies over. `EqualDepths` derives the balance from a `Tree`:
each child of a page is on the path of some key, so all of them lie on the next level.

### `BTreeShapeProofs`: the leaf links, restarts, the file and the map

Under the same assumptions:

- `ErrorsKeepTheList`: whatever an operation ends with, every key that Keys listed when it
  began, but for its own, is listed afterwards, unless the right half of a split did not fit
  its page (`Overflows`; the run `tree_split_overflow` shows what then happens). From it
  `KeysSurviveErrorsEver`: behaviours in which this never occurs have `KeysSurviveErrors`;
- `RestartKeepsKeysEver`: a clean restart lists the same keys, also after errors have left the
  file's header naming an older root;
- `FileHoldsAcknowledgedEver`: as long as no operation has reported an error, the file alone
  gives the map and the list that the running process had when its operation began;
- `NoOrphanPagesEver` and `ChainMatchesTreeEver`: likewise, the pages in use between two
  operations are those of the tree, and its leaves are linked in the order of their keys. Both need
  a key to search for (`Keys # {}`), and both need their hypothesis: an I/O error may leave a
  page allocated that nothing names, or a leaf that is linked but has no parent;
- `TreeIsMap`: likewise, the tree implements `KVMap` (`KVMapSpec`): Put, Get, Delete, Keys and
  Depth return what the abstract map allows, and Keys exactly the keys present, in ascending
  order. The hypothesis is needed because `KVMap` has no step that fails.

The list invariant `ListInv` holds through I/O errors and clean restarts, where `MapInv` does
not. It says nothing of searches. There is a list of leaves (`LeafList`), each linked to the next,
without repetition, to which the leftmost way down leads (`LeftmostIs`) from *both* roots,
the one in memory and the one in the file, which may be one level lower: this is why a restart
with the older root finds the same list. It ends with a zero link or with a link to a page
without a node. The latter happens when the right half of a split has been allocated and
linked, but did not fit. The keys in the list contain all that must not be lost (`ListKeeps`).
Between the writes of the two halves the left one is linked to a page that is still empty, so
the list is taken in `ListMem`, where the right half is already on its page. What keeps the list
in place is that no write changes whether a page is a leaf, nor the first child of an internal
node (`Shape`), that an edit of a leaf keeps its link and every other key (`Edit`), and that the
halves of a leaf together do so too (`HalvesEdit`); `PendingOK` says this of every write
that is still to be made.

`FileInv` says that before the flush of an operation a search of the file's copies of the pages
finds what the operation found at its start. It follows step by step from what each pager call
writes through: AllocatePage only a page of zeros beyond the last one in use and the header;
the switch of roots the header, just before the flush; the flush every page whose copy in
memory differs. The map and the list after the flush are those in memory, so the theorem needs
`MapInv` and `ListInv` only for the operations that return without one.

`TidyInv` says that `NextMem`, the tree when the pending writes have been made, is `Tidy`
along the paths `P[j][k]` of its searches: every page in use is on one of them (`Covers`), and the
link of the leaf of `k` names the leaf of the next larger key that has another, or nothing
(`Linked`). A memory has one search tree only (`OneTree`, from `NotHigher`: two paths from the same
root are level with each other), so what the steps of `MapInv` say of *some* paths is true of these.
A split puts the new page behind the old one for the keys from the separator on, which works
because the keys of a page lie side by side (`SideBySide`), and so do those of its children
(`SlotBetween`): hence `EditTidy`, `SplitTidy` and `RaisedTidy`, for a write that moves no path, a split on
any level, and a new root. When nothing is pending `NextMem` is `Mem`, and `WholeTree` and
`LinkIsNext` lead from paths to the recursive definitions `PagesBelow` and `LeafOf`.

The refinement maps the state to `MapNow`: the map read off the tree between two operations, and
the map at the start of the operation (`before.dict`) while one runs, so that an operation takes
effect when it returns. `KVInv` adds what the results depend on: Delete goes on to write only
when the key was there (`DeleteIs`), and a scan is on its way (`ScanIs`). Going down it is
on the path of the smallest key (`OnWay`; `LeftmostWay` from `FirstTaken`: the first child is the
one taken for that key). At the leaf of `z` it has collected exactly the ascending list of the
keys in the leaves before it (`Scanned`). A tidy link extends that list by the leaf's own keys and
by nothing else (`ScansOn`, from `LinkFits` and `SideBySide`), and a zero link means that it is
complete (`ScansAll`). `SortedIs` shows that a complete ascending list is the one that `KVMap`
chooses, and `NextRefinesMap` that every step is a step of `KVMap` or leaves the map and the
result alone.

## 6. Proofs: `EngineProofs`

Proved for all keys, values, TTLs, widths of `time.Duration`, numbers of failures and
restarts. Assumption: `EngineAssumption`.

- `EngineTypeCorrect`, `ReadsRecentWriteCorrect`. The inductive invariant `EngineInv` adds
  `SavedRecent`: what a failed Nuke has left in the file is as recent as memory. This is
  needed because a restart reads it back, and it is inductive because no Put is
  acknowledged while the pager is closed.
- `NoResurrectionCorrect`, `TtlsHaveKeysCorrect`: from `GhostInvariant`, which says which
  keys a failed call may have left behind, in the tree or in the file.
- `ExpiresOnTimeCorrect`, `EngineRefinement`: if no TTL wraps (`NoWrap`; `engine_ttl_wrap`
  shows what happens without it). The mapping `Live` hides the expired entries; the
  proof shows that removing an expired key leaves `Live` alone, that a tick removes from it
  exactly the entries whose deadline passes, that a Put replaces entry and deadline together,
  that a restart keeps what is in force, and that a failure does no more than `TTLMap`
  allows.

## 7. Proofs: `RQLProofs`

Proved for every input over any alphabet of letters and digits, every key, value, TTL and
amount of blanks, and every bound of ParseInt. Assumption: `RQLAssumption`.

- `RQLTypeCorrect`.
- `PanicNeedsLastBackslash` (`PanicsOnlyOnLastBackslash`): the lexer leaves the input only in a
  string that is not closed and ends in a backslash.
- `TokensCoverTheInput` (`TokensCoverInput`): what lies between tokens is blanks, up to the
  end of the input or a NUL. `CoverInv` adds that tokens are in order and that the lexer is
  behind all of them.
- `CommandsIntact` (`CommandsArriveIntact`): a command spelled as the manual says, with any key,
  any value, quoted and escaped, reaches the executor with that key and value. `IntactInv`
  says how the line divides into pieces, each a token or a blank, and how many the lexer
  has passed; a lemma for each kind of piece shows that the lexer, wherever the piece
  stands, makes that token of it.

The loops of the lexer are recursive functions; `Recursion` proves that the equation of such a
loop has a solution, and replaces induction over formulas by induction over sets (`SetInduction`,
`BackwardInduction`): the set of positions at which a fact holds contains all positions.

## 8. Proofs: `ServerProofs`

Proved for every set of clients, lines, kinds of connection, keys, values and demo entries,
and any number of kills, panics and restarts. Assumptions: `CommandsAssumption`,
`ServerAssumption` (lines have the keys they need; the constants that mark a missing or hollow
file are no contents; the names of the lock's holders differ).

- `ServerTypeCorrect`, `WritersAloneCorrect`: from `CtlInv`.
- `DemoReplacesNothingCorrect`.
- `ServerRefinement`: `ServerSpec => ServiceSpec`.

The inductive invariant is `ServerInv`, the conjunction of

- `CtlInv`: types; `LockInv`, that `wlock` and `readers` say exactly who is in the engine,
  and that a session holds the lock for writing only when no reader is left; `LineInv`, that a
  session works on a line of its client just between receiving it and replying, and which
  kinds of lines take which lock;
- `StartInv`: there is no connection before the servers start and after the process has ended,
  and the keys still to be seeded are absent, unless the count has failed. The refinement needs
  it because `Service` seeds an empty database before the first command;
- `FileInv`: the file holds what memory holds until engine.Close, except that the root page of
  a new tree is not there yet. Without it nothing could be said of the next process;
- `ScanInv`: what a scan has collected so far is the part of the tree *as it is now* that
  it has visited. It is inductive only because of `LockInv`: the tree changes when no scan is in
  it, and the readers that a writer lets in start from nothing.

One lemma per group of steps shows that each keeps the invariant, and one that it
maps to a step of `Service` or to none (`MainRefines`, `CloseRefines`, `TalkRefines`,
`ScanRefines`, `CallRefines`, `DieRefines`). `CutShortIsTorn` relates the damage of a kill to
what `Service` allows.

## 9. Only model-checked, and not modelled

Only model-checked:
- Of the tree: what a kill leaves (`KillDamageIsBounded`: the torn flush of any subset of the
  dirty pages).
- `NoPageLost` (that a list reaches *all* free pages is reachability).
- Liveness (`OperationsReturn`, `LineIsProcessed`, `CommandsAnswered`, `ShutdownCompletes`,
  `HandlersEnd`): fairness and ENABLED are out of the prover's reach.

Not modelled:
- OpenPager refusing a file with wrong magic, version or size: it changes nothing.
- The handshake and the bytes of WebSocket frames, CORS, the health page, static files;
  GET /api/stats is the STATS command without the executor. Client frames are lines.
- In `Server`: expiry times and I/O errors while the file is open. They are the subject of
  `Engine` and `BTree`; a closed file and a root page that holds no node are modelled.
- Formatting of results and statistics, logging, banner, counters, command-line flags.
- The web UI: a client in JavaScript with one socket that is replaced three seconds after it
  closes. It shares nothing with the server but the connection, whose every behaviour `Server`
  lets its clients have.

## 10. What is left

1. *Proofs for the tree*: clean restarts in `MapInv`, then the torn flush of a kill
   (`KillDamageIsBounded`).
2. *WebSocket frames*: lengths, masks, fragments, ping and close, with the browser client's
   reconnects and HTTP fallback.
