----------------------------- MODULE PageStore -----------------------------
(***************************************************************************)
(* What the pager promises its client, with no cache, no file and no free  *)
(* list: a set of numbered pages, each holding what was last written to    *)
(* it.  Allocation hands out a page number nobody holds, cleared; freeing  *)
(* gives it back.  Closing and reopening the database file is invisible.   *)
(***************************************************************************)
EXTENDS Naturals

CONSTANTS
  Content,    \* what a client may write to a page
  ZeroPage,   \* a page of 4096 zero bytes
  PageIds     \* page numbers that can be handed out

VARIABLE contents   \* contents[p]: the bytes of page p, for each page held

Init == contents = [p \in {} |-> ZeroPage]

(* A page is handed out only when nobody holds it, and it reads as zeros.  *)
Allocate(p) ==
  /\ p \notin DOMAIN contents
  /\ contents' = [q \in DOMAIN contents \cup {p} |->
                    IF q = p THEN ZeroPage ELSE contents[q]]

Release(p) ==
  /\ p \in DOMAIN contents
  /\ contents' = [q \in DOMAIN contents \ {p} |-> contents[q]]

Write(p, c) ==
  /\ p \in DOMAIN contents
  /\ contents' = [contents EXCEPT ![p] = c]

Next ==
  \E p \in PageIds :
    \/ Allocate(p)
    \/ Release(p)
    \/ \E c \in Content : Write(p, c)

Spec == Init /\ [][Next]_contents

=============================================================================
