----------------------------- MODULE UserPages -----------------------------
(***************************************************************************)
(* An administrator pages through the users, page after page, while users  *)
(* are created and deleted: BaseRepository.paginate counts, then lists by  *)
(* offset, ordered by id (database/repository.py).  A page is the set of   *)
(* its users: their order is that of their ids.                            *)
(***************************************************************************)
EXTENDS Integers, Sequences, FiniteSets

CONSTANTS
    Size,       \* the page size
    MaxId,      \* bounds the users
    Sqlite      \* one writer at a time and a snapshot for each request

VARIABLES
    users,      \* the ids in the table
    used,       \* the ids given so far
    view,       \* what the transaction of the request sees on SQLite
    page,       \* the page asked for next
    total,      \* its count, or -1 between two requests
    pages,      \* the answers: items and total
    created, deleted    \* since the walk began

vars == <<users, used, view, page, total, pages, created, deleted>>

(* The offsets of page i, from 0, and the users ordered before one.        *)
Slice(i) == (i - 1) * Size .. i * Size - 1
Before(u, all) == {v \in all : v < u}

(* The walk goes on until a page is shorter than it was asked to be.       *)
Done == pages # <<>> /\ Cardinality(pages[Len(pages)].items) < Size

TypeOK ==
    /\ users \subseteq used /\ used \subseteq 1..MaxId /\ view \subseteq used
    /\ page \in Nat \ {0} /\ total \in -1..MaxId
    /\ pages \in Seq([items : SUBSET used, total : 0..MaxId])
    /\ Len(pages) + 1 = page
    /\ created \subseteq used /\ deleted \subseteq used

Init ==
    /\ \E n \in 0..MaxId : users = 1..n
    /\ used = users /\ view = {}
    /\ page = 1 /\ total = -1 /\ pages = <<>>
    /\ created = {} /\ deleted = {}

-----------------------------------------------------------------------------
(* SQLite's AUTOINCREMENT and single writer give ascending ids; on a       *)
(* server an id may be given early and committed late, never given again.  *)
MayCreate(id) == id \notin used /\ (Sqlite => \A u \in used : u < id)

Create(id) ==
    /\ MayCreate(id)
    /\ users' = users \cup {id} /\ used' = used \cup {id}
    /\ created' = created \cup {id}
    /\ UNCHANGED <<view, page, total, pages, deleted>>

Delete(id) ==
    /\ id \in users
    /\ users' = users \ {id} /\ deleted' = deleted \cup {id}
    /\ UNCHANGED <<used, view, page, total, pages, created>>

Count ==
    /\ total = -1 /\ ~Done
    /\ total' = Cardinality(users) /\ view' = users
    /\ UNCHANGED <<users, used, page, pages, created, deleted>>

Visible == IF Sqlite THEN view ELSE users

(* Mutant: the offsets of the next page. *)
ItemsOfNext(all) == {u \in all : Cardinality(Before(u, all)) \in Slice(page + 1)}

(* order_by(id).offset(offset).limit(limit) *)
ItemsOf(all) == {u \in all : Cardinality(Before(u, all)) \in Slice(page)}

ListPage ==
    /\ total # -1
    /\ pages' = Append(pages, [items |-> ItemsOf(Visible), total |-> total])
    /\ page' = page + 1 /\ total' = -1 /\ view' = {}
    /\ UNCHANGED <<users, used, created, deleted>>

Next == Count \/ ListPage \/ \E id \in 1..MaxId : Create(id) \/ Delete(id)

Spec == Init /\ [][Next]_vars

-----------------------------------------------------------------------------
(* No page is longer than it was asked to be, and the walk ends: at the    *)
(* latest one page after those that the ids there are can fill.            *)
PageIsSmall ==
    /\ \A i \in 1..Len(pages) : Cardinality(pages[i].items) <= Size
    /\ pages # <<>> => (Len(pages) - 1) * Size <= MaxId

(* On SQLite a page lists as many users as its total has at its offsets.   *)
PageMatchesTotal ==
    Sqlite => \A i \in 1..Len(pages) :
        Cardinality(pages[i].items) = Cardinality(Slice(i) \cap 0..pages[i].total - 1)

(* A user is listed twice only if a user with a smaller id appeared after  *)
(* the walk began, which on SQLite never happens.                          *)
RepeatHasCause ==
    \A i, j \in 1..Len(pages) : i < j =>
        \A u \in pages[i].items \cap pages[j].items :
            ~Sqlite /\ \E v \in created : v < u

Listed(u, i) == u \in pages[i].items

(* A user who was there all along is missed only if a user with a smaller  *)
(* id was deleted during the walk.                                         *)
SkipHasCause ==
    Done => \A u \in users \ created :
        \/ \E i \in 1..Len(pages) : Listed(u, i)
        \/ \E v \in deleted : v < u

=============================================================================
