-------------------------- MODULE UserPagesProofs ---------------------------
(***************************************************************************)
(* The properties of a walk through the user list, for any page size, any  *)
(* number of ids and either dialect.  A page is cut by rank: how many      *)
(* users come before one.  What the walk needs is how creations, deletions *)
(* and the page itself change ranks.                                       *)
(***************************************************************************)
EXTENDS UserPages, FiniteSetTheorems, SequenceTheorems, TLAPS

Parameters == Size \in Nat \ {0} /\ MaxId \in Nat /\ Sqlite \in BOOLEAN

Rank(u, all) == Cardinality(Before(u, all))

(* The users of page i, if the table holds all. *)
Cut(i, all) == {u \in all : Rank(u, all) \in Slice(i)}

-----------------------------------------------------------------------------
(* Offsets and ranks. *)

LEMMA Offsets ==
  ASSUME Parameters, NEW i \in Nat \ {0}
  PROVE  /\ (i - 1) * Size \in Nat /\ i * Size \in Nat
         /\ i * Size = (i - 1) * Size + Size
         /\ (i + 1 - 1) * Size = i * Size
         /\ i <= i * Size
         /\ \A j \in Nat : i < j => i * Size <= (j - 1) * Size
<1>1. Size \in Nat /\ Size >= 1
  BY DEF Parameters
<1>2. \A j \in Nat : i < j => i * Size <= (j - 1) * Size
  <2>1. SUFFICES ASSUME NEW j \in Nat, i < j PROVE i * Size <= (j - 1) * Size
    OBVIOUS
  <2>2. PICK d \in Nat : j - 1 = i + d
    BY <2>1
  <2>3. (i + d) * Size = i * Size + d * Size /\ d * Size >= 0
    BY <1>1
  <2> QED
    BY <2>2, <2>3, <1>1
<1> QED
  BY <1>1, <1>2

LEMMA Counts ==
  ASSUME Parameters, NEW S \in SUBSET (1..MaxId)
  PROVE  IsFiniteSet(S) /\ Cardinality(S) \in 0..MaxId
<1>1. IsFiniteSet(1..MaxId) /\ Cardinality(1..MaxId) = MaxId
  BY FS_Interval DEF Parameters
<1>2. IsFiniteSet(S) /\ Cardinality(S) <= Cardinality(1..MaxId)
  BY <1>1, FS_Subset
<1> QED
  BY <1>1, <1>2, FS_CardinalityType DEF Parameters

LEMMA Ranks ==
  ASSUME Parameters, NEW S \in SUBSET (1..MaxId), NEW u
  PROVE  Rank(u, S) \in Nat /\ IsFiniteSet(Before(u, S)) /\ Before(u, S) \in SUBSET (1..MaxId)
<1>1. Before(u, S) \in SUBSET (1..MaxId)
  BY DEF Before
<1>2. IsFiniteSet(Before(u, S)) /\ Cardinality(Before(u, S)) \in 0..MaxId
  BY <1>1, Counts
<1> QED
  BY <1>1, <1>2 DEF Rank

(* Users who come and go before one are all that changes a rank. *)
LEMMA RankGrows ==
  ASSUME Parameters, NEW S \in SUBSET (1..MaxId), NEW T \in SUBSET (1..MaxId), NEW u,
         \A v \in S : v < u => v \in T
  PROVE  Rank(u, S) <= Rank(u, T)
<1>1. Before(u, S) \in SUBSET Before(u, T)
  BY DEF Before
<1> QED
  BY <1>1, Ranks, FS_Subset DEF Rank

LEMMA RankOrders ==
  ASSUME Parameters, NEW S \in SUBSET (1..MaxId), NEW u \in S
  PROVE  /\ Rank(u, S) < Cardinality(S)
         /\ \A v \in S : u < v => Rank(u, S) < Rank(v, S)
<1>1. IsFiniteSet(Before(u, S)) /\ Rank(u, S) \in Nat
  BY Ranks
<1>2. u \notin Before(u, S)
  BY DEF Before
<1>3. Cardinality(Before(u, S) \cup {u}) = Rank(u, S) + 1
  BY <1>1, <1>2, FS_AddElement DEF Rank
<1>4. Rank(u, S) < Cardinality(S)
  <2>1. Before(u, S) \cup {u} \in SUBSET S
    BY DEF Before
  <2>2. IsFiniteSet(S) /\ Cardinality(S) \in Nat
    BY Counts
  <2> QED
    BY <1>1, <1>3, <2>1, <2>2, FS_Subset
<1>5. ASSUME NEW v \in S, u < v PROVE Rank(u, S) < Rank(v, S)
  <2>1. Before(u, S) \cup {u} \in SUBSET Before(v, S)
    <3>1. SUFFICES ASSUME NEW w \in Before(u, S) \cup {u} PROVE w \in S /\ w < v
      BY DEF Before
    <3>2. w \in S /\ (w = u \/ w < u)
      BY <3>1 DEF Before
    <3>3. w \in Int /\ u \in Int /\ v \in Int
      BY <3>2 DEF Parameters
    <3> QED
      BY <3>2, <3>3, <1>5
  <2>2. IsFiniteSet(Before(v, S)) /\ Rank(v, S) \in Nat
    BY Ranks
  <2>3. Rank(u, S) + 1 <= Rank(v, S)
    BY <1>3, <2>1, <2>2, FS_Subset DEF Rank
  <2> QED
    BY <1>1, <2>2, <2>3
<1> QED
  BY <1>4, <1>5

(* The ranks of a table are the numbers below its size, each once. *)
LEMMA RanksAreOffsets ==
  ASSUME Parameters, NEW S \in SUBSET (1..MaxId)
  PROVE  [u \in S |-> Rank(u, S)] \in Bijection(S, 0..Cardinality(S) - 1)
<1> DEFINE f == [u \in S |-> Rank(u, S)]
           N == 0..Cardinality(S) - 1
<1>1. IsFiniteSet(S) /\ Cardinality(S) \in Nat
  BY Counts
<1>2. f \in [S -> N]
  <2>1. \A u \in S : Rank(u, S) \in N
    BY <1>1, Ranks, RankOrders
  <2> QED
    BY <2>1
<1>3. \A u, v \in S : f[u] = f[v] => u = v
  <2>1. SUFFICES ASSUME NEW u \in S, NEW v \in S, Rank(u, S) = Rank(v, S) PROVE u = v
    OBVIOUS
  <2>2. u \in Int /\ v \in Int
    BY DEF Parameters
  <2>3. Rank(u, S) \in Nat
    BY Ranks
  <2>4. (u < v => Rank(u, S) < Rank(v, S)) /\ (v < u => Rank(v, S) < Rank(u, S))
    BY RankOrders
  <2> QED
    BY <2>1, <2>2, <2>3, <2>4
<1>4. f \in Injection(S, N)
  BY <1>2, <1>3 DEF Injection, IsInjective
<1>5. IsFiniteSet(N) /\ Cardinality(N) = Cardinality(S)
  BY <1>1, FS_Interval
<1>6. f \in Surjection(S, N)
  BY <1>4, <1>5, FS_Injection
<1> QED
  BY <1>4, <1>6 DEF Bijection

(* How many users page i has, which says how large the table was. *)
LEMMA CutCounts ==
  ASSUME Parameters, NEW S \in SUBSET (1..MaxId), NEW i \in Nat \ {0}
  PROVE  LET n == Cardinality(Cut(i, S)) IN
         /\ n \in 0..Size
         /\ n = Cardinality(Slice(i) \cap 0..Cardinality(S) - 1)
         /\ n < Size => Cardinality(S) < i * Size
         /\ n = Size => i * Size <= MaxId
<1> DEFINE C == Cut(i, S)
           N == 0..Cardinality(S) - 1
           T == Slice(i) \cap N
           f == [u \in S |-> Rank(u, S)]
           g == [u \in C |-> Rank(u, S)]
<1>1. Cardinality(S) \in 0..MaxId /\ Cardinality(S) \in Nat
  BY Counts DEF Parameters
<1>2. f \in Bijection(S, N)
  BY RanksAreOffsets
<1>3. C \in SUBSET S
  BY DEF Cut
<1>4. IsFiniteSet(C) /\ Cardinality(C) \in Nat
  BY <1>3, Counts DEF Parameters
<1>5. Cardinality(T) = Cardinality(C)
  <2>1. /\ \A u \in S : f[u] = Rank(u, S) /\ f[u] \in N
        /\ \A u, v \in S : f[u] = f[v] => u = v
        /\ \A k \in N : \E u \in S : f[u] = k
    BY <1>2 DEF Bijection, Injection, IsInjective, Surjection
  <2>2. g \in [C -> T]
    BY <1>3, <2>1 DEF Cut
  <2>3. g \in Injection(C, T)
    BY <1>3, <2>1, <2>2 DEF Injection, IsInjective
  <2>4. \A k \in T : \E u \in C : g[u] = k
    BY <2>1 DEF Cut
  <2>5. ExistsBijection(C, T)
    BY <2>2, <2>3, <2>4 DEF ExistsBijection, Bijection, Surjection
  <2> QED
    BY <1>4, <2>5, FS_Bijection
<1>6. /\ (i - 1) * Size \in Nat /\ i * Size \in Nat /\ Size \in Nat
      /\ i * Size = (i - 1) * Size + Size
  BY Offsets DEF Parameters
<1>7. IsFiniteSet(Slice(i)) /\ Cardinality(Slice(i)) = Size
  <2> DEFINE a == (i - 1) * Size
             b == i * Size - 1
  <2>1. a \in Int /\ b \in Int /\ b - a + 1 = Size /\ (a > b => Size = 0)
    BY <1>6
  <2>2. IsFiniteSet(a..b) /\ Cardinality(a..b) = IF a > b THEN 0 ELSE b - a + 1
    BY <2>1, FS_Interval
  <2> QED
    BY <2>1, <2>2 DEF Slice
<1>8. Cardinality(T) <= Size /\ (Cardinality(T) = Size => T = Slice(i))
  <2>1. T \in SUBSET Slice(i)
    OBVIOUS
  <2> QED
    BY <1>7, <2>1, FS_Subset
<1>9. i * Size <= Cardinality(S) => Cardinality(T) = Size
  <2>1. SUFFICES ASSUME i * Size <= Cardinality(S) PROVE T = Slice(i)
    BY <1>7
  <2>2. \A k \in Slice(i) : k \in N
    BY <1>1, <1>6, <2>1 DEF Slice
  <2> QED
    BY <2>2
<1>10. Cardinality(T) = Size => i * Size <= MaxId
  <2>1. SUFFICES ASSUME T = Slice(i) PROVE i * Size <= MaxId
    BY <1>8
  <2>2. i * Size - 1 \in Slice(i)
    BY <1>6 DEF Slice, Parameters
  <2>3. i * Size - 1 \in N
    BY <2>1, <2>2
  <2> QED
    BY <1>1, <1>6, <2>3 DEF Parameters
<1> QED
  BY <1>1, <1>4, <1>5, <1>6, <1>8, <1>9, <1>10

-----------------------------------------------------------------------------
(* The inductive invariant. *)

(* A user with a smaller id appeared, or was deleted, during the walk. *)
Pushed(u) == ~Sqlite /\ \E v \in created : v < u
Pulled(u) == \E v \in deleted : v < u

(* A full page takes as many ids, and a walk goes on only from a full one. *)
Sizes ==
    /\ \A i \in 1..Len(pages) :
         /\ Cardinality(pages[i].items) \in 0..Size
         /\ Cardinality(pages[i].items) = Size => i * Size <= MaxId
    /\ pages # <<>> => (Len(pages) - 1) * Size <= MaxId
    /\ total # -1 => ~Done

(* What changed between the count of a page and its list. *)
Views ==
    total # -1 =>
        /\ users \ created \subseteq view
        /\ view \ users \subseteq deleted
        /\ Sqlite => /\ total = Cardinality(view)
                     /\ \A u \in view, v \in users \ view : u < v

(* Who was listed stays below the offset of the next page. *)
Passed ==
    \A i \in 1..Len(pages) : \A u \in pages[i].items :
        \/ Pushed(u)
        \/ /\ Rank(u, users) < i * Size
           /\ total # -1 => Rank(u, Visible) < i * Size

(* Who was not is still to come. *)
Ahead ==
    \A u \in users \ created :
        \/ \E i \in 1..Len(pages) : Listed(u, i)
        \/ Pulled(u)
        \/ /\ ~Done
           /\ Rank(u, users) >= (page - 1) * Size
           /\ total # -1 => Rank(u, Visible) >= (page - 1) * Size

Repeated ==
    \A i, j \in 1..Len(pages) : i < j =>
        \A u \in pages[i].items \cap pages[j].items : Pushed(u)

WalkInv == TypeOK /\ Sizes /\ PageMatchesTotal /\ Views /\ Passed /\ Ahead /\ Repeated

LEMMA TypeFacts ==
  ASSUME Parameters, TypeOK
  PROVE  /\ users \in SUBSET (1..MaxId) /\ view \in SUBSET (1..MaxId)
         /\ Visible \in SUBSET (1..MaxId) /\ used \in SUBSET (1..MaxId)
         /\ \A u \in used : u \in Int
         /\ Len(pages) \in Nat /\ page = Len(pages) + 1 /\ page \in Nat \ {0}
         /\ \A i \in 1..Len(pages) :
              /\ i \in Nat \ {0} /\ i * Size \in Nat
              /\ pages[i].items \subseteq used /\ pages[i].items \in SUBSET (1..MaxId)
<1>1. used \subseteq 1..MaxId /\ users \subseteq used /\ view \subseteq used
  BY DEF TypeOK
<1>2. pages \in Seq([items : SUBSET used, total : 0..MaxId])
  BY DEF TypeOK
<1>3. Len(pages) \in Nat
  BY <1>2, LenProperties
<1>4. \A i \in 1..Len(pages) : pages[i] \in [items : SUBSET used, total : 0..MaxId]
  BY <1>2, ElementOfSeq
<1>5. \A i \in 1..Len(pages) : i \in Nat \ {0} /\ i * Size \in Nat
  BY <1>3 DEF Parameters
<1>6. page = Len(pages) + 1 /\ page \in Nat \ {0}
  BY <1>3 DEF TypeOK
<1>7. Visible = view \/ Visible = users
  BY DEF Visible
<1>8. \A u \in used : u \in Int
  BY <1>1 DEF Parameters
<1>9. \A i \in 1..Len(pages) :
        pages[i].items \subseteq used /\ pages[i].items \in SUBSET (1..MaxId)
  BY <1>1, <1>4
<1> QED
  BY <1>1, <1>3, <1>5, <1>6, <1>7, <1>8, <1>9

LEMMA WalkInit == Parameters /\ Init => WalkInv
<1> SUFFICES ASSUME Parameters, Init PROVE WalkInv
  OBVIOUS
<1>1. /\ used = users /\ view = {} /\ page = 1 /\ total = -1 /\ pages = <<>>
      /\ created = {} /\ deleted = {}
  BY DEF Init
<1>2. users \in SUBSET (1..MaxId)
  BY DEF Init, Parameters
<1>3. pages \in Seq([items : SUBSET used, total : 0..MaxId]) /\ Len(pages) = 0
  BY <1>1, EmptySeq
<1>4. TypeOK
  BY <1>1, <1>2, <1>3 DEF TypeOK, Parameters
<1>5. \A u \in users : Rank(u, users) >= (page - 1) * Size
  BY <1>1, <1>2, Ranks DEF Parameters
<1>6. 1..Len(pages) = {} /\ ~Done
  BY <1>1, <1>3 DEF Done
<1>7. Sizes /\ PageMatchesTotal /\ Passed /\ Repeated
  BY <1>1, <1>6 DEF Sizes, PageMatchesTotal, Passed, Repeated
<1>8. Views
  BY <1>1 DEF Views
<1>9. Ahead
  BY <1>1, <1>5, <1>6 DEF Ahead
<1> QED
  BY <1>4, <1>7, <1>8, <1>9 DEF WalkInv

(* While no page is listed, the pages are what they were. *)
LEMMA SamePages ==
  ASSUME Parameters, TypeOK, UNCHANGED <<page, pages>>, used \subseteq used'
  PROVE  /\ pages' \in Seq([items : SUBSET used', total : 0..MaxId])
         /\ Done' = Done
         /\ PageMatchesTotal => PageMatchesTotal'
<1>1. [items : SUBSET used, total : 0..MaxId] \subseteq [items : SUBSET used', total : 0..MaxId]
  OBVIOUS
<1>2. pages \in Seq([items : SUBSET used', total : 0..MaxId])
  BY <1>1, SeqMonotonic DEF TypeOK
<1> QED
  BY <1>2 DEF Done, PageMatchesTotal

LEMMA CreateKeeps ==
  ASSUME Parameters, WalkInv, NEW id \in 1..MaxId, Create(id)
  PROVE  WalkInv'
<1>1. TypeOK /\ Sizes /\ PageMatchesTotal /\ Views /\ Passed /\ Ahead /\ Repeated
  BY DEF WalkInv
<1>2. /\ id \notin used /\ (Sqlite => \A u \in used : u < id)
      /\ users' = users \cup {id} /\ used' = used \cup {id} /\ created' = created \cup {id}
      /\ UNCHANGED <<view, page, total, pages, deleted>>
  BY DEF Create, MayCreate
<1>3. /\ pages' \in Seq([items : SUBSET used', total : 0..MaxId])
      /\ Done' = Done /\ PageMatchesTotal'
  BY <1>1, <1>2, SamePages
<1>4. TypeOK'
  BY <1>1, <1>2, <1>3 DEF TypeOK
<1>5. Sizes'
  BY <1>1, <1>2, <1>3 DEF Sizes
<1>6. Views'
  BY <1>1, <1>2 DEF Views, TypeOK
<1>7. \A u : Pushed(u) => Pushed(u)'
  BY <1>2 DEF Pushed
<1>8. \A u : Pulled(u)' = Pulled(u)
  BY <1>2 DEF Pulled
<1>9. Repeated'
  BY <1>1, <1>2, <1>7 DEF Repeated
<1>10. Passed'
  <2>1. SUFFICES ASSUME NEW i \in 1..Len(pages), NEW u \in pages[i].items, ~Pushed(u)'
                 PROVE  /\ Rank(u, users') < i * Size
                        /\ total # -1 => Rank(u, Visible') < i * Size
    BY <1>2 DEF Passed
  <2>2. Rank(u, users) < i * Size /\ (total # -1 => Rank(u, Visible) < i * Size)
    BY <1>1, <1>7, <2>1 DEF Passed
  <2>3. u \in used /\ u \in Int /\ id \in Int /\ i * Size \in Nat
    BY <1>1, TypeFacts DEF Parameters
  <2>4. ~(id < u)
    <3>1. CASE Sqlite
      BY <1>2, <2>3, <3>1
    <3>2. CASE ~Sqlite
      <4>1. id \in created' /\ ~(\E v \in created' : v < u)
        BY <1>2, <2>1, <3>2 DEF Pushed
      <4> QED
        BY <4>1
    <3> QED
      BY <3>1, <3>2
  <2>5. Rank(u, users') <= Rank(u, users)
    BY <1>1, <1>2, <1>4, <2>4, TypeFacts, RankGrows
  <2>6. Rank(u, users') \in Nat /\ Rank(u, users) \in Nat
    BY <1>1, <1>2, <1>4, TypeFacts, Ranks
  <2>7. Visible' = IF Sqlite THEN Visible ELSE users'
    BY <1>2 DEF Visible
  <2>8. ~Sqlite => Visible = users
    BY DEF Visible
  <2>9. Rank(u, users') < i * Size
    BY <2>2, <2>3, <2>5, <2>6
  <2> QED
    BY <2>2, <2>7, <2>9
<1>11. Ahead'
  <2>1. SUFFICES ASSUME NEW u \in users \ created,
                        ~(\E i \in 1..Len(pages) : Listed(u, i)), ~Pulled(u)
                 PROVE  /\ ~Done
                        /\ Rank(u, users') >= (page - 1) * Size
                        /\ total # -1 => Rank(u, Visible') >= (page - 1) * Size
    BY <1>2, <1>3, <1>8 DEF Ahead, Listed
  <2>2. /\ ~Done
        /\ Rank(u, users) >= (page - 1) * Size
        /\ total # -1 => Rank(u, Visible) >= (page - 1) * Size
    BY <1>1, <2>1 DEF Ahead
  <2>3. Rank(u, users) <= Rank(u, users')
    BY <1>1, <1>2, <1>4, TypeFacts, RankGrows
  <2>4. Rank(u, users') \in Nat /\ Rank(u, users) \in Nat /\ (page - 1) * Size \in Nat
    BY <1>1, <1>2, <1>4, TypeFacts, Ranks, Offsets
  <2>5. Visible' = IF Sqlite THEN Visible ELSE users'
    BY <1>2 DEF Visible
  <2>6. Rank(u, users') >= (page - 1) * Size
    BY <2>2, <2>3, <2>4
  <2> QED
    BY <2>2, <2>5, <2>6
<1> QED
  BY <1>3, <1>4, <1>5, <1>6, <1>9, <1>10, <1>11 DEF WalkInv

LEMMA DeleteKeeps ==
  ASSUME Parameters, WalkInv, NEW id \in 1..MaxId, Delete(id)
  PROVE  WalkInv'
<1>1. TypeOK /\ Sizes /\ PageMatchesTotal /\ Views /\ Passed /\ Ahead /\ Repeated
  BY DEF WalkInv
<1>2. /\ id \in users /\ users' = users \ {id} /\ deleted' = deleted \cup {id}
      /\ UNCHANGED <<used, view, page, total, pages, created>>
  BY DEF Delete
<1>3. /\ pages' \in Seq([items : SUBSET used', total : 0..MaxId])
      /\ Done' = Done /\ PageMatchesTotal'
  BY <1>1, <1>2, SamePages
<1>4. TypeOK'
  BY <1>1, <1>2, <1>3 DEF TypeOK
<1>5. Sizes'
  BY <1>1, <1>2, <1>3 DEF Sizes
<1>6. Views'
  BY <1>1, <1>2 DEF Views, TypeOK
<1>7. \A u : Pushed(u)' = Pushed(u)
  BY <1>2 DEF Pushed
<1>8. \A u : Pulled(u) => Pulled(u)'
  BY <1>2 DEF Pulled
<1>9. Repeated'
  BY <1>1, <1>2, <1>7 DEF Repeated
<1>10. Visible' = IF Sqlite THEN Visible ELSE users'
  BY <1>2 DEF Visible
<1>11. Passed'
  <2>1. SUFFICES ASSUME NEW i \in 1..Len(pages), NEW u \in pages[i].items, ~Pushed(u)
                 PROVE  /\ Rank(u, users') < i * Size
                        /\ total # -1 => Rank(u, Visible') < i * Size
    BY <1>2, <1>7 DEF Passed
  <2>2. Rank(u, users) < i * Size /\ (total # -1 => Rank(u, Visible) < i * Size)
    BY <1>1, <2>1 DEF Passed
  <2>3. Rank(u, users') <= Rank(u, users)
    BY <1>1, <1>2, <1>4, TypeFacts, RankGrows
  <2>4. Rank(u, users') \in Nat /\ Rank(u, users) \in Nat /\ i * Size \in Nat
    BY <1>1, <1>2, <1>4, TypeFacts, Ranks
  <2>5. Rank(u, users') < i * Size
    BY <2>2, <2>3, <2>4
  <2> QED
    BY <1>10, <2>2, <2>5
<1>12. Ahead'
  <2>1. SUFFICES ASSUME NEW u \in users \ created, u # id,
                        ~(\E i \in 1..Len(pages) : Listed(u, i)), ~Pulled(u)'
                 PROVE  /\ ~Done
                        /\ Rank(u, users') >= (page - 1) * Size
                        /\ total # -1 => Rank(u, Visible') >= (page - 1) * Size
    BY <1>2, <1>3 DEF Ahead, Listed
  <2>2. /\ ~Done
        /\ Rank(u, users) >= (page - 1) * Size
        /\ total # -1 => Rank(u, Visible) >= (page - 1) * Size
    BY <1>1, <1>8, <2>1 DEF Ahead
  <2>3. ~(id < u)
    BY <1>2, <2>1 DEF Pulled
  <2>4. Rank(u, users) <= Rank(u, users')
    BY <1>1, <1>2, <1>4, <2>3, TypeFacts, RankGrows
  <2>5. Rank(u, users') \in Nat /\ Rank(u, users) \in Nat /\ (page - 1) * Size \in Nat
    BY <1>1, <1>2, <1>4, TypeFacts, Ranks, Offsets
  <2>6. Rank(u, users') >= (page - 1) * Size
    BY <2>2, <2>4, <2>5
  <2> QED
    BY <1>10, <2>2, <2>6
<1> QED
  BY <1>3, <1>4, <1>5, <1>6, <1>9, <1>11, <1>12 DEF WalkInv

LEMMA CountKeeps == ASSUME Parameters, WalkInv, Count PROVE WalkInv'
<1>1. TypeOK /\ Sizes /\ PageMatchesTotal /\ Views /\ Passed /\ Ahead /\ Repeated
  BY DEF WalkInv
<1>2. /\ ~Done /\ total' = Cardinality(users) /\ view' = users
      /\ UNCHANGED <<users, used, page, pages, created, deleted>>
  BY DEF Count
<1>3. /\ pages' \in Seq([items : SUBSET used', total : 0..MaxId])
      /\ Done' = Done /\ PageMatchesTotal'
  BY <1>1, <1>2, SamePages
<1>4. total' \in -1..MaxId
  <2>1. Cardinality(users) \in 0..MaxId
    BY <1>1, TypeFacts, Counts
  <2> QED
    BY <1>2, <2>1 DEF Parameters
<1>5. TypeOK'
  BY <1>1, <1>2, <1>3, <1>4 DEF TypeOK
<1>6. Sizes'
  BY <1>1, <1>2, <1>3 DEF Sizes
<1>7. Views'
  BY <1>1, <1>2 DEF Views
<1>8. Visible' = users
  BY <1>2 DEF Visible
<1>9. \A u : Pushed(u)' = Pushed(u) /\ Pulled(u)' = Pulled(u)
  BY <1>2 DEF Pushed, Pulled
<1>10. Repeated'
  BY <1>1, <1>2, <1>9 DEF Repeated
<1>11. Passed'
  BY <1>1, <1>2, <1>8, <1>9 DEF Passed
<1>12. Ahead'
  BY <1>1, <1>2, <1>3, <1>8, <1>9 DEF Ahead, Listed
<1> QED
  BY <1>3, <1>5, <1>6, <1>7, <1>10, <1>11, <1>12 DEF WalkInv

(* What the table lacks of the view, or has beside it, when a page is read. *)
LEMMA ViewRanks ==
  ASSUME Parameters, TypeOK, Views, total # -1, NEW u \in Visible
  PROVE  /\ Rank(u, users) <= Rank(u, Visible)
         /\ ~Pulled(u) => Rank(u, Visible) <= Rank(u, users)
<1>1. /\ users \in SUBSET (1..MaxId) /\ Visible \in SUBSET (1..MaxId) /\ view \subseteq used
      /\ u \in Int /\ \A v \in used : v \in Int
  BY TypeFacts DEF TypeOK, Parameters
<1>2. CASE ~Sqlite
  <2>1. Visible = users
    BY <1>2 DEF Visible
  <2> QED
    BY <1>1, <2>1, RankGrows
<1>3. CASE Sqlite
  <2>1. /\ Visible = view /\ view \ users \subseteq deleted
        /\ \A w \in view, v \in users \ view : w < v
    BY <1>3 DEF Visible, Views
  <2>2. \A v \in users : v < u => v \in view
    <3>1. SUFFICES ASSUME NEW v \in users \ view, v < u PROVE FALSE
      OBVIOUS
    <3>2. u < v /\ v \in Int
      BY <1>1, <2>1 DEF TypeOK
    <3> QED
      BY <1>1, <3>1, <3>2
  <2>3. ~Pulled(u) => \A v \in view : v < u => v \in users
    BY <2>1 DEF Pulled
  <2> QED
    BY <1>1, <2>1, <2>2, <2>3, RankGrows
<1> QED
  BY <1>2, <1>3

LEMMA ListPageKeeps == ASSUME Parameters, WalkInv, ListPage PROVE WalkInv'
<1> DEFINE listed == ItemsOf(Visible)
           answered == [items |-> listed, total |-> total]
<1>1. TypeOK /\ Sizes /\ PageMatchesTotal /\ Views /\ Passed /\ Ahead /\ Repeated
  BY DEF WalkInv
<1>2. /\ total # -1 /\ pages' = Append(pages, answered)
      /\ page' = page + 1 /\ total' = -1 /\ view' = {}
      /\ UNCHANGED <<users, used, created, deleted>>
  BY DEF ListPage
<1>3. /\ Len(pages) \in Nat /\ page = Len(pages) + 1 /\ page \in Nat \ {0}
      /\ users \in SUBSET (1..MaxId) /\ Visible \in SUBSET (1..MaxId)
      /\ \A i \in 1..Len(pages) : i \in Nat \ {0} /\ i * Size \in Nat
  BY <1>1, TypeFacts
<1>4. listed = Cut(page, Visible)
  BY DEF ItemsOf, Cut, Rank
<1>5. total \in 0..MaxId /\ Visible \subseteq used
  BY <1>1, <1>2 DEF TypeOK, Visible, Parameters
<1>6. /\ pages' \in Seq([items : SUBSET used, total : 0..MaxId])
      /\ pages' # <<>> /\ Len(pages') = page
      /\ pages'[page] = answered
      /\ \A i \in 1..Len(pages) : pages'[i] = pages[i]
  <2>1. answered \in [items : SUBSET used, total : 0..MaxId]
    BY <1>5 DEF ItemsOf
  <2>2. pages \in Seq([items : SUBSET used, total : 0..MaxId])
    BY <1>1 DEF TypeOK
  <2>3. /\ Append(pages, answered) \in Seq([items : SUBSET used, total : 0..MaxId])
        /\ Append(pages, answered) # <<>>
        /\ Len(Append(pages, answered)) = Len(pages) + 1
        /\ \A i \in 1..Len(pages) : Append(pages, answered)[i] = pages[i]
        /\ Append(pages, answered)[Len(pages) + 1] = answered
    BY <2>1, <2>2, AppendProperties
  <2> QED
    BY <1>2, <1>3, <2>3
<1>7. 1..page = 1..Len(pages) \cup {page} /\ page \notin 1..Len(pages)
  BY <1>3
<1>8. Done' <=> Cardinality(listed) < Size
  BY <1>6 DEF Done
<1>9. /\ Cardinality(listed) \in 0..Size
      /\ Cardinality(listed) = Cardinality(Slice(page) \cap 0..Cardinality(Visible) - 1)
      /\ Cardinality(listed) < Size => Cardinality(Visible) < page * Size
      /\ Cardinality(listed) = Size => page * Size <= MaxId
  BY <1>3, <1>4, CutCounts
<1>10. /\ (page - 1) * Size \in Nat /\ page * Size \in Nat
       /\ (page + 1 - 1) * Size = page * Size
       /\ \A i \in 1..Len(pages) : i * Size <= (page - 1) * Size
  <2>1. \A i \in 1..Len(pages) : i < page
    BY <1>3
  <2> QED
    BY <1>3, <2>1, Offsets
<1>11. pages'[page].items = Cut(page, Visible) /\ pages'[page].total = total
  BY <1>4, <1>6
<1>12. TypeOK'
  BY <1>1, <1>2, <1>3, <1>6, <1>5 DEF TypeOK, Parameters
<1>13. Sizes'
  <2>1. pages # <<>> => Cardinality(pages[Len(pages)].items) = Size /\ Len(pages) \in 1..Len(pages)
    <3>1. SUFFICES ASSUME pages # <<>>
                   PROVE  Cardinality(pages[Len(pages)].items) = Size /\ Len(pages) \in 1..Len(pages)
      OBVIOUS
    <3>2. Len(pages) \in 1..Len(pages)
      BY <1>1, <1>3, <3>1, EmptySeq DEF TypeOK
    <3>3. ~(Cardinality(pages[Len(pages)].items) < Size)
      BY <1>1, <1>2, <3>1 DEF Sizes, Done
    <3>4. Cardinality(pages[Len(pages)].items) \in 0..Size
      BY <1>1, <3>2 DEF Sizes
    <3> QED
      BY <3>2, <3>3, <3>4 DEF Parameters
  <2>2. (page - 1) * Size <= MaxId
    <3>1. CASE pages = <<>>
      BY <1>3, <3>1, EmptySeq DEF Parameters
    <3>2. CASE pages # <<>>
      BY <1>1, <1>3, <2>1, <3>2 DEF Sizes
    <3> QED
      BY <3>1, <3>2
  <2>3. ASSUME NEW i \in 1..page
        PROVE  /\ Cardinality(pages'[i].items) \in 0..Size
               /\ Cardinality(pages'[i].items) = Size => i * Size <= MaxId
    <3>1. CASE i = page
      BY <1>4, <1>9, <1>11, <3>1
    <3>2. CASE i \in 1..Len(pages)
      BY <1>1, <1>6, <3>2 DEF Sizes
    <3> QED
      BY <1>7, <3>1, <3>2
  <2> QED
    BY <1>2, <1>6, <2>2, <2>3 DEF Sizes
<1>14. PageMatchesTotal'
  <2>1. SUFFICES ASSUME Sqlite, NEW i \in 1..page
                 PROVE  Cardinality(pages'[i].items) = Cardinality(Slice(i) \cap 0..pages'[i].total - 1)
    BY <1>6 DEF PageMatchesTotal
  <2>2. CASE i = page
    <3>1. total = Cardinality(Visible)
      BY <1>1, <1>2, <2>1 DEF Views, Visible
    <3> QED
      BY <1>4, <1>9, <1>11, <2>2, <3>1
  <2>3. CASE i \in 1..Len(pages)
    BY <1>1, <1>6, <2>1, <2>3 DEF PageMatchesTotal
  <2> QED
    BY <1>7, <2>2, <2>3
<1>15. Views'
  BY <1>2 DEF Views
<1>16. \A u : Pushed(u)' = Pushed(u) /\ Pulled(u)' = Pulled(u)
  BY <1>2 DEF Pushed, Pulled
<1>17. Passed'
  <2>1. SUFFICES ASSUME NEW i \in 1..page, NEW u \in pages'[i].items, ~Pushed(u)
                 PROVE  Rank(u, users) < i * Size
    BY <1>2, <1>6, <1>16 DEF Passed
  <2>2. CASE i = page
    <3>1. u \in Visible /\ Rank(u, Visible) \in Slice(page)
      BY <1>4, <1>6, <2>1, <2>2 DEF Cut
    <3>2. Rank(u, Visible) < page * Size
      BY <1>10, <3>1 DEF Slice
    <3>3. Rank(u, users) <= Rank(u, Visible)
      BY <1>1, <1>2, <3>1, ViewRanks
    <3>4. Rank(u, users) \in Nat /\ Rank(u, Visible) \in Nat
      BY <1>3, Ranks
    <3> QED
      BY <1>10, <2>2, <3>2, <3>3, <3>4
  <2>3. CASE i \in 1..Len(pages)
    BY <1>1, <1>6, <2>1, <2>3 DEF Passed
  <2> QED
    BY <1>7, <2>2, <2>3
<1>18. Ahead'
  <2>1. SUFFICES ASSUME NEW u \in users \ created, ~Pulled(u),
                        \A i \in 1..page : u \notin pages'[i].items
                 PROVE  ~Done' /\ Rank(u, users) >= page * Size
    BY <1>2, <1>6, <1>10, <1>16 DEF Ahead, Listed
  <2>2. \A i \in 1..Len(pages) : ~Listed(u, i)
    BY <1>6, <1>7, <2>1 DEF Listed
  <2>3. Rank(u, Visible) >= (page - 1) * Size
    BY <1>1, <1>2, <2>1, <2>2 DEF Ahead
  <2>4. u \in Visible /\ u \notin Cut(page, Visible)
    BY <1>1, <1>2, <1>4, <1>6, <1>7, <2>1 DEF Views, Visible
  <2>5. Rank(u, Visible) \in Nat /\ Rank(u, users) \in Nat
    BY <1>3, Ranks
  <2>6. Rank(u, Visible) >= page * Size
    BY <1>10, <2>3, <2>4, <2>5 DEF Cut, Slice
  <2>7. Rank(u, Visible) < Cardinality(Visible) /\ Cardinality(Visible) \in Nat
    BY <1>3, <2>4, RankOrders, Counts DEF Parameters
  <2>8. Rank(u, Visible) <= Rank(u, users)
    BY <1>1, <1>2, <2>1, <2>4, ViewRanks
  <2> QED
    BY <1>8, <1>9, <1>10, <2>5, <2>6, <2>7, <2>8
<1>19. Repeated'
  <2>1. SUFFICES ASSUME NEW i \in 1..page, NEW j \in 1..page, i < j,
                        NEW u \in pages'[i].items \cap pages'[j].items
                 PROVE  Pushed(u)
    BY <1>6, <1>16 DEF Repeated
  <2>2. i \in 1..Len(pages)
    BY <1>3, <2>1
  <2>3. CASE j = page
    <3>1. u \in pages[i].items /\ Rank(u, Visible) \in Slice(page)
      BY <1>4, <1>6, <2>1, <2>2, <2>3 DEF Cut
    <3>2. Rank(u, Visible) >= (page - 1) * Size /\ Rank(u, Visible) \in Nat
      BY <1>3, <1>10, <3>1, Ranks DEF Slice
    <3>3. Pushed(u) \/ Rank(u, Visible) < i * Size
      BY <1>1, <1>2, <2>2, <3>1 DEF Passed
    <3>4. i * Size <= (page - 1) * Size /\ i * Size \in Nat
      BY <1>3, <1>10, <2>2
    <3> QED
      BY <1>10, <3>2, <3>3, <3>4
  <2>4. CASE j \in 1..Len(pages)
    BY <1>1, <1>6, <2>1, <2>2, <2>4 DEF Repeated
  <2> QED
    BY <1>7, <2>3, <2>4
<1> QED
  BY <1>12, <1>13, <1>14, <1>15, <1>17, <1>18, <1>19 DEF WalkInv

LEMMA WalkStep == ASSUME Parameters, WalkInv, [Next]_vars PROVE WalkInv'
<1>1. CASE UNCHANGED vars
  <2>1. UNCHANGED <<users, used, view, page, total, pages, created, deleted>>
    BY <1>1 DEF vars
  <2> QED
    BY <2>1 DEF WalkInv, TypeOK, Sizes, PageMatchesTotal, Views, Passed, Ahead, Repeated,
       Done, Visible, Pushed, Pulled, Listed
<1>2. CASE Next
  BY <1>2, CreateKeeps, DeleteKeeps, CountKeeps, ListPageKeeps DEF Next
<1> QED
  BY <1>1, <1>2

LEMMA WalkMeans ==
  ASSUME Parameters, WalkInv
  PROVE  PageIsSmall /\ PageMatchesTotal /\ RepeatHasCause /\ SkipHasCause
<1>1. PageIsSmall
  BY DEF WalkInv, Sizes, PageIsSmall, Parameters
<1>2. RepeatHasCause
  BY DEF WalkInv, Repeated, RepeatHasCause, Pushed
<1>3. SkipHasCause
  BY DEF WalkInv, Ahead, SkipHasCause, Pulled
<1> QED
  BY <1>1, <1>2, <1>3 DEF WalkInv

-----------------------------------------------------------------------------
(* Whoever walks through the users while they come and go: the walk ends   *)
(* in time, a page fits its total on SQLite, nobody is listed twice but    *)
(* for an id that appeared late, nobody missed but for a deleted one       *)
(* before (BaseRepository.paginate).                                       *)
THEOREM WalkExplained ==
  ASSUME Parameters
  PROVE  Spec => [](PageIsSmall /\ PageMatchesTotal /\ RepeatHasCause /\ SkipHasCause)
<1>1. Init => WalkInv
  BY WalkInit
<1>2. WalkInv /\ [Next]_vars => WalkInv'
  BY WalkStep
<1>3. WalkInv => PageIsSmall /\ PageMatchesTotal /\ RepeatHasCause /\ SkipHasCause
  BY WalkMeans
<1> QED
  BY <1>1, <1>2, <1>3, PTL DEF Spec

=============================================================================
