---------------------------- MODULE TagMapProofs ----------------------------
(***************************************************************************)
(* TLAPS proofs about TagMap, for every set of pages and tags, every size  *)
(* of the table and of createMap's arrays, and every log.                  *)
(***************************************************************************)
EXTENDS TagMap, FiniteSetTheorems, SequenceTheorems, WellFoundedInduction, TLAPS

(***************************************************************************)
(* The inductive invariant.                                                *)
(***************************************************************************)

MapOK(m) ==
    /\ m = [items |-> m.items, count |-> m.count, size |-> m.size]
    /\ m.size \in Nat /\ m.count \in Nat
    /\ m.items \in [0..m.size-1 -> Seq(Items)]

HeapKeys(list) == \A k \in 1..Len(list) : list[k].key.at = "heap"
OnHeap(list) == \A k \in 1..Len(list) : list[k].key.at = "heap" /\ list[k].value.at = "heap"
AllKeys(list, b) == \A k \in 1..Len(list) : list[k].key.val = b

\* The items of a chain have its number as key; one that is not that of page 0 has at
\* most one item, as long as the keys in it can be read.
ChainOK(list, b) == AllKeys(list, b) /\ (b # 0 /\ HeapKeys(list) => Len(list) <= 1)
ChainsOK(m) == \A b \in 0..m.size-1 : ChainOK(m.items[b], b)

Counted(m) == IsFiniteSet(Places(m)) /\ m.count = Cardinality(Places(m))

\* The table is never fuller than its load factor allows.
Roomy(m) == m.count <= m.size

\* Only the chains in v have pointers to a stack frame.
HeapBut(m, v) == \A b \in 0..m.size-1 : b \notin v => OnHeap(m.items[b])

\* The chain of a page with tag t, if only createMap has been there.
Encodes(list, p, t) ==
    list = IF t = NoTag THEN <<>> ELSE <<[key |-> Heap(p), value |-> Heap(t)]>>

\* The map has the tags w, but for the pages in v.
KeepsAt(m, w, p) == IF p < m.size THEN Encodes(m.items[p], p, w[p]) ELSE w[p] = NoTag
Keeps(m, w, v) == \A p \in Pages \ (v \cup {0}) : KeepsAt(m, w, p)

\* The tag that the first n records of a log have for p.
TagUpTo(l, n, p) ==
    LET mine == {k \in 1..n : l[k].page = p}
    IN  IF mine = {} THEN NoTag ELSE l[Max(mine)].tag
TagsUpTo(l, n) == [p \in Pages |-> TagUpTo(l, n, p)]

\* The log has the tags w, but for the pages in v.
Saved(l, w, v) == \A p \in Pages \ (v \cup {0}) : TagUpTo(l, Len(l), p) = w[p]

\* The log has the tags w of the items that are no longer in lf.
Dumped(m, l, lf, w, v) ==
    \A p \in Pages \ (v \cup {0}) :
        TagUpTo(l, Len(l), p) = IF <<p, 1>> \in Places(m) \ lf THEN w[p] ELSE NoTag

\* The conclusion of HeapUseIsSafe is false only because of the log.
LongLog(l) == Len(l) >= ArrayLen \/ \E k \in 1..Len(l) : l[k].page >= next_size(AskedSize)

SoundInv ==
    wild = {} => ChainsOK(map) /\ Counted(map) /\ Roomy(map) /\ HeapBut(map, vague)

PlaceInv ==
    /\ pc = "closed" => map = NoMap
    /\ pc # "closed" => map.size >= next_size(AskedSize)
    /\ pc # "dumping" => left = {}
    /\ pc = "loading" /\ wild = {} => HeapBut(map, {}) /\ map.count <= i /\ i < ArrayLen

TagInv ==
    faults = 0 /\ wild = {} =>
        /\ pc = "closed" => Saved(log, want, vague)
        /\ pc = "loading" => /\ fd = "log" /\ i <= Len(log)
                             /\ Saved(log, want, vague)
                             /\ Keeps(map, TagsUpTo(log, i), {})
        /\ pc = "open" => Keeps(map, want, vague)
        /\ pc = "dumping" => /\ fd = "log" /\ Keeps(map, want, vague)
                             /\ ~hm_clear(map) => Dumped(map, log, left, want, vague)

WildInv == wild # {} /\ vague = {} /\ faults = 0 => LongLog(log)

IInv == TypeOK /\ SoundInv /\ PlaceInv /\ TagInv /\ WildInv

-----------------------------------------------------------------------------
(***************************************************************************)
(* The constants, least and greatest elements, and next_size.              *)
(***************************************************************************)

\* The assumptions on the constants, as the proofs cite them.
LEMMA Constants ==
    /\ Pages \subseteq Nat /\ 0 \in Pages /\ 1 \in Pages
    /\ ZeroTag \in Tags /\ NoTag \notin Tags
    /\ Logs \subseteq Seq(Records) /\ Garbage \subseteq Records
    /\ AskedSize \in Nat /\ ArrayLen \in Nat /\ ArrayLen > 0
    /\ MaxItems \in Nat /\ MaxRuns \in Nat /\ MaxFaults \in Nat /\ MaxFaults > 0
<1>1. Pages \subseteq Nat /\ 0 \in Pages /\ 1 \in Pages
  BY PagesAssumption
<1>2. ZeroTag \in Tags /\ NoTag \notin Tags
  BY TagsAssumption
<1>3. Logs \subseteq Seq(Records) /\ Garbage \subseteq Records
  BY LogsAssumption, GarbageAssumption
<1>4. AskedSize \in Nat /\ ArrayLen \in Nat /\ ArrayLen > 0
  BY SizesAssumption
<1>5. MaxItems \in Nat /\ MaxRuns \in Nat /\ MaxFaults \in Nat /\ MaxFaults > 0
  BY BoundsAssumption
<1> QED
  BY <1>1, <1>2, <1>3, <1>4, <1>5

Less == {ss \in Nat \X Nat : ss[1] < ss[2]}

\* The naturals are well founded.
LEMMA LessWellFounded == IsWellFoundedOn(Less, Nat)
BY NatLessThanWellFounded, Zenon DEF OpToRel, Less

\* A set of naturals that is not empty has a least element.
LEMMA LeastElement ==
    ASSUME NEW T, T \subseteq Nat, T # {}
    PROVE  \E x \in T : \A y \in T : x <= y
<1>1. \A x, y \in Nat : y < x => <<y, x>> \in Less
  BY DEF Less
<1>2. PICK x \in T : \A y \in T : ~(<<y, x>> \in Less)
  BY LessWellFounded, WFMin
<1>3. ASSUME NEW y \in T PROVE x <= y
  <2>1. x \in Nat /\ y \in Nat
    OBVIOUS
  <2>2. ~(y < x)
    BY <2>1, <1>1, <1>2
  <2> QED
    BY <2>1, <2>2
<1> QED
  BY <1>3

\* So Min of such a set is its least element.
LEMMA MinIs ==
    ASSUME NEW T, T \subseteq Nat, T # {}
    PROVE  Min(T) \in T /\ \A y \in T : Min(T) <= y
<1>1. \E x \in T : \A y \in T : x <= y
  BY LeastElement
<1> QED
  BY <1>1 DEF Min

\* And Max of one that is bounded its greatest.
LEMMA MaxIs ==
    ASSUME NEW n \in Nat, NEW T, T \subseteq 1..n, T # {}
    PROVE  Max(T) \in T
<1> DEFINE D == {n - y : y \in T}
<1>1. D \subseteq Nat /\ D # {}
  <2>1. \A y \in T : n - y \in Nat
    OBVIOUS
  <2> QED
    BY <2>1
<1>2. PICK d \in D : \A e \in D : d <= e
  BY <1>1, LeastElement
<1>3. PICK x \in T : d = n - x
  OBVIOUS
<1>4. ASSUME NEW y \in T PROVE x >= y
  <2>1. n - y \in D
    OBVIOUS
  <2>2. n - x <= n - y
    BY <2>1, <1>2, <1>3
  <2>3. x \in Nat /\ y \in Nat
    OBVIOUS
  <2> QED
    BY <2>2, <2>3
<1> QED
  BY <1>4 DEF Max

\* next_size gives more than it is asked for.
LEMMA NextSize == ASSUME NEW n \in Nat PROVE next_size(n) \in Nat /\ next_size(n) > n
<1> DEFINE above == {k \in DOMAIN sizes : sizes[k] > n}
<1>1. sizes \in Seq(Nat) /\ sizes[1] = 5 /\ 1 \in DOMAIN sizes
  BY DEF sizes
<1>2. DOMAIN sizes \subseteq Nat /\ \A k \in DOMAIN sizes : sizes[k] \in Nat
  BY <1>1
<1>3. next_size(n) = IF above = {} THEN n * 2 ELSE sizes[Min(above)]
  BY DEF next_size
<1>4. CASE above = {}
  <2>1. ~(5 > n)
    BY <1>1, <1>4
  <2> QED
    BY <2>1, <1>3, <1>4
<1>5. CASE above # {}
  <2>1. Min(above) \in above
    BY <1>2, <1>5, MinIs
  <2> QED
    BY <2>1, <1>2, <1>3, <1>5
<1> QED
  BY <1>4, <1>5

-----------------------------------------------------------------------------
(***************************************************************************)
(* The tags that a log has.                                                *)
(***************************************************************************)

\* The tag is one of the log's, or none.
LEMMA TagType ==
    ASSUME NEW l \in Seq(Records), NEW n \in 0..Len(l), NEW p
    PROVE  TagUpTo(l, n, p) \in Tags \cup {NoTag}
<1> DEFINE mine == {k \in 1..n : l[k].page = p}
<1>1. n \in Nat /\ 1..n \subseteq 1..Len(l)
  OBVIOUS
<1>2. CASE mine = {}
  BY <1>2 DEF TagUpTo
<1>3. CASE mine # {}
  <2>1. Max(mine) \in mine
    BY <1>1, <1>3, MaxIs
  <2>2. l[Max(mine)] \in Records
    BY <2>1, <1>1
  <2>3. l[Max(mine)].tag \in Tags
    BY <2>2 DEF Records
  <2> QED
    BY <2>3, <1>3 DEF TagUpTo
<1> QED
  BY <1>2, <1>3

\* No record, no tag.
LEMMA TagNone == ASSUME NEW l, NEW p PROVE TagUpTo(l, 0, p) = NoTag
<1>1. {k \in 1..0 : l[k].page = p} = {}
  OBVIOUS
<1> QED
  BY <1>1 DEF TagUpTo

\* The last record of a page counts.
LEMMA TagNext ==
    ASSUME NEW l, NEW n \in Nat, NEW p
    PROVE  TagUpTo(l, n + 1, p) = IF l[n + 1].page = p THEN l[n + 1].tag ELSE TagUpTo(l, n, p)
<1> DEFINE old == {k \in 1..n : l[k].page = p}
           new == {k \in 1..n + 1 : l[k].page = p}
<1>1. CASE l[n + 1].page = p
  <2>1. n + 1 \in new /\ \A y \in new : n + 1 >= y
    BY <1>1
  <2>2. new \subseteq Int
    OBVIOUS
  <2>3. \A x \in new : (\A y \in new : x >= y) => x = n + 1
    BY <2>1, <2>2
  <2>4. Max(new) = n + 1
    BY <2>1, <2>3 DEF Max
  <2> QED
    BY <2>1, <2>4, <1>1 DEF TagUpTo
<1>2. CASE l[n + 1].page # p
  <2>1. new = old
    BY <1>2
  <2> QED
    BY <2>1, <1>2 DEF TagUpTo
<1> QED
  BY <1>1, <1>2

\* Records after the n-th do not matter.
LEMMA TagSame ==
    ASSUME NEW l, NEW m, NEW n \in Nat, \A k \in 1..n : l[k] = m[k], NEW p
    PROVE  TagUpTo(l, n, p) = TagUpTo(m, n, p)
<1>1. {k \in 1..n : l[k].page = p} = {k \in 1..n : m[k].page = p}
  OBVIOUS
<1> DEFINE mine == {k \in 1..n : l[k].page = p}
<1>2. CASE mine = {}
  BY <1>1, <1>2 DEF TagUpTo
<1>3. CASE mine # {}
  <2>1. Max(mine) \in 1..n
    BY <1>3, MaxIs
  <2> QED
    BY <1>1, <1>3, <2>1 DEF TagUpTo
<1> QED
  BY <1>2, <1>3

\* m has the tag of r for its page, and else what l has.
LastWord(m, l, r, p) ==
    TagUpTo(m, Len(m), p) = IF r.page = p THEN r.tag ELSE TagUpTo(l, Len(l), p)

\* A record that is written has the last word.
LEMMA TagAppend ==
    ASSUME NEW l \in Seq(Records), NEW r \in Records, NEW p, NEW m, m = Append(l, r)
    PROVE  LastWord(m, l, r, p)
<1>0. PICK n : n = Len(l)
  OBVIOUS
<1>1. n \in Nat /\ Len(m) = n + 1 /\ m[n + 1] = r /\ \A k \in 1..n : m[k] = l[k]
  BY <1>0
<1>2. TagUpTo(m, n, p) = TagUpTo(l, n, p)
  BY <1>1, TagSame
<1>3. TagUpTo(m, n + 1, p) = IF m[n + 1].page = p THEN m[n + 1].tag ELSE TagUpTo(m, n, p)
  BY <1>1, TagNext
<1>4. TagUpTo(m, Len(m), p) = IF r.page = p THEN r.tag ELSE TagUpTo(l, n, p)
  BY <1>1, <1>2, <1>3
<1> QED
  BY <1>0, <1>4 DEF LastWord

\* LogTags gives these tags.
LEMMA LogTagsIs ==
    ASSUME NEW l \in Seq(Records)
    PROVE  /\ LogTags(l) = [p \in Pages |-> TagUpTo(l, Len(l), p)]
           /\ LogTags(l) \in [Pages -> Tags \cup {NoTag}]
<1>1. DOMAIN l = 1..Len(l) /\ Len(l) \in 0..Len(l)
  OBVIOUS
<1>2. LogTags(l) = [p \in Pages |-> TagUpTo(l, Len(l), p)]
  BY <1>1 DEF LogTags, TagUpTo
<1>3. \A p \in Pages : TagUpTo(l, Len(l), p) \in Tags \cup {NoTag}
  BY <1>1, TagType
<1> QED
  BY <1>2, <1>3

-----------------------------------------------------------------------------
(***************************************************************************)
(* The map.                                                                *)
(***************************************************************************)

\* A place is a chain and a position in it.
LEMMA PlaceIs ==
    ASSUME NEW m, NEW q
    PROVE  q \in Places(m) <=> \E b \in 0..m.size-1 : \E k \in 1..Len(m.items[b]) : q = <<b, k>>
BY DEF Places

\* The same for a place that is written out.
LEMMA PairIs ==
    ASSUME NEW m, NEW b, NEW k
    PROVE  <<b, k>> \in Places(m) <=> b \in 0..m.size-1 /\ k \in 1..Len(m.items[b])
<1>1. \A c, j : <<b, k>> = <<c, j>> => b = c /\ k = j
  OBVIOUS
<1>2. ASSUME <<b, k>> \in Places(m) PROVE b \in 0..m.size-1 /\ k \in 1..Len(m.items[b])
  <2>1. PICK c \in 0..m.size-1 : \E j \in 1..Len(m.items[c]) : <<b, k>> = <<c, j>>
    BY <1>2, PlaceIs
  <2> QED
    BY <2>1, <1>1
<1>3. ASSUME b \in 0..m.size-1, k \in 1..Len(m.items[b]) PROVE <<b, k>> \in Places(m)
  BY <1>3, PlaceIs
<1> QED
  BY <1>2, <1>3

\* An empty table is in order.
LEMMA EmptyMap ==
    ASSUME NEW n \in Nat
    PROVE  /\ MapOK(Empty(n)) /\ ChainsOK(Empty(n)) /\ Counted(Empty(n)) /\ Roomy(Empty(n))
           /\ HeapBut(Empty(n), {}) /\ Empty(n).count = 0 /\ Empty(n).size = n
           /\ \A b \in 0..n-1 : Empty(n).items[b] = <<>>
           /\ Places(Empty(n)) = {}
<1> PICK m : m = Empty(n)
  OBVIOUS
<1>1. /\ m = [items |-> m.items, count |-> m.count, size |-> m.size]
      /\ m.size = n /\ m.count = 0 /\ m.items = [b \in 0..n-1 |-> <<>>]
  BY DEF Empty
<1>2. <<>> \in Seq(Items) /\ Len(<<>>) = 0
  OBVIOUS
<1>3. \A b \in 0..n-1 : m.items[b] = <<>>
  BY <1>1
<1>4. m.items \in [0..m.size-1 -> Seq(Items)]
  BY <1>1, <1>2
<1>5. Places(m) = {}
  <2>1. ASSUME NEW q \in Places(m) PROVE FALSE
    <3>1. PICK b \in 0..m.size-1 : \E k \in 1..Len(m.items[b]) : q = <<b, k>>
      BY <2>1, PlaceIs
    <3> QED
      BY <3>1, <1>1, <1>2, <1>3
  <2> QED
    BY <2>1
<1>6. Counted(m)
  BY <1>1, <1>5, FS_EmptySet DEF Counted
<1>7. ChainsOK(m) /\ HeapBut(m, {})
  BY <1>1, <1>2, <1>3 DEF ChainsOK, ChainOK, AllKeys, HeapBut, OnHeap
<1> QED
  BY <1>1, <1>3, <1>4, <1>5, <1>6, <1>7 DEF MapOK, Roomy

\* The table n has the chains of m, but list for chain b, and perhaps more chains.
Extends(m, n, b, list) ==
    /\ MapOK(n) /\ n.size >= m.size
    /\ n.items[b] = list
    /\ \A c \in 0..m.size-1 : c # b => n.items[c] = m.items[c]
    /\ \A c \in m.size..n.size-1 : n.items[c] = <<>>

\* The chains of n are in order if those of m are, and list is.
LEMMA ExtendChains ==
    ASSUME NEW m, NEW n, NEW b \in 0..m.size-1, NEW list, MapOK(m), Extends(m, n, b, list),
           ChainsOK(m), ChainOK(list, b)
    PROVE  ChainsOK(n)
<1> SUFFICES ASSUME NEW c \in 0..n.size-1 PROVE ChainOK(n.items[c], c)
  BY DEF ChainsOK
<1>1. m.size \in Nat /\ n.size \in Nat
  BY DEF MapOK, Extends
<1>2. CASE c = b
  BY <1>2 DEF Extends
<1>3. CASE c # b /\ c < m.size
  BY <1>1, <1>3 DEF Extends, ChainsOK
<1>4. CASE c >= m.size
  <2>1. n.items[c] = <<>> /\ Len(<<>>) = 0
    BY <1>1, <1>4 DEF Extends
  <2> QED
    BY <2>1 DEF ChainOK, AllKeys
<1> QED
  BY <1>1, <1>2, <1>3, <1>4

\* Only the chains in w have pointers to a frame if list has none, or b is in w.
LEMMA ExtendHeap ==
    ASSUME NEW m, NEW n, NEW b \in 0..m.size-1, NEW list, MapOK(m), Extends(m, n, b, list),
           NEW v, NEW w, v \subseteq w, HeapBut(m, v), b \in w \/ OnHeap(list)
    PROVE  HeapBut(n, w)
<1> SUFFICES ASSUME NEW c \in 0..n.size-1, c \notin w PROVE OnHeap(n.items[c])
  BY DEF HeapBut
<1>1. m.size \in Nat /\ n.size \in Nat
  BY DEF MapOK, Extends
<1>2. CASE c = b
  BY <1>2 DEF Extends
<1>3. CASE c # b /\ c < m.size
  BY <1>1, <1>3 DEF Extends, HeapBut
<1>4. CASE c >= m.size
  <2>1. n.items[c] = <<>> /\ Len(<<>>) = 0
    BY <1>1, <1>4 DEF Extends
  <2> QED
    BY <2>1 DEF OnHeap
<1> QED
  BY <1>1, <1>2, <1>3, <1>4

\* The tags of the other pages are where they were.
LEMMA ExtendKeeps ==
    ASSUME NEW m, NEW n, NEW b \in 0..m.size-1, NEW list, MapOK(m), Extends(m, n, b, list),
           NEW v, NEW w, v \subseteq w, NEW t, NEW u, Keeps(m, t, v),
           \A p \in Pages : p # b => u[p] = t[p],
           b \in w \cup {0} \/ Encodes(list, b, u[b])
    PROVE  Keeps(n, u, w)
<1> SUFFICES ASSUME NEW p \in Pages, p \notin w, p # 0 PROVE KeepsAt(n, u, p)
  BY DEF Keeps
<1>1. m.size \in Nat /\ n.size \in Nat /\ p \in Nat /\ n.size >= m.size
  BY Constants DEF MapOK, Extends
<1>2. KeepsAt(m, t, p)
  BY DEF Keeps
<1>3. CASE p = b
  <2>1. n.items[p] = list /\ Encodes(list, p, u[p]) /\ p < n.size
    BY <1>1, <1>3 DEF Extends
  <2> QED
    BY <2>1 DEF KeepsAt
<1>4. CASE p # b /\ p < m.size
  <2>1. n.items[p] = m.items[p] /\ u[p] = t[p] /\ p < n.size
    BY <1>1, <1>4 DEF Extends
  <2>2. Encodes(m.items[p], p, t[p])
    BY <1>2, <1>4 DEF KeepsAt
  <2> QED
    BY <2>1, <2>2 DEF KeepsAt
<1>5. CASE p >= m.size
  <2>1. u[p] = NoTag
    BY <1>1, <1>2, <1>5 DEF KeepsAt
  <2>2. p < n.size => n.items[p] = <<>>
    BY <1>1, <1>5 DEF Extends
  <2> QED
    BY <2>1, <2>2 DEF KeepsAt, Encodes
<1> QED
  BY <1>1, <1>3, <1>4, <1>5

\* The places of n are those of m, but in chain b.
LEMMA ExtendPlaces ==
    ASSUME NEW m, NEW n, NEW b \in 0..m.size-1, NEW list, MapOK(m), Extends(m, n, b, list),
           NEW c, NEW k
    PROVE  <<c, k>> \in Places(n) <=>
             IF c = b THEN k \in 1..Len(list) ELSE <<c, k>> \in Places(m)
<1>1. /\ m.size \in Nat /\ n.size \in Nat /\ n.size >= m.size /\ n.items[b] = list
      /\ Len(<<>>) = 0
  BY DEF MapOK, Extends
<1>2. <<c, k>> \in Places(n) <=> c \in 0..n.size-1 /\ k \in 1..Len(n.items[c])
  BY PairIs
<1>3. <<c, k>> \in Places(m) <=> c \in 0..m.size-1 /\ k \in 1..Len(m.items[c])
  BY PairIs
<1>4. CASE c = b
  BY <1>1, <1>2, <1>4
<1>5. CASE c # b /\ c \in 0..m.size-1
  BY <1>1, <1>2, <1>3, <1>5 DEF Extends
<1>6. CASE c # b /\ c \notin 0..m.size-1
  <2>1. c \in 0..n.size-1 => n.items[c] = <<>>
    BY <1>1, <1>6 DEF Extends
  <2> QED
    BY <2>1, <1>1, <1>2, <1>3, <1>6
<1> QED
  BY <1>4, <1>5, <1>6

\* Two sets of pairs with the same pairs are the same.
LEMMA SamePairs ==
    ASSUME NEW S, NEW T, \A q : q \in S \/ q \in T => \E c, k : q = <<c, k>>,
           \A c, k : <<c, k>> \in S <=> <<c, k>> \in T
    PROVE  S = T
<1>1. ASSUME NEW q PROVE q \in S <=> q \in T
  <2>1. CASE q \notin S /\ q \notin T
    BY <2>1
  <2>2. CASE q \in S \/ q \in T
    <3>1. PICK c, k : q = <<c, k>>
      BY <2>2
    <3> QED
      BY <3>1
  <2> QED
    BY <2>1, <2>2
<1> QED
  BY <1>1

\* A set with one element more.
LEMMA AddOne ==
    ASSUME NEW S, NEW T, NEW x, IsFiniteSet(S), x \notin S, T = S \cup {x}
    PROVE  IsFiniteSet(T) /\ Cardinality(T) = Cardinality(S) + 1
<1>1. /\ IsFiniteSet(S \cup {x})
      /\ Cardinality(S \cup {x}) = IF x \in S THEN Cardinality(S) ELSE Cardinality(S) + 1
  BY FS_AddElement, Zenon
<1> QED
  BY <1>1

\* A set with one element less.
LEMMA RemoveOne ==
    ASSUME NEW S, NEW T, NEW x, IsFiniteSet(S), x \in S, T = S \ {x}
    PROVE  IsFiniteSet(T) /\ Cardinality(T) = Cardinality(S) - 1
<1>1. /\ IsFiniteSet(S \ {x})
      /\ Cardinality(S \ {x}) = IF x \in S THEN Cardinality(S) - 1 ELSE Cardinality(S)
  BY FS_RemoveElement, Zenon
<1> QED
  BY <1>1

\* One item more, the same number, or one less.
LEMMA ExtendCounts ==
    ASSUME NEW m, NEW n, NEW b \in 0..m.size-1, NEW list \in Seq(Items), MapOK(m),
           Extends(m, n, b, list), Counted(m)
    PROVE  /\ Len(list) = Len(m.items[b]) /\ n.count = m.count
              => Counted(n) /\ Places(n) = Places(m)
           /\ Len(list) = Len(m.items[b]) + 1 /\ n.count = m.count + 1 => Counted(n)
           /\ Len(list) = Len(m.items[b]) - 1 /\ n.count = m.count - 1 => Counted(n)
<1> DEFINE L == Len(m.items[b])
<1>1. L \in Nat /\ Len(list) \in Nat
  BY DEF MapOK
<1>2. \A q : q \in Places(m) \/ q \in Places(n) => \E c, k : q = <<c, k>>
  BY PlaceIs
<1>3. \A c, k : <<c, k>> \in Places(n) <=>
                  IF c = b THEN k \in 1..Len(list) ELSE <<c, k>> \in Places(m)
  BY ExtendPlaces
<1>4. \A k : <<b, k>> \in Places(m) <=> k \in 1..L
  BY PairIs
<1>5. \A c, k, d, j : <<c, k>> = <<d, j>> <=> c = d /\ k = j
  OBVIOUS
<1>6. IsFiniteSet(Places(m)) /\ m.count = Cardinality(Places(m)) /\ m.count \in Nat
  BY DEF Counted, MapOK
<1>7. ASSUME Len(list) = L, n.count = m.count PROVE Counted(n) /\ Places(n) = Places(m)
  <2>1. \A c, k : <<c, k>> \in Places(n) <=> <<c, k>> \in Places(m)
    BY <1>3, <1>4, <1>7
  <2>2. Places(n) = Places(m)
    BY <2>1, <1>2, SamePairs, Zenon
  <2> QED
    BY <2>2, <1>6, <1>7 DEF Counted
<1>8. ASSUME Len(list) = L + 1, n.count = m.count + 1 PROVE Counted(n)
  <2>1. \A k : k \in 1..L + 1 <=> k \in 1..L \/ k = L + 1
    BY <1>1
  <2>2. \A c, k : <<c, k>> \in Places(n) <=> <<c, k>> \in Places(m) \/ (c = b /\ k = L + 1)
    BY <2>1, <1>3, <1>4, <1>8
  <2>3. PICK T : T = Places(m) \cup {<<b, L + 1>>}
    OBVIOUS
  <2>4. \A c, k : <<c, k>> \in Places(n) <=> <<c, k>> \in T
    BY <2>2, <2>3, <1>5
  <2>7. \A q : q \in Places(n) \/ q \in T => \E c, k : q = <<c, k>>
    BY <2>3, <1>2
  <2>8. Places(n) = T
    BY <2>4, <2>7, SamePairs, Zenon
  <2>5. <<b, L + 1>> \notin Places(m)
    BY <1>1, <1>4
  <2>6. IsFiniteSet(Places(n)) /\ Cardinality(Places(n)) = Cardinality(Places(m)) + 1
    BY <2>3, <2>5, <2>8, <1>6, AddOne, Zenon
  <2> QED
    BY <2>6, <1>6, <1>8 DEF Counted
<1>9. ASSUME Len(list) = L - 1, n.count = m.count - 1 PROVE Counted(n)
  <2>1. L \in 1..L /\ \A k : k \in 1..L - 1 <=> k \in 1..L /\ k # L
    BY <1>1, <1>9
  <2>2. \A c, k : <<c, k>> \in Places(n) <=> <<c, k>> \in Places(m) /\ ~(c = b /\ k = L)
    BY <2>1, <1>3, <1>4, <1>9
  <2>3. PICK T : T = Places(m) \ {<<b, L>>}
    OBVIOUS
  <2>4. \A c, k : <<c, k>> \in Places(n) <=> <<c, k>> \in T
    BY <2>2, <2>3, <1>5
  <2>7. \A q : q \in Places(n) \/ q \in T => \E c, k : q = <<c, k>>
    BY <2>3, <1>2
  <2>8. Places(n) = T
    BY <2>4, <2>7, SamePairs, Zenon
  <2>5. <<b, L>> \in Places(m)
    BY <2>1, <1>4
  <2>6. IsFiniteSet(Places(n)) /\ Cardinality(Places(n)) = Cardinality(Places(m)) - 1
    <3>1. PICK S, x : S = Places(m) /\ x = <<b, L>>
      OBVIOUS
    <3>2. IsFiniteSet(S) /\ x \in S /\ T = S \ {x}
      BY <3>1, <2>3, <2>5, <1>6
    <3>3. IsFiniteSet(T) /\ Cardinality(T) = Cardinality(S) - 1
      BY <3>2, RemoveOne
    <3> QED
      BY <3>1, <3>3, <2>8
  <2> QED
    BY <2>6, <1>6, <1>9 DEF Counted
<1> QED
  BY <1>7, <1>8, <1>9

\* A rehash leaves a chain alone whose items all have key 0, or that has one item.
LEMMA UpdateList ==
    ASSUME NEW list \in Seq(Items), NEW b \in Nat, AllKeys(list, b), b = 0 \/ Len(list) <= 1
    PROVE  update_item_list(list) = list
<1> DEFINE matching == {k \in DOMAIN list : list[k].key.val # 0}
<1>1. DOMAIN list = 1..Len(list) /\ Len(list) \in Nat
  OBVIOUS
<1>2. CASE matching = {}
  BY <1>2 DEF update_item_list
<1>3. CASE matching # {}
  <2>1. PICK k \in 1..Len(list) : list[k].key.val # 0
    BY <1>1, <1>3
  <2>2. Len(list) = 1 /\ matching = {1}
    <3>1. b # 0
      BY <2>1 DEF AllKeys
    <3>2. Len(list) = 1 /\ k = 1
      BY <3>1, <2>1, <1>1
    <3> QED
      BY <3>2, <2>1, <1>1
  <2>3. Min({1}) = 1
    BY MinIs
  <2>4. SubSeq(list, 1, 1) = list
    BY <2>2
  <2> QED
    BY <2>2, <2>3, <2>4, <1>3 DEF update_item_list
<1> QED
  BY <1>2, <1>3

\* The chains of a table are left alone by a rehash.
Short(m) ==
    \A b \in 0..m.size-1 : AllKeys(m.items[b], b) /\ (b = 0 \/ Len(m.items[b]) <= 1)

\* What is left of a chain is a chain.
LEMMA UpdateType == ASSUME NEW list \in Seq(Items) PROVE update_item_list(list) \in Seq(Items)
<1> DEFINE matching == {k \in DOMAIN list : list[k].key.val # 0}
<1>1. DOMAIN list = 1..Len(list) /\ Len(list) \in Nat
  OBVIOUS
<1>2. CASE matching = {}
  BY <1>2 DEF update_item_list
<1>3. CASE matching # {}
  <2>1. matching \subseteq Nat /\ matching \subseteq 1..Len(list)
    BY <1>1
  <2>2. Min(matching) \in matching
    BY <2>1, <1>3, MinIs
  <2>3. PICK n \in 1..Len(list) : n = Min(matching)
    BY <2>1, <2>2
  <2>4. SubSeq(list, 1, n) \in Seq(Items)
    BY <1>1
  <2> QED
    BY <2>3, <2>4, <1>3 DEF update_item_list
<1> QED
  BY <1>2, <1>3

\* A rehash gives a table, with the chains it had if they are short.
LEMMA Rehashed ==
    ASSUME NEW m, MapOK(m), NEW ns \in Nat, ns >= m.size
    PROVE  /\ MapOK(hm_rehash(m, ns))
           /\ hm_rehash(m, ns).count = m.count /\ hm_rehash(m, ns).size = ns
           /\ Short(m) => \A b \in 0..m.size-1 : Extends(m, hm_rehash(m, ns), b, m.items[b])
<1> PICK r : r = hm_rehash(m, ns)
  OBVIOUS
<1>1. /\ r = [items |-> r.items, count |-> r.count, size |-> r.size]
      /\ r.size = ns /\ r.count = m.count
      /\ r.items = [b \in 0..ns-1 |->
                      IF b < m.size THEN update_item_list(m.items[b]) ELSE <<>>]
  BY DEF hm_rehash
<1>2. m.size \in Nat /\ m.count \in Nat /\ \A b \in 0..m.size-1 : m.items[b] \in Seq(Items)
  BY DEF MapOK
<1>3. ASSUME NEW b \in 0..ns-1
      PROVE  (IF b < m.size THEN update_item_list(m.items[b]) ELSE <<>>) \in Seq(Items)
  <2>1. CASE b < m.size
    BY <2>1, <1>2, UpdateType
  <2>2. CASE ~(b < m.size)
    BY <2>2
  <2> QED
    BY <2>1, <2>2
<1>4. MapOK(r)
  BY <1>1, <1>2, <1>3 DEF MapOK
<1>5. ASSUME Short(m), NEW b \in 0..m.size-1 PROVE Extends(m, r, b, m.items[b])
  <2>1. ASSUME NEW c \in 0..m.size-1 PROVE r.items[c] = m.items[c]
    <3>1. m.items[c] \in Seq(Items) /\ c \in Nat /\ AllKeys(m.items[c], c)
          /\ (c = 0 \/ Len(m.items[c]) <= 1)
      BY <1>2, <1>5 DEF Short
    <3>2. update_item_list(m.items[c]) = m.items[c]
      BY <3>1, UpdateList
    <3> QED
      BY <3>2, <1>1, <1>2
  <2>2. \A c \in m.size..r.size-1 : r.items[c] = <<>>
    BY <1>1, <1>2
  <2> QED
    BY <2>1, <2>2, <1>1, <1>4 DEF Extends
<1> QED
  BY <1>1, <1>4, <1>5

\* n is list with an item at its end, or with another value in its k-th item.
Appended(list, n, it) ==
    /\ n \in Seq(Items) /\ Len(n) = Len(list) + 1
    /\ \A j \in 1..Len(list) : n[j] = list[j]
    /\ n[Len(list) + 1] = it
Changed(list, n, k, value) ==
    /\ n \in Seq(Items) /\ Len(n) = Len(list)
    /\ \A j \in 1..Len(list) :
          n[j] = IF j = k THEN [key |-> list[k].key, value |-> value] ELSE list[j]

\* set_item adds an item at the end, or gives one another value.
LEMMA SetItemList ==
    ASSUME NEW list \in Seq(Items), NEW k \in 1..Len(list) + 1,
           NEW key \in Pointers(Pages), NEW value \in Pointers(Tags),
           NEW n, n = set_item(list, k, key, value)
    PROVE  /\ k > Len(list) => Appended(list, n, [key |-> key, value |-> value])
           /\ k <= Len(list) => Changed(list, n, k, value)
           /\ n \in Seq(Items)
<1>1. Len(list) \in Nat /\ [key |-> key, value |-> value] \in Items
  BY DEF Items
<1>2. CASE k > Len(list)
  <2>1. n = Append(list, [key |-> key, value |-> value])
    BY <1>2 DEF set_item
  <2> QED
    BY <2>1, <1>1, <1>2 DEF Appended
<1>3. CASE k <= Len(list)
  <2>1. n = [list EXCEPT ![k].value = value]
    BY <1>1, <1>3 DEF set_item
  <2>2. k \in 1..Len(list) /\ list[k] \in Items
    BY <1>3
  <2>3. [list[k] EXCEPT !.value = value] = [key |-> list[k].key, value |-> value]
    BY <2>2 DEF Items
  <2>4. n = [list EXCEPT ![k] = [key |-> list[k].key, value |-> value]]
    BY <2>1, <2>2, <2>3
  <2>5. [key |-> list[k].key, value |-> value] \in Items
    BY <2>2 DEF Items
  <2> QED
    BY <2>2, <2>4, <2>5, <1>1, <1>3 DEF Changed
<1> QED
  BY <1>1, <1>2, <1>3

\* The table before the rehash.
LEMMA SetItemIs ==
    ASSUME NEW m, MapOK(m), NEW b \in 0..m.size-1, NEW k \in 1..Len(m.items[b]) + 1,
           NEW key \in Pointers(Pages), NEW value \in Pointers(Tags)
    PROVE  /\ Extends(m, SetItem(m, b, k, key, value), b, set_item(m.items[b], k, key, value))
           /\ SetItem(m, b, k, key, value).size = m.size
           /\ SetItem(m, b, k, key, value).count =
                IF k > Len(m.items[b]) THEN m.count + 1 ELSE m.count
<1> PICK s : s = SetItem(m, b, k, key, value)
  OBVIOUS
<1> PICK list : list = set_item(m.items[b], k, key, value)
  OBVIOUS
<1>1. /\ m.size \in Nat /\ m.count \in Nat /\ m.items \in [0..m.size-1 -> Seq(Items)]
      /\ m = [items |-> m.items, count |-> m.count, size |-> m.size]
      /\ m.items[b] \in Seq(Items)
  BY DEF MapOK
<1>2. list \in Seq(Items)
  BY <1>1, SetItemList
<1>3. s = [items |-> [m.items EXCEPT ![b] = list],
           count |-> IF k > Len(m.items[b]) THEN m.count + 1 ELSE m.count, size |-> m.size]
  BY <1>1 DEF SetItem
<1>4. [m.items EXCEPT ![b] = list] \in [0..m.size-1 -> Seq(Items)]
  BY <1>1, <1>2
<1>5. /\ s.items = [m.items EXCEPT ![b] = list] /\ s.size = m.size
      /\ s.count = IF k > Len(m.items[b]) THEN m.count + 1 ELSE m.count
      /\ s = [items |-> s.items, count |-> s.count, size |-> s.size]
  BY <1>3
<1>6. MapOK(s)
  BY <1>1, <1>4, <1>5 DEF MapOK
<1>7. s.items[b] = list /\ \A c \in 0..m.size-1 : c # b => s.items[c] = m.items[c]
  BY <1>1, <1>5
<1> QED
  BY <1>1, <1>5, <1>6, <1>7 DEF Extends

\* The table n after the chain of b has become list, where s is the table before the
\* rehash.
IsSet(m, n, b, k, list, s) ==
    /\ MapOK(n) /\ n.size >= m.size
    /\ n.count = IF k > Len(m.items[b]) THEN m.count + 1 ELSE m.count
    /\ Counted(m) /\ Roomy(m) /\ (Overfull(s) => Short(s))
       => Extends(m, n, b, list) /\ Counted(n) /\ Roomy(n)

\* hm_set gives a table; the chains other than b stay what they are, if the table need
\* not grow or its chains are short.
LEMMA SetIs ==
    ASSUME NEW m, MapOK(m), NEW b \in 0..m.size-1, NEW k \in 1..Len(m.items[b]) + 1,
           NEW key \in Pointers(Pages), NEW value \in Pointers(Tags),
           NEW n, n = hm_set(m, b, k, key, value),
           NEW list, list = set_item(m.items[b], k, key, value),
           NEW s, s = SetItem(m, b, k, key, value)
    PROVE  IsSet(m, n, b, k, list, s)
<1>1. /\ Extends(m, s, b, list) /\ s.size = m.size
      /\ s.count = IF k > Len(m.items[b]) THEN m.count + 1 ELSE m.count
  BY SetItemIs
<1>2. /\ m.size \in Nat /\ m.count \in Nat /\ m.items[b] \in Seq(Items)
      /\ MapOK(s) /\ s.items[b] = list
  BY <1>1 DEF MapOK, Extends
<1>3. /\ list \in Seq(Items)
      /\ Len(list) = IF k > Len(m.items[b]) THEN Len(m.items[b]) + 1 ELSE Len(m.items[b])
  <2>1. /\ k > Len(m.items[b]) => Appended(m.items[b], list, [key |-> key, value |-> value])
        /\ k <= Len(m.items[b]) => Changed(m.items[b], list, k, value)
        /\ list \in Seq(Items)
    BY <1>2, SetItemList
  <2>2. Len(m.items[b]) \in Nat
    BY <1>2
  <2> QED
    BY <2>1, <2>2 DEF Appended, Changed
<1>4. Counted(m) => Counted(s)
  BY <1>1, <1>2, <1>3, ExtendCounts
<1>5. n = IF Overfull(s) THEN hm_rehash(s, next_size(s.size)) ELSE s
  BY DEF hm_set
<1>6. CASE ~Overfull(s)
  BY <1>1, <1>2, <1>4, <1>5, <1>6 DEF Overfull, Roomy, IsSet
<1>7. CASE Overfull(s)
  <2>1. PICK ns : ns = next_size(s.size)
    OBVIOUS
  <2>2. ns \in Nat /\ ns > s.size
    BY <2>1, <1>1, <1>2, NextSize
  <2>3. n = hm_rehash(s, ns)
    BY <2>1, <1>5, <1>7
  <2>4. MapOK(n) /\ n.count = s.count /\ n.size = ns
        /\ (Short(s) => \A c \in 0..s.size-1 : Extends(s, n, c, s.items[c]))
    BY <2>2, <2>3, <1>1, <1>2, Rehashed
  <2>5. ASSUME Counted(m), Roomy(m), Short(s)
        PROVE  Extends(m, n, b, list) /\ Counted(n) /\ Roomy(n)
    <3>1. Extends(s, n, b, list)
      BY <2>4, <2>5, <1>1, <1>2
    <3>2. Extends(m, n, b, list)
      BY <3>1, <2>2, <2>4, <1>1, <1>2 DEF Extends
    <3>3. Counted(n)
      BY <3>1, <2>4, <2>5, <1>1, <1>2, <1>3, <1>4, ExtendCounts
    <3>4. n.count <= n.size
      BY <2>2, <2>4, <2>5, <1>1, <1>2 DEF Roomy
    <3> QED
      BY <3>2, <3>3, <3>4 DEF Roomy
  <2> QED
    BY <2>2, <2>4, <2>5, <1>1, <1>2, <1>7 DEF IsSet
<1> QED
  BY <1>6, <1>7

\* Where a walk stops if the keys are on the heap: at the end in the chain of page 0, at
\* the head in any other.
LEMMA StopsAt ==
    ASSUME NEW list \in Seq(Items), NEW b \in Nat, ChainOK(list, b), HeapKeys(list),
           NEW k \in Stops(list)
    PROVE  k \in 1..Len(list) + 1 /\ (b = 0 => k = Len(list) + 1)
           /\ (b # 0 => k = 1 /\ Len(list) <= 1)
<1>1. Len(list) \in Nat /\ k \in 1..Len(list) + 1
  BY DEF Stops
<1>2. \A j \in 1..Len(list) : Reads(list[j].key, Pages) = {b}
  BY DEF ChainOK, AllKeys, HeapKeys, Reads
<1>3. CASE b = 0
  <2>1. k <= Len(list) => Reads(list[k].key, Pages) # {0}
    BY DEF Stops
  <2>2. ASSUME k <= Len(list) PROVE FALSE
    <3>1. k \in 1..Len(list)
      BY <2>2, <1>1
    <3> QED
      BY <3>1, <2>1, <2>2, <1>2, <1>3
  <2> QED
    BY <2>2, <1>1, <1>3
<1>4. CASE b # 0
  <2>1. Len(list) <= 1
    BY <1>4 DEF ChainOK
  <2>2. ASSUME k = 2 PROVE FALSE
    <3>0. PICK L \in Nat : L = Len(list)
      OBVIOUS
    <3>1. L = 1
      BY <3>0, <2>1, <2>2, <1>1
    <3>2. 0 \in Reads(list[1].key, Pages)
      BY <2>2 DEF Stops
    <3> QED
      BY <3>0, <3>1, <3>2, <1>2, <1>4
  <2> QED
    BY <2>1, <2>2, <1>1, <1>4
<1> QED
  BY <1>3, <1>4

\* r is p followed by q: p has m elements, the two have k.
IsJoin(r, p, q, m, k) ==
    /\ r \in Seq(Items) /\ Len(r) = k
    /\ \A j \in 1..k : r[j] = IF j <= m THEN p[j] ELSE q[j - m]

\* Concatenation.
LEMMA Joined ==
    ASSUME NEW p \in Seq(Items), NEW q \in Seq(Items), NEW r, r = p \o q
    PROVE  IsJoin(r, p, q, Len(p), Len(p) + Len(q))
BY ConcatProperties DEF IsJoin

\* r is list without its k-th item.
Without(list, r, k) ==
    /\ r \in Seq(Items) /\ Len(r) = Len(list) - 1
    /\ \A j \in 1..Len(list) - 1 : r[j] = IF j < k THEN list[j] ELSE list[j + 1]

\* An item less; the others stay what they are.
LEMMA RemoveAtIs ==
    ASSUME NEW list \in Seq(Items), NEW k \in 1..Len(list), NEW r, r = RemoveAt(list, k)
    PROVE  Without(list, r, k)
<1>p. PICK p : p = SubSeq(list, 1, k - 1)
  OBVIOUS
<1>q. PICK q : q = SubSeq(list, k + 1, Len(list))
  OBVIOUS
<1>1. p \in Seq(Items) /\ Len(p) = k - 1 /\ \A j \in 1..k - 1 : p[j] = list[j]
  BY <1>p
<1>2. /\ q \in Seq(Items) /\ Len(q) = Len(list) - k
      /\ \A j \in 1..Len(list) - k : q[j] = list[k + j]
  BY <1>q
<1>3. r = p \o q
  BY <1>p, <1>q DEF RemoveAt
<1>4. IsJoin(r, p, q, k - 1, Len(list) - 1)
  <2>1. IsJoin(r, p, q, Len(p), Len(p) + Len(q))
    BY <1>1, <1>2, <1>3, Joined
  <2>2. Len(p) + Len(q) = Len(list) - 1
    <3>1. Len(list) \in Nat /\ k \in Nat
      OBVIOUS
    <3>2. Len(p) = k - 1 /\ Len(q) = Len(list) - k
      BY <1>1, <1>2
    <3> QED
      BY <3>1, <3>2
  <2> QED
    BY <2>1, <2>2, <1>1
<1>5. r \in Seq(Items) /\ Len(r) = Len(list) - 1
  BY <1>4 DEF IsJoin
<1>6. ASSUME NEW j \in 1..Len(list) - 1 PROVE r[j] = IF j < k THEN list[j] ELSE list[j + 1]
  <2>1. r[j] = IF j <= k - 1 THEN p[j] ELSE q[j - (k - 1)]
    BY <1>4 DEF IsJoin
  <2>2. CASE j < k
    BY <2>1, <2>2, <1>1
  <2>3. CASE ~(j < k)
    <3>1. j - (k - 1) \in 1..Len(list) - k /\ k + (j - (k - 1)) = j + 1
      BY <2>3
    <3>2. q[j - (k - 1)] = list[j + 1]
      BY <3>1, <1>2
    <3> QED
      BY <3>2, <2>1, <2>3
  <2> QED
    BY <2>2, <2>3
<1> QED
  BY <1>5, <1>6 DEF Without

\* The pointers are of their types.
LEMMA PointerTypes ==
    /\ \A b \in Pages : Heap(b) \in Pointers(Pages) /\ Stack(b) \in Pointers(Pages)
    /\ \A t \in Tags : Heap(t) \in Pointers(Tags) /\ Stack(t) \in Pointers(Tags)
    /\ \A x : Heap(x).at = "heap" /\ Stack(x).at = "stack" /\ Heap(x).val = x /\ Stack(x).val = x
BY DEF Heap, Stack, Pointers

\* A chain stays in order when the key of its page is set: by createMap if its keys are
\* on the heap, and by CodecEncrypt in any case.
LEMMA ChainSet ==
    ASSUME NEW list \in Seq(Items), NEW b \in Pages, ChainOK(list, b), NEW k \in Stops(list),
           NEW key \in Pointers(Pages), key.val = b, key.at = "stack" \/ HeapKeys(list),
           NEW value \in Pointers(Tags)
    PROVE  ChainOK(set_item(list, k, key, value), b)
<1> PICK n : n = set_item(list, k, key, value)
  OBVIOUS
<1>1. Len(list) \in Nat /\ b \in Nat /\ k \in 1..Len(list) + 1
  BY Constants DEF Stops
<1>2. CASE k > Len(list)
  <2>0. Appended(list, n, [key |-> key, value |-> value])
    BY <1>1, <1>2, SetItemList
  <2>1. /\ n \in Seq(Items) /\ Len(n) = Len(list) + 1
        /\ \A j \in 1..Len(list) : n[j] = list[j]
        /\ n[Len(list) + 1] = [key |-> key, value |-> value]
    BY <2>0 DEF Appended
  <2>2. AllKeys(n, b)
    <3>1. ASSUME NEW j \in 1..Len(n) PROVE n[j].key.val = b
      <4>1. CASE j <= Len(list)
        BY <4>1, <2>1, <1>1 DEF ChainOK, AllKeys
      <4>2. CASE j = Len(list) + 1
        BY <4>2, <2>1
      <4> QED
        BY <4>1, <4>2, <2>1, <1>1
    <3> QED
      BY <3>1 DEF AllKeys
  <2>3. ASSUME b # 0, HeapKeys(n) PROVE Len(n) <= 1
    <3>1. n[Len(list) + 1].key.at = "heap"
      <4>1. Len(list) + 1 \in 1..Len(n)
        BY <2>1, <1>1
      <4> QED
        BY <4>1, <2>3 DEF HeapKeys
    <3>2. HeapKeys(list)
      BY <3>1, <2>1
    <3>3. k = 1
      BY <3>2, <2>3, <1>1, StopsAt
    <3> QED
      BY <3>3, <2>1, <1>1, <1>2
  <2> QED
    BY <2>2, <2>3 DEF ChainOK
<1>3. CASE k <= Len(list)
  <2>0. Changed(list, n, k, value)
    BY <1>1, <1>3, SetItemList
  <2>1. /\ n \in Seq(Items) /\ Len(n) = Len(list)
        /\ \A j \in 1..Len(list) :
              n[j] = IF j = k THEN [key |-> list[k].key, value |-> value] ELSE list[j]
    BY <2>0 DEF Changed
  <2>2. \A j \in 1..Len(list) : n[j].key = list[j].key
    BY <2>1
  <2> QED
    BY <2>1, <2>2 DEF ChainOK, AllKeys, HeapKeys
<1> QED
  BY <1>1, <1>2, <1>3

\* What createMap sets is on the heap.
LEMMA HeapSet ==
    ASSUME NEW list \in Seq(Items), OnHeap(list), NEW k \in Stops(list),
           NEW b \in Pages, NEW t \in Tags
    PROVE  OnHeap(set_item(list, k, Heap(b), Heap(t)))
<1> PICK n : n = set_item(list, k, Heap(b), Heap(t))
  OBVIOUS
<1>1. Len(list) \in Nat /\ k \in 1..Len(list) + 1
  BY DEF Stops
<1>2. Heap(b) \in Pointers(Pages) /\ Heap(t) \in Pointers(Tags) /\ Heap(b).at = "heap"
      /\ Heap(t).at = "heap"
  BY PointerTypes
<1>3. CASE k > Len(list)
  <2>0. Appended(list, n, [key |-> Heap(b), value |-> Heap(t)])
    BY <1>1, <1>2, <1>3, SetItemList
  <2>1. /\ Len(n) = Len(list) + 1
        /\ \A j \in 1..Len(list) : n[j] = list[j]
        /\ n[Len(list) + 1] = [key |-> Heap(b), value |-> Heap(t)]
    BY <2>0 DEF Appended
  <2>2. ASSUME NEW j \in 1..Len(n) PROVE n[j].key.at = "heap" /\ n[j].value.at = "heap"
    <3>1. CASE j <= Len(list)
      BY <3>1, <2>1, <1>1 DEF OnHeap
    <3>2. CASE j = Len(list) + 1
      BY <3>2, <2>1, <1>2
    <3> QED
      BY <3>1, <3>2, <2>1, <1>1
  <2> QED
    BY <2>2 DEF OnHeap
<1>4. CASE k <= Len(list)
  <2>0. Changed(list, n, k, Heap(t))
    BY <1>1, <1>2, <1>4, SetItemList
  <2>1. /\ Len(n) = Len(list)
        /\ \A j \in 1..Len(list) :
              n[j] = IF j = k THEN [key |-> list[k].key, value |-> Heap(t)] ELSE list[j]
    BY <2>0 DEF Changed
  <2>2. k \in 1..Len(list)
    BY <1>1, <1>4
  <2> QED
    BY <2>1, <2>2, <1>2 DEF OnHeap
<1> QED
  BY <1>1, <1>3, <1>4

\* The chain of a page with a tag that createMap gave it.
LEMMA EncodesIs ==
    ASSUME NEW list, NEW b \in Pages, b # 0, NEW t \in Tags \cup {NoTag}, Encodes(list, b, t)
    PROVE  /\ list \in Seq(Items) /\ Len(list) = IF t = NoTag THEN 0 ELSE 1
           /\ Stops(list) = {1}
           /\ t # NoTag => list[1] = [key |-> Heap(b), value |-> Heap(t)]
<1>1. CASE t = NoTag
  <2>1. list = <<>> /\ Len(list) = 0 /\ list \in Seq(Items)
    BY <1>1 DEF Encodes
  <2>2. Stops(list) = {1}
    BY <2>1 DEF Stops
  <2> QED
    BY <2>1, <2>2, <1>1
<1>2. CASE t # NoTag
  <2>1. [key |-> Heap(b), value |-> Heap(t)] \in Items
    BY <1>2, PointerTypes DEF Items
  <2>2. /\ list = <<[key |-> Heap(b), value |-> Heap(t)]>> /\ Len(list) = 1
        /\ list[1] = [key |-> Heap(b), value |-> Heap(t)] /\ list \in Seq(Items)
    BY <2>1, <1>2 DEF Encodes
  <2>3. Reads(list[1].key, Pages) = {b}
    BY <2>2, PointerTypes DEF Reads
  <2>4. ASSUME NEW k PROVE k \in Stops(list) <=> k = 1
    <3>1. k \in Stops(list) <=>
            /\ k \in 1..2
            /\ \A j \in 1..k-1 : 0 \in Reads(list[j].key, Pages)
            /\ k <= 1 => Reads(list[k].key, Pages) # {0}
      BY <2>2 DEF Stops
    <3>2. CASE k = 1
      BY <3>1, <3>2, <2>3
    <3>3. CASE k = 2
      <4>1. 1 \in 1..k-1
        BY <3>3
      <4> QED
        BY <4>1, <3>1, <3>3, <2>3
    <3> QED
      BY <3>1, <3>2, <3>3
  <2> QED
    BY <2>2, <2>4, <1>2
<1> QED
  BY <1>1, <1>2

\* createMap gives a page the tag of the record.
LEMMA EncodesSet ==
    ASSUME NEW list, NEW b \in Pages, b # 0, NEW t \in Tags \cup {NoTag}, Encodes(list, b, t),
           NEW k \in Stops(list), NEW u \in Tags
    PROVE  Encodes(set_item(list, k, Heap(b), Heap(u)), b, u)
<1>1. k = 1 /\ u # NoTag
  <2>1. Stops(list) = {1}
    BY EncodesIs
  <2> QED
    BY <2>1, Constants
<1>2. CASE t = NoTag
  <2>1. list = <<>> /\ Len(list) = 0
    BY <1>2 DEF Encodes
  <2>2. set_item(list, k, Heap(b), Heap(u)) = Append(<<>>, [key |-> Heap(b), value |-> Heap(u)])
    BY <2>1, <1>1 DEF set_item
  <2> QED
    BY <2>2, <1>1 DEF Encodes
<1>3. CASE t # NoTag
  <2>1. list = <<[key |-> Heap(b), value |-> Heap(t)]>> /\ Len(list) = 1
    BY <1>3 DEF Encodes
  <2>2. set_item(list, k, Heap(b), Heap(u)) = [list EXCEPT ![1].value = Heap(u)]
    BY <2>1, <1>1 DEF set_item
  <2>3. [list EXCEPT ![1].value = Heap(u)] = <<[key |-> Heap(b), value |-> Heap(u)]>>
    BY <2>1
  <2> QED
    BY <2>2, <2>3, <1>1 DEF Encodes
<1> QED
  BY <1>2, <1>3

-----------------------------------------------------------------------------
(***************************************************************************)
(* hm_set with pointers into the frame of CodecEncrypt.                    *)
(***************************************************************************)
Ordered(m, v) == MapOK(m) /\ ChainsOK(m) /\ Counted(m) /\ Roomy(m) /\ HeapBut(m, v)

\* Some key was in a frame that is gone before the call; no key in m is, but perhaps in
\* the chain of page 0.
StaleKeys == \E q \in Places(map) : Item(map, q).key.at = "stack"
FreshKeys(m) == \A b \in 1..m.size-1 : HeapKeys(m.items[b])

Causes == {"null", "index", "array", "key", "free"}

\* The table n after the tag of p is set, if no access was undefined.
SetSafely(m, n, v, p) ==
    /\ Ordered(n, v \cup {p})
    /\ \A w : Keeps(m, w, v) => Keeps(n, w, v \cup {p})
    /\ p = 0 /\ FreshKeys(m) => FreshKeys(n)

\* An outcome s of hm_set for p.
Outcome(m, s, v, p) ==
    /\ s = [map |-> s.map, wild |-> s.wild]
    /\ MapOK(s.map) /\ s.map.size >= m.size /\ s.map.count <= m.count + 1
    /\ s.wild \in SUBSET Causes
    /\ s.wild = {} => SetSafely(m, s.map, v, p)

\* A table that is left alone.
LEMMA SafelyNothing ==
    ASSUME NEW m, NEW v, Ordered(m, v), NEW p
    PROVE  SetSafely(m, m, v, p)
BY DEF SetSafely, Ordered, HeapBut, Keeps

\* A chain of p with something in it from the frame of CodecEncrypt.
LEMMA SafelyExtended ==
    ASSUME NEW m, NEW v, Ordered(m, v), NEW p \in Pages, p < m.size, NEW n, NEW list,
           Extends(m, n, p, list), ChainOK(list, p), Counted(n), Roomy(n)
    PROVE  SetSafely(m, n, v, p)
<1>1. /\ m.size \in Nat /\ p \in 0..m.size-1 /\ MapOK(m) /\ ChainsOK(m) /\ HeapBut(m, v)
      /\ MapOK(n) /\ n.size \in Nat
  BY Constants DEF Ordered, MapOK, Extends
<1>2. ChainsOK(n)
  BY <1>1, ExtendChains
<1>3. v \subseteq v \cup {p} /\ p \in v \cup {p}
  OBVIOUS
<1>4. HeapBut(n, v \cup {p})
  BY <1>1, <1>3, ExtendHeap
<1>5. ASSUME NEW w, Keeps(m, w, v) PROVE Keeps(n, w, v \cup {p})
  <2>1. p \in (v \cup {p}) \cup {0}
    OBVIOUS
  <2> QED
    BY <2>1, <1>1, <1>3, <1>5, ExtendKeeps
<1>6. ASSUME p = 0, FreshKeys(m) PROVE FreshKeys(n)
  <2>1. ASSUME NEW b \in 1..n.size-1 PROVE HeapKeys(n.items[b])
    <3>1. CASE b < m.size
      <4>1. b \in 0..m.size-1 /\ b # p /\ b \in 1..m.size-1
        BY <3>1, <1>1, <1>6
      <4>2. n.items[b] = m.items[b]
        BY <4>1 DEF Extends
      <4> QED
        BY <4>1, <4>2, <1>6 DEF FreshKeys
    <3>2. CASE b >= m.size
      <4>1. n.items[b] = <<>> /\ Len(<<>>) = 0
        BY <3>2, <1>1 DEF Extends
      <4> QED
        BY <4>1 DEF HeapKeys
    <3> QED
      BY <3>1, <3>2, <1>1
  <2> QED
    BY <2>1 DEF FreshKeys
<1> QED
  BY <1>1, <1>2, <1>4, <1>5, <1>6 DEF SetSafely, Ordered

\* If no key was stale, the chains are short when the table grows.
LEMMA ShortOnce ==
    ASSUME NEW m, NEW v, Ordered(m, v), FreshKeys(m), NEW p \in Pages, p < m.size,
           NEW k \in Stops(m.items[p]), k > Len(m.items[p]),
           NEW n, NEW list, Extends(m, n, p, list), n.size = m.size,
           ChainOK(list, p), Len(list) = Len(m.items[p]) + 1
    PROVE  Short(n)
<1>1. /\ m.size \in Nat /\ p \in 0..m.size-1 /\ ChainsOK(m) /\ p \in Nat
      /\ m.items \in [0..m.size-1 -> Seq(Items)]
  BY Constants DEF Ordered, MapOK
<1>2. ASSUME NEW b \in 0..m.size-1, b # p
      PROVE  AllKeys(n.items[b], b) /\ (b = 0 \/ Len(n.items[b]) <= 1)
  <2>1. n.items[b] = m.items[b] /\ ChainOK(m.items[b], b)
    BY <1>1, <1>2 DEF Extends, ChainsOK
  <2>2. b # 0 => HeapKeys(m.items[b])
    BY <1>1 DEF FreshKeys
  <2> QED
    BY <2>1, <2>2 DEF ChainOK
<1>3. AllKeys(n.items[p], p) /\ (p = 0 \/ Len(n.items[p]) <= 1)
  <2>1. n.items[p] = list /\ AllKeys(list, p)
    BY DEF Extends, ChainOK
  <2>2. ASSUME p # 0 PROVE Len(list) <= 1
    <3>1. m.items[p] \in Seq(Items) /\ ChainOK(m.items[p], p) /\ HeapKeys(m.items[p])
      BY <1>1, <2>2 DEF ChainsOK, FreshKeys
    <3>2. k = 1
      BY <3>1, <2>2, <1>1, StopsAt
    <3>3. Len(m.items[p]) \in Nat
      BY <3>1
    <3> QED
      BY <3>2, <3>3
  <2> QED
    BY <2>1, <2>2
<1> QED
  BY <1>2, <1>3 DEF Short

\* hm_set by CodecEncrypt: what it does to a table in order.
LEMMA StackSetIs ==
    ASSUME NEW m, NEW v, Ordered(m, v), ~StaleKeys => FreshKeys(m), NEW p \in Pages,
           NEW s, s = [map |-> m, wild |-> {}], NEW t \in StackSet(s, p)
    PROVE  Outcome(m, t, v, p)
<1> DEFINE list == m.items[p]
           new(k) == hm_set(m, p, k, Stack(p), Stack(ZeroTag))
           Bigger(k) == Overfull(SetItem(m, p, k, Stack(p), Stack(ZeroTag)))
           Went(k) == CASE k > Len(list) ->
                             {[map |-> new(k),
                               wild |-> IF Bigger(k) /\ StaleKeys THEN {"key"} ELSE {}]}
                        [] k <= Len(list) /\ list[k].value.at = "heap" ->
                             {[map |-> new(k), wild |-> {}]}
                        [] OTHER -> {s, [s EXCEPT !.wild = {"free"}]}
<1>1. s.map = m /\ s.wild = {}
  OBVIOUS
<1>2. t \in IF p >= m.size THEN {[s EXCEPT !.wild = {"index"}]} ELSE UNION {Went(k) : k \in Stops(list)}
  BY <1>1 DEF StackSet, hash, StaleKeys
<1>3. m.size \in Nat /\ m.count \in Nat /\ p \in Nat /\ MapOK(m) /\ Counted(m) /\ Roomy(m)
      /\ ChainsOK(m)
  BY Constants DEF Ordered, MapOK
<1>4. CASE p >= m.size
  <2>1. t = [map |-> m, wild |-> {"index"}]
    BY <1>2, <1>4
  <2>2. {"index"} \in SUBSET Causes /\ {"index"} # {}
    BY DEF Causes
  <2> QED
    BY <2>1, <2>2, <1>3 DEF Outcome
<1>5. CASE p < m.size
  <2>1. PICK k \in Stops(list) : t \in Went(k)
    BY <1>2, <1>3, <1>5
  <2>2. p \in 0..m.size-1 /\ list \in Seq(Items) /\ Len(list) \in Nat /\ ChainOK(list, p)
    BY <1>3, <1>5 DEF MapOK, ChainsOK
  <2>3. k \in 1..Len(list) + 1
    BY DEF Stops
  <2>4. PICK key \in Pointers(Pages) : key = Stack(p)
    BY PointerTypes
  <2>5. PICK value \in Pointers(Tags) : value = Stack(ZeroTag)
    BY PointerTypes, Constants
  <2>6. key.at = "stack" /\ key.val = p
    BY <2>4, PointerTypes
  <2>7. PICK l2 : l2 = set_item(list, k, key, value)
    OBVIOUS
  <2>8. ChainOK(l2, p)
    BY <2>2, <2>6, <2>7, ChainSet
  <2>9. PICK n : n = hm_set(m, p, k, key, value)
    OBVIOUS
  <2>10. PICK i1 : i1 = SetItem(m, p, k, key, value)
    OBVIOUS
  <2>11. /\ MapOK(n) /\ n.size >= m.size
         /\ n.count = IF k > Len(list) THEN m.count + 1 ELSE m.count
         /\ (Overfull(i1) => Short(i1)) => Extends(m, n, p, l2) /\ Counted(n) /\ Roomy(n)
    <3>1. IsSet(m, n, p, k, l2, i1)
      BY <2>2, <2>3, <2>7, <2>9, <2>10, <1>3, SetIs
    <3> QED
      BY <3>1, <1>3 DEF IsSet
  <2>12. (Overfull(i1) => Short(i1)) => SetSafely(m, n, v, p)
    BY <2>8, <2>11, <1>5, SafelyExtended
  <2>13. /\ Extends(m, i1, p, l2) /\ i1.size = m.size
         /\ i1.count = IF k > Len(list) THEN m.count + 1 ELSE m.count
    BY <2>2, <2>3, <2>7, <2>10, <1>3, SetItemIs
  <2>14. CASE k > Len(list)
    <3>1. PICK w : w = IF Overfull(i1) /\ StaleKeys THEN {"key"} ELSE {}
      OBVIOUS
    <3>2. t = [map |-> n, wild |-> w]
      <4>0. Went(k) =
              {[map |-> new(k), wild |-> IF Bigger(k) /\ StaleKeys THEN {"key"} ELSE {}]}
        <5>1. ~(k <= Len(list))
          BY <2>2, <2>3, <2>14
        <5> QED
          BY <5>1, <2>14, Zenon
      <4>1. t = [map |-> new(k), wild |-> IF Bigger(k) /\ StaleKeys THEN {"key"} ELSE {}]
        BY <4>0, <2>1, Zenon
      <4>2. new(k) = n /\ (Bigger(k) <=> Overfull(i1))
        BY <2>4, <2>5, <2>9, <2>10
      <4>3. (IF Bigger(k) /\ StaleKeys THEN {"key"} ELSE {}) = w
        BY <4>2, <3>1
      <4> QED
        BY <4>1, <4>2, <4>3
    <3>3. ASSUME w = {} PROVE SetSafely(m, n, v, p)
      <4>1. ASSUME Overfull(i1) PROVE Short(i1)
        <5>1. ~StaleKeys
          BY <4>1, <3>1, <3>3
        <5>2. Appended(list, l2, [key |-> key, value |-> value])
          BY <2>2, <2>3, <2>7, <2>14, SetItemList
        <5>3. Len(l2) = Len(list) + 1
          BY <5>2 DEF Appended
        <5> QED
          BY <5>1, <5>3, <2>8, <2>13, <2>14, <1>5, ShortOnce
      <4> QED
        BY <4>1, <2>12
    <3>4. w \in SUBSET Causes
      BY <3>1 DEF Causes
    <3>5. n.count <= m.count + 1
      BY <2>11, <2>14, <1>3
    <3>6. t.map = n /\ t.wild = w /\ t = [map |-> t.map, wild |-> t.wild]
      BY <3>2
    <3> QED
      BY <3>3, <3>4, <3>5, <3>6, <2>11 DEF Outcome
  <2>15. CASE k <= Len(list) /\ list[k].value.at = "heap"
    <3>1. ~(k > Len(list))
      BY <2>2, <2>3, <2>15
    <3>2. t = [map |-> n, wild |-> {}]
      BY <3>1, <2>1, <2>4, <2>5, <2>9, <2>15
    <3>3. ~Overfull(i1)
      BY <3>1, <2>13, <1>3 DEF Overfull, Roomy
    <3>4. SetSafely(m, n, v, p) /\ n.count <= m.count + 1
      BY <3>1, <3>3, <2>11, <2>12, <1>3
    <3>5. t.map = n /\ t.wild = {} /\ t = [map |-> t.map, wild |-> t.wild]
      BY <3>2
    <3> QED
      BY <3>4, <3>5, <2>11 DEF Outcome
  <2>16. CASE ~(k > Len(list)) /\ ~(k <= Len(list) /\ list[k].value.at = "heap")
    <3>1. t \in {s, [s EXCEPT !.wild = {"free"}]}
      BY <2>1, <2>16
    <3>2. t = [map |-> m, wild |-> {}] \/ t = [map |-> m, wild |-> {"free"}]
      BY <3>1
    <3>3. t.map = m /\ t.wild \in {{}, {"free"}} /\ t = [map |-> t.map, wild |-> t.wild]
      BY <3>2
    <3>4. t.wild \in SUBSET Causes
      BY <3>3 DEF Causes
    <3>5. SetSafely(m, m, v, p)
      BY SafelyNothing
    <3> QED
      BY <3>3, <3>4, <3>5, <1>3 DEF Outcome
  <2> QED
    BY <2>14, <2>15, <2>16
<1> QED
  BY <1>3, <1>4, <1>5

-----------------------------------------------------------------------------
(***************************************************************************)
(* The initial states and the steps.                                       *)
(***************************************************************************)

\* The state variables other than the map.
RestOK ==
    /\ log \in Seq(Records)
    /\ fd \in {"log", "torn", "error", "other"} /\ pc \in {"closed", "loading", "open", "dumping"}
    /\ i \in Nat /\ runs \in 0..MaxRuns /\ wild \in SUBSET Causes
    /\ want \in [Pages -> Tags \cup {NoTag}] /\ vague \subseteq Pages /\ faults \in 0..MaxFaults

\* The parts of the type invariant.
LEMMA TypeIs ==
    TypeOK <=> /\ MapOK(map) /\ map.count <= MaxItems + ArrayLen
               /\ left \subseteq Places(map) /\ RestOK
<1>1. MaxItems \in Nat /\ ArrayLen \in Nat
  BY Constants
<1> QED
  BY <1>1 DEF TypeOK, MapOK, RestOK, Causes

\* The same in the next state.
LEMMA TypeIsNext ==
    TypeOK' <=> /\ MapOK(map') /\ map'.count <= MaxItems + ArrayLen
                /\ left' \subseteq Places(map') /\ RestOK'
<1>1. MaxItems \in Nat /\ ArrayLen \in Nat
  BY Constants
<1> QED
  BY <1>1 DEF TypeOK, MapOK, RestOK, Causes

\* More chains may have pointers to a frame.
LEMMA HeapWeaker ==
    ASSUME NEW m, NEW v, NEW w, v \subseteq w, HeapBut(m, v) PROVE HeapBut(m, w)
BY DEF HeapBut

\* The invariant holds at the start.
LEMMA InitInv == Init => IInv
<1> SUFFICES ASSUME Init PROVE IInv
  OBVIOUS
<1>1. /\ map = Empty(0) /\ log \in Seq(Records) /\ fd = "error" /\ pc = "closed" /\ i = 0
      /\ runs = 0 /\ left = {} /\ wild = {} /\ want = LogTags(log) /\ vague = {} /\ faults = 0
  BY Constants DEF Init, NoMap
<1>2. MapOK(map) /\ ChainsOK(map) /\ Counted(map) /\ Roomy(map) /\ HeapBut(map, {})
      /\ map.count = 0
  BY <1>1, EmptyMap
<1>3. want \in [Pages -> Tags \cup {NoTag}] /\ \A p \in Pages : want[p] = TagUpTo(log, Len(log), p)
  BY <1>1, LogTagsIs
<1>4. TypeOK
  <2>1. RestOK
    BY <1>1, <1>3, Constants DEF RestOK
  <2>2. map.count <= MaxItems + ArrayLen
    BY <1>2, Constants
  <2> QED
    BY <2>1, <2>2, <1>1, <1>2, TypeIs
<1>5. SoundInv
  BY <1>1, <1>2 DEF SoundInv
<1>6. PlaceInv
  BY <1>1 DEF PlaceInv, NoMap
<1>7. Saved(log, want, vague)
  BY <1>3 DEF Saved
<1>8. TagInv
  BY <1>1, <1>7 DEF TagInv
<1>9. WildInv
  BY <1>1 DEF WildInv
<1> QED
  BY <1>4, <1>5, <1>6, <1>8, <1>9 DEF IInv

\* createMap makes an empty table, or finds no memory for one.
LEMMA CreateMapInv == IInv /\ createMap => IInv'
<1> SUFFICES ASSUME IInv, createMap PROVE IInv'
  OBVIOUS
<1>1. /\ MapOK(map) /\ map.count <= MaxItems + ArrayLen /\ left \subseteq Places(map) /\ RestOK
      /\ SoundInv /\ PlaceInv /\ TagInv
  BY TypeIs DEF IInv
<1>2. /\ pc = "closed" /\ wild = {} /\ runs < MaxRuns /\ runs' = runs + 1
      /\ fd' \in {"log", "error", "other"} /\ i' = 0
      /\ log' = log /\ left' = left /\ want' = want /\ vague' = vague
  BY DEF createMap
<1>3. map = Empty(0)
  BY <1>1, <1>2 DEF PlaceInv, NoMap
<1>4. left = {}
  BY <1>1, <1>3, EmptyMap
<1>5. faults \in 0..MaxFaults /\ runs \in 0..MaxRuns /\ log \in Seq(Records) /\ MaxRuns \in Nat
      /\ MaxFaults \in Nat
  BY <1>1, Constants DEF RestOK
<1>6. CASE map' = hm_create(AskedSize) /\ pc' = "loading" /\ Fails(fd' # "log") /\ wild' = wild
  <2>1. PICK N : N = next_size(AskedSize)
    OBVIOUS
  <2>2. N \in Nat /\ N > AskedSize
    BY <2>1, Constants, NextSize
  <2>3. map' = Empty(N)
    BY <2>1, <1>6 DEF hm_create
  <2>4. /\ MapOK(map') /\ ChainsOK(map') /\ Counted(map') /\ Roomy(map') /\ HeapBut(map', {})
        /\ map'.count = 0 /\ map'.size = N /\ \A b \in 0..N-1 : map'.items[b] = <<>>
    BY <2>2, <2>3, EmptyMap
  <2>5. faults' \in 0..MaxFaults /\ (faults' = 0 => fd' = "log" /\ faults = 0)
    BY <1>5, <1>6 DEF Fails
  <2>6. RestOK'
    BY <2>5, <1>1, <1>2, <1>5, <1>6 DEF RestOK
  <2>7. TypeOK'
    BY <2>4, <2>6, <1>2, <1>4, Constants, TypeIsNext
  <2>8. SoundInv'
    <3>1. HeapBut(map', vague')
      BY <2>4, HeapWeaker
    <3> QED
      BY <3>1, <2>4 DEF SoundInv
  <2>9. PlaceInv'
    BY <2>1, <2>2, <2>4, <1>2, <1>4, <1>6, Constants DEF PlaceInv
  <2>10. TagInv'
    <3>1. ASSUME faults' = 0
          PROVE  fd' = "log" /\ i' <= Len(log') /\ Saved(log', want', vague')
                 /\ Keeps(map', TagsUpTo(log', i'), {})
      <4>1. Saved(log, want, vague)
        BY <3>1, <2>5, <1>1, <1>2 DEF TagInv
      <4>2. \A p \in Pages : TagsUpTo(log', i')[p] = NoTag
        BY <1>2, TagNone DEF TagsUpTo
      <4>3. ASSUME NEW p \in Pages PROVE KeepsAt(map', TagsUpTo(log', i'), p)
        <5>1. p \in Nat
          BY Constants
        <5>2. p < N => map'.items[p] = <<>>
          BY <5>1, <2>2, <2>4
        <5> QED
          BY <5>2, <4>2, <2>4 DEF KeepsAt, Encodes
      <4>4. Keeps(map', TagsUpTo(log', i'), {})
        BY <4>3 DEF Keeps
      <4>5. i' <= Len(log')
        BY <1>2, <1>5
      <4> QED
        BY <4>1, <4>4, <4>5, <3>1, <2>5, <1>2
    <3> QED
      BY <3>1, <1>6 DEF TagInv
  <2>11. WildInv'
    BY <1>2, <1>6 DEF WildInv
  <2> QED
    BY <2>7, <2>8, <2>9, <2>10, <2>11 DEF IInv
<1>7. CASE wild' = {"null"} /\ Fails(TRUE) /\ map' = map /\ pc' = pc
  <2>1. faults' \in 0..MaxFaults /\ faults' # 0
    BY <1>5, <1>7 DEF Fails
  <2>2. RestOK'
    BY <2>1, <1>1, <1>2, <1>5, <1>7 DEF RestOK, Causes
  <2>3. TypeOK'
    BY <2>2, <1>1, <1>2, <1>7, TypeIsNext
  <2>4. SoundInv' /\ PlaceInv' /\ TagInv' /\ WildInv'
    BY <2>1, <1>1, <1>2, <1>7 DEF SoundInv, PlaceInv, TagInv, WildInv
  <2> QED
    BY <2>3, <2>4 DEF IInv
<1> QED
  BY <1>6, <1>7 DEF createMap

\* A record of the log becomes the tag of its page.
LEMMA LoadKeeps ==
    ASSUME NEW m, MapOK(m), NEW n, NEW b \in 0..m.size-1, b \in Pages, NEW k \in Stops(m.items[b]),
           NEW u \in Tags, NEW list, list = set_item(m.items[b], k, Heap(b), Heap(u)),
           Extends(m, n, b, list),
           NEW l \in Seq(Records), NEW j \in 0..Len(l)-1, l[j + 1] = [page |-> b, tag |-> u],
           Keeps(m, TagsUpTo(l, j), {})
    PROVE  Keeps(n, TagsUpTo(l, j + 1), {})
<1>1. j \in Nat /\ Len(l) \in Nat /\ j \in 0..Len(l) /\ m.size \in Nat /\ b \in Nat
  BY DEF MapOK
<1>2. \A p \in Pages : TagsUpTo(l, j + 1)[p] =
                         IF l[j + 1].page = p THEN l[j + 1].tag ELSE TagsUpTo(l, j)[p]
  BY <1>1, TagNext DEF TagsUpTo
<1>3. \A p \in Pages : p # b => TagsUpTo(l, j + 1)[p] = TagsUpTo(l, j)[p]
  BY <1>2
<1>4. TagsUpTo(l, j + 1)[b] = u
  BY <1>2
<1>5. ASSUME b # 0 PROVE Encodes(list, b, TagsUpTo(l, j + 1)[b])
  <2>1. TagsUpTo(l, j)[b] \in Tags \cup {NoTag}
    BY <1>1, TagType DEF TagsUpTo
  <2>2. KeepsAt(m, TagsUpTo(l, j), b)
    BY <1>5 DEF Keeps
  <2>3. Encodes(m.items[b], b, TagsUpTo(l, j)[b])
    BY <2>2, <1>1 DEF KeepsAt
  <2> QED
    BY <2>1, <2>3, <1>4, <1>5, EncodesSet
<1>6. b \in {} \cup {0} \/ Encodes(list, b, TagsUpTo(l, j + 1)[b])
  BY <1>5
<1> QED
  BY <1>3, <1>6, ExtendKeeps

\* The table m after createMap has set a record.
Loaded(m, n, v, r) ==
    /\ MapOK(n) /\ n.size >= m.size /\ n.count <= m.count + 1
    /\ Ordered(n, v) /\ HeapBut(n, {})
    /\ \A l \in Seq(Records) : \A j \in 0..Len(l)-1 :
          l[j + 1] = r /\ Keeps(m, TagsUpTo(l, j), {}) => Keeps(n, TagsUpTo(l, j + 1), {})

\* hm_set by createMap: what it does to a table whose pointers are all to the heap.
LEMMA LoadSet ==
    ASSUME NEW m, NEW v, Ordered(m, v), HeapBut(m, {}), NEW r \in Records, r.page < m.size,
           NEW k \in Stops(m.items[r.page]),
           NEW n, n = hm_set(m, r.page, k, Heap(r.page), Heap(r.tag))
    PROVE  Loaded(m, n, v, r)
<1>1. PICK b, u : b = r.page /\ u = r.tag
  OBVIOUS
<1>2. /\ m.size \in Nat /\ m.count \in Nat /\ b \in Nat /\ MapOK(m) /\ Counted(m) /\ Roomy(m)
      /\ ChainsOK(m) /\ b \in Pages /\ u \in Tags /\ r = [page |-> b, tag |-> u]
  BY <1>1, Constants DEF Ordered, MapOK, Records
<1>3. b \in 0..m.size-1 /\ m.items[b] \in Seq(Items) /\ Len(m.items[b]) \in Nat
      /\ ChainOK(m.items[b], b) /\ OnHeap(m.items[b])
  BY <1>1, <1>2 DEF MapOK, ChainsOK, HeapBut
<1>4. HeapKeys(m.items[b]) /\ FreshKeys(m)
  BY <1>2, <1>3 DEF OnHeap, HeapKeys, HeapBut, FreshKeys
<1>5. k \in Stops(m.items[b]) /\ k \in 1..Len(m.items[b]) + 1
  BY <1>1 DEF Stops
<1>6. PICK key \in Pointers(Pages), value \in Pointers(Tags) : key = Heap(b) /\ value = Heap(u)
  BY <1>2, PointerTypes
<1>7. key.val = b /\ key.at = "heap"
  BY <1>6, PointerTypes
<1>8. PICK list : list = set_item(m.items[b], k, key, value)
  OBVIOUS
<1>9. ChainOK(list, b) /\ OnHeap(list)
  <2>1. ChainOK(list, b)
    BY <1>2, <1>3, <1>4, <1>5, <1>7, <1>8, ChainSet
  <2>2. OnHeap(list)
    BY <1>2, <1>3, <1>5, <1>6, <1>8, HeapSet
  <2> QED
    BY <2>1, <2>2
<1>10. PICK s : s = SetItem(m, b, k, key, value)
  OBVIOUS
<1>11. n = hm_set(m, b, k, key, value)
  BY <1>1, <1>6
<1>12. IsSet(m, n, b, k, list, s)
  BY <1>2, <1>3, <1>5, <1>8, <1>10, <1>11, SetIs
<1>13. /\ Extends(m, s, b, list) /\ s.size = m.size
       /\ s.count = IF k > Len(m.items[b]) THEN m.count + 1 ELSE m.count
  BY <1>2, <1>3, <1>5, <1>8, <1>10, SetItemIs
<1>14. ASSUME Overfull(s) PROVE Short(s)
  <2>1. k > Len(m.items[b])
    BY <1>2, <1>13, <1>14 DEF Overfull, Roomy
  <2>2. Appended(m.items[b], list, [key |-> key, value |-> value])
    BY <2>1, <1>3, <1>5, <1>8, SetItemList
  <2>3. Len(list) = Len(m.items[b]) + 1
    BY <2>2 DEF Appended
  <2> QED
    BY <2>1, <2>3, <1>1, <1>2, <1>4, <1>5, <1>9, <1>13, ShortOnce
<1>15. Extends(m, n, b, list) /\ Counted(n) /\ Roomy(n) /\ MapOK(n) /\ n.size >= m.size
       /\ n.count <= m.count + 1
  BY <1>2, <1>12, <1>14 DEF IsSet
<1>16. ChainsOK(n)
  BY <1>2, <1>3, <1>9, <1>15, ExtendChains
<1>17. HeapBut(n, {}) /\ HeapBut(n, v)
  <2>1. HeapBut(n, {})
    BY <1>2, <1>3, <1>9, <1>15, ExtendHeap
  <2> QED
    BY <2>1, HeapWeaker
<1>18. ASSUME NEW l \in Seq(Records), NEW j \in 0..Len(l)-1, l[j + 1] = r,
              Keeps(m, TagsUpTo(l, j), {})
       PROVE  Keeps(n, TagsUpTo(l, j + 1), {})
  <2>1. list = set_item(m.items[b], k, Heap(b), Heap(u))
    BY <1>6, <1>8
  <2> QED
    BY <2>1, <1>2, <1>3, <1>5, <1>15, <1>18, LoadKeeps
<1> QED
  BY <1>15, <1>16, <1>17, <1>18 DEF Loaded, Ordered

\* A turn of createMap's loop that reads the record r.
LEMMA LoadRecordInv ==
    ASSUME IInv, pc = "loading", wild = {}, NEW r \in Reading, LoadRecord(r),
           pc' = pc, UNCHANGED <<log, fd, left, runs, want, vague>>
    PROVE  IInv'
<1>1. /\ MapOK(map) /\ map.count <= MaxItems + ArrayLen /\ left \subseteq Places(map) /\ RestOK
      /\ Ordered(map, vague) /\ HeapBut(map, {}) /\ map.count <= i /\ i < ArrayLen /\ left = {}
      /\ map.size >= next_size(AskedSize) /\ TagInv /\ PlaceInv
  BY TypeIs DEF IInv, SoundInv, PlaceInv, Ordered
<1>2. /\ i \in Nat /\ map.size \in Nat /\ map.count \in Nat /\ faults \in 0..MaxFaults
      /\ MaxFaults \in Nat /\ MaxItems \in Nat /\ ArrayLen \in Nat /\ log \in Seq(Records)
      /\ Len(log) \in Nat /\ next_size(AskedSize) \in Nat
  BY <1>1, Constants, NextSize DEF RestOK, MapOK
<1>3. /\ r \in Records
      /\ fd = "log" => i < Len(log) /\ r.page = log[i + 1].page /\ log[i + 1] \in Records
  <2>1. CASE fd = "error"
    <3>1. r = [page |-> 0, tag |-> ZeroTag]
      BY <2>1 DEF Reading
    <3> QED
      BY <3>1, <2>1, Constants DEF Records
  <2>2. CASE fd = "log" /\ i < Len(log)
    <3>1. r \in {log[i + 1], [log[i + 1] EXCEPT !.tag = ZeroTag]}
      BY <2>2 DEF Reading
    <3>2. log[i + 1] \in Records
      BY <2>2, <1>2
    <3> QED
      BY <3>1, <3>2, <2>2, Constants DEF Records
  <2> QED
    BY <2>1, <2>2 DEF Reading
<1>4. faults = 0 => fd = "log" /\ Saved(log, want, vague) /\ Keeps(map, TagsUpTo(log, i), {})
  BY <1>1 DEF TagInv
<1>5. r.page \in Nat /\ r.page \in Pages
  BY <1>3, Constants DEF Records
<1>6. CASE r.page >= map.size
  <2>1. wild' = {"index"} /\ map' = map /\ i' = i /\ faults' = faults
    BY <1>6 DEF LoadRecord, hash
  <2>2. TypeOK'
    <3>1. RestOK'
      BY <2>1, <1>1 DEF RestOK, Causes
    <3> QED
      BY <3>1, <2>1, <1>1, TypeIsNext
  <2>3. SoundInv' /\ PlaceInv' /\ TagInv'
    BY <2>1, <1>1 DEF SoundInv, PlaceInv, TagInv
  <2>4. WildInv'
    <3>1. ASSUME faults = 0 PROVE LongLog(log)
      <4>1. fd = "log"
        BY <3>1, <1>4
      <4>2. i + 1 \in 1..Len(log) /\ log[i + 1].page >= next_size(AskedSize)
        BY <4>1, <1>1, <1>2, <1>3, <1>5, <1>6
      <4> QED
        BY <4>2 DEF LongLog
    <3> QED
      BY <3>1, <2>1 DEF WildInv
  <2> QED
    BY <2>2, <2>3, <2>4 DEF IInv
<1>7. CASE r.page < map.size
  <2>1. PICK k \in Stops(map.items[r.page]) :
          \/ /\ i' = i + 1
             /\ map' = hm_set(map, r.page, k, Heap(r.page), Heap(r.tag))
             /\ wild' = IF i' >= ArrayLen THEN {"array"} ELSE {}
             /\ Fails(fd = "log" /\ r # log[i + 1])
          \/ /\ i' = i + 1 /\ wild' = IF i' >= ArrayLen THEN {"array"} ELSE {}
             /\ Fails(TRUE) /\ map' = map
          \/ i' = i + 1 /\ wild' = {"null"} /\ Fails(TRUE) /\ map' = map
    <3>1. ~(r.page >= map.size)
      BY <1>2, <1>5, <1>7
    <3> QED
      BY <3>1 DEF LoadRecord, hash
  <2>2. CASE /\ i' = i + 1
             /\ map' = hm_set(map, r.page, k, Heap(r.page), Heap(r.tag))
             /\ wild' = IF i' >= ArrayLen THEN {"array"} ELSE {}
             /\ Fails(fd = "log" /\ r # log[i + 1])
    <3>1. Loaded(map, map', vague, r)
      BY <2>2, <1>1, <1>3, <1>7, LoadSet
    <3>2. /\ MapOK(map') /\ map'.size >= map.size /\ map'.count <= map.count + 1
          /\ Ordered(map', vague) /\ HeapBut(map', {}) /\ map'.size \in Nat /\ map'.count \in Nat
      BY <3>1 DEF Loaded, MapOK
    <3>3. faults' \in 0..MaxFaults
          /\ (faults' = 0 => faults = 0 /\ (fd = "log" => r = log[i + 1]))
      BY <2>2, <1>2 DEF Fails
    <3>4. RestOK'
      BY <3>3, <2>2, <1>1, <1>2 DEF RestOK, Causes
    <3>5. map'.count <= MaxItems + ArrayLen /\ map'.count <= i'
      BY <3>2, <2>2, <1>1, <1>2
    <3>6. TypeOK'
      BY <3>2, <3>4, <3>5, <1>1, TypeIsNext
    <3>7. SoundInv'
      BY <3>2 DEF SoundInv, Ordered
    <3>8. PlaceInv'
      <4>1. map'.size >= next_size(AskedSize)
        BY <3>2, <1>1, <1>2
      <4>2. wild' = {} => i' < ArrayLen
        <5>1. wild' = {} => ~(i' >= ArrayLen)
          BY <2>2
        <5>2. i' \in Nat /\ ArrayLen \in Nat
          BY <2>2, <1>2
        <5> QED
          BY <5>1, <5>2
      <4> QED
        BY <4>1, <4>2, <3>2, <3>5, <1>1 DEF PlaceInv
    <3>9. TagInv'
      <4>1. ASSUME faults' = 0
            PROVE  fd = "log" /\ i' <= Len(log) /\ Saved(log, want, vague)
                   /\ Keeps(map', TagsUpTo(log, i'), {})
        <5>1. fd = "log" /\ i < Len(log) /\ r = log[i + 1] /\ i \in 0..Len(log)-1
          BY <4>1, <3>3, <1>2, <1>3, <1>4
        <5>2. Keeps(map', TagsUpTo(log, i + 1), {})
          BY <5>1, <4>1, <3>1, <3>3, <1>2, <1>4 DEF Loaded
        <5> QED
          BY <5>1, <5>2, <4>1, <3>3, <2>2, <1>2, <1>4
      <4> QED
        BY <4>1 DEF TagInv
    <3>10. WildInv'
      <4>1. ASSUME faults' = 0, wild' # {} PROVE LongLog(log)
        <5>1. fd = "log" /\ i < Len(log)
          BY <4>1, <3>3, <1>3, <1>4
        <5>2. Len(log) >= ArrayLen
          BY <5>1, <4>1, <2>2, <1>2
        <5> QED
          BY <5>2 DEF LongLog
      <4> QED
        BY <4>1 DEF WildInv
    <3> QED
      BY <3>6, <3>7, <3>8, <3>9, <3>10 DEF IInv
  <2>3. CASE /\ i' = i + 1 /\ wild' \in SUBSET Causes /\ (wild' = {} => i' < ArrayLen)
             /\ Fails(TRUE) /\ map' = map
    <3>1. faults' \in 0..MaxFaults /\ faults' # 0
      BY <2>3, <1>2 DEF Fails
    <3>2. RestOK'
      BY <3>1, <2>3, <1>1, <1>2 DEF RestOK
    <3>3. TypeOK'
      BY <3>2, <2>3, <1>1, TypeIsNext
    <3>4. SoundInv' /\ TagInv' /\ WildInv'
      BY <3>1, <2>3, <1>1 DEF SoundInv, TagInv, WildInv, Ordered
    <3>5. PlaceInv'
      BY <2>3, <1>1, <1>2 DEF PlaceInv
    <3> QED
      BY <3>3, <3>4, <3>5 DEF IInv
  <2>4. (i' = i + 1 /\ wild' = IF i' >= ArrayLen THEN {"array"} ELSE {})
        => wild' \in SUBSET Causes /\ (wild' = {} => i' < ArrayLen)
    BY <1>2 DEF Causes
  <2>5. wild' = {"null"} => wild' \in SUBSET Causes /\ wild' # {}
    BY DEF Causes
  <2> QED
    BY <2>1, <2>2, <2>3, <2>4, <2>5
<1> QED
  BY <1>2, <1>5, <1>6, <1>7

\* A turn of createMap's loop, or its end.
LEMMA LoadTurnInv == IInv /\ LoadTurn => IInv'
<1> SUFFICES ASSUME IInv, LoadTurn PROVE IInv'
  OBVIOUS
<1>1. pc = "loading" /\ wild = {} /\ UNCHANGED <<log, fd, left, runs, want, vague>>
  BY DEF LoadTurn
<1>2. CASE \E r \in Reading : LoadRecord(r) /\ UNCHANGED pc
  <2>1. PICK r \in Reading : LoadRecord(r) /\ UNCHANGED pc
    BY <1>2
  <2> QED
    BY <2>1, <1>1, LoadRecordInv
<1>3. CASE /\ fd # "error" /\ pc' = "open" /\ Fails(fd = "log" /\ i < Len(log))
           /\ UNCHANGED <<map, i, wild>>
  <2>1. /\ MapOK(map) /\ map.count <= MaxItems + ArrayLen /\ left \subseteq Places(map) /\ RestOK
        /\ SoundInv /\ PlaceInv /\ TagInv /\ log \in Seq(Records) /\ Len(log) \in Nat /\ i \in Nat
        /\ faults \in 0..MaxFaults /\ MaxFaults \in Nat
    BY TypeIs, Constants DEF IInv, RestOK
  <2>2. faults' \in 0..MaxFaults /\ (faults' = 0 => faults = 0 /\ ~(fd = "log" /\ i < Len(log)))
    BY <2>1, <1>3 DEF Fails
  <2>3. RestOK'
    BY <2>1, <2>2, <1>1, <1>3 DEF RestOK
  <2>4. TypeOK'
    BY <2>1, <2>3, <1>1, <1>3, TypeIsNext
  <2>5. SoundInv' /\ PlaceInv' /\ WildInv'
    BY <2>1, <1>1, <1>3 DEF SoundInv, PlaceInv, WildInv
  <2>6. TagInv'
    <3>1. ASSUME faults' = 0 PROVE Keeps(map, want, vague)
      <4>1. /\ fd = "log" /\ i <= Len(log) /\ Saved(log, want, vague)
            /\ Keeps(map, TagsUpTo(log, i), {})
        BY <3>1, <2>1, <2>2, <1>1 DEF TagInv
      <4>2. i = Len(log)
        BY <4>1, <3>1, <2>1, <2>2
      <4>3. ASSUME NEW p \in Pages, p \notin vague, p # 0 PROVE KeepsAt(map, want, p)
        <5>1. TagsUpTo(log, i)[p] = want[p]
          BY <4>1, <4>2, <4>3 DEF Saved, TagsUpTo
        <5>2. KeepsAt(map, TagsUpTo(log, i), p)
          BY <4>1, <4>3 DEF Keeps
        <5> QED
          BY <5>1, <5>2 DEF KeepsAt
      <4> QED
        BY <4>3 DEF Keeps
    <3> QED
      BY <3>1, <1>1, <1>3 DEF TagInv
  <2> QED
    BY <2>4, <2>5, <2>6 DEF IInv
<1> QED
  BY <1>2, <1>3 DEF LoadTurn

\* CodecEncrypt's calls of hm_set, from a table in order.
LEMMA EncryptOutcome ==
    ASSUME Ordered(map, vague), NEW p \in Pages, p # 0, NEW s, s = [map |-> map, wild |-> {}],
           NEW s1 \in (IF p = 1 THEN StackSet(s, 0) ELSE {s}), NEW s2 \in StackSet(s1, p),
           NEW v2, v2 = vague \cup {p} \cup (IF p = 1 THEN {0} ELSE {})
    PROVE  /\ MapOK(s2.map) /\ s2.map.size >= map.size /\ s2.map.count <= map.count + 2
           /\ s2.wild \in SUBSET Causes
           /\ s2.wild = {} => Ordered(s2.map, v2)
           /\ s2.wild = {} => \A w : Keeps(map, w, vague) => Keeps(s2.map, w, v2)
<1>1. map.size \in Nat /\ map.count \in Nat /\ MapOK(map) /\ ChainsOK(map)
      /\ \A b \in 0..map.size-1 : map.items[b] \in Seq(Items)
  BY DEF Ordered, MapOK
<1>2. ~StaleKeys => FreshKeys(map)
  <2>1. ASSUME ~StaleKeys, NEW b \in 1..map.size-1, NEW k \in 1..Len(map.items[b])
        PROVE  map.items[b][k].key.at = "heap"
    <3>1. b \in 0..map.size-1
      BY <1>1
    <3>2. <<b, k>> \in Places(map)
      BY <3>1, PairIs
    <3>3. map.items[b][k].key.at # "stack"
      BY <3>2, <2>1 DEF StaleKeys, Item
    <3>4. map.items[b][k] \in Items
      BY <3>1, <1>1
    <3> QED
      BY <3>3, <3>4 DEF Items, Pointers
  <2> QED
    BY <2>1 DEF FreshKeys, HeapKeys
<1>3. CASE p # 1
  <2>1. s1 = s /\ v2 = vague \cup {p}
    BY <1>3
  <2>2. Outcome(map, s2, vague, p)
    BY <2>1, <1>2, StackSetIs
  <2>3. s2.map.count \in Nat /\ s2.map.count <= map.count + 2
    BY <2>2, <1>1 DEF Outcome, MapOK
  <2> QED
    BY <2>1, <2>2, <2>3 DEF Outcome, SetSafely
<1>4. CASE p = 1
  <2>1. s1 \in StackSet(s, 0) /\ v2 = (vague \cup {0}) \cup {p} /\ 0 \in Pages
    BY <1>4, Constants
  <2>2. Outcome(map, s1, vague, 0)
    BY <2>1, <1>2, StackSetIs
  <2>3. PICK m : m = s1.map
    OBVIOUS
  <2>4. /\ MapOK(m) /\ m.size >= map.size /\ m.count <= map.count + 1 /\ s1.wild \in SUBSET Causes
        /\ m.size \in Nat /\ m.count \in Nat
        /\ s1 = [map |-> m, wild |-> s1.wild]
        /\ s1.wild = {} => SetSafely(map, m, vague, 0)
    BY <2>2, <2>3 DEF Outcome, MapOK
  <2>5. CASE s1.wild # {}
    <3>1. s2 = s1
      BY <2>5 DEF StackSet
    <3> QED
      BY <3>1, <2>3, <2>4, <2>5, <1>1
  <2>6. CASE s1.wild = {}
    <3>1. Ordered(m, vague \cup {0}) /\ (~StaleKeys => FreshKeys(m))
          /\ \A w : Keeps(map, w, vague) => Keeps(m, w, vague \cup {0})
      BY <2>4, <2>6, <1>2 DEF SetSafely
    <3>2. s1 = [map |-> m, wild |-> {}]
      BY <2>4, <2>6
    <3>3. Outcome(m, s2, vague \cup {0}, p)
      BY <3>1, <3>2, StackSetIs
    <3>4. /\ MapOK(s2.map) /\ s2.map.size >= m.size /\ s2.map.count <= m.count + 1
          /\ s2.map.size \in Nat /\ s2.map.count \in Nat
          /\ s2.wild \in SUBSET Causes
          /\ s2.wild = {} => SetSafely(m, s2.map, vague \cup {0}, p)
      BY <3>3 DEF Outcome, MapOK
    <3>5. s2.map.size >= map.size /\ s2.map.count <= map.count + 2
      BY <3>4, <2>4, <1>1
    <3>6. s2.wild = {} => Ordered(s2.map, v2)
      BY <3>4, <2>1 DEF SetSafely
    <3>7. s2.wild = {} => \A w : Keeps(map, w, vague) => Keeps(s2.map, w, v2)
      BY <3>1, <3>4, <2>1 DEF SetSafely
    <3> QED
      BY <3>4, <3>5, <3>6, <3>7
  <2> QED
    BY <2>5, <2>6
<1> QED
  BY <1>3, <1>4

\* CodecEncrypt puts the addresses of its frame into the table.
LEMMA CodecEncryptInv == ASSUME IInv, NEW p \in Pages, CodecEncrypt(p) PROVE IInv'
<1>1. /\ MapOK(map) /\ map.count <= MaxItems + ArrayLen /\ left \subseteq Places(map) /\ RestOK
      /\ SoundInv /\ PlaceInv /\ TagInv /\ MaxItems \in Nat /\ ArrayLen \in Nat
      /\ map.size \in Nat /\ map.count \in Nat /\ next_size(AskedSize) \in Nat
  BY TypeIs, Constants, NextSize DEF IInv, MapOK
<1>2. PICK s : s = [map |-> map, wild |-> {}]
  OBVIOUS
<1>3. /\ pc = "open" /\ wild = {} /\ p # 0 /\ map.count + 2 <= MaxItems
      /\ vague' = vague \cup {p} \cup (IF p = 1 THEN {0} ELSE {})
      /\ log' = log /\ fd' = fd /\ pc' = pc /\ i' = i /\ left' = left /\ runs' = runs
      /\ want' = want /\ faults' = faults
  BY DEF CodecEncrypt
<1>4. PICK s1 \in (IF p = 1 THEN StackSet(s, 0) ELSE {s}) : \E s2 \in StackSet(s1, p) :
        map' = s2.map /\ wild' = s2.wild
  BY <1>2 DEF CodecEncrypt
<1>5. PICK s2 \in StackSet(s1, p) : map' = s2.map /\ wild' = s2.wild
  BY <1>4
<1>6. Ordered(map, vague) /\ left = {}
  BY <1>1, <1>3 DEF SoundInv, Ordered, PlaceInv
<1>7. /\ MapOK(map') /\ map'.size >= map.size /\ map'.count <= map.count + 2
      /\ wild' \in SUBSET Causes
      /\ wild' = {} => Ordered(map', vague')
      /\ wild' = {} => \A w : Keeps(map, w, vague) => Keeps(map', w, vague')
  <2>1. PICK v2 : v2 = vague \cup {p} \cup (IF p = 1 THEN {0} ELSE {})
    OBVIOUS
  <2>2. /\ MapOK(s2.map) /\ s2.map.size >= map.size /\ s2.map.count <= map.count + 2
        /\ s2.wild \in SUBSET Causes
        /\ s2.wild = {} => Ordered(s2.map, v2)
        /\ s2.wild = {} => \A w : Keeps(map, w, vague) => Keeps(s2.map, w, v2)
    BY <2>1, <1>2, <1>3, <1>6, EncryptOutcome
  <2>3. v2 = vague'
    BY <2>1, <1>3
  <2> QED
    BY <2>2, <2>3, <1>5
<1>8. map'.size \in Nat /\ map'.count \in Nat /\ vague' \subseteq Pages /\ vague' # {}
  BY <1>1, <1>3, <1>7, Constants DEF MapOK, RestOK
<1>9. TypeOK'
  <2>1. RestOK'
    BY <1>1, <1>3, <1>7, <1>8 DEF RestOK
  <2>2. map'.count <= MaxItems + ArrayLen
    BY <1>1, <1>3, <1>7, <1>8
  <2> QED
    BY <2>1, <2>2, <1>3, <1>6, <1>7, TypeIsNext
<1>10. SoundInv'
  BY <1>7 DEF SoundInv, Ordered
<1>11. PlaceInv'
  <2>1. map'.size >= next_size(AskedSize)
    BY <1>1, <1>3, <1>7, <1>8 DEF PlaceInv
  <2> QED
    BY <2>1, <1>3, <1>6 DEF PlaceInv
<1>12. TagInv'
  BY <1>1, <1>3, <1>7 DEF TagInv
<1>13. WildInv'
  BY <1>8 DEF WildInv
<1> QED
  BY <1>9, <1>10, <1>11, <1>12, <1>13 DEF IInv

\* A chain without one of its items.
LEMMA ChainRemove ==
    ASSUME NEW list \in Seq(Items), NEW b \in Nat, ChainOK(list, b), NEW k \in 1..Len(list),
           NEW n, n = RemoveAt(list, k)
    PROVE  /\ list[k].key.at = "heap" => ChainOK(n, b)
           /\ OnHeap(list) => OnHeap(n)
<1>1. /\ n \in Seq(Items) /\ Len(n) = Len(list) - 1 /\ Len(list) \in Nat
      /\ \A j \in 1..Len(list) - 1 : n[j] = IF j < k THEN list[j] ELSE list[j + 1]
  <2>1. Without(list, n, k)
    BY RemoveAtIs
  <2> QED
    BY <2>1 DEF Without
<1>2. ASSUME NEW j \in 1..Len(n)
      PROVE  \E h \in 1..Len(list) : n[j] = list[h]
  BY <1>1
<1>3. OnHeap(list) => OnHeap(n)
  BY <1>2 DEF OnHeap
<1>4. AllKeys(n, b)
  BY <1>2 DEF ChainOK, AllKeys
<1>5. ASSUME list[k].key.at = "heap", b # 0, HeapKeys(n) PROVE Len(n) <= 1
  <2>1. ASSUME NEW h \in 1..Len(list) PROVE list[h].key.at = "heap"
    <3>1. CASE h = k
      BY <3>1, <1>5
    <3>2. CASE h < k
      <4>1. h \in 1..Len(n) /\ n[h] = list[h]
        BY <3>2, <1>1
      <4> QED
        BY <4>1, <1>5 DEF HeapKeys
    <3>3. CASE h > k
      <4>1. h - 1 \in 1..Len(list) - 1 /\ ~(h - 1 < k) /\ (h - 1) + 1 = h
        BY <3>3, <1>1
      <4>2. h - 1 \in 1..Len(n) /\ n[h - 1] = list[h]
        BY <4>1, <1>1
      <4> QED
        BY <4>2, <1>5 DEF HeapKeys
    <3> QED
      BY <3>1, <3>2, <3>3, <1>1
  <2>2. Len(list) <= 1
    BY <2>1, <1>5 DEF ChainOK, HeapKeys
  <2> QED
    BY <2>2, <1>1
<1> QED
  BY <1>3, <1>4, <1>5 DEF ChainOK

\* remove_item takes one item out of its chain, and out of the count.
LEMMA RemoveItemIs ==
    ASSUME NEW m, MapOK(m), Counted(m), NEW b \in 0..m.size-1, NEW k \in 1..Len(m.items[b]),
           NEW list, list = RemoveAt(m.items[b], k), NEW n, n = RemoveItem(m, b, k)
    PROVE  Extends(m, n, b, list) /\ Counted(n) /\ n.size = m.size /\ n.count = m.count - 1
<1>1. /\ m.size \in Nat /\ m.count \in Nat /\ m.items \in [0..m.size-1 -> Seq(Items)]
      /\ m = [items |-> m.items, count |-> m.count, size |-> m.size]
      /\ m.items[b] \in Seq(Items)
  BY DEF MapOK
<1>2. list \in Seq(Items) /\ Len(list) = Len(m.items[b]) - 1
  BY <1>1, RemoveAtIs DEF Without
<1>3. m.count # 0
  <2>1. <<b, k>> \in Places(m)
    BY PairIs
  <2> QED
    BY <2>1, FS_EmptySet DEF Counted
<1>4. n = [items |-> [m.items EXCEPT ![b] = list], count |-> m.count - 1, size |-> m.size]
  BY <1>1 DEF RemoveItem
<1>5. [m.items EXCEPT ![b] = list] \in [0..m.size-1 -> Seq(Items)]
  BY <1>1, <1>2
<1>6. /\ n.items = [m.items EXCEPT ![b] = list] /\ n.size = m.size /\ n.count = m.count - 1
      /\ n = [items |-> n.items, count |-> n.count, size |-> n.size] /\ n.count \in Nat
  BY <1>1, <1>3, <1>4
<1>7. MapOK(n)
  BY <1>1, <1>5, <1>6 DEF MapOK
<1>8. n.items[b] = list /\ \A c \in 0..m.size-1 : c # b => n.items[c] = m.items[c]
  BY <1>1, <1>6
<1>9. Extends(m, n, b, list)
  BY <1>1, <1>6, <1>7, <1>8 DEF Extends
<1>10. Counted(n)
  <2>1. Len(list) = Len(m.items[b]) - 1 /\ n.count = m.count - 1 => Counted(n)
    BY <1>2, <1>9, ExtendCounts, Zenon
  <2> QED
    BY <2>1, <1>2, <1>6
<1> QED
  BY <1>6, <1>9, <1>10

\* hm_unset frees an item that is on the heap, or a part of the stack.
LEMMA UnsetInv == ASSUME IInv, NEW p \in Pages, hm_unset(p) PROVE IInv'
<1>1. /\ MapOK(map) /\ map.count <= MaxItems + ArrayLen /\ left \subseteq Places(map) /\ RestOK
      /\ SoundInv /\ PlaceInv /\ TagInv /\ MaxItems \in Nat /\ ArrayLen \in Nat
      /\ map.size \in Nat /\ map.count \in Nat /\ p \in Nat
      /\ want \in [Pages -> Tags \cup {NoTag}]
  BY TypeIs, Constants DEF IInv, MapOK, RestOK
<1>2. PICK list : list = map.items[p]
  OBVIOUS
<1>3. /\ pc = "open" /\ wild = {} /\ p < map.size /\ want' = [want EXCEPT ![p] = NoTag]
      /\ log' = log /\ fd' = fd /\ pc' = pc /\ i' = i /\ left' = left /\ runs' = runs
      /\ vague' = vague /\ faults' = faults
  BY DEF hm_unset
<1>4. PICK k \in Stops(list) : /\ k <= Len(list) /\ map' = RemoveItem(map, p, k)
                               /\ wild' = IF remove_items(<<list[k]>>) THEN {"free"} ELSE {}
  BY <1>2 DEF hm_unset, hash
<1>5. /\ ChainsOK(map) /\ Counted(map) /\ Roomy(map) /\ HeapBut(map, vague) /\ left = {}
      /\ p \in 0..map.size-1 /\ list \in Seq(Items) /\ ChainOK(list, p) /\ Len(list) \in Nat
  BY <1>1, <1>2, <1>3 DEF SoundInv, PlaceInv, MapOK, ChainsOK
<1>6. k \in 1..Len(list)
  BY <1>4, <1>5 DEF Stops
<1>7. PICK l2 : l2 = RemoveAt(list, k)
  OBVIOUS
<1>8. Extends(map, map', p, l2) /\ Counted(map') /\ map'.size = map.size
      /\ map'.count = map.count - 1 /\ MapOK(map')
  <2>1. Extends(map, map', p, l2) /\ Counted(map') /\ map'.size = map.size
        /\ map'.count = map.count - 1
    BY <1>1, <1>2, <1>4, <1>5, <1>6, <1>7, RemoveItemIs
  <2> QED
    BY <2>1 DEF Extends
<1>9. remove_items(<<list[k]>>) <=> list[k].key.at = "stack" \/ list[k].value.at = "stack"
  BY DEF remove_items
<1>10. list[k] \in Items
  BY <1>5, <1>6
<1>11. wild' = {} => list[k].key.at = "heap"
  BY <1>4, <1>9, <1>10 DEF Items, Pointers
<1>12. TypeOK'
  <2>1. wild' \in SUBSET Causes
    BY <1>4 DEF Causes
  <2>2. want' \in [Pages -> Tags \cup {NoTag}]
    BY <1>1, <1>3
  <2>3. RestOK'
    BY <2>1, <2>2, <1>1, <1>3 DEF RestOK
  <2>4. map'.count <= MaxItems + ArrayLen
    BY <1>1, <1>8
  <2> QED
    BY <2>3, <2>4, <1>3, <1>5, <1>8, TypeIsNext
<1>13. SoundInv'
  <2> SUFFICES ASSUME wild' = {}
               PROVE  ChainsOK(map') /\ Counted(map') /\ Roomy(map') /\ HeapBut(map', vague')
    BY DEF SoundInv
  <2>1. ChainOK(l2, p) /\ (OnHeap(list) => OnHeap(l2))
    BY <1>1, <1>5, <1>6, <1>7, <1>11, ChainRemove
  <2>2. ChainsOK(map')
    BY <2>1, <1>1, <1>5, <1>8, ExtendChains
  <2>3. p \in vague \/ OnHeap(l2)
    BY <2>1, <1>2, <1>5 DEF HeapBut
  <2>4. HeapBut(map', vague)
    BY <2>3, <1>1, <1>5, <1>8, ExtendHeap
  <2>5. Roomy(map')
    BY <1>1, <1>5, <1>8 DEF Roomy
  <2> QED
    BY <2>2, <2>4, <2>5, <1>3, <1>8
<1>14. PlaceInv'
  BY <1>1, <1>3, <1>5, <1>8 DEF PlaceInv
<1>15. TagInv'
  <2> SUFFICES ASSUME faults = 0 PROVE Keeps(map', want', vague)
    BY <1>3 DEF TagInv
  <2>1. Keeps(map, want, vague)
    BY <1>1, <1>3 DEF TagInv
  <2>2. \A q \in Pages : q # p => want'[q] = want[q]
    BY <1>1, <1>3
  <2>3. ASSUME p \notin vague \cup {0} PROVE Encodes(l2, p, want'[p])
    <3>1. KeepsAt(map, want, p)
      BY <2>1, <2>3 DEF Keeps
    <3>2. Encodes(list, p, want[p]) /\ want[p] \in Tags \cup {NoTag}
      BY <3>1, <1>1, <1>2, <1>3 DEF KeepsAt
    <3>3. Len(list) = IF want[p] = NoTag THEN 0 ELSE 1
      BY <3>2, <2>3, EncodesIs
    <3>4. l2 \in Seq(Items) /\ Len(l2) = Len(list) - 1
      BY <1>5, <1>6, <1>7, RemoveAtIs DEF Without
    <3>5. Len(l2) = 0
      BY <3>3, <3>4, <1>5, <1>6
    <3>6. l2 = <<>> /\ want'[p] = NoTag
      BY <3>4, <3>5, <1>1, <1>3
    <3> QED
      BY <3>6 DEF Encodes
  <2>4. vague \subseteq vague /\ (p \in vague \cup {0} \/ Encodes(l2, p, want'[p]))
    BY <2>3
  <2> QED
    BY <2>1, <2>2, <2>4, <1>1, <1>5, <1>8, ExtendKeeps
<1>16. WildInv'
  <2>1. ASSUME vague = {} PROVE wild' = {}
    <3>1. OnHeap(list)
      BY <2>1, <1>2, <1>5 DEF HeapBut
    <3>2. ~remove_items(<<list[k]>>)
      BY <3>1, <1>6, <1>9 DEF OnHeap
    <3> QED
      BY <3>2, <1>4
  <2> QED
    BY <2>1, <1>3 DEF WildInv
<1> QED
  BY <1>12, <1>13, <1>14, <1>15, <1>16 DEF IInv

\* closeMap empties the log, and has every item to dump.
LEMMA CloseMapInv == IInv /\ closeMap => IInv'
<1> SUFFICES ASSUME IInv, closeMap PROVE IInv'
  OBVIOUS
<1>1. /\ MapOK(map) /\ map.count <= MaxItems + ArrayLen /\ RestOK /\ SoundInv /\ PlaceInv /\ TagInv
      /\ faults \in 0..MaxFaults /\ MaxFaults \in Nat /\ log \in Seq(Records)
  BY TypeIs, Constants DEF IInv, RestOK
<1>2. /\ pc = "open" /\ wild = {} /\ fd' \in {"log", "error", "other"} /\ left' = Places(map)
      /\ log' = (IF fd' = "log" THEN <<>> ELSE log) /\ pc' = "dumping" /\ Fails(fd' # "log")
      /\ map' = map /\ i' = i /\ runs' = runs /\ wild' = wild /\ want' = want /\ vague' = vague
  BY DEF closeMap
<1>3. faults' \in 0..MaxFaults /\ (faults' = 0 => fd' = "log" /\ faults = 0)
  BY <1>1, <1>2 DEF Fails
<1>4. log' \in Seq(Records) /\ (fd' = "log" => log' = <<>> /\ Len(log') = 0)
  BY <1>1, <1>2
<1>5. TypeOK'
  <2>1. RestOK'
    BY <1>1, <1>2, <1>3, <1>4 DEF RestOK
  <2> QED
    BY <2>1, <1>1, <1>2, TypeIsNext
<1>6. SoundInv' /\ PlaceInv' /\ WildInv'
  BY <1>1, <1>2 DEF SoundInv, PlaceInv, WildInv
<1>7. TagInv'
  <2>1. ASSUME faults' = 0
        PROVE  fd' = "log" /\ Keeps(map', want', vague')
               /\ Dumped(map', log', left', want', vague')
    <3>1. fd' = "log" /\ Len(log') = 0 /\ Keeps(map, want, vague)
      BY <2>1, <1>1, <1>2, <1>3, <1>4 DEF TagInv
    <3>2. \A p : TagUpTo(log', 0, p) = NoTag
      BY TagNone
    <3>3. \A q : q \notin Places(map') \ left'
      BY <1>2
    <3> QED
      BY <3>1, <3>2, <3>3, <1>2 DEF Dumped
  <2> QED
    BY <2>1, <1>2 DEF TagInv
<1> QED
  BY <1>5, <1>6, <1>7 DEF IInv

\* What hm_clear frees is on the heap.
LEMMA ClearHeap ==
    ASSUME NEW m, MapOK(m), ~hm_clear(m), NEW b \in 0..m.size-1, NEW k \in 1..Len(m.items[b])
    PROVE  m.items[b][k].key.at = "heap" /\ m.items[b][k].value.at = "heap"
<1>1. DOMAIN m.items = 0..m.size-1 /\ m.items[b] \in Seq(Items)
  BY DEF MapOK
<1>2. DOMAIN m.items[b] = 1..Len(m.items[b]) /\ m.items[b][k] \in Items
  BY <1>1
<1>3. ~(m.items[b][k].key.at = "stack" \/ m.items[b][k].value.at = "stack")
  BY <1>1, <1>2 DEF hm_clear, remove_items
<1> QED
  BY <1>2, <1>3 DEF Items, Pointers

\* The record of an item that is dumped counts for its page.
LEMMA DumpOne ==
    ASSUME NEW m, MapOK(m), ChainsOK(m), ~hm_clear(m), NEW v, NEW w \in [Pages -> Tags \cup {NoTag}],
           Keeps(m, w, v), NEW l \in Seq(Records), NEW lf, Dumped(m, l, lf, w, v),
           NEW b \in 0..m.size-1, NEW k \in 1..Len(m.items[b]),
           NEW r, r = [page |-> m.items[b][k].key.val, tag |-> m.items[b][k].value.val]
    PROVE  r \in Records /\ Dumped(m, Append(l, r), lf \ {<<b, k>>}, w, v)
<1>1. /\ m.size \in Nat /\ m.items[b] \in Seq(Items) /\ m.items[b][k] \in Items
      /\ <<b, k>> \in Places(m) /\ m.items[b][k].key.val = b
  <2>1. m.size \in Nat /\ m.items[b] \in Seq(Items)
    BY DEF MapOK
  <2>2. m.items[b][k] \in Items
    BY <2>1
  <2>3. <<b, k>> \in Places(m)
    BY PairIs
  <2>4. m.items[b][k].key.val = b
    BY DEF ChainsOK, ChainOK, AllKeys
  <2> QED
    BY <2>1, <2>2, <2>3, <2>4
<1>2. r \in Records /\ r.page = b
  BY <1>1 DEF Items, Pointers, Records
<1>3. ASSUME NEW p \in Pages, p \notin v, p # 0
      PROVE  TagUpTo(Append(l, r), Len(Append(l, r)), p) =
               IF <<p, 1>> \in Places(m) \ (lf \ {<<b, k>>}) THEN w[p] ELSE NoTag
  <2>0. LastWord(Append(l, r), l, r, p)
    BY <1>2, TagAppend
  <2>1. TagUpTo(Append(l, r), Len(Append(l, r)), p) =
          IF r.page = p THEN r.tag ELSE TagUpTo(l, Len(l), p)
    BY <2>0 DEF LastWord
  <2>2. CASE p = b
    <3>1. KeepsAt(m, w, p)
      BY <1>3 DEF Keeps
    <3>2. Encodes(m.items[b], b, w[b]) /\ w[b] \in Tags \cup {NoTag} /\ b \in Pages /\ b # 0
      BY <3>1, <2>2, <1>1, <1>3 DEF KeepsAt
    <3>3. /\ Len(m.items[b]) = IF w[b] = NoTag THEN 0 ELSE 1
          /\ w[b] # NoTag => m.items[b][1] = [key |-> Heap(b), value |-> Heap(w[b])]
      BY <3>2, EncodesIs
    <3>4. w[b] # NoTag /\ k = 1
      BY <3>3
    <3>5. r.tag = w[b]
      BY <3>3, <3>4 DEF Heap
    <3> QED
      BY <3>4, <3>5, <2>1, <2>2, <1>1, <1>2
  <2>3. CASE p # b
    <3>1. <<p, 1>> # <<b, k>>
      BY <2>3
    <3>2. TagUpTo(l, Len(l), p) = IF <<p, 1>> \in Places(m) \ lf THEN w[p] ELSE NoTag
      BY <1>3 DEF Dumped
    <3> QED
      BY <3>1, <3>2, <2>1, <2>3, <1>2
  <2> QED
    BY <2>2, <2>3
<1> QED
  BY <1>2, <1>3 DEF Dumped

\* hm_dump writes one item.
LEMMA DumpItemInv == IInv /\ DumpItem => IInv'
<1> SUFFICES ASSUME IInv, DumpItem PROVE IInv'
  OBVIOUS
<1>1. /\ MapOK(map) /\ map.count <= MaxItems + ArrayLen /\ left \subseteq Places(map) /\ RestOK
      /\ SoundInv /\ PlaceInv /\ TagInv
      /\ faults \in 0..MaxFaults /\ MaxFaults \in Nat /\ log \in Seq(Records)
      /\ want \in [Pages -> Tags \cup {NoTag}] /\ Garbage \subseteq Records
  BY TypeIs, Constants DEF IInv, RestOK
<1> DEFINE Record(q) == IF Item(map, q).key.at = "heap" /\ Item(map, q).value.at = "heap"
                        THEN {[page |-> Item(map, q).key.val, tag |-> Item(map, q).value.val]}
                        ELSE Garbage
<1>2. PICK q \in left :
        /\ pc = "dumping" /\ wild = {} /\ left' = left \ {q}
        /\ \/ /\ fd = "log"
              /\ \E r \in Record(q) : log' = Append(log, r)
              /\ fd' = fd /\ faults' = faults
           \/ /\ fd \in {"log", "torn"} /\ fd' = "torn" /\ Fails(fd = "log")
              /\ \E r \in Garbage : log' \in {log, Append(log, r)}
           \/ fd \in {"error", "other"} /\ log' = log /\ fd' = fd /\ faults' = faults
        /\ map' = map /\ pc' = pc /\ i' = i /\ runs' = runs /\ wild' = wild /\ want' = want
        /\ vague' = vague
  BY DEF DumpItem
<1>3. PICK b \in 0..map.size-1 : \E k \in 1..Len(map.items[b]) : q = <<b, k>>
  <2>1. q \in Places(map)
    BY <1>1
  <2> QED
    BY <2>1, PlaceIs
<1>4. PICK k \in 1..Len(map.items[b]) : q = <<b, k>>
  BY <1>3
<1>5. Item(map, q) = map.items[b][k]
  BY <1>4 DEF Item
<1>6. Record(q) \subseteq Records
  <2>1. map.items[b][k] \in Items
    BY <1>1 DEF MapOK
  <2> QED
    BY <2>1, <1>1, <1>5 DEF Items, Pointers, Records
<1>7. log' \in Seq(Records) /\ faults' \in 0..MaxFaults /\ fd' \in {"log", "torn", "error", "other"}
  <2>1. CASE /\ fd = "log" /\ (\E r \in Record(q) : log' = Append(log, r))
             /\ fd' = fd /\ faults' = faults
    BY <2>1, <1>1, <1>6
  <2>2. CASE /\ fd \in {"log", "torn"} /\ fd' = "torn" /\ Fails(fd = "log")
             /\ \E r \in Garbage : log' \in {log, Append(log, r)}
    <3>1. faults' \in 0..MaxFaults
      BY <2>2, <1>1 DEF Fails
    <3>2. log' \in Seq(Records)
      BY <2>2, <1>1
    <3> QED
      BY <3>1, <3>2, <2>2
  <2>3. CASE fd \in {"error", "other"} /\ log' = log /\ fd' = fd /\ faults' = faults
    BY <2>3, <1>1
  <2> QED
    BY <2>1, <2>2, <2>3, <1>2
<1>8. TypeOK'
  <2>1. RestOK'
    BY <1>1, <1>2, <1>7 DEF RestOK
  <2> QED
    BY <2>1, <1>1, <1>2, TypeIsNext
<1>9. SoundInv' /\ PlaceInv' /\ WildInv'
  BY <1>1, <1>2 DEF SoundInv, PlaceInv, WildInv
<1>10. TagInv'
  <2> SUFFICES ASSUME faults' = 0
               PROVE  fd' = "log" /\ Keeps(map, want, vague)
                      /\ (~hm_clear(map) => Dumped(map, log', left', want, vague))
    BY <1>2 DEF TagInv
  <2>1. /\ fd = "log" /\ fd' = fd /\ (\E r \in Record(q) : log' = Append(log, r))
        /\ Keeps(map, want, vague) /\ (~hm_clear(map) => Dumped(map, log, left, want, vague))
    <3>1. faults = 0
      BY <1>1, <1>2 DEF Fails
    <3>2. /\ fd = "log" /\ Keeps(map, want, vague)
          /\ (~hm_clear(map) => Dumped(map, log, left, want, vague))
      BY <3>1, <1>1, <1>2 DEF TagInv
    <3>3. ~Fails(fd = "log")
      BY <3>1, <3>2, <1>1 DEF Fails
    <3> QED
      BY <3>2, <3>3, <1>2
  <2>2. PICK r \in Record(q) : log' = Append(log, r)
    BY <2>1
  <2>3. ASSUME ~hm_clear(map) PROVE Dumped(map, log', left', want, vague)
    <3>1. map.items[b][k].key.at = "heap" /\ map.items[b][k].value.at = "heap"
      BY <2>3, <1>1, ClearHeap
    <3>2. r = [page |-> map.items[b][k].key.val, tag |-> map.items[b][k].value.val]
      BY <3>1, <2>2, <1>5
    <3>3. ChainsOK(map)
      BY <1>1, <1>2 DEF SoundInv
    <3>4. Dumped(map, Append(log, r), left \ {<<b, k>>}, want, vague)
      BY <3>2, <3>3, <2>1, <2>3, <1>1, DumpOne
    <3> QED
      BY <3>4, <2>2, <1>2, <1>4
  <2> QED
    BY <2>1, <2>3
<1> QED
  BY <1>8, <1>9, <1>10 DEF IInv

\* Once every item is dumped, the log has every tag.
LEMMA DumpedAll ==
    ASSUME NEW m, MapOK(m), NEW v, NEW w \in [Pages -> Tags \cup {NoTag}], Keeps(m, w, v),
           NEW l, NEW lf, Dumped(m, l, lf, w, v), lf = {} \/ Places(m) = {}
    PROVE  Saved(l, w, v)
<1> SUFFICES ASSUME NEW p \in Pages, p \notin v, p # 0 PROVE TagUpTo(l, Len(l), p) = w[p]
  BY DEF Saved
<1>1. TagUpTo(l, Len(l), p) = IF <<p, 1>> \in Places(m) THEN w[p] ELSE NoTag
  <2>1. Places(m) \ lf = Places(m)
    OBVIOUS
  <2> QED
    BY <2>1 DEF Dumped
<1>2. ASSUME <<p, 1>> \notin Places(m) PROVE w[p] = NoTag
  <2>1. KeepsAt(m, w, p) /\ p \in Nat /\ m.size \in Nat /\ w[p] \in Tags \cup {NoTag}
    BY Constants DEF Keeps, MapOK
  <2>2. CASE p < m.size
    <3>1. Encodes(m.items[p], p, w[p]) /\ p \in 0..m.size-1
      BY <2>1, <2>2 DEF KeepsAt
    <3>2. Len(m.items[p]) = IF w[p] = NoTag THEN 0 ELSE 1
      BY <3>1, <2>1, EncodesIs
    <3>3. 1 \notin 1..Len(m.items[p])
      BY <3>1, <1>2, PairIs
    <3> QED
      BY <3>2, <3>3
  <2>3. CASE ~(p < m.size)
    BY <2>1, <2>3 DEF KeepsAt
  <2> QED
    BY <2>2, <2>3
<1> QED
  BY <1>1, <1>2

\* hm_delete ends closeMap, or frees a part of the stack.
LEMMA DeleteInv == IInv /\ hm_delete => IInv'
<1> SUFFICES ASSUME IInv, hm_delete PROVE IInv'
  OBVIOUS
<1>1. /\ MapOK(map) /\ map.count <= MaxItems + ArrayLen /\ RestOK /\ SoundInv /\ PlaceInv /\ TagInv
      /\ faults \in 0..MaxFaults /\ MaxFaults \in Nat /\ MaxFaults > 0
      /\ want \in [Pages -> Tags \cup {NoTag}] /\ MaxItems \in Nat /\ ArrayLen \in Nat
  BY TypeIs, Constants DEF IInv, RestOK
<1>2. /\ pc = "dumping" /\ wild = {} /\ ~Dumping /\ left' = {}
      /\ log' = log /\ fd' = fd /\ i' = i /\ runs' = runs /\ want' = want /\ vague' = vague
  BY DEF hm_delete
<1>3. CASE hm_clear(map)
  <2>1. wild' = {"free"} /\ Loses(TRUE) /\ map' = map /\ pc' = pc
    BY <1>3 DEF hm_delete
  <2>2. faults' \in 0..MaxFaults /\ faults' # 0
    BY <2>1, <1>1 DEF Loses
  <2>3. TypeOK'
    <3>1. RestOK'
      BY <2>1, <2>2, <1>1, <1>2 DEF RestOK, Causes
    <3> QED
      BY <3>1, <2>1, <1>1, <1>2, TypeIsNext
  <2>4. SoundInv' /\ PlaceInv' /\ TagInv' /\ WildInv'
    BY <2>1, <2>2, <1>1, <1>2 DEF SoundInv, PlaceInv, TagInv, WildInv
  <2> QED
    BY <2>3, <2>4 DEF IInv
<1>4. CASE ~hm_clear(map)
  <2>1. map' = Empty(0) /\ pc' = "closed" /\ wild' = wild /\ faults' = faults
    BY <1>4 DEF hm_delete, NoMap
  <2>2. MapOK(map') /\ ChainsOK(map') /\ Counted(map') /\ Roomy(map') /\ HeapBut(map', vague')
        /\ map'.count = 0
    <3>1. MapOK(map') /\ ChainsOK(map') /\ Counted(map') /\ Roomy(map') /\ HeapBut(map', {})
          /\ map'.count = 0
      BY <2>1, EmptyMap
    <3> QED
      BY <3>1, HeapWeaker
  <2>3. TypeOK'
    <3>1. RestOK'
      BY <2>1, <1>1, <1>2 DEF RestOK
    <3> QED
      BY <3>1, <2>2, <1>1, <1>2, TypeIsNext
  <2>4. SoundInv' /\ WildInv'
    BY <2>1, <2>2, <1>2 DEF SoundInv, WildInv
  <2>5. PlaceInv'
    BY <2>1, <1>2 DEF PlaceInv, NoMap
  <2>6. TagInv'
    <3>1. ASSUME faults = 0 PROVE Saved(log, want, vague)
      <4>1. Keeps(map, want, vague) /\ Dumped(map, log, left, want, vague)
        BY <3>1, <1>1, <1>2, <1>4 DEF TagInv
      <4>2. left = {} \/ Places(map) = {}
        <5>1. Counted(map)
          BY <1>1, <1>2 DEF SoundInv
        <5>2. map.count = 0 => Places(map) = {}
          BY <5>1, FS_EmptySet DEF Counted
        <5> QED
          BY <5>2, <1>2 DEF Dumping
      <4> QED
        BY <4>1, <4>2, <1>1, DumpedAll
    <3> QED
      BY <3>1, <2>1, <1>2 DEF TagInv
  <2> QED
    BY <2>3, <2>4, <2>5, <2>6 DEF IInv
<1> QED
  BY <1>3, <1>4

\* A panic loses the table.
LEMMA PanicInv == IInv /\ Panic => IInv'
<1> SUFFICES ASSUME IInv, Panic PROVE IInv'
  OBVIOUS
<1>1. /\ RestOK /\ faults \in 0..MaxFaults /\ MaxFaults \in Nat /\ MaxFaults > 0
      /\ log \in Seq(Records) /\ MaxItems \in Nat /\ ArrayLen \in Nat
  BY TypeIs, Constants DEF IInv, RestOK
<1>2. /\ map' = Empty(0) /\ pc' = "closed" /\ i' = 0 /\ left' = {} /\ wild' = {} /\ vague' = {}
      /\ Loses(wild # {} \/ vague # {} \/ want # LogTags(log))
      /\ log' = log /\ fd' = fd /\ runs' = runs /\ want' = want
  BY DEF Panic, NoMap
<1>3. faults' \in 0..MaxFaults /\ (faults' = 0 => want = LogTags(log))
  BY <1>1, <1>2 DEF Loses
<1>4. MapOK(map') /\ ChainsOK(map') /\ Counted(map') /\ Roomy(map') /\ HeapBut(map', {})
      /\ map'.count = 0
  BY <1>2, EmptyMap
<1>5. TypeOK'
  <2>1. RestOK'
    BY <1>1, <1>2, <1>3 DEF RestOK
  <2> QED
    BY <2>1, <1>1, <1>2, <1>4, TypeIsNext
<1>6. SoundInv' /\ WildInv'
  BY <1>2, <1>4 DEF SoundInv, WildInv
<1>7. PlaceInv'
  BY <1>2 DEF PlaceInv, NoMap
<1>8. TagInv'
  <2>1. ASSUME faults' = 0 PROVE Saved(log, want, {})
    BY <2>1, <1>1, <1>3, LogTagsIs DEF Saved
  <2> QED
    BY <2>1, <1>2 DEF TagInv
<1> QED
  BY <1>5, <1>6, <1>7, <1>8 DEF IInv

\* Every step keeps the invariant.
LEMMA NextInv == IInv /\ [Next]_vars => IInv'
<1> SUFFICES ASSUME IInv, [Next]_vars PROVE IInv'
  OBVIOUS
<1>1. ASSUME NEW p \in Pages, CodecEncrypt(p) \/ hm_unset(p) PROVE IInv'
  BY <1>1, CodecEncryptInv, UnsetInv
<1>2. CASE UNCHANGED vars
  BY <1>2 DEF IInv, TypeOK, SoundInv, PlaceInv, TagInv, WildInv, vars
<1> QED
  BY <1>1, <1>2, CreateMapInv, LoadTurnInv, CloseMapInv, DumpItemInv, DeleteInv, PanicInv DEF Next

-----------------------------------------------------------------------------
(***************************************************************************)
(* Theorems.                                                               *)
(***************************************************************************)

\* The invariant always holds.
LEMMA Always == Spec => []IInv
BY InitInv, NextInv, PTL DEF Spec

\* The table, mac.log and the frame of createMap are well typed, and the table never has
\* more items than the calls of hm_set could have put into it.
THEOREM TypeCorrect == Spec => []TypeOK
<1>1. IInv => TypeOK
  BY DEF IInv
<1> QED
  BY <1>1, Always, PTL

\* As long as no access was undefined, the count of the table is the number of its items:
\* hm_set counts each item once that it adds, hm_unset each that it removes, and a rehash
\* loses none.
THEOREM CountCorrect == Spec => []CountIsItems
<1>1. IInv => CountIsItems
  BY DEF IInv, SoundInv, Counted, CountIsItems
<1> QED
  BY <1>1, Always, PTL

\* A page that CodecEncrypt has not touched has the tag that closeMap saved for it in an
\* earlier run, unless something has failed.
THEOREM TagsCorrect == Spec => []TagsSurvive
<1>1. ASSUME IInv PROVE TagsSurvive
  <2> SUFFICES ASSUME pc = "open", wild = {}, faults = 0,
                      NEW p \in Pages, p \notin vague, p # 0, p < map.size
               PROVE  hm_get(map, p) = {want[p]} /\ hm_isset(map, p) = (want[p] # NoTag)
    BY DEF TagsSurvive
  <2>1. KeepsAt(map, want, p) /\ want[p] \in Tags \cup {NoTag}
    BY <1>1, TypeIs DEF IInv, TagInv, Keeps, RestOK
  <2>2. PICK list : list = map.items[p]
    OBVIOUS
  <2>3. Encodes(list, p, want[p])
    BY <2>1, <2>2 DEF KeepsAt
  <2>4. /\ Len(list) = (IF want[p] = NoTag THEN 0 ELSE 1) /\ Stops(list) = {1}
        /\ want[p] # NoTag => list[1] = [key |-> Heap(p), value |-> Heap(want[p])]
    BY <2>1, <2>3, EncodesIs
  <2>5. get_item(list) = {IF 1 > Len(list) THEN {NoTag} ELSE Reads(list[1].value, Tags)}
    BY <2>4 DEF get_item
  <2>6. get_item(list) = {{want[p]}}
    <3>1. CASE want[p] = NoTag
      BY <3>1, <2>4, <2>5
    <3>2. CASE want[p] # NoTag
      <4>1. Reads(list[1].value, Tags) = {want[p]}
        BY <3>2, <2>4 DEF Reads, Heap
      <4> QED
        BY <4>1, <3>2, <2>4, <2>5
    <3> QED
      BY <3>1, <3>2
  <2>7. hm_get(map, p) = {want[p]}
    BY <2>2, <2>6 DEF hm_get, hash
  <2>8. hm_isset(map, p) = (want[p] # NoTag)
    <3>1. hm_isset(map, p) <=> \E k \in Stops(list) : k <= Len(list)
      BY <2>2 DEF hm_isset, key_exists, hash
    <3>2. hm_isset(map, p) \in BOOLEAN
      BY DEF hm_isset, key_exists
    <3>3. hm_isset(map, p) <=> want[p] # NoTag
      BY <3>1, <2>4
    <3> QED
      BY <3>2, <3>3
  <2> QED
    BY <2>7, <2>8
<1> QED
  BY <1>1, Always, PTL

\* The map makes no undefined access before CodecEncrypt is called, if no call fails and
\* the log has room in createMap's arrays and no page beyond the table.
THEOREM HeapUseCorrect == Spec => []HeapUseIsSafe
<1>1. ASSUME IInv PROVE HeapUseIsSafe
  <2> SUFFICES ASSUME vague = {}, faults = 0, Len(log) < ArrayLen,
                      \A k \in DOMAIN log : log[k].page < next_size(AskedSize), wild # {}
               PROVE  FALSE
    BY DEF HeapUseIsSafe
  <2>1. LongLog(log)
    BY <1>1 DEF IInv, WildInv
  <2>2. /\ log \in Seq(Records) /\ Len(log) \in Nat /\ ArrayLen \in Nat
        /\ next_size(AskedSize) \in Nat /\ DOMAIN log = 1..Len(log)
    <3>1. log \in Seq(Records)
      BY <1>1, TypeIs DEF IInv, RestOK
    <3>2. ArrayLen \in Nat /\ next_size(AskedSize) \in Nat
      BY Constants, NextSize
    <3> QED
      BY <3>1, <3>2
  <2>3. ASSUME NEW k \in 1..Len(log) PROVE ~(log[k].page >= next_size(AskedSize))
    <3>1. log[k] \in Records
      BY <2>2
    <3>2. log[k].page \in Nat
      BY <3>1, Constants DEF Records
    <3> QED
      BY <3>2, <2>2
  <2> QED
    BY <2>1, <2>2, <2>3 DEF LongLog
<1> QED
  BY <1>1, Always, PTL
=============================================================================
