------------------------------- MODULE TagMap -------------------------------
(***************************************************************************)
(* The hash map in which the page codec keeps the authentication tag of    *)
(* each page (ta/hashmap.c), its client CodecEncrypt, and the file         *)
(* /tmp/mac.log that holds it between two runs (createMap and closeMap of  *)
(* ta/codec.c).                                                            *)
(*                                                                         *)
(* The map keeps the pointers it is given.  Those of createMap point to    *)
(* the heap; those of CodecEncrypt to its own stack frame, which is gone   *)
(* when it returns, and reading through them gives any value ("stack").    *)
(* A chain is walked with the test "*key = *(list->key)": an assignment    *)
(* whose value is the listed key, so an item matches iff its key is not 0. *)
(***************************************************************************)
EXTENDS Integers, Sequences, FiniteSets, SequencesExt, FiniteSetsExt

CONSTANTS
    Pages,      \* page numbers; 0 stands for the first 16 bytes of page 1
    Tags,       \* the contents of a tag
    ZeroTag,    \* what TEE_Malloc leaves in one
    Logs,       \* mac.log as earlier runs may have left it
    AskedSize,  \* the size asked of hm_create (500 in the code)
    Garbage,    \* records that createMap may find where stack pointers were dumped or
                \* the log is out of step
    ArrayLen,   \* the length of createMap's arrays (100 in the code)
    MaxItems,   \* BOUND: items in the map when CodecEncrypt is called
    MaxRuns,    \* BOUND: calls of createMap
    MaxFaults   \* BOUND: calls and allocations that fail

NoTag == "no tag"
Records == [page : Pages, tag : Tags]

ASSUME PagesAssumption == Pages \subseteq Nat /\ {0, 1} \subseteq Pages
ASSUME TagsAssumption == ZeroTag \in Tags /\ NoTag \notin Tags
ASSUME LogsAssumption == Logs \subseteq Seq(Records)
ASSUME GarbageAssumption == Garbage \subseteq Records
ASSUME SizesAssumption == AskedSize \in Nat /\ ArrayLen \in Nat \ {0}
ASSUME BoundsAssumption == MaxItems \in Nat /\ MaxRuns \in Nat /\ MaxFaults \in Nat \ {0}

VARIABLES
    map,        \* *tag: the chains, count and size
    log,        \* the records of mac.log: page and tag
    fd,         \* what fdr or fdw is: "log" ("torn" once a write to it has failed),
                \* "error" (-1) or "other" (0, after a failed RPC)
    pc,         \* "closed", "loading", "open", "dumping"
    i,          \* createMap's i: the records read so far
    left,       \* the places of the items that hm_dump has still to write
    runs,       \* calls of createMap so far
    wild,       \* undefined accesses so far, by cause
    \* History variables.
    want,       \* the tag that each page should have
    vague,      \* pages whose tag is behind a stack pointer
    faults      \* calls and allocations that have failed, panics that lost an update,
                \* and dumps of stack pointers

vars == <<map, log, fd, pc, i, left, runs, wild, want, vague, faults>>

Heap(v) == [at |-> "heap", val |-> v]
Stack(v) == [at |-> "stack", val |-> v]

\* A table of n empty chains; NULL is a table without one.
Empty(n) == [items |-> [b \in 0..n-1 |-> <<>>], count |-> 0, size |-> n]
NoMap == Empty(0)

\* The values that *pointer may have, if those of its type are in All.
Reads(pointer, All) == IF pointer.at = "heap" THEN {pointer.val} ELSE All

-----------------------------------------------------------------------------
(***************************************************************************)
(* hashmap.c                                                               *)
(***************************************************************************)
sizes == <<5, 13, 23, 47, 97, 193, 383, 769, 1531, 3067, 6143, 12289, 24571, 49157,
           98299, 196613, 393241, 786547, 1573111, 1668053, 1805579, 1868527, 1999993>>

\* The key itself, whatever the size of the table.
hash(key) == key

next_size(size) ==
    LET above == {k \in DOMAIN sizes : sizes[k] > size}
    IN  IF above = {} THEN size * 2 ELSE sizes[Min(above)]

\* Mutant of hm_create: the table has the size asked for, and not the next in the list.
hm_create_AskedSize(size) == Empty(size)

hm_create(size) == Empty(next_size(size))

\* The items of a table, by their places: the k-th of chain b.
Places(m) == UNION {{<<b, k>> : k \in 1..Len(m.items[b])} : b \in 0..m.size-1}
Item(m, q) == m.items[q[1]][q[2]]

\* Where the walk down a chain may stop: at an item whose key is read as something
\* other than 0, or past the last one.
Stops(list) ==
    {k \in 1..Len(list) + 1 :
        /\ \A j \in 1..k-1 : 0 \in Reads(list[j].key, Pages)
        /\ k <= Len(list) => Reads(list[k].key, Pages) # {0}}

\* set_item, when the walk stops at k.
set_item(list, k, key, value) ==
    IF k > Len(list) THEN Append(list, [key |-> key, value |-> value])
                     ELSE [list EXCEPT ![k].value = value]

\* What is left of a chain whose items have been put back one after the other: an item
\* is kept only if none ahead of it matches.
update_item_list(list) ==
    LET matching == {k \in DOMAIN list : list[k].key.val # 0}
    IN  IF matching = {} THEN list ELSE SubSeq(list, 1, Min(matching))

\* The hash does not depend on the size: an item goes back to the chain that it was in
\* (unless its key has changed since, which StackSet looks at).
hm_rehash(m, new_size) ==
    [items |-> [b \in 0..new_size-1 |->
                  IF b < m.size THEN update_item_list(m.items[b]) ELSE <<>>],
     count |-> m.count, size |-> new_size]

Overfull(m) == m.count > m.size     \* the load factor is 1.0

\* hm_set up to the rehash.
SetItem(m, b, k, key, value) ==
    [m EXCEPT !.items[b] = set_item(@, k, key, value),
              !.count = IF k > Len(m.items[b]) THEN @ + 1 ELSE @]

hm_set(m, b, k, key, value) ==
    LET new == SetItem(m, b, k, key, value)
    IN  IF Overfull(new) THEN hm_rehash(new, next_size(new.size)) ELSE new

\* Mutant of RemoveItem: the counter of hm_unset is not added to the count.
RemoveItem_Uncounted(m, b, k) == [m EXCEPT !.items[b] = RemoveAt(@, k)]

\* Mutant of RemoveItem: the item is freed but stays in its chain.
RemoveItem_StillLinked(m, b, k) == [m EXCEPT !.count = @ - 1]

\* remove_item, when the walk stops at an item.
RemoveItem(m, b, k) ==
    [m EXCEPT !.items[b] = RemoveAt(@, k), !.count = @ - 1]

\* What get_item and key_exists may find.
get_item(list) == {IF k > Len(list) THEN {NoTag} ELSE Reads(list[k].value, Tags) : k \in Stops(list)}
key_exists(list) == \E k \in Stops(list) : k <= Len(list)

hm_get(m, key) == UNION get_item(m.items[hash(key)])
hm_isset(m, key) == key_exists(m.items[hash(key)])

\* remove_items and hm_clear free every key and value: whether one is not on the heap.
remove_items(list) ==
    \E k \in DOMAIN list : list[k].key.at = "stack" \/ list[k].value.at = "stack"
hm_clear(m) == \E b \in DOMAIN m.items : remove_items(m.items[b])

-----------------------------------------------------------------------------
(***************************************************************************)
(* createMap                                                               *)
(***************************************************************************)

\* The tags that createMap finds in a log: the last record of a page counts.
LogTags(l) ==
    [p \in Pages |-> LET mine == {k \in DOMAIN l : l[k].page = p}
                     IN  IF mine = {} THEN NoTag ELSE l[Max(mine)].tag]

Init ==
    /\ map = NoMap /\ log \in Logs /\ fd = "error" /\ pc = "closed" /\ i = 0 /\ runs = 0
    /\ left = {} /\ wild = {} /\ want = LogTags(log) /\ vague = {} /\ faults = 0

Fails(b) == IF b THEN faults < MaxFaults /\ faults' = faults + 1 ELSE UNCHANGED faults
Loses(b) == faults' = IF b /\ faults < MaxFaults THEN faults + 1 ELSE faults

\* O_RDWR | O_CREAT; hm_create may find no memory, and the map is NULL.
createMap ==
    /\ pc = "closed" /\ wild = {} /\ runs < MaxRuns
    /\ runs' = runs + 1 /\ fd' \in {"log", "error", "other"} /\ i' = 0
    /\ \/ map' = hm_create(AskedSize) /\ pc' = "loading" /\ Fails(fd' # "log")
          /\ UNCHANGED wild
       \/ wild' = {"null"} /\ Fails(TRUE) /\ UNCHANGED <<map, pc>>
    /\ UNCHANGED <<log, left, want, vague>>

\* The record that a turn of the loop reads into zeroed heap cells: an error leaves
\* them alone, and so does a failed RPC for the tag.
Reading ==
    IF fd = "error" THEN {[page |-> 0, tag |-> ZeroTag]}
    ELSE IF fd = "log" /\ i < Len(log) THEN {log[i + 1], [log[i + 1] EXCEPT !.tag = ZeroTag]}
    ELSE {}

\* hm_set with the pointers of createMap; tmp_pageno[i + 1] is set as well, before
\* the loop's condition is looked at.  hm_set says nothing when it has no memory.
LoadRecord(r) ==
    LET b == hash(r.page)
        Bigger(k) == Overfull(SetItem(map, b, k, Heap(r.page), Heap(r.tag)))
    IN  IF b >= map.size THEN wild' = {"index"} /\ UNCHANGED <<map, i, faults>>
        ELSE \E k \in Stops(map.items[b]) :
               /\ i' = i + 1
               /\ \/ /\ map' = hm_set(map, b, k, Heap(r.page), Heap(r.tag))
                     /\ wild' = IF i' >= ArrayLen THEN {"array"} ELSE {}
                     /\ Fails(fd = "log" /\ r # log[i + 1])
                  \/ /\ k > Len(map.items[b])
                     /\ wild' = IF i' >= ArrayLen THEN {"array"} ELSE {}
                     /\ Fails(TRUE) /\ UNCHANGED map
                  \/ /\ Bigger(k)
                     /\ wild' = {"null"} /\ Fails(TRUE) /\ UNCHANGED map

\* One turn of the loop, and its end: at the end of the file, or when the RPC fails.
LoadTurn ==
    /\ pc = "loading" /\ wild = {}
    /\ \/ \E r \in Reading : LoadRecord(r) /\ UNCHANGED pc
       \/ /\ fd # "error" /\ pc' = "open"
          /\ Fails(fd = "log" /\ i < Len(log))
          /\ UNCHANGED <<map, i, wild>>
    /\ UNCHANGED <<log, fd, left, runs, want, vague>>

-----------------------------------------------------------------------------
(***************************************************************************)
(* The map in use.                                                         *)
(***************************************************************************)

\* The outcomes of an hm_set with pointers into the frame of CodecEncrypt.  p_mac of
\* this call and of an earlier one may have the same address; if not, the earlier
\* one is freed.  A rehash reads the keys of frames that are gone.
StackSet(s, p) ==
    LET b == hash(p)
        Old(k) == s.map.items[b][k].value
        new(k) == hm_set(s.map, b, k, Stack(p), Stack(ZeroTag))
        Stale == \E q \in Places(map) : Item(map, q).key.at = "stack"
        Bigger(k) == Overfull(SetItem(s.map, b, k, Stack(p), Stack(ZeroTag)))
        Went(k) == CASE k > Len(s.map.items[b]) ->
                          {[map |-> new(k), wild |-> IF Bigger(k) /\ Stale THEN {"key"} ELSE {}]}
                     [] k <= Len(s.map.items[b]) /\ Old(k).at = "heap" ->
                          {[map |-> new(k), wild |-> {}]}
                     [] OTHER -> {s, [s EXCEPT !.wild = {"free"}]}
    IN  IF s.wild # {} THEN {s}
        ELSE IF b >= s.map.size THEN {[s EXCEPT !.wild = {"index"}]}
        ELSE UNION {Went(k) : k \in Stops(s.map.items[b])}

\* The hm_set calls of CodecEncrypt: page 1 also has a tag for its header.
CodecEncrypt(p) ==
    LET now == [map |-> map, wild |-> {}]
    IN  /\ pc = "open" /\ wild = {} /\ p # 0 /\ map.count + 2 <= MaxItems
        /\ \E s1 \in (IF p = 1 THEN StackSet(now, 0) ELSE {now}) : \E s2 \in StackSet(s1, p) :
              map' = s2.map /\ wild' = s2.wild
        /\ vague' = vague \cup {p} \cup (IF p = 1 THEN {0} ELSE {})
        /\ UNCHANGED <<log, fd, pc, i, left, runs, want, faults>>

\* hm_unset frees the key and the value of the item where the walk stops.
hm_unset(p) ==
    LET list == map.items[hash(p)]
    IN  /\ pc = "open" /\ wild = {} /\ p < map.size
        /\ \E k \in Stops(list) :
              /\ k <= Len(list)
              /\ map' = RemoveItem(map, hash(p), k)
              /\ wild' = IF remove_items(<<list[k]>>) THEN {"free"} ELSE {}
        /\ want' = [want EXCEPT ![p] = NoTag]
        /\ UNCHANGED <<log, fd, pc, i, left, runs, vague, faults>>

-----------------------------------------------------------------------------
(***************************************************************************)
(* closeMap                                                                *)
(***************************************************************************)

\* O_RDWR | O_TRUNC: from here on mac.log has no tags, until they are dumped.
closeMap ==
    /\ pc = "open" /\ wild = {}
    /\ fd' \in {"log", "error", "other"} /\ left' = Places(map)
    /\ log' = IF fd' = "log" THEN <<>> ELSE log
    /\ pc' = "dumping" /\ Fails(fd' # "log")
    /\ UNCHANGED <<map, i, runs, wild, want, vague>>

\* Mutant of Dumping: the loop stops one bucket short.
Dumping_OneShort == map.count # 0 /\ \E q \in left : q[1] < map.size - 1

Dumping == map.count # 0 /\ left # {}

\* The order of the two loops: chain by chain, from its head.
Ahead(q, r) == q[1] < r[1] \/ (q[1] = r[1] /\ q[2] <= r[2])

\* hm_dump, the next item: two writes, whose results are not looked at.  After one that
\* failed the records are not where createMap looks for them.
DumpItem ==
    \E q \in left :
        LET it == Item(map, q)
            Record == IF it.key.at = "heap" /\ it.value.at = "heap"
                      THEN {[page |-> it.key.val, tag |-> it.value.val]} ELSE Garbage
        IN
        /\ pc = "dumping" /\ wild = {} /\ Dumping
        /\ \A r \in left : Ahead(q, r)
        /\ left' = left \ {q}
        /\ \/ /\ fd = "log"
              /\ \E r \in Record : log' = Append(log, r)
              /\ UNCHANGED <<fd, faults>>
           \/ /\ fd \in {"log", "torn"}
              /\ fd' = "torn" /\ Fails(fd = "log")
              /\ \E r \in Garbage : log' \in {log, Append(log, r)}
           \/ /\ fd \in {"error", "other"}
              /\ UNCHANGED <<log, fd, faults>>
        /\ UNCHANGED <<map, pc, i, runs, wild, want, vague>>

\* hm_delete, with free_int, and the end of closeMap.
hm_delete ==
    /\ pc = "dumping" /\ wild = {} /\ ~Dumping
    /\ IF hm_clear(map) THEN wild' = {"free"} /\ Loses(TRUE) /\ UNCHANGED <<map, pc>>
                       ELSE map' = NoMap /\ pc' = "closed" /\ UNCHANGED <<wild, faults>>
    /\ left' = {}
    /\ UNCHANGED <<log, fd, i, runs, want, vague>>

\* The trusted application panics, perhaps because of an undefined access (external).
Panic ==
    /\ pc # "closed" \/ wild # {}
    /\ map' = NoMap /\ pc' = "closed" /\ i' = 0 /\ left' = {} /\ wild' = {} /\ vague' = {}
    /\ Loses(wild # {} \/ vague # {} \/ want # LogTags(log))
    /\ UNCHANGED <<log, fd, runs, want>>

Next ==
    \/ createMap \/ LoadTurn \/ closeMap \/ DumpItem \/ hm_delete \/ Panic
    \/ \E p \in Pages : CodecEncrypt(p) \/ hm_unset(p)

Spec == Init /\ [][Next]_vars

-----------------------------------------------------------------------------
(***************************************************************************)
(* Properties.                                                             *)
(***************************************************************************)
Pointers(All) == [at : {"heap", "stack"}, val : All]
Items == [key : Pointers(Pages), value : Pointers(Tags)]

\* The chains, the log and the position in it are well typed.
TypeOK ==
    /\ map = [items |-> map.items, count |-> map.count, size |-> map.size]
    /\ map.size \in Nat /\ map.count \in 0..MaxItems + ArrayLen
    /\ map.items \in [0..map.size-1 -> Seq(Items)]
    /\ log \in Seq(Records) /\ left \subseteq Places(map)
    /\ fd \in {"log", "torn", "error", "other"} /\ pc \in {"closed", "loading", "open", "dumping"}
    /\ i \in Nat /\ runs \in 0..MaxRuns /\ wild \in SUBSET {"null", "index", "array", "key", "free"}
    /\ want \in [Pages -> Tags \cup {NoTag}] /\ vague \subseteq Pages /\ faults \in 0..MaxFaults

\* "Number of items" (hashmap.h:15), through sets, rehashes and removals: hm_dump
\* writes nothing if it is 0, and hm_set makes room by it.
CountIsItems == wild = {} => map.count = Cardinality(Places(map))

\* Unless something has failed, a page other than the header's has the
\* tag that it had when closeMap saved the map of an earlier run, or none if it was
\* removed: the walk finds it among duplicates and after a rehash.
TagsSurvive ==
    pc = "open" /\ wild = {} /\ faults = 0 =>
        \A p \in Pages \ (vague \cup {0}) :
            p < map.size => hm_get(map, p) = {want[p]} /\ hm_isset(map, p) = (want[p] # NoTag)

\* The map makes no undefined access as long as CodecEncrypt has put nothing into it,
\* no call fails, and the log has fewer records than createMap's arrays and only pages
\* below the first size of the table.
HeapUseIsSafe ==
    /\ vague = {} /\ faults = 0
    /\ Len(log) < ArrayLen
    /\ \A k \in DOMAIN log : log[k].page < next_size(AskedSize)
    => wild = {}
=============================================================================
