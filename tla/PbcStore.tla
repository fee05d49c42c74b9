------------------------------ MODULE PbcStore ------------------------------
(* The memory of pbc and what lives in it: the page heap (alloc.c), the     *)
(* growing array (array.c), the string table (map.c) and the string pool    *)
(* (stringpool.c), as their callers use them together. A message that is    *)
(* read or written keeps its table, its values and its arrays in one heap;  *)
(* the environment (proto.c, register.c) has its tables without a heap and  *)
(* its strings in a pool. Sizes count in units of the model.                *)
EXTENDS PbcMap

CONSTANTS
  Keys,          \* the names a table may get
  Values,        \* what arrays hold
  Align,         \* the heap rounds every size up to a multiple of this: 4
  HeapSize,      \* the least size of a heap page: 1024
  SlotSize, ValueSize, VarSize,   \* sizeof a table slot, a value, a pbc_var
  INNER_FIELD,   \* entries an array holds without memory of its own
  PAGE_SIZE,     \* a page of the string pool: 256
  StringSizes,   \* lengths of strings, without the final NUL
  MaxEntries, MaxPushed, MaxStrings   \* bounds on the operations

ASSUME SizesOK ==
  /\ {Align, HeapSize, SlotSize, ValueSize, VarSize, INNER_FIELD, PAGE_SIZE}
       \subseteq Nat \ {0}
  /\ StringSizes \cup {MaxEntries, MaxPushed, MaxStrings} \subseteq Nat
  /\ NULL \notin Keys /\ NULL \notin 1..MaxEntries
  /\ \A k \in Keys : calc_hash(k) \in Nat \ {0}

VARIABLES
  mem,     \* the malloc'ed blocks by number, and the heap if there is one
  map,     \* a map_sp, with the region of its slots; an entry's pointer is
           \* the index of its value in `values`
  values,  \* the regions of the values
  array,   \* a pbc_array: entries, the memory it can write, and its region
  pool,    \* the string pool: its current page, length and chain of blocks
  strings, \* the strings built so far: their texts and regions
  life     \* "open", or "closed" when everything was deleted

vars == <<mem, map, values, array, pool, strings, life>>

-----------------------------------------------------------------------------
(* Memory: an allocation gives the memory after it and the region it got.   *)
(* A block is named by what it was allocated for.                           *)

Region(b, off, len) == [block |-> b, off |-> off, len |-> len]

WithBlock(m, b, size) ==
  [m EXCEPT !.blocks = [x \in DOMAIN @ \cup {b} |-> IF x = b THEN size ELSE @[x]]]

_pbcM_malloc(m, b, size) ==
  [mem |-> WithBlock(m, b, size), at |-> Region(b, 0, size)]

_pbcM_free(m, bs) ==
  [m EXCEPT !.blocks = [b \in DOMAIN @ \ bs |-> @[b]]]

Page(n) == <<"page", n>>

NoHeap == [pages |-> <<>>, size |-> 0, used |-> 0]

_pbcH_new(m, pagesize) ==
  LET cap == Doubled(HeapSize, pagesize) IN
     [WithBlock(m, Page(1), cap) EXCEPT
        !.heap = [pages |-> <<Page(1)>>, size |-> cap, used |-> 0]]

RoundUp(size) == ((size + Align - 1) \div Align) * Align

WithHeap(m, pages, used) ==
  [m EXCEPT !.heap = [pages |-> pages, size |-> @.size, used |-> used]]

(* Mutant: a new page does not count what it was made for as used. *)
_pbcH_alloc_unused(m, size) ==
  LET sz == RoundUp(size)
      h == m.heap
      p == Page(Len(h.pages) + 1)
  IN IF h.size - h.used < sz
     THEN [mem |-> WithHeap(WithBlock(m, p, Max({h.size, sz})),
                            <<p>> \o h.pages, 0),
           at |-> Region(p, 0, size)]
     ELSE [mem |-> WithHeap(m, h.pages, h.used + sz),
           at |-> Region(Head(h.pages), h.used, size)]

(* From the current page; else from a new one, which is as large as the     *)
(* heap's pages or, for a size beyond them, just as large as needed.        *)
_pbcH_alloc(m, size) ==
  LET sz == RoundUp(size)
      h == m.heap
      p == Page(Len(h.pages) + 1)
  IN IF h.size - h.used < sz
     THEN [mem |-> WithHeap(WithBlock(m, p, IF sz < h.size THEN h.size ELSE sz),
                            <<p>> \o h.pages, sz),
           at |-> Region(p, 0, size)]
     ELSE [mem |-> WithHeap(m, h.pages, h.used + sz),
           at |-> Region(Head(h.pages), h.used, size)]

HasHeap(m) == m.heap # NoHeap

HMALLOC(m, b, size) ==
  IF HasHeap(m) THEN _pbcH_alloc(m, size) ELSE _pbcM_malloc(m, b, size)

_pbcH_delete(m) == [_pbcM_free(m, ToSet(m.heap.pages)) EXCEPT !.heap = NoHeap]

-----------------------------------------------------------------------------
(* The table. Entries are added in two ways: the value is made first and    *)
(* entered (rmessage.c, a field that is read once), or the name is entered  *)
(* and the value made for its slot (_get_packed, a repeated field).         *)

SlotBytes(m) == sp_cap(m) * SlotSize
SlotsOf(m) == <<"slots", sp_cap(m)>>
NextValue == <<"value", Len(values) + 1>>

Entries == [size |-> map.size, slot |-> map.slot]

Closed(k) == sp_find(Entries, k) = 0

(* Memory and region of the slots of `new`: a rehash gets new ones and      *)
(* frees the old, unless they are the heap's.                               *)
WithSlots(m, new) ==
  IF sp_cap(new) = sp_cap(Entries) THEN [mem |-> m, at |-> map.at]
  ELSE LET got == HMALLOC(m, SlotsOf(new), SlotBytes(new))
       IN [got EXCEPT !.mem = IF HasHeap(m) THEN @
                              ELSE _pbcM_free(@, {map.at.block})]

(* The new entries, the slots' region and the new value's. *)
Entered(new, m, slots, value) ==
  /\ map' = [size |-> new.size, slot |-> new.slot, at |-> slots]
  /\ values' = Append(values, value)
  /\ mem' = m

Insert(k) ==
  /\ life = "open" /\ Closed(k) /\ map.size < MaxEntries
  /\ LET new == sp_insert(Entries, k, Len(values) + 1)
         value == HMALLOC(mem, NextValue, ValueSize)
         slots == WithSlots(value.mem, new)
     IN Entered(new, slots.mem, slots.at, value.at)
  /\ UNCHANGED <<array, pool, strings, life>>

QueryInsert(k) ==
  /\ life = "open" /\ Closed(k) /\ map.size < MaxEntries
  /\ LET named == sp_query_insert(Entries, k)
         slots == WithSlots(mem, named)
         value == HMALLOC(slots.mem, NextValue, ValueSize)
     IN Entered(sp_write(named, k, Len(values) + 1),
                value.mem, slots.at, value.at)
  /\ UNCHANGED <<array, pool, strings, life>>

-----------------------------------------------------------------------------
(* The array: the first entries in the array itself, then in memory that    *)
(* doubles whenever the number of entries is one less than a power of two.  *)

Garbage(n) == [i \in 1..n |-> NULL]

(* `old` in n cells. *)
Copied(old, number, n) == [i \in 1..n |-> IF i <= number THEN old[i] ELSE NULL]

(* ((size + 1) ^ size) > size: size + 1 is a power of two. *)
Grows(n) == Doubled(1, n + 1) = n + 1

(* Where a->a points as long as the entries are in the array itself. *)
Inner == Region(<<"inner", 0>>, 0, 0)

_pbcA_open == [number |-> 0, cells |-> Garbage(INNER_FIELD), at |-> Inner]

(* The array and the memory before the entry is written. *)
Room(a, m) ==
  LET n == a.number
      Moved(cap, kept) ==
        LET got == HMALLOC(m, <<"array", cap>>, cap * VarSize)
        IN [mem |-> IF HasHeap(m) \/ a.at = Inner THEN got.mem
                    ELSE _pbcM_free(got.mem, {a.at.block}),
            array |-> [number |-> n, cells |-> Copied(a.cells, kept, cap),
                       at |-> got.at]]
  IN IF n = INNER_FIELD THEN Moved(Doubled(1, n + 2), INNER_FIELD)
     ELSE IF n > INNER_FIELD /\ Grows(n) THEN Moved((n + 1) * 2, n)
     ELSE [mem |-> m, array |-> a]

Push(v) ==
  /\ life = "open" /\ array.number < MaxPushed
  /\ LET r == Room(array, mem)
         n == array.number + 1
     IN /\ mem' = r.mem
        /\ array' = [number |-> n, cells |-> [r.array.cells EXCEPT ![n] = v],
                     at |-> r.array.at]
  /\ UNCHANGED <<map, values, pool, strings, life>>

-----------------------------------------------------------------------------
(* The string pool: strings share a page while they fit with room to spare. *)

_pbcS_new(b) == [page |-> b, len |-> 0, chain |-> <<b>>]

NextString == <<"string", Len(strings) + 1>>

(* A string of its own block leaves the current page as it is. *)
NewPage(s) ==
  LET own == s > PAGE_SIZE
      got == _pbcM_malloc(mem, NextString, IF own THEN s ELSE PAGE_SIZE)
  IN /\ mem' = got.mem
     /\ pool' = [page  |-> IF own THEN pool.page ELSE got.at.block,
                 len   |-> IF own THEN pool.len ELSE s,
                 chain |-> Append(pool.chain, got.at.block)]
     /\ strings' = Append(strings, Region(got.at.block, 0, s))

_pbcS_build(sz) ==
  /\ life = "open" /\ ~HasHeap(mem) /\ Len(strings) < MaxStrings
  /\ LET s == sz + 1 IN
     IF s < PAGE_SIZE - pool.len
     THEN /\ pool' = [pool EXCEPT !.len = @ + s]
          /\ strings' = Append(strings, Region(pool.page, pool.len, s))
          /\ UNCHANGED mem
     ELSE NewPage(s)
  /\ UNCHANGED <<map, values, array, life>>

-----------------------------------------------------------------------------
(* The end: pbc_delete and free_msg without a heap, _pbcH_delete with one.  *)

Met(m) == ToSet(sp_foreach(m))

Delete ==
  /\ life = "open" /\ life' = "closed"
  /\ mem' = IF HasHeap(mem) THEN _pbcH_delete(mem)
            ELSE _pbcM_free(mem,
                   {values[p].block : p \in Met(Entries)}
                     \cup {map.at.block}
                     \cup (IF array.at = Inner THEN {} ELSE {array.at.block})
                     \cup ToSet(pool.chain))
  /\ UNCHANGED <<map, values, array, pool, strings>>

NoMemory == [blocks |-> <<>>, heap |-> NoHeap]

FirstPage == <<"string", 0>>

(* A message's heap and the table of its fields, sized for what was read;   *)
(* or a table of the environment, which begins with one slot.               *)
Init ==
  \E onHeap \in BOOLEAN, max \in {1, 3} :
    LET base  == IF onHeap THEN _pbcH_new(NoMemory, max * HeapSize)
                           ELSE WithBlock(NoMemory, FirstPage, PAGE_SIZE)
        table == sp_new(IF onHeap THEN max ELSE 0)
        slots == HMALLOC(base, SlotsOf(table), SlotBytes(table))
    IN /\ mem = slots.mem
       /\ map = [size |-> 0, slot |-> table.slot, at |-> slots.at]
       /\ values = <<>>
       /\ array = _pbcA_open
       /\ pool = IF onHeap THEN NULL ELSE _pbcS_new(FirstPage)
       /\ strings = <<>>
       /\ life = "open"

Next ==
  \/ \E k \in Keys : Insert(k) \/ QueryInsert(k)
  \/ \E v \in Values : Push(v)
  \/ \E sz \in StringSizes : _pbcS_build(sz)
  \/ Delete

Spec == Init /\ [][Next]_vars

-----------------------------------------------------------------------------
(* The regions that are in use. *)
InUse ==
  ToSet(values) \cup ToSet(strings) \cup {map.at}
    \cup (IF array.at = Inner THEN {} ELSE {array.at})

Apart(r, s) ==
  r.block # s.block \/ r.off + r.len <= s.off \/ s.off + s.len <= r.off

(* What the containers use lies inside memory they have and nothing         *)
(* overlaps, after any mix of pages, pages of their own and regrown tables; *)
(* and the array writes inside its cells. Deleting gives back every block:  *)
(* pages, grown arrays and the slots that tables grew out of.               *)
MemorySafe ==
  /\ life = "closed" => DOMAIN mem.blocks = {}
  /\ life = "open" =>
    /\ Cardinality(InUse)
         = Len(values) + Len(strings) + (IF array.at = Inner THEN 1 ELSE 2)
    /\ \A r \in InUse :
         /\ r.block \in DOMAIN mem.blocks
         /\ r.off + r.len <= mem.blocks[r.block]
         /\ r.len > 0
         /\ \A s \in InUse \ {r} : Apart(r, s)
    /\ array.number <= Len(array.cells)

(* Walking a table by sp_next, as pbc_rmessage_next does, ends and visits   *)
(* every name once, whatever chains its slots have been woven into; foreach *)
(* meets the same entries in the same order.                                *)
IterationComplete ==
  LET walk[n \in 1..MaxEntries + 1] ==
        IF n = 1 THEN sp_next(Entries, NULL)
        ELSE IF walk[n-1] = NULL THEN NULL ELSE sp_next(Entries, walk[n-1])
      names == {k \in Keys : ~Closed(k)}
  IN /\ Cardinality(names) = map.size
     /\ \A n \in DOMAIN walk : walk[n] = NULL <=> n > map.size
     /\ {walk[n] : n \in 1..map.size} = names
     /\ sp_foreach(Entries) = [n \in 1..map.size |-> sp_query(Entries, walk[n])]

(* Names are found with the pointer they were entered with and lists keep   *)
(* their entries, through every rehash and every move.                      *)
Promise == INSTANCE StorePromise WITH
  Pointers <- 1..MaxEntries,
  dict <- [k \in Keys |-> sp_query(Entries, k)],
  list <- SubSeq(array.cells, 1, array.number)

KeepsPromise == Promise!PromiseSpec
=============================================================================
