------------------------------- MODULE PbcMap -------------------------------
(* The tables of pbc/src/map.c: string to pointer (map_sp), string to id    *)
(* (map_si) and id to pointer (map_ip). All chain their entries inside one  *)
(* array of slots: an entry whose home slot is taken goes to a free slot    *)
(* that is linked behind the home slot or at the end of its chain, whatever *)
(* chain the home slot is part of. Slots are numbered from 1, as the links  *)
(* `next` are in the code; 0 ends a chain.                                  *)
EXTENDS Integers, Sequences, FiniteSetsExt, SequencesExt

CONSTANTS
  NULL,           \* no key, no pointer
  UnsignedRange,  \* what (unsigned) adds to a negative id: 2^32
  calc_hash(_)    \* the hash of a string, which is not 0

EmptySlot == [key |-> NULL, pointer |-> NULL, next |-> 0]

EmptySlots(cap) == [i \in 1..cap |-> EmptySlot]

(* The slot of key on the chain that begins at home; 0 if it is not there.  *)
(* A name whose hash is 0 is not looked up: it meets the hash 0 of an empty *)
(* home slot, and strcmp gets that slot's key, which is NULL (map.c:386).   *)
Find(slot, home, key) ==
  LET from[i \in 0..Len(slot)] ==
        IF i = 0 THEN 0 ELSE IF slot[i].key = key THEN i ELSE from[slot[i].next]
  IN from[home]

(* The slot that ends the chain that begins at home. *)
LastOn(slot, home) ==
  LET from[i \in 1..Len(slot)] ==
        IF slot[i].next = 0 THEN i ELSE from[slot[i].next]
  IN from[home]

(* Mutant: the chain behind `at` is cut off. *)
PlaceUnlinked(slot, home, at, empty, key, p) ==
  IF slot[home].key = NULL
  THEN [slot EXCEPT ![home].key = key, ![home].pointer = p]
  ELSE [slot EXCEPT ![empty] = [key |-> key, pointer |-> p, next |-> 0],
                    ![at].next = empty]

(* A new entry, in its home slot or in the free slot `empty`, which is      *)
(* linked behind `at`, a slot of the chain that begins at home.             *)
Place(slot, home, at, empty, key, p) ==
  IF slot[home].key = NULL
  THEN [slot EXCEPT ![home].key = key, ![home].pointer = p]
  ELSE [slot EXCEPT
          ![empty] = [key |-> key, pointer |-> p, next |-> slot[at].next],
          ![at].next = empty]

-----------------------------------------------------------------------------
(* map_sp: grows by rehashing into twice as many slots when it is full.     *)

sp_empty(cap) == [size |-> 0, slot |-> EmptySlots(cap)]
sp_cap(m) == Len(m.slot)

(* `cap` doubled until it reaches `want`. *)
Doubled(cap, want) ==
  LET twice[c \in Nat] == IF c < want THEN twice[2 * c] ELSE c
  IN twice[cap]

sp_new(max) == sp_empty(Doubled(1, max))

sp_home(m, key) == (calc_hash(key) % sp_cap(m)) + 1

(* The first free slot after home, from the last slot on to the first. *)
sp_free(m, home) ==
  LET Nth(n) == ((home - 1 + n) % sp_cap(m)) + 1
  IN Nth(Min({n \in 1..sp_cap(m) : m.slot[Nth(n)].key = NULL}))

sp_place(m, key, p, at) ==
  LET home == sp_home(m, key) IN
  [size |-> m.size + 1,
   slot |-> Place(m.slot, home, at,
                  IF m.slot[home].key = NULL THEN 0 ELSE sp_free(m, home),
                  key, p)]

sp_full(m) == sp_cap(m) <= m.size

(* The old slots are entered one after the other. *)
sp_rehash(m) ==
  LET twice[i \in 0..sp_cap(m)] ==
        IF i = 0 THEN sp_empty(2 * sp_cap(m))
        ELSE sp_place(twice[i-1], m.slot[i].key, m.slot[i].pointer,
                      sp_home(twice[i-1], m.slot[i].key))
  IN twice[sp_cap(m)]

sp_room(m) == IF sp_full(m) THEN sp_rehash(m) ELSE m

(* _pbcM_sp_insert adds an entry, right behind its home slot; it does not   *)
(* look for an old one.                                                     *)
sp_insert(m, key, p) ==
  sp_place(sp_room(m), key, p, sp_home(sp_room(m), key))

sp_find(m, key) == Find(m.slot, sp_home(m, key), key)

sp_query(m, key) ==
  LET i == sp_find(m, key) IN IF i = 0 THEN NULL ELSE m.slot[i].pointer

(* _pbcM_sp_query_insert has walked the chain to its end and links the new  *)
(* entry there. Its caller writes through its result.                       *)
sp_query_insert(m, key) ==
  LET y == sp_room(m) IN
  IF sp_find(m, key) # 0 THEN m
  ELSE sp_place(y, key, NULL, LastOn(y.slot, sp_home(y, key)))

sp_write(m, key, p) == [m EXCEPT !.slot[sp_find(m, key)].pointer = p]

(* What foreach calls its function with, in the order of the slots. *)
sp_foreach(m) ==
  LET met[i \in 0..sp_cap(m)] ==
        IF i = 0 THEN <<>>
        ELSE IF m.slot[i].pointer = NULL THEN met[i-1]
        ELSE Append(met[i-1], m.slot[i].pointer)
  IN met[sp_cap(m)]

(* Mutant: goes on in the chain, not in the array. *)
sp_next_in_chain(m, key) ==
  LET i == IF key = NULL THEN 0 ELSE sp_find(m, key)
      later == IF i = 0
               THEN {j \in 1..sp_cap(m) : m.slot[j].pointer # NULL}
               ELSE {m.slot[i].next} \ {0}
  IN IF later = {} THEN NULL ELSE m.slot[Min(later)].key

(* _pbcM_sp_next: the key after `key`, the first one after NULL. *)
sp_next(m, key) ==
  LET i == IF key = NULL THEN 0 ELSE sp_find(m, key)
      later == {j \in (i + 1)..sp_cap(m) : m.slot[j].pointer # NULL}
  IN IF later = {} \/ (key # NULL /\ i = 0)
     THEN NULL ELSE m.slot[Min(later)].key

-----------------------------------------------------------------------------
(* The tables that are built once, of a sequence of [id, pointer].          *)

(* Every entry at its home or in the first slot that is free; an entry is   *)
(* [key, pointer, home].                                                    *)
Build(entries) ==
  FoldLeft(LAMBDA slot, e :
             Place(slot, e.home, e.home,
                   Min({i \in DOMAIN slot : slot[i].key = NULL}),
                   e.key, e.pointer),
           EmptySlots(Len(entries)), entries)

(* map_si: from the strings of a table to its ids. *)
si_home(size, key) == (calc_hash(key) % size) + 1

si_new(table) ==
  Build([i \in DOMAIN table |->
           [key |-> table[i].pointer, pointer |-> table[i].id,
            home |-> si_home(Len(table), table[i].pointer)]])

si_query(slot, key) ==
  LET i == Find(slot, si_home(Len(slot), key), key)
  IN IF i = 0 THEN NULL ELSE slot[i].pointer

(* map_ip: an array of the pointers if the ids are dense, or a table. *)
ip_home(size, id) ==
  ((IF id < 0 THEN id + UnsignedRange ELSE id) % size) + 1

ip_dense(table) ==
  \A i \in DOMAIN table : table[i].id \in 0..(2 * Len(table))

ip_new(table) ==
  IF ip_dense(table)
  THEN [array |->
          [id \in 0..Max({table[i].id : i \in DOMAIN table}) |->
             LET at == {i \in DOMAIN table : table[i].id = id}
             IN IF at = {} THEN NULL ELSE table[Max(at)].pointer],
        slot |-> <<>>]
  ELSE [array |-> <<>>,
        slot |-> Build([i \in DOMAIN table |->
                          [key |-> table[i].id, pointer |-> table[i].pointer,
                           home |-> ip_home(Len(table), table[i].id)]])]

ip_query(m, id) ==
  IF m.slot = <<>>
  THEN IF id \in DOMAIN m.array THEN m.array[id] ELSE NULL
  ELSE LET i == Find(m.slot, ip_home(Len(m.slot), id), id)
       IN IF i = 0 THEN NULL ELSE m.slot[i].pointer
=============================================================================
