------------------------------- MODULE ChMem -------------------------------
(***************************************************************************)
(* The allocators: the core allocator (chmemcore.c), the heap that takes   *)
(* its memory from it (chheap.c) and a memory pool that does the same      *)
(* (chmempools.c).  Memory is the interval of addresses 0..MemEnd-1; a      *)
(* block is where its header is and the size behind the header.            *)
(*                                                                         *)
(* The search and the insertion run under the mutex of the heap, a step    *)
(* each; but chHeapAlloc gives the mutex back before it turns to the core, *)
(* so others allocate and free in between.                                 *)
(***************************************************************************)
EXTENDS Integers, SequencesExt

CONSTANTS Clients,     \* threads that allocate
          MemEnd,      \* endmem - nextmem at the start
          Align,       \* MEM_ALIGN_SIZE, also sizeof(union heap_header)
          SizeMod,     \* 2^32: size_t wraps around there
          Asks,        \* sizes asked for, 0 apart
          ObjSize      \* mp_object_size

ASSUME MemAssumption ==
    /\ {Align, SizeMod} \subseteq Nat \ {0} /\ {MemEnd, ObjSize} \subseteq Nat
    /\ MemEnd % Align = 0 /\ MemEnd + 2 * Align < SizeMod
    /\ Asks \subseteq 1..(SizeMod - 1)

VARIABLES h_free,    \* the free list of the heap, in the order of its links
          nextmem,
          mp_next,   \* the free objects of the pool
          asking,    \* what a client has not found in the heap, 0 for none
          held       \* the blocks given out: where, room, what was asked

memvars == <<h_free, nextmem, mp_next, asking, held>>

MemInit ==
    /\ h_free = <<>> /\ nextmem = 0 /\ mp_next = <<>>
    /\ asking = [c \in Clients |-> 0]
    /\ held = {}

Block(a, n) == [at |-> a, size |-> n]
LIMIT(b) == b.at + Align + b.size

\* MEM_ALIGN_NEXT
AlignNext(n) == (((n + Align - 1) % SizeMod) \div Align) * Align

Give(kind, a, n, ask) ==
    held' = held \cup {[kind |-> kind, at |-> a, size |-> n, ask |-> ask]}

-----------------------------------------------------------------------------
(* The core allocator. *)

\* chCoreAllocI
CoreFits(n) == MemEnd - nextmem >= AlignNext(n)

\* chCoreAlloc by a client of its own: sbrk, a thread of the lwIP bindings.
chCoreAlloc(n) ==
    /\ CoreFits(n)
    /\ nextmem' = nextmem + AlignNext(n)
    /\ Give("core", nextmem, AlignNext(n), n)
    /\ UNCHANGED <<h_free, mp_next, asking>>

-----------------------------------------------------------------------------
(* The heap. *)

\* "Block bigger enough, must split it."
Split(b, n) == b.size >= n + Align

\* The search of chHeapAlloc: the first block that is large enough.
HeapSearch(c, ask) ==
    LET n   == AlignNext(ask)
        hit == {i \in DOMAIN h_free : h_free[i].size >= n}
        i   == CHOOSE x \in hit : \A y \in hit : x <= y
        hp  == h_free[i]
        fp  == Block(hp.at + Align + n, hp.size - Align - n)
    IN  /\ asking[c] = 0
        /\ IF hit # {}
           THEN /\ h_free' = IF Split(hp, n) THEN [h_free EXCEPT ![i] = fp]
                                             ELSE RemoveAt(h_free, i)
                /\ Give("heap", hp.at, IF Split(hp, n) THEN n ELSE hp.size, ask)
                /\ UNCHANGED asking
           ELSE asking' = [asking EXCEPT ![c] = ask] /\ UNCHANGED <<h_free, held>>
        /\ UNCHANGED <<nextmem, mp_next>>

\* "More memory is required": from the provider, or the allocation fails.
HeapProvider(c) ==
    LET n == AlignNext(asking[c]) IN
    /\ asking[c] # 0
    /\ asking' = [asking EXCEPT ![c] = 0]
    /\ IF CoreFits(n + Align)
       THEN /\ nextmem' = nextmem + AlignNext(n + Align)
            /\ Give("heap", nextmem, n, asking[c])
       ELSE UNCHANGED <<nextmem, held>>
    /\ UNCHANGED <<h_free, mp_next>>

\* Where chHeapFree inserts: after the first of the list (0 is its head) that
\* lies before the block with the next one behind it.
HeapPlace(hp) ==
    CHOOSE i \in 0..Len(h_free) :
        /\ i = 0 \/ hp.at > h_free[i].at
        /\ i = Len(h_free) \/ hp.at < h_free[i + 1].at

\* Mutant: merged with the next block only.
Inserted_NoPrevious(hp) ==
    LET i    == HeapPlace(hp)
        next == i < Len(h_free) /\ LIMIT(hp) = h_free[i + 1].at
        here == IF next THEN Block(hp.at, hp.size + h_free[i + 1].size + Align)
                        ELSE hp
    IN  SubSeq(h_free, 1, i) \o <<here>>
            \o SubSeq(h_free, IF next THEN i + 2 ELSE i + 1, Len(h_free))

\* The list with the block in it, merged with its neighbours.
Inserted(hp) ==
    LET i    == HeapPlace(hp)
        next == i < Len(h_free) /\ LIMIT(hp) = h_free[i + 1].at
        here == IF next THEN Block(hp.at, hp.size + h_free[i + 1].size + Align)
                        ELSE hp
        rest == SubSeq(h_free, IF next THEN i + 2 ELSE i + 1, Len(h_free))
        prev == i > 0 /\ LIMIT(h_free[i]) = hp.at
    IN  IF prev
        THEN SubSeq(h_free, 1, i - 1)
             \o <<Block(h_free[i].at, h_free[i].size + here.size + Align)>> \o rest
        ELSE SubSeq(h_free, 1, i) \o <<here>> \o rest

chHeapFree(b) ==
    /\ b \in held /\ b.kind = "heap"
    /\ h_free' = Inserted(Block(b.at, b.size))
    /\ held' = held \ {b}
    /\ UNCHANGED <<nextmem, mp_next, asking>>

-----------------------------------------------------------------------------
(* The pool. *)

\* chPoolAllocI
chPoolAlloc ==
    /\ IF mp_next # <<>>
       THEN /\ mp_next' = Tail(mp_next)
            /\ Give("pool", Head(mp_next), ObjSize, ObjSize)
            /\ UNCHANGED nextmem
       ELSE /\ CoreFits(ObjSize)
            /\ nextmem' = nextmem + AlignNext(ObjSize)
            /\ Give("pool", nextmem, ObjSize, ObjSize)
            /\ UNCHANGED mp_next
    /\ UNCHANGED <<h_free, asking>>

chPoolFree(b) ==
    /\ b \in held /\ b.kind = "pool"
    /\ mp_next' = <<b.at>> \o mp_next
    /\ held' = held \ {b}
    /\ UNCHANGED <<h_free, nextmem, asking>>

MemNext ==
    \/ \E c \in Clients : HeapProvider(c) \/ \E n \in Asks : HeapSearch(c, n)
    \/ \E n \in Asks : chCoreAlloc(n)
    \/ chPoolAlloc
    \/ \E b \in held : chHeapFree(b) \/ chPoolFree(b)

-----------------------------------------------------------------------------
(* Properties. *)

MemTypeOK ==
    /\ nextmem \in 0..MemEnd /\ asking \in [Clients -> {0} \cup Asks]
    /\ \A i \in DOMAIN h_free : h_free[i].at \in 0..MemEnd
    /\ \A b \in held : b.kind \in {"heap", "core", "pool"} /\ b.at \in 0..MemEnd

\* The addresses of a block given out, its header included, and of free ones.
Extent(b) ==
    b.at..(CASE b.kind = "heap" -> LIMIT(b) - 1
             [] b.kind = "core" -> b.at + b.size - 1
             [] OTHER -> b.at + AlignNext(ObjSize) - 1)
Pieces ==
    {Extent(b) : b \in held}
    \cup {h_free[i].at..(LIMIT(h_free[i]) - 1) : i \in DOMAIN h_free}
    \cup {a..(a + AlignNext(ObjSize) - 1) : a \in ToSet(mp_next)}

\* Memory is neither lost nor given twice: the blocks in use, those in the free
\* list and those in the pool cover what was taken from the core, and no two
\* of them share an address, whatever was split and merged.
MemoryTiled ==
    /\ UNION Pieces = 0..(nextmem - 1)
    /\ \A p, q \in Pieces : p # q => p \cap q = {}
    /\ Cardinality(Pieces \ {{}}) =
          Cardinality({b \in held : Extent(b) # {}}) + Len(h_free) + Len(mp_next)

\* The free list is in address order and no two of its blocks touch: what
\* chHeapFree relies on to find its place, and what keeps the heap from
\* falling to pieces.
Coalesced ==
    \A i \in 1..(Len(h_free) - 1) : LIMIT(h_free[i]) < h_free[i + 1].at

\* A block has the room that was asked for.
RoomAsked == \A b \in held : b.size >= b.ask

\* The memory as a whole: tiled, merged where it can be, and enough of it.
MemoryOK == MemTypeOK /\ MemoryTiled /\ Coalesced /\ RoomAsked
=============================================================================
