-------------------------------- MODULE Arena --------------------------------
(***************************************************************************)
(* sensible-arena: the region allocator of                                 *)
(* sensible-allocators/sensible-arena, at the level of its addresses,      *)
(* chunk headers and linked lists.                                         *)
(*                                                                         *)
(* Addresses are integers, as in the code, which keeps them in uintptr_t.  *)
(* A chunk is one malloc block: a header at its address, then capacity     *)
(* bytes.  The arena allocates downwards from top to bottom in the current *)
(* chunk; the chunks behind it (ptr of the current header) are in use, the *)
(* chunks on fresh_chunks are waiting to be reused.                        *)
(*                                                                         *)
(* One caller drives the arena (the struct has no lock).  The loops of     *)
(* senarena_alloc_more, senarena_join_chunk_chains and                     *)
(* senarena_free_chunk_chain run one iteration per step.                   *)
(***************************************************************************)
EXTENDS Integers, Sequences, FiniteSets

CONSTANTS
  HeaderSize,       \* sizeof(struct senarena_chunk_header)
  DefaultChunkSize, \* SENARENA_DEFAULT_CHUNK_SIZE
  MallocAlign,      \* every address malloc returns is a multiple of this
  Addresses,        \* the addresses malloc may return
  Sizes,            \* the byte amounts callers ask for
  Alignments,       \* the alignments callers ask for
  MaxWatched        \* bound: how many allocations at once are followed in live

NULL == 0

ASSUME ArenaConstants ==
  /\ HeaderSize \in Nat \ {0}
  /\ DefaultChunkSize \in Nat
  /\ MallocAlign \in Nat \ {0}
  /\ Addresses \subseteq Nat \ {NULL}
  /\ Sizes \subseteq Nat
  /\ Alignments \subseteq Nat \ {0}

VARIABLES
  pc,            \* where the code is; "idle" when the caller has control
  top,           \* struct senarena: the first unfree byte
  bottom,        \* struct senarena: the current chunk, after its header
  fresh_chunks,  \* struct senarena: the next reusable chunk
  heap,          \* addresses of the chunks malloced and not yet freed
  ptr,           \* struct senarena_chunk_header.ptr of each chunk
  capacity,      \* struct senarena_chunk_header.capacity of each chunk
  req,           \* arguments of the running senarena_alloc_more
  curr_a, curr_b, next_a, next_b, \* locals of senarena_join_chunk_chains
  cursor,        \* current of the running senarena_free_chunk_chain
  live,          \* allocations the caller holds, of those that are followed
  oldChain,      \* auxiliary: the current chunk, then the used ones behind it
  freshChain     \* auxiliary: the chunks waiting on fresh_chunks, in order

arenaVars == <<top, bottom, fresh_chunks>>
heapVars  == <<heap, ptr, capacity>>
joinVars  == <<curr_a, curr_b, next_a, next_b>>
chainVars == <<oldChain, freshChain>>
vars == <<pc, arenaVars, heapVars, req, joinVars, cursor, live, chainVars>>

Request == [amount : Sizes, alignment : Alignments]
NoRequest == [amount |-> 0, alignment |-> 1]

-----------------------------------------------------------------------------
(* Address arithmetic.                                                     *)

\* ptr & (alignment - 1), for an alignment that is a power of two
senarena_extra_bytes_needed(address, alignment) == address % alignment

senarena_extra_fresh_bytes_needed(alignment) ==
  LET start == IF alignment > HeaderSize THEN alignment - HeaderSize
                                         ELSE HeaderSize
  IN  senarena_extra_bytes_needed(start, alignment)

\* Wrong on purpose (as every Wrong... below): a variant of the next definition
\* with a mistake, for which a run must find a property violated.
\* Here the last byte of the allocation is forgotten.
WrongAmount(r) ==
  r.amount - 1 + senarena_extra_bytes_needed(top - r.amount, r.alignment)

\* amount_and_padding for a request served from the current chunk
AmountAndPadding(r) ==
  r.amount + senarena_extra_bytes_needed(top - r.amount, r.alignment)

\* the padding left out of the test for room
WrongFits(r) == r.amount <= top - bottom

\* the header counted as free space
WrongRoom(r) == AmountAndPadding(r) <= top - bottom + HeaderSize

Fits(r) == AmountAndPadding(r) <= top - bottom

\* amount >= SENARENA_DEFAULT_CHUNK_SIZE >> 2
IsLarge(r) == r.amount >= DefaultChunkSize \div 4

Current == bottom - HeaderSize

End(chunk) == chunk + HeaderSize + capacity[chunk]

-----------------------------------------------------------------------------
(* malloc, free and exit, as the arena uses them.                          *)

\* malloc returns an aligned block that overlaps no block still allocated
MayReturn(chunk, size) ==
  /\ chunk \in Addresses
  /\ chunk % MallocAlign = 0
  /\ \A c \in heap : chunk + HeaderSize + size <= c \/ End(c) <= chunk

senarena_chunk_new(chunk, size, p) ==
  /\ MayReturn(chunk, size)
  /\ heap' = heap \cup {chunk}
  /\ ptr' = [ptr EXCEPT ![chunk] = p]
  /\ capacity' = [capacity EXCEPT ![chunk] = size]

\* free: the header is gone with the block
Release(chunk) ==
  /\ heap' = heap \ {chunk}
  /\ ptr' = [ptr EXCEPT ![chunk] = NULL]
  /\ capacity' = [capacity EXCEPT ![chunk] = 0]

\* return address to the caller.  An allocation is followed in live or not:
\* the properties of live are about one or two allocations at a time, so every
\* choice of MaxWatched of them is looked at instead of all at once.
HandOut(address, r) ==
  \/ UNCHANGED live
  \/ /\ Cardinality(live) < MaxWatched
     /\ live' = live \cup
          {[addr |-> address, size |-> r.amount, align |-> r.alignment]}

-----------------------------------------------------------------------------
Init ==
  /\ pc = "none"
  /\ top = NULL /\ bottom = NULL /\ fresh_chunks = NULL
  /\ heap = {}
  /\ ptr = [c \in Addresses |-> NULL]
  /\ capacity = [c \in Addresses |-> 0]
  /\ req = NoRequest
  /\ curr_a = NULL /\ curr_b = NULL /\ next_a = NULL /\ next_b = NULL
  /\ cursor = NULL
  /\ live = {}
  /\ oldChain = <<>> /\ freshChain = <<>>

\* senarena_new
New ==
  /\ pc = "none"
  /\ \E chunk \in Addresses :
       /\ senarena_chunk_new(chunk, DefaultChunkSize, NULL)
       /\ bottom' = chunk + HeaderSize
       /\ top' = chunk + HeaderSize + DefaultChunkSize
       /\ oldChain' = <<chunk>>
  /\ fresh_chunks' = NULL
  /\ freshChain' = <<>>
  /\ pc' = "idle"
  /\ UNCHANGED <<req, joinVars, cursor, live>>

\* top is lowered by the amount only, the padding stays free
WrongAllocFast(r) ==
  /\ pc = "idle"
  /\ Fits(r)
  /\ top' = top - r.amount
  /\ HandOut(top - AmountAndPadding(r), r)
  /\ UNCHANGED <<pc, bottom, fresh_chunks, heapVars, req, joinVars, cursor, chainVars>>

\* senarena_alloc, when the request fits the current chunk
AllocFast(r) ==
  /\ pc = "idle"
  /\ Fits(r)
  /\ top' = top - AmountAndPadding(r)
  /\ HandOut(top', r)
  /\ UNCHANGED <<pc, bottom, fresh_chunks, heapVars, req, joinVars, cursor, chainVars>>

\* senarena_alloc, when it does not: the call to senarena_alloc_more
AllocSlow(r) ==
  /\ pc = "idle"
  /\ ~Fits(r)
  /\ req' = r
  /\ pc' = "alloc_more"
  /\ UNCHANGED <<arenaVars, heapVars, joinVars, cursor, live, chainVars>>

\* senarena_alloc_more: a large request gets a chunk of its own, linked in
\* behind the current chunk, which stays current
MoreLarge ==
  /\ pc = "alloc_more"
  /\ ~Fits(req)
  /\ IsLarge(req)
  /\ LET extra == senarena_extra_fresh_bytes_needed(req.alignment)
         size  == req.amount + extra
     IN  \E chunk \in Addresses :
           /\ MayReturn(chunk, size)
           /\ heap' = heap \cup {chunk}
           /\ ptr' = [ptr EXCEPT ![chunk] = ptr[Current], ![Current] = chunk]
           /\ capacity' = [capacity EXCEPT ![chunk] = size]
           /\ HandOut(chunk + HeaderSize + extra, req)
           /\ oldChain' = <<Current>> \o (<<chunk>> \o Tail(oldChain))
  /\ pc' = "idle"
  /\ req' = NoRequest
  /\ UNCHANGED <<arenaVars, joinVars, cursor, freshChain>>

\* the chunk's capacity reset to the default when it is reused
WrongMoreReuse ==
  /\ pc = "alloc_more"
  /\ ~Fits(req) /\ ~IsLarge(req) /\ fresh_chunks # NULL
  /\ fresh_chunks' = ptr[fresh_chunks]
  /\ ptr' = [ptr EXCEPT ![fresh_chunks] = Current]
  /\ capacity' = [capacity EXCEPT ![fresh_chunks] = DefaultChunkSize]
  /\ top' = fresh_chunks + HeaderSize + DefaultChunkSize
  /\ bottom' = fresh_chunks + HeaderSize
  /\ oldChain' = <<fresh_chunks>> \o oldChain
  /\ freshChain' = Tail(freshChain)
  /\ UNCHANGED <<pc, heap, req, joinVars, cursor, live>>

\* senarena_alloc_more: make the next reusable chunk current and try again
MoreReuse ==
  /\ pc = "alloc_more"
  /\ ~Fits(req)
  /\ ~IsLarge(req)
  /\ fresh_chunks # NULL
  /\ LET next == fresh_chunks
     IN  /\ fresh_chunks' = ptr[next]
         /\ ptr' = [ptr EXCEPT ![next] = Current]
         /\ top' = End(next)
         /\ bottom' = next + HeaderSize
         /\ oldChain' = <<next>> \o oldChain
         /\ freshChain' = Tail(freshChain)
  /\ UNCHANGED <<pc, heap, capacity, req, joinVars, cursor, live>>

\* senarena_alloc_more: nothing to reuse, so a new default chunk becomes
\* current and the request is taken from its top.  amount_and_padding is the
\* local computed at the head of the loop, from the top of the previous chunk.
MoreNew ==
  /\ pc = "alloc_more"
  /\ ~Fits(req)
  /\ ~IsLarge(req)
  /\ fresh_chunks = NULL
  /\ \E chunk \in Addresses :
       /\ senarena_chunk_new(chunk, DefaultChunkSize, Current)
       /\ bottom' = chunk + HeaderSize
       /\ top' = bottom' + DefaultChunkSize - AmountAndPadding(req)
       /\ oldChain' = <<chunk>> \o oldChain
  /\ HandOut(top', req)
  /\ pc' = "idle"
  /\ req' = NoRequest
  /\ UNCHANGED <<fresh_chunks, joinVars, cursor, freshChain>>

\* senarena_alloc_more: a reused chunk has the room
MoreFits ==
  /\ pc = "alloc_more"
  /\ Fits(req)
  /\ top' = top - AmountAndPadding(req)
  /\ HandOut(top', req)
  /\ pc' = "idle"
  /\ req' = NoRequest
  /\ UNCHANGED <<bottom, fresh_chunks, heapVars, joinVars, cursor, chainVars>>

\* senarena_chunk_new: malloc returned NULL, so the process exits and its
\* memory is gone with it
MallocFails ==
  /\ \/ pc = "none"
     \/ pc = "alloc_more" /\ ~Fits(req) /\ (IsLarge(req) \/ fresh_chunks = NULL)
  /\ pc' = "exited"
  /\ top' = NULL /\ bottom' = NULL /\ fresh_chunks' = NULL
  /\ heap' = {}
  /\ ptr' = [c \in Addresses |-> NULL]
  /\ capacity' = [c \in Addresses |-> 0]
  /\ req' = NoRequest
  /\ live' = {}
  /\ oldChain' = <<>> /\ freshChain' = <<>>
  /\ UNCHANGED <<joinVars, cursor>>

-----------------------------------------------------------------------------
(* senarena_clear and the join of the two chains.                          *)

\* a pointer behind the header where one to the header is meant
WrongCleared(joined) ==
  /\ fresh_chunks' = joined + HeaderSize
  /\ oldChain' = <<Current>>
  /\ freshChain' = freshChain \o Tail(oldChain)

\* the assignments that end senarena_clear, joined being the joined chain
Cleared(joined) ==
  /\ fresh_chunks' = joined
  /\ oldChain' = <<Current>>
  /\ freshChain' = IF Len(freshChain) < Len(oldChain)
                   THEN freshChain \o Tail(oldChain)
                   ELSE Tail(oldChain) \o freshChain

\* the last assignment of senarena_clear, current->ptr = NULL, forgotten
WrongClearDirect ==
  /\ pc = "idle"
  /\ fresh_chunks = NULL \/ ptr[Current] = NULL
  /\ top' = End(Current)
  /\ live' = {}
  /\ Cleared(IF fresh_chunks = NULL THEN ptr[Current] ELSE fresh_chunks)
  /\ UNCHANGED <<pc, bottom, heapVars, req, joinVars, cursor>>

\* senarena_clear, when one of the chains is empty and the join returns at once
ClearDirect ==
  /\ pc = "idle"
  /\ fresh_chunks = NULL \/ ptr[Current] = NULL
  /\ top' = End(Current)
  /\ live' = {}
  /\ Cleared(IF fresh_chunks = NULL THEN ptr[Current] ELSE fresh_chunks)
  /\ ptr' = [ptr EXCEPT ![Current] = NULL]
  /\ UNCHANGED <<pc, bottom, heap, capacity, req, joinVars, cursor>>

\* senarena_clear, up to the head of the loop of senarena_join_chunk_chains
ClearJoin ==
  /\ pc = "idle"
  /\ fresh_chunks # NULL
  /\ ptr[Current] # NULL
  /\ top' = End(Current)
  /\ live' = {}
  /\ curr_a' = fresh_chunks
  /\ curr_b' = ptr[Current]
  /\ next_a' = ptr[fresh_chunks]
  /\ next_b' = ptr[ptr[Current]]
  /\ pc' = "join"
  /\ UNCHANGED <<bottom, fresh_chunks, heapVars, req, cursor, chainVars>>

\* the loop does not move on
WrongJoinStep ==
  /\ pc = "join"
  /\ next_a # NULL /\ next_b # NULL
  /\ curr_a' = next_a
  /\ curr_b' = next_b
  /\ UNCHANGED <<pc, arenaVars, heapVars, req, next_a, next_b, cursor, live, chainVars>>

\* one iteration of the loop of senarena_join_chunk_chains
JoinStep ==
  /\ pc = "join"
  /\ next_a # NULL /\ next_b # NULL
  /\ curr_a' = next_a
  /\ curr_b' = next_b
  /\ next_a' = ptr[next_a]
  /\ next_b' = ptr[next_b]
  /\ UNCHANGED <<pc, arenaVars, heapVars, req, cursor, live, chainVars>>

\* the end of senarena_join_chunk_chains and of senarena_clear
JoinEnd ==
  /\ pc = "join"
  /\ next_a = NULL \/ next_b = NULL
  /\ LET a == fresh_chunks
         b == ptr[Current]
     IN  IF next_a = NULL
         THEN /\ ptr' = [ptr EXCEPT ![curr_a] = b, ![Current] = NULL]
              /\ Cleared(a)
         ELSE /\ ptr' = [ptr EXCEPT ![curr_b] = a, ![Current] = NULL]
              /\ Cleared(b)
  /\ pc' = "idle"
  /\ curr_a' = NULL /\ curr_b' = NULL /\ next_a' = NULL /\ next_b' = NULL
  /\ UNCHANGED <<top, bottom, heap, capacity, req, cursor, live>>

-----------------------------------------------------------------------------
(* senarena_free: the chain of the current chunk, then the fresh one.      *)

FreeStart ==
  /\ pc = "idle"
  /\ cursor' = Current
  /\ live' = {}
  /\ pc' = "free_old"
  /\ UNCHANGED <<arenaVars, heapVars, req, joinVars, chainVars>>

\* the next pointer read from the header after it was freed
WrongFreeStep ==
  /\ pc \in {"free_old", "free_fresh"}
  /\ cursor # NULL
  /\ Release(cursor)
  /\ cursor' = ptr'[cursor]
  /\ oldChain' = IF pc = "free_old" THEN Tail(oldChain) ELSE oldChain
  /\ freshChain' = IF pc = "free_fresh" THEN Tail(freshChain) ELSE freshChain
  /\ UNCHANGED <<pc, arenaVars, req, joinVars, live>>

\* one iteration of the loop of senarena_free_chunk_chain
FreeStep ==
  /\ pc \in {"free_old", "free_fresh"}
  /\ cursor # NULL
  /\ cursor' = ptr[cursor]
  /\ Release(cursor)
  /\ IF pc = "free_old"
     THEN oldChain' = Tail(oldChain) /\ UNCHANGED freshChain
     ELSE freshChain' = Tail(freshChain) /\ UNCHANGED oldChain
  /\ UNCHANGED <<pc, arenaVars, req, joinVars, live>>

\* the reusable chunks forgotten
WrongFreeFresh ==
  /\ pc = "free_old" /\ cursor = NULL
  /\ pc' = "free_fresh"
  /\ UNCHANGED <<arenaVars, heapVars, req, joinVars, cursor, live, chainVars>>

\* the chain of the current chunk freed a second time
WrongFreeAgain ==
  /\ pc = "free_old" /\ cursor = NULL
  /\ cursor' = Current
  /\ pc' = "free_fresh"
  /\ UNCHANGED <<arenaVars, heapVars, req, joinVars, live, chainVars>>

FreeFresh ==
  /\ pc = "free_old"
  /\ cursor = NULL
  /\ cursor' = fresh_chunks
  /\ pc' = "free_fresh"
  /\ UNCHANGED <<arenaVars, heapVars, req, joinVars, live, chainVars>>

\* the caller's struct senarena is dead from here on
FreeEnd ==
  /\ pc = "free_fresh"
  /\ cursor = NULL
  /\ pc' = "none"
  /\ top' = NULL /\ bottom' = NULL /\ fresh_chunks' = NULL
  /\ UNCHANGED <<heapVars, req, joinVars, cursor, live, chainVars>>

\* the process has ended
Exited == pc = "exited" /\ UNCHANGED vars

-----------------------------------------------------------------------------
Alloc == \E r \in Request : AllocFast(r) \/ AllocSlow(r)

\* what the caller may do next
Caller == New \/ Alloc \/ ClearDirect \/ ClearJoin \/ FreeStart

\* the steps the code takes by itself, inside a call
Code ==
  \/ MoreLarge \/ MoreReuse \/ MoreNew \/ MoreFits \/ MallocFails
  \/ JoinStep \/ JoinEnd
  \/ FreeStep \/ FreeFresh \/ FreeEnd

Next == Caller \/ Code \/ Exited

Spec == Init /\ [][Next]_vars

\* a call, once entered, runs on; nothing obliges the caller to make one
InCall == pc \notin {"none", "idle", "exited"}
FairSpec == Spec /\ WF_vars(InCall /\ Code)

-----------------------------------------------------------------------------
(* The type invariant.                                                     *)

Pcs == {"none", "idle", "alloc_more", "join", "free_old", "free_fresh", "exited"}

Region == [addr : Int, size : Sizes, align : Alignments]

\* TypeOK: every variable holds a value of the type the code declares
\* (NULL or an address for the pointers), and heap is within Addresses.
TypeOK ==
  /\ pc \in Pcs
  /\ top \in Int /\ bottom \in Int
  /\ fresh_chunks \in Addresses \cup {NULL}
  /\ heap \subseteq Addresses
  /\ ptr \in [Addresses -> Addresses \cup {NULL}]
  /\ capacity \in [Addresses -> Nat]
  /\ req \in Request \cup {NoRequest}
  /\ {curr_a, curr_b, next_a, next_b, cursor} \subseteq Addresses \cup {NULL}
  /\ live \subseteq Region
  /\ oldChain \in Seq(Addresses) /\ freshChain \in Seq(Addresses)

-----------------------------------------------------------------------------
(* Safety.                                                                 *)

\* the half-open byte ranges [a, b) and [c, d) have no byte in common
Apart(a, b, c, d) == b <= c \/ d <= a

InUse == pc \in {"idle", "alloc_more", "join"}

\* RegionsDisjoint: no two allocations of senarena_alloc that the caller may
\* still use share a byte, whichever path served them.
RegionsDisjoint ==
  \A r, s \in live : r # s => Apart(r.addr, r.addr + r.size, s.addr, s.addr + s.size)

\* RegionsInChunks: every allocation lies in the data bytes of one chunk that
\* is still malloced, so writing to it touches neither a header nor memory
\* that was freed.
RegionsInChunks ==
  \A r \in live : \E c \in heap : c + HeaderSize <= r.addr /\ r.addr + r.size <= End(c)

\* TopAboveBottom: top stays between bottom and the end of the current chunk
\* (the invariant senarena_alloc relies on when it subtracts them unsigned).
TopAboveBottom ==
  InUse => Current \in heap /\ bottom <= top /\ top <= End(Current)

\* FreeSpaceUnused: the bytes senarena_alloc will hand out next, those between
\* bottom and top and all of the reusable chunks, belong to no allocation
\* the caller still holds.
FreeSpaceUnused ==
  \A r \in live :
    /\ Apart(r.addr, r.addr + r.size, bottom, top)
    /\ \A i \in 1 .. Len(freshChain) :
         Apart(r.addr, r.addr + r.size, freshChain[i], End(freshChain[i]))

\* chain is the list that starts at head and follows next to NULL
Linked(next, chain, head) ==
  /\ head = IF chain = <<>> THEN NULL ELSE chain[1]
  /\ \A i \in 1 .. Len(chain) :
       next[chain[i]] = IF i < Len(chain) THEN chain[i + 1] ELSE NULL

OldHead == CASE InUse           -> Current
             [] pc = "free_old" -> cursor
             [] OTHER           -> NULL

FreshHead == IF pc = "free_fresh" THEN cursor ELSE fresh_chunks

\* ChainsLinked: the two linked lists of the zipper are what the operations
\* mean them to be: following ptr from the current chunk visits the chunks in
\* use, from fresh_chunks the reusable ones, and both end in NULL, also after
\* the join of senarena_clear and while senarena_free walks them.
ChainsLinked == Linked(ptr, oldChain, OldHead) /\ Linked(ptr, freshChain, FreshHead)

Chunks(chain) == {chain[i] : i \in 1 .. Len(chain)}

NoRepeats(chain) == \A i, j \in 1 .. Len(chain) : chain[i] = chain[j] => i = j

\* ChainsOwnHeap: every malloced chunk is on exactly one of the two lists,
\* exactly once: none is leaked, none can be freed or handed out twice.
ChainsOwnHeap ==
  /\ heap = Chunks(oldChain) \cup Chunks(freshChain)
  /\ Chunks(oldChain) \cap Chunks(freshChain) = {}
  /\ NoRepeats(oldChain) /\ NoRepeats(freshChain)

\* JoinInStep: the two cursors of senarena_join_chunk_chains stand at the same
\* place of their lists, curr_a on the reusable and curr_b on the used chunks,
\* and next_a, next_b are what follows them.  So the loop ends at the end of
\* the shorter list, which is the one to be linked in front of the other.
JoinInStep ==
  pc = "join" =>
    \E k \in 1 .. Len(freshChain) :
      /\ k + 1 \in 1 .. Len(oldChain)
      /\ curr_a = freshChain[k] /\ curr_b = oldChain[k + 1]
      /\ next_a = ptr[curr_a] /\ next_b = ptr[curr_b]

\* NoUseAfterFree: every header the code reads, writes or frees next is in a
\* block that is still malloced.
NoUseAfterFree ==
  /\ InUse => Current \in heap
  /\ pc # "free_fresh" => fresh_chunks \in heap \cup {NULL}
  /\ cursor \in heap \cup {NULL}
  /\ pc = "join" => {curr_a, curr_b} \subseteq heap /\ {next_a, next_b} \subseteq heap \cup {NULL}

\* NothingLeaked: after senarena_free no chunk of the arena is still malloced.
NothingLeaked == pc = "none" => heap = {}

\* AllocationsAligned: every allocation starts at a multiple of the alignment
\* it was asked for.
AllocationsAligned == \A r \in live : r.addr % r.align = 0

-----------------------------------------------------------------------------
(* What a step may never do, and what must happen.                         *)

\* ChunksOnlyFreedByFree: outside senarena_free (and the end of the process)
\* no chunk is given back to malloc and no chunk changes its size, so an
\* allocation stays usable until the caller clears or frees the arena.
ChunksOnlyFreedByFree ==
  [][InUse /\ pc' # "exited"
       => heap \subseteq heap' /\ \A c \in heap : capacity'[c] = capacity[c]]_vars

\* CallsReturn: every call terminates: the loop of senarena_alloc_more runs out
\* of reusable chunks, the join and the free loops reach the end of the lists.
CallsReturn == InCall ~> ~InCall

-----------------------------------------------------------------------------
(* Refinement.                                                             *)

ContractState == CASE pc = "none" -> "closed"
                   [] InUse -> "open"
                   [] pc \in {"free_old", "free_fresh"} -> "closing"
                   [] pc = "exited" -> "ended"

\* the data bytes of a chunk
Block(chunk) == [addr |-> chunk + HeaderSize, size |-> capacity[chunk]]
Blocks == {Block(c) : c \in heap}

Contract == INSTANCE Region WITH state <- ContractState, blocks <- Blocks, live <- live

\* ArenaKeepsContract: the arena with its chunk lists, reuse and large chunks
\* behaves as the contract of module Region: allocations are disjoint and inside
\* memory it owns, clear keeps the memory, free gives every block back.
ArenaKeepsContract == Contract!Spec

=============================================================================
