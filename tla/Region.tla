------------------------------- MODULE Region -------------------------------
(***************************************************************************)
(* What an arena promises its caller (sensible-arena/README.md and the     *)
(* comment that opens sensible-arena.h): memory on demand, all of it given *)
(* back at once.  No chunk lists, no top pointer, no headers.              *)
(*                                                                         *)
(* Alignment is not part of this promise: Arena shows that the code does   *)
(* not keep it (AllocationsAligned).                                       *)
(***************************************************************************)
EXTENDS Integers

VARIABLES
  state,   \* "closed", "open", "closing" (inside free) or "ended"
  blocks,  \* memory the arena owns: records [addr, size]
  live     \* allocations the caller holds: records with addr and size

vars == <<state, blocks, live>>

Within(r, b) == b.addr <= r.addr /\ r.addr + r.size <= b.addr + b.size

Disjoint(r, s) == r.addr + r.size <= s.addr \/ s.addr + s.size <= r.addr

\* the arena may own one block more, apart from those it has
GrowsAtMostByOne ==
  \/ UNCHANGED blocks
  \/ \E b \in blocks' : /\ blocks' \ {b} = blocks
                        /\ \A c \in blocks : Disjoint(b, c)

Init == state = "closed" /\ blocks = {} /\ live = {}

Open ==
  /\ state = "closed" /\ state' = "open"
  /\ GrowsAtMostByOne /\ blocks' # {}
  /\ UNCHANGED live

\* serve one request: the caller holds one region more, or as many as before
\* if it ignores the result
Allocate ==
  /\ state = "open"
  /\ GrowsAtMostByOne
  /\ \/ UNCHANGED live
     \/ \E r \in live' : /\ live' \ {r} = live \ {r}
                         /\ \A s \in live \ {r} : Disjoint(r, s)
                         /\ \E b \in blocks' : Within(r, b)
  /\ UNCHANGED state

\* everything handed out is taken back, the memory stays for reuse
Clear == state = "open" /\ live' = {} /\ UNCHANGED <<state, blocks>>

Close == state = "open" /\ state' = "closing" /\ live' = {} /\ UNCHANGED blocks

GiveBack ==
  /\ state = "closing"
  /\ \E b \in blocks : blocks' = blocks \ {b}
  /\ UNCHANGED <<state, live>>

\* the arena is gone only when all of its memory is
Closed == state = "closing" /\ blocks = {} /\ state' = "closed" /\ UNCHANGED <<blocks, live>>

\* out of memory: the process ends
End == state \in {"closed", "open"} /\ state' = "ended" /\ blocks' = {} /\ live' = {}

Next == Open \/ Allocate \/ Clear \/ Close \/ GiveBack \/ Closed \/ End

Spec == Init /\ [][Next]_vars
=============================================================================
