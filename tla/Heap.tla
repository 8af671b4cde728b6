-------------------------------- MODULE Heap --------------------------------
(***************************************************************************)
(* The heap of the run-time library (sdios/lib/sdi/heap.cc), behind malloc *)
(* and operator new of the servers: a circular list of free blocks in the  *)
(* order of their addresses, searched from where the last search ended.    *)
(*                                                                         *)
(* Addresses are counted in units of a header, from the start of the heap. *)
(* A block begins with its header, the address of the next free block and  *)
(* its size.  The ring is the sequence of its addresses from freep on; the *)
(* block behind the last is the first.  Unlike the allocator it is taken   *)
(* from, the list has no anchor: freep always points to a free block.      *)
(*                                                                         *)
(* Calls are atomic: this is the heap of a server with one thread.  Once   *)
(* two blocks overlap the callers overwrite headers, and the model ends.   *)
(***************************************************************************)
EXTENDS Naturals, FiniteSets, Sequences, SequencesExt

CONSTANTS
    Arena,          \* units from __elf_end to 0x3fffffff
    HeaderSize,     \* sizeof(Header)
    Word,           \* 2 to the width of unsigned long
    Requests        \* the numbers of bytes asked for

Base  == 1          \* the first unit behind __elf_end
Units == Base .. Arena

ASSUME HeapAssumption ==
    /\ Arena \in Nat \ {0}
    /\ HeaderSize \in Nat \ {0}
    /\ Word \in Nat \ {0}
    /\ Requests \subseteq 0 .. Word - 1

VARIABLES
    ring,           \* the free list from freep on
    size,           \* the size in the header at each address, 0 without one
    blocks,         \* addresses of the callers' blocks
    answer,         \* what the last call returned, and to what request
    bottom          \* a block at the start of the heap was handed out once

vars == <<ring, size, blocks, answer, bottom>>

NoAnswer == [returns |-> "nothing", nbytes |-> 0, nunits |-> 0]

\* The list as the first call of alloc makes it before it searches: one
\* block, everything there is.
Init ==
    /\ ring = <<Base>>
    /\ size = [u \in Units |-> IF u = Base THEN Arena ELSE 0]
    /\ blocks = {}
    /\ answer = NoAnswer
    /\ bottom = FALSE

Extent(addr, n) == addr .. addr + n - 1

\* Every unit belongs to exactly one block, a caller's or a free one.
Sound ==
    \A u \in Units :
        Cardinality({b \in blocks : u \in Extent(b, size[b])})
        + Cardinality({k \in DOMAIN ring : u \in Extent(ring[k], size[ring[k]])}) = 1

-----------------------------------------------------------------------------
\* In unsigned arithmetic, one unit for the header.
Nunits(nbytes) == ((nbytes + HeaderSize - 1) % Word) \div HeaderSize + 1

\* The ring from its k-th block on, and without the block behind its first.
From(k)   == SubSeq(ring, k, Len(ring)) \o SubSeq(ring, 1, k - 1)
Unlink(s) == <<Head(s)>> \o Tail(Tail(s))
Pred(k) == IF k = 1 THEN Len(ring) ELSE k - 1

\* The places at which a search from behind freep looks, freep being last,
\* and the first where the block is large enough.
Earlier(j, k) == IF k = 1 THEN j # 1 ELSE j # 1 /\ j < k
FirstFit(n) ==
    {k \in DOMAIN ring : size[ring[k]] >= n
        /\ \A j \in DOMAIN ring : size[ring[j]] >= n => ~ Earlier(j, k)}

Returns(r, nbytes) == answer' = [returns |-> r, nbytes |-> nbytes, nunits |-> Nunits(nbytes)]

AllocFails(nbytes) ==
    /\ FirstFit(Nunits(nbytes)) = {}
    /\ Returns("NULL", nbytes)
    /\ UNCHANGED <<ring, size, blocks, bottom>>

\* A block that fits exactly leaves the list and freep goes to the one before.
\* The only block there is points to itself, and stays.
AllocExact(nbytes) ==
    \E k \in FirstFit(Nunits(nbytes)) :
        /\ size[ring[k]] = Nunits(nbytes)
        /\ ring' = IF Len(ring) = 1 THEN ring
                   ELSE Unlink(From(Pred(k)))
        /\ blocks' = blocks \cup {ring[k]}
        /\ bottom' = (bottom \/ ring[k] = Base)
        /\ Returns("block", nbytes)
        /\ UNCHANGED size

\* Of a larger one the tail is handed out.
TailSize_OneMore(sz, n) == sz - n + 1
TailSize(sz, n) == sz - n
AllocTail(nbytes) ==
    \E k \in FirstFit(Nunits(nbytes)) :
        LET n == Nunits(nbytes)
            p == ring[k]
            tail == p + size[p] - n
        IN  /\ size[p] > n
            /\ ring' = From(Pred(k))
            /\ size' = [size EXCEPT ![p] = TailSize(@, n), ![tail] = n]
            /\ blocks' = blocks \cup {tail}
            /\ Returns("block", nbytes)
            /\ UNCHANGED bottom

-----------------------------------------------------------------------------
Succ(k) == ring[IF k = Len(ring) THEN 1 ELSE k + 1]

\* Where the loop of free stops: at the block before bp or, when bp is
\* outside of all, at the last one.
Before_NoWrap(k, bp) == bp > ring[k] /\ bp < Succ(k)
Before(k, bp) ==
    \/ bp > ring[k] /\ bp < Succ(k)
    \/ ring[k] >= Succ(k) /\ (bp > ring[k] \/ bp < Succ(k))
Places(bp) == {k \in DOMAIN ring : Before(k, bp)}

JoinsUpper(k, bp) == bp + size[bp] = Succ(k)
JoinsLower_Never(k, bp) == FALSE
JoinsLower(k, bp) == ring[k] + size[ring[k]] = bp

\* bp comes behind p.  It takes in the block above, which leaves the list -
\* but not when that is p itself, the only block of the list, which goes on
\* pointing to bp.  Then the block below takes it in.
free(bp) ==
    \E k \in Places(bp) :
        LET p     == ring[k]
            above == IF JoinsUpper(k, bp) THEN {Succ(k)} \ {p} ELSE {}
            below == IF JoinsLower(k, bp) THEN {bp} ELSE {}
            grown == IF JoinsUpper(k, bp) THEN size[bp] + size[Succ(k)] ELSE size[bp]
            rest  == Tail(IF above = {} THEN From(k) ELSE Unlink(From(k)))
        IN  /\ \A j \in Places(bp) : k <= j
            /\ ring' = IF below = {} THEN <<p, bp>> \o rest ELSE <<p>> \o rest
            /\ size' = [u \in Units |->
                   CASE u \in above \cup below -> 0
                     [] u = p /\ below # {} -> size[p] + grown
                     [] u = bp /\ below = {} -> grown
                     [] OTHER -> size[u]]
            /\ blocks' = blocks \ {bp}
            /\ answer' = NoAnswer
            /\ UNCHANGED bottom

Next ==
    /\ Sound
    /\ \/ \E n \in Requests : AllocFails(n) \/ AllocExact(n) \/ AllocTail(n)
       \/ \E bp \in blocks : free(bp)

Spec == Init /\ [][Next]_vars

-----------------------------------------------------------------------------
\* Type invariant.
TypeOK ==
    /\ ring \in Seq(Units)
    /\ size \in [Units -> 0 .. 2 * Arena]
    /\ blocks \in SUBSET Units
    /\ bottom \in BOOLEAN
    /\ \A b \in blocks \cup ToSet(ring) : size[b] # 0

\* heap.cc:53 and :80: no unit gets lost or belongs to two blocks as long as
\* the start of the heap has never been handed out.  It then ends with the
\* whole of the only free block handed out and still on the list, or with the
\* only free block on the list twice after it was joined from below.
EveryUnitOnce == ~ bottom => Sound

\* heap.cc:76: for every block that may be freed the search for its place in
\* the list ends.
FreeReturns == Sound => \A b \in blocks : Places(b) # {}

\* heap.cc:43, :63 and :80: a request is refused only when there are not so
\* many free units side by side: the search passes no block over and free
\* blocks never stay apart.  A block that is handed out has room for what was
\* asked for and the header, unless the sum in the rounding passes the largest
\* word.
RoomForRequest ==
    answer.returns = "block" /\ answer.nbytes <= Word - HeaderSize =>
        HeaderSize * (answer.nunits - 1) >= answer.nbytes
RefusedOnlyWithoutRoom ==
    /\ RoomForRequest
    /\ answer.returns = "NULL" =>
          \A u \in Units : u + answer.nunits - 1 <= Arena =>
              \E b \in blocks : Extent(b, size[b]) \cap Extent(u, answer.nunits) # {}
=============================================================================
