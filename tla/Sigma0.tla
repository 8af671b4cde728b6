------------------------------- MODULE Sigma0 -------------------------------
(***************************************************************************)
(* sigma0, the pager of last resort (sdios/serv/sigma0/sigma0.cc), which   *)
(* owns all memory of the machine when the kernel starts: it sorts the     *)
(* memory into three pools by the descriptors that kickstart has left,     *)
(* gives the first servers what they occupy, and then hands out pages on   *)
(* page faults and requests.                                               *)
(*                                                                         *)
(* Addresses and sizes are counted in pages of the minimal size; they wrap *)
(* at Word, as the code's do.  A pool is the sequence of its regions.  The *)
(* descriptors of the regions come from a list whose length is kept; when  *)
(* it is empty sigma0 allocates a page to itself in the middle of whatever *)
(* it is doing.                                                            *)
(***************************************************************************)
EXTENDS Kickstart

CONSTANTS
    Machines,       \* the machines to boot on, see Kickstart
    Users,          \* threads that ask for memory
    Sizes,          \* sizes of requests, powers of two; 0 is less than a page
    NumInitial,     \* initial_memregs
    PerPage,        \* descriptors that fit into a page
    MaxRequests     \* bound: requests answered

ASSUME Sigma0Assumption ==
    /\ NumInitial \in Nat /\ PerPage \in Nat \ {0} /\ MaxRequests \in Nat
    /\ Sizes \subseteq Nat /\ Users \cap {"any", "kernel", "sigma0", "root"} = {}
    /\ \A mc \in Machines : WellFormed(mc) /\ Boots(mc)

VARIABLES
    machine,
    pc,         \* "init", "register", "serve", "slow" or "hung"
    next,       \* next memory descriptor, or page of a first server
    m,          \* the pools conv, mem and alloc, the free descriptors list,
                \*   and dead: there is no memory left for a descriptor
    req,        \* the request being allocated page by page, or refused last
    granted,    \* history: who has been sent which page
    served      \* number of requests answered
vars == <<machine, pc, next, m, req, granted, served>>

Pages == 0 .. Word - 1
Owners == Users \cup {"any", "kernel", "sigma0", "root"}
Region(low, high, owner) == [low |-> low, high |-> high, owner |-> owner]
NoReq == [tid |-> "any", addr |-> 0, size |-> 0, conv |-> FALSE, at |-> 0, took |-> {}, fed |-> FALSE]

-----------------------------------------------------------------------------
\* Joining regions.  Nothing is adjacent to address 0 from below.
CanJoin(a, b) == /\ a.owner = b.owner
                 /\ \/ a.low = (b.high + 1) % Word /\ a.low # 0
                    \/ (a.high + 1) % Word = b.low /\ b.low # 0
concatenate(a, b) == IF a.low = (b.high + 1) % Word /\ a.low # 0
                     THEN [a EXCEPT !.low = b.low]
                     ELSE [a EXCEPT !.high = b.high]

\* Place r in the pool and join it with its neighbours; a descriptor that is not
\* needed any more goes back to the list.
Merged_KeepsUpper(rs, k) == ReplaceAt(rs, k, concatenate(rs[k], rs[k + 1]))
Merged(rs, k) == RemoveAt(ReplaceAt(rs, k, concatenate(rs[k], rs[k + 1])), k + 1)
InsertLocation(rs, r) ==
    LET later == {i \in DOMAIN rs : r.low <= rs[i].high}
    IN  IF later = {} THEN Len(rs) ELSE Min(later) - 1
insert(s, pool, r) ==
    LET rs == s[pool]
        k == InsertLocation(rs, r)
        grown == ReplaceAt(rs, k, concatenate(rs[k], r))
    IN  IF k > 0 /\ CanJoin(rs[k], r)
        THEN IF k < Len(rs) /\ CanJoin(grown[k], rs[k + 1])
             THEN [s EXCEPT ![pool] = Merged(grown, k), !.list = @ + 2]
             ELSE [s EXCEPT ![pool] = grown, !.list = @ + 1]
        ELSE IF k < Len(rs) /\ CanJoin(rs[k + 1], r)
        THEN [s EXCEPT ![pool] = ReplaceAt(rs, k + 1, concatenate(rs[k + 1], r)), !.list = @ + 1]
        ELSE [s EXCEPT ![pool] = InsertAt(rs, k + 1, r)]

\* A region without its first pages; the last of them takes the descriptor along.
TakeStart(s, pool, i, size) ==
    IF s[pool][i].low + size = s[pool][i].high + 1
    THEN [s EXCEPT ![pool] = RemoveAt(@, i), !.list = @ + 1]
    ELSE [s EXCEPT ![pool][i].low = @ + size]

\* memregion_list_t::alloc.  An empty list is filled with a page of sigma0's own,
\* the first of conventional memory.  The region that records this page uses the
\* descriptor of a region that is used up, or joins another one, or takes one of
\* the new descriptors.  The first entry of page 0 cannot be used.
Lowest(s) == SelectInSeq(s.conv, LAMBDA r : r.low <= r.high)
FeedList(s) ==
    LET i == Lowest(s)
        page == s.conv[i].low
        own == Region(page, page, "sigma0")
        rest == TakeStart(s, "conv", i, 1)
        after == insert([rest EXCEPT !.list = 0], "alloc", own)
        temporary == rest.list = 0 /\ after.list = 0
    IN  [after EXCEPT !.list = PerPage - (IF page = 0 THEN 1 ELSE 0) - (IF temporary THEN 1 ELSE 0)]
WithDescriptor(s) ==
    IF s.dead THEN s
    ELSE IF s.list > 0 THEN [s EXCEPT !.list = @ - 1]
    ELSE IF Lowest(s) = 0 THEN [s EXCEPT !.dead = TRUE]
    ELSE LET fed == FeedList(s) IN [fed EXCEPT !.list = @ - 1]

\* memregion_pool_t::insert (low, high, owner) and remove (low, high)
InsertNew(s, pool, r) == LET d == WithDescriptor(s) IN IF d.dead THEN d ELSE insert(d, pool, r)

\* remove takes the regions out that it hits, and puts back what is left of the
\* first and of the last of them.
Hit(rs, low, high) == {i \in DOMAIN rs : rs[i].low <= high /\ rs[i].high >= low}
LeftOf(rs, low, first) == IF rs[first].low < low THEN <<[rs[first] EXCEPT !.high = low - 1]>> ELSE <<>>
RightOf(rs, low, high, last) ==
    IF rs[last].low >= low /\ rs[last].high > high THEN <<[rs[last] EXCEPT !.low = high + 1]>> ELSE <<>>
Cut(rs, low, high, first, last) ==
    SubSeq(rs, 1, first - 1) \o LeftOf(rs, low, first) \o RightOf(rs, low, high, last)
    \o SubSeq(rs, last + 1, Len(rs))
remove(s, pool, low, high) ==
    LET hit == Hit(s[pool], low, high)
        first == Min(hit)
        last == Max(hit)
        r == s[pool][first]
        left == LeftOf(s[pool], low, first)
        right == RightOf(s[pool], low, high, last)
        cut == [s EXCEPT ![pool] = Cut(@, low, high, first, last),
                         !.list = @ + (last - first + 1) - Len(left) - Len(right)]
    IN  IF hit = {} THEN s
        ELSE IF r.low < low /\ r.high > high THEN InsertNew(cut, pool, Region(high + 1, r.high, r.owner))
        ELSE cut

-----------------------------------------------------------------------------
\* The part of a region that is aligned to size.  Both ends may wrap around.
LowA(r, size) == (((r.low + size - 1) % Word) \div size) * size
HighA(r, size) == ((((r.high + 1) % Word) \div size) * size - 1) % Word
Sound(r, size) == /\ r.low <= LowA(r, size)
                  /\ r.high >= size - 1
                  /\ (HighA(r, size) - LowA(r, size)) % Word >= size - 1

can_allocate_AnyOwner(r, addr, size, tid) ==
    /\ addr >= LowA(r, size)
    /\ addr + size - 1 <= HighA(r, size)
    /\ Sound(r, size)
can_allocate(r, addr, size, tid) ==
    /\ addr >= LowA(r, size)
    /\ addr + size - 1 <= HighA(r, size)
    /\ Sound(r, size)
    /\ r.owner \in {tid, "any"}

\* Take pages out of the i-th region of a pool.  In the middle of it a second
\* descriptor is needed, and getting one may take the region's first page.
TakeMiddle(s, pool, i, addr, size) ==
    LET d == WithDescriptor(s)
        j == SelectInSeq(d[pool], LAMBDA x : addr \in x.low .. x.high)
        r == d[pool][j]
    IN  IF d.dead THEN d
        ELSE [d EXCEPT ![pool] = InsertAt(ReplaceAt(@, j, [r EXCEPT !.high = addr - 1]), j + 1,
                                          [r EXCEPT !.low = addr + size])]
Take(s, pool, i, addr, size) ==
    LET r == s[pool][i]
    IN  IF addr = r.low THEN TakeStart(s, pool, i, size)
        ELSE IF addr + size - 1 = r.high THEN [s EXCEPT ![pool][i].high = @ - size]
        ELSE TakeMiddle(s, pool, i, addr, size)
Allocate(s, place, size, tid) ==
    LET taken == Take(s, place.pool, place.i, place.addr, size)
    IN  IF taken.dead THEN taken
        ELSE InsertNew(taken, "alloc", Region(place.addr, place.addr + size - 1, tid))

-----------------------------------------------------------------------------
\* The first region of the pools that pages can be allocated from.
NoPlace == [pool |-> "alloc", i |-> 0, addr |-> 0]
Holding(s, pool, addr, size, tid) ==
    {i \in DOMAIN s[pool] : /\ s[pool][i].low <= addr + size - 1
                            /\ s[pool][i].high >= addr
                            /\ can_allocate(s[pool][i], addr, size, tid)}
PlaceIn(s, pools, addr, size, tid) ==
    LET k == SelectInSeq(pools, LAMBDA pool : Holding(s, pool, addr, size, tid) # {})
    IN  IF k = 0 THEN NoPlace
        ELSE [pool |-> pools[k], i |-> Min(Holding(s, pools[k], addr, size, tid)), addr |-> addr]

\* allocate_page at an address: whole from a pool,
Fast(s, r) == PlaceIn(s, IF r.conv THEN <<"conv">> ELSE <<"conv", "mem">>, r.addr, r.size, "any")
\* or allocated to the thread, or shared, already,
Already(s, r) == Holding(s, "alloc", r.addr, r.size, r.tid) # {}
\* or page by page, after a round that only looks.  A range that ends at the end
\* of memory makes this round go on at 0, through all of memory; it then fails,
\* since sigma0's own pages are not for others.
PlaceOf_FreeOnly(s, page, r) ==
    PlaceIn(s, IF r.conv THEN <<"conv">> ELSE <<"conv", "mem">>, page, 1, r.tid)
PlaceOf(s, page, r) ==
    PlaceIn(s, IF r.conv THEN <<"conv", "alloc">> ELSE <<"conv", "alloc", "mem">>, page, 1, r.tid)
Checked_EndsOnly(r) == {r.addr, r.addr + r.size - 1}
Checked(r) == IF r.addr + r.size = Word THEN Pages ELSE r.addr .. r.addr + r.size - 1
Slow(s, r) == \A page \in Checked(r) : PlaceOf(s, page, r) # NoPlace

\* allocate_page anywhere: the first region with room for aligned pages, at its
\* start if that is aligned, else at its end if that is, else in between.
Roomy(s, size) == SelectInSeq(s.conv, LAMBDA r : Sound(r, size) /\ LowA(r, size) <= HighA(r, size))
Chosen(r, size) == IF LowA(r, size) = r.low \/ HighA(r, size) # r.high THEN LowA(r, size)
                   ELSE HighA(r, size) - size + 1
Anywhere(s, size) ==
    LET i == Roomy(s, size)
    IN  IF i = 0 THEN NoPlace ELSE [pool |-> "conv", i |-> i, addr |-> Chosen(s.conv[i], size)]

-----------------------------------------------------------------------------
\* What the kernel itself occupies, it has described as reserved.
KernelImage(mc) == Desc(mc.mods[1].start, mc.mods[1].end - 1, "reserved")
MemoryDescs(mc) == Append(Descriptors(mc), KernelImage(mc))

\* register_memory: the pages of sigma0 and the root task, in this order.
ServerPages(mc, i) == (mc.mods[i].start \div Parts) .. ((mc.mods[i].end - 1) \div Parts)
Registered(mc) ==
    LET pagesOf(i, tid) == [k \in 1 .. Cardinality(ServerPages(mc, i)) |->
                               [NoReq EXCEPT !.addr = mc.mods[i].start \div Parts + k - 1, !.size = 1,
                                             !.tid = tid]]
    IN  pagesOf(2, "sigma0") \o pagesOf(3, "root")

Init ==
    /\ machine \in Machines
    /\ pc = "init"
    /\ next = 1
    /\ m = [conv |-> <<>>, mem |-> <<Region(0, Word - 1, "any")>>, alloc |-> <<>>,
            list |-> NumInitial - 1, dead |-> FALSE]
    /\ req = NoReq
    /\ granted = [p \in Pages |-> {}]
    /\ served = 0

PoolFor(type) == CASE type = "conventional" -> "conv"
                   [] type \in {"bootloader", "architecture"} -> "mem"
                   [] type \in {"reserved", "shared"} -> "alloc"
OwnerFor(type) == IF type = "reserved" THEN "kernel" ELSE "any"

\* init_mempool_from_kip, one memory descriptor
Describe ==
    /\ pc = "init" /\ ~ m.dead
    /\ LET descs == MemoryDescs(machine)
           d == descs[next]
           low == d.low \div Parts
           high == d.high \div Parts
           s1 == remove(m, "conv", low, high)
           s2 == remove(s1, "mem", low, high)
           s3 == remove(s2, "alloc", low, high)
       IN  /\ m' = InsertNew(s3, PoolFor(d.type), Region(low, high, OwnerFor(d.type)))
           /\ IF next < Len(descs) THEN pc' = pc /\ next' = next + 1
                                   ELSE pc' = "register" /\ next' = 1
    /\ UNCHANGED <<machine, req, granted, served>>

\* register_memory, one page.  A page that cannot be allocated is passed over.
Register ==
    /\ pc = "register" /\ ~ m.dead
    /\ LET r == Registered(machine)[next]
           place == Fast(m, r)
       IN  m' = IF place = NoPlace THEN m ELSE Allocate(m, place, 1, r.tid)
    /\ IF next < Len(Registered(machine)) THEN pc' = pc /\ next' = next + 1
                                          ELSE pc' = "serve" /\ next' = 0
    /\ UNCHANGED <<machine, req, granted, served>>

\* The reply, unless there was no memory for a descriptor.
Grant(tid, addr, size) ==
    /\ granted' = IF m'.dead THEN granted
                  ELSE [p \in Pages |-> IF p \in addr .. addr + size - 1 THEN granted[p] \cup {tid}
                                        ELSE granted[p]]
    /\ pc' = IF m'.dead THEN "hung" ELSE "serve"
    /\ req' = NoReq
    /\ served' = served + 1
Refuse(r) ==
    /\ req' = r
    /\ pc' = "serve"
    /\ served' = served + 1
    /\ UNCHANGED granted

\* The messages: a page fault asks for one page of conventional memory, an RPC
\* for aligned pages at an address or anywhere.
Request(tid, addr, size, conv) ==
    [NoReq EXCEPT !.tid = tid, !.addr = addr, !.size = size, !.conv = conv, !.at = addr]
PageFaults == {Request(x[1], x[2], 1, TRUE) : x \in Users \X Pages}
AnyAddress == Word
Rpcs == {Request(x[1], x[2], x[3], FALSE) : x \in Users \X (Pages \cup {AnyAddress}) \X Sizes}
Aligned(r) == IF r.size = 0 THEN r.addr = AnyAddress ELSE r.addr = AnyAddress \/ r.addr % r.size = 0
Requests == {r \in PageFaults \cup Rpcs : Aligned(r)}

\* sigma0_main and the two allocate_page
Serve(r) ==
    LET place == IF r.size = 0 THEN NoPlace
                 ELSE IF r.addr = AnyAddress THEN Anywhere(m, r.size) ELSE Fast(m, r)
    IN  IF place # NoPlace
        THEN m' = Allocate(m, place, r.size, r.tid) /\ Grant(r.tid, place.addr, r.size)
        ELSE /\ m' = m
             /\ IF r.size = 0 \/ r.addr = AnyAddress THEN Refuse(r)
                ELSE IF Already(m, r) THEN Grant(r.tid, r.addr, r.size)
                ELSE IF Slow(m, r) THEN pc' = "slow" /\ req' = r /\ UNCHANGED <<granted, served>>
                ELSE Refuse(r)
ServeMessage ==
    /\ pc = "serve"
    /\ served < MaxRequests
    /\ \E r \in Requests : Serve(r)
    /\ UNCHANGED <<machine, next>>

\* The second round of the slow way, one page.  A page that the first round has
\* found may be gone: into sigma0's list of descriptors.
SigmaPages(s) ==
    UNION {s.alloc[i].low .. s.alloc[i].high : i \in {j \in DOMAIN s.alloc : s.alloc[j].owner = "sigma0"}}
SlowStep ==
    /\ pc = "slow"
    /\ LET place == PlaceOf(m, req.at, req)
           own == place.pool = "alloc"
       IN  IF place = NoPlace THEN Refuse(req) /\ m' = m
           ELSE /\ m' = IF own THEN m ELSE Allocate(m, place, 1, req.tid)
                /\ IF m'.dead \/ req.at = req.addr + req.size - 1
                   THEN Grant(req.tid, req.addr, req.size)
                   ELSE /\ req' = [req EXCEPT !.at = @ + 1,
                                              !.took = IF own THEN @ ELSE @ \cup {req.at},
                                              !.fed = @ \/ SigmaPages(m') # SigmaPages(m)]
                        /\ UNCHANGED <<pc, granted, served>>
    /\ UNCHANGED <<machine, next>>

Next == Describe \/ Register \/ ServeMessage \/ SlowStep
Spec == Init /\ [][Next]_vars

-----------------------------------------------------------------------------
PoolNames == {"conv", "mem", "alloc"}
PagesOf(r) == r.low .. r.high
InPool(pool, p) == \E i \in DOMAIN m[pool] : p \in PagesOf(m[pool][i])
OwnerOf(p) == {m.alloc[i].owner : i \in {j \in DOMAIN m.alloc : p \in PagesOf(m.alloc[j])}}

\* Types.
TypeOK ==
    /\ machine \in Machines
    /\ pc \in {"init", "register", "serve", "slow", "hung"}
    /\ \A pool \in PoolNames : \A i \in DOMAIN m[pool] :
          /\ m[pool][i].low \in Nat /\ m[pool][i].low <= Word
          /\ m[pool][i].high \in Nat /\ m[pool][i].high < Word
          /\ m[pool][i].owner \in (IF pool = "alloc" THEN Owners ELSE {"any"})
    /\ m.list \in Nat /\ m.dead \in BOOLEAN
    /\ granted \in [Pages -> SUBSET Users]
    /\ served \in 0 .. MaxRequests

\* While descriptors are read, servers registered and pages handed out, also when
\* sigma0 takes a page for its descriptors in between, every page of the address
\* space is in exactly one region of one pool: none is lost and none can be given
\* away twice (remove, insert, allocate and alloc in the middle of them).
EveryPageOnce ==
    LET all == m.conv \o m.mem \o m.alloc
    IN  m.dead \/ \A p \in Pages : Cardinality({i \in DOMAIN all : p \in PagesOf(all[i])}) = 1

\* A page that was sent to a thread is recorded as that thread's, and has been
\* sent to nobody else, unless it is shared (sigma0_main and can_allocate).
GrantsExclusive ==
    \A p \in Pages : \A tid \in granted[p] :
        \/ OwnerOf(p) = {"any"}
        \/ OwnerOf(p) = {tid} /\ granted[p] = {tid}

\* A request at an address is refused only if a page of it is not to be had: it
\* is someone else's, or sigma0 has just taken it; or if the range ends at the
\* end of the address space.  A request for any pages is refused only if no
\* aligned ones are left.  (The fast way, the pool of allocated pages and the
\* slow way of allocate_page together miss nothing.)
Obtainable(p) == \/ InPool("conv", p)
                 \/ InPool("mem", p) /\ ~ req.conv
                 \/ OwnerOf(p) \cap {req.tid, "any"} # {}
RefusedOnlyWithoutPages ==
    pc = "serve" /\ req # NoReq /\ req.size # 0 =>
        IF req.addr = AnyAddress
        THEN \A a \in Pages : a % req.size = 0 => \E p \in a .. a + req.size - 1 : ~ InPool("conv", p)
        ELSE \/ req.addr + req.size = Word
             \/ \E p \in req.addr .. req.addr + req.size - 1 : ~ Obtainable(p)

\* A refused request leaves the requester with new pages, which it does not know
\* of, only if sigma0 has fed its list of descriptors from the range (the two
\* rounds of the slow way and alloc).
RefusedTakesNothing == pc = "serve" => req.took = {} \/ req.fed

\* A usable entry of the BIOS that ends in the middle of a page has an entry after
\* it that mentions this page, as a map without gaps has in the order of addresses.
EndsMentioned(mc) ==
    \A i \in DOMAIN mc.bios :
        LET end == mc.bios[i].base + mc.bios[i].size
        IN  mc.bios[i].usable /\ end % Parts # 0 =>
                \E j \in i + 1 .. Len(mc.bios) :
                    end \div Parts \in mc.bios[j].base \div Parts
                                      .. (mc.bios[j].base + mc.bios[j].size - 1) \div Parts

\* When sigma0 starts to serve, no free page holds a part of a module, of the first
\* servers, of the boot information, of what the kernel has reserved or of what
\* the BIOS does not call usable; a usable entry of the BIOS that starts in the
\* middle of a page takes the whole page (page_start, page_end, and the order
\* of the descriptors).  The tables of kickstart are in nobody's way.
Parted(p) == p * Parts .. p * Parts + Parts - 1
UsedParts ==
    LET mc == machine
        tables == Bootinfo(mc) \o Mbi(mc) \o Kmem(mc)
    IN  (UNION {mc.mods[i].start .. mc.mods[i].end - 1 : i \in DOMAIN mc.mods})
        \cup (UNION {tables[i].low .. tables[i].high : i \in DOMAIN tables})
BiosUsable(mc, part) ==
    \E i \in DOMAIN mc.bios : mc.bios[i].usable /\ part \in mc.bios[i].base .. mc.bios[i].base + mc.bios[i].size - 1
StartsInside(mc, p) ==
    \E i \in DOMAIN mc.bios : mc.bios[i].usable /\ mc.bios[i].base \in Parted(p) \ {p * Parts}
FreeMemoryUnused ==
    pc = "serve" /\ served = 0 => \A p \in Pages : InPool("conv", p) =>
        /\ Parted(p) \cap UsedParts = {}
        /\ (\A part \in Parted(p) : BiosUsable(machine, part)) \/ StartsInside(machine, p)
=============================================================================
