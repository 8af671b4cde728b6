----------------------------- MODULE Kickstart -----------------------------
(***************************************************************************)
(* The boot loader's memory descriptors (sdios/util/kickstart: mbi-loader, *)
(* mbi-ia32, mbi and kipmgr): what kickstart writes into the kernel        *)
(* interface page before it starts the kernel, as a function of the        *)
(* machine and of what GRUB has loaded where.                              *)
(*                                                                         *)
(* Addresses are counted in parts of a page, the granularity of a memory   *)
(* descriptor.  A later descriptor overrides an earlier one.               *)
(***************************************************************************)
EXTENDS Integers, Sequences, SequencesExt, FiniteSetsExt

CONSTANTS
    Parts,          \* parts of a page
    Word,           \* pages of the address space
    VgaStart,       \* 0xA0000, as a page
    RomStart,       \* 0xC0000
    RomEnd,         \* 0xF0000
    MAX_KMEM_END    \* 240 MB, as a page

ASSUME KickstartAssumption ==
    /\ Parts \in Nat \ {0}
    /\ Word \in Nat \ {0}
    /\ {VgaStart, RomStart, RomEnd, MAX_KMEM_END} \subseteq Nat
    /\ VgaStart < RomStart /\ RomStart < RomEnd /\ RomEnd < Word

\* A machine is a record
\*   mmap       whether GRUB has passed the BIOS memory map on
\*   bios       the map, entries [base, size, usable]; without a map, the memory
\*              below and above 1 MB as two usable entries
\*   kmem       additional_kmem_size
\*   mods       the modules as loaded: kernel, sigma0 and root task as ELF
\*              images and the others as they are, [start, end)
\*   kickstart  where the boot loader itself is
\*   mbiSize    get_size() of the multiboot info, in full pages

LastPart == Word * Parts - 1
Desc(start, end, type) == [low |-> start, high |-> end, type |-> type]

\* Nothing is empty or ends behind the address space.  There are a kernel, sigma0
\* and a root task, and without a map at least as much memory as the kernel needs.
WellFormed(mc) ==
    /\ mc.mmap \in BOOLEAN /\ mc.kmem \in Nat /\ mc.mbiSize \in Nat \ {0}
    /\ mc.bios \in Seq([base : Nat, size : Nat \ {0}, usable : BOOLEAN])
    /\ \A i \in DOMAIN mc.bios : mc.bios[i].base + mc.bios[i].size - 1 <= LastPart
    /\ mc.mods \in Seq([start : Nat, end : Nat]) /\ Len(mc.mods) >= 3
    /\ \A i \in DOMAIN mc.mods : mc.mods[i].start < mc.mods[i].end /\ mc.mods[i].end <= LastPart
    /\ ~ mc.mmap => Len(mc.bios) = 2 /\ mc.kmem <= mc.bios[2].base + mc.bios[2].size

-----------------------------------------------------------------------------
\* install_memory: the first usable entry that is large enough and within the
\* kernel's reach has the kernel's memory at its end; without a map it is the
\* end of all memory.
KmemLimit == MAX_KMEM_END * Parts
KmemEntries(mc) ==
    {i \in DOMAIN mc.bios : /\ mc.bios[i].usable
                            /\ mc.bios[i].size >= mc.kmem
                            /\ mc.bios[i].base <= KmemLimit - mc.kmem}
KmemEnd(entry) == IF entry.base + entry.size < KmemLimit THEN entry.base + entry.size ELSE KmemLimit
KmemEnds(mc) ==
    IF mc.kmem = 0 THEN {}
    ELSE IF ~ mc.mmap THEN {mc.bios[2].base + mc.bios[2].size}
    ELSE {KmemEnd(mc.bios[i]) : i \in {j \in KmemEntries(mc) : \A k \in KmemEntries(mc) : j <= k}}
Kmem(mc) == SetToSeq({Desc(end - mc.kmem, end - 1, "reserved") : end \in KmemEnds(mc)})

\* Everything is shared by default, then the BIOS memory map, the kernel's
\* memory, and the VGA memory and ROMs that no map mentions.
install_memory(mc) ==
    <<Desc(0, LastPart, "shared")>>
    \o [i \in DOMAIN mc.bios |->
           Desc(mc.bios[i].base, mc.bios[i].base + mc.bios[i].size - 1,
                IF mc.bios[i].usable THEN "conventional" ELSE "architecture")]
    \o Kmem(mc)
    \o <<Desc(VgaStart * Parts, RomStart * Parts - 1, "shared"),
         Desc(RomStart * Parts, RomEnd * Parts - 1, "shared")>>

\* The first servers are dedicated up to and including their end, the other
\* modules exactly.
install_servers(mc) ==
    [i \in 1 .. 2 |-> Desc(mc.mods[i + 1].start, mc.mods[i + 1].end, "bootloader")]
protect_modules_ButLast(mc) ==
    [i \in 1 .. Len(mc.mods) - 4 |->
        Desc(mc.mods[i + 3].start, mc.mods[i + 3].end - 1, "bootloader")]
protect_modules(mc) ==
    [i \in 1 .. Len(mc.mods) - 3 |->
        Desc(mc.mods[i + 3].start, mc.mods[i + 3].end - 1, "bootloader")]

-----------------------------------------------------------------------------
Intersects(a, b, c, d) == \/ a >= c /\ a <= d
                          \/ b >= c /\ b <= d
                          \/ a <= c /\ b >= d

\* mbi_t::is_mem_region_free and kip_manager_t::is_mem_region_free.  Servers
\* that the kernel interface page does not name, as Kdebug and sigma1 here,
\* are at 0 .. 0 in it, so that nothing is ever placed at 0.
FreeOfModules(mc, start, end) ==
    /\ \A i \in DOMAIN mc.mods : ~ Intersects(start, end, mc.mods[i].start, mc.mods[i].end)
    /\ ~ Intersects(start, end, mc.kickstart.start, mc.kickstart.end)
FreeOfDescriptors(descs, start, end) ==
    \A i \in DOMAIN descs :
        \/ descs[i].type = "conventional"
        \/ descs[i].type = "shared" /\ descs[i].low = 0 /\ descs[i].high = LastPart
        \/ ~ Intersects(start, end, descs[i].low, descs[i].high)
FreeOfServers(mc, start, end) ==
    /\ ~ Intersects(start, end, 0, 0)
    /\ \A i \in 2 .. 3 : ~ Intersects(start, end, mc.mods[i].start, mc.mods[i].end)

PhysMax(descs) ==
    Max({0} \cup {descs[i].high : i \in {j \in DOMAIN descs : descs[j].type = "conventional"}})

\* The first free region at a multiple of its size, 0 if there is none.
find_free_mem_region(mc, descs, size) ==
    LET starts == {k * size : k \in 0 .. LastPart}
        free == {s \in starts : /\ s + size <= PhysMax(descs)
                                /\ FreeOfModules(mc, s, s + size - 1)
                                /\ FreeOfServers(mc, s, s + size - 1)
                                /\ FreeOfDescriptors(descs, s, s + size - 1)}
    IN  IF free = {} THEN 0 ELSE Min(free)

\* init_bootinfo and install_mbi: a page, and as many as the copy takes.
Placed(mc, descs, size) ==
    LET start == find_free_mem_region(mc, descs, size)
    IN  IF start = 0 THEN <<>> ELSE <<Desc(start, start + size - 1, "bootloader")>>

WithoutTables(mc) == install_memory(mc) \o install_servers(mc) \o protect_modules(mc)
Bootinfo(mc) == Placed(mc, WithoutTables(mc), Parts)
Mbi(mc) == Placed(mc, WithoutTables(mc) \o Bootinfo(mc), mc.mbiSize * Parts)

\* mbi_init.  Without a place for the multiboot info kickstart gives up.
Boots(mc) == Mbi(mc) # <<>>
Descriptors(mc) == WithoutTables(mc) \o Bootinfo(mc) \o Mbi(mc)
=============================================================================
