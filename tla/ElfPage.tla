------------------------------ MODULE ElfPage ------------------------------
(***************************************************************************)
(* How the two pagers of sdiOS fill one page of a program from its ELF     *)
(* image.  RAM-DSM (ram_dsm/bielfloader.cc, pagefault) and the application *)
(* pager (apppager/apppager.cc, pagefault) contain the same loop; the root *)
(* task loads RAM-DSM itself with load_elfimage (root/main.cc), which      *)
(* copies whole segments and is the reference here.                        *)
(*                                                                         *)
(* An image is the sequence of its program headers.  Addresses are machine *)
(* words.  The byte at offset o of the image is written o + 1; 0 is a byte *)
(* that was cleared.                                                       *)
(***************************************************************************)
EXTENDS Integers, Sequences

CONSTANTS
    PageSize,       \* 0x1000
    Word            \* 2^32

ASSUME ElfPageAssumption ==
    /\ PageSize \in Nat \ {0}
    /\ Word \in Nat /\ Word % PageSize = 0 /\ PageSize < Word

Phdrs == [p_type : {"PT_LOAD", "other"}, p_vaddr : Nat, p_offset : Nat,
          p_filesz : Nat, p_memsz : Nat]

\* What a linker writes: a segment has at most as many bytes in the file as in
\* memory, and ends inside the address space.
WellFormed(phdrs) ==
    \A k \in DOMAIN phdrs :
        /\ phdrs[k].p_filesz <= phdrs[k].p_memsz
        /\ phdrs[k].p_vaddr + phdrs[k].p_memsz < Word

PageStarts == {a \in 0 .. Word - PageSize : a % PageSize = 0}
Bytes      == 0 .. PageSize - 1
ZeroPage   == [b \in Bytes |-> 0]

\* The last of a set of headers: what it copies stays.
LastOf(S) == CHOOSE k \in S : \A j \in S : j <= k

-----------------------------------------------------------------------------
\* Page and segment overlap.
Overlaps(p, page_start) ==
    /\ page_start + PageSize - 1 >= p.p_vaddr
    /\ (p.p_vaddr + p.p_memsz) % Word > page_start

\* Where the copy starts in the segment and in the page.
s_offset(p, page_start) == IF p.p_vaddr < page_start THEN page_start - p.p_vaddr ELSE 0
d_offset(p, page_start) == IF p.p_vaddr > page_start THEN p.p_vaddr - page_start ELSE 0

\* How much is copied, in machine words.
copylength(p, page_start) ==
    LET s_max == (p.p_filesz - s_offset(p, page_start)) % Word
        d_max == PageSize - d_offset(p, page_start)
    IN  IF s_max > d_max THEN d_max ELSE s_max

\* The memcpy for a segment writes byte b of the page.
Copies(p, page_start, b) ==
    /\ p.p_type = "PT_LOAD"
    /\ Overlaps(p, page_start)
    /\ b \in d_offset(p, page_start) .. d_offset(p, page_start) + copylength(p, page_start) - 1

\* The page after the loop over the program headers: cleared, then written
\* segment by segment.
Filled(phdrs, page_start) ==
    [b \in Bytes |->
        LET from == {k \in DOMAIN phdrs : Copies(phdrs[k], page_start, b)}
            p    == phdrs[LastOf(from)]
        IN  IF from = {} THEN 0
            ELSE p.p_offset + s_offset(p, page_start) + (b - d_offset(p, page_start)) + 1]

-----------------------------------------------------------------------------
(***************************************************************************)
(* load_elfimage: copy the file part of each loadable segment; the rest of *)
(* the segment is cleared, and memory that belongs to no segment is left   *)
(* as it was, here cleared.  (A linker writes segments that lie apart, so  *)
(* that clearing the rest of one leaves the others alone.)                 *)
(***************************************************************************)
InFilePart(p, a) ==
    /\ p.p_type = "PT_LOAD"
    /\ a >= p.p_vaddr
    /\ a < p.p_vaddr + p.p_filesz

load_elfimage(phdrs, page_start) ==
    [b \in Bytes |->
        LET a    == page_start + b
            from == {k \in DOMAIN phdrs : InFilePart(phdrs[k], a)}
            p    == phdrs[LastOf(from)]
        IN  IF from = {} THEN 0 ELSE p.p_offset + (a - p.p_vaddr) + 1]

(***************************************************************************)
(* Where a page of a segment begins behind the file part, in the .bss of   *)
(* every program that has more than a page of it, load_elfimage clears the *)
(* page.  The pagers subtract more than there is from p_filesz, the result *)
(* wraps (bielfloader.cc:147, apppager.cc:76), and they read on in the     *)
(* image up to the end of the page.                                        *)
(***************************************************************************)
Behind(p, page_start) ==
    p.p_vaddr + p.p_filesz < page_start /\ page_start < p.p_vaddr + p.p_memsz

ReadOn(phdrs, page_start) ==
    [k \in DOMAIN phdrs |->
        IF Behind(phdrs[k], page_start)
        THEN [phdrs[k] EXCEPT !.p_filesz = page_start + PageSize - phdrs[k].p_vaddr]
        ELSE phdrs[k]]

\* What a page of a program shows: what load_elfimage puts there, byte for byte,
\* with the exception above.
AsLoaded(phdrs, page_start) == load_elfimage(ReadOn(phdrs, page_start), page_start)
=============================================================================
