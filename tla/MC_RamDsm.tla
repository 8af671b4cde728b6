----------------------------- MODULE MC_RamDsm -----------------------------
(***************************************************************************)
(* An instance of RamDsm for TLC: two boot records, 0 and 1, and 2 for     *)
(* what lies behind the last one.  Pages have two bytes.  Both programs    *)
(* have a file part that begins and ends in mid-page and a .bss that       *)
(* reaches into the page behind it.                                        *)
(***************************************************************************)
EXTENDS RamDsm, TLC

Segment(type, vaddr, offset, filesz, memsz) ==
    [p_type |-> type, p_vaddr |-> vaddr, p_offset |-> offset,
     p_filesz |-> filesz, p_memsz |-> memsz]

MCImage ==
    (0 :> <<Segment("PT_LOAD", 1, 10, 2, 5)>>) @@
    (1 :> <<Segment("other", 2, 20, 2, 2), Segment("PT_LOAD", 1, 20, 2, 5)>>) @@
    (2 :> <<Segment("PT_LOAD", 2, 30, 2, 2)>>)

Boot(first, behind) == (0 :> first) @@ (1 :> "module") @@ (2 :> behind)
MCBootInfos == {Boot("module", "root"), Boot("other", "module"), Boot("taken", "other")}

\* The loop of the pagers against loading the whole image: for all images of two
\* segments that follow each other in the file, and every page.
ASSUME SmallImagesAsLoaded ==
    \A type \in {"PT_LOAD", "other"}, v1 \in 0 .. 4, v2 \in 1 .. 5,
       f1, m1, f2, m2 \in 0 .. 5 :
        LET phdrs == <<Segment(type, v1, 2, f1, m1), Segment("PT_LOAD", v2, 2 + f1, f2, m2)>>
        IN  WellFormed(phdrs) =>
                \A v \in PageStarts : Filled(phdrs, v) = AsLoaded(phdrs, v)
=============================================================================
