------------------------------ MODULE MC_Sigma0 ------------------------------
(* Three small machines of 16 pages for Sigma0. *)
EXTENDS Sigma0

UserSymmetry == Permutations(Users)

Module(start, end) == [start |-> start, end |-> end]
Usable(base, size) == [base |-> base, size |-> size, usable |-> TRUE]
Not(base, size) == [base |-> base, size |-> size, usable |-> FALSE]

\* kernel, sigma0, root task, and a module that ends inside a page
Images == <<Module(12, 14), Module(14, 16), Module(24, 25), Module(16, 17)>>
Plain == [mmap |-> TRUE, bios |-> <<Usable(0, 7), Not(7, 1), Usable(12, 16)>>, kmem |-> 2,
          mods |-> Images, kickstart |-> Module(20, 21), mbiSize |-> 1]
\* usable memory that starts in the middle of a page, none for the kernel
Ragged == [Plain EXCEPT !.bios = <<Usable(0, 8), Not(28, 2), Usable(11, 17)>>, !.kmem = 0]
\* no BIOS map, the boot loader in low memory, and hardly any memory left
Old == [Plain EXCEPT !.mmap = FALSE, !.bios = <<Usable(0, 8), Usable(12, 16)>>, !.kickstart = Module(2, 3),
                     !.mods = [Images EXCEPT ![4] = Module(16, 22)]]
MCMachines == {Plain, Ragged, Old}

\* the hypothesis of FreeMemoryUnusedAlways holds of them
ASSUME \A mc \in Machines : EndsMentioned(mc)
=============================================================================
