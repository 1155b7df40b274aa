------------------------------ MODULE MCImages ------------------------------
(***************************************************************************)
(* Images for TLC: ELF files with one to three headers and segments of     *)
(* many sizes, behind an empty header or not; data files behind a gap,     *)
(* right behind the image or each other, and across a bank.                *)
(***************************************************************************)
EXTENDS Images

\* A header with n bytes that tell segments and positions apart; ESP images begin
\* with 233, and so may data.
Header(no, n) ==
    [vaddr |-> <<4, no, 200, 63>>, data |-> [j \in 1 .. n |-> (29 * j + 100 * no) % 256]]
Elf(sizes) ==
    [entry |-> <<16, 4, 56, 64>>, phdrs |-> [n \in DOMAIN sizes |-> Header(n, sizes[n])]]

Sizes == {<<n>> : n \in 1 .. 17} \cup {<<a, b>> : a \in {0, 3, 4, 7}, b \in {1, 8, 24}}
           \cup {<<0, 5, 16>>, <<6, 0, 7>>, <<7, 40>>}
MCElfs == {Elf(sizes) : sizes \in Sizes}

File(addr, n) == [addr |-> addr, data |-> [j \in 1 .. n |-> (7 * j + 3) % 256]]
MCDataFiles == {<< >>, <<File(160, 40)>>, <<File(224, 64), File(288, 20)>>}
UnalignedDataFiles == {<<File(248, 20)>>}

MCBootloaderAt == [esp32 |-> 64, esp32c3 |-> 0]
MCOldHeaders == {<< >>, <<233, 1, 2, 32>>, <<1, 2, 3, 4>>}
MCFpars == {<< >>, <<2, 47>>}

\* The files that must come back are put at whole blocks; the unaligned ones not even
\* at whole lines.
ASSUME MCBlockwiseAssumption == IF DataFiles = MCDataFiles THEN Blockwise ELSE ~Linewise
=============================================================================
