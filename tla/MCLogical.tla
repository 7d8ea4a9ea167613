------------------------------ MODULE MCLogical ------------------------------
(* Pages of two units, a kernel that ends inside page 2, tables of two entries. *)
EXTENDS Logical

Memory(base, length) == [base |-> base, length |-> length, type |-> 1]
Firmware(base, length) == [base |-> base, length |-> length, type |-> 2]

\* Unsorted maps; entries over the kernel's end and out of line with the pages;
\* memory beyond the bitmap and beyond the 32 bits; memory inside other
\* memory; memory that ends where the kernel does; two entries with one base.
MCBootMaps ==
  { <<Memory(8, 14), Memory(0, 7), Firmware(7, 1)>>,
    <<Memory(9, 10), Firmware(3, 4), Memory(0, 3), Memory(30, 40)>>,
    <<Memory(18, 60), Memory(1, 15), Firmware(14, 3)>>,
    <<Memory(7, 12), Memory(4, 2), Memory(0, 4)>>,
    <<Memory(13, 7), Memory(6, 6)>>,
    <<Memory(8, 4), Memory(6, 14)>>,
    <<Firmware(8, 3), Memory(0, 5)>>,
    <<Memory(0, 10), Memory(0, 4)>> }
MCReserved == {<<10, 1>>}
=============================================================================
