------------------------------ MODULE MCSignal ------------------------------
EXTENDS Signal

\* The keyboard's and the floppy controller's request lines.
CONSTANTS keyboard, floppy
IrqOf == [s \in Signals |-> IF s = keyboard THEN 1 ELSE 6]
=============================================================================
