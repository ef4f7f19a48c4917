------------------------------ MODULE MCKalloc ------------------------------
(* A small pool for TLC.                                                    *)
EXTENDS Kalloc

CONSTANTS p1, p2, p3, p4, data

FourPages == {p1, p2, p3, p4}

=============================================================================
