------------------------------ MODULE MCPaging ------------------------------
(* A window of 20 frames: code, data, two directories, the boot tables and   *)
(* eight pages of static_pool in the image, and more memory after it.  As in *)
(* the machine, what boot.s would map ends behind the window.                *)
EXTENDS Paging

StaticPages == <<15, 14, 13, 12, 11, 10, 9, 8>>

\* The memory map adds no page, as with most sizes of memory, or a few; the last
\* page of the window, 19, is one of them when the memory ends in it.
PcPools == {<<>>, <<17>>, <<18, 17>>, <<19>>, <<19, 18, 17>>}

=============================================================================
