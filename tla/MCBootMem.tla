----------------------------- MODULE MCBootMem -----------------------------
(* Memory maps like those of a PC, in units of half a page.                 *)
EXTENDS BootMem

Entry(b, l, t) == [base |-> b, length |-> l, type |-> t]

\* Memory below 640 K, the BIOS, and at the end of the address space the
\* flash memory, which wraps.
Pc(regions) ==
  <<Entry(0, 2, 1), Entry(3, 1, 2)>> \o regions \o <<Entry(W - 2, 2, 2)>>

\* No map; a region after the kernel's start, of every size up to 3 GB, with
\* ACPI data after it or not; two regions with a hole between them.
PcMaps ==
  {<<>>, Pc(<<>>)}
  \cup {Pc(<<Entry(OneMiB, top - OneMiB, 1)>>) :
          top \in OneMiB + kernel_size..KERN_BASE}
  \cup {Pc(<<Entry(OneMiB, top - OneMiB, 1), Entry(top, 2, 3)>>) :
          top \in OneMiB + kernel_size..KERN_BASE}
  \cup {Pc(<<Entry(OneMiB, hole - OneMiB, 1), Entry(hole + 2, l, 1)>>) :
          hole \in OneMiB + kernel_size..Window, l \in {1, 4, 40, 100}}

=============================================================================
