------------------------------- MODULE MCTlb -------------------------------
(* TLC instances of Tlb. *)
EXTENDS Tlb

Req(type, start, size, asid) ==
  [type |-> type, start |-> start, size |-> size, asid |-> asid, vmid |-> 1]

Load(senders, requests, masks, stops) ==
  [senders |-> senders, requests |-> requests, masks |-> masks, stops |-> stops]

\* Ranges that contain each other, that overlap, and that become a full flush, in two
\* address spaces.
Ranges == {Req("SFENCE_VMA_ASID", 1, 2, 1), Req("SFENCE_VMA_ASID", 2, 2, 1),
           Req("SFENCE_VMA_ASID", 2, 1, 1), Req("SFENCE_VMA_ASID", 2, 1, 2),
           Req("SFENCE_VMA_ASID", 1, 3, 2), Req("SFENCE_VMA", 2, 1, 1),
           Req("SFENCE_VMA", 1, 2, 1)}

\* Ranges that reach the top of the address space, or wrap around it.
Tops == {Req("SFENCE_VMA", 7, 1, 1), Req("SFENCE_VMA", 7, 2, 1), Req("SFENCE_VMA", 6, 1, 1),
         Req("SFENCE_VMA", 0, 7, 1)}

\* Fences for two guests, which never merge.
Guests == {Req("HFENCE_VVMA", 1, 2, 1), Req("HFENCE_VVMA_ASID", 2, 1, 2),
           Req("HFENCE_GVMA", 1, 1, 1), Req("HFENCE_GVMA_VMID", 1, 1, 1),
           [Req("HFENCE_GVMA_VMID", 1, 3, 1) EXCEPT !.vmid = 2]}

Insn == Req("FENCE_I", 0, 0, 1)

\* Two senders meet in the queue of the third hart with every pair of ranges; two
\* harts fence all three, themselves and each other included; and harts stop meanwhile.
Fences ==
  {Load({0, 1}, Ranges, {{2}}, FALSE),
   Load({0, 1}, Tops, {{2}}, FALSE),
   Load({0, 1}, Guests, {{2}}, FALSE),
   Load({0, 2}, {Insn, Req("SFENCE_VMA", 1, 1, 1)}, {Harts}, FALSE),
   Load({0, 1}, {Insn}, {{1, 2}}, TRUE)}

\* Harts that wait for each other, and for a hart that may stop.
Waits ==
  {Load({0, 1}, {Insn}, {Harts}, FALSE),
   Load({0, 1}, {Insn}, {{2}}, TRUE)}

\* Both spellings of a full flush.
FullFlushes ==
  {Load({0, 1}, {Req("SFENCE_VMA", 0, 1, 1), Req("SFENCE_VMA", 0, 0, 1)}, {{2}}, FALSE)}
=============================================================================
