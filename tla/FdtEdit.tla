------------------------------ MODULE FdtEdit ------------------------------
(***************************************************************************)
(* libfdt, writing: the sequential writer (lib/utils/libfdt/fdt_sw.c), the *)
(* read-write functions (fdt_rw.c), the in-place ones (fdt_wip.c) and      *)
(* fdt_appendprop_addrrange() (fdt_addresses.c).                           *)
(*                                                                         *)
(* A function that edits returns the blob and its return value.            *)
(***************************************************************************)
EXTENDS Fdt, SequencesExt

Done(f, ret) == [f |-> f, ret |-> ret]

\* fdt_data_size_()
DataSize(f) == StructOff(f) + Len(f.struct) + Len(f.strings)

\* fdt_rw_probe_(); a tree newer than version 17 becomes one of version 17.
RwProbe(f) ==
  CASE RoProbe(f) < 0 -> RoProbe(f)
    [] RoProbe(f) >= 0 /\ f.version < 17 -> BADVERSION
    [] OTHER -> IF ~f.ordered THEN BADLAYOUT ELSE 0
Probed(f) == [f EXCEPT !.version = IF @ > 17 THEN 17 ELSE @]

\* Bug: the room is measured without what is taken away.
SpliceFitsOff(f, oldlen, newlen) == DataSize(f) - oldlen <= f.total

\* fdt_splice_(): whether the blob has room for the change.
SpliceFits(f, oldlen, newlen) == DataSize(f) - oldlen + newlen <= f.total

\* fdt_splice_struct_() and the stores into the new words.
SpliceStruct(f, offset, oldlen, words) ==
  IF SpliceFits(f, oldlen, Len(words))
  THEN Done([f EXCEPT !.struct = SubSeq(@, 1, offset) \o words
                                 \o SubSeq(@, offset + oldlen + 1, Len(@))], 0)
  ELSE Done(f, NOSPACE)

\* fdt_find_string_()
FindString(strings, s) == IndexFirstSubSeq(<<s>>, strings)

\* fdt_find_add_string_() and fdt_splice_string_()
FindAddString(f, s) ==
  CASE s \in ToSet(f.strings) -> Done(f, FindString(f.strings, s) - 1)
    [] OTHER -> IF SpliceFits(f, 0, 1)
                THEN Done([f EXCEPT !.strings = Append(@, s)], Len(f.strings))
                ELSE Done(f, NOSPACE)

\* Bug: a property that does not fit leaves its name in the strings block.
RolledBackNot(f, named) == named.f

\* fdt_del_last_string_() after a failed splice.
RolledBack(f, named) == f

\* fdt_add_property_(), with the data.
AddedOr(f, named, added) ==
  IF added.ret < 0 THEN Done(RolledBack(f, named), added.ret) ELSE added
AddNamed(f, next, named, data) ==
  CASE next < 0 -> Done(f, next)
    [] next >= 0 /\ named.ret < 0 -> Done(f, named.ret)
    [] OTHER -> AddedOr(f, named, SpliceStruct(named.f, next, 0, <<FDT_PROP, Len(data), named.ret>> \o data))
AddProperty(f, node, name, data) == AddNamed(f, CheckNodeOffset(f, node), FindAddString(f, name), data)

\* fdt_resize_property_(), with the data.
ResizeAt(f, prop, data) ==
  IF prop < 0 THEN Done(f, prop)
  ELSE SpliceStruct(f, prop + 1, 2 + PropLen(f, prop), <<Len(data), Word(f, prop + 2)>> \o data)

\* fdt_setprop_placeholder() and fdt_setprop()
Resized(f, node, name, data, resized) ==
  IF resized.ret = NOTFOUND THEN AddProperty(f, node, name, data) ELSE resized
SetProbed(f, node, name, data) ==
  Resized(f, node, name, data, ResizeAt(f, GetProperty(f, node, name), data))
Setprop(f, node, name, data) ==
  IF RwProbe(f) < 0 THEN Done(f, RwProbe(f)) ELSE SetProbed(Probed(f), node, name, data)

\* fdt_appendprop()
AppendAt(f, node, prop, name, data) ==
  IF prop >= 0 THEN ResizeAt(f, prop, PropData(f, prop) \o data) ELSE AddProperty(f, node, name, data)
Appendprop(f, node, name, data) ==
  IF RwProbe(f) < 0 THEN Done(f, RwProbe(f))
  ELSE AppendAt(Probed(f), node, GetProperty(f, node, name), name, data)

\* fdt_delprop()
DelAt(f, prop) ==
  IF prop < 0 THEN Done(f, prop) ELSE SpliceStruct(f, prop, 3 + PropLen(f, prop), << >>)
Delprop(f, node, name) ==
  IF RwProbe(f) < 0 THEN Done(f, RwProbe(f)) ELSE DelAt(Probed(f), GetProperty(f, node, name))

\* fdt_set_name()
SetName(f, node, name) ==
  CASE RwProbe(f) < 0 -> Done(f, RwProbe(f))
    [] RwProbe(f) = 0 /\ GetName(f, node) < 0 -> Done(Probed(f), BADOFFSET)
    [] OTHER -> SpliceStruct(Probed(f), node + 1, NameSize(GetName(f, node)), NameWords(name))

\* Bug: the node is placed right behind the name of its parent.
BehindNothing(f, offset) == offset

\* fdt_add_subnode_namelen(): behind the properties of the parent.
RECURSIVE BehindProperties(_, _)
BehindProperties(f, offset) ==
  IF NextTag(f, offset).tag \in {FDT_PROP, FDT_NOP}
  THEN BehindProperties(f, NextTag(f, offset).next) ELSE offset

\* fdt_add_subnode_namelen(): returns the offset of the new node.
NodeAdded(added, at) == IF added.ret < 0 THEN added ELSE Done(added.f, at)
AddNodeAt(f, at, name) ==
  NodeAdded(SpliceStruct(f, at, 0, <<FDT_BEGIN_NODE>> \o NameWords(name) \o <<FDT_END_NODE>>), at)
AddUnless(f, parent, name, there) ==
  CASE there >= 0 -> Done(f, EXISTS)
    [] there < 0 /\ there # NOTFOUND -> Done(f, there)
    [] there = NOTFOUND -> AddNodeAt(f, BehindProperties(f, NextTag(f, parent).next), name)
AddSubnode(f, parent, name) ==
  IF RwProbe(f) < 0 THEN Done(f, RwProbe(f))
  ELSE AddUnless(Probed(f), parent, name, SubnodeOffset(f, parent, name))

\* fdt_node_end_offset_()
RECURSIVE NodeEndFrom(_, _)
NodeEndFrom(f, n) ==
  IF n.offset < 0 \/ n.depth < 0 THEN n.offset ELSE NodeEndFrom(f, NextNode(f, n.offset, n.depth))
NodeEnd(f, node) == NodeEndFrom(f, Node(node, 0))

\* fdt_del_node()
DelUpTo(f, node, end) ==
  IF end < 0 THEN Done(f, end) ELSE SpliceStruct(f, node, end - node, << >>)
DelNode(f, node) ==
  IF RwProbe(f) < 0 THEN Done(f, RwProbe(f)) ELSE DelUpTo(Probed(f), node, NodeEnd(f, node))

\* fdt_nop_region_()
NopRegion(f, from, len) ==
  [f EXCEPT !.struct = [i \in 1 .. Len(@) |-> IF i \in (from + 1) .. (from + len)
                                              THEN FDT_NOP ELSE @[i]]]

\* fdt_nop_property()
NopAt(f, prop) ==
  IF prop < 0 THEN Done(f, prop) ELSE Done(NopRegion(f, prop, 3 + PropLen(f, prop)), 0)
NopProperty(f, node, name) == NopAt(f, GetProperty(f, node, name))

\* fdt_nop_node()
NopUpTo(f, node, end) == IF end < 0 THEN Done(f, end) ELSE Done(NopRegion(f, node, end - node), 0)
NopNode(f, node) == NopUpTo(f, node, NodeEnd(f, node))

\* fdt_setprop_inplace_namelen_partial(): the end of what is stored wraps at 32 bits.
\* If it does, the store is outside the property and nothing is known of the blob.
Overrun(f) == f.stage = "overrun"
StoreAt(f, prop, idx, data) ==
  CASE prop < 0 -> Done(f, prop)
    [] prop >= 0 /\ PropLen(f, prop) < (Len(data) + idx) % WordMod -> Done(f, NOSPACE)
    [] prop >= 0 /\ Len(data) + idx >= WordMod /\ PropLen(f, prop) >= (Len(data) + idx) % WordMod ->
         Done([f EXCEPT !.stage = "overrun"], 0)
    [] OTHER ->
         Done([f EXCEPT !.struct = [i \in 1 .. Len(@) |->
                 IF i - prop - 3 - idx \in 1 .. Len(data)
                 THEN data[i - prop - 3 - idx] ELSE @[i]]], 0)
SetpropInplacePartial(f, node, name, idx, data) == StoreAt(f, GetProperty(f, node, name), idx, data)

\* fdt_setprop_inplace()
StoreIfSame(f, prop, data) ==
  IF prop >= 0 /\ PropLen(f, prop) # Len(data) THEN Done(f, NOSPACE) ELSE StoreAt(f, prop, 0, data)
SetpropInplace(f, node, name, data) == StoreIfSame(f, GetProperty(f, node, name), data)

\* fdt_appendprop_addrrange(): address and size in the cells the parent says.  The test
\* "(UINT32_MAX + 1 - addr) < size" wraps to zero at 32 bits, then at 64.
InCells(cells, x) == IF cells = 1 THEN <<x>> ELSE <<x \div CellMod, x % CellMod>>
Beyond(addr, size) ==
  addr >= CellMod \/ (CellMod * CellMod - addr) % (CellMod * CellMod) < size
AppendInCells(f, na, ns, node, name, addr, size) ==
  IF na < 0 THEN Done(f, na)
  ELSE IF ns < 0 THEN Done(f, ns)
  ELSE IF na = 1 /\ Beyond(addr, size) THEN Done(f, BADVALUE)
  ELSE IF na \notin {1, 2} THEN Done(f, BADNCELLS)
  ELSE IF ns = 1 /\ size >= CellMod THEN Done(f, BADVALUE)
  ELSE IF ns \notin {1, 2} THEN Done(f, BADNCELLS)
  ELSE Appendprop(f, node, name, InCells(na, addr) \o InCells(ns, size))
AppendpropAddrrange(f, parent, node, name, addr, size) ==
  AppendInCells(f, AddressCells(f, parent), SizeCells(f, parent), node, name, addr, size)

\* fdt_add_mem_rsv()
AddMemRsv(f, re) ==
  CASE RwProbe(f) < 0 -> Done(f, RwProbe(f))
    [] RwProbe(f) = 0 /\ ~SpliceFits(f, 0, RESERVE) -> Done(Probed(f), NOSPACE)
    [] OTHER -> Done([Probed(f) EXCEPT !.rsv = InsertAt(@, NumMemRsv(f) + 1, re)], 0)

\* fdt_del_mem_rsv()
DelMemRsv(f, n) ==
  CASE RwProbe(f) < 0 -> Done(f, RwProbe(f))
    [] RwProbe(f) = 0 /\ n >= NumMemRsv(f) -> Done(Probed(f), NOTFOUND)
    [] OTHER -> Done([Probed(f) EXCEPT !.rsv = RemoveAt(@, n + 1)], 0)

\* fdt_packblocks_(): everything right behind the header, in order.
Packed(f) == [f EXCEPT !.off_rsv = HEADER, !.ordered = TRUE]

\* fdt_open_into() on the tree's own buffer, as all callers use it: a tree whose blocks
\* are out of order is packed behind itself and moved back.
OpenInto(f, bufsize) ==
  CASE RoProbe(f) < 0 -> Done(f, RoProbe(f))
    [] RoProbe(f) >= 0 /\ f.version < 16 -> Done(f, BADVERSION)
    [] RoProbe(f) >= 0 /\ f.version >= 16 /\ f.ordered ->
         IF f.total > bufsize THEN Done(f, NOSPACE)
         ELSE Done([f EXCEPT !.version = 17, !.total = bufsize], 0)
    [] OTHER ->
         IF f.total + DataSize(Packed(f)) > bufsize THEN Done(f, NOSPACE)
         ELSE Done([Packed(f) EXCEPT !.magic = "fdt", !.version = 17, !.last_comp = 16,
                                     !.total = bufsize], 0)

\* fdt_pack()
Pack(f) ==
  IF RwProbe(f) < 0 THEN Done(f, RwProbe(f))
  ELSE Done([Packed(Probed(f)) EXCEPT !.total = DataSize(Packed(f))], 0)

-----------------------------------------------------------------------------
\* The sequential writer

\* fdt_grab_space_()
GrabFits(f, len) == Len(f.struct) + len <= f.total - StructOff(f) - Len(f.strings)
Grab(f, words) ==
  IF GrabFits(f, Len(words)) THEN Done([f EXCEPT !.struct = @ \o words], 0) ELSE Done(f, NOSPACE)

\* fdt_create_with_flags()
Create(bufsize) ==
  [magic |-> "sw", version |-> 17, last_comp |-> 0, total |-> bufsize, off_rsv |-> SW_HEADER,
   ordered |-> TRUE, stage |-> "memrsv", rsv |-> << >>, struct |-> << >>, strings |-> << >>]
Created(bufsize) == Done(Create(bufsize), IF bufsize < SW_HEADER THEN NOSPACE ELSE 0)

\* fdt_sw_probe_memrsv_(), fdt_sw_probe_struct_()
SwProbe(f, stage) ==
  CASE f.magic = "fdt" -> BADSTATE
    [] f.magic \notin {"fdt", "sw"} -> BADMAGIC
    [] OTHER -> IF f.stage = stage THEN 0 ELSE BADSTATE

\* fdt_add_reservemap_entry()
AddReservemapEntry(f, re) ==
  CASE SwProbe(f, "memrsv") < 0 -> Done(f, SwProbe(f, "memrsv"))
    [] OTHER -> IF StructOff(f) + RESERVE > f.total THEN Done(f, NOSPACE)
                ELSE Done([f EXCEPT !.rsv = Append(@, re)], 0)

\* fdt_finish_reservemap()
FinishReservemap(f) ==
  CASE SwProbe(f, "memrsv") < 0 -> Done(f, SwProbe(f, "memrsv"))
    [] OTHER -> IF StructOff(f) + RESERVE > f.total THEN Done(f, NOSPACE)
                ELSE Done([f EXCEPT !.stage = "struct"], 0)

\* fdt_begin_node()
BeginNode(f, name) ==
  IF SwProbe(f, "struct") < 0 THEN Done(f, SwProbe(f, "struct"))
  ELSE Grab(f, <<FDT_BEGIN_NODE>> \o NameWords(name))

\* fdt_end_node()
EndNode(f) ==
  IF SwProbe(f, "struct") < 0 THEN Done(f, SwProbe(f, "struct")) ELSE Grab(f, <<FDT_END_NODE>>)

\* fdt_add_string_(), fdt_find_add_string_() of fdt_sw.c: the strings grow downwards from
\* the end of the buffer and an offset counts from there; 0 is "no more room".
SwAddString(f, s) ==
  CASE s \in ToSet(f.strings) -> Done(f, FindString(f.strings, s) - 1 - Len(f.strings))
    [] OTHER -> IF f.total - (Len(f.strings) + 1) < StructOff(f) + Len(f.struct) THEN Done(f, 0)
                ELSE Done([f EXCEPT !.strings = <<s>> \o @], -(Len(f.strings) + 1))

\* fdt_property_placeholder(), fdt_property()
PropertyNamed(f, named, data) ==
  IF named.ret = 0 THEN Done(f, NOSPACE)
  ELSE AddedOr(f, named, Grab(named.f, <<FDT_PROP, Len(data), named.ret>> \o data))
Property(f, name, data) ==
  IF SwProbe(f, "struct") < 0 THEN Done(f, SwProbe(f, "struct"))
  ELSE PropertyNamed(f, SwAddString(f, name), data)

\* fdt_finish(), the walk that corrects the string offsets.
RECURSIVE CorrectedFrom(_, _, _)
CorrectedFrom(f, offset, t) ==
  CASE t.tag = FDT_END -> f.struct
    [] t.tag = FDT_PROP ->
         CorrectedFrom([f EXCEPT !.struct[offset + 3] = @ + Len(f.strings)], t.next, NextTag(f, t.next))
    [] OTHER -> CorrectedFrom(f, t.next, NextTag(f, t.next))
Corrected(f) == CorrectedFrom(f, 0, NextTag(f, 0))

\* fdt_finish()
Ended(r) ==
  IF r.ret < 0 THEN r
  ELSE Done([r.f EXCEPT !.struct = Corrected(r.f), !.magic = "fdt", !.last_comp = 16,
                        !.total = DataSize(r.f)], 0)
Finish(f) ==
  IF SwProbe(f, "struct") < 0 THEN Done(f, SwProbe(f, "struct")) ELSE Ended(Grab(f, <<FDT_END>>))

\* fdt_resize(), in place.
Resize(f, bufsize) ==
  CASE f.magic = "fdt" -> Done(f, BADSTATE)
    [] f.magic \notin {"fdt", "sw"} -> Done(f, BADMAGIC)
    [] OTHER -> IF DataSize(f) > bufsize THEN Done(f, NOSPACE)
                ELSE Done([f EXCEPT !.total = bufsize], 0)

\* fdt_create_empty_tree()
Then(r, next) == IF r.ret < 0 THEN r ELSE next
OpenIfWhole(r, bufsize) == Then(r, OpenInto(r.f, bufsize))
FinishIfEnded(r) == Then(r, Finish(r.f))
EndIfBegun(r) == Then(r, EndNode(r.f))
BeginIfMapped(r) == Then(r, BeginNode(r.f, 0))
MapIfCreated(r) == Then(r, FinishReservemap(r.f))
CreateEmptyTree(bufsize) ==
  OpenIfWhole(FinishIfEnded(EndIfBegun(BeginIfMapped(MapIfCreated(Created(bufsize))))), bufsize)
=============================================================================
