-------------------------------- MODULE Fdt --------------------------------
(***************************************************************************)
(* libfdt, reading (lib/utils/libfdt/fdt.c, fdt_ro.c, fdt_check.c,         *)
(* fdt_addresses.c).                                                       *)
(*                                                                         *)
(* A blob is the header fields the code looks at, the reservation map, the *)
(* structure block as its 32-bit words and the strings block.  Offsets and *)
(* sizes count words, from 0.  A name is one word: of a node base + unit,  *)
(* with unit 1..9 for "base@unit" and 0 for a name without unit address;   *)
(* of a property its string, one entry of the strings block.  Any word may *)
(* be a property's data, the tags included.  A negative value is an error. *)
(***************************************************************************)
EXTENDS Integers, Sequences, FiniteSets

FDT_BEGIN_NODE == 1
FDT_END_NODE == 2
FDT_PROP == 3
FDT_NOP == 4
FDT_END == 9

NOTFOUND == -1
EXISTS == -2
NOSPACE == -3
BADOFFSET == -4
BADPHANDLE == -6
BADSTATE == -7
TRUNCATED == -8
BADMAGIC == -9
BADVERSION == -10
BADSTRUCTURE == -11
BADLAYOUT == -12
BADNCELLS == -14
BADVALUE == -15
BADOVERLAY == -16
NOPHANDLES == -17

HEADER == 10          \* words of struct fdt_header, a multiple of 8 bytes
RESERVE == 4          \* words of struct fdt_reserve_entry
SW_HEADER == 12       \* the header aligned to an entry, fdt_create_with_flags()
WordMod == 32         \* 2^32, of a word that is a phandle or an offset
FDT_MAX_PHANDLE == WordMod - 2
FDT_MAX_NCELLS == 4
CellMod == 8          \* 2^32
NOTERM == 255         \* a string without its terminating NUL

\* The strings of the properties the code asks for by name.
phandle == 51
linux_phandle == 52
compatible == 53
address_cells == 54
size_cells == 55

\* A generated name ("mmode_resv0@80000000") takes six words, the short ones of a tree
\* one; either way its first word tells.
LongName == 700
NameSize(name) == IF name >= LongName THEN 6 ELSE 1
NameWords(name) == [i \in 1 .. NameSize(name) |-> name]

\* off_dt_struct: behind the reservations, and their terminator once it is written;
\* these start at off_mem_rsvmap.
StructOff(f) == f.off_rsv + RESERVE * (Len(f.rsv) + IF f.stage = "memrsv" THEN 0 ELSE 1)
Word(f, offset) == f.struct[offset + 1]

\* fdt_ro_probe_(), FDT_RO_PROBE()
RoProbe(f) ==
  CASE f.magic = "fdt" /\ (f.version < 2 \/ f.last_comp > 17) -> BADVERSION
    [] f.magic = "sw" /\ f.struct = << >> -> BADSTATE
    [] f.magic \notin {"fdt", "sw"} -> BADMAGIC
    [] OTHER -> f.total

-----------------------------------------------------------------------------
\* The token stream

Tag(tag, next) == [tag |-> tag, next |-> next]

\* fdt_next_tag(): the words a token takes, 0 of an unknown one; if there are no more
\* words behind the tag, enough to run past the end.
TagSize(f, offset, tag, more) ==
  CASE tag = FDT_BEGIN_NODE -> IF more THEN 1 + NameSize(Word(f, offset + 1)) ELSE 2
    [] tag = FDT_PROP -> IF more THEN 3 + Word(f, offset + 1) ELSE 3
    [] tag \in {FDT_END_NODE, FDT_NOP, FDT_END} -> 1
    [] OTHER -> 0
SizedTag(f, offset, size) ==
  IF size = 0 \/ offset + size > Len(f.struct) THEN Tag(FDT_END, BADSTRUCTURE)
  ELSE Tag(Word(f, offset), offset + size)

\* fdt_next_tag() with the bounds of fdt_offset_ptr(): the tag at the offset and where
\* the next one is, FDT_END and an error for a premature end or an unknown tag.
NextTag(f, offset) ==
  IF offset < 0 \/ offset >= Len(f.struct)
  THEN Tag(FDT_END, TRUNCATED)
  ELSE SizedTag(f, offset, TagSize(f, offset, Word(f, offset), offset + 1 < Len(f.struct)))

\* fdt_check_node_offset_(), fdt_check_prop_offset_()
BehindTag(t, tag) == IF t.tag = tag THEN t.next ELSE BADOFFSET
CheckNodeOffset(f, offset) == BehindTag(NextTag(f, offset), FDT_BEGIN_NODE)
CheckPropOffset(f, offset) == BehindTag(NextTag(f, offset), FDT_PROP)

Node(offset, depth) == [offset |-> offset, depth |-> depth]

\* The depth of a caller that passed NULL.
NULL == 1000

\* fdt_next_node(), its loop from the offset on.
RECURSIVE NextNodeAt(_, _, _, _)
NextNodeAt(f, offset, depth, t) ==
  CASE t.tag = FDT_BEGIN_NODE -> Node(offset, depth + 1)
    [] t.tag = FDT_END_NODE /\ depth = 0 -> Node(t.next, -1)
    [] t.tag = FDT_END ->
         Node(IF t.next >= 0 \/ (t.next = TRUNCATED /\ depth > NULL \div 2)
              THEN NOTFOUND ELSE t.next, depth)
    [] OTHER -> NextNodeAt(f, t.next, IF t.tag = FDT_END_NODE THEN depth - 1 ELSE depth,
                           NextTag(f, t.next))

\* fdt_next_node()
NextNodeFrom(f, next, depth) ==
  IF next < 0 THEN Node(next, depth) ELSE NextNodeAt(f, next, depth, NextTag(f, next))
NextNode(f, offset, depth) ==
  NextNodeFrom(f, IF offset >= 0 THEN CheckNodeOffset(f, offset) ELSE 0, depth)

\* fdt_first_subnode()
FirstChild(n) == IF n.offset < 0 \/ n.depth # 1 THEN NOTFOUND ELSE n.offset
FirstSubnode(f, offset) == FirstChild(NextNode(f, offset, 0))

\* fdt_next_subnode()
RECURSIVE NextChild(_, _)
NextChild(f, n) ==
  CASE n.offset < 0 \/ n.depth < 1 -> NOTFOUND
    [] n.offset >= 0 /\ n.depth = 1 -> n.offset
    [] OTHER -> NextChild(f, NextNode(f, n.offset, n.depth))
NextSubnode(f, offset) == NextChild(f, NextNode(f, offset, 1))

\* fdt_for_each_subnode()
RECURSIVE SubnodesFrom(_, _)
SubnodesFrom(f, child) ==
  IF child < 0 THEN << >> ELSE <<child>> \o SubnodesFrom(f, NextSubnode(f, child))
Subnodes(f, offset) == SubnodesFrom(f, FirstSubnode(f, offset))

-----------------------------------------------------------------------------
\* Names and properties

\* fdt_get_name()
GetName(f, offset) ==
  IF CheckNodeOffset(f, offset) < 0 THEN BADOFFSET ELSE Word(f, offset + 1)

\* fdt_nodename_eq_(): a name without unit address stands for any.
NodenameEq(p, s) == p = s \/ (s % 10 = 0 /\ p \div 10 = s \div 10)

\* fdt_subnode_offset_namelen()
RECURSIVE SubnodeFrom(_, _, _)
SubnodeFrom(f, n, name) ==
  CASE n.depth < 0 -> NOTFOUND
    [] n.depth >= 0 /\ n.offset < 0 -> n.offset
    [] n.depth = 1 /\ n.offset >= 0 /\ NodenameEq(GetName(f, n.offset), name) -> n.offset
    [] OTHER -> SubnodeFrom(f, NextNode(f, n.offset, n.depth), name)
SubnodeOffset(f, parent, name) == SubnodeFrom(f, Node(parent, 0), name)

\* fdt_get_string(): the strings of an unfinished tree are counted from its end.
StringAt(strings, i) == IF i < 0 \/ i >= Len(strings) THEN BADOFFSET ELSE strings[i + 1]
GetString(f, stroffset) ==
  StringAt(f.strings, IF f.magic = "sw" THEN Len(f.strings) + stroffset ELSE stroffset)

\* nextprop_()
RECURSIVE NextPropAt(_, _, _)
NextPropAt(f, offset, t) ==
  CASE t.tag = FDT_END -> IF t.next >= 0 THEN BADSTRUCTURE ELSE t.next
    [] t.tag = FDT_PROP -> offset
    [] t.tag = FDT_NOP -> NextPropAt(f, t.next, NextTag(f, t.next))
    [] OTHER -> NOTFOUND
NextProp(f, next) == IF next < 0 THEN next ELSE NextPropAt(f, next, NextTag(f, next))

\* fdt_first_property_offset(), fdt_next_property_offset()
FirstPropertyOffset(f, node) == NextProp(f, CheckNodeOffset(f, node))
NextPropertyOffset(f, offset) == NextProp(f, CheckPropOffset(f, offset))

\* fdt_for_each_property_offset()
RECURSIVE PropertiesFrom(_, _)
PropertiesFrom(f, offset) ==
  IF offset < 0 THEN << >> ELSE <<offset>> \o PropertiesFrom(f, NextPropertyOffset(f, offset))
Properties(f, node) == PropertiesFrom(f, FirstPropertyOffset(f, node))

\* fdt_get_property_by_offset_(), fdt_getprop_by_offset()
PropLen(f, offset) == Word(f, offset + 1)
PropName(f, offset) == GetString(f, Word(f, offset + 2))
PropData(f, offset) == SubSeq(f.struct, offset + 4, offset + 3 + PropLen(f, offset))

\* fdt_get_property_namelen_(): the property's offset.
RECURSIVE GetPropertyFrom(_, _, _)
GetPropertyFrom(f, offset, name) ==
  IF offset < 0 \/ PropName(f, offset) = name THEN offset
  ELSE GetPropertyFrom(f, NextPropertyOffset(f, offset), name)
GetProperty(f, node, name) == GetPropertyFrom(f, FirstPropertyOffset(f, node), name)

\* fdt_getprop_namelen(), fdt_getprop(): found, the length or the error, and the data.
PropertyAt(f, offset) ==
  IF offset < 0 THEN [len |-> offset, data |-> << >>]
  ELSE [len |-> PropLen(f, offset), data |-> PropData(f, offset)]
Getprop(f, node, name) == PropertyAt(f, GetProperty(f, node, name))

\* fdt_get_phandle()
CellOr(p, other) == IF p.len = 1 THEN p.data[1] ELSE other
GetPhandle(f, node) ==
  CellOr(Getprop(f, node, phandle), CellOr(Getprop(f, node, linux_phandle), 0))

\* The offsets fdt_next_node() goes through from one node on, with the depth of each
\* relative to it; the last entry is the error that ended the walk.
RECURSIVE WalkFrom(_, _)
WalkFrom(f, n) ==
  IF n.offset < 0 THEN <<n>> ELSE <<n>> \o WalkFrom(f, NextNode(f, n.offset, n.depth))
Walk(f) == WalkFrom(f, NextNode(f, -1, NULL))
WalkedNodes(walk) == {walk[i].offset : i \in 1 .. (Len(walk) - 1)}
WalkedEnd(walk) == walk[Len(walk)].offset
NodesOf(f) == WalkedNodes(Walk(f))

Largest(S) == CHOOSE m \in S : \A n \in S : n <= m
Smallest(S) == CHOOSE m \in S : \A n \in S : m <= n

\* fdt_find_max_phandle()
MaxPhandle(f, walk) ==
  IF WalkedEnd(walk) # NOTFOUND THEN WalkedEnd(walk)
  ELSE Largest({GetPhandle(f, n) : n \in WalkedNodes(walk)} \cup {0})
FindMaxPhandle(f) == MaxPhandle(f, Walk(f))

\* fdt_generate_phandle()
NextPhandle(max) ==
  CASE max < 0 -> max
    [] max = FDT_MAX_PHANDLE -> NOPHANDLES
    [] OTHER -> max + 1
GeneratePhandle(f) == NextPhandle(FindMaxPhandle(f))

\* fdt_num_mem_rsv(): up to the entry of size 0.
NumMemRsv(f) ==
  Smallest({n \in 1 .. Len(f.rsv) : f.rsv[n].size = 0} \cup {Len(f.rsv) + 1}) - 1

-----------------------------------------------------------------------------
\* Searches.  A path is a sequence of node names from the root; aliases are left out.

\* fdt_path_offset_namelen(), one component after the other.
RECURSIVE PathFrom(_, _, _)
PathFrom(f, offset, path) ==
  IF path = << >> \/ offset < 0 THEN offset
  ELSE PathFrom(f, SubnodeOffset(f, offset, path[1]), Tail(path))

PathOffset(f, path) == IF RoProbe(f) < 0 THEN RoProbe(f) ELSE PathFrom(f, 0, path)

\* The depth of an entry of the walk below the root.
DepthAt(walk, i) == walk[i].depth - NULL - 1

\* fdt_supernode_atdepth_offset(): the last node at that depth on the way to the node.
SupernodeOn(walk, at, node, super) ==
  CASE super < 0 -> NOTFOUND
    [] super >= 0 /\ node \notin WalkedNodes(walk) -> BADOFFSET
    [] super >= 0 /\ node \in WalkedNodes(walk) ->
         IF super > DepthAt(walk, Largest({i \in 1 .. Len(walk) : walk[i].offset = node}))
         THEN NOTFOUND ELSE walk[Largest(at)].offset
Supernode(walk, node, super) ==
  SupernodeOn(walk, {i \in 1 .. Len(walk) : walk[i].offset \in 0 .. node /\ DepthAt(walk, i) = super},
              node, super)

\* fdt_node_depth()
DepthOn(walk, node) ==
  IF node \notin WalkedNodes(walk) THEN BADOFFSET
  ELSE DepthAt(walk, CHOOSE i \in 1 .. Len(walk) : walk[i].offset = node)
NodeDepth(f, node) == DepthOn(Walk(f), node)

\* fdt_parent_offset()
ParentOn(walk, node, depth) == IF depth < 0 THEN depth ELSE Supernode(walk, node, depth - 1)
ParentAlong(walk, node) == ParentOn(walk, node, DepthOn(walk, node))
ParentOffset(f, node) == ParentAlong(Walk(f), node)

\* strlen() of a node name: "" is 0, "n" is 1, "n@u" is 3, and 20 if generated.
NameLen(name) ==
  CASE name = 0 -> 0
    [] name # 0 /\ NameSize(name) = 1 -> IF name % 10 = 0 THEN 1 ELSE 3
    [] OTHER -> 20

\* Bug: the buffer keeps the names of nodes that have been left.
UnwoundNot(buf, depth) == buf

\* fdt_get_path(): the names of the nodes above, dropped when their node is left.
Unwound(buf, depth) == SubSeq(buf, 1, IF Len(buf) > depth THEN depth ELSE Len(buf))
BufLen(buf) == LET add[i \in 0 .. Len(buf)] ==
                     IF i = 0 THEN 0 ELSE add[i - 1] + NameLen(buf[i]) + 1
               IN  add[Len(buf)]

WithName(kept, depth, name, buflen) ==
  IF Len(kept) >= depth /\ BufLen(kept) + NameLen(name) + 1 <= buflen
  THEN Append(kept, name) ELSE kept

RECURSIVE GetPathFrom(_, _, _, _, _)
GetPathFrom(f, n, node, buf, buflen) ==
  IF n.offset < 0 \/ n.offset > node THEN <<BADOFFSET>>
  ELSE LET next == WithName(Unwound(buf, n.depth), n.depth, GetName(f, n.offset), buflen)
       IN  CASE n.offset # node ->
                  GetPathFrom(f, NextNode(f, n.offset, n.depth), node, next, buflen)
             [] n.offset = node ->
                  IF Len(next) < n.depth + 1 THEN <<NOSPACE>> ELSE Tail(next)
GetPath(f, node, buflen) ==
  IF buflen < 2 THEN <<NOSPACE>> ELSE GetPathFrom(f, Node(0, 0), node, << >>, buflen)

\* The first node behind start that is one of the hits, or the error that ends the walk.
FirstHit(walk, hits) ==
  walk[Smallest({i \in 1 .. Len(walk) : walk[i].offset \in hits \/ walk[i].offset < 0})].offset
FindAfter(f, start, hits) == FirstHit(WalkFrom(f, NextNode(f, start, NULL)), hits)

\* fdt_node_offset_by_prop_value()
NodeOffsetByPropValue(f, start, name, data) ==
  FindAfter(f, start, {n \in NodesOf(f) : Getprop(f, n, name) = [len |-> Len(data), data |-> data]})

\* fdt_node_offset_by_phandle()
NodeOffsetByPhandle(f, p) ==
  IF p \in {0, FDT_MAX_PHANDLE + 1} THEN BADPHANDLE
  ELSE FindAfter(f, -1, {n \in NodesOf(f) : GetPhandle(f, n) = p})

\* fdt_stringlist_contains(): the strings before the first that is not terminated.
Terminated(list) ==
  SubSeq(list, 1, Smallest({i \in 1 .. Len(list) : list[i] = NOTERM} \cup {Len(list) + 1}) - 1)
StringlistContains(list, s) == \E i \in 1 .. Len(Terminated(list)) : list[i] = s

\* fdt_stringlist_count()
CountIn(p) ==
  IF p.len >= 0 /\ Terminated(p.data) # p.data THEN BADVALUE ELSE p.len
StringlistCount(f, node, name) == CountIn(Getprop(f, node, name))

\* fdt_stringlist_search()
SearchIn(p, at) ==
  CASE p.len < 0 -> p.len
    [] p.len >= 0 /\ at # {} -> Smallest(at) - 1
    [] OTHER -> IF Terminated(p.data) # p.data THEN BADVALUE ELSE NOTFOUND
SearchOf(p, s) == SearchIn(p, {i \in 1 .. Len(Terminated(p.data)) : p.data[i] = s})
StringlistSearch(f, node, name, s) == SearchOf(Getprop(f, node, name), s)

\* fdt_stringlist_get()
GetIn(p, idx) ==
  CASE p.len < 0 -> p.len
    [] p.len >= 0 /\ idx < Len(Terminated(p.data)) -> p.data[idx + 1]
    [] OTHER -> IF Terminated(p.data) # p.data THEN BADVALUE ELSE NOTFOUND
StringlistGet(f, node, name, idx) == GetIn(Getprop(f, node, name), idx)

\* fdt_node_check_compatible(): 0, 1 or an error.
CompatibleIn(p, s) ==
  IF p.len < 0 THEN p.len ELSE IF StringlistContains(p.data, s) THEN 0 ELSE 1
CheckCompatible(f, node, s) == CompatibleIn(Getprop(f, node, compatible), s)

\* fdt_node_offset_by_compatible()
StoppedAt(n, check) == IF n >= 0 /\ check < 0 THEN check ELSE n
CompatibleFrom(f, n, s) == StoppedAt(n, CheckCompatible(f, n, s))
NodeOffsetByCompatible(f, start, s) ==
  CompatibleFrom(f, FindAfter(f, start, {n \in NodesOf(f) : CheckCompatible(f, n, s) \notin {1, NOTFOUND}}), s)

-----------------------------------------------------------------------------
\* fdt_cells()
CellsIn(p) ==
  CASE p.len < 0 -> p.len
    [] p.len >= 0 /\ (p.len # 1 \/ p.data = << >>) -> BADNCELLS
    [] OTHER -> IF p.data[1] > FDT_MAX_NCELLS THEN BADNCELLS ELSE p.data[1]
Cells(f, node, name) == CellsIn(Getprop(f, node, name))

\* fdt_address_cells()
AddressCellsOf(val) == IF val = 0 THEN BADNCELLS ELSE IF val = NOTFOUND THEN 2 ELSE val
AddressCells(f, node) == AddressCellsOf(Cells(f, node, address_cells))

\* fdt_size_cells()
SizeCellsOf(val) == IF val = NOTFOUND THEN 1 ELSE val
SizeCells(f, node) == SizeCellsOf(Cells(f, node, size_cells))

-----------------------------------------------------------------------------
\* fdt_check_header(), of what is modelled of the header.
CheckHeader(f) ==
  CASE f.magic # "fdt" -> BADMAGIC
    [] f.magic = "fdt" /\ (f.version < 2 \/ f.last_comp > 17 \/ f.version < f.last_comp) ->
         BADVERSION
    [] OTHER ->
         IF StructOff(f) + Len(f.struct) + Len(f.strings) > f.total THEN TRUNCATED ELSE 0

\* Bug: the nesting is not checked.
CheckWalkShallow(f, t, offset, depth, expect_end) == IF t.next < 0 THEN t.next ELSE 0

\* fdt_check_full(), the walk over the structure block: one token, or on with the next.
RECURSIVE CheckWalk(_, _, _, _, _)
CheckWalk(f, t, offset, depth, expect_end) ==
  CASE t.next < 0 -> t.next
    [] t.next >= 0 /\ t.tag = FDT_END -> IF depth # 0 THEN BADSTRUCTURE ELSE 0
    [] t.next >= 0 /\ t.tag # FDT_END ->
         IF \/ expect_end
            \/ depth = 0 /\ t.tag = FDT_BEGIN_NODE /\ GetName(f, offset) # 0
            \/ depth = 0 /\ t.tag = FDT_END_NODE
         THEN BADSTRUCTURE
         ELSE IF t.tag = FDT_PROP /\ PropName(f, offset) < 0 THEN BADOFFSET
         ELSE CheckWalk(f, NextTag(f, t.next), t.next,
                        CASE t.tag = FDT_BEGIN_NODE -> depth + 1
                          [] t.tag = FDT_END_NODE -> depth - 1
                          [] OTHER -> depth,
                        t.tag = FDT_END_NODE /\ depth = 1)

\* fdt_check_full()
CheckFull(f, bufsize) ==
  CASE bufsize < HEADER -> TRUNCATED
    [] bufsize >= HEADER /\ CheckHeader(f) # 0 -> CheckHeader(f)
    [] OTHER -> IF bufsize < f.total THEN TRUNCATED ELSE CheckWalk(f, NextTag(f, 0), 0, 0, FALSE)
=============================================================================
