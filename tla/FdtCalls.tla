------------------------------ MODULE FdtCalls ------------------------------
(***************************************************************************)
(* A client of libfdt writes a tree with the sequential writer, in any     *)
(* order of calls, or is given one, and edits it by any calls.  Beside the *)
(* blob it keeps the tree its calls were to make: the nodes in preorder,   *)
(* each with its depth, its name and its properties in order.              *)
(***************************************************************************)
EXTENDS FdtTree

CONSTANTS
  FdtNodes,     \* node names a caller uses
  FdtProps,     \* property names
  FdtValues,    \* property values
  FdtSizes,     \* buffer sizes
  FdtGiven,     \* trees a client may be given
  FdtWrites,    \* how many calls of the sequential writer
  FdtEdits      \* how many edits

VARIABLES
  fdt,          \* the blob
  tree,         \* the tree the calls have made
  open,         \* how many nodes are begun and not ended
  balanced,     \* the calls so far nest, under one root with an empty name
  orderly,      \* properties come before subnodes
  fdt_calls,    \* calls left
  fdt_ret       \* what the last call returned

fdt_vars == <<fdt, tree, open, balanced, orderly, fdt_calls, fdt_ret>>

-----------------------------------------------------------------------------
FdtInit ==
  \/ /\ \E size \in FdtSizes : \E made \in {Created(size)} : made.ret = 0 /\ fdt = made.f
     /\ tree = << >>
     /\ open = 0 /\ balanced = TRUE /\ orderly = TRUE /\ fdt_ret = 0
     /\ fdt_calls = FdtWrites
  \/ /\ tree \in FdtGiven
     /\ \E size \in FdtSizes, version \in {16, 17, 18}, ordered \in BOOLEAN :
          /\ fdt = [Compiled(tree, size) EXCEPT !.version = version, !.ordered = ordered]
          /\ DataSize(fdt) <= size
     /\ open = 0 /\ balanced = TRUE /\ orderly = TRUE /\ fdt_ret = 0
     /\ fdt_calls = FdtEdits
  \/ /\ \E size \in FdtSizes : \E made \in {CreateEmptyTree(size)} : made.ret = 0 /\ fdt = made.f
     /\ tree = <<TreeNode(0, 0, << >>)>>
     /\ open = 0 /\ balanced = TRUE /\ orderly = TRUE /\ fdt_ret = 0
     /\ fdt_calls = FdtEdits

Calls(r) == fdt' = r.f /\ fdt_ret' = r.ret
Editing == fdt.magic = "fdt"

\* A call of the writer, and what a successful one makes of the tree.
Write(r, t, depth, nests, order) ==
  /\ ~Editing /\ fdt_calls > 0
  /\ fdt_calls' = fdt_calls - 1
  /\ Calls(r)
  /\ IF r.ret < 0 THEN UNCHANGED <<tree, open, balanced, orderly>>
     ELSE /\ tree' = t
          /\ open' = depth
          /\ balanced' = (balanced /\ nests)
          /\ orderly' = (orderly /\ order)

WriteMemrsv ==
  \/ Write(AddReservemapEntry(fdt, [addr |-> 1, size |-> 1]), tree, open, TRUE, TRUE)
  \/ Write(FinishReservemap(fdt), tree, open, TRUE, TRUE)

WriteBegin(name) ==
  Write(BeginNode(fdt, name), Append(tree, TreeNode(open, name, << >>)), open + 1,
        open = 0 => tree = << >> /\ name = 0, TRUE)

WriteEnd == Write(EndNode(fdt), tree, IF open = 0 THEN 0 ELSE open - 1, open > 0, TRUE)

WriteProperty(name, data) ==
  LET inside == open > 0 /\ tree[Len(tree)].depth = open - 1
      t      == IF inside THEN [tree EXCEPT ![Len(tree)].props = Append(@, Prop(name, data))]
                ELSE tree
  IN  Write(Property(fdt, name, data), t, open, open > 0 \/ tree = << >>, inside)

WriteResize(size) == Write(Resize(fdt, size), tree, open, TRUE, TRUE)

\* fdt_finish(); the client goes on with a tree fdt_check_full() accepts.
WriteFinish ==
  /\ ~Editing
  /\ Calls(Finish(fdt))
  /\ fdt_calls' =
       IF fdt_ret' = 0 /\ CheckFull(fdt', fdt'.total) = 0 /\ orderly /\ tree # << >>
       THEN FdtEdits ELSE 0
  /\ UNCHANGED <<tree, open, balanced, orderly>>

-----------------------------------------------------------------------------
\* The offset of node k, as fdt_next_node() finds it.
OffsetOf(f, k) == Walk(f)[k].offset

Edit(r, t) ==
  /\ Editing /\ fdt_calls > 0
  /\ fdt_calls' = fdt_calls - 1
  /\ Calls(r)
  /\ tree' = IF r.ret < 0 THEN tree ELSE t
  /\ UNCHANGED <<open, balanced, orderly>>

\* The cells of an address below a node: what #address-cells of the node says, or 2.
AddrCells(t, k) ==
  IF PropAt(t, k, address_cells) = 0 THEN 2 ELSE DataOf(t, k, address_cells)[1]
Spread(cells, x) == IF cells = 1 THEN <<x>> ELSE <<x \div CellMod, x % CellMod>>

\* Edits of a property of node k, at offset o.
EditProp(k, o, name) ==
  LET old == IF PropAt(tree, k, name) = 0 THEN << >> ELSE DataOf(tree, k, name)
  IN  \/ \E data \in FdtValues :
           \/ Edit(Setprop(fdt, o, name, data), WithProp(tree, k, name, data))
           \/ Edit(Appendprop(fdt, o, name, data), WithProp(tree, k, name, old \o data))
           \/ Edit(SetpropInplace(fdt, o, name, data), WithProp(tree, k, name, data))
      \/ /\ k > 1
         /\ \E addr \in {1, CellMod} :
              LET up == ParentOf(tree, k)
              IN  Edit(AppendpropAddrrange(fdt, OffsetOf(fdt, up), o, name, addr, 1),
                       WithProp(tree, k, name, old \o Spread(AddrCells(tree, up), addr) \o <<1>>))
      \/ PropAt(tree, k, name) # 0 /\ Edit(Delprop(fdt, o, name), WithoutProp(tree, k, name))
      \/ PropAt(tree, k, name) # 0 /\ Edit(NopProperty(fdt, o, name), WithoutProp(tree, k, name))

\* Edits of node k, at offset o.
EditNode(k, o) ==
  \/ \E name \in FdtNodes :
       \/ Edit(AddSubnode(fdt, o, name),
               InsertAt(tree, k + 1, TreeNode(tree[k].depth + 1, name, << >>)))
       \/ k > 1 /\ Edit(SetName(fdt, o, name), [tree EXCEPT ![k].name = name])
  \/ k > 1 /\ Edit(DelNode(fdt, o), WithoutNode(tree, k))
  \/ k > 1 /\ Edit(NopNode(fdt, o), WithoutNode(tree, k))

EditBlob ==
  \/ \E size \in FdtSizes : Edit(OpenInto(fdt, size), tree)
  \/ Edit(Pack(fdt), tree)
  \/ Edit(AddMemRsv(fdt, [addr |-> 2, size |-> 1]), tree)
  \/ Edit(DelMemRsv(fdt, 0), tree)

FdtNext ==
  \/ WriteMemrsv \/ WriteEnd \/ WriteFinish
  \/ \E name \in FdtNodes \cup {0} : WriteBegin(name)
  \/ \E name \in FdtProps, data \in FdtValues : WriteProperty(name, data)
  \/ \E size \in FdtSizes : WriteResize(size)
  \/ \E k \in DOMAIN tree : \E o \in {OffsetOf(fdt, k)} :
       EditNode(k, o) \/ \E name \in FdtProps : EditProp(k, o, name)
  \/ EditBlob

-----------------------------------------------------------------------------
Usable == Editing /\ balanced /\ open = 0 /\ orderly /\ tree # << >>

\* What the blob says, read through the library.
PropsView(f, props) == [i \in DOMAIN props |-> Prop(PropName(f, props[i]), PropData(f, props[i]))]
WalkView(f, walk) ==
  [k \in 1 .. (Len(walk) - 1) |->
     TreeNode(DepthAt(walk, k), GetName(f, walk[k].offset),
              PropsView(f, Properties(f, walk[k].offset)))]
BlobView(f) == WalkView(f, Walk(f))

\* Nothing is ever written outside the buffer: the blocks of fdt_grab_space_(),
\* fdt_add_string_() and fdt_splice_() stay within totalsize, whose bytes the caller owns.
FdtFits == DataSize(fdt) <= fdt.total

\* The blob stands for the tree the calls made: whatever was spliced, blanked with NOPs,
\* renamed or packed, fdt_next_node() and the property walk show the nodes and the
\* properties in order, and no data word is taken for a tag.
FdtShowsTree == Usable => BlobView(fdt) = tree

\* fdt_check_full() accepts what the writer made exactly if the calls nested under one
\* root ("If we see two root nodes, something is wrong").
FdtCheckExact ==
  Editing => (CheckFull(fdt, fdt.total) = 0 <=> balanced /\ open = 0)

NodeLookupExact(walk, k, o, path, long) ==
  /\ NodeDepth(fdt, o) = tree[k].depth
  /\ ParentOffset(fdt, o) = IF k = 1 THEN NOTFOUND ELSE walk[ParentOf(tree, k)].offset
  /\ GetPath(fdt, o, long) = path
  /\ GetPath(fdt, o, long - 1) = <<NOSPACE>>
  /\ \A name \in FdtNodes :
       LET hit == FirstOf({j \in ChildrenOf(tree, k) : NodenameEq(tree[j].name, name)})
       IN  SubnodeOffset(fdt, o, name) = IF hit = 0 THEN NOTFOUND ELSE walk[hit].offset

PropLookupExact(walk, k, o, name, data) ==
  /\ Getprop(fdt, o, name) = [len |-> Len(data), data |-> data]
  /\ StringlistCount(fdt, o, name) = Len(data)
  /\ StringlistGet(fdt, o, name, Len(data)) = NOTFOUND
  /\ \A i \in DOMAIN data :
       /\ StringlistSearch(fdt, o, name, data[i]) = FirstOf({j \in DOMAIN data : data[j] = data[i]}) - 1
       /\ StringlistGet(fdt, o, name, i - 1) = data[i]
  /\ NodeOffsetByPropValue(fdt, -1, name, data) =
       walk[FirstOf({j \in DOMAIN tree : PropAt(tree, j, name) # 0 /\ DataOf(tree, j, name) = data})].offset

PhandleLookupExact(walk, ph) ==
  /\ ph # 0 => GeneratePhandle(fdt) # ph
  /\ ph \in 1 .. FDT_MAX_PHANDLE =>
       NodeOffsetByPhandle(fdt, ph) =
         walk[FirstOf({j \in DOMAIN tree : GetPhandle(fdt, walk[j].offset) = ph})].offset

LookupExactAt(walk, k, o) ==
  /\ NodeLookupExact(walk, k, o, PathOf(tree, k), IF k = 1 THEN 2 ELSE BufLen(PathOf(tree, k)) + 1)
  /\ \A name \in FdtProps :
       IF PropAt(tree, k, name) = 0 THEN Getprop(fdt, o, name) = [len |-> NOTFOUND, data |-> << >>]
       ELSE PropLookupExact(walk, k, o, name, DataOf(tree, k, name))
  /\ PhandleLookupExact(walk, GetPhandle(fdt, o))

\* The searches find what the tree has: parent, depth, path, the first child a name stands
\* for, the first property of a name, the first node of a phandle; and fdt_get_path()
\* needs exactly the characters of the path and its NUL.  fdt_stringlist_search() and
\* fdt_stringlist_get() are inverse up to the first of equal strings, and a phandle
\* fdt_generate_phandle() gives is no node's.
FdtLookupExact ==
  Usable => \A walk \in {Walk(fdt)} : \A k \in DOMAIN tree : LookupExactAt(walk, k, walk[k].offset)

\* A call that fails has changed nothing: not the structure, and the name of a property
\* that did not fit is gone from the strings again (fdt_del_last_string_()).
FdtFailureHarmless ==
  [][fdt_ret' < 0 => /\ fdt'.struct = fdt.struct /\ fdt'.strings = fdt.strings
                     /\ fdt'.rsv = fdt.rsv /\ fdt'.total = fdt.total]_fdt_vars

\* After any sequence of calls of libfdt the blob is one fdt_check_full() accepts,
\* fits its buffer and shows, to every lookup, the tree the calls built.
FdtExact == FdtFits /\ FdtShowsTree /\ FdtCheckExact /\ FdtLookupExact
=============================================================================
