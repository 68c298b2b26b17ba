----------------------------- MODULE FdtOverlay -----------------------------
(***************************************************************************)
(* Device tree overlays (lib/utils/libfdt/fdt_overlay.c).                  *)
(*                                                                         *)
(* A path is a sequence of node names, "/" the empty one.  A property of   *)
(* /__fixups__ lists records "path:property:offset", here the number of    *)
(* names in the path, the names, the property and the offset; a record     *)
(* that starts with NOTERM stands for one that does not parse.             *)
(*                                                                         *)
(* A call that fails leaves both blobs partly changed and erases their     *)
(* magics; what is left of them is not modelled further.  STRAY stands for *)
(* a call that has stored a phandle outside the property it is for, of     *)
(* which the code knows nothing.                                           *)
(***************************************************************************)
EXTENDS FdtEdit

CONSTANTS
  OvBases,      \* base trees, as blobs
  OvOverlays    \* overlays, as blobs; each is applied at most once

VARIABLES
  ov_base,      \* the base tree
  ov_last,      \* the overlay applied last, as it was before
  ov_ret,       \* what fdt_overlay_apply() returned
  ov_left       \* the overlays not applied yet

ov_vars == <<ov_base, ov_last, ov_ret, ov_left>>

\* Names the code asks for.
overlay_node == 610
symbols_node == 620
fixups_node == 630
local_fixups_node == 640
target == 56
target_path == 57

BadPhandle == WordMod - 1
STRAY == -100

\* fdt_for_each_...(): the body for each of the items, until one fails.
ForEach(Body(_, _), f, items) ==
  FoldLeft(LAMBDA r, x : IF r.ret < 0 THEN r ELSE Body(r.f, x), Done(f, 0), items)

-----------------------------------------------------------------------------
\* overlay_get_target_phandle()
TargetIn(p) ==
  CASE p.len < 0 -> 0
    [] p.len >= 0 /\ p.len # 1 -> BadPhandle
    [] p.len = 1 -> p.data[1]
GetTargetPhandle(fdto, fragment) == TargetIn(Getprop(fdto, fragment, target))

\* overlay_get_target()
TargetOf(f, ph, path) ==
  CASE ph = BadPhandle -> BADPHANDLE
    [] ph = 0 -> IF path.len = NOTFOUND THEN BADOVERLAY ELSE PathOffset(f, path.data)
    [] OTHER -> NodeOffsetByPhandle(f, ph)
GetTarget(f, fdto, fragment) ==
  TargetOf(f, GetTargetPhandle(fdto, fragment), Getprop(fdto, fragment, target_path))
ByPath(fdto, fragment) == GetTargetPhandle(fdto, fragment) = 0

\* overlay_phandle_add_offset(); a node without the property is left alone.
AddOffsetTo(fdto, node, name, p, delta) ==
  CASE p.len = NOTFOUND -> Done(fdto, 0)
    [] p.len # NOTFOUND /\ p.len # 1 -> Done(fdto, IF p.len < 0 THEN p.len ELSE BADPHANDLE)
    [] p.len = 1 -> IF p.data[1] + delta >= BadPhandle THEN Done(fdto, NOPHANDLES)
                    ELSE SetpropInplace(fdto, node, name, <<p.data[1] + delta>>)
PhandleAddOffset(fdto, node, name, delta) ==
  AddOffsetTo(fdto, node, name, Getprop(fdto, node, name), delta)

\* Bug: only the old name of the property is adjusted.
AdjustOldPhandles(fdto, node, delta) == PhandleAddOffset(fdto, node, linux_phandle, delta)

\* overlay_adjust_node_phandles(), overlay_adjust_local_phandles()
AdjustNodePhandles(fdto, node, delta) ==
  ForEach(LAMBDA f, name : PhandleAddOffset(f, node, name, delta), fdto, <<phandle, linux_phandle>>)
AdjustLocalPhandles(fdto, delta) ==
  ForEach(LAMBDA f, n : AdjustNodePhandles(f, n.offset, delta), fdto, Front(Walk(fdto)))

\* One reference of overlay_update_local_node_references(): the word read at the offset,
\* with delta added, stored back.  What is read outside the property is not used: the
\* store that follows is refused, and that is a bad overlay.
WordAt(data, i) == IF i < Len(data) THEN data[i + 1] ELSE 0
BadIf(error, r) == IF r.ret = error THEN Done(r.f, BADOVERLAY) ELSE r
AdjustReference(fdto, node, name, p, poffset, delta) ==
  BadIf(NOSPACE, SetpropInplacePartial(fdto, node, name, poffset,
                                       <<(WordAt(p.data, poffset) + delta) % WordMod>>))

\* Bug: a reference outside the property is passed over.
AdjustInLoosely(fdto, node, name, p, offsets, delta) ==
  ForEach(LAMBDA f, poffset : IF poffset >= p.len THEN Done(f, 0)
                              ELSE AdjustReference(f, node, name, Getprop(f, node, name), poffset, delta),
          fdto, offsets)

\* The references one property of __local_fixups__ lists; the property they are in must
\* be there even if it lists none.
AdjustIn(fdto, node, name, p, offsets, delta) ==
  IF p.len < 0 THEN BadIf(NOTFOUND, Done(fdto, p.len))
  ELSE ForEach(LAMBDA f, poffset : AdjustReference(f, node, name, Getprop(f, node, name), poffset, delta),
               fdto, offsets)
AdjustReferences(fdto, tree_node, prop, delta) ==
  AdjustIn(fdto, tree_node, PropName(fdto, prop), Getprop(fdto, tree_node, PropName(fdto, prop)),
           PropData(fdto, prop), delta)
AdjustProperties(fdto, tree_node, fixup_node, delta) ==
  ForEach(LAMBDA f, prop : AdjustReferences(f, tree_node, prop, delta),
          fdto, Properties(fdto, fixup_node))

\* Bug: the references of the subnodes stay.
UpdateLocalNodeFlat(fdto, tree_node, fixup_node, delta) ==
  IF tree_node < 0 THEN Done(fdto, IF tree_node = NOTFOUND THEN BADOVERLAY ELSE tree_node)
  ELSE AdjustProperties(fdto, tree_node, fixup_node, delta)

\* overlay_update_local_node_references(), of a node of the tree that was looked up: its
\* properties, then its subnodes.
RECURSIVE UpdateLocalNode(_, _, _, _)
UpdateSubnodes(r, tree_node, children, delta) ==
  Then(r, ForEach(LAMBDA f, child : UpdateLocalNode(f, SubnodeOffset(f, tree_node, GetName(f, child)),
                                                    child, delta),
                  r.f, children))
UpdateLocalNode(fdto, tree_node, fixup_node, delta) ==
  IF tree_node < 0 THEN Done(fdto, IF tree_node = NOTFOUND THEN BADOVERLAY ELSE tree_node)
  ELSE UpdateSubnodes(AdjustProperties(fdto, tree_node, fixup_node, delta), tree_node,
                      Subnodes(fdto, fixup_node), delta)

\* overlay_update_local_references()
UpdateFrom(fdto, fixups, delta) ==
  IF fixups < 0 THEN Done(fdto, IF fixups = NOTFOUND THEN 0 ELSE fixups)
  ELSE UpdateLocalNode(fdto, 0, fixups, delta)
UpdateLocalReferences(fdto, delta) == UpdateFrom(fdto, PathOffset(fdto, <<local_fixups_node>>), delta)

-----------------------------------------------------------------------------
\* overlay_fixup_one_phandle(): the label's symbol, its node, its phandle, stored in the
\* property of the overlay.
StorePhandle(fdto, fixup, name, poffset, ph) ==
  CASE ph = 0 -> Done(fdto, NOTFOUND)
    [] ph # 0 /\ fixup < 0 -> Done(fdto, IF fixup = NOTFOUND THEN BADOVERLAY ELSE fixup)
    [] OTHER -> SetpropInplacePartial(fdto, fixup, name, poffset, <<ph>>)
StoreOf(f, there, fdto, path, name, poffset) ==
  IF there < 0 THEN Done(fdto, there)
  ELSE StorePhandle(fdto, PathOffset(fdto, path), name, poffset, GetPhandle(f, there))
StoreSymbol(f, symbol, fdto, path, name, poffset) ==
  IF symbol.len < 0 THEN Done(fdto, symbol.len)
  ELSE StoreOf(f, PathOffset(f, symbol.data), fdto, path, name, poffset)
FixupOnePhandle(f, fdto, symbols, path, name, poffset, label) ==
  IF symbols < 0 THEN Done(fdto, symbols)
  ELSE StoreSymbol(f, Getprop(f, symbols, label), fdto, path, name, poffset)

\* overlay_fixup_phandle(): record by record through the value.
RECURSIVE FixupPhandle(_, _, _, _, _)
FixupRest(f, one, symbols, label, rest) ==
  IF one.ret < 0 \/ rest = << >> THEN one ELSE FixupPhandle(f, one.f, symbols, label, rest)
FixupPhandle(f, fdto, symbols, label, value) ==
  IF value = << >> \/ value[1] = NOTERM THEN Done(fdto, BADOVERLAY)
  ELSE LET n == value[1]
       IN  FixupRest(f, FixupOnePhandle(f, fdto, symbols, SubSeq(value, 2, n + 1), value[n + 2],
                                        value[n + 3], label),
                     symbols, label, SubSeq(value, n + 4, Len(value)))

\* overlay_fixup_phandles()
FixupEach(f, fdto, fixups, symbols) ==
  CASE fixups < 0 -> Done(fdto, IF fixups = NOTFOUND THEN 0 ELSE fixups)
    [] fixups >= 0 /\ symbols < 0 /\ symbols # NOTFOUND -> Done(fdto, symbols)
    [] OTHER -> ForEach(LAMBDA g, prop : FixupPhandle(f, g, symbols, PropName(g, prop), PropData(g, prop)),
                        fdto, Properties(fdto, fixups))
FixupPhandles(f, fdto) ==
  FixupEach(f, fdto, PathOffset(fdto, <<fixups_node>>), PathOffset(f, <<symbols_node>>))

-----------------------------------------------------------------------------
\* overlay_apply_node(): the properties of the node, then its subnodes, each added or
\* already there.
ApplyProperties(f, there, fdto, node) ==
  ForEach(LAMBDA g, prop : Setprop(g, there, PropName(fdto, prop), PropData(fdto, prop)),
          f, Properties(fdto, node))
PlacedNode(added, there, name) ==
  IF added.ret = EXISTS THEN Done(added.f, SubnodeOffset(added.f, there, name)) ELSE added
RECURSIVE ApplyNode(_, _, _, _)
ApplyPlaced(placed, fdto, subnode) ==
  Then(placed, ApplyNode(placed.f, placed.ret, fdto, subnode))
ApplySubnode(g, there, fdto, subnode, name) ==
  ApplyPlaced(PlacedNode(AddSubnode(g, there, name), there, name), fdto, subnode)
ApplySubnodes(r, there, fdto, node) ==
  Then(r, ForEach(LAMBDA g, subnode : ApplySubnode(g, there, fdto, subnode, GetName(fdto, subnode)),
                  r.f, Subnodes(fdto, node)))
ApplyNode(f, there, fdto, node) ==
  ApplySubnodes(ApplyProperties(f, there, fdto, node), there, fdto, node)

\* overlay_merge()
MergeAt(g, there, fdto, overlay) ==
  IF there < 0 THEN Done(g, there) ELSE ApplyNode(g, there, fdto, overlay)
MergeFragment(g, fdto, fragment, overlay) ==
  IF overlay < 0 THEN Done(g, IF overlay = NOTFOUND THEN 0 ELSE overlay)
  ELSE MergeAt(g, GetTarget(g, fdto, fragment), fdto, overlay)
Merge(f, fdto) ==
  ForEach(LAMBDA g, fragment : MergeFragment(g, fdto, fragment, SubnodeOffset(fdto, fragment, overlay_node)),
          f, Subnodes(fdto, 0))

\* get_path_len()
RECURSIVE PathLenFrom(_, _, _)
PathLenFrom(f, node, len) ==
  IF GetName(f, node) = 0 THEN IF len = 0 THEN 1 ELSE len
  ELSE PathLenFrom(f, ParentOffset(f, node), len + NameLen(GetName(f, node)) + 1)
GetPathLen(f, node) == PathLenFrom(f, node, 0)

\* Bug: the target found before the symbol was added is used after it.
TargetAgainStale(before, after, fdto, fragment) == GetTarget(before, fdto, fragment)

\* overlay_symbol_update(): "again in case setprop_placeholder changed it".
TargetAgain(before, after, fdto, fragment) == GetTarget(after, fdto, fragment)

\* Bug: the node itself is dropped from the path behind "__overlay__".
RelPathShort(path) == SubSeq(path, 3, Len(path) - 1)

\* overlay_symbol_update(): what follows "/fragment/__overlay__".
RelPath(path) == SubSeq(path, 3, Len(path))

\* overlay_symbol_update(): the path of the target, and its length.
TargetNames(f, by_path, given, there) == IF by_path THEN Len(given) ELSE NodeDepth(f, there)
TargetLen(f, by_path, given, there) ==
  CASE by_path -> IF given = << >> THEN 1 ELSE BufLen(given)
    [] ~by_path -> GetPathLen(f, there)
UpperPath(f, by_path, given, again, len) ==
  CASE by_path -> given
    [] ~by_path /\ len > 1 -> GetPath(f, again, len + 1)
    [] OTHER -> << >>

\* overlay_symbol_update(): room for the symbol is made, the target is looked up again,
\* and the path written.
WriteSymbol(f, placed, root_sym, name, upper, rest) ==
  IF \E i \in 1 .. Len(upper) : upper[i] < 0 THEN Done(f, upper[1])
  ELSE SetpropInplace(placed.f, root_sym, name, upper \o rest)
SymbolPlaced(f, placed, root_sym, name, by_path, given, again, len, rest) ==
  CASE placed.ret < 0 -> placed
    [] placed.ret >= 0 /\ ~by_path /\ again < 0 -> Done(f, again)
    [] OTHER -> WriteSymbol(f, placed, root_sym, name, UpperPath(placed.f, by_path, given, again, len), rest)
SymbolAgain(f, placed, fdto, root_sym, name, fragment, by_path, given, len, rest) ==
  SymbolPlaced(f, placed, root_sym, name, by_path, given, TargetAgain(f, placed.f, fdto, fragment), len, rest)
SymbolAt(f, there, fdto, root_sym, name, fragment, by_path, given, rest) ==
  IF there < 0 THEN Done(f, there)
  ELSE SymbolAgain(f, Setprop(f, root_sym, name,
                              [i \in 1 .. (TargetNames(f, by_path, given, there) + Len(rest)) |-> 0]),
                   fdto, root_sym, name, fragment, by_path, given,
                   TargetLen(f, by_path, given, there), rest)

\* One symbol of overlay_symbol_update(): "/fragment/__overlay__/rest" becomes the path of
\* the target and the rest; other symbols are passed over.
SymbolIn(f, fdto, root_sym, name, path, fragment) ==
  CASE Len(path) < 2 \/ (Len(path) >= 2 /\ path[2] # overlay_node) -> Done(f, 0)
    [] Len(path) >= 2 /\ path[2] = overlay_node
       /\ (fragment < 0 \/ SubnodeOffset(fdto, fragment, overlay_node) < 0) -> Done(f, BADOVERLAY)
    [] OTHER -> SymbolAt(f, GetTarget(f, fdto, fragment), fdto, root_sym, name, fragment,
                         ByPath(fdto, fragment), Getprop(fdto, fragment, target_path).data,
                         RelPath(path))
SymbolOf(f, fdto, root_sym, name, path) ==
  IF NOTERM \in ToSet(path) THEN Done(f, BADVALUE)
  ELSE SymbolIn(f, fdto, root_sym, name, path, SubnodeOffset(fdto, 0, path[1]))

\* overlay_symbol_update()
SymbolsInto(root, fdto, ov_sym) ==
  Then(root, ForEach(LAMBDA g, prop : SymbolOf(g, fdto, root.ret, PropName(fdto, prop), PropData(fdto, prop)),
                     root.f, Properties(fdto, ov_sym)))
SymbolsRoot(f, there) == IF there = NOTFOUND THEN AddSubnode(f, 0, symbols_node) ELSE Done(f, there)
SymbolsFrom(f, fdto, ov_sym) ==
  IF ov_sym < 0 THEN Done(f, 0)
  ELSE SymbolsInto(SymbolsRoot(f, SubnodeOffset(f, 0, symbols_node)), fdto, ov_sym)
SymbolUpdate(f, fdto) == SymbolsFrom(f, fdto, SubnodeOffset(fdto, 0, symbols_node))

\* fdt_overlay_apply(), step by step: each is done only if the one before succeeded.
MergedInto(merged, fdto) == Then(merged, SymbolUpdate(merged.f, fdto))
Unless(stray, r) == IF stray THEN Done(r.f, STRAY) ELSE r
MergeFixed(f, fixed) == Unless(Overrun(fixed.f), Then(fixed, MergedInto(Merge(f, fixed.f), fixed.f)))
FixupUpdated(f, refs) == Unless(Overrun(refs.f), Then(refs, MergeFixed(f, FixupPhandles(f, refs.f))))
UpdateAdjusted(f, local, delta) == Then(local, FixupUpdated(f, UpdateLocalReferences(local.f, delta)))
AdjustBy(f, fdto, delta) ==
  IF delta < 0 THEN Done(f, delta) ELSE UpdateAdjusted(f, AdjustLocalPhandles(fdto, delta), delta)

\* fdt_overlay_apply(): what becomes of the base, and the return value.
Erased(f, r) == IF r.ret < 0 THEN Done([f EXCEPT !.magic = "erased"], r.ret) ELSE Done(r.f, 0)
OverlayApply(f, fdto) ==
  CASE RoProbe(f) < 0 -> Done(f, RoProbe(f))
    [] RoProbe(f) >= 0 /\ RoProbe(fdto) < 0 -> Done(f, RoProbe(fdto))
    [] OTHER -> Erased(f, AdjustBy(f, fdto, FindMaxPhandle(f)))

-----------------------------------------------------------------------------
OvInit ==
  /\ ov_base \in OvBases
  /\ ov_last = CHOOSE fdto \in OvOverlays : TRUE
  /\ ov_ret = 0
  /\ ov_left = OvOverlays

Apply(fdto) ==
  \E r \in {OverlayApply(ov_base, fdto)} :
    /\ ov_left' = ov_left \ {fdto}
    /\ ov_base' = r.f
    /\ ov_ret' = r.ret
    /\ ov_last' = fdto

OvNext == \E fdto \in ov_left : Apply(fdto)

-----------------------------------------------------------------------------
\* The trees of the model say what they mean: a node with a reference in "ref" has the
\* name of the node meant in "means", and a node a symbol is for has the symbol in "label".
ref == 58
means == 59
label_of == 61
OvUsable == RoProbe(ov_base) >= 0
PathOfNode(f, node) == GetPath(f, node, 100)

\* Whatever was applied, a reference leads to the node it was written for: shifting the
\* phandles of the overlay by the base's highest, shifting the references __local_fixups__
\* lists and resolving those of __fixups__ through the base's symbols agree with each other.
OvReferencesResolve ==
  OvUsable => \A n \in NodesOf(ov_base) :
    LET r == Getprop(ov_base, n, ref)
        there == NodeOffsetByPhandle(ov_base, r.data[1])
    IN  r.len = 1 => there >= 0 /\ <<GetName(ov_base, there)>> = Getprop(ov_base, n, means).data

\* No two nodes of the tree have the same phandle.
OvPhandlesUnique ==
  OvUsable => \A m, n \in NodesOf(ov_base) :
    m # n /\ GetPhandle(ov_base, m) # 0 => GetPhandle(ov_base, m) # GetPhandle(ov_base, n)

\* A symbol leads to the node that was labelled, below the target as well as in the base,
\* although adding a symbol moves the nodes behind it.
OvSymbolsLead ==
  OvUsable /\ PathOffset(ov_base, <<symbols_node>>) >= 0 =>
    LET symbols == PathOffset(ov_base, <<symbols_node>>)
        props   == Properties(ov_base, symbols)
    IN  \A i \in DOMAIN props :
          LET there == PathOffset(ov_base, PropData(ov_base, props[i]))
          IN  there >= 0 /\ Getprop(ov_base, there, label_of).data = <<PropName(ov_base, props[i])>>

\* Every offset used is one of a node: adding properties and nodes moves what is behind
\* them, and a target looked up before is looked up again.
OvOffsetsFresh == ov_ret # BADOFFSET

\* Applying an overlay takes nothing away: every node keeps its place, and its properties
\* that no fragment names keep their values.
OvBaseKept ==
  [][LET given == {PropName(ov_last', p) : p \in UNION {ToSet(Properties(ov_last', n)) : n \in NodesOf(ov_last')}}
     IN  ov_ret' = 0 =>
           \A n \in NodesOf(ov_base) :
             LET m == PathOffset(ov_base', PathOfNode(ov_base, n))
             IN  /\ m >= 0
                 /\ PathOfNode(ov_base', m) = PathOfNode(ov_base, n)
                 /\ \A p \in ToSet(Properties(ov_base, n)) :
                      PropName(ov_base, p) \notin given =>
                        Getprop(ov_base', m, PropName(ov_base, p)).data = PropData(ov_base, p)
    ]_ov_vars

\* The local fixups of an overlay: the property each is for, in the node of the same path,
\* and the offsets it lists.
LocalFixups(f) ==
  {n \in NodesOf(f) : PathOfNode(f, n) # << >> /\ PathOfNode(f, n)[1] = local_fixups_node}
FixedLen(f, n, prop) == Getprop(f, PathOffset(f, Tail(PathOfNode(f, n))), PropName(f, prop)).len

\* An overlay is applied only if every reference it lists is in a property it has, and a
\* phandle is stored outside one only for an offset in the last four bytes of 32 bits,
\* where the sum of fdt_setprop_inplace_namelen_partial() wraps.
OvFixupsInside ==
  /\ (OvUsable /\ ov_ret = 0 /\ ov_left # OvOverlays) =>
       \A n \in LocalFixups(ov_last) : \A prop \in ToSet(Properties(ov_last, n)) :
         /\ FixedLen(ov_last, n, prop) >= 0
         /\ \A o \in ToSet(PropData(ov_last, prop)) : o < FixedLen(ov_last, n, prop)
  /\ ov_ret = STRAY =>
       \E n \in NodesOf(ov_last) : \E prop \in ToSet(Properties(ov_last, n)) :
         WordMod - 1 \in ToSet(PropData(ov_last, prop))

\* An applied overlay is linked into the base tree: its references, symbols and
\* phandles name the nodes they were written for, wherever the edits moved them, and
\* nothing else is taken for a reference.
OvLinked ==
  /\ OvReferencesResolve /\ OvPhandlesUnique /\ OvSymbolsLead /\ OvOffsetsFresh
  /\ OvFixupsInside
=============================================================================
