------------------------------ MODULE FdtTree ------------------------------
(***************************************************************************)
(* Device trees as what they say: the nodes in preorder, each with its     *)
(* depth, its name and its properties in order.  The modules that use the  *)
(* library say what its blobs must mean with them, and take the blobs they *)
(* start from out of Compiled(), which stands for the device tree compiler.*)
(***************************************************************************)
EXTENDS FdtEdit

TreeNode(depth, name, props) == [depth |-> depth, name |-> name, props |-> props]
Prop(name, data) == [name |-> name, data |-> data]

\* The index behind the subtree of node k.
EndOfSubtree(t, k) ==
  LET out == {j \in (k + 1) .. Len(t) : t[j].depth <= t[k].depth}
  IN  IF out = {} THEN Len(t) + 1 ELSE CHOOSE j \in out : \A i \in out : j <= i

ChildrenOf(t, k) == {j \in (k + 1) .. (EndOfSubtree(t, k) - 1) : t[j].depth = t[k].depth + 1}
ParentOf(t, k) == CHOOSE j \in 1 .. (k - 1) : k \in ChildrenOf(t, j)
RECURSIVE PathOf(_, _)
PathOf(t, k) == IF k = 1 THEN << >> ELSE Append(PathOf(t, ParentOf(t, k)), t[k].name)
FirstOf(S) == IF S = {} THEN 0 ELSE CHOOSE j \in S : \A i \in S : j <= i
PropAt(t, k, name) == FirstOf({i \in DOMAIN t[k].props : t[k].props[i].name = name})

WithProp(t, k, name, data) ==
  [t EXCEPT ![k].props = IF PropAt(t, k, name) = 0 THEN <<Prop(name, data)>> \o @
                         ELSE [@ EXCEPT ![PropAt(t, k, name)].data = data]]
WithoutProp(t, k, name) == [t EXCEPT ![k].props = RemoveAt(@, PropAt(t, k, name))]
WithoutNode(t, k) == SubSeq(t, 1, k - 1) \o SubSeq(t, EndOfSubtree(t, k), Len(t))
DataOf(t, k, name) == t[k].props[PropAt(t, k, name)].data

\* The blob a compiler makes of a tree.
Ends(n) == [i \in 1 .. n |-> FDT_END_NODE]
Compiled(t, total) ==
  LET names      == FoldSet(LAMBDA s, all : Append(all, s), << >>,
                            UNION {{t[k].props[i].name : i \in DOMAIN t[k].props} : k \in DOMAIN t})
      PropOf(p)  == <<FDT_PROP, Len(p.data), FindString(names, p.name) - 1>> \o p.data
      NodeOf(k)  == (IF k = 1 THEN << >> ELSE Ends(t[k - 1].depth + 1 - t[k].depth))
                    \o <<FDT_BEGIN_NODE>> \o NameWords(t[k].name)
                    \o FlattenSeq([i \in DOMAIN t[k].props |-> PropOf(t[k].props[i])])
      words      == FlattenSeq([k \in DOMAIN t |-> NodeOf(k)])
                    \o Ends(t[Len(t)].depth + 1) \o <<FDT_END>>
  IN  [Create(total) EXCEPT !.magic = "fdt", !.last_comp = 16, !.stage = "struct",
                            !.off_rsv = HEADER, !.struct = words, !.strings = names]
=============================================================================
