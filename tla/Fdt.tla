-------------------------------- MODULE Fdt --------------------------------
(***************************************************************************)
(* libfdt: the flattened device tree and the calls that read it, edit it   *)
(* in place, edit it in a buffer with spare room, and build it from        *)
(* nothing.                                                                *)
(*                                                                         *)
(* A blob is the sequence of its structure tokens, its string table, its   *)
(* memory reservations and the size of its buffer.  An offset is an index  *)
(* into the tokens; sizes are counted in cells of four bytes, a name and a *)
(* string taking one.  A node name is <<name, unit address>>.  A property  *)
(* value is a sequence of cells <<kind, content>>.  A call returns         *)
(* [ret |-> an offset or a negative error, b |-> the blob it leaves].      *)
(***************************************************************************)
EXTENDS Integers, Sequences, SequencesExt, FiniteSetsExt, TLC

NOTFOUND == -1
EXISTS == -2
NOSPACE == -3
BADOFFSET == -4
BADPATH == -5
BADPHANDLE == -6
BADSTATE == -7
BADMAGIC == -9
BADSTRUCTURE == -11
BADNCELLS == -14
BADVALUE == -15
BADOVERLAY == -16
NOPHANDLES == -17

RootName == <<"", "">>
BeginTok(name) == [tag |-> "begin", name |-> name, off |-> 0, val |-> <<>>]
PropTok(off, val) == [tag |-> "prop", name |-> RootName, off |-> off, val |-> val]
PlainTok(tag) == [tag |-> tag, name |-> RootName, off |-> 0, val |-> <<>>]

(***************************************************************************)
(* Sizes, in cells: FDT_TAGSIZE, struct fdt_node_header, struct            *)
(* fdt_property and struct fdt_reserve_entry.                              *)
(***************************************************************************)
TokCells(t) == CASE t.tag = "begin" -> 2
                 [] t.tag = "prop" -> 3 + Len(t.val)
                 [] OTHER -> 1
CellsOf(toks) == Cardinality(UNION {{i} \X (1..TokCells(toks[i])) : i \in DOMAIN toks})
RsvCells == 4
DataSize(b) == RsvCells * (Len(b.rsv) + 1) + CellsOf(b.toks) + Len(b.strs)

Did(ret, b) == [ret |-> ret, b |-> b]
Bind(x, F(_)) == CHOOSE y \in {F(v) : v \in {x}} : TRUE      \* F(x), x evaluated once

--------------------------------------------------------------------------
(* Reading: fdt.c and fdt_ro.c *)

IsTok(b, i) == i \in 1..Len(b.toks)
IsNode(b, i) == IsTok(b, i) /\ b.toks[i].tag = "begin"

RECURSIVE NextNode(_, _, _)
NextNode(b, i, depth) ==
    LET t == b.toks[i].tag IN
    CASE t = "end" -> <<NOTFOUND, depth>>
      [] t = "begin" -> <<i, depth + 1>>
      [] t = "end_node" /\ depth = 0 -> <<i + 1, -1>>
      [] t = "end_node" /\ depth > 0 -> NextNode(b, i + 1, depth - 1)
      [] OTHER -> NextNode(b, i + 1, depth)

(* A search below a node: the first node at depth 1 that passes the test. *)
NodenameEq(n, s) == n = s \/ (s[2] = "" /\ n[1] = s[1])

RECURSIVE SubnodeFrom(_, _, _, _)
SubnodeFrom(b, i, depth, name) ==
    IF i < 0 THEN i
    ELSE IF depth < 0 THEN NOTFOUND
    ELSE IF depth = 1 /\ NodenameEq(b.toks[i].name, name) THEN i
    ELSE LET n == NextNode(b, i + 1, depth)
         IN  SubnodeFrom(b, n[1], n[2], name)
SubnodeOffset(b, node, name) ==
    IF IsNode(b, node) THEN SubnodeFrom(b, node, 0, name) ELSE BADOFFSET

RECURSIVE NextSubnodeFrom(_, _, _)
NextSubnodeFrom(b, i, depth) ==
    LET n == NextNode(b, i + 1, depth) IN
    IF n[1] < 0 \/ n[2] < 1 THEN NOTFOUND
    ELSE IF n[2] = 1 THEN n[1] ELSE NextSubnodeFrom(b, n[1], n[2])
FirstSubnode(b, node) ==
    LET n == NextNode(b, node + 1, 0)
    IN  IF n[1] < 0 \/ n[2] # 1 THEN NOTFOUND ELSE n[1]
NextSubnode(b, node) == NextSubnodeFrom(b, node, 1)

(* The children of a node, as fdt_for_each_subnode() visits them. *)
RECURSIVE SubnodesFrom(_, _)
SubnodesFrom(b, child) ==
    IF child < 0 THEN <<>> ELSE <<child>> \o SubnodesFrom(b, NextSubnode(b, child))
Subnodes(b, node) == SubnodesFrom(b, FirstSubnode(b, node))

RECURSIVE NextProp(_, _)
NextProp(b, i) ==
    CASE b.toks[i].tag = "end" -> BADSTRUCTURE
      [] b.toks[i].tag = "prop" -> i
      [] b.toks[i].tag = "nop" -> NextProp(b, i + 1)
      [] OTHER -> NOTFOUND

RECURSIVE PropsFrom(_, _)
PropsFrom(b, i) == IF i < 0 THEN <<>> ELSE <<i>> \o PropsFrom(b, NextProp(b, i + 1))
Properties(b, node) == PropsFrom(b, NextProp(b, node + 1))

(* A string offset counts from the start of the table, or, while the tree  *)
(* is being built, back from its end.                                      *)
GetString(b, off) == IF off < 0 THEN b.strs[Len(b.strs) + 1 + off] ELSE b.strs[off]
PropName(b, p) == GetString(b, b.toks[p].off)

GetProperty(b, node, name) ==
    IF ~IsNode(b, node) THEN BADOFFSET
    ELSE FoldLeft(LAMBDA hit, p : IF hit = NOTFOUND /\ PropName(b, p) = name THEN p ELSE hit,
                  NOTFOUND, Properties(b, node))
Getprop(b, node, name) ==
    Bind(GetProperty(b, node, name), LAMBDA p : IF p < 0 THEN <<>> ELSE b.toks[p].val)

FindString(b, s) == SelectInSeq(b.strs, LAMBDA x : x = s)

GetPhandle(b, node) ==
    Bind(Getprop(b, node, "phandle"), LAMBDA v :
      IF Len(v) = 1 THEN v[1][2]
      ELSE Bind(Getprop(b, node, "linux,phandle"), LAMBDA w :
             IF Len(w) = 1 THEN w[1][2] ELSE 0))

AllNodes(b) == SelectSeq([i \in 1..Len(b.toks) |-> i], LAMBDA i : IsNode(b, i))

FindMaxPhandle(b) == FoldLeft(LAMBDA m, i : Max({m, GetPhandle(b, i)}), 0, AllNodes(b))
GeneratePhandle(b, maxPhandle) ==
    IF FindMaxPhandle(b) = maxPhandle THEN NOPHANDLES ELSE FindMaxPhandle(b) + 1

FirstNode(b, Test(_)) ==
    LET i == SelectInSeq(AllNodes(b), Test) IN IF i = 0 THEN NOTFOUND ELSE AllNodes(b)[i]
NodeOffsetByPhandle(b, phandle) ==
    IF phandle <= 0 THEN BADPHANDLE
    ELSE FirstNode(b, LAMBDA i : GetPhandle(b, i) = phandle)
NodeOffsetByPropValue(b, start, name, val) ==
    FirstNode(b, LAMBDA i : i > start /\ GetProperty(b, i, name) >= 0
                            /\ Getprop(b, i, name) = val)

(* An absolute path is a sequence of names.  A path that does not start    *)
(* with '/' starts with an alias, a property of /aliases.                  *)
Abs(names) == [alias |-> "", rest |-> names]

RECURSIVE Descend(_, _, _)
Descend(b, node, names) ==
    IF node < 0 \/ names = <<>> THEN node
    ELSE Descend(b, SubnodeOffset(b, node, Head(names)), Tail(names))

GetAlias(b, name) ==
    LET aliases == Descend(b, 1, <<<<"aliases", "">>>>)
    IN  IF aliases < 0 THEN <<>> ELSE Getprop(b, aliases, name)

PathOffset(b, path) ==
    IF path.alias = "" THEN Descend(b, 1, path.rest)
    ELSE LET val == GetAlias(b, path.alias)
         IN  IF Len(val) # 1 THEN BADPATH
             ELSE Descend(b, Descend(b, 1, val[1][2]), path.rest)

(* fdt_get_path(), fdt_supernode_atdepth_offset(), fdt_node_depth() and    *)
(* fdt_parent_offset() all walk from the root and keep, per depth, the     *)
(* last node seen.                                                         *)
RECURSIVE WalkTo(_, _, _, _, _)
WalkTo(b, node, i, depth, seen) ==
    LET now == SubSeq(seen, 1, depth) \o <<i>> IN
    IF i < 0 \/ i > node THEN <<>>
    ELSE IF i = node THEN now
    ELSE LET n == NextNode(b, i + 1, depth) IN WalkTo(b, node, n[1], n[2], now)
Supernodes(b, node) == WalkTo(b, node, 1, 0, <<>>)
GetPath(b, node) == Bind(Supernodes(b, node), LAMBDA on :
                          [k \in 1..(Len(on) - 1) |-> b.toks[on[k + 1]].name])
SupernodeAtDepth(b, node, d) ==
    Bind(Supernodes(b, node), LAMBDA on :
      IF on = <<>> THEN BADOFFSET ELSE IF d + 1 > Len(on) THEN NOTFOUND ELSE on[d + 1])
NodeDepth(b, node) ==
    Bind(Supernodes(b, node), LAMBDA on : IF on = <<>> THEN BADOFFSET ELSE Len(on) - 1)
ParentOffset(b, node) ==
    Bind(NodeDepth(b, node), LAMBDA depth :
      IF depth < 0 THEN depth
      ELSE IF depth = 0 THEN NOTFOUND ELSE SupernodeAtDepth(b, node, depth - 1))

(* #address-cells and #size-cells of a node, with their defaults. *)
MaxNCells == 4
Cells(b, node, name) ==
    LET Number(val) == IF Len(val) # 1 THEN BADNCELLS
                       ELSE IF val[1][2] > MaxNCells THEN BADNCELLS ELSE val[1][2]
    IN  Bind(GetProperty(b, node, name), LAMBDA p : IF p < 0 THEN p ELSE Number(b.toks[p].val))
AddressCells(b, node) ==
    LET n == Cells(b, node, "#address-cells")
    IN  IF n = 0 THEN BADNCELLS ELSE IF n = NOTFOUND THEN 2 ELSE n
SizeCells(b, node) ==
    LET n == Cells(b, node, "#size-cells") IN IF n = NOTFOUND THEN 1 ELSE n

(* fdt_check_full(): one root with an empty name, nodes closed, every      *)
(* property name in the string table.                                      *)
RECURSIVE CheckFrom(_, _, _, _)
CheckFrom(b, i, depth, closed) ==
    IF ~IsTok(b, i) THEN BADSTRUCTURE
    ELSE LET t == b.toks[i] IN
    IF closed /\ t.tag # "end" THEN BADSTRUCTURE
    ELSE CASE t.tag = "nop" -> CheckFrom(b, i + 1, depth, closed)
           [] t.tag = "end" -> IF depth # 0 THEN BADSTRUCTURE ELSE 0
           [] t.tag = "begin" -> IF depth = 0 /\ t.name # RootName THEN BADSTRUCTURE
                                 ELSE CheckFrom(b, i + 1, depth + 1, closed)
           [] t.tag = "end_node" -> IF depth = 0 THEN BADSTRUCTURE
                                    ELSE CheckFrom(b, i + 1, depth - 1, depth = 1)
           [] OTHER -> IF t.off \in 1..Len(b.strs)
                       THEN CheckFrom(b, i + 1, depth, closed) ELSE BADOFFSET
CheckFull(b) ==
    IF b.magic # "fdt" THEN BADMAGIC
    ELSE IF DataSize(b) > b.total THEN BADOFFSET
    ELSE CheckFrom(b, 1, 0, FALSE)

-----------------------------------------------------------------------------
(* The calls that change a blob: in place (fdt_wip.c), in a buffer with    *)
(* spare room (fdt_rw.c), and building one in sequence (fdt_sw.c).         *)
(* fdt_splice_() moves what follows the splice point, if the result fits. *)
Splice(b, after) == IF DataSize(after) > b.total THEN Did(NOSPACE, b) ELSE Did(0, after)

WithToks(b, toks) == [b EXCEPT !.toks = toks]
Cut(toks, from, to) == SubSeq(toks, 1, from - 1) \o SubSeq(toks, to, Len(toks))

AddMemRsv(b, entry) == Splice(b, [b EXCEPT !.rsv = Append(@, entry)])
DelMemRsv(b, n) == IF n > Len(b.rsv) THEN Did(NOTFOUND, b)
                   ELSE Splice(b, [b EXCEPT !.rsv = RemoveAt(@, n)])

ResizeProperty(b, node, name, val) ==
    LET p == GetProperty(b, node, name)
    IN  IF p < 0 THEN Did(p, b) ELSE Splice(b, [b EXCEPT !.toks[p].val = val])

FindAddString(b, s) ==
    IF FindString(b, s) # 0 THEN Did(FindString(b, s), b)
    ELSE LET d == Splice(b, [b EXCEPT !.strs = Append(@, s)])
         IN  IF d.ret < 0 THEN d ELSE Did(Len(d.b.strs), d.b)

DelLastString(b) == [b EXCEPT !.strs = Front(@)]

AddProperty(b, node, name, val) ==
    LET s == FindAddString(b, name)
        d == Splice(s.b, WithToks(s.b, InsertAt(s.b.toks, node + 1, PropTok(s.ret, val))))
    IN  IF ~IsNode(b, node) THEN Did(BADOFFSET, b)
        ELSE IF s.ret < 0 THEN s
        ELSE IF d.ret < 0 /\ s.b # b THEN Did(d.ret, DelLastString(d.b)) ELSE d

Setprop(b, node, name, val) ==
    LET d == ResizeProperty(b, node, name, val)
    IN  IF d.ret = NOTFOUND THEN AddProperty(b, node, name, val) ELSE d

Appendprop(b, node, name, val) ==
    LET p == GetProperty(b, node, name)
    IN  IF p >= 0 THEN Splice(b, [b EXCEPT !.toks[p].val = @ \o val])
        ELSE AddProperty(b, node, name, val)

Delprop(b, node, name) ==
    LET p == GetProperty(b, node, name)
    IN  IF p < 0 THEN Did(p, b) ELSE Splice(b, WithToks(b, Cut(b.toks, p, p + 1)))

SetName(b, node, name) ==
    IF ~IsNode(b, node) THEN Did(BADOFFSET, b)
    ELSE Splice(b, [b EXCEPT !.toks[node].name = name])

(* The new node goes after the parent's properties. *)
RECURSIVE AfterProps(_, _)
AfterProps(b, i) == IF b.toks[i].tag \in {"prop", "nop"} THEN AfterProps(b, i + 1) ELSE i

AddSubnode(b, parent, name) ==
    LET found == SubnodeOffset(b, parent, name)
        i == AfterProps(b, parent + 1)
        d == Splice(b, WithToks(b, SubSeq(b.toks, 1, i - 1)
                                   \o <<BeginTok(name), PlainTok("end_node")>>
                                   \o SubSeq(b.toks, i, Len(b.toks))))
    IN  IF found >= 0 THEN Did(EXISTS, b)
        ELSE IF found # NOTFOUND THEN Did(found, b)
        ELSE IF d.ret < 0 THEN d ELSE Did(i, d.b)

RECURSIVE EndFrom(_, _, _)
EndFrom(b, i, depth) ==
    IF i < 0 \/ depth < 0 THEN i
    ELSE LET n == NextNode(b, i + 1, depth) IN EndFrom(b, n[1], n[2])
NodeEndOffset_short(b, node) == EndFrom(b, node, 0) - 1
NodeEndOffset(b, node) == EndFrom(b, node, 0)

DelNode(b, node) ==
    LET end == NodeEndOffset(b, node)
    IN  IF end < 0 THEN Did(end, b) ELSE Splice(b, WithToks(b, Cut(b.toks, node, end)))

Pack(b) == Did(0, [b EXCEPT !.total = DataSize(b)])
OpenInto(b, bufsize) == IF bufsize < b.total THEN Did(NOSPACE, b)
                        ELSE Did(0, [b EXCEPT !.total = bufsize])

(* In place: a value of the same length, or tokens turned into FDT_NOP. *)
SetpropInplacePartial(b, node, name, idx, val) ==
    LET p == GetProperty(b, node, name)
    IN  IF p < 0 THEN Did(p, b)
        ELSE IF Len(b.toks[p].val) < idx + Len(val) THEN Did(NOSPACE, b)
        ELSE Did(0, [b EXCEPT !.toks[p].val =
                        SubSeq(@, 1, idx) \o val \o SubSeq(@, idx + Len(val) + 1, Len(@))])
SetpropInplace(b, node, name, val) ==
    LET p == GetProperty(b, node, name)
    IN  IF p < 0 THEN Did(p, b)
        ELSE IF Len(b.toks[p].val) # Len(val) THEN Did(NOSPACE, b)
        ELSE SetpropInplacePartial(b, node, name, 0, val)

NopRegion(b, from, to) ==
    WithToks(b, SubSeq(b.toks, 1, from - 1)
                \o [i \in 1..CellsOf(SubSeq(b.toks, from, to - 1)) |-> PlainTok("nop")]
                \o SubSeq(b.toks, to, Len(b.toks)))
NopProperty(b, node, name) ==
    LET p == GetProperty(b, node, name)
    IN  IF p < 0 THEN Did(p, b) ELSE Did(0, NopRegion(b, p, p + 1))
NopNode(b, node) ==
    LET end == NodeEndOffset(b, node)
    IN  IF end < 0 THEN Did(end, b) ELSE Did(0, NopRegion(b, node, end))

(* An address range appended to a property, in the cells of the parent.    *)
(* maxCell stands for UINT32_MAX; a two-cell number is <<high, low>>.      *)
AddrCells(n, cells, maxCell) ==
    IF cells = 1 THEN <<<<"u32", n>>>>
    ELSE <<<<"u32", n \div (maxCell + 1)>>, <<"u32", n % (maxCell + 1)>>>>
AppendpropAddrrange(b, parent, node, name, addr, size, maxCell) ==
    LET ac == AddressCells(b, parent)
        sc == SizeCells(b, parent)
    IN  IF ac < 0 THEN Did(ac, b)
        ELSE IF sc < 0 THEN Did(sc, b)
        ELSE IF ac = 1 /\ (addr > maxCell \/ maxCell + 1 - addr < size) THEN Did(BADVALUE, b)
        ELSE IF ac \notin {1, 2} THEN Did(BADNCELLS, b)
        ELSE IF sc = 1 /\ size > maxCell THEN Did(BADVALUE, b)
        ELSE IF sc \notin {1, 2} THEN Did(BADNCELLS, b)
        ELSE Appendprop(b, node, name, AddrCells(addr, ac, maxCell)
                                       \o AddrCells(size, sc, maxCell))

--------------------------------------------------------------------------
(* Building in sequence: the tokens grow upwards from the start of the     *)
(* buffer, the strings downwards from its end.  magic is FDT_SW_MAGIC in   *)
(* its 'memrsv' and its 'struct' state until fdt_finish().                 *)

FdtCreate(bufsize, dedup) ==
    [magic |-> "memrsv", total |-> bufsize, rsv |-> <<>>, toks |-> <<>>,
     strs |-> <<>>, dedup |-> dedup]

(* fdt_sw_probe_memrsv_() and fdt_sw_probe_struct_() *)
SwProbe(b, state) == b.magic = state

SwSize(b) == RsvCells * (Len(b.rsv) + IF b.magic = "memrsv" THEN 0 ELSE 1)
             + CellsOf(b.toks) + Len(b.strs)

FdtResize(b, bufsize) ==
    IF b.magic \notin {"memrsv", "struct"} THEN Did(BADSTATE, b)
    ELSE IF SwSize(b) > bufsize THEN Did(NOSPACE, b)
    ELSE Did(0, [b EXCEPT !.total = bufsize])

AddReservemapEntry(b, entry) ==
    IF ~SwProbe(b, "memrsv") THEN Did(BADSTATE, b)
    ELSE IF SwSize(b) + RsvCells > b.total THEN Did(NOSPACE, b)
    ELSE Did(0, [b EXCEPT !.rsv = Append(@, entry)])

FinishReservemap(b) ==
    IF ~SwProbe(b, "memrsv") THEN Did(BADSTATE, b)
    ELSE IF SwSize(b) + RsvCells > b.total THEN Did(NOSPACE, b)
    ELSE Did(0, [b EXCEPT !.magic = "struct"])

GrabSpace(b, tok) ==
    IF SwSize(b) + TokCells(tok) > b.total THEN Did(NOSPACE, b)
    ELSE Did(0, [b EXCEPT !.toks = Append(@, tok)])

SwPut(b, tok) == IF SwProbe(b, "struct") THEN GrabSpace(b, tok) ELSE Did(BADSTATE, b)
BeginNode(b, name) == SwPut(b, BeginTok(name))
EndNode(b) == SwPut(b, PlainTok("end_node"))

(* Offset 0 means no room: offsets below the end of the table are negative. *)
AddString(b, s) ==
    IF SwSize(b) + 1 > b.total THEN Did(0, b)
    ELSE Did(-(Len(b.strs) + 1), [b EXCEPT !.strs = <<s>> \o @])
SwFindAddString(b, s) ==
    IF b.dedup /\ FindString(b, s) # 0
    THEN Did(FindString(b, s) - Len(b.strs) - 1, b) ELSE AddString(b, s)
SwDelLastString(b) == [b EXCEPT !.strs = Tail(@)]

FdtProperty(b, name, val) ==
    LET s == SwFindAddString(b, name)
        d == GrabSpace(s.b, PropTok(s.ret, val))
    IN  IF ~SwProbe(b, "struct") THEN Did(BADSTATE, b)
        ELSE IF s.ret = 0 THEN Did(NOSPACE, b)
        ELSE IF d.ret < 0 /\ s.b # b THEN Did(d.ret, SwDelLastString(d.b)) ELSE d

(* The string table moves down behind the tokens, and the offsets that     *)
(* counted from its end count from its start.                              *)
FdtFinish(b) ==
    LET d == SwPut(b, PlainTok("end"))
        n == Len(b.strs)
        toks == [i \in DOMAIN d.b.toks |->
                    IF d.b.toks[i].tag = "prop"
                    THEN [d.b.toks[i] EXCEPT !.off = @ + n + 1] ELSE d.b.toks[i]]
    IN  IF d.ret < 0 THEN d
        ELSE Did(0, [d.b EXCEPT !.toks = toks, !.total = SwSize(d.b), !.magic = "fdt"])
-----------------------------------------------------------------------------
(***************************************************************************)
(* A client builds a device tree with the calls of libfdt and then edits   *)
(* it.  fdt is the flattened tree, tree what the calls say it holds: a     *)
(* function from the path of a node to its properties.                     *)
(***************************************************************************)

CONSTANTS NodeNames,   \* names of nodes below the root
          PropNames,   \* names of properties
          Values,      \* property values
          BufSizes,    \* buffer sizes, in cells
          Ranges,      \* address ranges <<address, size>> for a "reg" property
          MaxCell,     \* the largest number one cell holds
          MaxFdtOps    \* bound: calls that add, change or remove something

VARIABLES fdt, tree, open, ret, fdt_ops
fdtVars == <<fdt, tree, open, ret, fdt_ops>>

NoProps == [n \in {} |-> <<>>]
Root == <<RootName>>
Prefixed(path, q) == Len(path) <= Len(q) /\ SubSeq(q, 1, Len(path)) = path

(* Reference: the tree a blob spells out, and the path of each node. *)
Spelt(b) ==
    LET step(s, t) ==
          CASE t.tag = "begin" ->
                 LET path == Append(s.path, t.name)
                 IN  [path |-> path, tree |-> s.tree @@ (path :> NoProps),
                      at |-> Append(s.at, path)]
            [] t.tag = "end_node" -> [s EXCEPT !.path = Front(@), !.at = Append(@, <<>>)]
            [] t.tag = "prop" ->
                 [s EXCEPT !.tree[s.path] = (GetString(b, t.off) :> t.val) @@ @,
                           !.at = Append(@, <<>>)]
            [] OTHER -> [s EXCEPT !.at = Append(@, <<>>)]
    IN  FoldLeft(step, [path |-> <<>>, tree |-> [p \in {} |-> NoProps], at |-> <<>>], b.toks)
PathsOf(b) == Spelt(b).at

Sets(path, name, val) == [tree EXCEPT ![path] = (name :> val) @@ @]
Drops(path, name) ==
    [tree EXCEPT ![path] = [n \in DOMAIN @ \ {name} |-> @[n]]]
Cuts(path) == [q \in {q \in DOMAIN tree : ~Prefixed(path, q)} |-> tree[q]]
Renames(path, name) ==
    LET new(q) == IF Prefixed(path, q) THEN [q EXCEPT ![Len(path)] = name] ELSE q
    IN  [q \in {new(p) : p \in DOMAIN tree} |-> tree[CHOOSE p \in DOMAIN tree : new(p) = q]]

--------------------------------------------------------------------------
FdtInit ==
    /\ \E size \in BufSizes : fdt = FdtCreate(size, TRUE)
    /\ tree = [p \in {} |-> NoProps] /\ open = <<>> /\ ret = 0 /\ fdt_ops = 0

(* The call leaves its result; the client's view changes if it succeeded. *)
FdtCall(result, t) ==
    \E d \in {result} :
      /\ fdt' = d.b /\ ret' = d.ret
      /\ tree' = IF d.ret < 0 THEN tree ELSE t
Counted == fdt_ops < MaxFdtOps /\ fdt_ops' = fdt_ops + 1
Free == fdt_ops' = fdt_ops

Reserve == /\ fdt.magic = "memrsv" /\ Counted /\ UNCHANGED open
           /\ FdtCall(AddReservemapEntry(fdt, 1), tree)
StartTree == /\ fdt.magic = "memrsv" /\ Free /\ UNCHANGED open
             /\ FdtCall(FinishReservemap(fdt), tree)
Begin == /\ fdt.magic = "struct"
         /\ \E name \in IF open = <<>> THEN {RootName} ELSE NodeNames :
              /\ Append(open, name) \notin DOMAIN tree
              /\ open = <<>> => tree = [p \in {} |-> NoProps]
              /\ IF open = <<>> THEN Free ELSE Counted
              /\ LET d == BeginNode(fdt, name) IN
                 /\ FdtCall(d, tree @@ (Append(open, name) :> NoProps))
                 /\ open' = IF d.ret < 0 THEN open ELSE Append(open, name)
SetEntry == /\ fdt.magic = "struct" /\ open # <<>> /\ Counted /\ UNCHANGED open
            /\ fdt.toks[Len(fdt.toks)].tag \in {"begin", "prop"}
            /\ \E name \in PropNames, val \in Values :
                 /\ name \notin DOMAIN tree[open]
                 /\ FdtCall(FdtProperty(fdt, name, val), Sets(open, name, val))
End == /\ fdt.magic = "struct" /\ open # <<>> /\ Free
       /\ LET d == EndNode(fdt) IN
          /\ FdtCall(d, tree)
          /\ open' = IF d.ret < 0 THEN open ELSE Front(open)
Grow == /\ \E size \in BufSizes :
             \/ fdt.magic = "struct" /\ FdtCall(FdtResize(fdt, size), tree)
             \/ fdt.magic = "fdt" /\ FdtCall(OpenInto(fdt, size), tree)
        /\ Free /\ UNCHANGED open
Finish == /\ fdt.magic = "struct" /\ open = <<>> /\ tree # [p \in {} |-> NoProps]
          /\ Free /\ UNCHANGED open
          /\ FdtCall(FdtFinish(fdt), tree)

Edit ==
    /\ fdt.magic = "fdt" /\ Counted /\ UNCHANGED open
    /\ \E paths \in {PathsOf(fdt)} : \E node \in ToSet(AllNodes(fdt)) :
       LET path == paths[node] IN
       \/ \E name \in PropNames :
          \/ \E val \in Values :
             \/ FdtCall(Setprop(fdt, node, name, val), Sets(path, name, val))
             \/ FdtCall(Appendprop(fdt, node, name, val),
                     Sets(path, name, IF name \in DOMAIN tree[path]
                                      THEN tree[path][name] \o val ELSE val))
             \/ FdtCall(SetpropInplace(fdt, node, name, val), Sets(path, name, val))
          \/ FdtCall(Delprop(fdt, node, name), Drops(path, name))
          \/ FdtCall(NopProperty(fdt, node, name), Drops(path, name))
       \/ \E name \in NodeNames :
          \/ FdtCall(AddSubnode(fdt, node, name), tree @@ (Append(path, name) :> NoProps))
          \/ /\ path # Root /\ Append(Front(path), name) \notin DOMAIN tree
             /\ FdtCall(SetName(fdt, node, name), Renames(path, name))
       \/ path # Root /\ FdtCall(DelNode(fdt, node), Cuts(path))
       \/ path # Root /\ FdtCall(NopNode(fdt, node), Cuts(path))
AddRange ==
    /\ fdt.magic = "fdt" /\ Counted /\ UNCHANGED open
    /\ \E paths \in {PathsOf(fdt)} : \E node \in ToSet(AllNodes(fdt)), r \in Ranges :
       LET path == paths[node] IN
       /\ path # Root
       /\ FdtCall(AppendpropAddrrange(fdt, ParentOffset(fdt, node), node, "p", r[1], r[2], MaxCell),
               Sets(path, "p", (IF "p" \in DOMAIN tree[path] THEN tree[path]["p"] ELSE <<>>)
                               \o <<<<"u32", r[1] \div (MaxCell + 1)>>,
                                    <<"u32", r[1] % (MaxCell + 1)>>, <<"u32", r[2]>>>>))
Reservations ==
    /\ fdt.magic = "fdt" /\ Counted /\ UNCHANGED open
    /\ FdtCall(AddMemRsv(fdt, 1), tree) \/ FdtCall(DelMemRsv(fdt, 1), tree)
PackTree == /\ fdt.magic = "fdt" /\ Free /\ UNCHANGED open /\ FdtCall(Pack(fdt), tree)

FdtNext == Reserve \/ StartTree \/ Begin \/ SetEntry \/ End \/ Grow \/ Finish
           \/ Edit \/ AddRange \/ Reservations \/ PackTree

--------------------------------------------------------------------------
(* The blob spells out the tree its calls describe, each node once, and    *)
(* passes fdt_check_full(): splices, FDT_NOPs, the string table and the    *)
(* relocation of fdt_finish() never lose or move a property.               *)
FdtHoldsTree ==
    /\ Spelt(fdt).tree = tree
    /\ Len(AllNodes(fdt)) = Cardinality(DOMAIN tree)
    /\ fdt.magic = "fdt" => CheckFull(fdt) = 0

Shadowed(path, k) ==
    path[k][2] = "" /\ \E n \in NodeNames : n # path[k] /\ n[1] = path[k][1]
                                /\ Append(SubSeq(path, 1, k - 1), n) \in DOMAIN tree

(* Every way of finding a node agrees: fdt_get_path(), fdt_node_depth(),   *)
(* fdt_parent_offset() and fdt_getprop() tell of a node what the tree      *)
(* does, and fdt_path_offset() of its path leads to it, unless a sibling   *)
(* on the way has the same name and a unit address where the path has none.*)
LookupsAgree ==
    fdt.magic = "fdt" =>
    \A paths \in {PathsOf(fdt)} : \A node \in ToSet(AllNodes(fdt)) :
       LET path == paths[node]
           found == PathOffset(fdt, Abs(Tail(path)))
       IN  /\ GetPath(fdt, node) = Tail(path)
           /\ NodeDepth(fdt, node) = Len(path) - 1
           /\ path # Root => paths[ParentOffset(fdt, node)] = Front(path)
           /\ \A n \in PropNames :
                IF n \in DOMAIN tree[path] THEN Getprop(fdt, node, n) = tree[path][n]
                ELSE GetProperty(fdt, node, n) = NOTFOUND
           /\ (\A k \in 2..Len(path) : ~Shadowed(path, k)) => found = node
           /\ \A n \in DOMAIN tree[path] :
                NodeOffsetByPropValue(fdt, 0, n, tree[path][n]) \in 1..node
           /\ GetPhandle(fdt, node) # GeneratePhandle(fdt, MaxCell)
           /\ NodeOffsetByPhandle(fdt, GetPhandle(fdt, node)) \in {BADPHANDLE} \cup 1..node
-----------------------------------------------------------------------------
(***************************************************************************)
(* fdt_overlay_apply(): an overlay's fragments are merged into a base tree *)
(* after the overlay's phandles, and its references to them, have been     *)
(* moved out of the way of those of the base.                              *)
(*                                                                         *)
(* A property of /__fixups__ lists the places <<"fix", path, property,     *)
(* index>> that refer to the label it is named after; /__local_fixups__    *)
(* repeats the overlay's tree with, per property, the indices of its       *)
(* references.  A path as a value is <<"path", names>>.                    *)
(***************************************************************************)

CONSTANTS Bases,      \* base trees
          Overlays,   \* overlays
          MaxU32,     \* 2^32 - 1
          MaxOverlays \* bound: overlays applied to one base

VARIABLES base, ov, before, applied
ovVars == <<base, ov, before, applied>>

Nm(s) == <<s, "">>
U32(n) == <<<<"u32", n>>>>

(* The next call, on the tree the last one left, unless that one failed;   *)
(* F on the elements of a sequence until one fails.                        *)
Next_(d, F(_)) == Bind(d, LAMBDA x : IF x.ret < 0 THEN x ELSE F(x.b))
EachOf(seq, b, F(_, _)) ==
    FoldLeft(LAMBDA d, x : IF d.ret < 0 THEN d ELSE F(d.b, x), Did(0, b), seq)

--------------------------------------------------------------------------
TargetPhandle(o, fragment) ==
    Bind(GetProperty(o, fragment, "target"), LAMBDA p :
      IF p < 0 THEN 0 ELSE IF Len(o.toks[p].val) # 1 THEN MaxU32 ELSE o.toks[p].val[1][2])

TargetOffset(b, o, fragment) ==
    LET ByPath(path) == IF Len(path) # 1 THEN BADOVERLAY ELSE PathOffset(b, Abs(path[1][2]))
    IN  Bind(TargetPhandle(o, fragment), LAMBDA phandle :
          IF phandle = MaxU32 THEN BADPHANDLE
          ELSE IF phandle # 0 THEN NodeOffsetByPhandle(b, phandle)
          ELSE Bind(Getprop(o, fragment, "target-path"), ByPath))

PhandleAddOffset(o, node, name, delta) ==
    LET p == GetProperty(o, node, name) IN
    IF p < 0 THEN Did(p, o)
    ELSE IF Len(o.toks[p].val) # 1 THEN Did(BADPHANDLE, o)
    ELSE IF o.toks[p].val[1][2] + delta >= MaxU32 THEN Did(NOPHANDLES, o)
    ELSE Did(0, [o EXCEPT !.toks[p].val = U32(@[1][2] + delta)])

RECURSIVE AdjustNodePhandles(_, _, _)
AdjustNodePhandles(o, node, delta) ==
    LET one(d, name) == LET e == PhandleAddOffset(d.b, node, name, delta)
                        IN  IF d.ret < 0 THEN d
                            ELSE IF e.ret = NOTFOUND THEN d ELSE e
        own == FoldLeft(one, Did(0, o), <<"phandle", "linux,phandle">>)
    IN  Next_(own, LAMBDA d :
          EachOf(Subnodes(o, node), d, LAMBDA b, child : AdjustNodePhandles(b, child, delta)))

(* overlay_update_local_node_references() and                              *)
(* overlay_update_node_conflicting_references() walk the same two trees    *)
(* and differ in what they make of a reference, the function new.          *)
RefsOfProperty(o, treeNode, fixProp, new) ==
    LET p == GetProperty(o, treeNode, PropName(o, fixProp))
        at == {c[2] + 1 : c \in ToSet(o.toks[fixProp].val)}
    IN  IF p = NOTFOUND THEN Did(BADOVERLAY, o)
        ELSE Did(0, [o EXCEPT !.toks[p].val =
                        [i \in DOMAIN @ |-> IF i \in at THEN <<"u32", new[@[i][2]]>> ELSE @[i]]])

RECURSIVE UpdateReferences(_, _, _, _)
UpdateReferences(o, treeNode, fixNode, new) ==
    LET own == EachOf(Properties(o, fixNode), o,
                      LAMBDA b, fp : RefsOfProperty(b, treeNode, fp, new))
        child(b, fc) ==
            LET tc == SubnodeOffset(b, treeNode, b.toks[fc].name)
            IN  IF tc < 0 THEN Did(BADOVERLAY, b) ELSE UpdateReferences(b, tc, fc, new)
    IN  Next_(own, LAMBDA d : EachOf(Subnodes(o, fixNode), d, child))

UpdateLocalReferences(o, new) ==
    LET fixups == PathOffset(o, Abs(<<Nm("__local_fixups__")>>))
    IN  IF fixups = NOTFOUND THEN Did(0, o) ELSE UpdateReferences(o, 1, fixups, new)

FixupOnePhandle(o, place, phandle) ==
    LET node == PathOffset(o, Abs(place[2]))
    IN  IF node = NOTFOUND THEN Did(BADOVERLAY, o)
        ELSE SetpropInplacePartial(o, node, place[3], place[4], U32(phandle))

FixupPhandle(b, o, symbols, prop) ==
    LET path == Getprop(b, symbols, PropName(o, prop))
        node == PathOffset(b, Abs(path[1][2]))
    IN  IF symbols < 0 THEN Did(symbols, o)
        ELSE IF path = <<>> THEN Did(NOTFOUND, o)
        ELSE IF node < 0 THEN Did(node, o)
        ELSE IF GetPhandle(b, node) = 0 THEN Did(NOTFOUND, o)
        ELSE EachOf(o.toks[prop].val, o,
                    LAMBDA d, place : FixupOnePhandle(d, place, GetPhandle(b, node)))

FixupPhandles(b, o) ==
    LET fixups == PathOffset(o, Abs(<<Nm("__fixups__")>>))
        symbols == PathOffset(b, Abs(<<Nm("__symbols__")>>))
    IN  IF fixups = NOTFOUND THEN Did(0, o)
        ELSE EachOf(Properties(o, fixups), o, LAMBDA d, p : FixupPhandle(b, d, symbols, p))

(* A node the base has already, with a phandle of its own, keeps it. *)
AdjustConflictingPhandle(o, node, phandle) ==
    EachOf(<<"phandle", "linux,phandle">>, o,
           LAMBDA d, name : IF Len(Getprop(d, node, name)) = 1
                            THEN SetpropInplace(d, node, name, U32(phandle)) ELSE Did(0, d))

RECURSIVE PreventOverwriteNode(_, _, _, _)
PreventOverwriteNode(b, node, o, onode) ==
    LET Own(mine, theirs) ==
            IF mine = 0 \/ theirs = 0 THEN Did(0, o)
            ELSE Next_(AdjustConflictingPhandle(o, onode, mine), LAMBDA d :
                   UpdateLocalReferences(d, [v \in 0..MaxU32 |-> IF v = theirs THEN mine ELSE v]))
        own == Bind(<<GetPhandle(b, node), GetPhandle(o, onode)>>, LAMBDA h : Own(h[1], h[2]))
        child(d, oc) ==
            LET c == SubnodeOffset(b, node, d.toks[oc].name)
            IN  IF c = NOTFOUND THEN Did(0, d) ELSE PreventOverwriteNode(b, c, d, oc)
    IN  Next_(own, LAMBDA d : EachOf(Subnodes(o, onode), d, child))

PreventOverwrite_none(b, o) == Did(0, o)
PreventOverwrite(b, o) ==
    EachOf(Subnodes(o, 1), o,
           LAMBDA d, fragment :
              LET overlay == SubnodeOffset(d, fragment, Nm("__overlay__"))
              IN  Bind(TargetOffset(b, d, fragment), LAMBDA target :
                    IF overlay = NOTFOUND \/ target = NOTFOUND THEN Did(0, d)
                    ELSE IF target < 0 THEN Did(target, d)
                    ELSE PreventOverwriteNode(b, target, d, overlay)))

ApplyProperty(d, target, name, val) == Setprop(d, target, name, val)

RECURSIVE ApplyNode(_, _, _, _)
ApplyNode(b, target, o, node) ==
    LET own == EachOf(Properties(o, node), b,
                      LAMBDA d, p : ApplyProperty(d, target, PropName(o, p), o.toks[p].val))
        child(d, sub) ==
            LET old == SubnodeOffset(d, target, o.toks[sub].name)
                At_(new) == IF new.ret = EXISTS THEN Did(old, d) ELSE new
            IN  Bind(At_(AddSubnode(d, target, o.toks[sub].name)), LAMBDA at :
                  IF at.ret < 0 THEN Did(at.ret, d) ELSE ApplyNode(at.b, at.ret, o, sub))
    IN  Next_(own, LAMBDA d : EachOf(Subnodes(o, node), d, child))

MergeOverlay(b, o) ==
    EachOf(Subnodes(o, 1), b,
           LAMBDA d, fragment :
              LET overlay == SubnodeOffset(o, fragment, Nm("__overlay__"))
              IN  IF overlay = NOTFOUND THEN Did(0, d)
                  ELSE Bind(TargetOffset(d, o, fragment), LAMBDA target :
                         IF target < 0 THEN Did(target, d)
                         ELSE ApplyNode(d, target, o, overlay)))

(* A symbol /fragment/__overlay__/rest becomes the path of its target node *)
(* followed by rest, a target-path as it is written; one that names        *)
(* anything else is left out.                                              *)
SymbolPath(d, o, fragment, target, rest) ==
    (IF TargetPhandle(o, fragment) = 0 THEN Getprop(o, fragment, "target-path")[1][2]
     ELSE GetPath(d, target)) \o rest
SymbolUpdate(b, o) ==
    LET ovSym == SubnodeOffset(o, 1, Nm("__symbols__"))
        have == SubnodeOffset(b, 1, Nm("__symbols__"))
        made == IF have = NOTFOUND THEN AddSubnode(b, 1, Nm("__symbols__")) ELSE Did(have, b)
        one(d, p) ==
            LET names == o.toks[p].val[1][2]
                fragment == SubnodeOffset(o, 1, names[1])
                rest == SubSeq(names, 3, Len(names))
            IN  IF Len(names) < 2 \/ (Len(names) >= 2 /\ names[2] # Nm("__overlay__"))
                THEN Did(0, d)
                ELSE IF fragment < 0 \/ SubnodeOffset(o, fragment, Nm("__overlay__")) < 0
                THEN Did(BADOVERLAY, d)
                ELSE Bind(<<TargetOffset(d, o, fragment), SubnodeOffset(d, 1, Nm("__symbols__"))>>,
                          LAMBDA at :
                            IF at[1] < 0 THEN Did(at[1], d)
                            ELSE Setprop(d, at[2], PropName(o, p),
                                         <<<<"path", SymbolPath(d, o, fragment, at[1], rest)>>>>))
    IN  IF ovSym < 0 THEN Did(0, b)
        ELSE Next_(made, LAMBDA d : EachOf(Properties(o, ovSym), d, one))

(* The steps of fdt_overlay_apply().  The overlay is spoilt in any case,   *)
(* the base too if a step failed: their magic is erased.                   *)
OverlayApply(b, o) ==
    LET delta == FindMaxPhandle(b)
        Moved(x) == UpdateLocalReferences(x, [v \in 0..MaxU32 |-> (v + delta) % (MaxU32 + 1)])
        Resolved(x) == FixupPhandles(b, x)
        Kept(x) == PreventOverwrite(b, x)
        Merge(x) == Next_(MergeOverlay(b, x), LAMBDA y : SymbolUpdate(y, x))
    IN  Bind(Next_(Next_(Next_(Next_(AdjustNodePhandles(o, 1, delta), Moved), Resolved), Kept),
                   Merge),
             LAMBDA end : IF end.ret >= 0 THEN end.b ELSE [b EXCEPT !.magic = "bad"])

OvInit == /\ base \in Bases /\ before = base
          /\ ov \in Overlays /\ applied = 0
ApplyOverlay ==
    /\ base.magic = "fdt" /\ applied < MaxOverlays
    /\ before' = base
    /\ \E o \in Overlays : ov' = o /\ base' = OverlayApply(base, o)
    /\ applied' = applied + 1
OvNext == ApplyOverlay

--------------------------------------------------------------------------
(* Reference: where the nodes of an overlay o go, and what its references  *)
(* mean, read from the trees of the overlay and of the base as it was.     *)
TreeOf(b) == Spelt(b).tree
Under(name) == <<RootName, Nm(name)>>
PropsAt(t, path) == IF path \in DOMAIN t THEN t[path] ELSE NoProps

LabelOf(o, place) == {l \in DOMAIN PropsAt(o, Under("__fixups__")) :
                         place \in ToSet(o[Under("__fixups__")][l])}
Labelled(old, l) == old[Under("__symbols__")][l][1][2]
TargetNames(o, old, frag) ==
    LET props == o[<<RootName, frag>>]
    IN  IF "target" \in DOMAIN props
        THEN Labelled(old, CHOOSE l \in LabelOf(o, <<"fix", <<frag>>, "target", 0>>) : TRUE)
        ELSE props["target-path"][1][2]
\* Where a path leads: a name without its unit address stands for one with it.
Resolves(t, path) ==
    LET next(at, n) == {p \in DOMAIN t : /\ Len(p) = Len(at) + 1 /\ Front(p) = at
                                         /\ Last(p) = n \/ <<Last(p)[1], "">> = n}
    IN  FoldLeft(LAMBDA at, n : IF next(at, n) = {} THEN Append(at, n)
                                ELSE CHOOSE p \in next(at, n) : TRUE, <<>>, path)
OverlayPaths(o) == {q \in DOMAIN o : Len(q) > 2 /\ q[3] = Nm("__overlay__")}
MergedPaths(o, old) == [q \in OverlayPaths(o) |->
              Resolves(old, Root \o TargetNames(o, old, q[2]) \o SubSeq(q, 4, Len(q)))]

LocalRefs(o) ==
    UNION {UNION {{<<Root \o SubSeq(f, 3, Len(f)), n, c[2] + 1>> : c \in ToSet(o[f][n])} :
                    n \in DOMAIN o[f]} :
             f \in {f \in DOMAIN o : Prefixed(Under("__local_fixups__"), f)}}
HandleOf(t, path) == IF "phandle" \in DOMAIN t[path] THEN t[path]["phandle"][1][2] ELSE 0

Merged_ == applied > 0 /\ base.magic = "fdt"

(* After a merge the tree has the nodes of the base and those of the       *)
(* fragments at their targets, the properties of the overlay where it has  *)
(* any and of the base elsewhere, and passes fdt_check_full().  Properties *)
(* that hold phandles are the subject of ReferencesResolve.                *)
MergedTree ==
    Merged_ =>
    \A o \in {TreeOf(ov)}, old \in {TreeOf(before)}, new \in {TreeOf(base)} :
    \A to \in {MergedPaths(o, old)}, refs \in {LocalRefs(o)} :
    LET moved == Range(to)
        from(path) == CHOOSE q \in DOMAIN to : to[q] = path
        fixed(q, n) == n = "phandle" \/ (\E i \in 1..2 : <<q, n, i>> \in refs
                          \/ LabelOf(o, <<"fix", Tail(q), n, i - 1>>) # {})
    IN  /\ CheckFull(base) = 0
        /\ DOMAIN new \ {Under("__symbols__")} = (DOMAIN old \cup moved) \ {Under("__symbols__")}
        /\ \A path \in DOMAIN new \ {Under("__symbols__")} :
              LET mine == IF path \in moved THEN o[from(path)] ELSE NoProps
              IN  /\ DOMAIN new[path] = DOMAIN mine \cup DOMAIN PropsAt(old, path)
                  /\ \A n \in DOMAIN new[path] :
                       IF n \in DOMAIN mine
                       THEN fixed(from(path), n) \/ new[path][n] = mine[n]
                       ELSE new[path][n] = old[path][n]

(* After a merge every phandle names one node, no node of the base lost    *)
(* its own, and each reference of the overlay, to a node of its own or to  *)
(* a label of the base, holds the phandle of the node it meant.            *)
ReferencesResolve ==
    Merged_ =>
    \A o \in {TreeOf(ov)}, old \in {TreeOf(before)}, new \in {TreeOf(base)} :
    \A to \in {MergedPaths(o, old)} :
      /\ \A p, q \in DOMAIN new : (p # q /\ HandleOf(new, p) # 0) => HandleOf(new, p) # HandleOf(new, q)
      /\ \A p \in DOMAIN old : "phandle" \in DOMAIN old[p] => new[p]["phandle"] = old[p]["phandle"]
      /\ \A r \in LocalRefs(o) : r[1] \in DOMAIN to =>
            \E q \in DOMAIN to :
               /\ HandleOf(o, q) = o[r[1]][r[2]][r[3]][2]
               /\ new[to[r[1]]][r[2]][r[3]][2] = HandleOf(new, to[q])
      /\ \A l \in DOMAIN PropsAt(o, Under("__fixups__")) :
            \A place \in ToSet(o[Under("__fixups__")][l]) :
               (Root \o place[2]) \in DOMAIN to =>
                  new[to[Root \o place[2]]][place[3]][place[4] + 1][2]
                     = HandleOf(new, Resolves(new, Root \o Labelled(old, l)))

(* Every symbol of the merged tree leads to a node, also one whose path was *)
(* taken from a target-path as it was written.                              *)
SymbolsLead ==
    Merged_ =>
    \A new \in {TreeOf(base)} :
      \A l \in DOMAIN PropsAt(new, Under("__symbols__")) :
         Resolves(new, Root \o new[Under("__symbols__")][l][1][2]) \in DOMAIN new
=============================================================================
