-------------------------- MODULE PageTable_proofs --------------------------
(***************************************************************************)
(* What the walk of mm_map_pages() keeps, for every size of the tables and *)
(* every set of frames: types and the tree of the tables, where the walk   *)
(* is and which translation a step changes, and to whom the mapped frames  *)
(* belong.  The theorems about its callers, MapCalls and KernelSpace, rest *)
(* on these lemmas.                                                        *)
(***************************************************************************)
EXTENDS PageTable, TLAPS

-----------------------------------------------------------------------------
(* Trees of tables in a memory m *)

Rows(m, S) == {m[t][i] : t \in S, i \in Slots} \ {Absent}

L3(m) == Rows(m, {Root})
L2(m) == Rows(m, L3(m))
L1(m) == Rows(m, L2(m))
Upper(m) == {Root} \cup L3(m) \cup L2(m)

Tree(m, P) ==
  /\ L3(m) \cup L2(m) \cup L1(m) \subseteq Frames \ ({Root} \cup P)
  /\ L3(m) \cap L2(m) = {} /\ L2(m) \cap L1(m) = {} /\ L3(m) \cap L1(m) = {}
  /\ \A s, t \in Upper(m) : \A i, j \in Slots :
       <<s, i>> # <<t, j>> /\ m[s][i] # Absent => m[s][i] # m[t][j]

(* A table is below S if an entry of S points to it. *)
LEMMA RowsMember ==
  ASSUME NEW m, NEW S, NEW x
  PROVE  x \in Rows(m, S) <=> x # Absent /\ \E t \in S : \E i \in Slots : m[t][i] = x
  BY DEF Rows

(* Rows that do not change have the same tables below them. *)
LEMMA RowsSame ==
  ASSUME NEW m, NEW n, NEW S, \A t \in S : n[t] = m[t]
  PROVE  Rows(n, S) = Rows(m, S)
  BY DEF Rows

(* A write to what is no table of the three upper levels, and frames that  *)
(* leave the pool, do not touch the tree.                                  *)
LEMMA TreeKept ==
  ASSUME NEW m, NEW n, NEW P, NEW Q, Tree(m, P), Q \subseteq P,
         \A t \in Upper(m) : n[t] = m[t]
  PROVE  /\ Tree(n, Q)
         /\ L3(n) = L3(m) /\ L2(n) = L2(m) /\ L1(n) = L1(m)
  <1>1. L3(n) = L3(m)
    BY RowsSame DEF L3, Upper
  <1>2. L2(n) = L2(m)
    BY <1>1, RowsSame DEF L2, Upper
  <1>3. L1(n) = L1(m)
    BY <1>2, RowsSame DEF L1, Upper
  <1>4. Upper(n) = Upper(m)
    BY <1>1, <1>2 DEF Upper
  <1> QED BY <1>1, <1>2, <1>3, <1>4 DEF Tree

(* From m to n the frame f leaves the pool, is cleaned, and the entry i0   *)
(* of the table t0 is set to it.                                           *)
Linked(m, n, P, Q, f, t0, i0) ==
  /\ m \in [Frames -> [Slots -> Int]]
  /\ f \in Frames /\ f \in P /\ Root \notin P /\ Q \subseteq P \ {f}
  /\ t0 \in Upper(m) /\ i0 \in Slots /\ m[t0][i0] = Absent
  /\ t0 # f /\ n[t0][i0] = f
  /\ \A i \in Slots : n[f][i] = Absent
  /\ \A i \in Slots \ {i0} : n[t0][i] = m[t0][i]
  /\ \A t \in Frames \ {f, t0} : n[t] = m[t]

(* A new, clean table linked into an empty entry of a tree makes a tree.   *)
LEMMA TreeGrown ==
  ASSUME NEW m, NEW n, NEW P, NEW Q, NEW f, NEW t0, NEW i0,
         Tree(m, P), Linked(m, n, P, Q, f, t0, i0)
  PROVE  /\ Tree(n, Q)
         /\ L3(m) \subseteq L3(n) /\ L2(m) \subseteq L2(n) /\ L1(m) \subseteq L1(n)
         /\ t0 = Root => f \in L3(n)
         /\ t0 \in L3(m) => f \in L2(n)
         /\ t0 \in L2(m) => f \in L1(n)
  <1>0. /\ m \in [Frames -> [Slots -> Int]]
        /\ f \in Frames /\ f \in P /\ Root \notin P /\ Q \subseteq P \ {f}
        /\ t0 \in Upper(m) /\ i0 \in Slots /\ m[t0][i0] = Absent /\ t0 # f
    BY DEF Linked
  <1>1. /\ Upper(m) \subseteq Frames /\ f # Root
        /\ f \notin Upper(m) /\ f \notin L1(m) /\ Root \notin L3(m) \cup L2(m) \cup L1(m)
    BY <1>0, TableAssumption DEF Tree, Upper
  <1>2. f \in Nat /\ f # Absent
    BY <1>0, TableAssumption DEF Absent
  <1>5. \A t \in Frames \ {f, t0} : n[t] = m[t]
    BY DEF Linked
  <1>6. \A i \in Slots : n[f][i] = Absent
    BY DEF Linked
  <1>7. n[t0][i0] = f /\ \A i \in Slots \ {i0} : n[t0][i] = m[t0][i]
    BY DEF Linked
  <1> HIDE DEF Absent
  <1>8. ASSUME NEW S \in SUBSET (Frames \ {f}), t0 \notin S
        PROVE  Rows(n, S) = Rows(m, S)
    <2>1. \A t \in S : n[t] = m[t]
      BY <1>5, <1>8
    <2> QED BY <2>1 DEF Rows
  <1>9. ASSUME NEW S \in SUBSET (Frames \ {f}), t0 \in S
        PROVE  Rows(n, S) = Rows(m, S) \cup {f}
    <2>1. Rows(n, S) \subseteq Rows(m, S) \cup {f}
      BY <1>5, <1>7, <1>9 DEF Rows
    <2>2. f \in Rows(n, S)
      BY <1>0, <1>2, <1>7, <1>9 DEF Rows
    <2>3. Rows(m, S) \subseteq Rows(n, S)
      <3> SUFFICES ASSUME NEW t \in S, NEW i \in Slots, m[t][i] # Absent
                   PROVE  n[t][i] = m[t][i]
        BY DEF Rows
      <3>1. CASE t = t0
        BY <1>0, <3>1, <1>7
      <3>2. CASE t # t0
        BY <3>2, <1>5
      <3> QED BY <3>1, <3>2
    <2> QED BY <2>1, <2>2, <2>3
  <1>10. ASSUME NEW S PROVE Rows(n, S \cup {f}) = Rows(n, S)
    <2>1. ASSUME NEW x PROVE x \in Rows(n, S \cup {f}) <=> x \in Rows(n, S)
      BY <1>6, RowsMember
    <2> QED BY <2>1 DEF Rows
  <1>11. /\ L3(m) \in SUBSET (Frames \ {f}) /\ L2(m) \in SUBSET (Frames \ {f})
         /\ {Root} \in SUBSET (Frames \ {f})
    BY <1>1, TableAssumption DEF Upper
  <1>12. \/ t0 = Root /\ L3(n) = L3(m) \cup {f} /\ L2(n) = L2(m) /\ L1(n) = L1(m)
         \/ t0 \in L3(m) /\ L3(n) = L3(m) /\ L2(n) = L2(m) \cup {f} /\ L1(n) = L1(m)
         \/ t0 \in L2(m) /\ L3(n) = L3(m) /\ L2(n) = L2(m) /\ L1(n) = L1(m) \cup {f}
    <2>1. CASE t0 = Root
      <3>1. L3(n) = L3(m) \cup {f}
        BY <2>1, <1>9, <1>11 DEF L3
      <3>2. L2(n) = L2(m)
          <4>1. L2(n) = Rows(n, L3(m))
          BY <3>1, <1>10 DEF L2
        <4>2. Rows(n, L3(m)) = Rows(m, L3(m))
          BY <2>1, <1>1, <1>8, <1>11
        <4> QED BY <4>1, <4>2 DEF L2
      <3>3. L1(n) = L1(m)
        BY <2>1, <3>2, <1>1, <1>8, <1>11 DEF L1
      <3> QED BY <2>1, <3>1, <3>2, <3>3
    <2>2. CASE t0 \in L3(m)
      <3>1. L3(n) = L3(m)
        BY <2>2, <1>1, <1>8, <1>11 DEF L3
      <3>2. L2(n) = L2(m) \cup {f}
        BY <2>2, <3>1, <1>9, <1>11 DEF L2
      <3>3. t0 \notin L2(m)
        BY <2>2 DEF Tree
      <3>4. L1(n) = L1(m)
        BY <3>2, <3>3, <1>8, <1>10, <1>11 DEF L1
      <3> QED BY <2>2, <3>1, <3>2, <3>4
    <2>3. CASE t0 \in L2(m)
      <3>1. L3(n) = L3(m)
        BY <2>3, <1>1, <1>8, <1>11 DEF L3
      <3>2. t0 \notin L3(m)
        BY <2>3 DEF Tree
      <3>3. L2(n) = L2(m)
        BY <3>1, <3>2, <1>8, <1>11 DEF L2
      <3>4. L1(n) = L1(m) \cup {f}
        BY <2>3, <3>3, <1>9, <1>11 DEF L1
      <3> QED BY <2>3, <3>1, <3>3, <3>4
    <2> QED BY <1>0, <2>1, <2>2, <2>3 DEF Upper
  <1>13. L3(n) \cup L2(n) \cup L1(n) \subseteq Frames \ ({Root} \cup Q)
    BY <1>0, <1>12, <1>1 DEF Tree
  <1>14. L3(n) \cap L2(n) = {} /\ L2(n) \cap L1(n) = {} /\ L3(n) \cap L1(n) = {}
    <2>1. /\ f \notin L3(m) /\ f \notin L2(m) /\ f \notin L1(m)
          /\ L3(m) \cap L2(m) = {} /\ L2(m) \cap L1(m) = {} /\ L3(m) \cap L1(m) = {}
      BY <1>1 DEF Tree, Upper
    <2> QED BY <1>12, <2>1
  <1>15. ASSUME NEW s \in Upper(n), NEW t \in Upper(n), NEW i \in Slots, NEW j \in Slots,
                <<s, i>> # <<t, j>>, n[s][i] # Absent
         PROVE  n[s][i] # n[t][j]
    <2>1. Upper(n) \subseteq Upper(m) \cup {f}
      BY <1>12 DEF Upper
    <2>2. s \in Upper(m)
      BY <2>1, <1>6, <1>15
    <2>3. \A u \in Upper(m), k \in Slots : m[u][k] # f
      <3> SUFFICES ASSUME NEW u \in Upper(m), NEW k \in Slots, m[u][k] = f PROVE FALSE
        OBVIOUS
      <3>1. m[u][k] \in L3(m) \cup L2(m) \cup L1(m)
        <4>1. m[u][k] # Absent
          BY <1>2
        <4> QED BY <4>1 DEF Upper, L3, L2, L1, Rows
      <3> QED BY <3>1, <1>1 DEF Upper
    <2>4. \A u \in Upper(m), k \in Slots :
            n[u][k] = IF u = t0 /\ k = i0 THEN f ELSE m[u][k]
      BY <1>1, <1>5, <1>7
    <2>5. CASE t = f
      BY <2>5, <1>6, <1>15
    <2>6. CASE t \in Upper(m)
      <3>1. \A v, u \in Upper(m) : \A k, l \in Slots :
              <<v, k>> # <<u, l>> /\ m[v][k] # Absent => m[v][k] # m[u][l]
        BY DEF Tree
      <3>2. CASE s = t0 /\ i = i0
        <4>1. ~(t = t0 /\ j = i0)
          BY <3>2, <1>15
        <4> QED BY <4>1, <3>2, <2>2, <2>3, <2>4, <2>6
      <3>3. CASE ~(s = t0 /\ i = i0)
        <4>1. n[s][i] = m[s][i]
          BY <3>3, <2>2, <2>4
        <4>2. CASE t = t0 /\ j = i0
          BY <4>1, <4>2, <2>2, <2>3, <2>4, <2>6
        <4>3. CASE ~(t = t0 /\ j = i0)
          BY <4>1, <4>3, <3>1, <2>2, <2>4, <2>6, <1>15
        <4> QED BY <4>2, <4>3
      <3> QED BY <3>2, <3>3
    <2> QED BY <2>1, <2>5, <2>6
  <1>16. Tree(n, Q)
    <2>1. \A s, t \in Upper(n) : \A i, j \in Slots :
            <<s, i>> # <<t, j>> /\ n[s][i] # Absent => n[s][i] # n[t][j]
      BY <1>15
    <2> QED BY <1>13, <1>14, <2>1 DEF Tree
  <1>17. /\ L3(m) \subseteq L3(n) /\ L2(m) \subseteq L2(n) /\ L1(m) \subseteq L1(n)
         /\ t0 = Root => f \in L3(n)
         /\ t0 \in L3(m) => f \in L2(n)
         /\ t0 \in L2(m) => f \in L1(n)
    BY <1>12, <1>1 DEF Tree
  <1> QED BY <1>16, <1>17

-----------------------------------------------------------------------------
(* Addresses and activation records *)

(* The ranges of entries and the address space are not empty.              *)
LEMMA RangesPositive ==
  /\ \A l \in Levels : EntryRange[l] \in Nat \ {0}
  /\ VirtPages \in Nat \ {0}
  <1> PICK e \in Nat \ {0} : e = Entries
    BY TableAssumption
  <1>1. e * e \in Nat \ {0}
    OBVIOUS
  <1>2. e * e * e \in Nat \ {0}
    BY <1>1
  <1>3. e * (e * e * e) \in Nat \ {0}
    BY <1>2
  <1> QED BY <1>1, <1>2, <1>3 DEF EntryRange, VirtPages, Levels

(* Address arithmetic stays in the address space. *)
LEMMA WrapTyped == \A a \in Int : Wrap(a) \in 0 .. VirtPages - 1
  <1> PICK n \in Nat \ {0} : n = VirtPages
    BY RangesPositive
  <1>1. \A a \in Int : a % n \in 0 .. n - 1
    OBVIOUS
  <1> QED BY <1>1 DEF Wrap

(* The index into a table is a slot of the table. *)
LEMMA IndexTyped ==
  ASSUME NEW v \in Nat, NEW l \in Levels
  PROVE  Index(v, l) \in Slots
  <1> PICK r \in Nat \ {0} : r = EntryRange[l]
    BY RangesPositive
  <1> PICK e \in Nat \ {0} : e = Entries
    BY TableAssumption
  <1>1. v \div r \in Nat
    OBVIOUS
  <1>2. (v \div r) % e \in 0 .. e - 1
    BY <1>1
  <1> QED BY <1>2 DEF Index, Slots

(* Masking an address does not make it larger. *)
LEMMA BoundaryTyped ==
  ASSUME NEW v \in Nat, NEW l \in Levels
  PROVE  NextBoundary(v, l) \in 0 .. VirtPages - 1
  <1> PICK r \in Nat \ {0} : r = EntryRange[l]
    BY RangesPositive
  <1> PICK a \in 0 .. VirtPages - 1 : a = Wrap(v + r)
    BY WrapTyped
  <1>1. a \in Nat /\ a < VirtPages
    BY RangesPositive
  <1>2. a \div r \in Nat /\ (a \div r) * r <= a
    BY <1>1
  <1>3. (a \div r) * r \in Nat
    BY <1>2
  <1> QED BY <1>1, <1>2, <1>3, RangesPositive DEF NextBoundary

Record == [level : Levels, table : Frames, index : 0 .. Entries,
           virt : 0 .. VirtPages - 1, end : 0 .. VirtPages - 1,
           length : 0 .. VirtPages - 1, more : BOOLEAN]

(* A range function is entered at a slot of its table. *)
LEMMA EnterTyped ==
  ASSUME NEW level \in Levels, NEW table \in Frames,
         NEW from \in 0 .. VirtPages - 1, NEW to \in 0 .. VirtPages - 1
  PROVE  Enter(level, table, from, to) \in Record
  <1>1. from \in Nat /\ to - from \in Int
    BY RangesPositive
  <1>2. Index(from, level) \in 0 .. Entries
    BY <1>1, IndexTyped, TableAssumption DEF Slots
  <1>3. Wrap(to - from) \in 0 .. VirtPages - 1
    BY <1>1, WrapTyped
  <1> QED BY <1>2, <1>3 DEF Enter, Record

(* The end of an entry's range is an address. *)
LEMMA ToAddrTyped ==
  ASSUME walk # <<>>, Top \in Record
  PROVE  ToAddr \in 0 .. VirtPages - 1
  <1>1. Top.virt \in Nat /\ Top.length \in Nat /\ Top.level \in Levels
    BY RangesPositive DEF Record
  <1>2. Wrap(Top.virt + Top.length) \in 0 .. VirtPages - 1
    <2>1. Top.virt + Top.length \in Int
      BY <1>1
    <2> QED BY <2>1, WrapTyped
  <1>3. NextBoundary(Top.virt, Top.level) \in 0 .. VirtPages - 1
    BY <1>1, BoundaryTyped
  <1> QED BY <1>2, <1>3 DEF ToAddr

(* An iteration at a slot leaves the pointer at most one entry further.    *)
LEMMA AdvanceTyped ==
  ASSUME walk # <<>>, Top \in Record, InTable, NEW to \in 0 .. VirtPages - 1
  PROVE  /\ Advance(to) \in Record
         /\ Advance(to).table = Top.table /\ Advance(to).level = Top.level
  <1>1. to - Top.virt \in Int /\ Top.length \in Int
    BY RangesPositive DEF Record
  <1>2. Wrap(to - Top.virt) \in Int
    BY <1>1, WrapTyped, RangesPositive
  <1>3. Wrap(Top.length - Wrap(to - Top.virt)) \in 0 .. VirtPages - 1
    <2>1. Top.length - Wrap(to - Top.virt) \in Int
      BY <1>1, <1>2
    <2> QED BY <2>1, WrapTyped
  <1>4. NextIndex(Top.index) \in 0 .. Entries
    BY TableAssumption DEF NextIndex, Record, InTable
  <1> PICK top \in Record : top = Top
    OBVIOUS
  <1> DEFINE x == NextIndex(Top.index)
             y == Wrap(Top.length - Wrap(to - Top.virt))
             z == Top.level # 4 /\ to < Top.end
             r == [top EXCEPT !.virt = to, !.index = x, !.length = y, !.more = z]
  <1>5. x \in 0 .. Entries /\ y \in 0 .. VirtPages - 1 /\ z \in BOOLEAN
    BY <1>3, <1>4
  <1>6. Advance(to) = r
    BY DEF Advance
  <1> HIDE DEF x, y, z
  <1>7. r \in Record /\ r.table = top.table /\ r.level = top.level
    BY <1>5 DEF Record
  <1> HIDE DEF r
  <1> QED BY <1>6, <1>7

-----------------------------------------------------------------------------
(* The invariant of the walk *)

(* The tables of a level. *)
LevelTables(m, l) == IF l = 4 THEN {Root} ELSE IF l = 3 THEN L3(m)
                     ELSE IF l = 2 THEN L2(m) ELSE L1(m)

(* Every range function that runs works on a table of its level. *)
WalkInTree == \A i \in DOMAIN walk : walk[i].table \in LevelTables(mem, walk[i].level)

(* alloc_page() has no frame twice, and not that of the root. *)
PoolFresh == IsInjective(pool) /\ Root \notin ToSet(pool)

TablesInv == PageTableTypeOK /\ TablesFormTree /\ PoolFresh /\ WalkInTree

(* TablesFormTree is about the memory and the pool. *)
LEMMA TreeIs ==
  /\ TablesFormTree <=> Tree(mem, ToSet(pool))
  /\ TablesFormTree' <=> Tree(mem', ToSet(pool'))
  /\ Pdp3s = L3(mem) /\ Pde2s = L2(mem) /\ Ptes = L1(mem)
  <1>1. TablesFormTree <=> Tree(mem, ToSet(pool))
    BY DEF TablesFormTree, Tree, Upper, L3, L2, L1, Rows, Pdp3s, Pde2s, Ptes, Below
  <1>2. TablesFormTree' <=> Tree(mem', ToSet(pool'))
    BY DEF TablesFormTree, Tree, Upper, L3, L2, L1, Rows, Pdp3s, Pde2s, Ptes, Below, ToSet
  <1>3. Pdp3s = L3(mem) /\ Pde2s = L2(mem) /\ Ptes = L1(mem)
    BY DEF L3, L2, L1, Rows, Pdp3s, Pde2s, Ptes, Below
  <1> QED BY <1>1, <1>2, <1>3

(* Tables of every level are frames; those of the upper levels are Upper.  *)
LEMMA LevelsAreFrames ==
  ASSUME NEW m, NEW P, Tree(m, P), NEW l \in Levels
  PROVE  /\ LevelTables(m, l) \subseteq Frames
         /\ l # 1 => LevelTables(m, l) \subseteq Upper(m)
         /\ l = 1 => LevelTables(m, l) \cap Upper(m) = {}
  BY TableAssumption DEF Tree, Upper, LevelTables, Levels

(* Taking the first frame of the pool leaves the others, once each.        *)
LEMMA TailFacts ==
  ASSUME NEW S, NEW s \in Seq(S), s # <<>>, IsInjective(s)
  PROVE  /\ Tail(s) \in Seq(S) /\ Head(s) \in S /\ Head(s) \in ToSet(s)
         /\ ToSet(Tail(s)) \subseteq ToSet(s) \ {Head(s)}
         /\ IsInjective(Tail(s))
  <1>1. /\ Tail(s) \in Seq(S) /\ Len(Tail(s)) = Len(s) - 1 /\ Head(s) \in S
        /\ Len(s) \in Nat \ {0} /\ Head(s) = s[1]
    OBVIOUS
  <1>2. \A i \in 1 .. Len(s) - 1 : Tail(s)[i] = s[i + 1]
    OBVIOUS
  <1>3. DOMAIN s = 1 .. Len(s) /\ DOMAIN Tail(s) = 1 .. Len(s) - 1
    BY <1>1
  <1>4. Head(s) \in ToSet(s)
    BY <1>1, <1>3 DEF ToSet
  <1>5. \A i \in 1 .. Len(s) - 1 : i + 1 \in 1 .. Len(s) /\ s[i + 1] # s[1]
    BY <1>1, <1>3 DEF IsInjective
  <1>6. ToSet(Tail(s)) \subseteq ToSet(s) \ {Head(s)}
    BY <1>1, <1>2, <1>3, <1>5 DEF ToSet
  <1>7. IsInjective(Tail(s))
    BY <1>1, <1>2, <1>3, <1>5 DEF IsInjective
  <1> QED BY <1>1, <1>4, <1>6, <1>7

(* A step that writes to no upper table, puts no frame into the pool and   *)
(* enters no table of another level keeps the invariant, and the tables.   *)
LEMMA Untouched ==
  ASSUME TablesInv, PageTableTypeOK',
         \A t \in Upper(mem) : mem'[t] = mem[t],
         ToSet(pool') \subseteq ToSet(pool), IsInjective(pool'),
         \A i \in DOMAIN walk' : walk'[i].table \in LevelTables(mem, walk'[i].level)
  PROVE  TablesInv' /\ Upper(mem') = Upper(mem) /\ L1(mem') = L1(mem)
  <1>1. Tree(mem, ToSet(pool))
    BY TreeIs DEF TablesInv
  <1>2. /\ Tree(mem', ToSet(pool'))
        /\ L3(mem') = L3(mem) /\ L2(mem') = L2(mem) /\ L1(mem') = L1(mem)
    BY <1>1, TreeKept
  <1>3. \A l : LevelTables(mem', l) = LevelTables(mem, l)
    BY <1>2 DEF LevelTables
  <1>4. WalkInTree'
    BY <1>3 DEF WalkInTree
  <1>5. PoolFresh'
    BY DEF PoolFresh, TablesInv, ToSet
  <1>6. Upper(mem') = Upper(mem)
    BY <1>2 DEF Upper
  <1> QED BY <1>2, <1>4, <1>5, <1>6, TreeIs DEF TablesInv

(* The innermost record works on a table of its level. *)
LEMMA TopFacts ==
  ASSUME TablesInv, walk # <<>>
  PROVE  /\ Top \in Record /\ Len(walk) \in Nat \ {0} /\ DOMAIN walk = 1 .. Len(walk)
         /\ Top.table \in LevelTables(mem, Top.level)
         /\ walk \in Seq(Record)
  <1>1. walk \in Seq(Record)
    BY DEF TablesInv, PageTableTypeOK, Record
  <1>2. Len(walk) \in Nat \ {0} /\ DOMAIN walk = 1 .. Len(walk) /\ Len(walk) \in DOMAIN walk
    BY <1>1
  <1> QED BY <1>1, <1>2 DEF Top, TablesInv, WalkInTree

-----------------------------------------------------------------------------
(* The steps of the walk keep the invariant *)

(* An empty root and a pool of other frames make a tree. *)
LEMMA InitTablesInv ==
  ASSUME NEW frames \in Seq(Frames), IsInjective(frames), Root \notin ToSet(frames),
         InitTables(frames)
  PROVE  TablesInv
  <1> USE DEF InitTables
  <1>1. PageTableTypeOK
    <2>1. Cleared \in [Slots -> Int] /\ Garbage \in [Slots -> Int]
      BY DEF Cleared, Garbage, Absent
    <2>2. mem \in [Frames -> [Slots -> Int]]
      BY <2>1
    <2>3. pacc \in Accessor
      BY DEF Accessor, Linear
    <2>4. req \in [virt : 0 .. VirtPages - 1, num : Nat, kernel : BOOLEAN]
      BY RangesPositive
    <2> QED BY <2>2, <2>3, <2>4 DEF PageTableTypeOK
  <1>2. Rows(mem, {Root}) = {}
    BY TableAssumption DEF Rows, Cleared
  <1>3. L3(mem) = {} /\ L2(mem) = {} /\ L1(mem) = {}
    <2>1. Rows(mem, {}) = {}
      BY DEF Rows
    <2> QED BY <1>2, <2>1 DEF L3, L2, L1
  <1>4. Tree(mem, ToSet(pool))
    BY <1>3, TableAssumption DEF Tree, Upper, Cleared
  <1> QED BY <1>1, <1>4, TreeIs DEF TablesInv, PoolFresh, WalkInTree

(* mm_map_pages() begins its walk at the root. *)
LEMMA MapPagesInv ==
  ASSUME TablesInv, NEW r \in Request, MapPages(r)
  PROVE  TablesInv' /\ mem' = mem /\ pool' = pool
  <1> USE DEF MapPages
  <1>1. /\ r.virt \in 0 .. VirtPages - 1 /\ r.num \in Nat /\ r.kernel \in BOOLEAN
        /\ r.pacc \in Accessor
    BY DEF Request
  <1> DEFINE first == Enter(4, Root, r.virt, Wrap(r.virt + r.num))
  <1>2. first \in Record /\ first.table = Root /\ first.level = 4
    <2>1. r.virt + r.num \in Int
      BY <1>1, RangesPositive
    <2>2. Wrap(r.virt + r.num) \in 0 .. VirtPages - 1
      BY <2>1, WrapTyped
    <2>3. first \in Record
      BY <1>1, <2>2, EnterTyped, TableAssumption DEF Levels
    <2>4. first.table = Root /\ first.level = 4
      BY DEF Enter
    <2> QED BY <2>3, <2>4
  <1> HIDE DEF first
  <1>3. walk' = <<first>> \/ walk' = walk
    BY DEF first
  <1>4. walk' \in Seq(Record)
    <2>1. walk \in Seq(Record)
      BY DEF TablesInv, PageTableTypeOK, Record
    <2>2. <<first>> \in Seq(Record)
      BY <1>2
    <2> QED BY <1>3, <2>1, <2>2
  <1>5. PageTableTypeOK'
    BY <1>1, <1>4 DEF TablesInv, PageTableTypeOK, Record
  <1>6. \A i \in DOMAIN walk' : walk'[i].table \in LevelTables(mem, walk'[i].level)
    BY <1>2, <1>3 DEF TablesInv, WalkInTree, LevelTables
  <1> QED BY <1>5, <1>6, Untouched DEF TablesInv, PoolFresh

(* A new table is clean, was nobody else's, and hangs at one entry.        *)
LEMMA PopulateInv ==
  ASSUME TablesInv, Populate
  PROVE  /\ TablesInv'
         /\ Linked(mem, mem', ToSet(pool), ToSet(pool'), Head(pool), Top.table, Top.index)
  <1> DEFINE f == Head(pool)
  <1>1. walk # <<>> /\ Top.level \in {2, 3, 4}
    BY DEF Populate, AtEntry
  <1>2. Top \in Record /\ Top.table \in LevelTables(mem, Top.level)
    BY <1>1, TopFacts
  <1>3. Tree(mem, ToSet(pool))
    BY TreeIs DEF TablesInv
  <1>4. Top.table \in Upper(mem) /\ Top.table \in Frames
    BY <1>1, <1>2, <1>3, LevelsAreFrames DEF Levels
  <1>5. Top.index \in Slots
    BY <1>2, TableAssumption DEF Populate, Record, InTable, Slots
  <1>6. /\ pool' \in Seq(Frames) /\ f \in Frames /\ f \in ToSet(pool)
        /\ ToSet(pool') \subseteq ToSet(pool) \ {f} /\ IsInjective(pool')
    BY TailFacts DEF Populate, TablesInv, PageTableTypeOK, PoolFresh
  <1>7. mem \in [Frames -> [Slots -> Int]]
    BY DEF TablesInv, PageTableTypeOK
  <1>8. Top.table # f
    BY <1>3, <1>4, <1>6 DEF Tree, Upper, TablesInv, PoolFresh
  <1>9. mem' = [mem EXCEPT ![f] = Cleared, ![Top.table][Top.index] = f]
    BY DEF Populate, NewTable
  <1> HIDE DEF f
  <1> PICK t0 \in Frames, i0 \in Slots : t0 = Top.table /\ i0 = Top.index
    BY <1>4, <1>5
  <1>10. mem' = [t \in Frames |->
                   IF t = t0 THEN [mem[t] EXCEPT ![i0] = f]
                   ELSE IF t = f THEN Cleared ELSE mem[t]]
    BY <1>7, <1>8, <1>9
  <1>11. Cleared \in [Slots -> Int] /\ f \in Int
    BY <1>6, TableAssumption DEF Cleared, Absent
  <1>12. /\ mem' \in [Frames -> [Slots -> Int]]
         /\ mem'[t0][i0] = f
         /\ \A i \in Slots \ {i0} : mem'[t0][i] = mem[t0][i]
         /\ \A i \in Slots : mem'[f][i] = Absent
         /\ \A t \in Frames \ {f, t0} : mem'[t] = mem[t]
    <2>1. mem' \in [Frames -> [Slots -> Int]]
      <3>1. \A t \in Frames : mem[t] \in [Slots -> Int]
        BY <1>7
      <3>2. \A t \in Frames : [mem[t] EXCEPT ![i0] = f] \in [Slots -> Int]
        BY <3>1, <1>11
      <3> DEFINE row(t) == IF t = t0 THEN [mem[t] EXCEPT ![i0] = f]
                           ELSE IF t = f THEN Cleared ELSE mem[t]
      <3>3. \A t \in Frames : row(t) \in [Slots -> Int]
        BY <1>11, <3>1, <3>2
      <3>4. mem' = [t \in Frames |-> row(t)]
        BY <1>10
      <3> HIDE DEF row
      <3> QED BY <3>3, <3>4
    <2>2. mem'[t0] = [mem[t0] EXCEPT ![i0] = f]
      BY <1>10
    <2>3. mem[t0] \in [Slots -> Int]
      BY <1>7
    <2>4. mem'[t0][i0] = f /\ \A i \in Slots \ {i0} : mem'[t0][i] = mem[t0][i]
      BY <2>2, <2>3
    <2>5. mem'[f] = Cleared
      BY <1>6, <1>8, <1>10
    <2>6. \A i \in Slots : mem'[f][i] = Absent
      BY <2>5 DEF Cleared
    <2>7. \A t \in Frames \ {f, t0} : mem'[t] = mem[t]
      BY <1>10
    <2> QED BY <2>1, <2>4, <2>6, <2>7
  <1>13. Linked(mem, mem', ToSet(pool), ToSet(pool'), f, t0, i0)
    <2>1. mem[t0][i0] = Absent /\ Root \notin ToSet(pool)
      BY DEF Populate, Entry, TablesInv, PoolFresh
    <2>2. t0 \in Upper(mem) /\ t0 # f
      BY <1>4, <1>8
    <2> QED BY <1>6, <1>7, <1>12, <2>1, <2>2 DEF Linked
  <1>14. /\ Tree(mem', ToSet(pool'))
         /\ L3(mem) \subseteq L3(mem') /\ L2(mem) \subseteq L2(mem')
         /\ L1(mem) \subseteq L1(mem')
    BY <1>3, <1>13, TreeGrown
  <1>15. walk' = walk
    BY DEF Populate, callVars
  <1>16. WalkInTree'
    BY <1>14, <1>15 DEF TablesInv, WalkInTree, LevelTables
  <1>17. PageTableTypeOK'
    BY <1>6, <1>12 DEF Populate, callVars, TablesInv, PageTableTypeOK
  <1>18. PoolFresh'
    BY <1>6 DEF TablesInv, PoolFresh, ToSet
  <1>19. TablesInv'
    BY <1>14, <1>16, <1>17, <1>18, TreeIs DEF TablesInv
  <1> QED BY <1>13, <1>19 DEF f

(* A walk that is given up leaves the tables as they are.                  *)
LEMMA GiveUpInv ==
  ASSUME TablesInv, PopulateFails \/ Overrun
  PROVE  TablesInv'
  <1>1. /\ walk' = <<>> /\ ret' \in {"ENOMEM", "wild"}
        /\ mem' = mem /\ pool' = pool /\ pacc' = pacc /\ req' = req
    BY DEF PopulateFails, Overrun
  <1>2. PageTableTypeOK'
    BY <1>1 DEF TablesInv, PageTableTypeOK
  <1>3. IsInjective(pool') /\ ToSet(pool') \subseteq ToSet(pool)
    BY <1>1 DEF TablesInv, PoolFresh
  <1>4. \A i \in DOMAIN walk' : walk'[i].table \in LevelTables(mem, walk'[i].level)
    BY <1>1
  <1> QED BY <1>1, <1>2, <1>3, <1>4, Untouched

(* Replacing the innermost record by one of the same table leaves the      *)
(* others alone.                                                           *)
LEMMA SetTopFacts ==
  ASSUME TablesInv, walk # <<>>, NEW r \in Record,
         r.table = Top.table, r.level = Top.level
  PROVE  /\ SetTop(r) \in Seq(Record)
         /\ \A i \in DOMAIN SetTop(r) :
              SetTop(r)[i].table \in LevelTables(mem, SetTop(r)[i].level)
  <1>1. /\ walk \in Seq(Record) /\ Len(walk) \in Nat \ {0}
        /\ DOMAIN walk = 1 .. Len(walk) /\ Top.table \in LevelTables(mem, Top.level)
    BY TopFacts
  <1>2. \A i \in DOMAIN walk : walk[i].table \in LevelTables(mem, walk[i].level)
    BY DEF TablesInv, WalkInTree
  <1> PICK w \in Seq(Record) : w = walk
    BY <1>1
  <1> PICK k \in Nat \ {0} : k = Len(walk)
    BY <1>1
  <1>0. k \in 1 .. Len(w)
    OBVIOUS
  <1> DEFINE v == [w EXCEPT ![k] = r]
  <1>3. v \in Seq(Record) /\ DOMAIN v = DOMAIN w
    BY <1>0
  <1>4. \A i \in DOMAIN v : v[i] = IF i = k THEN r ELSE w[i]
    BY <1>3
  <1>5. SetTop(r) = v
    BY DEF SetTop
  <1> HIDE DEF v
  <1>6. \A i \in DOMAIN v : v[i].table \in LevelTables(mem, v[i].level)
    BY <1>1, <1>2, <1>3, <1>4
  <1> QED BY <1>3, <1>5, <1>6

(* The next range function gets the table that the entry points to.        *)
LEMMA DescendInv ==
  ASSUME TablesInv, Descend
  PROVE  TablesInv'
  <1>1. /\ walk # <<>> /\ Top.level \in {2, 3, 4} /\ InTable /\ Entry # Absent
        /\ walk' = Append(SetTop(Advance(ToAddr)),
                          Enter(Top.level - 1, Entry, Top.virt, ToAddr))
        /\ mem' = mem /\ pool' = pool /\ pacc' = pacc /\ req' = req /\ ret' = ret
    BY DEF Descend, AtEntry
  <1>2. Top \in Record /\ Top.table \in LevelTables(mem, Top.level)
    BY <1>1, TopFacts
  <1>3. Top.index \in Slots
    BY <1>1, <1>2, TableAssumption DEF Record, InTable, Slots
  <1>4. Entry \in LevelTables(mem, Top.level - 1)
    <2>1. Entry \in Rows(mem, LevelTables(mem, Top.level))
      BY <1>1, <1>2, <1>3, RowsMember DEF Entry
    <2> QED BY <1>1, <2>1 DEF LevelTables, L3, L2, L1
  <1>5. Top.level - 1 \in Levels /\ Entry \in Frames
    <2>1. Top.level - 1 \in Levels
      BY <1>1 DEF Levels
    <2>2. Tree(mem, ToSet(pool))
      BY TreeIs DEF TablesInv
    <2> QED BY <1>4, <2>1, <2>2, LevelsAreFrames
  <1>6. ToAddr \in 0 .. VirtPages - 1
    BY <1>1, <1>2, ToAddrTyped
  <1>7. /\ Advance(ToAddr) \in Record
        /\ Advance(ToAddr).table = Top.table /\ Advance(ToAddr).level = Top.level
    BY <1>1, <1>2, <1>6, AdvanceTyped
  <1> DEFINE e == Enter(Top.level - 1, Entry, Top.virt, ToAddr)
             v == SetTop(Advance(ToAddr))
  <1>8. e \in Record /\ e.table = Entry /\ e.level = Top.level - 1
    <2>1. Top.virt \in 0 .. VirtPages - 1
      BY <1>2 DEF Record
    <2>2. e \in Record
      BY <1>5, <1>6, <2>1, EnterTyped
    <2>3. e.table = Entry /\ e.level = Top.level - 1
      BY DEF Enter
    <2> QED BY <2>2, <2>3
  <1>9. /\ v \in Seq(Record)
        /\ \A i \in DOMAIN v : v[i].table \in LevelTables(mem, v[i].level)
    BY <1>1, <1>7, SetTopFacts
  <1>10. walk' = Append(v, e)
    BY <1>1
  <1> HIDE DEF e, v
  <1>11. walk' \in Seq(Record)
    BY <1>8, <1>9, <1>10
  <1>12. ASSUME NEW i \in DOMAIN walk'
         PROVE  walk'[i].table \in LevelTables(mem, walk'[i].level)
    <2>1. i \in 1 .. Len(v) + 1 /\ Len(v) \in Nat /\ DOMAIN v = 1 .. Len(v)
      BY <1>8, <1>9, <1>10
    <2>2. walk'[i] = IF i = Len(v) + 1 THEN e ELSE v[i]
      BY <1>8, <1>9, <1>10, <2>1
    <2>3. e.table \in LevelTables(mem, e.level)
      BY <1>4, <1>8
    <2> QED BY <1>9, <2>1, <2>2, <2>3
  <1>13. PageTableTypeOK'
    BY <1>1, <1>11 DEF TablesInv, PageTableTypeOK, Record
  <1>14. IsInjective(pool') /\ ToSet(pool') \subseteq ToSet(pool)
    BY <1>1 DEF TablesInv, PoolFresh
  <1> QED BY <1>1, <1>12, <1>13, <1>14, Untouched

(* The accessors give frame numbers and stay what they are.                *)
LEMMA AccessorTyped ==
  ASSUME NEW a \in Accessor
  PROVE  FrameOf(a) \in Int /\ Used(a) \in Accessor
  <1>1. /\ a.kind \in {"linear", "list", "idle"} /\ a.next \in Nat
        /\ a.left \in Seq(Nat)
    BY DEF Accessor
  <1>2. CASE a.kind = "linear"
    <2>1. FrameOf(a) = a.next /\ Used(a) = [a EXCEPT !.next = a.next + 1]
      BY <1>2 DEF FrameOf, Used
    <2> QED BY <1>1, <2>1 DEF Accessor
  <1>3. CASE a.kind = "list" /\ a.left # <<>>
    <2>1. FrameOf(a) = Head(a.left) /\ Used(a) = [a EXCEPT !.left = Tail(a.left)]
      BY <1>3 DEF FrameOf, Used
    <2>2. Head(a.left) \in Nat /\ Tail(a.left) \in Seq(Nat)
      BY <1>1, <1>3
    <2>3. [a EXCEPT !.left = Tail(a.left)] \in Accessor
      <3> PICK rest \in Seq(Nat) : rest = Tail(a.left)
        BY <2>2
      <3>1. [a EXCEPT !.left = rest] \in Accessor
        BY DEF Accessor
      <3> QED BY <3>1
    <2>4. Head(a.left) \in Int
      BY <2>2
    <2> QED BY <2>1, <2>3, <2>4
  <1>4. CASE ~(a.kind = "linear") /\ ~(a.kind = "list" /\ a.left # <<>>)
    <2>1. FrameOf(a) = INVALID_PAGE_IDX /\ Used(a) = a
      BY <1>4 DEF FrameOf, Used
    <2> QED BY <2>1 DEF INVALID_PAGE_IDX
  <1> QED BY <1>2, <1>3, <1>4

(* The entries of pages are in tables of the lowest level only.            *)
LEMMA WritePteFacts ==
  ASSUME TablesInv, AtEntry({1}), NEW frame \in Int, WritePte(frame)
  PROVE  /\ walk' \in Seq(Record)
         /\ \A i \in DOMAIN walk' :
              walk'[i].table \in LevelTables(mem, walk'[i].level)
         /\ mem' \in [Frames -> [Slots -> Int]]
         /\ \A t \in Upper(mem) : mem'[t] = mem[t]
  <1> DEFINE next == Wrap(Top.virt + PagesDone)
             r    == [Top EXCEPT !.virt = next, !.index = Index(next, 1),
                                 !.more = next < Top.end]
  <1>1. walk # <<>> /\ Top.level = 1
    BY DEF AtEntry
  <1>2. /\ mem' = [mem EXCEPT ![Top.table][Top.index] = frame]
        /\ walk' = SetTop(r)
    BY DEF WritePte
  <1>3. Top \in Record /\ Top.table \in LevelTables(mem, Top.level)
    BY <1>1, TopFacts
  <1>4. Top.table \in Frames /\ Top.table \notin Upper(mem)
    <2>1. Tree(mem, ToSet(pool))
      BY TreeIs DEF TablesInv
    <2> QED BY <1>1, <1>3, <2>1, LevelsAreFrames DEF Levels
  <1>5. next \in 0 .. VirtPages - 1
    <2>1. Top.virt + PagesDone \in Int
      BY <1>3, RangesPositive DEF Record, PagesDone
    <2> QED BY <2>1, WrapTyped
  <1>6. Index(next, 1) \in 0 .. Entries
    <2>1. next \in Nat
      BY <1>5, RangesPositive
    <2>2. Index(next, 1) \in Slots
      BY <2>1, IndexTyped DEF Levels
    <2> QED BY <2>2, TableAssumption DEF Slots
  <1> DEFINE x == Index(next, 1)
             z == next < Top.end
  <1>7. r \in Record /\ r.table = Top.table /\ r.level = Top.level
    <2> PICK top \in Record : top = Top
      BY <1>3
    <2>1. r = [top EXCEPT !.virt = next, !.index = x, !.more = z]
      OBVIOUS
    <2>2. x \in 0 .. Entries /\ z \in BOOLEAN
      BY <1>6
    <2> HIDE DEF next, x, z, r
    <2> DEFINE q == [top EXCEPT !.virt = next, !.index = x, !.more = z]
    <2>3. q \in Record /\ q.table = top.table /\ q.level = top.level
      BY <1>5, <2>2 DEF Record
    <2>4. r = q
      BY <2>1
    <2> HIDE DEF q
    <2> QED BY <2>3, <2>4
  <1> HIDE DEF r, next, x, z
  <1>8. /\ walk' \in Seq(Record)
        /\ \A i \in DOMAIN walk' :
             walk'[i].table \in LevelTables(mem, walk'[i].level)
    BY <1>1, <1>2, <1>7, SetTopFacts
  <1>9. /\ mem' \in [Frames -> [Slots -> Int]]
         /\ \A t \in Upper(mem) : mem'[t] = mem[t]
    <2>1. mem \in [Frames -> [Slots -> Int]]
      BY DEF TablesInv, PageTableTypeOK
    <2> PICK m \in [Frames -> [Slots -> Int]] : m = mem
      BY <2>1
    <2> PICK t0 \in Frames : t0 = Top.table
      BY <1>4
    <2> DEFINE row == [m[t0] EXCEPT ![Top.index] = frame]
    <2>2. row \in [Slots -> Int]
      BY <2>1
    <2>3. mem' = [m EXCEPT ![t0] = row]
      BY <1>2
    <2> HIDE DEF row
    <2>4. mem' \in [Frames -> [Slots -> Int]] /\ \A t \in Frames \ {t0} : mem'[t] = m[t]
      BY <2>2, <2>3
    <2>5. Upper(mem) \subseteq Frames \ {t0}
      <3>1. Tree(mem, ToSet(pool))
        BY TreeIs DEF TablesInv
      <3> QED BY <1>4, <3>1, TableAssumption DEF Tree, Upper
    <2> QED BY <2>4, <2>5
  <1> QED BY <1>8, <1>9

(* An iteration of map_pde2_range() keeps the tables.                      *)
LEMMA MapPde2RangeInv ==
  ASSUME TablesInv, MapPde2Range
  PROVE  TablesInv'
  <1>1. /\ AtEntry({1}) /\ WritePte(FrameOf(pacc)) /\ pacc' = Used(pacc)
        /\ pool' = pool /\ req' = req /\ ret' = ret
    BY DEF MapPde2Range
  <1>2. FrameOf(pacc) \in Int /\ pacc' \in Accessor
    BY <1>1, AccessorTyped DEF TablesInv, PageTableTypeOK
  <1>3. /\ walk' \in Seq(Record)
        /\ \A i \in DOMAIN walk' :
             walk'[i].table \in LevelTables(mem, walk'[i].level)
        /\ mem' \in [Frames -> [Slots -> Int]]
        /\ \A t \in Upper(mem) : mem'[t] = mem[t]
    BY <1>1, <1>2, WritePteFacts
  <1>4. PageTableTypeOK'
    BY <1>1, <1>2, <1>3 DEF TablesInv, PageTableTypeOK, Record
  <1>5. IsInjective(pool') /\ ToSet(pool') \subseteq ToSet(pool)
    BY <1>1 DEF TablesInv, PoolFresh
  <1> QED BY <1>3, <1>4, <1>5, Untouched

(* A return takes the innermost record away.                               *)
LEMMA ReturnInv ==
  ASSUME TablesInv, Return
  PROVE  TablesInv'
  <1>1. /\ walk # <<>> /\ walk' = Front(walk) /\ ret' \in {"OK", ret}
        /\ mem' = mem /\ pool' = pool /\ pacc' = pacc /\ req' = req
    BY DEF Return
  <1>2. /\ walk \in Seq(Record) /\ Len(walk) \in Nat \ {0}
        /\ DOMAIN walk = 1 .. Len(walk)
    BY <1>1, TopFacts
  <1>3. walk' = [i \in 1 .. Len(walk) - 1 |-> walk[i]]
    BY <1>1 DEF Front
  <1>4. walk' \in Seq(Record) /\ DOMAIN walk' = 1 .. Len(walk) - 1
    BY <1>2, <1>3
  <1>5. \A i \in DOMAIN walk' : walk'[i].table \in LevelTables(mem, walk'[i].level)
    BY <1>2, <1>3, <1>4 DEF TablesInv, WalkInTree
  <1>6. PageTableTypeOK'
    BY <1>1, <1>4 DEF TablesInv, PageTableTypeOK, Record
  <1>7. IsInjective(pool') /\ ToSet(pool') \subseteq ToSet(pool)
    BY <1>1 DEF TablesInv, PoolFresh
  <1> QED BY <1>1, <1>5, <1>6, <1>7, Untouched

(* Every step of the walk keeps the tables a tree.                         *)
LEMMA MapStepInv ==
  ASSUME TablesInv, MapStep
  PROVE  TablesInv'
  BY PopulateInv, GiveUpInv, DescendInv, MapPde2RangeInv, ReturnInv DEF MapStep

(* A step that changes none of the variables keeps the invariant.          *)
LEMMA StutterInv ==
  ASSUME TablesInv, UNCHANGED tableVars
  PROVE  TablesInv'
  <1>1. /\ mem' = mem /\ pool' = pool /\ walk' = walk
        /\ pacc' = pacc /\ req' = req /\ ret' = ret
    BY DEF tableVars, callVars
  <1>2. PageTableTypeOK'
    BY <1>1 DEF TablesInv, PageTableTypeOK
  <1>3. IsInjective(pool') /\ ToSet(pool') \subseteq ToSet(pool)
    BY <1>1 DEF TablesInv, PoolFresh
  <1>4. \A i \in DOMAIN walk' : walk'[i].table \in LevelTables(mem, walk'[i].level)
    BY <1>1 DEF TablesInv, WalkInTree
  <1> QED BY <1>1, <1>2, <1>3, <1>4, Untouched

(* A step that only takes frames from the pool, and writes to none but     *)
(* those, keeps the invariant.                                             *)
LEMMA TakeFramesInv ==
  ASSUME TablesInv, UNCHANGED callVars,
         pool' \in Seq(Frames), IsInjective(pool'), ToSet(pool') \subseteq ToSet(pool),
         mem' \in [Frames -> [Slots -> Int]],
         \A t \in Frames \ ToSet(pool) : mem'[t] = mem[t]
  PROVE  TablesInv'
  <1>1. walk' = walk /\ pacc' = pacc /\ req' = req /\ ret' = ret
    BY DEF callVars
  <1>2. PageTableTypeOK'
    BY <1>1 DEF TablesInv, PageTableTypeOK
  <1>3. \A t \in Upper(mem) : mem'[t] = mem[t]
    <2>1. Tree(mem, ToSet(pool)) /\ Root \notin ToSet(pool)
      BY TreeIs DEF TablesInv, PoolFresh
    <2>2. Upper(mem) \subseteq Frames \ ToSet(pool)
      BY <2>1, TableAssumption DEF Tree, Upper
    <2> QED BY <2>2
  <1>4. \A i \in DOMAIN walk' : walk'[i].table \in LevelTables(mem, walk'[i].level)
    BY <1>1 DEF TablesInv, WalkInTree
  <1> QED BY <1>2, <1>3, <1>4, Untouched

-----------------------------------------------------------------------------
(* Division *)

(* A quotient and a remainder are the only ones.                           *)
LEMMA DivUnique ==
  ASSUME NEW q \in Nat, NEW n \in Nat \ {0}, NEW r \in Nat, r < n
  PROVE  (q * n + r) \div n = q /\ (q * n + r) % n = r
  <1> PICK a \in Nat : a = q * n + r
    OBVIOUS
  <1> PICK p \in Nat : p = a \div n
    OBVIOUS
  <1> PICK s \in Nat : s = a % n /\ s < n
    OBVIOUS
  <1>1. a = p * n + s
    OBVIOUS
  <1>2. p * n + s = q * n + r /\ p * n \in Nat /\ q * n \in Nat
    BY <1>1
  <1>3. ~(p < q)
    <2> SUFFICES ASSUME p < q PROVE FALSE
      OBVIOUS
    <2> PICK d \in Nat : q = p + 1 + d
      <3>1. q - p - 1 \in Nat /\ q = p + 1 + (q - p - 1)
        OBVIOUS
      <3> QED BY <3>1
    <2>1. q * n = p * n + n + d * n /\ d * n \in Nat
      OBVIOUS
    <2> QED BY <1>2, <2>1
  <1>4. ~(q < p)
    <2> SUFFICES ASSUME q < p PROVE FALSE
      OBVIOUS
    <2> PICK d \in Nat : p = q + 1 + d
      <3>1. p - q - 1 \in Nat /\ p = q + 1 + (p - q - 1)
        OBVIOUS
      <3> QED BY <3>1
    <2>1. p * n = q * n + n + d * n /\ d * n \in Nat
      OBVIOUS
    <2> QED BY <1>2, <2>1
  <1>5. p = q
    BY <1>3, <1>4
  <1>6. s = r
    BY <1>2, <1>5
  <1> QED BY <1>5, <1>6

(* What a quotient and a remainder are.                                    *)
LEMMA DivParts ==
  ASSUME NEW a \in Nat, NEW n \in Nat \ {0}
  PROVE  /\ a \div n \in Nat /\ a % n \in Nat /\ a % n < n
         /\ a = (a \div n) * n + (a % n)
  OBVIOUS

(* Shifting twice is shifting by the sum.                                  *)
LEMMA DivTwice ==
  ASSUME NEW a \in Nat, NEW m \in Nat \ {0}, NEW n \in Nat \ {0}
  PROVE  (a \div m) \div n = a \div (n * m)
  <1> PICK q \in Nat, r \in Nat : a = q * m + r /\ r < m /\ q = a \div m
    BY DivParts
  <1> PICK p \in Nat, s \in Nat : q = p * n + s /\ s < n /\ p = q \div n
    BY DivParts
  <1> PICK k \in Nat \ {0} : k = n * m
    <2>1. n * m \in Nat /\ n * m # 0
      OBVIOUS
    <2> QED BY <2>1
  <1>1. a = p * k + (s * m + r)
    <2> PICK x \in Nat : x = p * n
      OBVIOUS
    <2>1. (x + s) * m = x * m + s * m
      OBVIOUS
    <2>2. x * m = p * k
      OBVIOUS
    <2>3. a = (x + s) * m + r
      OBVIOUS
    <2>4. x * m \in Nat /\ s * m \in Nat
      OBVIOUS
    <2> QED BY <2>1, <2>2, <2>3, <2>4
  <1>2. s * m + r < k /\ s * m + r \in Nat
    <2> PICK d \in Nat : n = s + 1 + d
      <3>1. n - s - 1 \in Nat /\ n = s + 1 + (n - s - 1)
        OBVIOUS
      <3> QED BY <3>1
    <2>1. k = s * m + m + d * m /\ d * m \in Nat /\ s * m \in Nat
      OBVIOUS
    <2> QED BY <2>1
  <1>3. a \div k = p
    <2> PICK t \in Nat : t = s * m + r /\ t < k
      BY <1>2
    <2> QED BY <1>1, DivUnique
  <1> QED BY <1>3

(* A larger number has no smaller quotient.                                *)
LEMMA DivMonotone ==
  ASSUME NEW a \in Nat, NEW b \in Nat, a <= b, NEW n \in Nat \ {0}
  PROVE  a \div n <= b \div n
  <1> PICK p \in Nat, r \in Nat : a = p * n + r /\ r < n /\ p = a \div n
    BY DivParts
  <1> PICK q \in Nat, s \in Nat : b = q * n + s /\ s < n /\ q = b \div n
    BY DivParts
  <1> SUFFICES ASSUME q < p PROVE FALSE
    OBVIOUS
  <1> PICK d \in Nat : p = q + 1 + d
    <2>1. p - q - 1 \in Nat /\ p = q + 1 + (p - q - 1)
      OBVIOUS
    <2> QED BY <2>1
  <1>1. p * n = q * n + n + d * n /\ d * n \in Nat /\ q * n \in Nat
    OBVIOUS
  <1> QED BY <1>1

-----------------------------------------------------------------------------
(* Which entries an address goes through *)

(* The entries of a level, counted through all of its tables.              *)
Up(v, l) == v \div EntryRange[l]

(* The entry of the next level is that of the table an entry is in.        *)
LEMMA UpFacts ==
  ASSUME NEW v \in Nat
  PROVE  /\ Up(v, 1) = v
         /\ \A l \in Levels : Up(v, l) \in Nat /\ Index(v, l) = Up(v, l) % Entries
         /\ \A l \in 1 .. 3 : Up(v, l + 1) = Up(v, l) \div Entries
         /\ v < VirtPages => Up(v, 4) < Entries
  <1> PICK e \in Nat \ {0} : e = Entries
    BY TableAssumption
  <1> PICK e2 \in Nat \ {0} : e2 = e * e
    <2>1. e * e \in Nat \ {0}
      OBVIOUS
    <2> QED BY <2>1
  <1> PICK e3 \in Nat \ {0} : e3 = e * e2
    <2>1. e * e2 \in Nat \ {0}
      OBVIOUS
    <2> QED BY <2>1
  <1>1. EntryRange[1] = 1 /\ EntryRange[2] = e /\ EntryRange[3] = e2 /\ EntryRange[4] = e3
    <2>1. e * e * e = e * e2
      OBVIOUS
    <2> QED BY <2>1 DEF EntryRange
  <1>2. Up(v, 1) = v /\ Up(v, 2) = v \div e /\ Up(v, 3) = v \div e2 /\ Up(v, 4) = v \div e3
    <2>1. v \div 1 = v
      OBVIOUS
    <2> QED BY <1>1, <2>1 DEF Up
  <1>3. v \div e \in Nat /\ v \div e2 \in Nat /\ v \div e3 \in Nat
    OBVIOUS
  <1>4. \A l \in Levels : Up(v, l) \in Nat
    BY <1>2, <1>3 DEF Levels
  <1>5. v \div e2 = (v \div e) \div e
    BY DivTwice
  <1>6. v \div e3 = (v \div e2) \div e
    BY DivTwice
  <1>7. \A l \in 1 .. 3 : Up(v, l + 1) = Up(v, l) \div Entries
    <2>1. Up(v, 1 + 1) = Up(v, 1) \div Entries
      BY <1>2
    <2>2. Up(v, 2 + 1) = Up(v, 2) \div Entries
      BY <1>2, <1>5
    <2>3. Up(v, 3 + 1) = Up(v, 3) \div Entries
      BY <1>2, <1>6
    <2> QED BY <2>1, <2>2, <2>3
  <1>8. ASSUME v < VirtPages PROVE Up(v, 4) < Entries
    <2>1. VirtPages = e * e3
      BY <1>1 DEF VirtPages
    <2> PICK q \in Nat, r \in Nat : v = q * e3 + r /\ r < e3 /\ q = v \div e3
      BY DivParts
    <2>2. v < e * e3
      BY <1>8, <2>1
    <2> SUFFICES ASSUME q >= e PROVE FALSE
      BY <1>2
    <2> PICK d \in Nat : q = e + d
      <3>1. q - e \in Nat /\ q = e + (q - e)
        OBVIOUS
      <3> QED BY <3>1
    <2> PICK x \in Nat, y \in Nat : x = e * e3 /\ y = d * e3
      OBVIOUS
    <2>3. (e + d) * e3 = x + y
      OBVIOUS
    <2>4. q * e3 = x + y
      BY <2>3
    <2> QED BY <2>2, <2>4
  <1> QED BY <1>2, <1>4, <1>7, <1>8 DEF Index, Up

(* Addresses in one table of a level are in one table of every level above. *)
LEMMA UpSame ==
  ASSUME NEW v \in Nat, NEW w \in Nat, NEW l \in Levels, NEW k \in Levels, l <= k,
         Up(v, l) = Up(w, l)
  PROVE  Up(v, k) = Up(w, k) /\ Index(v, k) = Index(w, k)
  <1>1. \A i \in 1 .. 3 : Up(v, i) = Up(w, i) => Up(v, i + 1) = Up(w, i + 1)
    BY UpFacts
  <1>2. /\ Up(v, 1) = Up(w, 1) => Up(v, 2) = Up(w, 2)
        /\ Up(v, 2) = Up(w, 2) => Up(v, 3) = Up(w, 3)
        /\ Up(v, 3) = Up(w, 3) => Up(v, 4) = Up(w, 4)
    <2>1. Up(v, 1) = Up(w, 1) => Up(v, 1 + 1) = Up(w, 1 + 1)
      BY <1>1
    <2>2. Up(v, 2) = Up(w, 2) => Up(v, 2 + 1) = Up(w, 2 + 1)
      BY <1>1
    <2>3. Up(v, 3) = Up(w, 3) => Up(v, 3 + 1) = Up(w, 3 + 1)
      BY <1>1
    <2> QED BY <2>1, <2>2, <2>3
  <1>3. l \in {1, 2, 3, 4} /\ k \in {1, 2, 3, 4}
    BY DEF Levels
  <1>4. Up(v, k) = Up(w, k)
    BY <1>2, <1>3
  <1> QED BY <1>4, UpFacts

(* An entry and its table make the entry counted through all tables.       *)
LEMMA UpFromIndex ==
  ASSUME NEW v \in Nat, NEW w \in Nat, NEW l \in 1 .. 3,
         Up(v, l + 1) = Up(w, l + 1), Index(v, l) = Index(w, l)
  PROVE  Up(v, l) = Up(w, l)
  <1>0. l \in Levels
    BY DEF Levels
  <1> PICK a \in Nat : a = Up(v, l)
    BY <1>0, UpFacts
  <1> PICK b \in Nat : b = Up(w, l)
    BY <1>0, UpFacts
  <1> PICK e \in Nat \ {0} : e = Entries
    BY TableAssumption
  <1>1. a \div e = b \div e /\ a % e = b % e
    BY <1>0, UpFacts
  <1>2. a = (a \div e) * e + (a % e) /\ b = (b \div e) * e + (b % e)
    BY DivParts
  <1>3. a = b
    BY <1>1, <1>2
  <1> QED BY <1>3

(* The same for the level of the PML4, which has one table.                *)
LEMMA UpTop ==
  ASSUME NEW v \in 0 .. VirtPages - 1, NEW w \in 0 .. VirtPages - 1,
         Index(v, 4) = Index(w, 4)
  PROVE  Up(v, 4) = Up(w, 4)
  <1> PICK a \in Nat, b \in Nat, e \in Nat \ {0} :
         a = Up(v, 4) /\ b = Up(w, 4) /\ e = Entries /\ a < e /\ b < e
    BY UpFacts, TableAssumption, RangesPositive DEF Levels
  <1>1. a % e = a /\ b % e = b
    OBVIOUS
  <1>2. Index(v, 4) = a % e /\ Index(w, 4) = b % e
    BY UpFacts, RangesPositive DEF Levels
  <1> QED BY <1>1, <1>2

-----------------------------------------------------------------------------
(* The way through the tables that mm_pin_virtual_address() takes *)

Ent(m, t, v, l) == IF t \in Frames THEN m[t][Index(v, l)] ELSE Absent

T3(m, v) == Ent(m, Root, v, 4)
T2(m, v) == Ent(m, T3(m, v), v, 3)
T1(m, v) == Ent(m, T2(m, v), v, 2)

PathTable(m, v, l) == IF l = 4 THEN Root ELSE IF l = 3 THEN T3(m, v)
                      ELSE IF l = 2 THEN T2(m, v) ELSE T1(m, v)

Translate(m, v) ==
  LET pte == Ent(m, T1(m, v), v, 1)
  IN  IF pte = Absent THEN INVALID_PAGE_IDX ELSE pte

(* It is a function of the memory.                                         *)
LEMMA PinIs ==
  ASSUME NEW v
  PROVE  Pin(v) = Translate(mem, v) /\ Pin(v)' = Translate(mem', v)
  <1>1. Pin(v) = Translate(mem, v)
    BY DEF Pin, EntryAt, Translate, T1, T2, T3, Ent
  <1>2. Pin(v)' = Translate(mem', v)
    BY DEF Pin, EntryAt, Translate, T1, T2, T3, Ent
  <1> QED BY <1>1, <1>2

(* Every table on the way is one of its level, or there is none.           *)
LEMMA PathInTree ==
  ASSUME NEW m, NEW P, Tree(m, P), NEW v \in Nat
  PROVE  /\ T3(m, v) \in L3(m) \/ T3(m, v) = Absent
         /\ T2(m, v) \in L2(m) \/ T2(m, v) = Absent
         /\ T1(m, v) \in L1(m) \/ T1(m, v) = Absent
         /\ Absent \notin Frames /\ Root \in Frames
         /\ L3(m) \cup L2(m) \cup L1(m) \subseteq Frames
         /\ \A l \in Levels : Index(v, l) \in Slots
  <1>0. Absent \notin Frames /\ Root \in Frames
    BY TableAssumption DEF Absent
  <1>1. \A l \in Levels : Index(v, l) \in Slots
    BY IndexTyped
  <1>2. L3(m) \cup L2(m) \cup L1(m) \subseteq Frames
    BY DEF Tree
  <1>3. 2 \in Levels /\ 3 \in Levels /\ 4 \in Levels
    BY DEF Levels
  <1>4. T3(m, v) \in L3(m) \/ T3(m, v) = Absent
    BY <1>0, <1>1, <1>3 DEF T3, Ent, L3, Rows
  <1>5. T2(m, v) \in L2(m) \/ T2(m, v) = Absent
    BY <1>0, <1>1, <1>3, <1>4 DEF T2, Ent, L2, Rows
  <1>6. T1(m, v) \in L1(m) \/ T1(m, v) = Absent
    BY <1>0, <1>1, <1>3, <1>5 DEF T1, Ent, L1, Rows
  <1> QED BY <1>0, <1>1, <1>2, <1>4, <1>5, <1>6

(* Addresses in one table of a level go one way down to it.                *)
LEMMA PathSame ==
  ASSUME NEW m, NEW v \in Nat, NEW w \in Nat, NEW l \in Levels,
         l < 4 => Up(v, l + 1) = Up(w, l + 1)
  PROVE  PathTable(m, v, l) = PathTable(m, w, l)
  <1>1. \A k \in Levels : l < k => Index(v, k) = Index(w, k)
    <2> SUFFICES ASSUME NEW k \in Levels, l < k PROVE Index(v, k) = Index(w, k)
      OBVIOUS
    <2>1. l + 1 \in Levels /\ l + 1 <= k /\ l < 4
      BY DEF Levels
    <2> QED BY <2>1, UpSame
  <1>2. \/ l = 4
        \/ l = 3 /\ Index(v, 4) = Index(w, 4)
        \/ l = 2 /\ Index(v, 4) = Index(w, 4) /\ Index(v, 3) = Index(w, 3)
        \/ l = 1 /\ Index(v, 4) = Index(w, 4) /\ Index(v, 3) = Index(w, 3)
                 /\ Index(v, 2) = Index(w, 2)
    BY <1>1 DEF Levels
  <1> QED BY <1>2 DEF PathTable, T3, T2, T1, Ent

(* No two ways lead to one table.                                          *)
LEMMA PathUnique ==
  ASSUME NEW m, NEW P, Tree(m, P),
         NEW v \in 0 .. VirtPages - 1, NEW w \in 0 .. VirtPages - 1,
         NEW l \in 1 .. 3,
         PathTable(m, v, l) = PathTable(m, w, l), PathTable(m, v, l) # Absent
  PROVE  Up(v, l + 1) = Up(w, l + 1)
  <1>0. v \in Nat /\ w \in Nat
    BY RangesPositive
  <1>1. /\ \A s, t \in Upper(m) : \A i, j \in Slots :
             <<s, i>> # <<t, j>> /\ m[s][i] # Absent => m[s][i] # m[t][j]
        /\ Root \in Upper(m) /\ L3(m) \subseteq Upper(m) /\ L2(m) \subseteq Upper(m)
    BY DEF Tree, Upper
  <1>2. 2 \in Levels /\ 3 \in Levels /\ 4 \in Levels
    BY DEF Levels
  <1>3. T3(m, v) = T3(m, w) /\ T3(m, v) # Absent => Up(v, 4) = Up(w, 4)
    <2> SUFFICES ASSUME T3(m, v) = T3(m, w), T3(m, v) # Absent
                 PROVE  Index(v, 4) = Index(w, 4)
      BY UpTop
    <2>1. /\ Index(v, 4) \in Slots /\ Index(w, 4) \in Slots /\ Root \in Frames
          /\ m[Root][Index(v, 4)] = m[Root][Index(w, 4)]
          /\ m[Root][Index(v, 4)] # Absent
      BY <1>0, <1>2, PathInTree DEF T3, Ent
    <2> QED BY <1>1, <2>1
  <1>4. T2(m, v) = T2(m, w) /\ T2(m, v) # Absent => Up(v, 3) = Up(w, 3)
    <2> SUFFICES ASSUME T2(m, v) = T2(m, w), T2(m, v) # Absent
                 PROVE  Up(v, 3) = Up(w, 3)
      OBVIOUS
    <2>1. /\ T3(m, v) \in L3(m) /\ T3(m, w) \in L3(m)
          /\ Index(v, 3) \in Slots /\ Index(w, 3) \in Slots
          /\ m[T3(m, v)][Index(v, 3)] = m[T3(m, w)][Index(w, 3)]
          /\ m[T3(m, v)][Index(v, 3)] # Absent
      BY <1>0, <1>2, PathInTree DEF T2, Ent
    <2>2. T3(m, v) = T3(m, w) /\ Index(v, 3) = Index(w, 3)
      BY <1>1, <2>1
    <2>3. T3(m, v) # Absent
      BY <1>0, <2>1, PathInTree
    <2>4. Up(v, 3 + 1) = Up(w, 3 + 1)
      BY <1>3, <2>2, <2>3
    <2> QED BY <1>0, <2>2, <2>4, UpFromIndex
  <1>5. T1(m, v) = T1(m, w) /\ T1(m, v) # Absent => Up(v, 2) = Up(w, 2)
    <2> SUFFICES ASSUME T1(m, v) = T1(m, w), T1(m, v) # Absent
                 PROVE  Up(v, 2) = Up(w, 2)
      OBVIOUS
    <2>1. /\ T2(m, v) \in L2(m) /\ T2(m, w) \in L2(m)
          /\ Index(v, 2) \in Slots /\ Index(w, 2) \in Slots
          /\ m[T2(m, v)][Index(v, 2)] = m[T2(m, w)][Index(w, 2)]
          /\ m[T2(m, v)][Index(v, 2)] # Absent
      BY <1>0, <1>2, PathInTree DEF T1, Ent
    <2>2. T2(m, v) = T2(m, w) /\ Index(v, 2) = Index(w, 2)
      BY <1>1, <2>1
    <2>3. T2(m, v) # Absent
      BY <1>0, <2>1, PathInTree
    <2>4. Up(v, 2 + 1) = Up(w, 2 + 1)
      BY <1>4, <2>2, <2>3
    <2> QED BY <1>0, <2>2, <2>4, UpFromIndex
  <1>6. \/ l = 3 /\ PathTable(m, v, l) = T3(m, v) /\ PathTable(m, w, l) = T3(m, w)
        \/ l = 2 /\ PathTable(m, v, l) = T2(m, v) /\ PathTable(m, w, l) = T2(m, w)
        \/ l = 1 /\ PathTable(m, v, l) = T1(m, v) /\ PathTable(m, w, l) = T1(m, w)
    BY DEF PathTable
  <1> QED BY <1>3, <1>4, <1>5, <1>6

(* No two pages have one entry.                                            *)
LEMMA EntryOfOnePage ==
  ASSUME NEW m, NEW P, Tree(m, P),
         NEW v \in 0 .. VirtPages - 1, NEW w \in 0 .. VirtPages - 1,
         T1(m, v) = T1(m, w), T1(m, v) # Absent, Index(v, 1) = Index(w, 1)
  PROVE  v = w
  <1>0. v \in Nat /\ w \in Nat
    BY RangesPositive
  <1>1. PathTable(m, v, 1) = T1(m, v) /\ PathTable(m, w, 1) = T1(m, w)
    BY DEF PathTable
  <1>2. Up(v, 1 + 1) = Up(w, 1 + 1)
    BY <1>1, PathUnique
  <1>3. Up(v, 1) = Up(w, 1)
    BY <1>0, <1>2, UpFromIndex
  <1> QED BY <1>0, <1>3, UpFacts

(* What is written to no upper table changes no way, and what is written to *)
(* no table changes no translation.                                         *)
LEMMA PathsKept ==
  ASSUME NEW m, NEW n, NEW P, Tree(m, P), \A t \in Upper(m) : n[t] = m[t],
         NEW v \in Nat
  PROVE  /\ T3(n, v) = T3(m, v) /\ T2(n, v) = T2(m, v) /\ T1(n, v) = T1(m, v)
         /\ \A l : PathTable(n, v, l) = PathTable(m, v, l)
         /\ (\A t \in L1(m) : n[t] = m[t]) => Translate(n, v) = Translate(m, v)
  <1>1. Root \in Upper(m) /\ L3(m) \subseteq Upper(m) /\ L2(m) \subseteq Upper(m)
    BY DEF Upper
  <1>2. T3(n, v) = T3(m, v)
    BY <1>1 DEF T3, Ent
  <1>3. T2(n, v) = T2(m, v)
    BY <1>1, <1>2, PathInTree DEF T2, Ent
  <1>4. T1(n, v) = T1(m, v)
    BY <1>1, <1>3, PathInTree DEF T1, Ent
  <1>5. ASSUME \A t \in L1(m) : n[t] = m[t]
        PROVE  Ent(n, T1(n, v), v, 1) = Ent(m, T1(m, v), v, 1)
    BY <1>4, <1>5, PathInTree DEF Ent
  <1> QED BY <1>2, <1>3, <1>4, <1>5 DEF PathTable, Translate

(* A new, clean table extends ways that ended above it, and changes no      *)
(* translation.                                                             *)
LEMMA PathsGrown ==
  ASSUME NEW m, NEW n, NEW P, NEW Q, NEW f, NEW t0, NEW i0,
         Tree(m, P), Linked(m, n, P, Q, f, t0, i0), NEW v \in Nat
  PROVE  /\ \A l \in Levels : PathTable(m, v, l) # Absent =>
              PathTable(n, v, l) = PathTable(m, v, l)
         /\ Translate(n, v) = Translate(m, v)
  <1>0. /\ f \in Frames /\ f \in P
        /\ t0 \in Upper(m) /\ i0 \in Slots /\ m[t0][i0] = Absent /\ n[t0][i0] = f
        /\ \A i \in Slots : n[f][i] = Absent
        /\ \A i \in Slots \ {i0} : n[t0][i] = m[t0][i]
        /\ \A t \in Frames \ {f, t0} : n[t] = m[t]
    BY DEF Linked
  <1>1. /\ f \notin Upper(m) \cup L1(m) /\ Root \notin L3(m) \cup L2(m) \cup L1(m)
        /\ Upper(m) \subseteq Frames /\ L1(m) \subseteq Frames
        /\ Upper(m) \cap L1(m) = {} /\ f # Absent /\ Absent \notin Frames
    BY <1>0, TableAssumption DEF Tree, Upper, Linked, Absent
  <1>2. /\ T3(m, v) \in L3(m) \/ T3(m, v) = Absent
        /\ T2(m, v) \in L2(m) \/ T2(m, v) = Absent
        /\ T1(m, v) \in L1(m) \/ T1(m, v) = Absent
        /\ Root \in Upper(m) /\ L3(m) \subseteq Upper(m) /\ L2(m) \subseteq Upper(m)
        /\ \A l \in Levels : Index(v, l) \in Slots
    BY PathInTree DEF Upper
  <1>3. 1 \in Levels /\ 2 \in Levels /\ 3 \in Levels /\ 4 \in Levels
    BY DEF Levels
  <1>4. ASSUME NEW t \in Upper(m) \cup {Absent}, NEW l \in Levels
        PROVE  \/ Ent(n, t, v, l) = Ent(m, t, v, l)
               \/ Ent(m, t, v, l) = Absent /\ Ent(n, t, v, l) = f
    BY <1>0, <1>1, <1>2, <1>4 DEF Ent
  <1>5. ASSUME NEW l \in Levels
        PROVE  Ent(n, f, v, l) = Absent /\ Ent(n, Absent, v, l) = Absent
               /\ Ent(m, Absent, v, l) = Absent
    BY <1>0, <1>1, <1>2, <1>5 DEF Ent
  <1>6. \/ T3(n, v) = T3(m, v)
        \/ T3(m, v) = Absent /\ T3(n, v) = f
    BY <1>2, <1>3, <1>4 DEF T3
  <1>7. \/ T2(n, v) = T2(m, v)
        \/ T2(m, v) = Absent /\ T2(n, v) = f
    <2>1. CASE T3(n, v) = T3(m, v)
      BY <1>2, <1>3, <1>4, <2>1 DEF T2
    <2>2. CASE T3(m, v) = Absent /\ T3(n, v) = f
      BY <1>3, <1>5, <2>2 DEF T2
    <2> QED BY <1>6, <2>1, <2>2
  <1>8. \/ T1(n, v) = T1(m, v)
        \/ T1(m, v) = Absent /\ T1(n, v) = f
    <2>1. CASE T2(n, v) = T2(m, v)
      BY <1>2, <1>3, <1>4, <2>1 DEF T1
    <2>2. CASE T2(m, v) = Absent /\ T2(n, v) = f
      BY <1>3, <1>5, <2>2 DEF T1
    <2> QED BY <1>7, <2>1, <2>2
  <1>9. Ent(n, T1(n, v), v, 1) = Ent(m, T1(m, v), v, 1)
    <2>1. CASE T1(n, v) = T1(m, v)
      <3>1. CASE T1(m, v) = Absent
        BY <1>3, <1>5, <2>1, <3>1
      <3>2. CASE T1(m, v) \in L1(m)
        <4>1. n[T1(m, v)] = m[T1(m, v)]
          BY <1>0, <1>1, <3>2
        <4> QED BY <2>1, <4>1 DEF Ent
      <3> QED BY <1>2, <3>1, <3>2
    <2>2. CASE T1(m, v) = Absent /\ T1(n, v) = f
      BY <1>3, <1>5, <2>2
    <2> QED BY <1>8, <2>1, <2>2
  <1>10. \A l \in Levels : PathTable(m, v, l) # Absent =>
            PathTable(n, v, l) = PathTable(m, v, l)
    BY <1>6, <1>7, <1>8 DEF PathTable
  <1> QED BY <1>9, <1>10 DEF Translate

(* From m to n the entry i of the table t is set to x.                     *)
Written(m, n, t, i, x) ==
  /\ n[t][i] = x
  /\ \A j \in Slots \ {i} : n[t][j] = m[t][j]
  /\ \A s \in Frames \ {t} : n[s] = m[s]

(* An assignment to an entry does that.                                    *)
LEMMA EntryWritten ==
  ASSUME NEW m \in [Frames -> [Slots -> Int]], NEW t \in Frames, NEW i \in Slots, NEW x
  PROVE  Written(m, [m EXCEPT ![t][i] = x], t, i, x)
  <1> PICK n : n = [m EXCEPT ![t] = [m[t] EXCEPT ![i] = x]]
    OBVIOUS
  <1>1. n[t] = [m[t] EXCEPT ![i] = x] /\ \A s \in Frames \ {t} : n[s] = m[s]
    OBVIOUS
  <1>2. m[t] \in [Slots -> Int]
    OBVIOUS
  <1>3. n[t][i] = x /\ \A j \in Slots \ {i} : n[t][j] = m[t][j]
    BY <1>1, <1>2
  <1>4. n = [m EXCEPT ![t][i] = x]
    OBVIOUS
  <1> QED BY <1>1, <1>3, <1>4 DEF Written

(* A write to the entry of a page changes the translation of that page.     *)
LEMMA PathWritten ==
  ASSUME NEW m, NEW n, NEW P, Tree(m, P),
         NEW u \in 0 .. VirtPages - 1, NEW frame \in Int,
         T1(m, u) \in L1(m), Written(m, n, T1(m, u), Index(u, 1), frame),
         NEW v \in 0 .. VirtPages - 1
  PROVE  Translate(n, v) = IF v # u THEN Translate(m, v)
                           ELSE IF frame = Absent THEN INVALID_PAGE_IDX ELSE frame
  <1>0. u \in Nat /\ v \in Nat /\ 1 \in Levels
    BY RangesPositive DEF Levels
  <1> PICK t \in Frames, i \in Slots : t = T1(m, u) /\ i = Index(u, 1) /\ t \in L1(m)
    BY <1>0, PathInTree
  <1>1. /\ \A s \in Frames \ {t} : n[s] = m[s]
        /\ \A j \in Slots \ {i} : n[t][j] = m[t][j]
        /\ n[t][i] = frame
    BY DEF Written
  <1>2. Upper(m) \subseteq Frames \ {t}
    BY TableAssumption DEF Tree, Upper
  <1>3. T1(n, v) = T1(m, v)
    <2>1. \A s \in Upper(m) : n[s] = m[s]
      BY <1>1, <1>2
    <2> QED BY <1>0, <2>1, PathsKept
  <1>4. /\ T1(m, v) \in Frames \/ T1(m, v) = Absent
        /\ Absent \notin Frames /\ Index(v, 1) \in Slots
    BY <1>0, PathInTree
  <1>5. CASE v = u
    BY <1>1, <1>3, <1>5 DEF Translate, Ent
  <1>6. CASE v # u
    <2>1. T1(m, v) # t \/ Index(v, 1) # i
      BY <1>4, <1>6, EntryOfOnePage
    <2>2. Ent(n, T1(m, v), v, 1) = Ent(m, T1(m, v), v, 1)
      BY <1>1, <1>4, <2>1 DEF Ent
    <2> QED BY <1>3, <1>6, <2>2 DEF Translate
  <1> QED BY <1>5, <1>6

-----------------------------------------------------------------------------
(* The ends of the ranges of entries *)

(* An address of the space is not wrapped.                                 *)
LEMMA WrapSmall == \A a \in Nat : a < VirtPages => Wrap(a) = a
  <1> PICK n \in Nat \ {0} : n = VirtPages
    BY RangesPositive
  <1>1. \A a \in Nat : a < n => a % n = a
    OBVIOUS
  <1> QED BY <1>1 DEF Wrap

(* The range of an entry of level three is not below that of one of two.   *)
LEMMA RangesGrow == EntryRange[2] <= EntryRange[3] /\ EntryRange[3] < VirtPages
  <1> PICK e \in Nat \ {0, 1} : e = Entries
    BY TableAssumption
  <1>1. EntryRange[2] = e /\ EntryRange[3] = e * e /\ VirtPages = e * (e * e * e)
    BY DEF EntryRange, VirtPages
  <1> PICK d \in Nat : e = d + 2
    <2>1. e - 2 \in Nat /\ e = (e - 2) + 2
      OBVIOUS
    <2> QED BY <2>1
  <1> PICK s \in Nat \ {0} : s = e * e
    <2>1. e * e \in Nat \ {0}
      OBVIOUS
    <2> QED BY <2>1
  <1>2. s = d * e + 2 * e /\ d * e \in Nat
    OBVIOUS
  <1> PICK t \in Nat \ {0} : t = s * e
    <2>1. s * e \in Nat \ {0}
      OBVIOUS
    <2> QED BY <2>1
  <1>3. t = s * d + 2 * s /\ s * d \in Nat
    OBVIOUS
  <1>4. e * t = d * t + 2 * t /\ d * t \in Nat
    OBVIOUS
  <1>5. e <= s /\ s < t /\ t < e * t
    BY <1>2, <1>3, <1>4
  <1> QED BY <1>1, <1>5

(* Below the last entry of its level an address has a boundary above it:   *)
(* the first address of the next entry.                                    *)
LEMMA BoundaryIsNext ==
  ASSUME NEW u \in Nat, NEW l \in Levels, u + EntryRange[l] < VirtPages
  PROVE  /\ NextBoundary(u, l) \in Nat /\ u < NextBoundary(u, l)
         /\ Up(NextBoundary(u, l), l) = Up(u, l) + 1
         /\ \A w \in Nat : u <= w /\ w < NextBoundary(u, l) => Up(w, l) = Up(u, l)
  <1> PICK r \in Nat \ {0} : r = EntryRange[l]
    BY RangesPositive
  <1> PICK a \in Nat, s \in Nat : u = a * r + s /\ s < r /\ a = u \div r
    BY DivParts
  <1>0. \A q, t \in Nat : t < r => (q * r + t) \div r = q
    BY DivUnique
  <1> PICK x \in Nat : x = a * r
    OBVIOUS
  <1> PICK c \in Nat : c = a + 1
    OBVIOUS
  <1>1. c * r = x + r
    OBVIOUS
  <1>2. Wrap(u + r) = u + r
    BY WrapSmall
  <1>3. (u + r) \div r = c
    <2>1. (c * r + s) \div r = c
      BY <1>0
    <2>2. u + r = c * r + s
      BY <1>1
    <2> QED BY <2>1, <2>2
  <1>4. NextBoundary(u, l) = x + r
    BY <1>1, <1>2, <1>3 DEF NextBoundary
  <1>5. (x + r) \div r = c
    <2>1. (c * r + 0) \div r = c
      BY <1>0
    <2>2. x + r = c * r + 0
      BY <1>1
    <2> QED BY <2>1, <2>2
  <1>6. ASSUME NEW w \in Nat, u <= w, w < x + r
        PROVE  w \div r = a
    <2> PICK t \in Nat : t = w - x /\ t < r
      <3>1. w - x \in Nat /\ w - x < r
        BY <1>6
      <3> QED BY <3>1
    <2>1. (a * r + t) \div r = a
      BY <1>0
    <2>2. w = a * r + t
      OBVIOUS
    <2> QED BY <2>1, <2>2
  <1>7. Up(u, l) = a /\ Up(x + r, l) = c
    BY <1>5 DEF Up
  <1>8. \A w \in Nat : u <= w /\ w < x + r => Up(w, l) = a
    BY <1>6 DEF Up
  <1>9. x + r \in Nat /\ u < x + r
    OBVIOUS
  <1> QED BY <1>4, <1>7, <1>8, <1>9

(* What lies between two addresses below one entry lies below it.          *)
LEMMA UpBetween ==
  ASSUME NEW u \in Nat, NEW w \in Nat, NEW x \in Nat, NEW l \in Levels,
         u <= w, w <= x
  PROVE  /\ Up(u, l) <= Up(w, l) /\ Up(w, l) <= Up(x, l)
         /\ Up(u, l) = Up(x, l) => Up(w, l) = Up(u, l)
  <1>1. Up(u, l) \in Nat /\ Up(w, l) \in Nat /\ Up(x, l) \in Nat
    BY UpFacts
  <1>2. Up(u, l) <= Up(w, l) /\ Up(w, l) <= Up(x, l)
    BY DivMonotone, RangesPositive DEF Up
  <1> QED BY <1>1, <1>2

(* The next entry is the next slot, unless it is in another table.         *)
LEMMA NextSlot ==
  ASSUME NEW u \in Nat, NEW w \in Nat, NEW l \in 1 .. 3,
         Up(w, l) = Up(u, l) + 1, Up(w, l + 1) = Up(u, l + 1)
  PROVE  Index(w, l) = Index(u, l) + 1
  <1>0. l \in Levels
    BY DEF Levels
  <1> PICK a \in Nat : a = Up(u, l)
    BY <1>0, UpFacts
  <1> PICK b \in Nat : b = Up(w, l)
    BY <1>0, UpFacts
  <1> PICK e \in Nat \ {0} : e = Entries
    BY TableAssumption
  <1>1. a \div e = b \div e /\ b = a + 1
    BY <1>0, UpFacts
  <1> PICK q \in Nat : q = a \div e
    BY DivParts
  <1>2. a = q * e + (a % e) /\ b = q * e + (b % e) /\ q * e \in Nat
    <2>1. a = (a \div e) * e + (a % e)
      BY DivParts
    <2>2. b = (b \div e) * e + (b % e)
      BY DivParts
    <2>3. b \div e = q
      BY <1>1
    <2>4. b = q * e + (b % e)
      BY <2>2, <2>3
    <2>5. a = q * e + (a % e)
      BY <2>1
    <2>6. q * e \in Nat
      OBVIOUS
    <2> QED BY <2>4, <2>5, <2>6
  <1>3. b % e = (a % e) + 1
    BY <1>1, <1>2
  <1> QED BY <1>0, <1>3, UpFacts

-----------------------------------------------------------------------------
(* Where the walk is *)

(* What the kernel asks for: pages below one entry of the PML4 and below   *)
(* the last range of level three.  The walk of another request loses its   *)
(* place.                                                                  *)
Fits(v, n) == /\ n > 0
              /\ v + n <= VirtPages - EntryRange[3]
              /\ Up(v + n - 1, 4) = Up(v, 4)

(* A range function that works on the pages from a up to b: the page its   *)
(* loop is at and the end of its range; while the loop runs, it has the    *)
(* entry of that page in the table on the way to it, which the page before *)
(* its end goes through as well.                                           *)
OnPath(m, a, b, r) ==
  /\ a <= r.virt /\ r.virt <= r.end /\ r.end <= b
  /\ r.more <=> r.virt < r.end
  /\ r.level > 1 => r.length = r.end - r.virt
  /\ r.more => /\ r.table = PathTable(m, r.virt, r.level)
               /\ r.index = Index(r.virt, r.level)
               /\ \A k \in Levels : k > r.level \/ k = 4 =>
                    Up(r.end - 1, k) = Up(r.virt, k)

(* One range function of each level, each called for the pages up to where *)
(* its caller goes on.                                                     *)
WalkOnPath(m, w, a, b) ==
  /\ \A i \in 1 .. Len(w) : w[i].level = 5 - i /\ OnPath(m, a, b, w[i])
  /\ \A i \in 1 .. Len(w) - 1 : w[i + 1].end = w[i].virt
  /\ w # <<>> => w[1].end = b

PathInv ==
  /\ ret = "running" <=> walk # <<>>
  /\ walk # <<>> => /\ Fits(req.virt, req.num)
                    /\ WalkOnPath(mem, walk, req.virt, req.virt + req.num)

(* to_addr is the end of what the entry covers, or the end of the range;   *)
(* if the loop goes on, then at the next slot of the same table.           *)
LEMMA ToAddrFacts ==
  ASSUME NEW m, NEW a \in Nat, NEW b \in Nat, b <= VirtPages - EntryRange[3],
         walk # <<>>, Top \in Record, OnPath(m, a, b, Top), Top.more,
         Top.level \in {2, 3, 4}
  PROVE  /\ ToAddr \in Nat /\ Top.virt < ToAddr /\ ToAddr <= Top.end
         /\ \A k \in Levels : k >= Top.level => Up(ToAddr - 1, k) = Up(Top.virt, k)
         /\ Top.level = 4 => ToAddr = Top.end
         /\ ToAddr < Top.end =>
              /\ \A k \in Levels : k > Top.level => Up(ToAddr, k) = Up(Top.virt, k)
              /\ Index(ToAddr, Top.level) = Index(Top.virt, Top.level) + 1
  <1> PICK u \in Nat, e \in Nat, l \in {2, 3, 4} :
         u = Top.virt /\ e = Top.end /\ l = Top.level
    BY RangesPositive DEF Record
  <1> PICK n \in Nat \ {0} : n = VirtPages
    BY RangesPositive
  <1>0. l \in Levels
    BY DEF Levels
  <1>1. u < e /\ e <= b /\ e < n /\ u < n
    <2>1. u < e /\ e <= b
      BY DEF OnPath
    <2>2. EntryRange[3] \in Nat \ {0}
      BY RangesPositive DEF Levels
    <2> QED BY <2>1, <2>2
  <1>2. \A k \in Levels : k > l \/ k = 4 => Up(e - 1, k) = Up(u, k)
    BY DEF OnPath
  <1>3. Wrap(Top.virt + Top.length) = e
    <2>1. Top.length = e - u
      BY DEF OnPath
    <2>2. Top.virt + Top.length = e
      BY <2>1
    <2> QED BY <1>1, <2>2, WrapSmall
  <1> DEFINE c == NextBoundary(u, l)
  <1>4. ToAddr = IF e > c /\ (l = 4 => u < n - EntryRange[4]) THEN c ELSE e
    BY <1>3 DEF ToAddr
  <1>5. u + EntryRange[l] < n =>
          /\ c \in Nat /\ u < c
          /\ Up(c, l) = Up(u, l) + 1
          /\ \A w \in Nat : u <= w /\ w < c => Up(w, l) = Up(u, l)
    BY <1>0, BoundaryIsNext
  <1>6. l # 4 => u + EntryRange[l] < n
    <2>1. l # 4 => EntryRange[l] <= EntryRange[3]
      <3>1. EntryRange[3] \in Nat
        BY RangesPositive DEF Levels
      <3> QED BY <3>1, RangesGrow
    <2>2. EntryRange[3] \in Nat /\ EntryRange[l] \in Nat
      BY <1>0, RangesPositive DEF Levels
    <2> PICK r \in Nat, x \in Nat : r = EntryRange[3] /\ x = EntryRange[l]
      BY ONLY <2>2
    <2>3. u \in Nat /\ e \in Nat /\ n \in Nat /\ u < e /\ e <= b /\ b <= n - r
      BY <1>1
    <2>4. u + r < n
      BY ONLY <2>3, b \in Nat, r \in Nat
    <2>5. l # 4 => x <= r
      BY <2>1
    <2>6. l # 4 => u + x < n
      BY ONLY <2>3, <2>4, <2>5, x \in Nat, r \in Nat
    <2> QED BY <2>6
  <1> HIDE DEF c
  <1>7. e - 1 \in Nat /\ u <= e - 1
    BY <1>1
  <1>8. l = 4 => ToAddr = e
    <2> SUFFICES ASSUME l = 4, e > c, u < n - EntryRange[4] PROVE FALSE
      BY <1>4
    <2>1. EntryRange[4] \in Nat
      BY RangesPositive DEF Levels
    <2>2. /\ c \in Nat /\ u < c /\ Up(c, 4) = Up(u, 4) + 1
      BY <1>5, <2>1
    <2>3. Up(c, 4) <= Up(e - 1, 4)
      BY <1>0, <1>7, <2>2, UpBetween
    <2>4. Up(e - 1, 4) = Up(u, 4) /\ Up(u, 4) \in Nat
      BY <1>0, <1>2, UpFacts
    <2> QED BY <2>2, <2>3, <2>4
  <1> PICK t : t = ToAddr
    OBVIOUS
  <1>9. t \in Nat /\ u < t /\ t <= e
    BY <1>1, <1>4, <1>5, <1>6, <1>8
  <1>10. Up(t - 1, l) = Up(u, l)
    <2>1. t - 1 \in Nat /\ u <= t - 1
      BY <1>9
    <2>2. CASE l = 4
      BY <1>2, <1>8, <2>2, <1>0
    <2>3. CASE l # 4
      <3>1. t <= c
        BY <1>4, <1>5, <1>6, <1>9, <2>3
      <3>2. t - 1 < c
        BY <1>5, <1>6, <1>9, <2>3, <3>1
      <3> QED BY <1>5, <1>6, <2>1, <2>3, <3>2
    <2> QED BY <2>2, <2>3
  <1>11. \A k \in Levels : k >= l => Up(t - 1, k) = Up(u, k)
    <2>1. t - 1 \in Nat
      BY <1>9
    <2> QED BY <1>0, <1>10, <2>1, UpSame
  <1>12. ASSUME t < e
         PROVE  /\ \A k \in Levels : k > l => Up(t, k) = Up(u, k)
                /\ Index(t, l) = Index(u, l) + 1
    <2>1. l # 4 /\ t = c
      BY <1>4, <1>8, <1>12
    <2>2. Up(t, l) = Up(u, l) + 1
      BY <1>5, <1>6, <2>1
    <2>3. ASSUME NEW k \in Levels, k > l PROVE Up(t, k) = Up(u, k)
      <3>1. Up(e - 1, k) = Up(u, k)
        BY <1>2, <2>3
      <3>2. t <= e - 1 /\ u <= t
        BY <1>7, <1>9, <1>12
      <3> QED BY <1>7, <1>9, <3>1, <3>2, UpBetween
    <2>4. l \in 1 .. 3 /\ l + 1 \in Levels /\ l + 1 > l
      BY <2>1 DEF Levels
    <2>5. Up(t, l + 1) = Up(u, l + 1)
      BY <2>3, <2>4
    <2>6. Index(t, l) = Index(u, l) + 1
      BY <1>9, <2>2, <2>4, <2>5, NextSlot
    <2> QED BY <2>3, <2>6
  <1> QED BY <1>8, <1>9, <1>11, <1>12

(* A change of memory that keeps the ways to the tables of the walk keeps  *)
(* the walk on them.                                                       *)
LEMMA OnPathIn ==
  ASSUME NEW m, NEW n, NEW a \in Nat, NEW b \in Nat, NEW r \in Record, OnPath(m, a, b, r),
         PathTable(m, r.virt, r.level) # Absent =>
           PathTable(n, r.virt, r.level) = PathTable(m, r.virt, r.level)
  PROVE  OnPath(n, a, b, r)
  <1>1. r.table \in Frames /\ Absent \notin Frames
    BY TableAssumption DEF Record, Absent
  <1>2. r.more => PathTable(n, r.virt, r.level) = PathTable(m, r.virt, r.level)
    BY <1>1 DEF OnPath
  <1> QED BY <1>2 DEF OnPath

(* An iteration replaces the innermost record by one with the same end.    *)
LEMMA SetTopPath ==
  ASSUME NEW m, NEW n, NEW w \in Seq(Record), NEW a, NEW b, w # <<>>,
         WalkOnPath(m, w, a, b), NEW r \in Record,
         r.level = w[Len(w)].level, r.end = w[Len(w)].end, OnPath(n, a, b, r),
         \A i \in 1 .. Len(w) - 1 : OnPath(n, a, b, w[i])
  PROVE  LET v == [w EXCEPT ![Len(w)] = r]
         IN  /\ WalkOnPath(n, v, a, b) /\ v \in Seq(Record)
             /\ Len(v) = Len(w) /\ v[Len(w)] = r
  <1> PICK k \in Nat \ {0} : k = Len(w) /\ DOMAIN w = 1 .. k
    OBVIOUS
  <1> DEFINE v == [w EXCEPT ![k] = r]
  <1>1. /\ v \in Seq(Record) /\ Len(v) = k
        /\ \A i \in 1 .. k : v[i] = IF i = k THEN r ELSE w[i]
    <2>1. k \in DOMAIN w
      OBVIOUS
    <2> QED BY <2>1
  <1> HIDE DEF v
  <1>2. /\ \A i \in 1 .. k : w[i].level = 5 - i
        /\ \A i \in 1 .. k - 1 : w[i + 1].end = w[i].virt
        /\ w[1].end = b
    BY DEF WalkOnPath
  <1>3. ASSUME NEW i \in 1 .. k PROVE v[i].level = 5 - i /\ OnPath(n, a, b, v[i])
    <2>1. CASE i = k
      BY <1>1, <1>2, <2>1
    <2>2. CASE i # k
      <3>1. i \in 1 .. k - 1 /\ v[i] = w[i]
        BY <1>1, <2>2
      <3> QED BY <1>2, <3>1
    <2> QED BY <2>1, <2>2
  <1>4. \A i \in 1 .. k : v[i].end = w[i].end
    BY <1>1
  <1>5. ASSUME NEW i \in 1 .. k - 1 PROVE v[i + 1].end = v[i].virt
    <2>1. i + 1 \in 1 .. k /\ i \in 1 .. k /\ i # k
      OBVIOUS
    <2>2. v[i] = w[i] /\ v[i + 1].end = w[i + 1].end
      BY <1>1, <1>4, <2>1
    <2> QED BY <1>2, <2>2
  <1>6. v[1].end = b
    BY <1>2, <1>4
  <1>7. WalkOnPath(n, v, a, b)
    BY <1>1, <1>3, <1>5, <1>6 DEF WalkOnPath
  <1> QED BY <1>1, <1>7 DEF v

(* A call is for the pages that its caller counts as done.                 *)
LEMMA CallPath ==
  ASSUME NEW m, NEW w \in Seq(Record), NEW a, NEW b, w # <<>>,
         WalkOnPath(m, w, a, b), NEW r \in Record,
         r.level = w[Len(w)].level - 1, r.end = w[Len(w)].virt, OnPath(m, a, b, r)
  PROVE  WalkOnPath(m, Append(w, r), a, b)
  <1> PICK k \in Nat \ {0} : k = Len(w)
    OBVIOUS
  <1> PICK v : v = Append(w, r)
    OBVIOUS
  <1>1. Len(v) = k + 1 /\ v[k + 1] = r /\ \A i \in 1 .. k : v[i] = w[i]
    OBVIOUS
  <1>2. /\ \A i \in 1 .. k : w[i].level = 5 - i /\ OnPath(m, a, b, w[i])
        /\ \A i \in 1 .. k - 1 : w[i + 1].end = w[i].virt
        /\ w[1].end = b
    BY DEF WalkOnPath
  <1>3. ASSUME NEW i \in 1 .. k + 1 PROVE v[i].level = 5 - i /\ OnPath(m, a, b, v[i])
    <2>1. CASE i = k + 1
      BY <1>1, <1>2, <2>1
    <2>2. CASE i # k + 1
      <3>1. i \in 1 .. k
        BY <2>2
      <3> QED BY <1>1, <1>2, <3>1
    <2> QED BY <2>1, <2>2
  <1>4. ASSUME NEW i \in 1 .. k PROVE v[i + 1].end = v[i].virt
    <2>1. CASE i = k
      BY <1>1, <2>1
    <2>2. CASE i # k
      <3>1. i \in 1 .. k - 1 /\ i + 1 \in 1 .. k
        BY <2>2
      <3> QED BY <1>1, <1>2, <3>1
    <2> QED BY <2>1, <2>2
  <1>5. v[1].end = b
    BY <1>1, <1>2
  <1> QED BY <1>1, <1>3, <1>4, <1>5 DEF WalkOnPath

(* What is known of the innermost record.                                  *)
LEMMA TopOnPath ==
  ASSUME TablesInv, PathInv, walk # <<>>
  PROVE  /\ ret = "running"
         /\ req.virt \in Nat /\ req.virt + req.num \in Nat /\ req.num \in Nat \ {0}
         /\ req.virt + req.num <= VirtPages - EntryRange[3]
         /\ req.virt + req.num < VirtPages
         /\ Fits(req.virt, req.num)
         /\ WalkOnPath(mem, walk, req.virt, req.virt + req.num)
         /\ Top \in Record /\ walk \in Seq(Record) /\ Len(walk) \in 1 .. 4
         /\ Top.level = 5 - Len(walk)
         /\ OnPath(mem, req.virt, req.virt + req.num, Top)
         /\ Len(walk) = 1 => Top.end = req.virt + req.num
         /\ Top.virt \in Nat /\ Top.end \in Nat
         /\ Top.end < VirtPages
  <1>1. /\ Top \in Record /\ Len(walk) \in Nat \ {0} /\ walk \in Seq(Record)
    BY TopFacts
  <1>2. req.virt \in Nat /\ req.num \in Nat
    BY RangesPositive DEF TablesInv, PageTableTypeOK
  <1>3. Fits(req.virt, req.num) /\ WalkOnPath(mem, walk, req.virt, req.virt + req.num)
    BY DEF PathInv
  <1>4. req.num > 0 /\ req.virt + req.num <= VirtPages - EntryRange[3]
    BY <1>3 DEF Fits
  <1>5. EntryRange[3] \in Nat \ {0}
    BY RangesPositive DEF Levels
  <1>6. /\ Top.level = 5 - Len(walk)
        /\ OnPath(mem, req.virt, req.virt + req.num, Top)
        /\ Len(walk) = 1 => Top.end = req.virt + req.num
    BY <1>1, <1>3 DEF WalkOnPath, Top
  <1>7. Len(walk) \in 1 .. 4
    <2>1. Top.level \in 1 .. 4
      BY <1>1 DEF Record, Levels
    <2> PICK k \in Nat \ {0} : k = Len(walk)
      BY <1>1
    <2>2. 5 - k \in 1 .. 4
      BY <1>6, <2>1
    <2> QED BY <2>2
  <1>8. ret = "running"
    BY DEF PathInv
  <1>9. Top.virt \in Nat /\ Top.end \in Nat
    BY <1>1, RangesPositive DEF Record
  <1>10. Top.end <= req.virt + req.num
    BY <1>6 DEF OnPath
  <1>11. req.virt + req.num < VirtPages
    BY <1>2, <1>4, <1>5, RangesPositive
  <1>12. Top.end < VirtPages
    BY <1>2, <1>9, <1>10, <1>11, RangesPositive
  <1> QED BY <1>1, <1>2, <1>3, <1>4, <1>6, <1>7, <1>8, <1>9, <1>11, <1>12

-----------------------------------------------------------------------------
(* The steps of the walk keep to the path *)

(* A new table for an entry on the way changes no translation.             *)
LEMMA PopulatePath ==
  ASSUME TablesInv, PathInv, Populate
  PROVE  /\ PathInv'
         /\ \A v \in Nat : Translate(mem', v) = Translate(mem, v)
  <1>1. Linked(mem, mem', ToSet(pool), ToSet(pool'), Head(pool), Top.table, Top.index)
    BY PopulateInv
  <1>2. Tree(mem, ToSet(pool))
    BY TreeIs DEF TablesInv
  <1>3. walk # <<>> /\ walk' = walk /\ req' = req /\ ret' = ret
    BY DEF Populate, AtEntry, callVars
  <1> DEFINE a == req.virt
             b == req.virt + req.num
  <1>4. a \in Nat /\ b \in Nat /\ WalkOnPath(mem, walk, a, b) /\ walk \in Seq(Record)
    BY <1>3, TopOnPath
  <1>5. \A v \in Nat :
          /\ \A l \in Levels : PathTable(mem, v, l) # Absent =>
               PathTable(mem', v, l) = PathTable(mem, v, l)
          /\ Translate(mem', v) = Translate(mem, v)
    BY <1>1, <1>2, PathsGrown
  <1> HIDE DEF a, b
  <1>6. ASSUME NEW i \in 1 .. Len(walk) PROVE OnPath(mem', a, b, walk[i])
    <2>1. walk[i] \in Record /\ OnPath(mem, a, b, walk[i])
      BY <1>4 DEF WalkOnPath
    <2>2. walk[i].virt \in Nat /\ walk[i].level \in Levels
      BY <2>1, RangesPositive DEF Record
    <2> QED BY <1>4, <1>5, <2>1, <2>2, OnPathIn
  <1>7. WalkOnPath(mem', walk, a, b)
    BY <1>4, <1>6 DEF WalkOnPath
  <1> QED BY <1>3, <1>5, <1>7 DEF PathInv, a, b

(* The next range function has the table of the page its caller is at, and *)
(* the caller goes on at the entry of the page after its end.              *)
LEMMA DescendPath ==
  ASSUME TablesInv, PathInv, Descend
  PROVE  /\ PathInv'
         /\ Top'.virt = Top.virt
  <1>1. /\ walk # <<>> /\ Top.level \in {2, 3, 4} /\ Top.more /\ Entry # Absent
        /\ walk' = Append(SetTop(Advance(ToAddr)),
                          Enter(Top.level - 1, Entry, Top.virt, ToAddr))
        /\ mem' = mem /\ req' = req /\ ret' = ret /\ InTable
    BY DEF Descend, AtEntry
  <1> PICK a \in Nat, b \in Nat : a = req.virt /\ b = req.virt + req.num
    BY <1>1, TopOnPath
  <1> PICK n \in Nat \ {0} : n = VirtPages
    BY RangesPositive
  <1> PICK top \in Record : top = Top
    BY <1>1, TopOnPath
  <1> PICK u \in Nat, e \in Nat, l \in {2, 3, 4} :
         u = top.virt /\ e = top.end /\ l = top.level /\ e < n
    BY <1>1, TopOnPath
  <1>2. /\ b <= VirtPages - EntryRange[3] /\ WalkOnPath(mem, walk, a, b)
        /\ walk \in Seq(Record) /\ OnPath(mem, a, b, top)
        /\ a <= u /\ u < e /\ e <= b /\ l \in Levels
    <2>1. /\ b <= VirtPages - EntryRange[3] /\ WalkOnPath(mem, walk, a, b)
          /\ walk \in Seq(Record) /\ OnPath(mem, a, b, top)
      BY <1>1, TopOnPath
    <2>2. a <= u /\ u < e /\ e <= b
      BY <1>1, <2>1 DEF OnPath
    <2> QED BY <2>1, <2>2 DEF Levels
  <1> PICK t : t = ToAddr
    OBVIOUS
  <1>3. /\ t \in Nat /\ u < t /\ t <= e
        /\ \A k \in Levels : k >= l => Up(t - 1, k) = Up(u, k)
        /\ l = 4 => t = e
        /\ t < e => /\ \A k \in Levels : k > l => Up(t, k) = Up(u, k)
                    /\ Index(t, l) = Index(u, l) + 1
    BY <1>1, <1>2, ToAddrFacts
  <1>4. /\ top.length = e - u /\ top.table = PathTable(mem, u, l)
        /\ top.index = Index(u, l)
        /\ \A k \in Levels : k > l \/ k = 4 => Up(e - 1, k) = Up(u, k)
    BY <1>1, <1>2 DEF OnPath
  <1> DEFINE adv == Advance(t)
             sub == Enter(l - 1, Entry, u, t)
  <1>5. adv \in Record /\ adv.table = top.table /\ adv.level = l
    <2>1. t \in 0 .. VirtPages - 1
      BY <1>3
    <2> QED BY <1>1, <2>1, AdvanceTyped
  <1>6. /\ adv.virt = t /\ adv.end = e /\ adv.index = top.index + 1
        /\ adv.length = Wrap(top.length - Wrap(t - u))
        /\ adv.more = (l # 4 /\ t < e)
    BY DEF Advance, NextIndex, Record
  <1>7. sub \in Record /\ sub.level = l - 1 /\ sub.table = Entry /\ sub.virt = u
        /\ sub.end = t /\ sub.index = Index(u, l - 1) /\ sub.length = Wrap(t - u)
        /\ sub.more = TRUE
    <2>1. u \in 0 .. VirtPages - 1 /\ t \in 0 .. VirtPages - 1 /\ l - 1 \in Levels
      BY <1>2, <1>3 DEF Levels
    <2>2. Entry \in Frames
      <3>1. Tree(mem, ToSet(pool)) /\ top.table \in LevelTables(mem, l)
        BY <1>1, TreeIs, TopFacts DEF TablesInv
      <3>2. top.index \in Slots
        BY <1>2, <1>4, IndexTyped
      <3>3. Entry \in Rows(mem, LevelTables(mem, l))
        BY <1>1, <3>1, <3>2, RowsMember DEF Entry
      <3>4. Entry \in LevelTables(mem, l - 1)
        BY <3>3 DEF LevelTables, L3, L2, L1
      <3> QED BY <2>1, <3>1, <3>4, LevelsAreFrames
    <2>3. sub \in Record
      BY <2>1, <2>2, EnterTyped
    <2> QED BY <2>3 DEF Enter
  <1>8. Wrap(t - u) = t - u /\ Wrap(top.length - Wrap(t - u)) = e - t
    <2>1. t - u \in Nat /\ t - u < n /\ e - t \in Nat /\ e - t < n
      BY <1>3
    <2>2. Wrap(t - u) = t - u
      BY <2>1, WrapSmall
    <2>3. top.length - Wrap(t - u) = e - t
      BY <1>3, <1>4, <2>2
    <2> QED BY <2>1, <2>2, <2>3, WrapSmall
  <1> HIDE DEF adv, sub
  <1>9. OnPath(mem, a, b, sub)
    <2>1. Entry = PathTable(mem, u, l - 1)
      <3>1. top.table \in Frames
        BY DEF Record
      <3>2. Entry = Ent(mem, PathTable(mem, u, l), u, l)
        BY <1>4, <3>1 DEF Entry, Ent
      <3> QED BY <3>2 DEF PathTable, T3, T2, T1
    <2>2. \A k \in Levels : k > l - 1 \/ k = 4 => Up(t - 1, k) = Up(u, k)
      <3>1. \A k \in Levels : k > l - 1 \/ k = 4 => k >= l
        BY DEF Levels
      <3> QED BY <1>3, <3>1
    <2>3. a <= u /\ u <= t /\ t <= b /\ u < t
      BY <1>2, <1>3
    <2> QED BY <1>7, <1>8, <2>1, <2>2, <2>3 DEF OnPath
  <1>10. OnPath(mem, a, b, adv)
    <2>1. a <= t /\ t <= e /\ e <= b
      BY <1>2, <1>3
    <2>2. adv.more <=> t < e
      <3>1. t < e <=> (l # 4 /\ t < e)
        BY <1>3
      <3> QED BY <1>6, <3>1, Zenon
    <2>3. ASSUME t < e
          PROVE  /\ adv.table = PathTable(mem, t, l) /\ adv.index = Index(t, l)
                 /\ \A k \in Levels : k > l \/ k = 4 => Up(e - 1, k) = Up(t, k)
      <3>1. l # 4 /\ \A k \in Levels : k > l => Up(t, k) = Up(u, k)
        BY <1>3, <2>3
      <3>2. Index(t, l) = Index(u, l) + 1
        BY <1>3, <2>3
      <3>3. \A k \in Levels : k > l \/ k = 4 => Up(e - 1, k) = Up(t, k)
        BY <1>4, <3>1
      <3>4. l < 4 => Up(t, l + 1) = Up(u, l + 1)
        BY <3>1 DEF Levels
      <3>5. PathTable(mem, t, l) = PathTable(mem, u, l)
        BY <1>2, <1>3, <3>4, PathSame
      <3> QED BY <1>4, <1>5, <1>6, <3>2, <3>3, <3>5
    <2> QED BY <1>5, <1>6, <1>8, <2>1, <2>2, <2>3 DEF OnPath
  <1>11. /\ WalkOnPath(mem, SetTop(adv), a, b) /\ SetTop(adv) \in Seq(Record)
         /\ Len(SetTop(adv)) = Len(walk) /\ SetTop(adv)[Len(walk)] = adv
    <2>1. adv.level = walk[Len(walk)].level /\ adv.end = walk[Len(walk)].end
      BY <1>5, <1>6 DEF Top
    <2>2. \A i \in 1 .. Len(walk) - 1 : OnPath(mem, a, b, walk[i])
      BY <1>2 DEF WalkOnPath
    <2> PICK w \in Seq(Record) : w = walk
      BY <1>2
    <2>3. w # <<>> /\ WalkOnPath(mem, w, a, b)
      BY <1>1, <1>2
    <2>4. \A i \in 1 .. Len(w) - 1 : OnPath(mem, a, b, w[i])
      BY <2>2
    <2> DEFINE v == [w EXCEPT ![Len(w)] = adv]
    <2>5. /\ WalkOnPath(mem, v, a, b) /\ v \in Seq(Record)
          /\ Len(v) = Len(w) /\ v[Len(w)] = adv
      BY <1>5, <1>10, <2>1, <2>3, <2>4, SetTopPath
    <2> QED BY <2>5 DEF SetTop
  <1>12. WalkOnPath(mem, Append(SetTop(adv), sub), a, b)
    <2> PICK v \in Seq(Record) : v = SetTop(adv)
      BY <1>11
    <2>1. v # <<>> /\ v[Len(v)] = adv /\ WalkOnPath(mem, v, a, b)
      BY <1>1, <1>2, <1>11
    <2> QED BY <1>5, <1>6, <1>7, <1>9, <2>1, CallPath
  <1>13. walk' = Append(SetTop(adv), sub)
    BY <1>1 DEF adv, sub
  <1>14. walk' # <<>> /\ walk'[Len(walk')] = sub
    <2> PICK v \in Seq(Record) : v = SetTop(adv)
      BY <1>11
    <2>1. Append(v, sub) # <<>> /\ Append(v, sub)[Len(Append(v, sub))] = sub
      BY <1>7
    <2> QED BY <1>13, <2>1
  <1>15. Top' = sub
    BY <1>14 DEF Top
  <1>16. PathInv'
    <2>1. Fits(req.virt, req.num) /\ ret = "running"
      BY <1>1, TopOnPath
    <2> QED BY <1>1, <1>12, <1>13, <1>14, <2>1 DEF PathInv
  <1> QED BY <1>7, <1>15, <1>16

(* The entry of a page is written, of the page the loop is at: no other    *)
(* translation changes, and the loop goes on at the next page.             *)
LEMMA WritePtePath ==
  ASSUME TablesInv, PathInv, AtEntry({1}), NEW frame \in Int, WritePte(frame),
         frame # Absent, ret' = ret, req' = req
  PROVE  /\ PathInv'
         /\ Top.virt \in 0 .. VirtPages - 1
         /\ req.virt <= Top.virt /\ Top.virt < req.virt + req.num
         /\ walk' # <<>> /\ Top'.virt = Top.virt + 1
         /\ \A v \in 0 .. VirtPages - 1 :
              Translate(mem', v) = IF v = Top.virt THEN frame ELSE Translate(mem, v)
  <1>1. walk # <<>> /\ Top.level = 1 /\ Top.more
    BY DEF AtEntry
  <1> PICK a \in Nat, b \in Nat : a = req.virt /\ b = req.virt + req.num
    BY <1>1, TopOnPath
  <1> PICK n \in Nat \ {0} : n = VirtPages
    BY RangesPositive
  <1> PICK top \in Record : top = Top
    BY <1>1, TopOnPath
  <1> PICK u \in Nat, e \in Nat : u = top.virt /\ e = top.end /\ e < n
    BY <1>1, TopOnPath
  <1>2. /\ WalkOnPath(mem, walk, a, b) /\ walk \in Seq(Record)
        /\ OnPath(mem, a, b, top) /\ a <= u /\ u < e /\ e <= b
    <2>1. /\ WalkOnPath(mem, walk, a, b) /\ walk \in Seq(Record)
          /\ OnPath(mem, a, b, top)
      BY <1>1, TopOnPath
    <2>2. a <= u /\ u < e /\ e <= b
      BY <1>1, <2>1 DEF OnPath
    <2> QED BY <2>1, <2>2
  <1>3. /\ top.table = PathTable(mem, u, 1) /\ top.index = Index(u, 1)
        /\ \A k \in Levels : k > 1 \/ k = 4 => Up(e - 1, k) = Up(u, k)
    BY <1>1, <1>2 DEF OnPath
  <1>4. Wrap(Top.virt + PagesDone) = u + 1
    <2>1. u + 1 \in Nat /\ u + 1 < n /\ Top.virt + PagesDone = u + 1
      BY <1>2 DEF PagesDone
    <2> QED BY <2>1, WrapSmall
  <1> PICK t \in Nat : t = u + 1
    OBVIOUS
  <1> DEFINE z == t < e
             r == [top EXCEPT !.virt = t, !.index = Index(t, 1), !.more = z]
  <1>5. /\ mem' = [mem EXCEPT ![top.table][top.index] = frame]
        /\ walk' = SetTop(r)
    BY <1>4 DEF WritePte
  <1>6. /\ r \in Record /\ r.level = 1 /\ r.table = top.table /\ r.virt = t
        /\ r.end = e /\ r.index = Index(t, 1) /\ r.more = z
    <2>1. Index(t, 1) \in 0 .. Entries
      <3>1. Index(t, 1) \in Slots
        BY IndexTyped DEF Levels
      <3> QED BY <3>1, TableAssumption DEF Slots
    <2>2. t \in 0 .. VirtPages - 1 /\ z \in BOOLEAN
      BY <1>2
    <2> PICK x \in 0 .. Entries : x = Index(t, 1)
      BY <2>1
    <2> HIDE DEF z
    <2>3. r = [top EXCEPT !.virt = t, !.index = x, !.more = z]
      OBVIOUS
    <2>4. top.level = 1
      BY <1>1
    <2> HIDE DEF r
    <2> QED BY <2>2, <2>3, <2>4 DEF Record
  <1> HIDE DEF r, z
  <1>7. Tree(mem, ToSet(pool)) /\ mem \in [Frames -> [Slots -> Int]]
    BY TreeIs DEF TablesInv, PageTableTypeOK
  <1>8. T1(mem, u) \in L1(mem) /\ top.table = T1(mem, u)
    <2>1. top.table = T1(mem, u)
      BY <1>3 DEF PathTable
    <2>2. T1(mem, u) # Absent
      BY <2>1, TableAssumption DEF Record, Absent
    <2> QED BY <1>7, <2>1, <2>2, PathInTree
  <1>9. u \in 0 .. VirtPages - 1
    BY <1>2
  <1>10. \A v \in 0 .. VirtPages - 1 :
           Translate(mem', v) = IF v = u THEN frame ELSE Translate(mem, v)
    <2>1. top.table \in Frames /\ top.index \in Slots
      BY <1>3, IndexTyped DEF Record, Levels
    <2>2. Written(mem, [mem EXCEPT ![top.table][top.index] = frame],
                  top.table, top.index, frame)
      BY <1>7, <2>1, EntryWritten
    <2>3. Written(mem, mem', T1(mem, u), Index(u, 1), frame)
      BY <1>3, <1>5, <1>8, <2>2
    <2> QED BY <1>7, <1>8, <1>9, <2>3, PathWritten
  <1>11. \A t0 \in Upper(mem) : mem'[t0] = mem[t0]
    BY WritePteFacts
  <1>12. \A v \in Nat : \A l : PathTable(mem', v, l) = PathTable(mem, v, l)
    BY <1>7, <1>11, PathsKept
  <1>13. OnPath(mem', a, b, r)
    <2>1. a <= t /\ t <= e /\ e <= b
      BY <1>2
    <2>2. r.more <=> t < e
      BY <1>6, Zenon DEF z
    <2>3. ASSUME t < e
          PROVE  /\ r.table = PathTable(mem', t, 1)
                 /\ \A k \in Levels : k > 1 \/ k = 4 => Up(e - 1, k) = Up(t, k)
      <3>1. e - 1 \in Nat /\ u <= t /\ t <= e - 1
        BY <2>3
      <3>2. \A k \in Levels : k > 1 \/ k = 4 => Up(t, k) = Up(u, k)
        BY <1>3, <3>1, UpBetween
      <3>3. PathTable(mem, t, 1) = PathTable(mem, u, 1)
        <4>1. Up(t, 1 + 1) = Up(u, 1 + 1)
          BY <3>2 DEF Levels
        <4> QED BY <4>1, PathSame DEF Levels
      <3>4. PathTable(mem', t, 1) = PathTable(mem, t, 1)
        BY <1>12
      <3> QED BY <1>3, <1>6, <3>2, <3>3, <3>4
    <2> QED BY <1>6, <2>1, <2>2, <2>3 DEF OnPath
  <1>14. \A i \in 1 .. Len(walk) - 1 : OnPath(mem', a, b, walk[i])
    <2> SUFFICES ASSUME NEW i \in 1 .. Len(walk) - 1 PROVE OnPath(mem', a, b, walk[i])
      OBVIOUS
    <2>1. walk[i] \in Record /\ OnPath(mem, a, b, walk[i])
      BY <1>2 DEF WalkOnPath
    <2>2. walk[i].virt \in Nat
      BY <2>1, RangesPositive DEF Record
    <2> QED BY <1>12, <2>1, <2>2, OnPathIn
  <1>15. /\ WalkOnPath(mem', SetTop(r), a, b) /\ SetTop(r) \in Seq(Record)
         /\ Len(SetTop(r)) = Len(walk) /\ SetTop(r)[Len(walk)] = r
    <2>1. r.level = walk[Len(walk)].level /\ r.end = walk[Len(walk)].end
      BY <1>1, <1>6 DEF Top
    <2> PICK w \in Seq(Record) : w = walk
      BY <1>2
    <2> PICK m : m = mem'
      OBVIOUS
    <2>2. w # <<>> /\ WalkOnPath(mem, w, a, b) /\ OnPath(m, a, b, r)
      BY <1>1, <1>2, <1>13
    <2>3. \A i \in 1 .. Len(w) - 1 : OnPath(m, a, b, w[i])
      BY <1>14
    <2>4. /\ WalkOnPath(m, [w EXCEPT ![Len(w)] = r], a, b)
          /\ [w EXCEPT ![Len(w)] = r] \in Seq(Record)
          /\ Len([w EXCEPT ![Len(w)] = r]) = Len(w)
          /\ [w EXCEPT ![Len(w)] = r][Len(w)] = r
      BY <1>6, <2>1, <2>2, <2>3, SetTopPath
    <2> QED BY <2>4 DEF SetTop
  <1>16. walk' # <<>> /\ Top' = r
    <2> PICK v \in Seq(Record) : v = SetTop(r)
      BY <1>15
    <2>1. Len(v) \in Nat \ {0} /\ v[Len(v)] = r
      BY <1>1, <1>2, <1>15
    <2>2. v # <<>>
      BY <2>1
    <2> QED BY <1>5, <2>1, <2>2 DEF Top
  <1>17. PathInv'
    <2>1. Fits(req.virt, req.num) /\ ret = "running"
      BY <1>1, TopOnPath
    <2> QED BY <1>5, <1>15, <1>16, <2>1 DEF PathInv
  <1>18. req.virt <= u /\ u < req.virt + req.num
    BY <1>2
  <1> QED BY <1>6, <1>9, <1>10, <1>16, <1>17, <1>18

(* A range function returns when its range is done, and its caller goes on *)
(* where it ended; the last one has come to the end of the request.        *)
LEMMA ReturnPath ==
  ASSUME TablesInv, PathInv, Return
  PROVE  /\ PathInv'
         /\ Len(walk) = 1 => walk' = <<>> /\ Top.virt = req.virt + req.num
         /\ Len(walk) # 1 => walk' # <<>> /\ Top'.virt = Top.virt
  <1>1. /\ walk # <<>> /\ ~Top.more /\ walk' = Front(walk)
        /\ ret' = (IF Len(walk) = 1 THEN "OK" ELSE ret)
        /\ mem' = mem /\ req' = req
    BY DEF Return
  <1> PICK a \in Nat, b \in Nat : a = req.virt /\ b = req.virt + req.num
    BY <1>1, TopOnPath
  <1> PICK w \in Seq(Record) : w = walk
    BY <1>1, TopOnPath
  <1> PICK k \in 1 .. 4 : k = Len(w)
    BY <1>1, TopOnPath
  <1>2. /\ WalkOnPath(mem, w, a, b) /\ OnPath(mem, a, b, Top)
        /\ k = 1 => Top.end = b
        /\ Top.virt \in Nat /\ Top.end \in Nat
    BY <1>1, TopOnPath
  <1>3. Top.virt = Top.end
    BY <1>1, <1>2 DEF OnPath
  <1> PICK v : v = Front(w)
    OBVIOUS
  <1>4. /\ v = [i \in 1 .. k - 1 |-> w[i]]
        /\ v \in Seq(Record) /\ Len(v) = k - 1 /\ \A i \in 1 .. k - 1 : v[i] = w[i]
    <2>1. v = [i \in 1 .. k - 1 |-> w[i]]
      BY DEF Front
    <2>2. \A i \in 1 .. k - 1 : w[i] \in Record
      OBVIOUS
    <2> QED BY <2>1, <2>2
  <1>5. k = 1 => v = <<>>
    BY <1>4
  <1>6. ASSUME k # 1
        PROVE  v # <<>> /\ v[Len(v)].virt = Top.virt /\ WalkOnPath(mem, v, a, b)
    <2>1. k - 1 \in 1 .. k - 1 /\ (k - 1) + 1 = k
      BY <1>6
    <2>2. /\ \A i \in 1 .. k : w[i].level = 5 - i /\ OnPath(mem, a, b, w[i])
          /\ \A i \in 1 .. k - 1 : w[i + 1].end = w[i].virt
          /\ w[1].end = b
      BY <1>2 DEF WalkOnPath
    <2>3. w[(k - 1) + 1].end = w[k - 1].virt
      BY <2>1, <2>2
    <2>4. v # <<>>
      BY <1>4, <2>1
    <2>5. v[Len(v)].virt = Top.virt
      BY <1>3, <1>4, <2>1, <2>3 DEF Top
    <2>6. \A i \in 1 .. k - 1 : v[i].level = 5 - i /\ OnPath(mem, a, b, v[i])
      BY <1>4, <2>2
    <2>7. \A i \in 1 .. (k - 1) - 1 : v[i + 1].end = v[i].virt
      <3> SUFFICES ASSUME NEW i \in 1 .. (k - 1) - 1 PROVE v[i + 1].end = v[i].virt
        OBVIOUS
      <3>1. i \in 1 .. k - 1 /\ i + 1 \in 1 .. k - 1
        OBVIOUS
      <3> QED BY <1>4, <2>2, <3>1
    <2>8. v[1].end = b
      BY <1>4, <2>1, <2>2
    <2> QED BY <1>4, <2>4, <2>5, <2>6, <2>7, <2>8 DEF WalkOnPath
  <1>7. Fits(req.virt, req.num) /\ ret = "running"
    BY <1>1, TopOnPath
  <1>8. CASE k = 1
    <2>1. walk' = <<>> /\ ret' = "OK"
      BY <1>1, <1>5, <1>8
    <2>2. Top.virt = req.virt + req.num
      BY <1>2, <1>3, <1>8
    <2> QED BY <1>8, <2>1, <2>2 DEF PathInv
  <1>9. CASE k # 1
    <2>1. walk' = v /\ v # <<>> /\ ret' = "running"
      BY <1>1, <1>6, <1>7, <1>9
    <2>2. Top'.virt = Top.virt
      BY <1>6, <1>9, <2>1 DEF Top
    <2>3. PathInv'
      BY <1>1, <1>6, <1>7, <1>9, <2>1 DEF PathInv
    <2> QED BY <1>9, <2>1, <2>2, <2>3
  <1> QED BY <1>8, <1>9

(* A request begins with the entry of its first page in the root.          *)
LEMMA MapPagesPath ==
  ASSUME TablesInv, PathInv, NEW r \in Request, MapPages(r),
         Acceptable(r) => Fits(r.virt, r.num)
  PROVE  /\ PathInv'
         /\ walk = <<>> /\ ret # "running"
         /\ req'.virt = r.virt /\ req'.num = r.num /\ pacc' = r.pacc
         /\ mem' = mem /\ pool' = pool
         /\ Acceptable(r) => /\ ret' = "running"
                             /\ walk' # <<>> /\ Top'.virt = r.virt
         /\ ~Acceptable(r) => ret' = "EINVAL" /\ walk' = <<>>
  <1>1. /\ ret \notin {"running", "wild"}
        /\ req'.virt = r.virt /\ req'.num = r.num /\ pacc' = r.pacc
        /\ mem' = mem /\ pool' = pool
        /\ IF Acceptable(r)
             THEN /\ walk' = <<Enter(4, Root, r.virt, Wrap(r.virt + r.num))>>
                  /\ ret' = "running"
             ELSE ret' = "EINVAL" /\ walk' = walk
    BY DEF MapPages
  <1>2. walk = <<>>
    BY <1>1 DEF PathInv
  <1>3. CASE ~Acceptable(r)
    <2>1. ret' = "EINVAL" /\ walk' = <<>>
      BY <1>1, <1>2, <1>3
    <2> QED BY <1>1, <1>2, <1>3, <2>1 DEF PathInv
  <1>4. CASE Acceptable(r)
    <2> PICK a \in Nat, n \in Nat : a = r.virt /\ n = r.num
      BY RangesPositive DEF Request
    <2> PICK b \in Nat : b = a + n
      OBVIOUS
    <2> PICK v \in Nat \ {0} : v = VirtPages
      BY RangesPositive
    <2>1. n > 0 /\ b <= v - EntryRange[3] /\ Up(b - 1, 4) = Up(a, 4)
      BY <1>4 DEF Fits
    <2>2. a < b /\ b < v
      <3>1. EntryRange[3] \in Nat \ {0}
        BY RangesPositive DEF Levels
      <3> QED BY <2>1, <3>1
    <2> DEFINE first == Enter(4, Root, a, b)
    <2>3. Wrap(b) = b /\ Wrap(b - a) = b - a
      <3>1. b - a \in Nat /\ b - a < v
        BY <2>2
      <3> QED BY <2>2, <3>1, WrapSmall
    <2>4. walk' = <<first>>
      BY <1>1, <1>4, <2>3
    <2>5. /\ first.level = 4 /\ first.table = Root /\ first.index = Index(a, 4)
          /\ first.virt = a /\ first.end = b /\ first.length = b - a /\ first.more = TRUE
      BY <2>3 DEF Enter
    <2> HIDE DEF first
    <2>6. OnPath(mem', a, b, first)
      <3>1. \A k \in Levels : k > 4 \/ k = 4 => Up(b - 1, k) = Up(a, k)
        BY <2>1 DEF Levels
      <3>2. first.table = PathTable(mem', a, 4)
        BY <2>5 DEF PathTable
      <3> QED BY <2>2, <2>5, <3>1, <3>2 DEF OnPath
    <2>7. Len(walk') = 1 /\ walk'[1] = first /\ walk' # <<>>
      BY <2>4
    <2>8. WalkOnPath(mem', walk', a, b)
      BY <2>5, <2>6, <2>7 DEF WalkOnPath
    <2>9. Top'.virt = r.virt
      BY <2>5, <2>7 DEF Top
    <2>10. req'.virt + req'.num = b
      BY <1>1
    <2>11. PathInv'
      BY <1>1, <1>4, <2>7, <2>8, <2>10 DEF PathInv
    <2> QED BY <1>1, <1>2, <1>4, <2>7, <2>9, <2>11
  <1> QED BY <1>3, <1>4

(* A walk that is given up, and the steps of others, leave the path.       *)
LEMMA StillPath ==
  ASSUME PathInv
  PROVE  /\ walk' = <<>> /\ ret' # "running" => PathInv'
         /\ mem' = mem /\ walk' = walk /\ req' = req /\ ret' = ret => PathInv'
         /\ walk = <<>> /\ walk' = walk /\ ret' = ret => PathInv'
  BY DEF PathInv

(* Frames that are taken from the pool are on no way.                      *)
LEMMA TakeFramesPath ==
  ASSUME TablesInv, PathInv, UNCHANGED callVars,
         \A t \in Frames \ ToSet(pool) : mem'[t] = mem[t]
  PROVE  /\ PathInv'
         /\ \A v \in Nat : Translate(mem', v) = Translate(mem, v)
  <1>1. walk' = walk /\ req' = req /\ ret' = ret
    BY DEF callVars
  <1>2. Tree(mem, ToSet(pool)) /\ Root \notin ToSet(pool)
    BY TreeIs DEF TablesInv, PoolFresh
  <1>3. Upper(mem) \cup L1(mem) \subseteq Frames \ ToSet(pool)
    BY <1>2, TableAssumption DEF Tree, Upper
  <1>4. ASSUME NEW v \in Nat
        PROVE  /\ Translate(mem', v) = Translate(mem, v)
               /\ \A l : PathTable(mem', v, l) = PathTable(mem, v, l)
    <2> PICK n : n = mem'
      OBVIOUS
    <2>1. /\ \A t \in Upper(mem) : n[t] = mem[t]
          /\ \A t \in L1(mem) : n[t] = mem[t]
      BY <1>3
    <2>2. /\ Translate(n, v) = Translate(mem, v)
          /\ \A l : PathTable(n, v, l) = PathTable(mem, v, l)
      BY <1>2, <2>1, PathsKept
    <2> QED BY <2>2
  <1>5. ASSUME walk = <<>> PROVE PathInv'
    BY <1>1, <1>5, StillPath
  <1>6. ASSUME walk # <<>> PROVE PathInv'
    <2> PICK a \in Nat, b \in Nat : a = req.virt /\ b = req.virt + req.num
      BY <1>6, TopOnPath
    <2>1. /\ WalkOnPath(mem, walk, a, b) /\ walk \in Seq(Record)
          /\ ret = "running" /\ Fits(req.virt, req.num)
      BY <1>6, TopOnPath
    <2>2. ASSUME NEW i \in 1 .. Len(walk) PROVE OnPath(mem', a, b, walk[i])
      <3>1. walk[i] \in Record /\ OnPath(mem, a, b, walk[i])
        BY <2>1 DEF WalkOnPath
      <3>2. walk[i].virt \in Nat
        BY <3>1, RangesPositive DEF Record
      <3> QED BY <1>4, <3>1, <3>2, OnPathIn
    <2>3. WalkOnPath(mem', walk, a, b)
      BY <2>1, <2>2 DEF WalkOnPath
    <2> QED BY <1>1, <1>6, <2>1, <2>3 DEF PathInv
  <1> QED BY <1>4, <1>5, <1>6

(* An accessor gives a frame or the invalid index, never the mark of an     *)
(* entry that is not present.                                              *)
LEMMA AccessorGives ==
  ASSUME NEW x \in Accessor
  PROVE  FrameOf(x) \in Int /\ FrameOf(x) >= INVALID_PAGE_IDX /\ FrameOf(x) # Absent
  <1>1. /\ x.kind \in {"linear", "list", "idle"} /\ x.next \in Nat
        /\ x.left \in Seq(Nat)
    BY DEF Accessor
  <1>2. FrameOf(x) \in Nat \cup {INVALID_PAGE_IDX}
    <2>1. CASE x.kind = "linear"
      BY <1>1, <2>1 DEF FrameOf
    <2>2. CASE x.kind = "list" /\ x.left # <<>>
      <3>1. Head(x.left) \in Nat
        BY <1>1, <2>2
      <3> QED BY <2>2, <3>1 DEF FrameOf
    <2>3. CASE ~(x.kind = "linear") /\ ~(x.kind = "list" /\ x.left # <<>>)
      BY <2>3 DEF FrameOf
    <2> QED BY <2>1, <2>2, <2>3
  <1> QED BY <1>2 DEF INVALID_PAGE_IDX, Absent

(* The only step of the walk that changes a translation is an iteration of *)
(* map_pde2_range(), and it changes that of the page it is at.             *)
LEMMA MapStepPath ==
  ASSUME TablesInv, PathInv, MapStep
  PROVE  /\ PathInv'
         /\ \/ \A v \in Nat : Translate(mem', v) = Translate(mem, v)
            \/ /\ walk # <<>> /\ MapPde2Range
               /\ Top.virt \in 0 .. VirtPages - 1
               /\ req.virt <= Top.virt /\ Top.virt < req.virt + req.num
               /\ \A v \in 0 .. VirtPages - 1 :
                    Translate(mem', v) = IF v = Top.virt THEN FrameOf(pacc)
                                         ELSE Translate(mem, v)
  <1>1. CASE Populate
    BY <1>1, PopulatePath
  <1>2. CASE PopulateFails \/ Overrun
    <2>1. walk' = <<>> /\ ret' # "running" /\ mem' = mem
      BY <1>2 DEF PopulateFails, Overrun
    <2> QED BY <2>1, StillPath
  <1>3. CASE Descend
    <2>1. mem' = mem
      BY <1>3 DEF Descend
    <2> QED BY <1>3, <2>1, DescendPath
  <1>4. CASE MapPde2Range
    <2>1. FrameOf(pacc) \in Int /\ FrameOf(pacc) # Absent
      BY AccessorGives DEF TablesInv, PageTableTypeOK
    <2>2. /\ AtEntry({1}) /\ WritePte(FrameOf(pacc)) /\ ret' = ret /\ req' = req
      BY <1>4 DEF MapPde2Range
    <2>3. walk # <<>>
      BY <2>2 DEF AtEntry
    <2> QED BY <1>4, <2>1, <2>2, <2>3, WritePtePath
  <1>5. CASE Return
    <2>1. mem' = mem
      BY <1>5 DEF Return
    <2> QED BY <1>5, <2>1, ReturnPath
  <1> QED BY <1>1, <1>2, <1>3, <1>4, <1>5 DEF MapStep
(* What a step of the walk may do: end the walk, or move on to no other    *)
(* page, both without a change of a translation, or map the page it is at. *)
LEMMA MapStepMoves ==
  ASSUME TablesInv, PathInv, MapStep
  PROVE  /\ walk # <<>> /\ ret = "running" /\ req' = req /\ PathInv'
         /\ \/ /\ walk' = <<>> /\ ret' # "running"
               /\ ret' = "OK" => Top.virt = req.virt + req.num
               /\ \A v \in Nat : Translate(mem', v) = Translate(mem, v)
            \/ /\ walk' # <<>> /\ Top'.virt = Top.virt /\ ret' = ret /\ pacc' = pacc
               /\ \A v \in Nat : Translate(mem', v) = Translate(mem, v)
            \/ /\ walk' # <<>> /\ Top'.virt = Top.virt + 1 /\ ret' = ret
               /\ pacc' = Used(pacc) /\ pacc.kind # "idle"
               /\ Top.virt \in 0 .. VirtPages - 1
               /\ req.virt <= Top.virt /\ Top.virt < req.virt + req.num
               /\ \A v \in 0 .. VirtPages - 1 :
                    Translate(mem', v) = IF v = Top.virt THEN FrameOf(pacc)
                                         ELSE Translate(mem, v)
  <1>0. PathInv'
    BY MapStepPath
  <1>1. CASE Populate
    <2>1. walk # <<>> /\ walk' = walk /\ pacc' = pacc /\ req' = req /\ ret' = ret
      BY <1>1 DEF Populate, callVars, AtEntry
    <2>2. Top'.virt = Top.virt
      BY <2>1 DEF Top
    <2> QED BY <1>0, <1>1, <2>1, <2>2, PopulatePath DEF PathInv
  <1>2. CASE PopulateFails \/ Overrun
    <2>1. /\ walk # <<>> /\ walk' = <<>> /\ mem' = mem /\ req' = req
          /\ ret' \in {"ENOMEM", "wild"}
      BY <1>2 DEF PopulateFails, Overrun, AtEntry
    <2> QED BY <1>0, <2>1 DEF PathInv
  <1>3. CASE Descend
    <2>1. /\ walk # <<>> /\ mem' = mem /\ pacc' = pacc /\ req' = req /\ ret' = ret
      BY <1>3 DEF Descend, AtEntry
    <2>2. ret = "running" /\ walk' # <<>>
      BY <1>0, <2>1 DEF PathInv
    <2> QED BY <1>0, <1>3, <2>1, <2>2, DescendPath
  <1>4. CASE MapPde2Range
    <2>1. /\ AtEntry({1}) /\ pacc.kind # "idle" /\ WritePte(FrameOf(pacc))
          /\ pacc' = Used(pacc) /\ req' = req /\ ret' = ret
      BY <1>4 DEF MapPde2Range
    <2>2. walk # <<>> /\ pacc \in Accessor
      BY <2>1 DEF AtEntry, TablesInv, PageTableTypeOK
    <2>3. FrameOf(pacc) \in Int /\ FrameOf(pacc) # Absent
      BY <2>2, AccessorGives
    <2>4. ret = "running"
      BY <2>2 DEF PathInv
    <2> QED BY <1>0, <2>1, <2>2, <2>3, <2>4, WritePtePath
  <1>5. CASE Return
    <2>1. /\ walk # <<>> /\ mem' = mem /\ pacc' = pacc /\ req' = req
          /\ ret' = (IF Len(walk) = 1 THEN "OK" ELSE ret)
      BY <1>5 DEF Return
    <2>2. ret = "running"
      BY <2>1 DEF PathInv
    <2> QED BY <1>0, <1>5, <2>1, <2>2, ReturnPath
  <1> QED BY <1>1, <1>2, <1>3, <1>4, <1>5 DEF MapStep
(* The tables after a new one is linked are those before, and the new one. *)
LEMMA TablesAdded ==
  ASSUME NEW m, NEW n, NEW P, NEW Q, NEW f, NEW t0, NEW i0,
         Tree(m, P), Linked(m, n, P, Q, f, t0, i0)
  PROVE  Upper(n) \cup L1(n) \subseteq Upper(m) \cup L1(m) \cup {f}
  <1>1. /\ Root \in Frames /\ Root # f
        /\ L3(m) \subseteq Frames /\ L2(m) \subseteq Frames
    BY TableAssumption DEF Tree, Linked
  <1>2. ASSUME NEW S \in SUBSET Frames, NEW R \in SUBSET Frames, R \subseteq S \cup {f}
        PROVE  Rows(n, R) \subseteq Rows(m, S) \cup {f}
    <2> SUFFICES ASSUME NEW x \in Rows(n, R), x # f PROVE x \in Rows(m, S)
      OBVIOUS
    <2>1. PICK t \in R, i \in Slots : n[t][i] = x /\ x # Absent
      BY RowsMember
    <2>2. t # f
      BY <2>1 DEF Linked
    <2>3. m[t][i] = x
      <3>1. CASE t = t0
        BY <2>1, <3>1 DEF Linked
      <3>2. CASE t # t0
        <4>1. t \in Frames \ {f, t0}
          BY <2>2, <3>2
        <4>2. n[t] = m[t]
          BY <4>1 DEF Linked
        <4> QED BY <2>1, <4>2
      <3> QED BY <3>1, <3>2
    <2>4. t \in S
      BY <1>2, <2>2
    <2> QED BY <2>1, <2>3, <2>4, RowsMember
  <1>3. L3(n) \subseteq L3(m) \cup {f}
    <2>1. {Root} \in SUBSET Frames /\ {Root} \subseteq {Root} \cup {f}
      BY <1>1
    <2> QED BY <1>2, <2>1 DEF L3
  <1>4. f \in Frames
    BY DEF Linked
  <1>5. L2(n) \subseteq L2(m) \cup {f}
    BY <1>1, <1>2, <1>3, <1>4 DEF L2
  <1>6. L1(n) \subseteq L1(m) \cup {f}
    BY <1>1, <1>2, <1>4, <1>5 DEF L1
  <1> QED BY <1>3, <1>5, <1>6 DEF Upper

-----------------------------------------------------------------------------
(* Frames that are nobody's but their user's *)

(* Frames that are no tables and that alloc_page() does not have.          *)
Owned(m, P) == Frames \ (P \cup Upper(m) \cup L1(m))

(* A step that writes to no upper table and puts no frame into the pool    *)
(* leaves frames with their users; those it takes from the pool are theirs. *)
LEMMA OwnedKept ==
  ASSUME TablesInv, \A t \in Upper(mem) : mem'[t] = mem[t],
         ToSet(pool') \subseteq ToSet(pool)
  PROVE  /\ Owned(mem, ToSet(pool)) \subseteq Owned(mem', ToSet(pool'))
         /\ \A f \in ToSet(pool) \ ToSet(pool') : f \in Owned(mem', ToSet(pool'))
  <1>1. Tree(mem, ToSet(pool))
    BY TreeIs DEF TablesInv
  <1>2. L3(mem') = L3(mem) /\ L2(mem') = L2(mem) /\ L1(mem') = L1(mem)
    BY <1>1, TreeKept
  <1>3. Upper(mem') = Upper(mem)
    BY <1>2 DEF Upper
  <1>4. ToSet(pool) \subseteq Frames
    <2> PICK p \in Seq(Frames) : p = pool
      BY DEF TablesInv, PageTableTypeOK
    <2> QED BY DEF ToSet
  <1>5. (Upper(mem) \cup L1(mem)) \cap ToSet(pool) = {}
    BY <1>1 DEF Tree, Upper, TablesInv, PoolFresh
  <1> QED BY <1>2, <1>3, <1>4, <1>5 DEF Owned

(* No step of the walk takes a frame away from its user.                   *)
LEMMA MapStepOwned ==
  ASSUME TablesInv, MapStep
  PROVE  Owned(mem, ToSet(pool)) \subseteq Owned(mem', ToSet(pool'))
  <1>1. CASE Populate
    <2>1. Linked(mem, mem', ToSet(pool), ToSet(pool'), Head(pool), Top.table, Top.index)
      BY <1>1, PopulateInv
    <2>2. Tree(mem, ToSet(pool))
      BY TreeIs DEF TablesInv
    <2>3. Upper(mem') \cup L1(mem') \subseteq Upper(mem) \cup L1(mem) \cup {Head(pool)}
      BY <2>1, <2>2, TablesAdded
    <2>4. Head(pool) \in ToSet(pool) /\ ToSet(pool') \subseteq ToSet(pool)
      BY <2>1 DEF Linked
    <2> QED BY <2>3, <2>4 DEF Owned
  <1>2. CASE MapPde2Range
    <2>1. AtEntry({1}) /\ WritePte(FrameOf(pacc)) /\ pool' = pool
      BY <1>2 DEF MapPde2Range
    <2>2. FrameOf(pacc) \in Int
      BY AccessorTyped DEF TablesInv, PageTableTypeOK
    <2>3. \A t \in Upper(mem) : mem'[t] = mem[t]
      BY <2>1, <2>2, WritePteFacts
    <2> QED BY <2>1, <2>3, OwnedKept
  <1>3. CASE PopulateFails \/ Descend \/ Overrun \/ Return
    <2>1. mem' = mem /\ pool' = pool
      BY <1>3 DEF PopulateFails, Descend, Overrun, Return
    <2> QED BY <2>1, OwnedKept
  <1> QED BY <1>1, <1>2, <1>3 DEF MapStep
=============================================================================
