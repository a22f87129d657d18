-------------------------- MODULE PageTableProofs ---------------------------
(***************************************************************************)
(* Page tables, for every size of memory and every layout: what loading a  *)
(* program, growing a heap and cloning keep true of the page tables they   *)
(* build.                                                                  *)
(***************************************************************************)
EXTENDS AddressSpace, KernelTheorems, FiniteSetTheorems

USE DEF NULL, NONE

(* The layout, spelled out for the provers. *)
LEMMA Layout ==
    /\ FRAMES \in Nat /\ FRAMES > 0 /\ VPAGES \in Nat /\ VPAGES > 1
    /\ Stack \in VPage
    /\ Frame \subseteq Nat /\ VPage \subseteq Nat /\ Frame \subseteq PhysPage
    /\ NONE \notin PhysPage /\ NONE \notin Frame
    /\ NULL \in Frame /\ NULL \in PhysPage
BY FramesAssumption, LayoutAssumption DEF Frame, VPage, PhysPage, Stack

(* Every page lies in a table of the root. *)
LEMMA PageHasTable ==
    ASSUME NEW v \in VPage
    PROVE  TableOf(v) \in Tables
<1>1. v \in Int /\ 0 <= v /\ v <= VPAGES - 1 /\ FANOUT \in Nat /\ FANOUT > 0
  BY LayoutAssumption DEF VPage
<1>2. v \div FANOUT <= (VPAGES - 1) \div FANOUT /\ v \div FANOUT \in Nat
  BY <1>1, LayoutAssumption
<1> QED BY <1>2, LayoutAssumption DEF TableOf, Tables

-----------------------------------------------------------------------------
(* Builds of page tables. *)

SpaceT == [root : Frame, table : [Tables -> Frame \cup {NONE}],
           page : [VPage -> PhysPage \cup {NONE}]]
BuildT == [used : SUBSET Frame, space : SpaceT,
           result : {"ok", "taken", "stopped", "full"}, starved : BOOLEAN]

(* No two entries of a space hold the same frame. *)
Exact(s) ==
    /\ \A t, x \in Tables : s.table[t] # NONE /\ s.table[t] = s.table[x] => t = x
    /\ \A v, w \in VPage : s.page[v] # NONE /\ s.page[v] = s.page[w] => v = w
    /\ \A t \in Tables, v \in VPage : s.table[t] # NONE => s.table[t] # s.page[v]
    /\ \A t \in Tables : s.table[t] # s.root
    /\ \A v \in VPage : s.page[v] # s.root

(* During a build the bitmap holds the frames the build did not take (base), *)
(* those of its space, and those taken but not mapped, or mapped over        *)
(* (aside); the three are disjoint, and no entry shares a frame.             *)
Fresh(b, base, aside) ==
    /\ Exact(b.space)
    /\ NULL \in base
    /\ FramesOf(b.space) \cap base = {}
    /\ FramesOf(b.space) \cap aside = {}
    /\ aside \cap base = {}
    /\ b.used = base \cup FramesOf(b.space) \cup aside

(* The frames of a space are those of its entries. *)
LEMMA FramesPointwise ==
    ASSUME NEW s \in SpaceT, NEW f
    PROVE  f \in FramesOf(s) <=> \/ f = s.root
                                 \/ f # NONE /\ \E t \in Tables : s.table[t] = f
                                 \/ f # NONE /\ \E v \in VPage : s.page[v] = f
<1>1. DOMAIN s.table = Tables /\ DOMAIN s.page = VPage BY DEF SpaceT
<1> QED BY <1>1 DEF FramesOf, Range

(* allocate_page_table_page: the table of a page, made when it is missing,  *)
(* from a frame nobody used.                                                *)
LEMMA TableMade ==
    ASSUME NEW b \in BuildT, b.result = "ok", NULL \in b.used, NEW v \in VPage
    PROVE  LET r == WithTable(b, v) IN
           /\ r \in BuildT /\ NULL \in r.used
           /\ r.starved = b.starved
           /\ \/ r.result = "stopped" /\ r.used = b.used /\ r.space = b.space
              \/ r = b
              \/ \E g \in Frame \ b.used :
                    /\ b.space.table[TableOf(v)] = NONE
                    /\ r.result = "ok" /\ r.used = b.used \cup {g}
                    /\ r.space = [root |-> b.space.root,
                                  table |-> [b.space.table EXCEPT ![TableOf(v)] = g],
                                  page |-> b.space.page]
<1> DEFINE r == WithTable(b, v)
           got == pmm_alloc_page(b.used)
<1>0. TableOf(v) \in Tables BY PageHasTable
<1>1. CASE b.space.table[TableOf(v)] # NONE
  <2>1. r = b BY <1>1 DEF WithTable
  <2> QED BY <2>1
<1>2. CASE b.space.table[TableOf(v)] = NONE /\ got.frame = NULL
  <2>1. r = [b EXCEPT !.result = "stopped"] BY <1>2 DEF WithTable
  <2> HIDE DEF r
  <2>2. r \in BuildT /\ r.used = b.used /\ r.space = b.space /\ r.result = "stopped"
        /\ r.starved = b.starved
    BY <2>1 DEF BuildT
  <2> QED BY <2>2 DEF r
<1>3. CASE b.space.table[TableOf(v)] = NONE /\ got.frame # NULL
  <2>1. got.frame \in Frame \ b.used /\ got.used = b.used \cup {got.frame}
    BY <1>3, AllocPage
  <2>2. r = [b EXCEPT !.used = got.used, !.space.table[TableOf(v)] = got.frame]
    BY <1>3 DEF WithTable
  <2> HIDE DEF r, got
  <2>3. /\ r.used = got.used /\ r.result = "ok" /\ r.starved = b.starved
        /\ r.space = [b.space EXCEPT !.table[TableOf(v)] = got.frame]
        /\ r = [used |-> r.used, space |-> r.space, result |-> r.result, starved |-> r.starved]
    BY <2>2 DEF BuildT
  <2>4. b.space \in SpaceT BY DEF BuildT
  <2>5. r.space = [root |-> b.space.root,
                   table |-> [b.space.table EXCEPT ![TableOf(v)] = got.frame],
                   page |-> b.space.page]
    BY <2>3, <2>4 DEF SpaceT
  <2>6. r.space \in SpaceT BY <2>5, <2>4, <2>1, <1>0 DEF SpaceT
  <2>7. r \in BuildT BY <2>1, <2>3, <2>6 DEF BuildT
  <2> QED BY <1>3, <2>1, <2>3, <2>5, <2>7 DEF r
<1> QED BY <1>1, <1>2, <1>3

(* A table made from a frame nobody used. *)
LEMMA TableKeepsFresh ==
    ASSUME NEW b \in BuildT, NEW r \in BuildT, NEW base, NEW aside, Fresh(b, base, aside),
           NEW t \in Tables, NEW g \in Frame \ b.used,
           b.space.table[t] = NONE,
           r.used = b.used \cup {g},
           r.space = [root |-> b.space.root, table |-> [b.space.table EXCEPT ![t] = g],
                      page |-> b.space.page]
    PROVE  Fresh(r, base, aside)
<1> DEFINE s == b.space
           n == r.space
<1>1. s \in SpaceT /\ n \in SpaceT /\ g # NONE BY Layout DEF BuildT
<1>2. /\ n.root = s.root /\ n.page = s.page
      /\ \A x \in Tables : n.table[x] = IF x = t THEN g ELSE s.table[x]
  BY <1>1 DEF SpaceT
<1> HIDE DEF s, n
<1>3. FramesOf(n) = FramesOf(s) \cup {g}
  <2> SUFFICES ASSUME NEW f PROVE f \in FramesOf(n) <=> f \in FramesOf(s) \/ f = g
    OBVIOUS
  <2>1. \/ f = n.root
        \/ f # NONE /\ \E x \in Tables : n.table[x] = f
        \/ f # NONE /\ \E v \in VPage : n.page[v] = f
        <=> \/ f = s.root
            \/ f # NONE /\ \E x \in Tables : s.table[x] = f
            \/ f # NONE /\ \E v \in VPage : s.page[v] = f
            \/ f = g
    BY <1>1, <1>2 DEF s
  <2>2. f \in FramesOf(n) <=> \/ f = n.root
                              \/ f # NONE /\ \E x \in Tables : n.table[x] = f
                              \/ f # NONE /\ \E v \in VPage : n.page[v] = f
    BY <1>1, FramesPointwise
  <2>3. f \in FramesOf(s) <=> \/ f = s.root
                              \/ f # NONE /\ \E x \in Tables : s.table[x] = f
                              \/ f # NONE /\ \E v \in VPage : s.page[v] = f
    BY <1>1, FramesPointwise
  <2> QED BY <2>1, <2>2, <2>3
<1>4. g \notin FramesOf(s) BY DEF Fresh, s
<1>5. /\ g # s.root
      /\ \A x \in Tables : s.table[x] # g
      /\ \A v \in VPage : s.page[v] # g
  BY <1>1, <1>4, FramesPointwise
<1>6. Exact(n)
  <2>1. Exact(s) BY DEF Fresh, s
  <2> QED BY <2>1, <1>1, <1>2, <1>5 DEF Exact
<1> QED BY <1>3, <1>4, <1>6 DEF Fresh, s, n

(* A page mapped to a frame set aside, which takes the place of what was     *)
(* mapped there.                                                             *)
LEMMA MappingKeepsFresh ==
    ASSUME NEW b \in BuildT, NEW r \in BuildT, NEW base, NEW aside, Fresh(b, base, aside),
           NEW v \in VPage, NEW g \in aside, g # NONE,
           r.used = b.used,
           r.space = [root |-> b.space.root, table |-> b.space.table,
                      page |-> [b.space.page EXCEPT ![v] = g]]
    PROVE  Fresh(r, base, (aside \ {g}) \cup ({b.space.page[v]} \ {NONE}))
<1> DEFINE s == b.space
           n == r.space
<1>1. s \in SpaceT /\ n \in SpaceT BY DEF BuildT
<1>2. /\ n.root = s.root /\ n.table = s.table
      /\ \A w \in VPage : n.page[w] = IF w = v THEN g ELSE s.page[w]
  BY <1>1 DEF SpaceT
<1> HIDE DEF s, n
<1>3. Exact(s) BY DEF Fresh, s
<1>4. FramesOf(n) = (FramesOf(s) \ ({s.page[v]} \ {NONE})) \cup {g}
  <2> SUFFICES ASSUME NEW f
               PROVE  f \in FramesOf(n) <=> \/ f \in FramesOf(s) /\ (f # s.page[v] \/ f = NONE)
                                            \/ f = g
    OBVIOUS
  <2>1. \/ f = n.root
        \/ f # NONE /\ \E x \in Tables : n.table[x] = f
        \/ f # NONE /\ \E w \in VPage : n.page[w] = f
        <=> \/ /\ \/ f = s.root
                  \/ f # NONE /\ \E x \in Tables : s.table[x] = f
                  \/ f # NONE /\ \E w \in VPage : s.page[w] = f
               /\ f # s.page[v] \/ f = NONE
            \/ f = g
    BY <1>1, <1>2, <1>3 DEF Exact
  <2>2. f \in FramesOf(n) <=> \/ f = n.root
                              \/ f # NONE /\ \E x \in Tables : n.table[x] = f
                              \/ f # NONE /\ \E w \in VPage : n.page[w] = f
    BY <1>1, FramesPointwise
  <2>3. f \in FramesOf(s) <=> \/ f = s.root
                              \/ f # NONE /\ \E x \in Tables : s.table[x] = f
                              \/ f # NONE /\ \E w \in VPage : s.page[w] = f
    BY <1>1, FramesPointwise
  <2> QED BY <2>1, <2>2, <2>3
<1>5. g \notin FramesOf(s) BY DEF Fresh, s
<1>6. /\ g # s.root
      /\ \A x \in Tables : s.table[x] # g
      /\ \A w \in VPage : s.page[w] # g
  BY <1>1, <1>5, FramesPointwise
<1>7. Exact(n) BY <1>1, <1>2, <1>3, <1>6 DEF Exact
<1>8. s.page[v] # NONE => s.page[v] \in FramesOf(s) BY <1>1, FramesPointwise
<1> QED BY <1>4, <1>5, <1>7, <1>8 DEF Fresh, s, n

(* What vmm_map_page leaves of a build. *)
Mapped(b, r, v, g, override) ==
    /\ r \in BuildT /\ b.used \subseteq r.used /\ NULL \in r.used /\ r.starved = b.starved
    /\ r.space.root = b.space.root
    /\ r.result \in {"ok", "taken", "stopped"}
    /\ r.result = "ok" => r.space.page = [b.space.page EXCEPT ![v] = g]
    /\ r.result # "ok" => r.space.page = b.space.page
    /\ ~ override /\ r.result = "ok" => b.space.page[v] = NONE
    /\ override => r.result # "taken"
    /\ b.space.page[v] = NONE => r.result # "taken"
    /\ \A base, aside :
          Fresh(b, base, aside) =>
              /\ r.result = "ok" /\ g \in aside =>
                    Fresh(r, base, (aside \ {g}) \cup ({b.space.page[v]} \ {NONE}))
              /\ r.result = "taken" => Fresh(r, base, aside)

(* vmm_map_page: a mapping, with its table when that is missing. *)
LEMMA MapPage ==
    ASSUME NEW b \in BuildT, b.result = "ok", NULL \in b.used,
           NEW v \in VPage, NEW g \in PhysPage, NEW override \in BOOLEAN
    PROVE  Mapped(b, vmm_map_page(b, v, g, override), v, g, override)
<1> DEFINE w == WithTable(b, v)
           r == vmm_map_page(b, v, g, override)
<1>0. TableOf(v) \in Tables BY PageHasTable
<1>1. /\ w \in BuildT /\ b.used \subseteq w.used /\ NULL \in w.used
      /\ w.starved = b.starved
      /\ w.space.page = b.space.page /\ w.space.root = b.space.root
      /\ w.result \in {"ok", "stopped"}
  <2>1. /\ w \in BuildT /\ NULL \in w.used /\ w.starved = b.starved
        /\ \/ w.result = "stopped" /\ w.used = b.used /\ w.space = b.space
           \/ w = b
           \/ \E t : /\ w.result = "ok" /\ b.used \subseteq w.used
                    /\ w.space = [root |-> b.space.root, table |-> t,
                                  page |-> b.space.page]
    BY TableMade
  <2> HIDE DEF w
  <2>2. CASE \E t : /\ w.result = "ok" /\ b.used \subseteq w.used
                    /\ w.space = [root |-> b.space.root, table |-> t,
                                  page |-> b.space.page]
    BY <2>1, <2>2
  <2>3. CASE w = b BY <2>1, <2>3
  <2>4. CASE w.result = "stopped" /\ w.used = b.used /\ w.space = b.space
    BY <2>1, <2>4
  <2> QED BY <2>1, <2>2, <2>3, <2>4
<1>2. ASSUME NEW base, NEW aside, Fresh(b, base, aside), w.result # "stopped"
      PROVE  Fresh(w, base, aside)
  <2>1. CASE w = b BY <2>1, <1>2
  <2>2. CASE \E h \in Frame \ b.used :
                /\ b.space.table[TableOf(v)] = NONE
                /\ w.result = "ok" /\ w.used = b.used \cup {h}
                /\ w.space = [root |-> b.space.root,
                              table |-> [b.space.table EXCEPT ![TableOf(v)] = h],
                              page |-> b.space.page]
    <3> HIDE DEF w
    <3> QED BY <2>2, <1>0, <1>1, <1>2, TableKeepsFresh
  <2> QED BY <2>1, <2>2, <1>2, TableMade
<1>3. CASE w.result = "stopped"
  <2>1. r = w BY <1>3 DEF vmm_map_page
  <2> HIDE DEF r, w
  <2> QED BY <2>1, <1>1, <1>3 DEF r, Mapped
<1>4. CASE w.result # "stopped" /\ ~ override /\ b.space.page[v] # NONE
  <2>1. r = [w EXCEPT !.result = "taken"] BY <1>4 DEF vmm_map_page
  <2> HIDE DEF r, w
  <2>2. /\ r.used = w.used /\ r.space = w.space /\ r.result = "taken"
        /\ r.starved = w.starved /\ r \in BuildT
    BY <2>1, <1>1 DEF BuildT
  <2>3. \A base, aside : Fresh(w, base, aside) => Fresh(r, base, aside)
    BY <2>2 DEF Fresh
  <2> QED BY <2>2, <2>3, <1>1, <1>2, <1>4 DEF r, Mapped
<1>5. CASE w.result # "stopped" /\ (override \/ b.space.page[v] = NONE)
  <2>1. r = [w EXCEPT !.space.page[v] = g] BY <1>5 DEF vmm_map_page
  <2> HIDE DEF r, w
  <2>2. /\ r.used = w.used /\ r.result = "ok" /\ r.starved = w.starved
        /\ r.space = [w.space EXCEPT !.page[v] = g]
        /\ r = [used |-> r.used, space |-> r.space, result |-> r.result, starved |-> r.starved]
    BY <2>1, <1>1, <1>5 DEF BuildT
  <2>3. w.space \in SpaceT BY <1>1 DEF BuildT
  <2>4. r.space = [root |-> w.space.root, table |-> w.space.table,
                   page |-> [w.space.page EXCEPT ![v] = g]]
    BY <2>2, <2>3 DEF SpaceT
  <2>5. r.space \in SpaceT BY <2>3, <2>4 DEF SpaceT
  <2>6. r \in BuildT BY <2>2, <2>5, <1>1 DEF BuildT
  <2>7. g # NONE BY Layout
  <2>8. ASSUME NEW base, NEW aside, Fresh(b, base, aside), g \in aside
        PROVE  Fresh(r, base, (aside \ {g}) \cup ({b.space.page[v]} \ {NONE}))
    <3>1. Fresh(w, base, aside) BY <2>8, <1>2, <1>5
    <3>2. Fresh(r, base, (aside \ {g}) \cup ({w.space.page[v]} \ {NONE}))
      BY <3>1, <2>2, <2>4, <2>6, <2>7, <2>8, <1>1, MappingKeepsFresh
    <3> QED BY <3>2, <1>1
  <2> QED BY <2>2, <2>4, <2>6, <2>8, <1>1, <1>5 DEF r, Mapped
<1> QED BY <1>3, <1>4, <1>5

(* The builds every loop runs through. *)
Builds == {x \in BuildT : NULL \in x.used}

Segments == {seg \in [start : VPage, count : VPage \ {0}] : seg.start + seg.count <= VPAGES}
PagesOf(seg) == seg.start .. (seg.start + seg.count - 1)

(* What loading segments leaves of a build, the pages in "more" with it. *)
Loaded(b, r, more) ==
    /\ r \in Builds /\ r.result \in {"ok", "stopped"}
    /\ r.space.root = b.space.root
    /\ b.starved => r.starved
    /\ r.result = "ok" =>
          \A v \in VPage : r.space.page[v] # NONE <=> b.space.page[v] # NONE \/ v \in more
    /\ r.result = "ok" /\ ~ r.starved =>
          \A base : Fresh(b, base, {}) => Fresh(r, base, {})

(* load_segment: either every page of the segment ends up mapped to a frame *)
(* of its own and nothing else changes, or the kernel stops, or it was      *)
(* given NULL for memory.                                                   *)
LEMMA LoadSegment ==
    ASSUME NEW b \in Builds, b.result = "ok", NEW seg \in Segments
    PROVE  Loaded(b, load_segment(b, seg), PagesOf(seg))
<1> DEFINE N == seg.count
           got == pmm_alloc_pages(b.used, N)
           f == got.frame
           begin == [b EXCEPT !.used = got.used, !.starved = @ \/ f = NULL]
           step(x, i) == IF x.result # "ok" THEN x
                         ELSE vmm_map_page(x, seg.start + i - 1, f + i - 1, FALSE)
           Eq(m) == m = [i \in 0 .. N |-> IF i = 0 THEN begin ELSE step(m[i - 1], i)]
           mapped == CHOOSE m : Eq(m)
           r == load_segment(b, seg)
<1>a. r = IF f = NEVER THEN [b EXCEPT !.result = "stopped"]
          ELSE [mapped[N] EXCEPT !.result = IF @ = "taken" THEN "stopped" ELSE @]
  BY DEF load_segment
<1>b. ASSUME f = NEVER PROVE Loaded(b, r, PagesOf(seg))
  <2>1. r = [b EXCEPT !.result = "stopped"] BY <1>a, <1>b
  <2> HIDE DEF r
  <2>2. r \in BuildT /\ r.result = "stopped" /\ r.used = b.used /\ r.space = b.space
        /\ r.starved = b.starved
    BY <2>1 DEF Builds, BuildT
  <2> QED BY <2>2 DEF Loaded, Builds
<1> HIDE DEF r
<1> SUFFICES ASSUME f # NEVER PROVE Loaded(b, r, PagesOf(seg))
  BY <1>b DEF r
<1>1. r = [mapped[N] EXCEPT !.result = IF @ = "taken" THEN "stopped" ELSE @]
  BY <1>a
<1>2. /\ N \in Nat \ {0} /\ N <= VPAGES /\ seg.start \in Nat
      /\ \A i \in 1 .. N : seg.start + i - 1 \in VPage
  BY Layout DEF Segments, VPage
<1>3. \/ f = NULL /\ got.used = b.used
      \/ /\ f \in Frame /\ f # NULL /\ f .. (f + N - 1) \subseteq Frame \ b.used
         /\ got.used = b.used \cup (f .. (f + N - 1))
  <2> HIDE DEF N
  <2> QED BY <1>2, AllocRun DEF Builds
<1> HIDE DEF N, got, f
<1>0. f \in Nat BY <1>3, Layout
<1>4. \A i \in 1 .. N : f + i - 1 \in PhysPage
  <2>1. CASE f = NULL BY <2>1, <1>2, Layout DEF PhysPage
  <2>2. CASE f # NULL
    <3>1. \A i \in 1 .. N : f + i - 1 \in f .. (f + N - 1) BY <1>2, <1>0
    <3> QED BY <3>1, <1>3, <2>2, Layout
  <2> QED BY <2>1, <2>2
<1>5. /\ begin.used = got.used /\ begin.space = b.space /\ begin.result = "ok"
      /\ begin.starved = (b.starved \/ f = NULL)
      /\ begin \in Builds
  BY <1>3 DEF Builds, BuildT
<1>6. ASSUME NEW x \in Builds, x.result = "ok", NEW i \in 1 .. N
      PROVE  Mapped(x, step(x, i), seg.start + i - 1, f + i - 1, FALSE)
  <2>1. seg.start + i - 1 \in VPage /\ f + i - 1 \in PhysPage BY <1>2, <1>4
  <2>2. step(x, i) = vmm_map_page(x, seg.start + i - 1, f + i - 1, FALSE) BY <1>6
  <2>3. x \in BuildT /\ NULL \in x.used BY DEF Builds
  <2> HIDE DEF step
  <2> QED BY <2>1, <2>2, <2>3, <1>6, MapPage
<1>7. \A x \in Builds, i \in 1 .. N : step(x, i) \in Builds
  <2> SUFFICES ASSUME NEW x \in Builds, NEW i \in 1 .. N PROVE step(x, i) \in Builds
    OBVIOUS
  <2>1. CASE x.result # "ok" BY <2>1
  <2>2. CASE x.result = "ok"
    <3>1. Mapped(x, step(x, i), seg.start + i - 1, f + i - 1, FALSE) BY <2>2, <1>6
    <3> HIDE DEF step
    <3> QED BY <3>1 DEF Mapped, Builds
  <2> QED BY <2>1, <2>2
<1> HIDE DEF begin, step
<1>8. \E m \in [0 .. N -> Builds] : Eq(m)
  <2> DEFINE G == [i \in 1 .. N |-> [x \in Builds |-> step(x, i)]]
  <2>1. G \in [1 .. N -> [Builds -> Builds]] BY <1>7
  <2> HIDE DEF G
  <2>2. PICK m \in [0 .. N -> Builds] : IsLoop(m, N, begin, G)
    <3>1. N \in Nat /\ begin \in Builds BY <1>2, <1>5
    <3> QED BY <2>1, <3>1, LoopExists
  <2>3. \A i \in 0 .. N : i # 0 => i \in 1 .. N /\ m[i - 1] \in Builds BY <1>2
  <2>4. \A i \in 0 .. N : i # 0 => G[i][m[i - 1]] = step(m[i - 1], i) BY <2>3 DEF G
  <2>5. [i \in 0 .. N |-> IF i = 0 THEN begin ELSE G[i][m[i - 1]]]
           = [i \in 0 .. N |-> IF i = 0 THEN begin ELSE step(m[i - 1], i)]
    BY <2>4
  <2> QED BY <2>2, <2>5 DEF IsLoop
<1>9. Eq(mapped)
  <2> HIDE DEF Eq
  <2> QED BY <1>8
<1> HIDE DEF mapped
<1>10. mapped[0] = begin /\ \A i \in 1 .. N : mapped[i] = step(mapped[i - 1], i)
  BY <1>9, <1>2
<1> HIDE DEF Eq
<1> DEFINE J(n) ==
        /\ mapped[n] \in Builds /\ mapped[n].result \in {"ok", "taken", "stopped"}
        /\ mapped[n].space.root = b.space.root
        /\ mapped[n].starved = begin.starved
        /\ mapped[n].result = "ok" =>
              /\ \A v \in VPage : mapped[n].space.page[v] # NONE <=>
                    b.space.page[v] # NONE \/ v \in seg.start .. (seg.start + n - 1)
              /\ f # NULL => \A base : Fresh(b, base, {}) =>
                                Fresh(mapped[n], base, (f + n) .. (f + N - 1))
<1>11. J(0)
  <2>1. \A v \in VPage : v \notin seg.start .. (seg.start + 0 - 1) BY <1>2, Layout
  <2>2. ASSUME NEW base, f # NULL, Fresh(b, base, {})
        PROVE  Fresh(begin, base, (f + 0) .. (f + N - 1))
    <3>1. f + 0 = f BY <1>0
    <3>2. f .. (f + N - 1) \subseteq Frame \ b.used BY <1>3, <2>2
    <3>3. begin.used = b.used \cup (f .. (f + N - 1)) BY <1>3, <1>5, <2>2
    <3> QED BY <3>1, <3>2, <3>3, <2>2, <1>5 DEF Fresh
  <2> QED BY <2>1, <2>2, <1>5, <1>10
<1>12. ASSUME NEW n \in Nat, n + 1 <= N, J(n) PROVE J(n + 1)
  <2> DEFINE x == mapped[n]
             y == mapped[n + 1]
             v == seg.start + n
             g == f + n
  <2>1. n + 1 \in 1 .. N /\ (n + 1) - 1 = n BY <1>12, <1>2
  <2>2. y = step(x, n + 1) BY <2>1, <1>10
  <2>3. CASE x.result # "ok"
    <3>1. y = x BY <2>2, <2>3 DEF step
    <3> QED BY <3>1, <2>3, <1>12
  <2>4. CASE x.result = "ok"
    <3>1. v \in VPage /\ seg.start + (n + 1) - 1 = v /\ f + (n + 1) - 1 = g
          /\ v \in Nat /\ f \in Nat
      <4>1. seg.start + (n + 1) - 1 = v /\ f + (n + 1) - 1 = g /\ v \in Nat
        BY <1>0, <1>2
      <4> QED BY <4>1, <1>0, <2>1, <1>2
    <3> HIDE DEF v, g, x, y, J
    <3>2. x \in Builds BY <1>12 DEF J, x
    <3>3. Mapped(x, y, v, g, FALSE)
      BY <1>6, <2>1, <2>2, <2>4, <3>1, <3>2
    <3>4. /\ y \in Builds /\ y.result \in {"ok", "taken", "stopped"}
          /\ y.space.root = x.space.root /\ y.starved = x.starved
          /\ y.result = "ok" => y.space.page = [x.space.page EXCEPT ![v] = g]
          /\ y.result = "ok" => x.space.page[v] = NONE
      BY <3>3 DEF Mapped, Builds
    <3>5. ASSUME y.result = "ok", NEW w \in VPage
          PROVE  y.space.page[w] # NONE <=>
                    b.space.page[w] # NONE \/ w \in seg.start .. (seg.start + (n + 1) - 1)
      <4>1. x.space.page \in [VPage -> PhysPage \cup {NONE}] BY <3>2 DEF Builds, BuildT, SpaceT
      <4>2. y.space.page[w] = IF w = v THEN g ELSE x.space.page[w]
        BY <4>1, <3>4, <3>5, <3>1
      <4>3. g # NONE BY <3>1, <1>12 DEF g
      <4>4. x.space.page[w] # NONE <=>
                b.space.page[w] # NONE \/ w \in seg.start .. (seg.start + n - 1)
        BY <1>12, <2>4 DEF J, x
      <4>5. w \in seg.start .. (seg.start + (n + 1) - 1) <=>
                w = v \/ w \in seg.start .. (seg.start + n - 1)
        BY <1>2, <3>1, Layout DEF v
      <4> QED BY <4>2, <4>3, <4>4, <4>5
    <3>6. ASSUME y.result = "ok", f # NULL, NEW base, Fresh(b, base, {})
          PROVE  Fresh(y, base, (f + (n + 1)) .. (f + N - 1))
      <4>1. Fresh(x, base, (f + n) .. (f + N - 1)) BY <3>6, <1>12, <2>4 DEF J, x
      <4>2. g \in (f + n) .. (f + N - 1) BY <3>1, <1>12, <1>2 DEF g
      <4>3. Fresh(y, base, (((f + n) .. (f + N - 1)) \ {g}) \cup ({x.space.page[v]} \ {NONE}))
        BY <4>1, <4>2, <3>3, <3>6 DEF Mapped
      <4>4. (((f + n) .. (f + N - 1)) \ {g}) \cup ({x.space.page[v]} \ {NONE})
               = (f + (n + 1)) .. (f + N - 1)
        BY <3>1, <3>4, <3>6, <1>2 DEF g
      <4> QED BY <4>3, <4>4
    <3> QED BY <3>4, <3>5, <3>6, <1>12 DEF J, x, y
  <2> QED BY <2>3, <2>4
<1>13. J(N)
  <2> DEFINE S == {n \in Nat : n <= N => J(n)}
  <2> HIDE DEF J
  <2>1. 0 \in S BY <1>11
  <2>2. \A n \in Nat : n \in S => n + 1 \in S BY <1>12, <1>2
  <2> HIDE DEF S
  <2>3. Nat \subseteq S BY <2>1, <2>2, IndexInduction
  <2> QED BY <2>3, <1>2 DEF S
<1>14. /\ r \in Builds /\ r.space = mapped[N].space /\ r.used = mapped[N].used
       /\ r.starved = mapped[N].starved
       /\ r.result = IF mapped[N].result = "taken" THEN "stopped" ELSE mapped[N].result
  <2>1. mapped[N] \in Builds BY <1>13
  <2> HIDE DEF r, J
  <2> QED BY <2>1, <1>1 DEF Builds, BuildT
<1>15. \A base : Fresh(mapped[N], base, {}) => Fresh(r, base, {})
  <2> HIDE DEF r
  <2> QED BY <1>14 DEF Fresh
<1>16. f # NULL => (f + N) .. (f + N - 1) = {} BY <1>0, <1>2
<1>17. seg.start .. (seg.start + N - 1) = PagesOf(seg) BY DEF PagesOf, N
<1> HIDE DEF r
<1> QED BY <1>5, <1>13, <1>14, <1>15, <1>16, <1>17 DEF Loaded, r

(* Loading two things one after the other. *)
LEMMA LoadedTransitive ==
    ASSUME NEW b \in Builds, NEW x, NEW y, NEW first, NEW second,
           Loaded(b, x, first), x.result = "ok", Loaded(x, y, second)
    PROVE  Loaded(b, y, first \cup second)
<1>1. x \in Builds /\ y \in Builds /\ y.result \in {"ok", "stopped"} BY DEF Loaded
<1>2. x.starved \in BOOLEAN /\ y.starved \in BOOLEAN /\ b.starved \in BOOLEAN
  BY <1>1 DEF Builds, BuildT
<1>3. y.space.root = b.space.root /\ (b.starved => y.starved) /\ (x.starved => y.starved)
  BY DEF Loaded
<1>4. ASSUME y.result = "ok", NEW v \in VPage
      PROVE  y.space.page[v] # NONE <=> b.space.page[v] # NONE \/ v \in first \cup second
  BY <1>4 DEF Loaded
<1>5. ASSUME y.result = "ok", ~ y.starved, NEW base, Fresh(b, base, {})
      PROVE  Fresh(y, base, {})
  <2>1. Fresh(x, base, {}) BY <1>3, <1>5 DEF Loaded
  <2> QED BY <2>1, <1>5 DEF Loaded
<1> QED BY <1>1, <1>3, <1>4, <1>5 DEF Loaded

ImagePages(image) == {v \in VPage : \E k \in 1 .. Len(image) : v \in PagesOf(image[k])}

(* load_binary_segments: the segments in order, up to the one that fails. *)
LEMMA LoadSegments ==
    ASSUME NEW b \in Builds, b.result = "ok", NEW image \in Seq(Segments)
    PROVE  Loaded(b, load_binary_segments(b, image), ImagePages(image))
<1> DEFINE N == Len(image)
           step(x, k) == IF x.result # "ok" THEN x ELSE load_segment(x, image[k])
           Eq(l) == l = [k \in 0 .. N |-> IF k = 0 THEN b ELSE step(l[k - 1], k)]
           loaded == CHOOSE l : Eq(l)
<1>1. load_binary_segments(b, image) = loaded[N] BY DEF load_binary_segments
<1>2. N \in Nat /\ \A k \in 1 .. N : image[k] \in Segments OBVIOUS
<1> HIDE DEF N
<1>3. \A x \in Builds, k \in 1 .. N :
          x.result = "ok" => Loaded(x, step(x, k), PagesOf(image[k]))
  BY <1>2, LoadSegment
<1>4. \A x \in Builds, k \in 1 .. N : step(x, k) \in Builds
  <2> SUFFICES ASSUME NEW x \in Builds, NEW k \in 1 .. N PROVE step(x, k) \in Builds
    OBVIOUS
  <2>1. CASE x.result # "ok" BY <2>1
  <2>2. CASE x.result = "ok"
    <3>1. Loaded(x, step(x, k), PagesOf(image[k])) BY <2>2, <1>3
    <3> HIDE DEF step
    <3> QED BY <3>1 DEF Loaded
  <2> QED BY <2>1, <2>2
<1> HIDE DEF step
<1>5. \E l \in [0 .. N -> Builds] : Eq(l)
  <2> DEFINE G == [k \in 1 .. N |-> [x \in Builds |-> step(x, k)]]
  <2>1. G \in [1 .. N -> [Builds -> Builds]] BY <1>4
  <2> HIDE DEF G
  <2>2. PICK l \in [0 .. N -> Builds] : IsLoop(l, N, b, G)
    BY <2>1, <1>2, LoopExists
  <2>3. \A k \in 0 .. N : k # 0 => k \in 1 .. N /\ l[k - 1] \in Builds BY <1>2
  <2>4. \A k \in 0 .. N : k # 0 => G[k][l[k - 1]] = step(l[k - 1], k) BY <2>3 DEF G
  <2>5. [k \in 0 .. N |-> IF k = 0 THEN b ELSE G[k][l[k - 1]]]
           = [k \in 0 .. N |-> IF k = 0 THEN b ELSE step(l[k - 1], k)]
    BY <2>4
  <2> QED BY <2>2, <2>5 DEF IsLoop
<1>6. Eq(loaded)
  <2> HIDE DEF Eq
  <2> QED BY <1>5
<1> HIDE DEF loaded
<1>7. loaded[0] = b /\ \A k \in 1 .. N : loaded[k] = step(loaded[k - 1], k)
  BY <1>6, <1>2
<1> HIDE DEF Eq
<1> DEFINE upto(n) == {v \in VPage : \E k \in 1 .. n : v \in PagesOf(image[k])}
           J(n) == Loaded(b, loaded[n], upto(n))
<1>8. J(0)
  <2>1. upto(0) = {} OBVIOUS
  <2> HIDE DEF upto
  <2> QED BY <2>1, <1>7 DEF Loaded
<1>9. ASSUME NEW n \in Nat, n + 1 <= N, J(n) PROVE J(n + 1)
  <2>1. n + 1 \in 1 .. N /\ (n + 1) - 1 = n BY <1>9, <1>2
  <2>2. loaded[n + 1] = step(loaded[n], n + 1) BY <2>1, <1>7
  <2>3. loaded[n] \in Builds BY <1>9 DEF Loaded
  <2>4. upto(n + 1) = upto(n) \cup {v \in VPage : v \in PagesOf(image[n + 1])}
    <3>1. \A k \in 1 .. (n + 1) : k = n + 1 \/ k \in 1 .. n OBVIOUS
    <3>2. n + 1 \in 1 .. (n + 1) /\ \A k \in 1 .. n : k \in 1 .. (n + 1) OBVIOUS
    <3> QED BY <3>1, <3>2
  <2> HIDE DEF upto
  <2>5. CASE loaded[n].result # "ok"
    <3>1. loaded[n + 1] = loaded[n] BY <2>2, <2>5 DEF step
    <3> QED BY <3>1, <2>5, <1>9 DEF Loaded
  <2>6. CASE loaded[n].result = "ok"
    <3>1. Loaded(loaded[n], loaded[n + 1], PagesOf(image[n + 1])) BY <2>1, <2>2, <2>3, <2>6, <1>3
    <3>2. Loaded(b, loaded[n + 1], upto(n) \cup PagesOf(image[n + 1]))
      BY <3>1, <2>6, <1>9, LoadedTransitive
    <3> QED BY <3>2, <2>4 DEF Loaded
  <2> QED BY <2>5, <2>6
<1>10. J(N)
  <2> DEFINE S == {n \in Nat : n <= N => J(n)}
  <2> HIDE DEF J
  <2>1. 0 \in S BY <1>8
  <2>2. \A n \in Nat : n \in S => n + 1 \in S BY <1>9, <1>2
  <2> HIDE DEF S
  <2>3. Nat \subseteq S BY <2>1, <2>2, IndexInduction
  <2> QED BY <2>3, <1>2 DEF S
<1> QED BY <1>1, <1>10 DEF ImagePages, N

(* What LoadProgram returns, started on bitmap u. *)
ProgramLoaded(u, image, override, b) ==
    /\ b \in Builds /\ b.result \in {"ok", "taken", "stopped"}
    /\ override => b.result # "taken"
    /\ b.result = "ok" =>
          \A v \in VPage : b.space.page[v] # NONE <=> v = Stack \/ v \in ImagePages(image)
    /\ b.result = "ok" /\ ~ b.starved /\ (override => Stack \notin ImagePages(image)) =>
          Fresh(b, u, {})
    /\ b.result = "taken" /\ ~ b.starved => \E g \in Frame : Fresh(b, u, {g})

(* A program loaded into a new space: all of its pages and its stack mapped *)
(* to frames nobody used, or a stop, or an unchecked NULL, or, when its     *)
(* last page is where the stack goes, a frame left over.                    *)
LEMMA ProgramLoads ==
    ASSUME NEW u \in SUBSET Frame, NULL \in u, NEW image \in Seq(Segments),
           NEW override \in BOOLEAN
    PROVE  ProgramLoaded(u, image, override, LoadProgram(u, image, override))
<1> DEFINE root == pmm_alloc_page(u)
           empty == Build(root.used, EmptySpace(root.frame))
           loaded == load_binary_segments(empty, image)
           stack == pmm_alloc_page(loaded.used)
           ready == [loaded EXCEPT !.used = stack.used, !.starved = @ \/ stack.frame = NULL]
           r == LoadProgram(u, image, override)
<1>1. \/ root.frame = NULL /\ root.used = u
      \/ /\ root.frame \in Frame \ u /\ root.frame # NULL
         /\ root.used = u \cup {root.frame}
  BY AllocPage
<1>2. root.frame \in Frame BY <1>1, Layout
<1>3. \A f \in Frame : EmptySpace(f) \in SpaceT BY DEF EmptySpace, SpaceT
<1>4. CASE root.frame = NULL
  <2>1. r = [Build(root.used, EmptySpace(NULL)) EXCEPT !.result = "stopped"]
    BY <1>4 DEF LoadProgram
  <2>2. EmptySpace(NULL) \in SpaceT BY <1>3, Layout
  <2> HIDE DEF r, root
  <2>3. r \in Builds /\ r.result = "stopped" BY <2>1, <2>2, <1>1, <1>4 DEF Build, Builds, BuildT
  <2> QED BY <2>3 DEF ProgramLoaded, r
<1>5. CASE root.frame # NULL
  <2> DEFINE R == root.frame
  <2>1. empty \in Builds /\ empty.result = "ok" /\ empty.starved = FALSE
        /\ empty.space = EmptySpace(R) /\ empty.used = u \cup {R}
    <3>1. EmptySpace(R) \in SpaceT BY <1>2, <1>3
    <3> HIDE DEF root
    <3> QED BY <3>1, <1>1, <1>5 DEF Build, Builds, BuildT
  <2>2. Fresh(empty, u, {})
    <3>1. Exact(EmptySpace(R)) BY <1>2, Layout DEF Exact, EmptySpace
    <3>2. FramesOf(EmptySpace(R)) = {R} BY DEF FramesOf, EmptySpace, Range
    <3> HIDE DEF root, empty
    <3> QED BY <3>1, <3>2, <2>1, <1>1, <1>5 DEF Fresh
  <2>3. \A v \in VPage : empty.space.page[v] = NONE BY <2>1 DEF EmptySpace
  <2>4. r = IF loaded.result # "ok" THEN loaded
            ELSE vmm_map_page(ready, Stack, stack.frame, override)
    BY <1>5 DEF LoadProgram
  <2> HIDE DEF root, empty
  <2>5. Loaded(empty, loaded, ImagePages(image)) BY <2>1, LoadSegments
  <2> HIDE DEF loaded
  <2>6. CASE loaded.result # "ok"
    <3>1. r = loaded BY <2>4, <2>6
    <3> HIDE DEF r
    <3> QED BY <3>1, <2>5, <2>6 DEF Loaded, ProgramLoaded, r
  <2>7. CASE loaded.result = "ok"
    <3>1. r = vmm_map_page(ready, Stack, stack.frame, override) BY <2>4, <2>7
    <3>2. loaded \in Builds BY <2>5 DEF Loaded
    <3>3. \/ stack.frame = NULL /\ stack.used = loaded.used
          \/ /\ stack.frame \in Frame \ loaded.used /\ stack.frame # NULL
             /\ stack.used = loaded.used \cup {stack.frame}
      BY <3>2, AllocPage DEF Builds
    <3>4. stack.frame \in Frame /\ stack.frame \in PhysPage BY <3>3, Layout
    <3> HIDE DEF stack
    <3>5. /\ ready \in Builds /\ ready.used = stack.used /\ ready.space = loaded.space
          /\ ready.result = "ok" /\ ready.starved = (loaded.starved \/ stack.frame = NULL)
      BY <3>2, <3>3, <2>7 DEF Builds, BuildT
    <3> HIDE DEF ready, r
    <3>6. Mapped(ready, r, Stack, stack.frame, override)
      BY <3>1, <3>4, <3>5, Layout, MapPage DEF Builds
    <3>7. /\ r \in Builds /\ r.result \in {"ok", "taken", "stopped"} /\ r.starved = ready.starved
          /\ override => r.result # "taken"
      BY <3>6 DEF Mapped, Builds
    <3>8. \A v \in VPage : ready.space.page[v] # NONE <=> v \in ImagePages(image)
      BY <2>3, <2>5, <2>7, <3>5 DEF Loaded
    <3>9. ASSUME r.result = "ok", NEW v \in VPage
          PROVE  r.space.page[v] # NONE <=> v = Stack \/ v \in ImagePages(image)
      <4>1. ready.space.page \in [VPage -> PhysPage \cup {NONE}] BY <3>5 DEF Builds, BuildT, SpaceT
      <4>2. r.space.page = [ready.space.page EXCEPT ![Stack] = stack.frame]
        BY <3>6, <3>9 DEF Mapped
      <4>3. r.space.page[v] = IF v = Stack THEN stack.frame ELSE ready.space.page[v]
        BY <4>1, <4>2
      <4>4. stack.frame # NONE BY <3>4, Layout
      <4> QED BY <4>3, <4>4, <3>8
    <3>10. ASSUME ~ r.starved
           PROVE  Fresh(ready, u, {stack.frame})
      <4>1. ~ loaded.starved /\ stack.frame # NULL BY <3>2, <3>5, <3>7, <3>10 DEF Builds, BuildT
      <4>2. Fresh(loaded, u, {}) BY <4>1, <2>2, <2>5, <2>7 DEF Loaded
      <4> QED BY <4>1, <4>2, <3>3, <3>5 DEF Fresh
    <3>11. ASSUME r.result = "ok", ~ r.starved, override => Stack \notin ImagePages(image)
           PROVE  Fresh(r, u, {})
      <4>1. Fresh(r, u, ({stack.frame} \ {stack.frame}) \cup ({ready.space.page[Stack]} \ {NONE}))
        BY <3>6, <3>10, <3>11 DEF Mapped
      <4>2. ready.space.page[Stack] = NONE BY <3>6, <3>8, <3>11, Layout DEF Mapped
      <4>3. ({stack.frame} \ {stack.frame}) \cup ({ready.space.page[Stack]} \ {NONE}) = {}
        BY <4>2
      <4> QED BY <4>1, <4>3
    <3>12. ASSUME r.result = "taken", ~ r.starved PROVE Fresh(r, u, {stack.frame})
      BY <3>6, <3>10, <3>12 DEF Mapped
    <3> QED BY <3>4, <3>7, <3>9, <3>11, <3>12 DEF ProgramLoaded, r
  <2> QED BY <2>6, <2>7
<1> QED BY <1>4, <1>5

(* One page of syscall_brk_handler's loop. *)
LEMMA GrowByPage ==
    ASSUME NEW b \in Builds, b.result = "ok", NEW v \in VPage
    PROVE  LET r == GrowBy(b, v) IN
           /\ r \in Builds /\ r.result \in {"ok", "full", "stopped"} /\ r.starved = b.starved
           /\ r.space.root = b.space.root /\ b.used \subseteq r.used
           /\ r.result = "full" => r.used = b.used /\ r.space = b.space
           /\ r.result = "ok" => /\ r.space.page[v] # NONE
                                 /\ \A w \in VPage \ {v} : r.space.page[w] = b.space.page[w]
           /\ \A base, aside :
                 r.result = "ok" /\ Fresh(b, base, aside) =>
                     Fresh(r, base, aside \cup ({b.space.page[v]} \ {NONE}))
<1> DEFINE got == pmm_alloc_page(b.used)
           x == [b EXCEPT !.used = got.used]
           r == GrowBy(b, v)
<1>1. CASE got.frame = NULL
  <2>1. r = [b EXCEPT !.result = "full"] BY <1>1 DEF GrowBy
  <2> HIDE DEF r
  <2>2. /\ r.used = b.used /\ r.space = b.space /\ r.result = "full" /\ r.starved = b.starved
        /\ r \in Builds
    BY <2>1 DEF Builds, BuildT
  <2> QED BY <2>2 DEF r
<1>2. CASE got.frame # NULL
  <2>1. got.frame \in Frame \ b.used /\ got.used = b.used \cup {got.frame}
    BY <1>2, AllocPage DEF Builds
  <2>2. r = vmm_map_page(x, v, got.frame, TRUE) BY <1>2 DEF GrowBy
  <2> HIDE DEF got, r
  <2>3. /\ x \in Builds /\ x.used = got.used /\ x.space = b.space /\ x.result = "ok"
        /\ x.starved = b.starved
    BY <2>1 DEF Builds, BuildT
  <2> HIDE DEF x
  <2>4. got.frame \in PhysPage /\ got.frame # NONE BY <2>1, Layout
  <2>5. Mapped(x, r, v, got.frame, TRUE) BY <2>2, <2>3, <2>4, MapPage DEF Builds
  <2>6. /\ r \in Builds /\ r.result \in {"ok", "stopped"} /\ r.starved = b.starved
        /\ r.space.root = b.space.root /\ b.used \subseteq r.used
    BY <2>1, <2>3, <2>5 DEF Mapped, Builds
  <2>7. r.result = "ok" => /\ r.space.page[v] # NONE
                           /\ \A w \in VPage \ {v} : r.space.page[w] = b.space.page[w]
    <3>1. b.space.page \in [VPage -> PhysPage \cup {NONE}] BY DEF Builds, BuildT, SpaceT
    <3>2. r.result = "ok" => r.space.page = [b.space.page EXCEPT ![v] = got.frame]
      BY <2>3, <2>5 DEF Mapped
    <3> QED BY <3>1, <3>2, <2>4
  <2>8. ASSUME NEW base, NEW aside, r.result = "ok", Fresh(b, base, aside)
        PROVE  Fresh(r, base, aside \cup ({b.space.page[v]} \ {NONE}))
    <3> DEFINE more == aside \cup {got.frame}
    <3>1. Fresh(x, base, more) BY <2>1, <2>3, <2>8 DEF Fresh
    <3>2. Fresh(r, base, (more \ {got.frame}) \cup ({b.space.page[v]} \ {NONE}))
      BY <3>1, <2>3, <2>5, <2>8 DEF Mapped
    <3>3. more \ {got.frame} = aside BY <2>1, <2>8 DEF Fresh
    <3> QED BY <3>2, <3>3
  <2> QED BY <2>6, <2>7, <2>8 DEF r
<1> QED BY <1>1, <1>2

(* What a heap that grew keeps: the pages it did not reach are as they were, *)
(* those it passed are mapped, and what is set aside was mapped over.        *)
HeapGrown(b, r, first, count) ==
    /\ r \in Builds /\ r.result \in {"ok", "full", "stopped"} /\ r.starved = b.starved
    /\ r.space.root = b.space.root /\ b.used \subseteq r.used
    /\ r.result # "stopped" =>
          /\ \E n \in 0 .. count :
                /\ r.result = "ok" => n = count
                /\ \A v \in VPage :
                      /\ v \in first .. (first + n - 1) => r.space.page[v] # NONE
                      /\ v \notin first .. (first + n - 1) => r.space.page[v] = b.space.page[v]
          /\ \A base : Fresh(b, base, {}) =>
                \E aside \in SUBSET FramesOf(b.space) : Fresh(r, base, aside)

(* The loop of syscall_brk_handler. *)
LEMMA HeapGrows ==
    ASSUME NEW b \in Builds, b.result = "ok", NEW first \in Nat, NEW count \in Nat,
           first + count <= VPAGES
    PROVE  HeapGrown(b, Grow(b, first, count), first, count)
<1> DEFINE N == count
           step(x, i) == IF x.result # "ok" THEN x ELSE GrowBy(x, first + i - 1)
           Eq(m) == m = [i \in 0 .. N |-> IF i = 0 THEN b ELSE step(m[i - 1], i)]
           grown == CHOOSE m : Eq(m)
<1>1. Grow(b, first, count) = grown[N] BY DEF Grow
<1>2. N \in Nat /\ \A i \in 1 .. N : first + i - 1 \in VPage BY Layout DEF VPage
<1> HIDE DEF N
<1>3. \A x \in Builds, i \in 1 .. N : step(x, i) \in Builds BY <1>2, GrowByPage
<1> HIDE DEF step
<1>4. \E m \in [0 .. N -> Builds] : Eq(m)
  <2> DEFINE G == [i \in 1 .. N |-> [x \in Builds |-> step(x, i)]]
  <2>1. G \in [1 .. N -> [Builds -> Builds]] BY <1>3
  <2> HIDE DEF G
  <2>2. PICK m \in [0 .. N -> Builds] : IsLoop(m, N, b, G)
    BY <2>1, <1>2, LoopExists
  <2>3. \A i \in 0 .. N : i # 0 => i \in 1 .. N /\ m[i - 1] \in Builds BY <1>2
  <2>4. \A i \in 0 .. N : i # 0 => G[i][m[i - 1]] = step(m[i - 1], i) BY <2>3 DEF G
  <2>5. [i \in 0 .. N |-> IF i = 0 THEN b ELSE G[i][m[i - 1]]]
           = [i \in 0 .. N |-> IF i = 0 THEN b ELSE step(m[i - 1], i)]
    BY <2>4
  <2> QED BY <2>2, <2>5 DEF IsLoop
<1>5. Eq(grown)
  <2> HIDE DEF Eq
  <2> QED BY <1>4
<1> HIDE DEF grown
<1>6. grown[0] = b /\ \A i \in 1 .. N : grown[i] = step(grown[i - 1], i)
  BY <1>5, <1>2
<1> HIDE DEF Eq
<1> DEFINE J(n) == HeapGrown(b, grown[n], first, n)
<1>7. J(0)
  <2>1. \A v \in VPage : v \notin first .. (first + 0 - 1) BY Layout
  <2>2. 0 \in 0 .. 0 OBVIOUS
  <2>3. \A base : Fresh(b, base, {}) =>
           \E aside \in SUBSET FramesOf(b.space) : Fresh(b, base, aside)
    OBVIOUS
  <2> QED BY <2>1, <2>2, <2>3, <1>6 DEF HeapGrown
<1>8. ASSUME NEW n \in Nat, n + 1 <= N, J(n) PROVE J(n + 1)
  <2> DEFINE x == grown[n]
             y == grown[n + 1]
             v == first + n
  <2>1. n + 1 \in 1 .. N /\ (n + 1) - 1 = n BY <1>8, <1>2
  <2>2. y = step(x, n + 1) BY <2>1, <1>6
  <2>3. first + (n + 1) - 1 = v /\ v \in VPage /\ v \in Nat
    <3>1. first + (n + 1) - 1 = v /\ v \in Nat OBVIOUS
    <3> QED BY <3>1, <2>1, <1>2
  <2>4. x \in Builds BY <1>8 DEF HeapGrown
  <2> HIDE DEF x, y
  <2>5. CASE x.result # "ok"
    <3>1. y = x BY <2>2, <2>5 DEF step
    <3>2. \A k \in 0 .. n : k \in 0 .. (n + 1) OBVIOUS
    <3>3. x.result # "stopped" =>
            \E k \in 0 .. (n + 1) :
               \A w \in VPage :
                  /\ w \in first .. (first + k - 1) => x.space.page[w] # NONE
                  /\ w \notin first .. (first + k - 1) => x.space.page[w] = b.space.page[w]
      BY <3>2, <1>8 DEF HeapGrown, x
    <3>4. HeapGrown(b, x, first, n + 1) BY <3>3, <2>5, <1>8 DEF HeapGrown, x
    <3> QED BY <3>1, <3>4 DEF y
  <2>6. CASE x.result = "ok"
    <3>0. y = GrowBy(x, v) BY <2>2, <2>3, <2>6 DEF step
    <3>1. /\ y \in Builds /\ y.result \in {"ok", "full", "stopped"} /\ y.starved = x.starved
          /\ y.space.root = x.space.root /\ x.used \subseteq y.used
          /\ y.result = "full" => y.used = x.used /\ y.space = x.space
          /\ y.result = "ok" => /\ y.space.page[v] # NONE
                                /\ \A w \in VPage \ {v} : y.space.page[w] = x.space.page[w]
          /\ \A base, aside :
                y.result = "ok" /\ Fresh(x, base, aside) =>
                    Fresh(y, base, aside \cup ({x.space.page[v]} \ {NONE}))
      BY <3>0, <2>3, <2>4, <2>6, GrowByPage
    <3>2. \A w \in VPage :
             /\ w \in first .. (first + n - 1) => x.space.page[w] # NONE
             /\ w \notin first .. (first + n - 1) => x.space.page[w] = b.space.page[w]
      BY <1>8, <2>6 DEF HeapGrown, x
    <3>3. x.space.page[v] = b.space.page[v]
      <4>1. v \notin first .. (first + n - 1) OBVIOUS
      <4> QED BY <4>1, <3>2, <2>3
    <3>4. \A base : Fresh(b, base, {}) =>
             \E aside \in SUBSET FramesOf(b.space) : Fresh(x, base, aside)
      BY <1>8, <2>6 DEF HeapGrown, x
    <3>5. y.starved = b.starved /\ y.space.root = b.space.root /\ b.used \subseteq y.used
      BY <3>1, <1>8 DEF HeapGrown, x
    <3>6. CASE y.result = "stopped" BY <3>6, <3>1, <3>5 DEF HeapGrown, y
    <3>7. CASE y.result = "full"
      <4>1. n \in 0 .. (n + 1) OBVIOUS
      <4>2. \A base, aside : Fresh(x, base, aside) => Fresh(y, base, aside)
        BY <3>1, <3>7 DEF Fresh
      <4> QED BY <3>1, <3>2, <3>4, <3>5, <3>7, <4>1, <4>2 DEF HeapGrown, y
    <3>8. CASE y.result = "ok"
      <4>1. n + 1 \in 0 .. (n + 1) OBVIOUS
      <4>2. ASSUME NEW w \in VPage
            PROVE  /\ w \in first .. (first + (n + 1) - 1) => y.space.page[w] # NONE
                   /\ w \notin first .. (first + (n + 1) - 1) =>
                         y.space.page[w] = b.space.page[w]
        <5>1. w \in first .. (first + (n + 1) - 1) <=>
                 w = v \/ w \in first .. (first + n - 1)
          BY Layout
        <5> QED BY <5>1, <3>1, <3>2, <3>8
      <4>3. ASSUME NEW base, Fresh(b, base, {})
            PROVE  \E aside \in SUBSET FramesOf(b.space) : Fresh(y, base, aside)
        <5>1. PICK aside \in SUBSET FramesOf(b.space) : Fresh(x, base, aside) BY <4>3, <3>4
        <5>2. Fresh(y, base, aside \cup ({b.space.page[v]} \ {NONE}))
          BY <5>1, <3>1, <3>3, <3>8
        <5>3. b.space.page[v] # NONE => b.space.page[v] \in FramesOf(b.space)
          BY <2>3, FramesPointwise DEF Builds, BuildT
        <5> QED BY <5>2, <5>3
      <4> QED BY <3>1, <3>5, <3>8, <4>1, <4>2, <4>3 DEF HeapGrown, y
    <3> QED BY <3>1, <3>6, <3>7, <3>8
  <2> QED BY <2>5, <2>6
<1>9. J(N)
  <2> DEFINE S == {n \in Nat : n <= N => J(n)}
  <2> HIDE DEF J
  <2>1. 0 \in S BY <1>7
  <2>2. \A n \in Nat : n \in S => n + 1 \in S BY <1>8, <1>2
  <2> HIDE DEF S
  <2>3. Nat \subseteq S BY <2>1, <2>2, IndexInduction
  <2> QED BY <2>3, <1>2 DEF S
<1> QED BY <1>1, <1>9 DEF N

-----------------------------------------------------------------------------
(* Cloning. *)

(* The entries of a space are finitely many pairs of integers. *)
LEMMA NodeFacts ==
    ASSUME NEW s \in SpaceT
    PROVE  /\ IsFiniteSet(Nodes(s))
           /\ \A n \in Nodes(s) : n[1] \in Int /\ n[2] \in Int /\ n = <<n[1], n[2]>>
<1> DEFINE T == {x \in Tables : s.table[x] # NONE}
           V == {x \in VPage : s.page[x] # NONE}
           TN == {<<t, NONE>> : t \in T}
           VN == {<<TableOf(v), v>> : v \in V}
<1>1. Tables \subseteq Int /\ IsFiniteSet(Tables)
  <2>1. (VPAGES - 1) \div FANOUT \in Int BY LayoutAssumption
  <2>2. 0 \in Int OBVIOUS
  <2>3. IsFiniteSet(0 .. ((VPAGES - 1) \div FANOUT)) BY <2>1, <2>2, FS_Interval
  <2> QED BY <2>1, <2>3 DEF Tables
<1>2. VPage \subseteq Int /\ IsFiniteSet(VPage)
  <2>1. VPAGES - 1 \in Int BY LayoutAssumption
  <2>2. 0 \in Int OBVIOUS
  <2>3. IsFiniteSet(0 .. (VPAGES - 1)) BY <2>1, <2>2, FS_Interval
  <2> QED BY <2>3 DEF VPage
<1>3. IsFiniteSet(T) /\ IsFiniteSet(V)
  <2>1. T \subseteq Tables /\ V \subseteq VPage OBVIOUS
  <2> HIDE DEF T, V
  <2> QED BY <2>1, <1>1, <1>2, FS_Subset
<1>4. Nodes(s) = TN \cup VN BY DEF Nodes
<1>5. \A v \in VPage : TableOf(v) \in Int BY <1>1, PageHasTable
<1>6. \A n \in Nodes(s) : n[1] \in Int /\ n[2] \in Int /\ n = <<n[1], n[2]>>
  <2>1. \A n \in TN : n[1] \in Int /\ n[2] \in Int /\ n = <<n[1], n[2]>> BY <1>1
  <2>2. \A n \in VN : n[1] \in Int /\ n[2] \in Int /\ n = <<n[1], n[2]>> BY <1>2, <1>5
  <2> QED BY <2>1, <2>2, <1>4
<1>7. IsFiniteSet(TN)
  <2> DEFINE f == [t \in T |-> <<t, NONE>>]
  <2>1. f \in Surjection(T, TN) BY DEF Surjection
  <2> QED BY <2>1, <1>3, FS_Surjection
<1>8. IsFiniteSet(VN)
  <2> DEFINE f == [v \in V |-> <<TableOf(v), v>>]
  <2>1. f \in Surjection(V, VN) BY DEF Surjection
  <2> QED BY <2>1, <1>3, FS_Surjection
<1> HIDE DEF TN, VN
<1>9. IsFiniteSet(Nodes(s)) BY <1>4, <1>7, <1>8, FS_Union
<1> QED BY <1>6, <1>9

(* recursive_pagemap_clone copies the entries one after the other. *)
LEMMA RankInjective ==
    ASSUME NEW s \in SpaceT, NEW n \in Nodes(s), NEW m \in Nodes(s)
    PROVE  /\ Rank(s, n) \in Nat \ {0}
           /\ Rank(s, n) = Rank(s, m) => n = m
<1> DEFINE Upto(x) == {y \in Nodes(s) : y[1] < x[1] \/ (y[1] = x[1] /\ y[2] <= x[2])}
<1>1. \A x \in Nodes(s) : Rank(s, x) = Cardinality(Upto(x)) BY DEF Rank
<1>2. \A x \in Nodes(s) : x[1] \in Int /\ x[2] \in Int /\ x = <<x[1], x[2]>> BY NodeFacts
<1>3. \A x \in Nodes(s) : Upto(x) \subseteq Nodes(s) OBVIOUS
<1>4. \A x \in Nodes(s) : IsFiniteSet(Upto(x))
  <2> HIDE DEF Upto
  <2> QED BY <1>3, NodeFacts, FS_Subset
<1>5. \A x \in Nodes(s) : x \in Upto(x) BY <1>2
<1>6. Upto(n) \subseteq Upto(m) \/ Upto(m) \subseteq Upto(n) BY <1>2
<1>7. Upto(n) = Upto(m) => n = m
  <2> SUFFICES ASSUME Upto(n) = Upto(m) PROVE n = m
    OBVIOUS
  <2>1. n \in Upto(m) /\ m \in Upto(n) BY <1>5
  <2>2. n[1] = m[1] /\ n[2] = m[2] BY <2>1, <1>2
  <2> QED BY <2>2, <1>2
<1> HIDE DEF Upto
<1>8. Cardinality(Upto(n)) \in Nat \ {0}
  <2>1. Cardinality(Upto(n)) \in Nat BY <1>4, FS_CardinalityType
  <2>2. Cardinality(Upto(n)) # 0 BY <1>4, <1>5, FS_EmptySet
  <2> QED BY <2>1, <2>2
<1>9. Cardinality(Upto(n)) = Cardinality(Upto(m)) => Upto(n) = Upto(m)
  BY <1>4, <1>6, FS_Subset
<1> QED BY <1>1, <1>7, <1>8, <1>9

(* A finite set of indices has a k-th element, for every k up to its size.  *)
LEMMA NthElement ==
    ASSUME NEW S, S \subseteq Nat, IsFiniteSet(S), NEW k \in 1 .. Cardinality(S)
    PROVE  \E f \in S : Cardinality({g \in S : g <= f}) = k
<1> DEFINE Upto(f) == {g \in S : g <= f}
           K == {n \in Nat : n + 1 <= Cardinality(S) =>
                                 \E f \in S : Cardinality(Upto(f)) = n + 1}
<1>0. Cardinality(S) \in Nat BY FS_CardinalityType
<1>1. 0 \in K
  <2> SUFFICES ASSUME 1 <= Cardinality(S) PROVE \E f \in S : Cardinality(Upto(f)) = 1
    OBVIOUS
  <2>1. S # {} BY FS_EmptySet, <1>0
  <2>2. PICK f \in S : \A g \in S : f <= g BY <2>1, LeastElement
  <2>3. Upto(f) = {f}
    <3>1. \A g \in S : g \in Nat /\ f \in Nat OBVIOUS
    <3>2. \A g \in S : g <= f <=> g = f BY <2>2, <3>1
    <3> QED BY <3>2
  <2>4. Cardinality({f}) = 1 BY FS_Singleton
  <2> QED BY <2>3, <2>4
<1>2. ASSUME NEW n \in Nat, n \in K PROVE n + 1 \in K
  <2> SUFFICES ASSUME (n + 1) + 1 <= Cardinality(S)
               PROVE  \E f \in S : Cardinality(Upto(f)) = (n + 1) + 1
    OBVIOUS
  <2>1. PICK f \in S : Cardinality(Upto(f)) = n + 1 BY <1>2, <1>0
  <2>2. S \ Upto(f) # {}
    <3> SUFFICES ASSUME S \ Upto(f) = {} PROVE FALSE
      OBVIOUS
    <3>1. Upto(f) = S OBVIOUS
    <3> QED BY <3>1, <2>1, <1>0
  <2>3. PICK h \in S \ Upto(f) : \A g \in S \ Upto(f) : h <= g BY <2>2, LeastElement
  <2>4. f \in Nat /\ h \in Nat /\ f < h BY <2>3
  <2>5. Upto(h) = Upto(f) \cup {h}
    <3>1. \A g \in S : g \in Nat OBVIOUS
    <3>2. \A g \in S : ~ (g <= f) => h <= g BY <2>3
    <3>3. \A g \in S : g <= h <=> (g <= f \/ g = h) BY <2>4, <3>1, <3>2
    <3> QED BY <3>3
  <2>6. IsFiniteSet(Upto(f)) BY FS_Subset
  <2>7. h \notin Upto(f) BY <2>3
  <2> HIDE DEF Upto
  <2>8. Cardinality(Upto(f) \cup {h}) = Cardinality(Upto(f)) + 1
    BY <2>6, <2>7, FS_AddElement
  <2> QED BY <2>1, <2>5, <2>8
<1>3. k - 1 \in K
  <2> HIDE DEF K
  <2> QED BY <1>0, <1>1, <1>2, IndexInduction
<1> QED BY <1>3, <1>0

(* The frames first-fit allocation returns one after the other. *)
LEMMA NthFreeFacts ==
    ASSUME NEW u, NULL \in u, NEW k \in Nat \ {0}
    PROVE  /\ NthFree(u, k) \in Frame
           /\ NthFree(u, k) # NULL =>
                 /\ NthFree(u, k) \notin u
                 /\ Cardinality({g \in Frame \ u : g <= NthFree(u, k)}) = k
<1> DEFINE F == Frame \ u
<1>1. F \subseteq Nat /\ IsFiniteSet(F)
  <2>1. 0 \in Int /\ FRAMES - 1 \in Int BY Layout
  <2>2. IsFiniteSet(Frame) BY <2>1, FS_Interval DEF Frame
  <2> QED BY <2>2, FS_Subset, Layout
<1>2. CASE k > Cardinality(F) BY <1>2, Layout DEF NthFree
<1>3. CASE ~ (k > Cardinality(F))
  <2>1. Cardinality(F) \in Nat BY <1>1, FS_CardinalityType
  <2> HIDE DEF F
  <2>2. k \in 1 .. Cardinality(F) BY <1>3, <2>1
  <2>3. \E f \in F : Cardinality({g \in F : g <= f}) = k BY <1>1, <2>2, NthElement
  <2>4. NthFree(u, k) = CHOOSE f \in F : Cardinality({g \in F : g <= f}) = k
    BY <1>3 DEF NthFree, F
  <2>5. NthFree(u, k) \in F /\ Cardinality({g \in F : g <= NthFree(u, k)}) = k
    BY <2>3, <2>4
  <2> QED BY <2>5 DEF F
<1> QED BY <1>2, <1>3

(* What vmm_clone_pagemap returns, started on bitmap u. *)
Cloned(u, s, b) ==
    /\ b \in Builds /\ b.result \in {"ok", "stopped"}
    /\ \A v \in VPage : b.space.page[v] # NONE <=> s.page[v] # NONE
    /\ b.result = "ok" /\ ~ b.starved => Fresh(b, u, {})

(* vmm_clone_pagemap: a space with the same pages, none of whose frames was *)
(* used before, unless the kernel stops or memory runs out.                 *)
LEMMA CloneIsFresh ==
    ASSUME NEW u \in SUBSET Frame, NULL \in u, NEW s \in SpaceT
    PROVE  Cloned(u, s, vmm_clone_pagemap(u, s))
<1> DEFINE root == pmm_alloc_page(u)
           copy(n) == NthFree(root.used, Rank(s, n))
           new == [root |-> root.frame,
                   table |-> [t \in Tables |-> IF s.table[t] = NONE THEN NONE
                                               ELSE copy(<<t, NONE>>)],
                   page  |-> [v \in VPage |-> IF s.page[v] = NONE THEN NONE
                                              ELSE copy(<<TableOf(v), v>>)]]
           r == vmm_clone_pagemap(u, s)
<1>1. \/ root.frame = NULL /\ root.used = u
      \/ /\ root.frame \in Frame \ u /\ root.frame # NULL
         /\ root.used = u \cup {root.frame}
  BY AllocPage
<1>2. root.frame \in Frame /\ NULL \in root.used BY <1>1, Layout
<1>3. r = IF root.frame = NULL
          THEN [Build(root.used, new) EXCEPT !.result = "stopped"]
          ELSE [Build(root.used \cup (FramesOf(new) \ {NULL}), new)
                   EXCEPT !.starved = NULL \in FramesOf(new)]
  BY DEF vmm_clone_pagemap
<1> HIDE DEF root
<1>4. \A n \in Nodes(s) :
         /\ copy(n) \in Frame
         /\ copy(n) # NULL =>
               /\ copy(n) \notin root.used
               /\ Cardinality({g \in Frame \ root.used : g <= copy(n)}) = Rank(s, n)
  BY <1>2, RankInjective, NthFreeFacts
<1>5. \A n, m \in Nodes(s) : copy(n) = copy(m) /\ copy(n) # NULL => n = m
  <2>1. \A n, m \in Nodes(s) : copy(n) = copy(m) /\ copy(n) # NULL => Rank(s, n) = Rank(s, m)
    BY <1>4
  <2> HIDE DEF copy
  <2> QED BY <2>1, RankInjective
<1> HIDE DEF copy
<1>6. \A t \in Tables : s.table[t] # NONE => <<t, NONE>> \in Nodes(s) BY DEF Nodes
<1>7. \A v \in VPage : s.page[v] # NONE => <<TableOf(v), v>> \in Nodes(s) BY DEF Nodes
<1>8. /\ new.root = root.frame
      /\ \A t \in Tables : new.table[t] = IF s.table[t] = NONE THEN NONE ELSE copy(<<t, NONE>>)
      /\ \A v \in VPage : new.page[v] = IF s.page[v] = NONE THEN NONE
                                        ELSE copy(<<TableOf(v), v>>)
  OBVIOUS
<1>9. new \in SpaceT
  <2>1. \A t \in Tables : s.table[t] # NONE => copy(<<t, NONE>>) \in Frame BY <1>4, <1>6
  <2>2. \A v \in VPage : s.page[v] # NONE => copy(<<TableOf(v), v>>) \in PhysPage
    BY <1>4, <1>7, Layout
  <2> QED BY <2>1, <2>2, <1>2 DEF SpaceT
<1>10. \A v \in VPage : new.page[v] # NONE <=> s.page[v] # NONE
  BY <1>4, <1>7, <1>8, Layout
<1> HIDE DEF new
<1>11. \A f \in FramesOf(new) : f \in Frame
  <2> SUFFICES ASSUME NEW f \in FramesOf(new) PROVE f \in Frame
    OBVIOUS
  <2>1. \/ f = new.root
        \/ f # NONE /\ \E t \in Tables : new.table[t] = f
        \/ f # NONE /\ \E v \in VPage : new.page[v] = f
    BY <1>9, FramesPointwise
  <2> QED BY <2>1, <1>2, <1>4, <1>6, <1>7, <1>8
<1>12. CASE root.frame = NULL
  <2>1. r = [Build(root.used, new) EXCEPT !.result = "stopped"] BY <1>3, <1>12
  <2> HIDE DEF r
  <2>2. r \in Builds /\ r.result = "stopped" /\ r.space = new
    BY <2>1, <1>1, <1>2, <1>9, <1>12 DEF Build, Builds, BuildT
  <2> QED BY <2>2, <1>10 DEF Cloned, r
<1>13. CASE root.frame # NULL
  <2>1. r = [Build(root.used \cup (FramesOf(new) \ {NULL}), new)
                EXCEPT !.starved = NULL \in FramesOf(new)]
    BY <1>3, <1>13
  <2> HIDE DEF r
  <2>2. /\ r.used = root.used \cup (FramesOf(new) \ {NULL}) /\ r.space = new
        /\ r.result = "ok" /\ r.starved = (NULL \in FramesOf(new))
        /\ r \in Builds
    <3> DEFINE W == root.used \cup (FramesOf(new) \ {NULL})
               hungry == NULL \in FramesOf(new)
    <3>1. W \in SUBSET Frame /\ NULL \in W BY <1>1, <1>2, <1>11
    <3>2. hungry \in BOOLEAN OBVIOUS
    <3>3. r = [Build(W, new) EXCEPT !.starved = hungry] BY <2>1
    <3> HIDE DEF W, hungry
    <3>4. r = [used |-> W, space |-> new, result |-> "ok", starved |-> hungry]
      BY <3>3 DEF Build
    <3>5. r \in Builds BY <3>1, <3>2, <3>4, <1>9 DEF Builds, BuildT
    <3> QED BY <3>4, <3>5 DEF W, hungry
  <2>3. ASSUME ~ r.starved PROVE Fresh(r, u, {})
    <3>1. NULL \notin FramesOf(new) BY <2>2, <2>3
    <3>2. /\ \A t \in Tables : s.table[t] # NONE => copy(<<t, NONE>>) # NULL
          /\ \A v \in VPage : s.page[v] # NONE => copy(<<TableOf(v), v>>) # NULL
      BY <3>1, <1>8, <1>9, FramesPointwise
    <3>3. /\ \A t \in Tables : s.table[t] # NONE => copy(<<t, NONE>>) \notin root.used
          /\ \A v \in VPage : s.page[v] # NONE => copy(<<TableOf(v), v>>) \notin root.used
      BY <3>2, <1>4, <1>6, <1>7
    <3>4. FramesOf(new) \cap u = {}
      <4> SUFFICES ASSUME NEW f \in FramesOf(new) PROVE f \notin u
        OBVIOUS
      <4>1. \/ f = new.root
            \/ f # NONE /\ \E t \in Tables : new.table[t] = f
            \/ f # NONE /\ \E v \in VPage : new.page[v] = f
        BY <1>9, FramesPointwise
      <4> QED BY <4>1, <3>3, <1>1, <1>8, <1>13
    <3>5. ASSUME NEW t \in Tables, NEW x \in Tables,
                 new.table[t] # NONE, new.table[t] = new.table[x]
          PROVE  t = x
      <4>1. s.table[t] # NONE /\ s.table[x] # NONE BY <3>5, <1>8
      <4>2. copy(<<t, NONE>>) = copy(<<x, NONE>>) /\ copy(<<t, NONE>>) # NULL BY <4>1, <3>2, <3>5, <1>8
      <4>3. <<t, NONE>> \in Nodes(s) /\ <<x, NONE>> \in Nodes(s) BY <4>1, <1>6
      <4>4. <<t, NONE>> = <<x, NONE>> BY <4>2, <4>3, <1>5
      <4> QED BY <4>4
    <3>6. ASSUME NEW v \in VPage, NEW w \in VPage,
                 new.page[v] # NONE, new.page[v] = new.page[w]
          PROVE  v = w
      <4>1. s.page[v] # NONE /\ s.page[w] # NONE BY <3>6, <1>8
      <4>2. copy(<<TableOf(v), v>>) = copy(<<TableOf(w), w>>) /\ copy(<<TableOf(v), v>>) # NULL BY <4>1, <3>2, <3>6, <1>8
      <4>3. <<TableOf(v), v>> \in Nodes(s) /\ <<TableOf(w), w>> \in Nodes(s) BY <4>1, <1>7
      <4>4. <<TableOf(v), v>> = <<TableOf(w), w>> BY <4>2, <4>3, <1>5
      <4> QED BY <4>4
    <3>7. ASSUME NEW t \in Tables, NEW v \in VPage,
                 new.table[t] # NONE, new.table[t] = new.page[v]
          PROVE  FALSE
      <4>1. s.table[t] # NONE /\ s.page[v] # NONE BY <3>7, <1>8
      <4>2. copy(<<t, NONE>>) = copy(<<TableOf(v), v>>) /\ copy(<<t, NONE>>) # NULL BY <4>1, <3>2, <3>7, <1>8
      <4>3. <<t, NONE>> \in Nodes(s) /\ <<TableOf(v), v>> \in Nodes(s) BY <4>1, <1>6, <1>7
      <4>4. <<t, NONE>> = <<TableOf(v), v>> BY <4>2, <4>3, <1>5
      <4>5. v = NONE BY <4>4
      <4> QED BY <4>5, Layout
    <3>8. root.frame \in root.used /\ root.frame # NONE BY <1>1, <1>2, <1>13, Layout
    <3>9. \A t \in Tables : new.table[t] # new.root BY <3>3, <3>8, <1>8
    <3>10. \A v \in VPage : new.page[v] # new.root BY <3>3, <3>8, <1>8
    <3>11. Exact(new) BY <3>5, <3>6, <3>7, <3>9, <3>10 DEF Exact
    <3>12. root.frame \in FramesOf(new) BY <1>8 DEF FramesOf
    <3>13. r.used = u \cup FramesOf(new) BY <2>2, <3>1, <3>12, <1>1, <1>13
    <3> QED BY <2>2, <3>4, <3>11, <3>13 DEF Fresh
  <2> QED BY <2>2, <2>3, <1>10 DEF Cloned, r
<1> QED BY <1>12, <1>13

=============================================================================
