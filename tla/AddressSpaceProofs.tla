------------------------- MODULE AddressSpaceProofs -------------------------
(***************************************************************************)
(* The address spaces of all processes, for every size of memory, every    *)
(* layout and every set of programs: who holds a frame, what the bitmap    *)
(* says, and the heap.  What the handlers build is in PageTableProofs.     *)
(***************************************************************************)
EXTENDS PageTableProofs

(* The inductive invariant. *)

(* Who holds which frame while the kernel is up: every space is exact, no   *)
(* two of them meet, none meets the frames reserved or lost, and the bitmap *)
(* is what they all hold; the CPU runs on one of them.                      *)
Sound ==
    /\ \A p \in Held : Exact(space[p])
    /\ \A p \in Held : FramesOf(space[p]) \cap (RESERVED \cup lost) = {}
    /\ \A p, q \in Held : p # q => FramesOf(space[p]) \cap FramesOf(space[q]) = {}
    /\ \A f : f \in used <=> \/ f \in RESERVED \cup lost
                             \/ \E p \in Held : f \in FramesOf(space[p])
    /\ \E p \in Held : space[p].root = cr3

IInv == TypeOK /\ (kernel = "up" => Sound)

(* The images are sequences of segments of an address space. *)
LEMMA ImagesAreSegments ==
    ASSUME NEW image \in Images \cup {InitImage}
    PROVE  image \in Seq(Segments)
<1> DEFINE R == [start : VPage, count : VPage \ {0}]
<1>1. /\ image \in Seq(R)
      /\ \A k \in DOMAIN image : image[k].start + image[k].count <= VPAGES
  BY ImagesAssumption
<1>2. DOMAIN image = 1 .. Len(image) BY <1>1
<1>3. \A k \in 1 .. Len(image) : image[k] \in R
  <2> HIDE DEF R
  <2> QED BY <1>1
<1>4. \A k \in 1 .. Len(image) : image[k] \in Segments
  BY <1>1, <1>2, <1>3 DEF Segments
<1> QED BY <1>1, <1>4

(* The heap starts at the end of the highest segment. *)
LEMMA HeapStart ==
    ASSUME NEW image \in Images \cup {InitImage}
    PROVE  \E top \in 1 .. VPAGES :
              /\ find_heap_start(image) = 2 * top
              /\ \E k \in 1 .. Len(image) : top = image[k].start + image[k].count
<1> DEFINE S == {image[k].start + image[k].count : k \in DOMAIN image}
<1>1. /\ image \in Seq([start : VPage, count : VPage \ {0}]) /\ image # <<>>
      /\ \A k \in DOMAIN image : image[k].start + image[k].count <= VPAGES
  BY ImagesAssumption
<1>2. \A k \in 1 .. Len(image) : image[k] \in Segments BY ImagesAreSegments
<1>3. \A k \in 1 .. Len(image) : image[k].start + image[k].count \in 1 .. VPAGES
  BY <1>2, Layout DEF VPage, Segments
<1>4. DOMAIN image = 1 .. Len(image) /\ 1 \in DOMAIN image BY <1>1
<1>5. S \subseteq 0 .. VPAGES /\ S # {}
  <2>1. \A k \in 1 .. Len(image) : image[k].start + image[k].count \in 0 .. VPAGES BY <1>3
  <2> QED BY <2>1, <1>4
<1>6. Max(S) \in S
  <2> HIDE DEF S
  <2> QED BY <1>5, Layout, MaxIsGreatest
<1>7. PICK k \in DOMAIN image : Max(S) = image[k].start + image[k].count BY <1>6
<1>8. find_heap_start(image) = 2 * Max(S) BY DEF find_heap_start
<1> HIDE DEF S
<1> QED BY <1>3, <1>4, <1>7, <1>8

(* What the kernel is left in. *)
LEMMA StateFacts ==
    ASSUME NEW b \in Builds
    PROVE  /\ State(b) \in {"up", "stopped", "starved"}
           /\ State(b) = "up" <=> b.result # "stopped" /\ ~ b.starved
BY DEF State, Builds, BuildT

(* A process gets a space of which the bitmap, without what the process had, *)
(* holds no frame, and what it no longer holds is lost.                      *)
Replaced(p, s, base, aside) ==
    /\ base = used \ (IF p \in Held THEN FramesOf(space[p]) ELSE {})
    /\ Exact(s)
    /\ FramesOf(s) \cap base = {} /\ FramesOf(s) \cap aside = {} /\ aside \cap base = {}
    /\ used' = base \cup FramesOf(s) \cup aside
    /\ lost' = lost \cup aside
    /\ space' = [space EXCEPT ![p] = s]
    /\ Held' = Held \cup {p}
    /\ \E q \in Held' : space'[q].root = cr3'

(* A space replaced that way leaves every frame with one holder. *)
LEMMA ReplaceSpace ==
    ASSUME IInv, kernel = "up", NEW p \in Procs, NEW s \in SpaceT, NEW base, NEW aside,
           Replaced(p, s, base, aside)
    PROVE  Sound'
<1> USE DEF Replaced
<1>1. Sound /\ TypeOK BY DEF IInv
<1>2. /\ space'[p] = s
      /\ \A q \in Procs : q # p => space'[q] = space[q]
  BY <1>1 DEF TypeOK
<1>3. Held \subseteq Procs BY DEF Held
<1>4. \A q \in Held' : Exact(space'[q]) BY <1>1, <1>2, <1>3 DEF Sound
<1>5. \A f : f \in base <=> /\ \/ f \in RESERVED \cup lost
                               \/ \E q \in Held : f \in FramesOf(space[q])
                            /\ ~ (p \in Held /\ f \in FramesOf(space[p]))
  BY <1>1 DEF Sound
<1>6. \A q \in Held : q # p => FramesOf(space[q]) \subseteq base
  BY <1>1, <1>5 DEF Sound
<1>7. RESERVED \cup lost \subseteq base
  BY <1>1, <1>5 DEF Sound
<1>8. \A q \in Held' : FramesOf(space'[q]) \cap (RESERVED \cup lost') = {}
  <2> SUFFICES ASSUME NEW q \in Held' PROVE FramesOf(space'[q]) \cap (RESERVED \cup lost') = {}
    OBVIOUS
  <2>1. CASE q = p BY <2>1, <1>2, <1>7
  <2>2. CASE q # p
    <3>1. q \in Held /\ space'[q] = space[q] BY <2>2, <1>2, <1>3
    <3>2. FramesOf(space[q]) \cap (RESERVED \cup lost) = {} BY <3>1, <1>1 DEF Sound
    <3>3. FramesOf(space[q]) \subseteq base BY <3>1, <2>2, <1>6
    <3> QED BY <3>1, <3>2, <3>3
  <2> QED BY <2>1, <2>2
<1>9. \A q, r \in Held' : q # r => FramesOf(space'[q]) \cap FramesOf(space'[r]) = {}
  BY <1>1, <1>2, <1>3, <1>6 DEF Sound
<1>10. \A f : f \in used' <=> \/ f \in RESERVED \cup lost'
                              \/ \E q \in Held' : f \in FramesOf(space'[q])
  <2> SUFFICES ASSUME NEW f
               PROVE  f \in used' <=> \/ f \in RESERVED \cup lost'
                                      \/ \E q \in Held' : f \in FramesOf(space'[q])
    OBVIOUS
  <2>1. ASSUME f \in used'
        PROVE  f \in RESERVED \cup lost' \/ \E q \in Held' : f \in FramesOf(space'[q])
    <3>1. CASE f \in FramesOf(s) BY <3>1, <1>2
    <3>2. CASE f \in aside BY <3>2
    <3>3. CASE f \in base
      <4>1. f \in RESERVED \cup lost \/ \E q \in Held : q # p /\ f \in FramesOf(space[q])
        BY <3>3, <1>5
      <4> QED BY <4>1, <1>2, <1>3
    <3> QED BY <3>1, <3>2, <3>3, <2>1
  <2>2. ASSUME f \in RESERVED \cup lost' PROVE f \in used' BY <2>2, <1>7
  <2>3. ASSUME NEW q \in Held', f \in FramesOf(space'[q]) PROVE f \in used'
    BY <2>3, <1>2, <1>3, <1>6
  <2> QED BY <2>1, <2>2, <2>3
<1> QED BY <1>4, <1>8, <1>9, <1>10 DEF Sound

(* A kernel that is up keeps NULL out of every space. *)
LEMMA UpFacts ==
    ASSUME IInv, kernel = "up"
    PROVE  /\ used \in SUBSET Frame /\ NULL \in used
           /\ \A p \in Procs : space[p] \in SpaceT
           /\ Held \subseteq Procs
BY ReservedAssumption DEF IInv, TypeOK, Sound, SpaceT, Held

(* pm_fork *)
LEMMA ForkPreserves ==
    ASSUME IInv, NEW p \in Procs, NEW c \in Procs, Fork(p, c)
    PROVE  IInv'
<1> DEFINE b == vmm_clone_pagemap(used, space[p])
<1>1. kernel = "up" /\ life[p] = "live" /\ cr3 = space[p].root /\ life[c] = "none"
  BY DEF Fork, Running
<1>2. Cloned(used, space[p], b) BY <1>1, UpFacts, CloneIsFresh
<1>3. /\ life'  = [life EXCEPT ![c] = "live"]
      /\ space' = [space EXCEPT ![c] = b.space]
      /\ brk'   = [brk EXCEPT ![c] = brk[p]]
      /\ used'  = b.used /\ kernel' = State(b) /\ cr3' = cr3 /\ lost' = lost
  BY DEF Fork
<1> HIDE DEF b
<1>4. b \in Builds BY <1>2 DEF Cloned
<1>5. b.space \in SpaceT /\ b.used \in SUBSET Frame BY <1>4 DEF Builds, BuildT
<1>6. TypeOK'
  <2>1. State(b) \in {"up", "stopped", "starved"} BY <1>4, StateFacts
  <2> QED BY <1>3, <1>5, <2>1 DEF IInv, TypeOK, SpaceT
<1>7. ASSUME kernel' = "up" PROVE Sound'
  <2>1. Fresh(b, used, {}) BY <1>2, <1>3, <1>4, <1>7, StateFacts DEF Cloned
  <2>2. Held' = Held \cup {c} /\ c \notin Held /\ p \in Held /\ p # c
    BY <1>1, <1>3 DEF Held, IInv, TypeOK
  <2>3. space'[p].root = cr3' BY <1>1, <1>3, <2>2 DEF IInv, TypeOK
  <2>4. Replaced(c, b.space, used, {})
    BY <2>1, <2>2, <2>3, <1>3 DEF Replaced, Fresh
  <2> QED BY <2>4, <1>1, <1>5, ReplaceSpace
<1> QED BY <1>6, <1>7 DEF IInv

(* pm_execve *)
LEMMA ExecvePreserves ==
    ASSUME IInv, NEW p \in Procs, NEW image \in Images, Execve(p, image)
    PROVE  IInv'
<1> DEFINE b == LoadProgram(used, image, FALSE)
<1>1. kernel = "up" /\ life[p] = "live" /\ cr3 = space[p].root
  BY DEF Execve, Running
<1>2. ProgramLoaded(used, image, FALSE, b)
  <2>1. image \in Seq(Segments) BY ImagesAreSegments
  <2> QED BY <2>1, <1>1, UpFacts, ProgramLoads
<1>3. /\ kernel' = State(b) /\ life' = life
      /\ \/ /\ b.result = "ok"
            /\ space' = [space EXCEPT ![p] = b.space]
            /\ used'  = b.used \ FramesOf(space[p])
            /\ brk'   = [brk EXCEPT ![p] = find_heap_start(image)]
            /\ cr3'   = b.space.root /\ lost' = lost
         \/ /\ b.result = "taken"
            /\ used' = b.used \ FramesOf(b.space)
            /\ lost' = lost \cup (used' \ used)
            /\ space' = space /\ brk' = brk /\ cr3' = cr3
         \/ /\ b.result = "stopped"
            /\ used' = b.used
            /\ space' = space /\ brk' = brk /\ cr3' = cr3 /\ lost' = lost
  BY DEF Execve, vmm_delete_pagemap
<1> HIDE DEF b
<1>4. b \in Builds BY <1>2 DEF ProgramLoaded
<1>5. b.space \in SpaceT /\ b.used \in SUBSET Frame /\ b.space.root \in Frame
  BY <1>4 DEF Builds, BuildT, SpaceT
<1>6. TypeOK'
  <2>1. State(b) \in {"up", "stopped", "starved"} BY <1>4, StateFacts
  <2>2. find_heap_start(image) \in 0 .. (2 * VPAGES) BY HeapStart, Layout
  <2>3. CASE b.result = "ok"
    <3>1. /\ space' = [space EXCEPT ![p] = b.space] /\ used' = b.used \ FramesOf(space[p])
          /\ brk' = [brk EXCEPT ![p] = find_heap_start(image)]
          /\ cr3' = b.space.root /\ lost' = lost /\ kernel' = State(b) /\ life' = life
      BY <1>3, <2>3
    <3>2. space \in [Procs -> SpaceT] BY DEF IInv, TypeOK, SpaceT
    <3>3. space' \in [Procs -> SpaceT] BY <3>1, <3>2, <1>5
    <3>4. brk' \in [Procs -> 0 .. (2 * VPAGES)] BY <3>1, <2>2 DEF IInv, TypeOK
    <3> QED BY <3>1, <3>3, <3>4, <1>5, <2>1 DEF IInv, TypeOK, SpaceT
  <2>4. CASE b.result = "taken"
    BY <1>3, <1>5, <2>1, <2>4 DEF IInv, TypeOK
  <2>5. CASE b.result = "stopped"
    BY <1>3, <1>5, <2>1, <2>5 DEF IInv, TypeOK
  <2> QED BY <1>3, <2>3, <2>4, <2>5
<1>7. Held' = Held /\ p \in Held BY <1>1, <1>3 DEF Held
<1>8. ASSUME kernel' = "up" PROVE Sound'
  <2>0. b.result # "stopped" /\ ~ b.starved BY <1>3, <1>4, <1>8, StateFacts
  <2>1. CASE b.result = "ok"
    <3> DEFINE base == used \ FramesOf(space[p])
    <3>1. Fresh(b, used, {}) BY <1>2, <2>0, <2>1 DEF ProgramLoaded
    <3>2. FramesOf(space[p]) \subseteq used BY <1>1, <1>7 DEF IInv, Sound
    <3>3. used' = base \cup FramesOf(b.space) BY <1>3, <2>1, <3>1, <3>2 DEF Fresh
    <3>4. space'[p].root = cr3' BY <1>3, <2>1 DEF IInv, TypeOK
    <3>5. Replaced(p, b.space, base, {})
      BY <3>1, <3>3, <3>4, <1>3, <1>7, <2>1 DEF Replaced, Fresh
    <3> HIDE DEF base
    <3> QED BY <3>5, <1>1, <1>5, ReplaceSpace
  <2>2. CASE b.result = "taken"
    <3>1. PICK g : Fresh(b, used, {g}) BY <1>2, <2>0, <2>2 DEF ProgramLoaded
    <3>2. used' = used \cup {g} /\ g \notin used BY <1>3, <2>2, <3>1 DEF Fresh
    <3>3. /\ lost' = lost \cup {g} /\ space' = space /\ cr3' = cr3
      BY <1>3, <2>2, <3>2
    <3>4. Sound BY <1>1 DEF IInv
    <3>5. \A q \in Held : g \notin FramesOf(space[q]) BY <3>2, <3>4 DEF Sound
    <3> QED BY <3>2, <3>3, <3>4, <3>5, <1>7 DEF Sound
  <2> QED BY <2>0, <2>1, <2>2, <1>3
<1> QED BY <1>6, <1>8 DEF IInv

(* syscall_brk_handler *)
LEMMA BrkPreserves ==
    ASSUME IInv, NEW p \in Procs, NEW new \in 1 .. MaxBrk, Brk(p, new)
    PROVE  IInv'
<1> DEFINE first == AlignUp(brk[p])
           count == AlignUp(new) - first
           b == Build(used, space[p])
           r == Grow(b, first, count)
<1>1. kernel = "up" /\ life[p] = "live" /\ cr3 = space[p].root /\ new > brk[p]
  BY DEF Brk, Running
<1>2. first \in Nat /\ count \in Nat /\ first + count <= VPAGES
  <2>1. brk[p] \in Nat /\ new \in Nat /\ new <= 2 * (VPAGES - 1)
    BY Layout DEF IInv, TypeOK, MaxBrk, Stack
  <2> QED BY <2>1, <1>1, Layout DEF AlignUp
<1>3. b \in Builds /\ b.result = "ok" /\ b.starved = FALSE /\ b.used = used /\ b.space = space[p]
  BY <1>1, UpFacts DEF Build, Builds, BuildT
<1>4. HeapGrown(b, r, first, count)
  <2> HIDE DEF first, count, b
  <2> QED BY <1>2, <1>3, HeapGrows
<1>5. /\ used' = r.used /\ space' = [space EXCEPT ![p] = r.space]
      /\ brk' = [brk EXCEPT ![p] = IF r.result = "ok" THEN new ELSE @]
      /\ lost' = lost \cup (FramesOf(space[p]) \ FramesOf(r.space))
      /\ kernel' = State(r) /\ life' = life /\ cr3' = cr3
  BY DEF Brk
<1> HIDE DEF first, count, b, r
<1>6. /\ r \in Builds /\ r.starved = FALSE /\ r.space.root = space[p].root
      /\ used \subseteq r.used
  BY <1>3, <1>4 DEF HeapGrown
<1>7. r.space \in SpaceT /\ r.used \in SUBSET Frame BY <1>6 DEF Builds, BuildT
<1>8. TypeOK'
  <2>1. State(r) \in {"up", "stopped", "starved"} BY <1>6, StateFacts
  <2>2. new \in 0 .. (2 * VPAGES) BY Layout DEF MaxBrk, Stack
  <2>3. lost' \in SUBSET Frame
    <3>1. FramesOf(space[p]) \subseteq Frame
      BY <1>1, UpFacts DEF IInv, Sound, Held
    <3> QED BY <3>1, <1>5 DEF IInv, TypeOK
  <2> QED BY <1>5, <1>7, <2>1, <2>2, <2>3 DEF IInv, TypeOK, SpaceT
<1>9. ASSUME kernel' = "up" PROVE Sound'
  <2> DEFINE base == used \ FramesOf(space[p])
  <2>1. Sound /\ p \in Held BY <1>1 DEF IInv, Held
  <2>2. FramesOf(space[p]) \subseteq used BY <2>1 DEF Sound
  <2>3. Fresh(b, base, {})
    <3>1. NULL \in base
      <4>1. NULL \in RESERVED \cup lost BY ReservedAssumption
      <4>2. NULL \notin FramesOf(space[p]) BY <2>1, <4>1 DEF Sound
      <4> QED BY <4>2, <1>1, UpFacts
    <3>2. Exact(space[p]) BY <2>1 DEF Sound
    <3> QED BY <3>1, <3>2, <2>2, <1>3 DEF Fresh
  <2> HIDE DEF base
  <2>4. r.result # "stopped" BY <1>5, <1>6, <1>9, StateFacts
  <2>5. PICK aside \in SUBSET FramesOf(space[p]) : Fresh(r, base, aside)
    BY <2>3, <2>4, <1>3, <1>4 DEF HeapGrown
  <2>6. aside = FramesOf(space[p]) \ FramesOf(r.space)
    <3>1. FramesOf(space[p]) \cap base = {} BY DEF base
    <3>2. FramesOf(space[p]) \subseteq r.used BY <2>2, <1>6
    <3> QED BY <2>5, <3>1, <3>2 DEF Fresh
  <2>7. Held' = Held \cup {p} BY <2>1, <1>5 DEF Held
  <2>8. space'[p].root = cr3' BY <1>1, <1>5, <1>6 DEF IInv, TypeOK
  <2>9. Replaced(p, r.space, base, aside)
    BY <2>1, <2>5, <2>6, <2>7, <2>8, <1>5 DEF Replaced, Fresh, base
  <2> QED BY <2>9, <1>1, <1>7, ReplaceSpace
<1> QED BY <1>8, <1>9 DEF IInv

(* pm_execve of a file that is not an ELF *)
LEMMA ExecveNotElfPreserves ==
    ASSUME IInv, NEW p \in Procs, ExecveNotElf(p)
    PROVE  IInv'
<1> DEFINE b == LoadProgram(used, <<>>, FALSE)
<1>1. kernel = "up" BY DEF ExecveNotElf, Running
<1>2. ProgramLoaded(used, <<>>, FALSE, b)
  <2>1. <<>> \in Seq(Segments) OBVIOUS
  <2> QED BY <2>1, <1>1, UpFacts, ProgramLoads
<1>3. /\ kernel' = "stopped"
      /\ used' = IF b.result = "ok" THEN b.used \ FramesOf(b.space) ELSE b.used
      /\ life' = life /\ space' = space /\ brk' = brk /\ cr3' = cr3 /\ lost' = lost
  BY DEF ExecveNotElf, vmm_delete_pagemap
<1> HIDE DEF b
<1>4. b.used \in SUBSET Frame BY <1>2 DEF ProgramLoaded, Builds, BuildT
<1> QED BY <1>3, <1>4 DEF IInv, TypeOK

(* pm_wait *)
LEMMA ReapPreserves ==
    ASSUME IInv, NEW p \in Procs, NEW z \in Procs, Reap(p, z)
    PROVE  IInv'
<1>1. kernel = "up" /\ life[p] = "live" /\ cr3 = space[p].root /\ life[z] = "zombie" /\ z # p
  BY DEF Reap, Running
<1>2. /\ used'  = used \ FramesOf(space[z])
      /\ life'  = [life EXCEPT ![z] = "none"]
      /\ space' = [space EXCEPT ![z] = EmptySpace(NULL)]
      /\ brk'   = [brk EXCEPT ![z] = 0]
      /\ cr3' = cr3 /\ lost' = lost /\ kernel' = kernel
  BY DEF Reap, vmm_delete_pagemap
<1>3. TypeOK /\ Sound BY <1>1 DEF IInv
<1>4. EmptySpace(NULL) \in SpaceT BY Layout DEF EmptySpace, SpaceT
<1>5. TypeOK'
  <2>1. 0 \in 0 .. (2 * VPAGES) BY Layout
  <2> QED BY <1>2, <1>3, <1>4, <2>1 DEF TypeOK, SpaceT
<1>6. /\ z \in Held /\ p \in Held /\ Held' = Held \ {z}
      /\ \A q \in Held' : space'[q] = space[q]
  BY <1>1, <1>2, <1>3 DEF Held, TypeOK
<1>7. \A q \in Held' : FramesOf(space[q]) \cap FramesOf(space[z]) = {}
  BY <1>3, <1>6 DEF Sound
<1>8. \A f : f \in used' <=> \/ f \in RESERVED \cup lost'
                             \/ \E q \in Held' : f \in FramesOf(space'[q])
  <2>1. \A f : f \in used <=> \/ f \in RESERVED \cup lost
                              \/ \E q \in Held : f \in FramesOf(space[q])
    BY <1>3 DEF Sound
  <2>2. FramesOf(space[z]) \cap (RESERVED \cup lost) = {} BY <1>3, <1>6 DEF Sound
  <2> QED BY <2>1, <2>2, <1>2, <1>6, <1>7
<1>9. p \in Held' /\ space'[p].root = cr3' BY <1>1, <1>2, <1>6
<1>10. \A q \in Held' : q \in Held BY <1>6
<1>11. Sound' BY <1>2, <1>3, <1>6, <1>8, <1>9, <1>10 DEF Sound
<1> QED BY <1>5, <1>11 DEF IInv

(* A context switch, and pm_exit, which keeps the address space. *)
LEMMA RunAndExitPreserve ==
    ASSUME IInv, NEW p \in Procs, Run(p) \/ Exit(p)
    PROVE  IInv'
<1>1. CASE Run(p)
  <2>1. /\ kernel = "up" /\ life[p] = "live" /\ cr3' = space[p].root
        /\ used' = used /\ life' = life /\ space' = space /\ brk' = brk
        /\ lost' = lost /\ kernel' = kernel
    BY <1>1 DEF Run
  <2>2. space[p] \in SpaceT BY <2>1, UpFacts
  <2>3. TypeOK' BY <2>1, <2>2 DEF IInv, TypeOK, SpaceT
  <2>4. Held' = Held /\ p \in Held BY <2>1 DEF Held
  <2>5. Sound' BY <2>1, <2>4 DEF IInv, Sound
  <2> QED BY <2>3, <2>5 DEF IInv
<1>2. CASE Exit(p)
  <2>1. /\ kernel = "up" /\ life[p] = "live" /\ life' = [life EXCEPT ![p] = "zombie"]
        /\ used' = used /\ cr3' = cr3 /\ space' = space /\ brk' = brk
        /\ lost' = lost /\ kernel' = kernel
    BY <1>2 DEF Exit, Running
  <2>2. TypeOK' BY <2>1 DEF IInv, TypeOK
  <2>3. Held' = Held BY <2>1 DEF Held, IInv, TypeOK
  <2>4. Sound' BY <2>1, <2>3 DEF IInv, Sound
  <2> QED BY <2>2, <2>4 DEF IInv
<1> QED BY <1>1, <1>2

(* init_process_manager *)
LEMMA InitEstablishes == Init => IInv
<1> SUFFICES ASSUME Init PROVE IInv
  OBVIOUS
<1> DEFINE b == LoadProgram(RESERVED, InitImage, TRUE)
<1>1. ProgramLoaded(RESERVED, InitImage, TRUE, b)
  <2>1. InitImage \in Seq(Segments) BY ImagesAreSegments
  <2> QED BY <2>1, ReservedAssumption, ProgramLoads
<1>2. /\ State(b) = "up" /\ used = b.used
      /\ life = [p \in Procs |-> IF p = InitProc THEN "live" ELSE "none"]
      /\ space = [p \in Procs |-> IF p = InitProc THEN b.space ELSE EmptySpace(NULL)]
      /\ brk = [p \in Procs |-> IF p = InitProc THEN find_heap_start(InitImage) ELSE 0]
      /\ cr3 = b.space.root /\ lost = {} /\ kernel = "up"
  BY DEF Init
<1> HIDE DEF b
<1>3. b \in Builds /\ b.result = "ok" /\ ~ b.starved
  BY <1>1, <1>2, StateFacts DEF ProgramLoaded
<1>4. Stack \notin ImagePages(InitImage)
  <2> SUFFICES ASSUME NEW k \in 1 .. Len(InitImage), Stack \in PagesOf(InitImage[k]) PROVE FALSE
    BY DEF ImagePages
  <2>1. InitImage \in Seq(Segments) BY ImagesAreSegments
  <2>2. InitImage[k] \in Segments /\ k \in DOMAIN InitImage BY <2>1
  <2>3. InitImage[k].start + InitImage[k].count <= Stack BY <2>2, InitImageAssumption
  <2>4. InitImage[k].start \in Nat /\ InitImage[k].count \in Nat BY <2>2, Layout DEF Segments
  <2> QED BY <2>3, <2>4, Layout DEF PagesOf
<1>5. Fresh(b, RESERVED, {}) BY <1>1, <1>3, <1>4 DEF ProgramLoaded
<1>6. b.space \in SpaceT /\ b.used \in SUBSET Frame /\ EmptySpace(NULL) \in SpaceT
      /\ b.space.root \in Frame
  BY <1>3, Layout DEF Builds, BuildT, EmptySpace, SpaceT
<1>7. find_heap_start(InitImage) \in 0 .. (2 * VPAGES) /\ 0 \in 0 .. (2 * VPAGES)
  BY HeapStart, Layout
<1>8. TypeOK BY <1>2, <1>6, <1>7 DEF TypeOK, SpaceT
<1>9. Held = {InitProc} /\ space[InitProc] = b.space BY <1>2, ProcsAssumption DEF Held
<1>10. Sound BY <1>2, <1>5, <1>9 DEF Sound, Fresh
<1> QED BY <1>8, <1>10 DEF IInv

(* Every step keeps the invariant. *)
LEMMA NextPreserves == IInv /\ [Next]_vars => IInv'
<1> SUFFICES ASSUME IInv, [Next]_vars PROVE IInv'
  OBVIOUS
<1>1. CASE UNCHANGED vars
  <2>1. Held' = Held BY <1>1 DEF vars, Held
  <2>2. TypeOK' BY <1>1 DEF vars, IInv, TypeOK
  <2>3. kernel = "up" => Sound' BY <1>1, <2>1 DEF vars, IInv, Sound
  <2> QED BY <1>1, <2>2, <2>3 DEF vars, IInv
<1>2. CASE Next
  <2>1. PICK p \in Procs :
           \/ Run(p) \/ Exit(p)
           \/ \E c \in Procs : Fork(p, c)
           \/ \E image \in Images : Execve(p, image)
           \/ ExecveNotElf(p)
           \/ \E new \in 1 .. MaxBrk : Brk(p, new)
           \/ \E z \in Procs : Reap(p, z)
    BY <1>2 DEF Next
  <2> QED BY <2>1, RunAndExitPreserve, ForkPreserves, ExecvePreserves,
             ExecveNotElfPreserves, BrkPreserves, ReapPreserves
<1> QED BY <1>1, <1>2

(* The invariant holds in every behaviour. *)
THEOREM Invariance == Spec => []IInv
<1>1. Init => IInv BY InitEstablishes
<1>2. IInv /\ [Next]_vars => IInv' BY NextPreserves
<1> QED BY <1>1, <1>2, PTL DEF Spec

(* The bitmap, page tables and heap ends stay what their types say, with     *)
(* every entry below the end of memory unless a NULL was taken for a frame.  *)
THEOREM TypeCorrect == Spec => []TypeOK
<1>1. IInv => TypeOK BY DEF IInv
<1> QED BY <1>1, Invariance, PTL

(* No two entries of any page tables of any processes hold the same frame,  *)
(* and none holds one the kernel keeps, whatever was forked, loaded, grown, *)
(* torn down and given out again before.                                    *)
THEOREM NoFrameShared == Spec => []FramesExclusive
<1>1. IInv => FramesExclusive
  <2> SUFFICES ASSUME IInv, kernel = "up" PROVE FramesExclusive
    BY DEF FramesExclusive
  <2>1. Sound /\ \A p \in Held : space[p] \in SpaceT
    BY UpFacts DEF IInv
  <2> DEFINE At(p, e) == \/ e[2] = "root" /\ e = <<p, "root", 0>>
                         \/ \E t \in Tables : e = <<p, "table", t>>
                         \/ \E v \in VPage : e = <<p, "page", v>>
  <2>2. \A e \in Entries : e[1] \in Held /\ At(e[1], e) BY DEF Entries
  <2>3. \A e \in Entries : FrameAt(e) # NONE => FrameAt(e) \in FramesOf(space[e[1]])
    <3> SUFFICES ASSUME NEW e \in Entries, FrameAt(e) # NONE
                 PROVE  FrameAt(e) \in FramesOf(space[e[1]])
      OBVIOUS
    <3>1. e[1] \in Held /\ At(e[1], e) BY <2>2
    <3>2. CASE e = <<e[1], "root", 0>>
      <4>1. FrameAt(e) = space[e[1]].root BY <3>2 DEF FrameAt
      <4> QED BY <4>1, <3>1, <2>1, FramesPointwise
    <3>3. ASSUME NEW t \in Tables, e = <<e[1], "table", t>>
          PROVE  FrameAt(e) \in FramesOf(space[e[1]])
      <4>1. FrameAt(e) = space[e[1]].table[t] BY <3>3 DEF FrameAt
      <4> QED BY <4>1, <3>1, <2>1, FramesPointwise
    <3>4. ASSUME NEW v \in VPage, e = <<e[1], "page", v>>
          PROVE  FrameAt(e) \in FramesOf(space[e[1]])
      <4>1. FrameAt(e) = space[e[1]].page[v] BY <3>4 DEF FrameAt
      <4> QED BY <4>1, <3>1, <2>1, FramesPointwise
    <3> QED BY <3>1, <3>2, <3>3, <3>4
  <2>4. ASSUME NEW e \in Entries PROVE FrameAt(e) \notin RESERVED
    <3>1. NONE \notin RESERVED BY Layout, ReservedAssumption
    <3>2. FramesOf(space[e[1]]) \cap RESERVED = {} BY <2>1, <2>2 DEF Sound
    <3> QED BY <3>1, <3>2, <2>3
  <2>5. ASSUME NEW e \in Entries, NEW f \in Entries, FrameAt(e) # NONE,
               FrameAt(e) = FrameAt(f)
        PROVE  e = f
    <3>1. e[1] = f[1]
      <4>1. FrameAt(e) \in FramesOf(space[e[1]]) /\ FrameAt(e) \in FramesOf(space[f[1]])
        BY <2>3, <2>5
      <4> QED BY <4>1, <2>1, <2>2 DEF Sound
    <3> DEFINE p == e[1]
    <3>2. p \in Held /\ At(p, e) /\ At(p, f) BY <3>1, <2>2
    <3> HIDE DEF p
    <3>3. Exact(space[p]) /\ space[p] \in SpaceT BY <3>2, <2>1 DEF Sound
    <3>4. \A x : /\ x = <<p, "root", 0>> => FrameAt(x) = space[p].root
                 /\ \A t \in Tables : x = <<p, "table", t>> => FrameAt(x) = space[p].table[t]
                 /\ \A v \in VPage : x = <<p, "page", v>> => FrameAt(x) = space[p].page[v]
      BY DEF FrameAt
    <3>5. CASE e = <<p, "root", 0>>
      <4>1. FrameAt(f) = space[p].root BY <3>4, <3>5, <2>5
      <4> QED BY <4>1, <3>2, <3>3, <3>4, <3>5 DEF Exact
    <3>6. ASSUME NEW t \in Tables, e = <<p, "table", t>> PROVE e = f
      <4>1. FrameAt(f) = space[p].table[t] /\ space[p].table[t] # NONE BY <3>4, <3>6, <2>5
      <4> QED BY <4>1, <3>2, <3>3, <3>4, <3>6 DEF Exact
    <3>7. ASSUME NEW v \in VPage, e = <<p, "page", v>> PROVE e = f
      <4>1. FrameAt(f) = space[p].page[v] /\ space[p].page[v] # NONE BY <3>4, <3>7, <2>5
      <4> QED BY <4>1, <3>2, <3>3, <3>4, <3>7 DEF Exact
    <3> QED BY <3>2, <3>5, <3>6, <3>7
  <2> QED BY <2>4, <2>5 DEF FramesExclusive
<1> QED BY <1>1, Invariance, PTL

(* The bitmap is exact: fork, execve, brk, exit and wait leak no frame but  *)
(* those the code is known to lose, and free none that is still held.       *)
THEOREM NoFrameLeaked == Spec => []FramesAccounted
<1>1. IInv => FramesAccounted
  <2> SUFFICES ASSUME Sound
               PROVE  used = RESERVED \cup lost \cup UNION {FramesOf(space[p]) : p \in Held}
    BY DEF IInv, FramesAccounted
  <2>1. \A f : f \in UNION {FramesOf(space[p]) : p \in Held}
                 <=> \E p \in Held : f \in FramesOf(space[p])
    OBVIOUS
  <2> QED BY <2>1 DEF Sound
<1> QED BY <1>1, Invariance, PTL

(* CR3 always names page tables that a process still holds. *)
THEOREM RunsOnLiveTables == Spec => []Cr3Held
<1>1. IInv => Cr3Held BY DEF IInv, Sound, Cr3Held
<1> QED BY <1>1, Invariance, PTL

-----------------------------------------------------------------------------
(* The heap. *)

(* A program whose segments leave no page out between the first and the      *)
(* last: what the linker makes of the programs of this system.               *)
NoHoles(image) ==
    \A j, k \in 1 .. Len(image) :
        \A v \in image[j].start .. (image[k].start + image[k].count - 1) :
            \E l \in 1 .. Len(image) : v \in PagesOf(image[l])

(* Every page from the lowest mapped one to the end of the heap is mapped,   *)
(* and so is the stack.                                                      *)
Solid(s, heap) ==
    /\ s.page[Stack] # NONE
    /\ \A w, v \in VPage : s.page[w] # NONE /\ w <= v /\ v < AlignUp(heap) => s.page[v] # NONE

HeapInv == kernel = "up" => \A p \in Held : Solid(space[p], brk[p])

(* A loaded program starts with an empty heap right behind it. *)
LEMMA LoadedSolid ==
    ASSUME NEW image \in Images \cup {InitImage}, NoHoles(image),
           NEW u, NEW override, NEW b, ProgramLoaded(u, image, override, b), b.result = "ok"
    PROVE  Solid(b.space, find_heap_start(image))
<1>1. \A v \in VPage : b.space.page[v] # NONE <=> v = Stack \/ v \in ImagePages(image)
  BY DEF ProgramLoaded
<1>2. PICK top \in 1 .. VPAGES :
         /\ find_heap_start(image) = 2 * top
         /\ \E k \in 1 .. Len(image) : top = image[k].start + image[k].count
  BY HeapStart
<1>3. PICK k \in 1 .. Len(image) : top = image[k].start + image[k].count BY <1>2
<1>4. AlignUp(2 * top) = top BY Layout DEF AlignUp
<1>5. ASSUME NEW w \in VPage, NEW v \in VPage, b.space.page[w] # NONE, w <= v, v < top
      PROVE  b.space.page[v] # NONE
  <2>1. CASE w = Stack
    <3>1. v = Stack BY <2>1, <1>5, Layout DEF VPage, Stack
    <3> QED BY <3>1, <1>1
  <2>2. CASE w # Stack
    <3>1. PICK j \in 1 .. Len(image) : w \in PagesOf(image[j]) BY <2>2, <1>1, <1>5 DEF ImagePages
    <3>2. image \in Seq(Segments) BY ImagesAreSegments
    <3>3. image[j] \in Segments /\ image[k] \in Segments BY <3>2
    <3>4. image[j].start \in Nat BY <3>3, Layout DEF Segments
    <3>5. image[j].start <= w /\ w \in Nat /\ v \in Nat BY <3>1, <3>4, Layout DEF PagesOf
    <3>6. v \in image[j].start .. (image[k].start + image[k].count - 1)
      <4>1. top \in Nat /\ image[j].start <= v /\ v <= top - 1 BY <3>4, <3>5, <1>5, Layout
      <4>2. v \in image[j].start .. (top - 1) BY <4>1, <3>4, <3>5
      <4>3. image[k].start \in Nat /\ image[k].count \in Nat BY <3>3, Layout DEF Segments
      <4>4. top - 1 = image[k].start + image[k].count - 1 BY <4>3, <1>3
      <4> QED BY <4>2, <4>4, Zenon
    <3>7. \E l \in 1 .. Len(image) : v \in PagesOf(image[l]) BY <3>6 DEF NoHoles
    <3> QED BY <3>7, <1>1 DEF ImagePages
  <2> QED BY <2>1, <2>2
<1> QED BY <1>1, <1>2, <1>4, <1>5, Layout DEF Solid

(* A heap that grew, as far as it was asked to or not. *)
LEMMA GrownSolid ==
    ASSUME NEW b, NEW r, NEW heap \in Nat, NEW new \in Nat, heap < new,
           AlignUp(new) <= VPAGES,
           Solid(b.space, heap), r.result # "stopped",
           HeapGrown(b, r, AlignUp(heap), AlignUp(new) - AlignUp(heap))
    PROVE  Solid(r.space, IF r.result = "ok" THEN new ELSE heap)
<1> DEFINE first == AlignUp(heap)
           last == AlignUp(new)
           end == IF r.result = "ok" THEN last ELSE first
<1>1. first \in Nat /\ last \in Nat /\ first <= last BY DEF AlignUp
<1>2. AlignUp(IF r.result = "ok" THEN new ELSE heap) = end OBVIOUS
<1> HIDE DEF first, last
<1>3. PICK n \in 0 .. (last - first) :
         /\ r.result = "ok" => n = last - first
         /\ \A v \in VPage :
               /\ v \in first .. (first + n - 1) => r.space.page[v] # NONE
               /\ v \notin first .. (first + n - 1) => r.space.page[v] = b.space.page[v]
  BY DEF HeapGrown, first, last
<1>4. \A v \in VPage : b.space.page[v] # NONE => r.space.page[v] # NONE BY <1>3
<1>5. r.space.page[Stack] # NONE BY <1>4, Layout DEF Solid
<1>6. ASSUME NEW w \in VPage, NEW v \in VPage, r.space.page[w] # NONE, w <= v, v < end
      PROVE  r.space.page[v] # NONE
  <2>0. v \in Nat /\ w \in Nat BY Layout
  <2>1. CASE v >= first
    <3>1. r.result = "ok" /\ v < last BY <2>0, <2>1, <1>1, <1>6
    <3>2. v \in first .. (first + n - 1) BY <3>1, <2>0, <2>1, <1>1, <1>3
    <3> QED BY <3>2, <1>3
  <2>2. CASE ~ (v >= first)
    <3>1. v < first /\ w \notin first .. (first + n - 1) BY <2>0, <2>2, <1>1, <1>6
    <3>2. b.space.page[w] # NONE BY <3>1, <1>3, <1>6
    <3>3. b.space.page[v] # NONE BY <3>1, <3>2, <1>6 DEF Solid, first
    <3> QED BY <3>3, <1>4
  <2> QED BY <2>1, <2>2
<1> QED BY <1>2, <1>5, <1>6 DEF Solid

(* Every step keeps the heaps without a hole, when the programs are. *)
LEMMA HeapPreserved ==
    ASSUME \A image \in Images \cup {InitImage} : NoHoles(image),
           IInv, IInv', HeapInv, [Next]_vars
    PROVE  HeapInv'
<1> SUFFICES ASSUME kernel' = "up", NEW q \in Held' PROVE Solid(space'[q], brk'[q])
  BY DEF HeapInv
<1>1. CASE UNCHANGED vars
  BY <1>1 DEF vars, HeapInv, Held
<1>2. CASE Next
  <2>0. PICK p \in Procs :
           \/ Run(p) \/ Exit(p)
           \/ \E c \in Procs : Fork(p, c)
           \/ \E image \in Images : Execve(p, image)
           \/ ExecveNotElf(p)
           \/ \E new \in 1 .. MaxBrk : Brk(p, new)
           \/ \E z \in Procs : Reap(p, z)
    BY <1>2 DEF Next
  <2>1. kernel = "up" /\ life[p] = "live"
    BY <2>0, Zenon DEF Run, Exit, Fork, Execve, ExecveNotElf, Brk, Reap, Running
  <2>2. TypeOK /\ p \in Held /\ Held \subseteq Procs /\ \A x \in Held : Solid(space[x], brk[x])
    BY <2>1 DEF IInv, HeapInv, Held
  <2>3. CASE Run(p) \/ Exit(p)
    <3>1. q \in Held /\ space' = space /\ brk' = brk
      BY <2>2, <2>3 DEF Run, Exit, Held, TypeOK
    <3> QED BY <3>1, <2>2
  <2>4. ASSUME NEW c \in Procs, Fork(p, c) PROVE Solid(space'[q], brk'[q])
    <3> DEFINE b == vmm_clone_pagemap(used, space[p])
    <3>1. Cloned(used, space[p], b) BY <2>1, UpFacts, CloneIsFresh
    <3>2. /\ life'  = [life EXCEPT ![c] = "live"]
          /\ space' = [space EXCEPT ![c] = b.space]
          /\ brk'   = [brk EXCEPT ![c] = brk[p]]
      BY <2>4 DEF Fork
    <3> HIDE DEF b
    <3>3. CASE q = c
      <4>1. space'[q] = b.space /\ brk'[q] = brk[p] BY <3>2, <3>3, <2>2 DEF TypeOK
      <4>2. \A v \in VPage : b.space.page[v] # NONE <=> space[p].page[v] # NONE
        BY <3>1 DEF Cloned
      <4>3. Solid(space[p], brk[p]) BY <2>2
      <4>4. Solid(b.space, brk[p]) BY <4>2, <4>3, Layout DEF Solid
      <4> QED BY <4>1, <4>4
    <3>4. CASE q # c
      <4>1. q \in Held /\ space'[q] = space[q] /\ brk'[q] = brk[q]
        BY <3>2, <3>4, <2>2 DEF TypeOK, Held
      <4> QED BY <4>1, <2>2
    <3> QED BY <3>3, <3>4
  <2>5. ASSUME NEW image \in Images, Execve(p, image) PROVE Solid(space'[q], brk'[q])
    <3> DEFINE b == LoadProgram(used, image, FALSE)
    <3>1. ProgramLoaded(used, image, FALSE, b)
      <4>1. image \in Seq(Segments) BY ImagesAreSegments
      <4> QED BY <4>1, <2>1, UpFacts, ProgramLoads
    <3>2. /\ life' = life
          /\ \/ /\ b.result = "ok"
                /\ space' = [space EXCEPT ![p] = b.space]
                /\ brk'   = [brk EXCEPT ![p] = find_heap_start(image)]
             \/ space' = space /\ brk' = brk
      BY <2>5 DEF Execve
    <3> HIDE DEF b
    <3>3. q \in Held BY <3>2 DEF Held
    <3>4. CASE space' = space /\ brk' = brk BY <3>3, <3>4, <2>2
    <3>5. CASE /\ b.result = "ok"
               /\ space' = [space EXCEPT ![p] = b.space]
               /\ brk'   = [brk EXCEPT ![p] = find_heap_start(image)]
      <4>1. CASE q = p
        <5>1. space'[q] = b.space /\ brk'[q] = find_heap_start(image)
          BY <3>5, <4>1, <2>2 DEF TypeOK
        <5>2. NoHoles(image) OBVIOUS
        <5>3. Solid(b.space, find_heap_start(image)) BY <5>2, <3>1, <3>5, LoadedSolid
        <5> QED BY <5>1, <5>3
      <4>2. CASE q # p
        <5>1. space'[q] = space[q] /\ brk'[q] = brk[q] BY <3>3, <3>5, <4>2, <2>2 DEF TypeOK
        <5> QED BY <5>1, <3>3, <2>2
      <4> QED BY <4>1, <4>2
    <3> QED BY <3>2, <3>4, <3>5
  <2>6. CASE ExecveNotElf(p) BY <2>6 DEF ExecveNotElf
  <2>7. ASSUME NEW new \in 1 .. MaxBrk, Brk(p, new) PROVE Solid(space'[q], brk'[q])
    <3> DEFINE first == AlignUp(brk[p])
               count == AlignUp(new) - first
               b == Build(used, space[p])
               r == Grow(b, first, count)
    <3>1. new > brk[p] /\ brk[p] \in Nat /\ new \in Nat /\ new <= 2 * (VPAGES - 1)
      <4>1. new > brk[p] BY <2>7, Zenon DEF Brk
      <4>2. brk[p] \in 0 .. (2 * VPAGES) BY <2>2 DEF TypeOK
      <4>3. new \in Nat /\ new <= 2 * (VPAGES - 1) BY Layout DEF MaxBrk, Stack
      <4>4. brk[p] \in Nat BY <4>2, Layout
      <4> QED BY <4>1, <4>3, <4>4
    <3>2. first \in Nat /\ count \in Nat /\ first + count <= VPAGES /\ AlignUp(new) <= VPAGES
      BY <3>1, Layout DEF AlignUp
    <3>3. b \in Builds /\ b.result = "ok" /\ b.space = space[p]
      BY <2>1, UpFacts DEF Build, Builds, BuildT
    <3>4. HeapGrown(b, r, first, count)
      <4> HIDE DEF first, count, b
      <4> QED BY <3>2, <3>3, HeapGrows
    <3>5. /\ space' = [space EXCEPT ![p] = r.space]
          /\ brk' = [brk EXCEPT ![p] = IF r.result = "ok" THEN new ELSE @]
          /\ kernel' = State(r) /\ life' = life
      BY <2>7 DEF Brk
    <3> HIDE DEF b, r
    <3>6. q \in Held BY <3>5 DEF Held
    <3>7. CASE q = p
      <4>1. space'[q] = r.space /\ brk'[q] = IF r.result = "ok" THEN new ELSE brk[p]
        BY <3>5, <3>7, <2>2, Zenon DEF TypeOK
      <4>2. r.result # "stopped" BY <3>4, <3>5, StateFacts DEF HeapGrown
      <4>3. Solid(b.space, brk[p]) BY <3>3, <2>2
      <4>4. HeapGrown(b, r, AlignUp(brk[p]), AlignUp(new) - AlignUp(brk[p])) BY <3>4
      <4>5. Solid(r.space, IF r.result = "ok" THEN new ELSE brk[p])
        <5>1. AlignUp(new) <= VPAGES BY <3>2
        <5> HIDE DEF first, count
        <5> QED BY <3>1, <4>2, <4>3, <4>4, <5>1, GrownSolid
      <4> QED BY <4>1, <4>5
    <3>8. CASE q # p
      <4>1. space'[q] = space[q] /\ brk'[q] = brk[q] BY <3>5, <3>6, <3>8, <2>2 DEF TypeOK
      <4> QED BY <4>1, <3>6, <2>2
    <3> QED BY <3>7, <3>8
  <2>8. ASSUME NEW z \in Procs, Reap(p, z) PROVE Solid(space'[q], brk'[q])
    <3>1. /\ life'  = [life EXCEPT ![z] = "none"]
          /\ space' = [space EXCEPT ![z] = EmptySpace(NULL)]
          /\ brk'   = [brk EXCEPT ![z] = 0]
      BY <2>8 DEF Reap
    <3>2. q \in Held /\ q # z /\ space'[q] = space[q] /\ brk'[q] = brk[q]
      BY <3>1, <2>2 DEF Held, TypeOK
    <3> QED BY <3>2, <2>2
  <2> QED BY <2>0, <2>3, <2>4, <2>5, <2>6, <2>7, <2>8
<1> QED BY <1>1, <1>2

(* Whatever brk calls fail half way and are retried, the heap is mapped up  *)
(* to process_heap_ptr, for programs whose segments leave no hole.          *)
THEOREM HeapHasNoHole ==
    ASSUME \A image \in Images \cup {InitImage} : NoHoles(image)
    PROVE  Spec => []HeapMapped
<1>1. Init => HeapInv
  <2> SUFFICES ASSUME Init, NEW p \in Held PROVE Solid(space[p], brk[p])
    BY DEF HeapInv
  <2> DEFINE b == LoadProgram(RESERVED, InitImage, TRUE)
  <2>1. ProgramLoaded(RESERVED, InitImage, TRUE, b)
    <3>1. InitImage \in Seq(Segments) BY ImagesAreSegments
    <3> QED BY <3>1, ReservedAssumption, ProgramLoads
  <2>2. /\ State(b) = "up"
        /\ life = [x \in Procs |-> IF x = InitProc THEN "live" ELSE "none"]
        /\ space = [x \in Procs |-> IF x = InitProc THEN b.space ELSE EmptySpace(NULL)]
        /\ brk = [x \in Procs |-> IF x = InitProc THEN find_heap_start(InitImage) ELSE 0]
    BY DEF Init
  <2> HIDE DEF b
  <2>3. p = InitProc /\ space[p] = b.space /\ brk[p] = find_heap_start(InitImage)
    BY <2>2 DEF Held
  <2>4. b.result = "ok" BY <2>1, <2>2, StateFacts DEF ProgramLoaded
  <2>5. NoHoles(InitImage) /\ InitImage \in Images \cup {InitImage} OBVIOUS
  <2>6. Solid(b.space, find_heap_start(InitImage)) BY <2>1, <2>4, <2>5, LoadedSolid
  <2> QED BY <2>3, <2>6
<1>2. IInv /\ IInv' /\ HeapInv /\ [Next]_vars => HeapInv' BY HeapPreserved
<1>3. IInv /\ HeapInv => HeapMapped
  <2> SUFFICES ASSUME IInv, kernel = "up", NEW p \in Held, Solid(space[p], brk[p])
               PROVE  LET low == Min({v \in VPage : space[p].page[v] # NONE})
                      IN \A v \in low .. (AlignUp(brk[p]) - 1) : space[p].page[v] # NONE
    BY DEF HeapInv, HeapMapped
  <2> DEFINE M == {v \in VPage : space[p].page[v] # NONE}
             low == Min(M)
  <2>1. low \in M
    <3>1. M \subseteq Nat /\ Stack \in M BY Layout DEF Solid
    <3> HIDE DEF M
    <3> QED BY <3>1, MinIsLeast
  <2> HIDE DEF low
  <2>2. AlignUp(brk[p]) \in Nat /\ AlignUp(brk[p]) <= VPAGES
    <3>1. brk[p] \in 0 .. (2 * VPAGES) BY DEF IInv, TypeOK, Held
    <3> QED BY <3>1, Layout DEF AlignUp
  <2>3. low \in VPage /\ low \in Nat /\ space[p].page[low] # NONE BY <2>1, Layout
  <2>4. \A v \in low .. (AlignUp(brk[p]) - 1) : v \in VPage /\ low <= v /\ v < AlignUp(brk[p])
    BY <2>2, <2>3, Layout DEF VPage
  <2>5. \A v \in low .. (AlignUp(brk[p]) - 1) : space[p].page[v] # NONE
    BY <2>3, <2>4 DEF Solid
  <2> QED BY <2>5 DEF low
<1> QED BY <1>1, <1>2, <1>3, Invariance, PTL DEF Spec

=============================================================================
