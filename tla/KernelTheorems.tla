--------------------------- MODULE KernelTheorems ---------------------------
(***************************************************************************)
(* What every part of the kernel does with its data.  It keeps tasks in    *)
(* queues, modelled as sequences: what task_enqueue, task_dequeue and      *)
(* moving a whole queue do to the set of queued tasks, and when they keep  *)
(* a queue free of repeats.  It finds things by scanning from a first      *)
(* index: what a scan returns, and induction over the indices it passes.   *)
(* And it takes its memory from the page allocator: what that returns, for *)
(* a memory of any size.                                                   *)
(***************************************************************************)
EXTENDS PhysicalMemory, Sequences, WellFoundedInduction, TLAPS

(* An empty queue holds nobody. *)
LEMMA EmptyQueue ==
    ASSUME NEW S
    PROVE  <<>> \in Seq(S) /\ Range(<<>>) = {} /\ IsInjective(<<>>)
BY DEF Range, IsInjective

(* A queue is empty exactly when nobody is in it. *)
LEMMA QueueElements ==
    ASSUME NEW S, NEW s \in Seq(S)
    PROVE  Range(s) \subseteq S /\ (s = <<>> <=> Range(s) = {})
BY DEF Range

(* task_enqueue adds one process; without it there before, no repeats. *)
LEMMA QueueAppend ==
    ASSUME NEW S, NEW s \in Seq(S), NEW e \in S
    PROVE  /\ Append(s, e) \in Seq(S)
           /\ Range(Append(s, e)) = Range(s) \cup {e}
           /\ IsInjective(s) /\ e \notin Range(s) => IsInjective(Append(s, e))
<1>1. Append(s, e) \in Seq(S) OBVIOUS
<1>2. Range(Append(s, e)) = Range(s) \cup {e}
  <2>1. \A i \in 1 .. Len(s) : Append(s, e)[i] = s[i] OBVIOUS
  <2>2. Append(s, e)[Len(s) + 1] = e OBVIOUS
  <2>3. DOMAIN Append(s, e) = 1 .. (Len(s) + 1) /\ DOMAIN s = 1 .. Len(s) OBVIOUS
  <2> QED BY <2>1, <2>2, <2>3 DEF Range
<1>3. IsInjective(s) /\ e \notin Range(s) => IsInjective(Append(s, e))
  BY DEF Range, IsInjective
<1> QED BY <1>1, <1>2, <1>3

(* Moving a whole queue behind another. *)
LEMMA QueueConcat ==
    ASSUME NEW S, NEW s \in Seq(S), NEW t \in Seq(S)
    PROVE  /\ s \o t \in Seq(S)
           /\ Range(s \o t) = Range(s) \cup Range(t)
           /\ IsInjective(s) /\ IsInjective(t) /\ Range(s) \cap Range(t) = {}
                => IsInjective(s \o t)
<1>1. s \o t \in Seq(S) OBVIOUS
<1>2. /\ DOMAIN (s \o t) = 1 .. (Len(s) + Len(t))
      /\ DOMAIN s = 1 .. Len(s) /\ Len(s) \in Nat
      /\ DOMAIN t = 1 .. Len(t) /\ Len(t) \in Nat
  OBVIOUS
<1>3. \A i \in 1 .. (Len(s) + Len(t)) :
        (s \o t)[i] = IF i <= Len(s) THEN s[i] ELSE t[i - Len(s)]
  OBVIOUS
<1>4. Range(s \o t) = Range(s) \cup Range(t)
  <2>1. ASSUME NEW x \in Range(s \o t) PROVE x \in Range(s) \cup Range(t)
    <3>1. PICK i \in 1 .. (Len(s) + Len(t)) : (s \o t)[i] = x
      BY <2>1, <1>2 DEF Range
    <3>2. CASE i <= Len(s) BY <3>1, <3>2, <1>2, <1>3 DEF Range
    <3>3. CASE i > Len(s)
      <4>1. i - Len(s) \in 1 .. Len(t) BY <3>1, <3>3, <1>2
      <4>2. t[i - Len(s)] = x BY <3>1, <3>3, <1>2, <1>3
      <4> QED BY <4>1, <4>2, <1>2 DEF Range
    <3> QED BY <3>2, <3>3, <1>2
  <2>2. ASSUME NEW x \in Range(s) PROVE x \in Range(s \o t)
    <3>1. PICK i \in 1 .. Len(s) : s[i] = x BY <2>2, <1>2 DEF Range
    <3>2. i \in 1 .. (Len(s) + Len(t)) /\ (s \o t)[i] = x BY <3>1, <1>2, <1>3
    <3> QED BY <3>2, <1>2 DEF Range
  <2>3. ASSUME NEW x \in Range(t) PROVE x \in Range(s \o t)
    <3>1. PICK i \in 1 .. Len(t) : t[i] = x BY <2>3, <1>2 DEF Range
    <3>2. Len(s) + i \in 1 .. (Len(s) + Len(t)) BY <3>1, <1>2
    <3>3. (s \o t)[Len(s) + i] = x BY <3>1, <3>2, <1>2, <1>3
    <3> QED BY <3>2, <3>3, <1>2 DEF Range
  <2> QED BY <2>1, <2>2, <2>3
<1>5. ASSUME IsInjective(s), IsInjective(t), Range(s) \cap Range(t) = {}
      PROVE  IsInjective(s \o t)
  <2> SUFFICES ASSUME NEW i \in 1 .. (Len(s) + Len(t)),
                      NEW j \in 1 .. (Len(s) + Len(t)),
                      (s \o t)[i] = (s \o t)[j]
               PROVE  i = j
    BY <1>2 DEF IsInjective
  <2>1. ASSUME NEW a \in 1 .. Len(s), NEW b \in 1 .. Len(t) PROVE s[a] # t[b]
    BY <1>2, <1>5 DEF Range
  <2>2. \A a, b \in 1 .. Len(s) : s[a] = s[b] => a = b BY <1>2, <1>5 DEF IsInjective
  <2>3. \A a, b \in 1 .. Len(t) : t[a] = t[b] => a = b BY <1>2, <1>5 DEF IsInjective
  <2>4. CASE i <= Len(s) /\ j <= Len(s) BY <2>4, <2>2, <1>2, <1>3
  <2>5. CASE i > Len(s) /\ j > Len(s)
    <3>1. i - Len(s) \in 1 .. Len(t) /\ j - Len(s) \in 1 .. Len(t) BY <2>5, <1>2
    <3>2. t[i - Len(s)] = t[j - Len(s)] BY <2>5, <1>2, <1>3
    <3>3. i - Len(s) = j - Len(s) BY <3>1, <3>2, <2>3
    <3> QED BY <3>3, <1>2
  <2>6. CASE i <= Len(s) /\ j > Len(s)
    <3>1. i \in 1 .. Len(s) /\ j - Len(s) \in 1 .. Len(t) BY <2>6, <1>2
    <3>2. s[i] = t[j - Len(s)] BY <2>6, <1>2, <1>3
    <3> QED BY <3>1, <3>2, <2>1
  <2>7. CASE i > Len(s) /\ j <= Len(s)
    <3>1. j \in 1 .. Len(s) /\ i - Len(s) \in 1 .. Len(t) BY <2>7, <1>2
    <3>2. s[j] = t[i - Len(s)] BY <2>7, <1>2, <1>3
    <3> QED BY <3>1, <3>2, <2>1
  <2> QED BY <2>4, <2>5, <2>6, <2>7, <1>2
<1> QED BY <1>1, <1>4, <1>5

(* task_dequeue takes the head; without repeats the head is then gone. *)
LEMMA QueueTail ==
    ASSUME NEW S, NEW s \in Seq(S), s # <<>>
    PROVE  /\ Head(s) \in S
           /\ Tail(s) \in Seq(S)
           /\ Range(s) = {Head(s)} \cup Range(Tail(s))
           /\ IsInjective(s) => IsInjective(Tail(s)) /\ Head(s) \notin Range(Tail(s))
<1>1. Head(s) \in S /\ Tail(s) \in Seq(S) OBVIOUS
<1>2. DOMAIN Tail(s) = 1 .. (Len(s) - 1) /\ DOMAIN s = 1 .. Len(s) /\ Len(s) \in Nat \ {0}
  OBVIOUS
<1>3. \A i \in 1 .. (Len(s) - 1) : Tail(s)[i] = s[i + 1] OBVIOUS
<1>4. Head(s) = s[1] OBVIOUS
<1>5. Range(s) = {Head(s)} \cup Range(Tail(s))
  <2>1. ASSUME NEW x \in Range(s) PROVE x \in {Head(s)} \cup Range(Tail(s))
    <3>1. PICK i \in 1 .. Len(s) : s[i] = x BY <2>1, <1>2 DEF Range
    <3>2. CASE i = 1 BY <3>1, <3>2, <1>4
    <3>3. CASE i # 1
      <4>1. i - 1 \in 1 .. (Len(s) - 1) BY <3>1, <3>3, <1>2
      <4>2. Tail(s)[i - 1] = x BY <4>1, <3>1, <1>2, <1>3
      <4> QED BY <4>1, <4>2, <1>2 DEF Range
    <3> QED BY <3>2, <3>3
  <2>2. Head(s) \in Range(s) BY <1>2, <1>4 DEF Range
  <2>3. ASSUME NEW x \in Range(Tail(s)) PROVE x \in Range(s)
    <3>1. PICK i \in 1 .. (Len(s) - 1) : Tail(s)[i] = x BY <2>3, <1>2 DEF Range
    <3>2. i + 1 \in 1 .. Len(s) /\ s[i + 1] = x BY <3>1, <1>2, <1>3
    <3> QED BY <3>2, <1>2 DEF Range
  <2> QED BY <2>1, <2>2, <2>3
<1>6. IsInjective(s) => IsInjective(Tail(s)) /\ Head(s) \notin Range(Tail(s))
  BY <1>2, <1>3, <1>4 DEF Range, IsInjective
<1> QED BY <1>1, <1>5, <1>6

-----------------------------------------------------------------------------
(* A set of indices that is not empty has a least one. *)
LEMMA LeastElement ==
    ASSUME NEW S, S \subseteq Nat, S # {}
    PROVE  \E m \in S : \A k \in S : m <= k
<1> DEFINE R == OpToRel(<, Nat)
<1>1. PICK m \in S : \A k \in S : <<k, m>> \notin R
  <2>1. IsWellFoundedOn(R, Nat) BY NatLessThanWellFounded
  <2> HIDE DEF R
  <2> QED BY <2>1, WFMin
<1>2. \A k \in S : ~ (k < m) BY <1>1 DEF OpToRel
<1> QED BY <1>2

(* What a scan from the first index stops at. *)
LEMMA MinIsLeast ==
    ASSUME NEW S, S \subseteq Nat, S # {}
    PROVE  Min(S) \in S /\ \A k \in S : Min(S) <= k
<1>1. PICK m \in S : \A k \in S : m <= k BY LeastElement
<1> QED BY <1>1 DEF Min

(* Induction over the indices. *)
LEMMA IndexInduction ==
    ASSUME NEW S, 0 \in S, \A n \in Nat : n \in S => n + 1 \in S
    PROVE  Nat \subseteq S
<1> SUFFICES ASSUME Nat \ S # {} PROVE FALSE
  OBVIOUS
<1>1. PICK m \in Nat \ S : \A k \in Nat \ S : m <= k BY LeastElement
<1>2. m - 1 \in Nat /\ m - 1 \in S BY <1>1
<1> QED BY <1>1, <1>2

(* The highest index a scan passes, when there is one. *)
LEMMA MaxIsGreatest ==
    ASSUME NEW n \in Nat, NEW S, S \subseteq 0 .. n, S # {}
    PROVE  Max(S) \in S /\ \A k \in S : k <= Max(S)
<1> DEFINE T == {n - k : k \in S}
<1>0. \A k \in S : k \in Int /\ n - k \in Nat OBVIOUS
<1>1. T \subseteq Nat /\ T # {} BY <1>0
<1> HIDE DEF T
<1>2. PICK m \in T : \A k \in T : m <= k BY <1>1, LeastElement
<1>3. PICK s \in S : m = n - s BY <1>2 DEF T
<1>4. \A k \in S : n - k \in T BY DEF T
<1>5. ASSUME NEW k \in S PROVE k <= s
  <2>1. m <= n - k BY <1>2, <1>4
  <2> QED BY <2>1, <1>0, <1>3
<1> QED BY <1>3, <1>5 DEF Max

IsLoop(f, N, c, G) == f = [i \in 0 .. N |-> IF i = 0 THEN c ELSE G[i][f[i - 1]]]

(* A loop that carries a value of X from each index to the next computes    *)
(* one: the recursive functions the loops are written as exist.             *)
LEMMA LoopExists ==
    ASSUME NEW N \in Nat, NEW X, NEW c \in X, NEW G \in [1 .. N -> [X -> X]]
    PROVE  \E f \in [0 .. N -> X] : IsLoop(f, N, c, G)
<1> DEFINE Upto(n, f) == /\ f \in [0 .. n -> X]
                         /\ f[0] = c
                         /\ \A i \in 1 .. n : f[i] = G[i][f[i - 1]]
           S == {n \in Nat : n <= N => \E f : Upto(n, f)}
<1>1. 0 \in S
  <2>1. Upto(0, [i \in 0 .. 0 |-> c]) OBVIOUS
  <2> QED BY <2>1
<1>2. ASSUME NEW n \in Nat, n \in S PROVE n + 1 \in S
  <2> SUFFICES ASSUME n + 1 <= N PROVE \E f : Upto(n + 1, f)
    OBVIOUS
  <2>1. PICK f : Upto(n, f) BY <1>2
  <2> DEFINE g == [i \in 0 .. (n + 1) |-> IF i = n + 1 THEN G[n + 1][f[n]] ELSE f[i]]
  <2>2. f[n] \in X /\ n + 1 \in 1 .. N BY <2>1
  <2>3. G[n + 1][f[n]] \in X BY <2>2
  <2>4. g \in [0 .. (n + 1) -> X] BY <2>1, <2>3
  <2>5. g[0] = c BY <2>1
  <2>6. ASSUME NEW i \in 1 .. (n + 1) PROVE g[i] = G[i][g[i - 1]]
    <3>1. CASE i = n + 1
      <4>1. g[i] = G[n + 1][f[n]] /\ g[i - 1] = f[n] BY <3>1
      <4> QED BY <4>1, <3>1
    <3>2. CASE i # n + 1
      <4>1. i \in 1 .. n /\ g[i] = f[i] /\ g[i - 1] = f[i - 1] BY <3>2
      <4> QED BY <4>1, <2>1
    <3> QED BY <3>1, <3>2
  <2>7. Upto(n + 1, g) BY <2>4, <2>5, <2>6
  <2> QED BY <2>7
<1>3. N \in S
  <2> HIDE DEF S
  <2> QED BY <1>1, <1>2, IndexInduction
<1>4. PICK f : Upto(N, f) BY <1>3
<1>5. f = [i \in 0 .. N |-> IF i = 0 THEN c ELSE G[i][f[i - 1]]] BY <1>4
<1> QED BY <1>4, <1>5 DEF IsLoop

(* Of n + 1 indices below n, two are the same. *)
LEMMA Pigeonhole ==
    ASSUME NEW n \in Nat, NEW f, \A i \in 0 .. n : f[i] \in 0 .. (n - 1)
    PROVE  \E i, j \in 0 .. n : i < j /\ f[i] = f[j]
<1> DEFINE Below(m, g) == \A i \in 0 .. m : g[i] \in 0 .. (m - 1)
           Once(m, g) == \A i, j \in 0 .. m : g[i] = g[j] => i = j
           S == {m \in Nat : \A g : Below(m, g) => ~ Once(m, g)}
<1>1. 0 \in S OBVIOUS
<1>2. ASSUME NEW m \in Nat, m \in S PROVE m + 1 \in S
  <2> HIDE DEF S
  <2>1. ASSUME NEW g, Below(m + 1, g), Once(m + 1, g) PROVE FALSE
    <3> DEFINE h == [i \in 0 .. m |-> IF g[i] = m THEN g[m + 1] ELSE g[i]]
    <3>1. \A i \in 0 .. m : i \in 0 .. (m + 1) /\ m + 1 \in 0 .. (m + 1) /\ i # m + 1 OBVIOUS
    <3>2. \A i \in 0 .. m : g[i] \in 0 .. m /\ g[m + 1] \in 0 .. m /\ g[i] # g[m + 1]
      BY <3>1, <2>1
    <3>3. Below(m, h) BY <3>2
    <3>4. Once(m, h) BY <3>1, <3>2, <2>1
    <3> HIDE DEF h, Below, Once
    <3> QED BY <3>3, <3>4, <1>2, Zenon DEF S
  <2>2. m + 1 \in Nat OBVIOUS
  <2> HIDE DEF Below, Once
  <2> QED BY <2>1, <2>2, Zenon DEF S
<1>3. n \in S
  <2> HIDE DEF S
  <2> QED BY <1>1, <1>2, IndexInduction
<1>4. ~ Once(n, f)
  <2>1. Below(n, f) OBVIOUS
  <2> HIDE DEF Below, Once
  <2> QED BY <1>3, <2>1, Zenon
<1>5. PICK i \in 0 .. n, j \in 0 .. n : f[i] = f[j] /\ i # j BY <1>4
<1>6. i < j \/ j < i BY <1>5
<1> QED BY <1>5, <1>6

-----------------------------------------------------------------------------
USE DEF NULL

(* Frames, spelled out for the provers. *)
LEMMA FrameFacts ==
    /\ FRAMES \in Nat /\ FRAMES > 0
    /\ Frame \subseteq Nat /\ NULL \in Frame
BY FramesAssumption DEF Frame

(* pmm_alloc_page gives out a frame whose bit was clear and sets that bit   *)
(* alone, and returns NULL only when no bit is clear.                       *)
LEMMA AllocPage ==
    ASSUME NEW u, NULL \in u
    PROVE  LET got == pmm_alloc_page(u) IN
           \/ /\ got.frame = NULL /\ got.used = u /\ Frame \subseteq u
           \/ /\ got.frame \in Frame \ u /\ got.frame # NULL
              /\ got.used = u \cup {got.frame}
<1>1. CASE Frame \subseteq u
  BY <1>1 DEF pmm_alloc_page, Refusal
<1>2. CASE ~ (Frame \subseteq u)
  <2> DEFINE f == Min(Frame \ u)
  <2>1. f \in Frame \ u BY <1>2, FrameFacts, MinIsLeast
  <2> HIDE DEF f
  <2>2. f .. (f + 1 - 1) = {f}
    <3>1. f \in Nat BY <2>1, FrameFacts
    <3> QED BY <3>1
  <2>3. pmm_alloc_page(u) = [frame |-> f, used |-> u \cup {f}]
    BY <1>2, <2>2 DEF pmm_alloc_page, Grant, f
  <2> QED BY <2>1, <2>3
<1> QED BY <1>1, <1>2

(* The runs of free frames that pmm_alloc_pages could return. *)
Fits(u, count) == {i \in Frame : i .. (i + count - 1) \subseteq Frame \ u}

(* The jumps of pmm_alloc_pages over used frames miss no run, on a memory   *)
(* of any size and for a count up to that size: it takes the lowest run     *)
(* that is free as a whole, and is refused only when there is none.         *)
THEOREM FirstFitInAnyMemory ==
    ASSUME NEW u, NEW count \in 1 .. FRAMES
    PROVE  pmm_alloc_pages(u, count) = IF Fits(u, count) = {} THEN Refusal(u)
                                       ELSE Grant(u, Min(Fits(u, count)), count)
<1> DEFINE busy(i) == {j \in i .. (i + count - 1) : IsUsed(u, j)}
           Eq(f) == f = [i \in 0 .. (FRAMES + 1) |->
                            IF i > FRAMES - count THEN Refusal(u)
                            ELSE IF busy(i) = {} THEN Grant(u, i, count)
                            ELSE f[Min(busy(i)) + 1]]
           from == CHOOSE f : Eq(f)
           above(i) == {k \in Fits(u, count) : i <= k}
           answer(i) == IF above(i) = {} THEN Refusal(u)
                        ELSE Grant(u, Min(above(i)), count)
           sol == [i \in 0 .. (FRAMES + 1) |-> answer(i)]
<1>0. \A k \in Fits(u, count) : k \in Nat BY FrameFacts DEF Fits
<1>a. count \in Nat \ {0} /\ ~ (count > FRAMES) BY FrameFacts
<1>1. pmm_alloc_pages(u, count) = from[0] BY <1>a DEF pmm_alloc_pages
<1>2. \A i \in Frame : busy(i) = {} <=> i \in Fits(u, count)
  BY DEF IsUsed, Fits
<1>3. \A i \in Nat : i > FRAMES - count => above(i) = {}
  <2> SUFFICES ASSUME NEW i \in Nat, i > FRAMES - count, NEW k \in Frame,
                      i <= k, k .. (k + count - 1) \subseteq Frame
               PROVE  FALSE
    BY DEF Fits
  <2>1. k \in Nat /\ k + count - 1 \in k .. (k + count - 1) BY FrameFacts
  <2>2. k + count - 1 <= FRAMES - 1 BY <2>1 DEF Frame
  <2> QED BY <2>1, <2>2, FrameFacts
<1>4. \A i \in Nat : i <= FRAMES - count => i \in Frame
  BY FrameFacts DEF Frame
<1>5. ASSUME NEW i \in Nat, i <= FRAMES - count, busy(i) # {}
      PROVE  /\ Min(busy(i)) + 1 \in (i + 1) .. (FRAMES + 1)
             /\ above(i) = above(Min(busy(i)) + 1)
  <2>1. busy(i) \subseteq Nat OBVIOUS
  <2> DEFINE m == Min(busy(i))
  <2>2. m \in busy(i) BY <1>5, <2>1, MinIsLeast
  <2>3. m \in Nat /\ i <= m /\ m <= i + count - 1 /\ IsUsed(u, m) BY <2>2
  <2> HIDE DEF m
  <2>4. ASSUME NEW k \in Fits(u, count), i <= k PROVE m + 1 <= k
    <3>1. k \in Nat /\ k .. (k + count - 1) \subseteq Frame \ u BY FrameFacts DEF Fits
    <3>2. m \notin k .. (k + count - 1) BY <3>1, <2>3 DEF IsUsed
    <3> QED BY <3>1, <3>2, <2>3, <2>4
  <2>5. above(i) = above(m + 1) BY <2>3, <2>4, <1>0
  <2> QED BY <2>3, <2>5, <1>5, FrameFacts DEF m
<1>6. ASSUME NEW i \in Nat, i <= FRAMES - count, busy(i) = {}
      PROVE  above(i) # {} /\ Min(above(i)) = i
  <2>1. i \in Fits(u, count) BY <1>2, <1>4, <1>6
  <2>2. above(i) \subseteq Nat /\ i \in above(i)
    <3>1. i <= i OBVIOUS
    <3> QED BY <2>1, <3>1, <1>0
  <2>3. Min(above(i)) \in above(i) /\ Min(above(i)) <= i BY <2>2, MinIsLeast
  <2> QED BY <2>2, <2>3
<1>7. Eq(sol)
  <2> SUFFICES ASSUME NEW i \in 0 .. (FRAMES + 1)
               PROVE  answer(i) = IF i > FRAMES - count THEN Refusal(u)
                                  ELSE IF busy(i) = {} THEN Grant(u, i, count)
                                  ELSE sol[Min(busy(i)) + 1]
    OBVIOUS
  <2>1. CASE i > FRAMES - count BY <2>1, <1>3
  <2>2. CASE ~ (i > FRAMES - count) /\ busy(i) = {}
    <3>1. i \in Nat /\ i <= FRAMES - count BY <2>2, FrameFacts
    <3>2. answer(i) = Grant(u, i, count) BY <3>1, <1>6, <2>2
    <3> QED BY <2>2, <3>2
  <2>3. CASE ~ (i > FRAMES - count) /\ busy(i) # {}
    <3>1. i \in Nat /\ i <= FRAMES - count BY <2>3, FrameFacts
    <3>2. /\ Min(busy(i)) + 1 \in 0 .. (FRAMES + 1)
          /\ above(i) = above(Min(busy(i)) + 1)
      BY <3>1, <1>5, <2>3
    <3>3. sol[Min(busy(i)) + 1] = answer(Min(busy(i)) + 1) BY <3>2
    <3> QED BY <3>2, <3>3, <2>3
  <2> QED BY <2>1, <2>2, <2>3
<1>8. Eq(from)
  <2> HIDE DEF Eq, sol
  <2> QED BY <1>7
<1> HIDE DEF from
<1>9. \A i \in 0 .. (FRAMES + 1) : from[i] = answer(i)
  <2> DEFINE Wrong == {i \in 0 .. (FRAMES + 1) : from[i] # answer(i)}
  <2> SUFFICES ASSUME Wrong # {} PROVE FALSE
    OBVIOUS
  <2>1. FRAMES + 1 \in Nat BY FrameFacts
  <2> DEFINE i == Max(Wrong)
  <2>2. i \in Wrong /\ \A k \in Wrong : k <= i
    <3> HIDE DEF Wrong
    <3>1. Wrong \subseteq 0 .. (FRAMES + 1) BY DEF Wrong
    <3> QED BY <2>1, <3>1, MaxIsGreatest
  <2> HIDE DEF i
  <2>3. i \in Nat /\ i \in 0 .. (FRAMES + 1) /\ from[i] # answer(i) BY <2>2
  <2>4. \A k \in (i + 1) .. (FRAMES + 1) : from[k] = answer(k)
    BY <2>2, <2>3, FrameFacts
  <2>5. from[i] = IF i > FRAMES - count THEN Refusal(u)
                  ELSE IF busy(i) = {} THEN Grant(u, i, count)
                  ELSE from[Min(busy(i)) + 1]
    BY <2>3, <1>8
  <2>6. CASE i > FRAMES - count BY <2>3, <2>5, <2>6, <1>3
  <2>7. CASE ~ (i > FRAMES - count) /\ busy(i) = {}
    <3>1. i <= FRAMES - count BY <2>3, <2>7, FrameFacts
    <3>2. answer(i) = Grant(u, i, count) BY <2>3, <3>1, <1>6, <2>7
    <3> QED BY <2>3, <2>5, <2>7, <3>2
  <2>8. CASE ~ (i > FRAMES - count) /\ busy(i) # {}
    <3>1. i <= FRAMES - count BY <2>3, <2>8, FrameFacts
    <3>2. /\ Min(busy(i)) + 1 \in (i + 1) .. (FRAMES + 1)
          /\ above(i) = above(Min(busy(i)) + 1)
      BY <2>3, <3>1, <1>5, <2>8
    <3>3. from[i] = answer(Min(busy(i)) + 1) BY <3>2, <2>4, <2>5, <2>8
    <3> QED BY <2>3, <3>2, <3>3
  <2> QED BY <2>6, <2>7, <2>8
<1>10. above(0) = Fits(u, count)
  <2>1. \A k \in Fits(u, count) : 0 <= k BY <1>0
  <2> QED BY <2>1
<1> QED BY <1>1, <1>9, <1>10, FrameFacts

(* What load_segment gets: nothing at all, NULL, or frames whose bits were  *)
(* all clear.                                                               *)
LEMMA AllocRun ==
    ASSUME NEW u, NULL \in u, NEW count \in Nat \ {0}
    PROVE  LET got == pmm_alloc_pages(u, count) IN
           \/ got.frame = NEVER /\ got.used = u /\ count > FRAMES
           \/ got.frame = NULL /\ got.used = u
           \/ /\ got.frame \in Frame /\ got.frame # NULL
              /\ got.frame .. (got.frame + count - 1) \subseteq Frame \ u
              /\ got.used = u \cup (got.frame .. (got.frame + count - 1))
<1>0. CASE count > FRAMES
  <2>1. pmm_alloc_pages(u, count) = Endless(u) BY <1>0 DEF pmm_alloc_pages
  <2> QED BY <1>0, <2>1 DEF Endless
<1>a. ~ (count > FRAMES) => count \in 1 .. FRAMES BY FrameFacts
<1>1. CASE ~ (count > FRAMES) /\ Fits(u, count) = {}
  <2>1. pmm_alloc_pages(u, count) = Refusal(u) BY <1>1, <1>a, FirstFitInAnyMemory
  <2> QED BY <2>1 DEF Refusal
<1>2. CASE ~ (count > FRAMES) /\ Fits(u, count) # {}
  <2> DEFINE f == Min(Fits(u, count))
  <2>1. f \in Fits(u, count)
    <3>1. Fits(u, count) \subseteq Nat BY FrameFacts DEF Fits
    <3> QED BY <1>2, <3>1, MinIsLeast
  <2>2. pmm_alloc_pages(u, count) = Grant(u, f, count) BY <1>2, <1>a, FirstFitInAnyMemory
  <2> HIDE DEF f
  <2>3. f \in Frame /\ f .. (f + count - 1) \subseteq Frame \ u BY <2>1 DEF Fits
  <2>4. f \in f .. (f + count - 1) BY <2>3, FrameFacts
  <2>5. f # NULL BY <2>3, <2>4
  <2> QED BY <2>2, <2>3, <2>5 DEF Grant
<1> QED BY <1>0, <1>1, <1>2

=============================================================================
