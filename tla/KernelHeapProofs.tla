-------------------------- MODULE KernelHeapProofs --------------------------
(***************************************************************************)
(* The lists and blocks of KernelHeap, for every size of memory and of a   *)
(* page: no sequence of kmalloc and kfree breaks a list, loses a block or  *)
(* hands a unit out twice.                                                 *)
(***************************************************************************)
EXTENDS MCKernelHeap, KernelTheorems

USE DEF NULL

(* Units and pages, spelled out for the provers. *)
LEMMA Sizes ==
    /\ PAGE \in Nat /\ PAGE >= 2 /\ FRAMES * PAGE \in Nat /\ FRAMES * PAGE >= PAGE
    /\ MAX_SMALL \in Nat /\ MAX_SMALL = PAGE - 1 /\ MAX_SMALL <= FRAMES * PAGE
    /\ Unit \subseteq Nat /\ NULL \in Unit
    /\ \A u \in Nat : u \in Unit <=> u < FRAMES * PAGE
<1>1. PAGE \in Nat /\ PAGE >= 2 /\ FRAMES \in Nat /\ FRAMES >= 1
  BY PageAssumption, FrameFacts
<1>2. FRAMES * PAGE \in Nat /\ FRAMES * PAGE >= PAGE BY <1>1
<1> QED BY <1>1, <1>2 DEF Unit, MAX_SMALL

(* The page a unit is in. *)
LEMMA PageBounds ==
    ASSUME NEW u \in Nat
    PROVE  /\ u \div PAGE \in Nat
           /\ (u \div PAGE) * PAGE <= u /\ u < (u \div PAGE) * PAGE + PAGE
BY PageAssumption

(* The units of k pages from page f on. *)
LEMMA RunUnits ==
    ASSUME NEW f \in Nat, NEW k \in Nat, NEW u \in Nat
    PROVE  u \div PAGE \in f .. (f + k - 1)
              <=> f * PAGE <= u /\ u <= f * PAGE + k * PAGE - 1
<1> DEFINE q == u \div PAGE
<1>1. q \in Nat /\ q * PAGE <= u /\ u < q * PAGE + PAGE BY PageBounds
<1> HIDE DEF q
<1>2. PAGE \in Nat /\ PAGE >= 2 BY PageAssumption
<1>3. \A a, b \in Nat : a <= b => a * PAGE <= b * PAGE BY <1>2
<1>4. \A a, b \in Nat : (a + b) * PAGE = a * PAGE + b * PAGE /\ a * PAGE \in Nat BY <1>2
<1>5. (q + 1) * PAGE = q * PAGE + PAGE /\ (f + k) * PAGE = f * PAGE + k * PAGE
  BY <1>1, <1>2, <1>4
<1>6. f * PAGE \in Nat /\ k * PAGE \in Nat /\ q * PAGE \in Nat BY <1>1, <1>4, Zenon
<1>7. CASE q < f
  <2>1. q + 1 <= f BY <1>1, <1>7
  <2>2. (q + 1) * PAGE <= f * PAGE BY <2>1, <1>1, <1>3
  <2> QED BY <2>2, <1>1, <1>2, <1>5, <1>6, <1>7 DEF q
<1>8. CASE f <= q /\ q < f + k
  <2>1. q + 1 <= f + k BY <1>1, <1>8
  <2>2. f * PAGE <= q * PAGE /\ (q + 1) * PAGE <= (f + k) * PAGE
    BY <2>1, <1>1, <1>8, <1>3
  <2> QED BY <2>2, <1>1, <1>2, <1>5, <1>6, <1>8 DEF q
<1>9. CASE f + k <= q
  <2>1. (f + k) * PAGE <= q * PAGE BY <1>1, <1>9, <1>3
  <2> QED BY <2>1, <1>1, <1>2, <1>5, <1>6, <1>9 DEF q
<1> QED BY <1>1, <1>7, <1>8, <1>9

(* A unit is in memory exactly when its page is. *)
LEMMA UnitPage ==
    ASSUME NEW u \in Nat
    PROVE  u \in Unit <=> u \div PAGE \in Frame
<1>1. u \div PAGE \in 0 .. (0 + FRAMES - 1)
         <=> 0 * PAGE <= u /\ u <= 0 * PAGE + FRAMES * PAGE - 1
  BY RunUnits, FrameFacts
<1>2. 0 * PAGE = 0 BY PageAssumption
<1> QED BY <1>1, <1>2, Sizes, FrameFacts DEF Frame

-----------------------------------------------------------------------------
(* One doubly linked list. *)

(* The links lead through the blocks of S, each once: they climb in r, and  *)
(* prev undoes next.                                                        *)
List(S, r, head, nx, pv) ==
    /\ S \subseteq Unit \ {NULL}
    /\ head \in S \cup {NULL}
    /\ head = NULL => S = {}
    /\ \A b \in S :
          /\ nx[b] \in S \cup {NULL}
          /\ nx[b] # NULL => pv[nx[b]] = b /\ r[b] < r[nx[b]]
          /\ pv[b] = NULL <=> b = head
          /\ pv[b] # NULL => pv[b] \in S /\ nx[pv[b]] = b

Links == [Unit -> Unit]
Ranks == [Unit -> Int]

(* A list is its own links only. *)
LEMMA ListFrame ==
    ASSUME NEW S, NEW r, NEW head, NEW nx, NEW pv, NEW q, NEW nx2, NEW pv2,
           List(S, r, head, nx, pv),
           \A b \in S : q[b] = r[b] /\ nx2[b] = nx[b] /\ pv2[b] = pv[b]
    PROVE  List(S, q, head, nx2, pv2)
BY DEF List

(* What an assignment through a pointer does. *)
LEMMA SetFacts ==
    ASSUME NEW f \in Links, NEW p \in Unit, NEW v \in Unit
    PROVE  /\ Set(f, p, v) \in Links
           /\ \A x \in Unit : Set(f, p, v)[x] = IF x = p /\ p # NULL THEN v ELSE f[x]
BY DEF Set, Links

(* Of some units one has the lowest rank. *)
LEMMA LowestRank ==
    ASSUME NEW T, T \subseteq Unit, T # {}, NEW r \in Ranks
    PROVE  \E m \in T : \A c \in T : r[m] <= r[c]
<1> DEFINE Low(n) == \A X \in SUBSET (Unit \cap 0 .. n) :
                        X # {} => \E m \in X : \A c \in X : r[m] <= r[c]
           K == {n \in Nat : Low(n)}
<1>0. \A u \in Unit : r[u] \in Int BY DEF Ranks
<1>1. 0 \in K
  <2> SUFFICES ASSUME NEW X \in SUBSET (Unit \cap 0 .. 0), X # {}
               PROVE  \E m \in X : \A c \in X : r[m] <= r[c]
    OBVIOUS
  <2>1. X = {0} OBVIOUS
  <2>2. 0 \in Unit BY Sizes
  <2>3. r[0] <= r[0] BY <1>0, <2>2
  <2> QED BY <2>1, <2>3
<1>2. ASSUME NEW n \in Nat, n \in K PROVE n + 1 \in K
  <2> SUFFICES ASSUME NEW X \in SUBSET (Unit \cap 0 .. (n + 1)), X # {}
               PROVE  \E m \in X : \A c \in X : r[m] <= r[c]
    OBVIOUS
  <2> DEFINE Y == X \ {n + 1}
  <2>1. Y \in SUBSET (Unit \cap 0 .. n) BY Sizes
  <2>2. CASE Y = {}
    <3>1. X = {n + 1} BY <2>2
    <3>2. r[n + 1] \in Int BY <3>1, <1>0
    <3> QED BY <3>1, <3>2
  <2>3. CASE Y # {}
    <3>1. PICK m \in Y : \A c \in Y : r[m] <= r[c] BY <1>2, <2>1, <2>3, Zenon
    <3>2. \A c \in X : r[c] \in Int BY <1>0
    <3>3. CASE n + 1 \in X /\ r[n + 1] < r[m]
      <4>1. \A c \in X : r[n + 1] <= r[c]
        <5> SUFFICES ASSUME NEW c \in X PROVE r[n + 1] <= r[c]
          OBVIOUS
        <5>1. CASE c = n + 1 BY <5>1, <3>2, <3>3
        <5>2. CASE c # n + 1 BY <5>2, <3>1, <3>2, <3>3
        <5> QED BY <5>1, <5>2
      <4> QED BY <3>3, <4>1
    <3>4. CASE n + 1 \notin X BY <3>1, <3>4
    <3>5. CASE n + 1 \in X /\ ~ (r[n + 1] < r[m])
      <4>1. r[m] <= r[n + 1] BY <3>2, <3>5
      <4> QED BY <3>1, <4>1
    <3> QED BY <3>3, <3>4, <3>5
  <2> QED BY <2>2, <2>3
<1>3. FRAMES * PAGE \in K
  <2> HIDE DEF K
  <2> QED BY <1>1, <1>2, IndexInduction, Sizes
<1>4. T \in SUBSET (Unit \cap 0 .. (FRAMES * PAGE)) BY Sizes
<1> QED BY <1>3, <1>4
(* Taking a block out joins its neighbours.  That the list is empty when    *)
(* its head had no successor needs the ranks: the lowest of the other       *)
(* blocks could only come after the head.                                   *)
LEMMA Unlink ==
    ASSUME NEW S, NEW r \in Ranks, NEW head, NEW nx \in Links, NEW pv \in Links,
           List(S, r, head, nx, pv), NEW b \in S
    PROVE  List(S \ {b}, r, IF b = head THEN nx[b] ELSE head,
                Set(nx, pv[b], nx[b]), Set(pv, nx[b], pv[b]))
<1> DEFINE nx2 == Set(nx, pv[b], nx[b])
           pv2 == Set(pv, nx[b], pv[b])
           head2 == IF b = head THEN nx[b] ELSE head
<1>1. S \subseteq Unit /\ b \in Unit /\ b # NULL BY DEF List
<1>2. nx[b] \in Unit /\ pv[b] \in Unit BY <1>1 DEF Links
<1>3. \A x \in S : nx2[x] = IF x = pv[b] /\ pv[b] # NULL THEN nx[b] ELSE nx[x]
  BY <1>1, <1>2 DEF Set, Links
<1>4. \A x \in S : pv2[x] = IF x = nx[b] /\ nx[b] # NULL THEN pv[b] ELSE pv[x]
  BY <1>1, <1>2 DEF Set, Links
<1> HIDE DEF nx2, pv2
<1>5. \A x \in S : r[x] \in Int BY <1>1 DEF Ranks
<1>6. nx[b] # b /\ pv[b] # b
  <2>1. nx[b] # b BY <1>1, <1>5 DEF List
  <2>2. pv[b] # b BY <1>1, <2>1 DEF List
  <2> QED BY <2>1, <2>2
<1>7. head2 \in (S \ {b}) \cup {NULL}
  <2>1. CASE b = head BY <2>1, <1>6 DEF List
  <2>2. CASE b # head BY <2>2 DEF List
  <2> QED BY <2>1, <2>2
<1>8. ASSUME head2 = NULL PROVE S \ {b} = {}
  <2>1. b = head /\ nx[b] = NULL BY <1>8 DEF List
  <2> SUFFICES ASSUME S \ {b} # {} PROVE FALSE
    OBVIOUS
  <2>2. PICK m \in S \ {b} : \A c \in S \ {b} : r[m] <= r[c]
    BY <1>1, LowestRank, Zenon
  <2>3. pv[m] \in S /\ nx[pv[m]] = m BY <2>1, <2>2 DEF List
  <2>4. r[pv[m]] < r[m]
    <3>1. m # NULL BY <1>1 DEF List
    <3> QED BY <2>3, <3>1 DEF List
  <2>5. pv[m] # b BY <2>1, <2>3, <1>1 DEF List
  <2> QED BY <2>2, <2>3, <2>4, <2>5, <1>5
<1>9. ASSUME NEW x \in S \ {b}
      PROVE  /\ nx2[x] \in (S \ {b}) \cup {NULL}
             /\ nx2[x] # NULL => pv2[nx2[x]] = x /\ r[x] < r[nx2[x]]
  <2>1. CASE x = pv[b]
    <3>1. x # NULL /\ nx[x] = b BY <2>1, <1>1 DEF List
    <3>2. nx2[x] = nx[b] BY <2>1, <3>1, <1>3
    <3>3. nx[b] # NULL => nx[b] \in S \ {b} /\ pv2[nx[b]] = x
      BY <2>1, <1>4, <1>6 DEF List
    <3>4. nx[b] # NULL => r[x] < r[b] /\ r[b] < r[nx[b]]
      BY <3>1, <1>1 DEF List
    <3> QED BY <3>2, <3>3, <3>4, <1>5 DEF List
  <2>2. CASE x # pv[b]
    <3>1. nx2[x] = nx[x] BY <2>2, <1>3
    <3>2. nx[x] # b BY <2>2, <1>1 DEF List
    <3>3. ASSUME nx[x] # NULL PROVE pv2[nx[x]] = x /\ r[x] < r[nx[x]]
      <4>1. nx[x] \in S /\ pv[nx[x]] = x /\ r[x] < r[nx[x]] BY <3>3 DEF List
      <4>2. nx[x] # nx[b] \/ nx[b] = NULL BY <4>1, <1>1 DEF List
      <4>3. pv2[nx[x]] = pv[nx[x]] BY <4>1, <4>2, <1>4, <3>3
      <4> QED BY <4>1, <4>3
    <3> QED BY <3>1, <3>2, <3>3 DEF List
  <2> QED BY <2>1, <2>2
<1>10. ASSUME NEW x \in S \ {b}
       PROVE  /\ pv2[x] = NULL <=> x = head2
              /\ pv2[x] # NULL => pv2[x] \in S \ {b} /\ nx2[pv2[x]] = x
  <2>0. x # NULL BY <1>1 DEF List
  <2>1. CASE x = nx[b]
    <3>1. pv[x] = b /\ pv2[x] = pv[b] BY <2>0, <2>1, <1>4 DEF List
    <3>2. pv[b] = NULL <=> b = head BY DEF List
    <3>3. x # head BY <3>1, <1>1 DEF List
    <3>4. pv2[x] = NULL <=> x = head2 BY <2>1, <3>1, <3>2, <3>3
    <3>5. pv[b] # NULL => pv[b] \in S \ {b} /\ nx2[pv[b]] = nx[b]
      BY <1>3, <1>6 DEF List
    <3> QED BY <2>1, <3>1, <3>4, <3>5
  <2>2. CASE x # nx[b]
    <3>1. pv2[x] = pv[x] BY <2>2, <1>4
    <3>2. pv[x] # b BY <2>2, <1>1 DEF List
    <3>3. x = head2 <=> x = head BY <2>2
    <3>4. ASSUME pv[x] # NULL PROVE pv[x] \in S \ {b} /\ nx2[pv[x]] = x
      <4>1. pv[x] \in S /\ nx[pv[x]] = x BY <3>4 DEF List
      <4>2. pv[x] # pv[b] \/ pv[b] = NULL BY <4>1, <2>2 DEF List
      <4> QED BY <4>1, <4>2, <3>2, <3>4, <1>3
    <3> QED BY <3>1, <3>3, <3>4 DEF List
  <2> QED BY <2>1, <2>2
<1> HIDE DEF head2
<1>11. List(S \ {b}, r, head2, nx2, pv2)
  <2>1. S \ {b} \subseteq Unit \ {NULL} BY DEF List
  <2> QED BY <2>1, <1>7, <1>8, <1>9, <1>10 DEF List
<1> QED BY <1>11 DEF head2, nx2, pv2
(* A block that takes the place of another in a list. *)
LEMMA Relink ==
    ASSUME NEW S, NEW r \in Ranks, NEW head, NEW nx \in Links, NEW pv \in Links,
           List(S, r, head, nx, pv), NEW b \in S, NEW c \in Unit \ S, c # NULL
    PROVE  List((S \ {b}) \cup {c}, [r EXCEPT ![c] = r[b]],
                IF b = head THEN c ELSE head,
                Set([nx EXCEPT ![c] = nx[b]], pv[b], c),
                Set([pv EXCEPT ![c] = pv[b]], nx[b], c))
<1> DEFINE T == (S \ {b}) \cup {c}
           q == [r EXCEPT ![c] = r[b]]
           nx2 == Set([nx EXCEPT ![c] = nx[b]], pv[b], c)
           pv2 == Set([pv EXCEPT ![c] = pv[b]], nx[b], c)
           head2 == IF b = head THEN c ELSE head
<1>1. S \subseteq Unit /\ b \in Unit /\ b # NULL /\ c # b BY DEF List
<1>2. nx[b] \in S \cup {NULL} /\ pv[b] \in S \cup {NULL} BY DEF List
<1>3. \A x \in S : nx2[x] = IF x = pv[b] /\ pv[b] # NULL THEN c ELSE nx[x]
  BY <1>1 DEF Set, Links
<1>4. \A x \in S : pv2[x] = IF x = nx[b] /\ nx[b] # NULL THEN c ELSE pv[x]
  BY <1>1 DEF Set, Links
<1>5. nx2[c] = nx[b] /\ pv2[c] = pv[b]
  BY <1>1, <1>2 DEF Set, Links
<1>6. /\ \A x \in S : q[x] = r[x] /\ r[x] \in Int
      /\ q[c] = r[b]
  BY <1>1 DEF Ranks
<1> HIDE DEF nx2, pv2, q
<1>7. nx[b] # b /\ pv[b] # b
  <2>1. nx[b] # b BY <1>1, <1>6 DEF List
  <2>2. pv[b] # b BY <1>1, <2>1 DEF List
  <2> QED BY <2>1, <2>2
<1>8. T \subseteq Unit \ {NULL} /\ T # {} BY DEF List
<1>9. head2 \in T /\ head2 # NULL
  <2>1. head \in S BY DEF List
  <2> QED BY <2>1, <1>8
<1>10. ASSUME NEW x \in T
       PROVE  /\ nx2[x] \in T \cup {NULL}
              /\ nx2[x] # NULL => pv2[nx2[x]] = x /\ q[x] < q[nx2[x]]
  <2>1. CASE x = c
    <3>1. nx[b] \in (S \ {b}) \cup {NULL} BY <1>2, <1>7
    <3>2. nx[b] # NULL => pv2[nx[b]] = c /\ r[b] < r[nx[b]]
      BY <1>2, <1>4 DEF List
    <3> QED BY <2>1, <3>1, <3>2, <1>5, <1>6
  <2>2. CASE x # c /\ x = pv[b]
    <3>1. x \in S \ {b} /\ x # NULL BY <2>2, <1>8
    <3>2. nx[x] = b /\ r[x] < r[b] BY <2>2, <3>1, <1>1 DEF List
    <3>3. nx2[x] = c BY <2>2, <3>1, <1>3
    <3> QED BY <2>2, <3>1, <3>2, <3>3, <1>5, <1>6
  <2>3. CASE x # c /\ x # pv[b]
    <3>1. x \in S \ {b} BY <2>3
    <3>2. nx2[x] = nx[x] BY <2>3, <3>1, <1>3
    <3>3. nx[x] # b BY <2>3, <3>1, <1>1 DEF List
    <3>4. ASSUME nx[x] # NULL PROVE pv2[nx[x]] = x /\ q[x] < q[nx[x]]
      <4>1. nx[x] \in S /\ pv[nx[x]] = x /\ r[x] < r[nx[x]] BY <3>1, <3>4 DEF List
      <4>2. nx[x] # nx[b] \/ nx[b] = NULL BY <3>1, <4>1, <1>1 DEF List
      <4>3. pv2[nx[x]] = pv[nx[x]] BY <4>1, <4>2, <1>4, <3>4
      <4> QED BY <3>1, <4>1, <4>3, <1>6
    <3>5. nx[x] \in (S \ {b}) \cup {NULL} BY <3>1, <3>3 DEF List
    <3> QED BY <3>2, <3>4, <3>5
  <2> QED BY <2>1, <2>2, <2>3
<1>11. ASSUME NEW x \in T
       PROVE  /\ pv2[x] = NULL <=> x = head2
              /\ pv2[x] # NULL => pv2[x] \in T /\ nx2[pv2[x]] = x
  <2>1. CASE x = c
    <3>1. pv[b] = NULL <=> b = head BY DEF List
    <3>2. pv[b] # NULL => pv[b] \in S \ {b} /\ nx2[pv[b]] = c BY <1>2, <1>3, <1>7
    <3>3. head # c BY <1>8 DEF List
    <3> QED BY <2>1, <3>1, <3>2, <3>3, <1>5
  <2>2. CASE x # c /\ x = nx[b]
    <3>1. x \in S \ {b} /\ x # NULL BY <2>2, <1>8
    <3>2. pv[x] = b BY <2>2, <3>1 DEF List
    <3>3. pv2[x] = c BY <2>2, <3>1, <1>4
    <3>4. x # head BY <3>1, <3>2, <1>1 DEF List
    <3> QED BY <2>2, <3>3, <3>4, <1>5
  <2>3. CASE x # c /\ x # nx[b]
    <3>1. x \in S \ {b} BY <2>3
    <3>2. pv2[x] = pv[x] BY <2>3, <3>1, <1>4
    <3>3. x = head2 <=> x = head BY <2>3, <3>1
    <3>4. pv[x] # b BY <2>3, <3>1, <1>1 DEF List
    <3>5. ASSUME pv[x] # NULL PROVE pv[x] \in T /\ nx2[pv[x]] = x
      <4>1. pv[x] \in S /\ nx[pv[x]] = x BY <3>1, <3>5 DEF List
      <4>2. pv[x] # pv[b] \/ pv[b] = NULL BY <4>1, <2>3 DEF List
      <4> QED BY <4>1, <4>2, <3>4, <3>5, <1>3
    <3> QED BY <3>1, <3>2, <3>3, <3>5 DEF List
  <2> QED BY <2>1, <2>2, <2>3
<1> HIDE DEF head2, T
<1>12. List(T, q, head2, nx2, pv2)
  BY <1>8, <1>9, <1>10, <1>11 DEF List
<1> QED BY <1>12 DEF head2, nx2, pv2, q, T

(* A new head, as a new super block is. *)
LEMMA PushFront ==
    ASSUME NEW S, NEW r \in Ranks, NEW head, NEW nx \in Links, NEW pv \in Links,
           List(S, r, head, nx, pv), NEW c \in Unit \ S, c # NULL
    PROVE  \E k \in Int :
              List(S \cup {c}, [r EXCEPT ![c] = k], c, [nx EXCEPT ![c] = head],
                   Set([pv EXCEPT ![c] = NULL], head, c))
<1> DEFINE k == IF head = NULL THEN 0 ELSE r[head] - 1
           q == [r EXCEPT ![c] = k]
           nx2 == [nx EXCEPT ![c] = head]
           pv2 == Set([pv EXCEPT ![c] = NULL], head, c)
<1>1. S \subseteq Unit /\ head \in S \cup {NULL} /\ \A x \in S : x # NULL BY DEF List
<1>2. k \in Int BY <1>1 DEF Ranks
<1>3. /\ \A x \in S : q[x] = r[x] /\ r[x] \in Int /\ nx2[x] = nx[x]
      /\ q[c] = k /\ nx2[c] = head
  BY <1>1 DEF Ranks, Links
<1>4. \A x \in S : pv2[x] = IF x = head THEN c ELSE pv[x]
  BY <1>1 DEF Set, Links
<1>5. pv2[c] = NULL BY <1>1 DEF Set, Links
<1>6. head # NULL => k < r[head] BY <1>1 DEF Ranks
<1> HIDE DEF nx2, pv2, q, k
<1>7. ASSUME NEW x \in S
      PROVE  /\ nx2[x] \in S \cup {NULL}
             /\ nx2[x] # NULL => pv2[nx2[x]] = x /\ q[x] < q[nx2[x]]
             /\ pv2[x] # NULL /\ x # c
             /\ pv2[x] \in S \cup {c} /\ nx2[pv2[x]] = x
  <2>1. nx[x] \in S \cup {NULL} BY DEF List
  <2>2. nx[x] # NULL => nx[x] # head /\ pv[nx[x]] = x /\ r[x] < r[nx[x]]
    BY <1>1 DEF List
  <2>3. CASE x = head BY <2>1, <2>2, <2>3, <1>3, <1>4, <1>5
  <2>4. CASE x # head
    <3>1. pv[x] \in S /\ nx[pv[x]] = x BY <2>4 DEF List
    <3> QED BY <2>1, <2>2, <2>4, <3>1, <1>1, <1>3, <1>4
  <2> QED BY <2>3, <2>4
<1>8. List(S \cup {c}, q, c, nx2, pv2)
  <2>1. S \cup {c} \subseteq Unit \ {NULL} BY <1>1
  <2>2. /\ nx2[c] \in S \cup {c} \cup {NULL}
        /\ nx2[c] # NULL => pv2[nx2[c]] = c /\ q[c] < q[nx2[c]]
    BY <1>1, <1>3, <1>4, <1>6
  <2> QED BY <2>1, <2>2, <1>5, <1>7 DEF List
<1> QED BY <1>2, <1>8 DEF nx2, pv2, q

(* A block behind the last one, as a freed block is. *)
LEMMA PushBack ==
    ASSUME NEW S, NEW r \in Ranks, NEW head, NEW nx \in Links, NEW pv \in Links,
           List(S, r, head, nx, pv), NEW c \in Unit \ S, c # NULL,
           NEW last, last \in S, nx[last] = NULL
    PROVE  \E k \in Int :
              List(S \cup {c}, [r EXCEPT ![c] = k], head,
                   Set([nx EXCEPT ![c] = NULL], last, c), [pv EXCEPT ![c] = last])
<1> DEFINE k == r[last] + 1
           q == [r EXCEPT ![c] = k]
           nx2 == Set([nx EXCEPT ![c] = NULL], last, c)
           pv2 == [pv EXCEPT ![c] = last]
<1>1. S \subseteq Unit /\ head \in S /\ \A x \in S : x # NULL BY DEF List
<1>2. k \in Int /\ r[last] < k BY <1>1 DEF Ranks
<1>3. /\ \A x \in S : q[x] = r[x] /\ r[x] \in Int /\ pv2[x] = pv[x]
      /\ q[c] = k /\ pv2[c] = last
  BY <1>1 DEF Ranks, Links
<1>4. \A x \in S : nx2[x] = IF x = last THEN c ELSE nx[x]
  BY <1>1 DEF Set, Links
<1>5. nx2[c] = NULL BY <1>1 DEF Set, Links
<1> HIDE DEF nx2, pv2, q, k
<1>7. ASSUME NEW x \in S
      PROVE  /\ nx2[x] \in S \cup {c} \cup {NULL}
             /\ nx2[x] # NULL => pv2[nx2[x]] = x /\ q[x] < q[nx2[x]]
             /\ pv2[x] = NULL <=> x = head
             /\ pv2[x] # NULL => pv2[x] \in S /\ nx2[pv2[x]] = x
  <2>1. pv2[x] # NULL => pv2[x] \in S /\ nx2[pv2[x]] = x
    <3>1. pv[x] # NULL => pv[x] \in S /\ nx[pv[x]] = x BY DEF List
    <3>2. pv[x] # NULL => pv[x] # last BY <3>1, <1>1
    <3> QED BY <3>1, <3>2, <1>3, <1>4
  <2>2. CASE x = last BY <2>1, <2>2, <1>2, <1>3, <1>4 DEF List
  <2>3. CASE x # last
    <3>1. nx2[x] = nx[x] BY <2>3, <1>4
    <3> QED BY <2>1, <3>1, <1>3 DEF List
  <2> QED BY <2>2, <2>3
<1>8. List(S \cup {c}, q, head, nx2, pv2)
  <2>1. S \cup {c} \subseteq Unit \ {NULL} BY <1>1
  <2>2. pv2[c] # NULL /\ pv2[c] \in S /\ nx2[pv2[c]] = c /\ c # head
    BY <1>1, <1>3, <1>4
  <2> QED BY <2>1, <2>2, <1>1, <1>5, <1>7 DEF List
<1> QED BY <1>2, <1>8 DEF nx2, pv2, q
-----------------------------------------------------------------------------
(* Walking a list. *)

(* find_big_enough_block comes to an end, with a block of the list that is  *)
(* big enough or with NULL.                                                 *)
LEMMA FindsBlock ==
    ASSUME NEW S, NEW r \in Ranks, NEW head, NEW size, next \in Links,
           List(S, r, head, next, prev)
    PROVE  LET b == find_big_enough_block(head, size)
           IN  b = NULL \/ (b \in S /\ block_size[b] >= size)
<1> DEFINE N == FRAMES * PAGE
           Stops(b) == b = NULL \/ block_size[b] >= size
           Eq(f) == f = [n \in 0 .. N |->
                            IF n = 0 THEN head
                            ELSE IF Stops(f[n - 1]) THEN f[n - 1] ELSE next[f[n - 1]]]
           g == CHOOSE f : Eq(f)
           G == [n \in 1 .. N |-> [b \in Unit |-> IF Stops(b) THEN b ELSE next[b]]]
<1>1. find_big_enough_block(head, size) = g[N] BY DEF find_big_enough_block
<1>2. N \in Nat /\ head \in Unit /\ S \subseteq Unit BY Sizes DEF List
<1>3. \E f : Eq(f)
  <2>1. G \in [1 .. N -> [Unit -> Unit]] BY DEF Links
  <2>2. PICK f \in [0 .. N -> Unit] : IsLoop(f, N, head, G)
    <3> HIDE DEF G, N
    <3> QED BY <1>2, <2>1, LoopExists
  <2>3. \A n \in 0 .. N : n # 0 => n - 1 \in 0 .. N /\ n \in 1 .. N BY <1>2
  <2>4. \A n \in 0 .. N : f[n] = IF n = 0 THEN head ELSE G[n][f[n - 1]]
    BY <2>2, Zenon DEF IsLoop
  <2>5. \A n \in 0 .. N : n # 0 =>
           G[n][f[n - 1]] = IF Stops(f[n - 1]) THEN f[n - 1] ELSE next[f[n - 1]]
    BY <2>2, <2>3
  <2> HIDE DEF G, Stops
  <2>6. f = [n \in 0 .. N |->
                IF n = 0 THEN head
                ELSE IF Stops(f[n - 1]) THEN f[n - 1] ELSE next[f[n - 1]]]
    BY <2>2, <2>4, <2>5
  <2> QED BY <2>6, Zenon
<1>4. Eq(g)
  <2> HIDE DEF Eq
  <2> QED BY <1>3
<1> HIDE DEF g
<1>5. /\ g[0] = head
      /\ \A n \in Nat : n + 1 <= N =>
            g[n + 1] = IF Stops(g[n]) THEN g[n] ELSE next[g[n]]
  <2>1. 0 \in 0 .. N BY <1>2
  <2>2. \A n \in Nat : n + 1 <= N => n + 1 \in 0 .. N /\ n + 1 # 0 /\ (n + 1) - 1 = n
    BY <1>2
  <2> HIDE DEF Stops
  <2>3. \A i \in 0 .. N :
           g[i] = IF i = 0 THEN head ELSE IF Stops(g[i - 1]) THEN g[i - 1] ELSE next[g[i - 1]]
    BY <1>4
  <2>4. g[0] = head BY <2>1, <2>3, Zenon
  <2>5. ASSUME NEW n \in Nat, n + 1 <= N
        PROVE  g[n + 1] = IF Stops(g[n]) THEN g[n] ELSE next[g[n]]
    <3>1. n + 1 \in 0 .. N /\ n + 1 # 0 /\ (n + 1) - 1 = n BY <2>2, <2>5
    <3>2. g[n + 1] = IF Stops(g[(n + 1) - 1]) THEN g[(n + 1) - 1] ELSE next[g[(n + 1) - 1]]
      BY <3>1, <2>3, Zenon
    <3> QED BY <3>1, <3>2, Zenon
  <2> QED BY <2>4, <2>5, Zenon
(* Until it stops, a walk meets ever higher ranks: no block twice. *)
<1> DEFINE J(n) == /\ g[n] \in S \cup {NULL}
                   /\ Stops(g[n]) \/ \A i, j \in 0 .. n : g[i] \in S /\ (i < j => r[g[i]] < r[g[j]])
           K == {n \in Nat : n <= N => J(n)}
<1>6. 0 \in K
  <2>1. head \in S \cup {NULL} BY DEF List
  <2>2. \A i, j \in 0 .. 0 : i = 0 /\ ~ (i < j) OBVIOUS
  <2> QED BY <2>1, <2>2, <1>5
<1>7. ASSUME NEW n \in Nat, n \in K PROVE n + 1 \in K
  <2> SUFFICES ASSUME n + 1 <= N PROVE J(n + 1)
    OBVIOUS
  <2>1. J(n) BY <1>2, <1>7
  <2>2. CASE Stops(g[n]) BY <2>1, <2>2, <1>5
  <2>3. CASE ~ Stops(g[n])
    <3>1. g[n] \in S /\ g[n + 1] = next[g[n]] BY <2>1, <2>3, <1>5
    <3>2. g[n + 1] \in S \cup {NULL} BY <3>1 DEF List
    <3>3. CASE g[n + 1] = NULL BY <3>3
    <3>4. CASE g[n + 1] # NULL
      <4>1. g[n + 1] \in S /\ r[g[n]] < r[g[n + 1]] BY <3>1, <3>2, <3>4 DEF List
      <4>2. \A i, j \in 0 .. n : g[i] \in S /\ (i < j => r[g[i]] < r[g[j]]) BY <2>1, <2>3
      <4>3. \A u \in S : r[u] \in Int BY <1>2 DEF Ranks
      <4>4. \A i \in 0 .. (n + 1) : i = n + 1 \/ (i \in 0 .. n /\ (i = n \/ i < n)) OBVIOUS
      <4>5. \A i \in 0 .. n : r[g[i]] < r[g[n + 1]] BY <4>1, <4>2, <4>3
      <4>6. \A i, j \in 0 .. (n + 1) : g[i] \in S /\ (i < j => r[g[i]] < r[g[j]])
        BY <4>1, <4>2, <4>4, <4>5
      <4> HIDE DEF Stops
      <4> QED BY <3>2, <4>6
    <3> QED BY <3>3, <3>4
  <2> QED BY <2>2, <2>3
<1>8. N \in K
  <2> HIDE DEF K
  <2> QED BY <1>2, <1>6, <1>7, IndexInduction
<1>9. Stops(g[N])
  <2> SUFFICES ASSUME ~ Stops(g[N]) PROVE FALSE
    OBVIOUS
  <2>1. \A i, j \in 0 .. N : g[i] \in S /\ (i < j => r[g[i]] < r[g[j]]) BY <1>2, <1>8
  <2>2. \A i \in 0 .. N : g[i] \in 0 .. (N - 1) BY <2>1, <1>2, Zenon DEF Unit
  <2>3. \A u \in S : r[u] \in Int BY <1>2 DEF Ranks
  <2> HIDE DEF N
  <2>4. PICK i \in 0 .. N, j \in 0 .. N : i < j /\ g[i] = g[j] BY <2>2, <1>2, Pigeonhole
  <2> QED BY <2>1, <2>3, <2>4
<1>10. g[N] \in S \cup {NULL} BY <1>2, <1>8
<1> QED BY <1>1, <1>9, <1>10

(* The chain of a list is all of its blocks, and nothing else. *)
LEMMA ChainIsList ==
    ASSUME NEW S, NEW r \in Ranks, NEW head, next \in Links,
           List(S, r, head, next, prev)
    PROVE  Chain(head) = S
<1> DEFINE N == FRAMES * PAGE
           Step(A) == A \cup ({next[b] : b \in A} \ {NULL})
           Eq(f) == f = [n \in 0 .. N |-> IF n = 0 THEN {head} \ {NULL} ELSE Step(f[n - 1])]
           g == CHOOSE f : Eq(f)
           X == SUBSET Unit
           G == [n \in 1 .. N |-> [A \in X |-> Step(A)]]
<1>1. Chain(head) = g[N] BY DEF Chain
<1>2. N \in Nat /\ {head} \ {NULL} \in X /\ S \subseteq Unit BY Sizes DEF List
<1>3. \E f : Eq(f)
  <2>1. G \in [1 .. N -> [X -> X]]
    <3>1. \A A \in X : Step(A) \in X BY DEF Links
    <3> HIDE DEF Step, X
    <3> QED BY <3>1
  <2>2. PICK f \in [0 .. N -> X] : IsLoop(f, N, {head} \ {NULL}, G)
    <3> HIDE DEF G, N, X
    <3> QED BY <1>2, <2>1, LoopExists
  <2>3. \A n \in 0 .. N : n # 0 => n - 1 \in 0 .. N /\ n \in 1 .. N BY <1>2
  <2>4. \A n \in 0 .. N : f[n] = IF n = 0 THEN {head} \ {NULL} ELSE G[n][f[n - 1]]
    BY <2>2, Zenon DEF IsLoop
  <2> HIDE DEF Step, X
  <2>5. \A n \in 0 .. N : n # 0 => G[n][f[n - 1]] = Step(f[n - 1])
    BY <2>2, <2>3
  <2> HIDE DEF G
  <2>6. f = [n \in 0 .. N |-> IF n = 0 THEN {head} \ {NULL} ELSE Step(f[n - 1])]
    BY <2>2, <2>4, <2>5
  <2> QED BY <2>6, Zenon
<1>4. Eq(g)
  <2> HIDE DEF Eq
  <2> QED BY <1>3
<1> HIDE DEF g
<1>5. /\ g[0] = {head} \ {NULL}
      /\ \A n \in Nat : n + 1 <= N => g[n + 1] = Step(g[n])
  <2>1. 0 \in 0 .. N BY <1>2
  <2>2. \A n \in Nat : n + 1 <= N => n + 1 \in 0 .. N /\ n + 1 # 0 /\ (n + 1) - 1 = n
    BY <1>2
  <2> HIDE DEF Step
  <2> QED BY <2>1, <2>2, <1>4, Zenon
<1> DEFINE J(n) == /\ g[n] \subseteq S
                   /\ head # NULL => head \in g[n]
                   /\ \A i \in 0 .. n : g[i] \subseteq g[n]
           K == {n \in Nat : n <= N => J(n)}
<1>6. 0 \in K
  <2>1. head \in S \cup {NULL} BY DEF List
  <2>2. \A i \in 0 .. 0 : i = 0 OBVIOUS
  <2> QED BY <2>1, <2>2, <1>5
<1>7. ASSUME NEW n \in Nat, n \in K PROVE n + 1 \in K
  <2> SUFFICES ASSUME n + 1 <= N PROVE J(n + 1)
    OBVIOUS
  <2>1. J(n) BY <1>2, <1>7
  <2>2. g[n + 1] = g[n] \cup ({next[b] : b \in g[n]} \ {NULL}) BY <1>5
  <2>3. g[n + 1] \subseteq S BY <2>1, <2>2 DEF List
  <2>4. \A i \in 0 .. (n + 1) : i = n + 1 \/ i \in 0 .. n OBVIOUS
  <2> QED BY <2>1, <2>2, <2>3, <2>4
<1>8. \A n \in 0 .. N : J(n)
  <2> HIDE DEF K, J
  <2>1. Nat \subseteq K BY <1>6, <1>7, IndexInduction
  <2> QED BY <2>1, <1>2 DEF K
(* A step that reaches no further block has reached them all. *)
<1>9. ASSUME NEW n \in Nat, n + 1 <= N, g[n + 1] = g[n] PROVE S \subseteq g[n]
  <2> SUFFICES ASSUME S \ g[n] # {} PROVE FALSE
    OBVIOUS
  <2>1. PICK b \in S \ g[n] : \A c \in S \ g[n] : r[b] <= r[c] BY <1>2, LowestRank, Zenon
  <2>2. J(n) BY <1>2, <1>8, <1>9
  <2>3. b # head /\ b # NULL BY <2>1, <2>2 DEF List
  <2> DEFINE a == prev[b]
  <2>4. a \in S /\ next[a] = b BY <2>1, <2>3 DEF List
  <2>5. r[a] < r[b] /\ r[a] \in Int /\ r[b] \in Int BY <2>1, <2>3, <2>4, <1>2 DEF List, Ranks
  <2> HIDE DEF a
  <2>6. a \in g[n] BY <2>1, <2>4, <2>5
  <2>7. b \in g[n + 1] BY <2>3, <2>4, <2>6, <1>5, <1>9
  <2> QED BY <2>1, <2>7, <1>9
(* There are fewer blocks than steps. *)
<1>10. \E n \in 0 .. (N - 1) : g[n + 1] = g[n]
  <2> SUFFICES ASSUME \A n \in 0 .. (N - 1) : g[n + 1] # g[n] PROVE FALSE
    OBVIOUS
  <2> DEFINE new(n) == g[n + 1] \ g[n]
             f == [n \in 0 .. (N - 1) |-> (CHOOSE b \in new(n) : TRUE) - 1]
  <2>0. N - 1 \in Nat /\ S \subseteq 1 .. (N - 1) BY Sizes DEF List, Unit
  <2>1. \A n \in 0 .. (N - 1) : n \in 0 .. N /\ n + 1 \in 0 .. N /\ n \in 0 .. (n + 1) BY <1>2
  <2> HIDE DEF N
  <2>2. ASSUME NEW n \in 0 .. (N - 1) PROVE f[n] + 1 \in new(n) /\ f[n] \in 0 .. ((N - 1) - 1)
    <3>1. J(n + 1) BY <1>8, <2>1
    <3>2. g[n] \subseteq g[n + 1] /\ g[n + 1] \subseteq S BY <2>1, <3>1
    <3>3. new(n) # {} /\ new(n) \subseteq S BY <3>2
    <3> DEFINE b == CHOOSE b \in new(n) : TRUE
    <3> HIDE DEF new
    <3>4. b \in new(n) BY <3>3
    <3>5. f[n] = b - 1 OBVIOUS
    <3> HIDE DEF b, f
    <3>6. b \in 1 .. (N - 1) BY <3>3, <3>4, <2>0, Zenon
    <3>7. f[n] + 1 = b /\ f[n] \in 0 .. ((N - 1) - 1) BY <3>5, <3>6, <2>0
    <3> QED BY <3>4, <3>7
  <2> HIDE DEF f
  <2>3. PICK i \in 0 .. (N - 1), j \in 0 .. (N - 1) : i < j /\ f[i] = f[j]
    BY <2>0, <2>2, Pigeonhole
  <2>4. i + 1 \in 0 .. j /\ j \in 0 .. N BY <2>1, <2>3
  <2>5. g[i + 1] \subseteq g[j] BY <2>4, <1>8
  <2>6. f[i] + 1 \in g[i + 1] /\ f[j] + 1 \notin g[j] BY <2>2
  <2> QED BY <2>3, <2>5, <2>6
<1>11. g[N] = S
  <2>1. PICK n \in 0 .. (N - 1) : g[n + 1] = g[n] BY <1>10
  <2>2. n \in Nat /\ n + 1 <= N /\ n \in 0 .. N /\ N \in 0 .. N BY <1>2
  <2>3. S \subseteq g[n] BY <2>1, <2>2, <1>9
  <2>4. J(N) BY <1>8, <2>2
  <2> QED BY <2>2, <2>3, <2>4, Zenon
<1> QED BY <1>1, <1>11
-----------------------------------------------------------------------------
(* Blocks and the pages they lie in. *)

SizeT == [Unit -> 0 .. (FRAMES * PAGE)]

(* The blocks of B follow one another without overlap, and fill the pages.  *)
Tile(B, sz, pages) ==
    /\ \A b \in B : b \in Unit /\ b + sz[b] \in Unit
    /\ \A a, b \in B : a < b => a + sz[a] < b
    /\ \A u \in Unit : u \div PAGE \in pages <=> \E b \in B : b <= u /\ u <= b + sz[b]

(* The blocks are in memory. *)
LEMMA TileFacts ==
    ASSUME NEW B, NEW sz \in SizeT, NEW pages, Tile(B, sz, pages), NEW x \in B
    PROVE  /\ x \in Unit /\ x \in Nat /\ x + sz[x] \in Unit
           /\ sz[x] \in Nat /\ sz[x] <= FRAMES * PAGE
<1>1. x \in Unit /\ x + sz[x] \in Unit BY DEF Tile
<1>2. sz[x] \in 0 .. (FRAMES * PAGE) BY <1>1 DEF SizeT
<1> QED BY <1>1, <1>2, Sizes

(* A block b cut in two, the first part of the given size. *)
SplitOff(B, sz, pages, b, size) ==
    LET rest == b + 1 + size
        sz2  == [sz EXCEPT ![rest] = sz[b] - (size + 1), ![b] = size]
    IN  /\ rest \in Unit \ B /\ rest # NULL /\ sz2 \in SizeT
        /\ Tile(B \cup {rest}, sz2, pages)
        /\ sz2[b] = size /\ sz2[rest] = sz[b] - (size + 1)
        /\ \A x \in B : x # b => sz2[x] = sz[x]

(* malloc_from_block cuts a block in two: the second begins where the first *)
(* ends, and was nobody's header before.                                    *)
LEMMA TileSplit ==
    ASSUME NEW B, NEW sz \in SizeT, NEW pages, Tile(B, sz, pages), NEW b \in B,
           NEW size \in Nat, size + 1 <= sz[b]
    PROVE  SplitOff(B, sz, pages, b, size)
<1> DEFINE rest == b + 1 + size
           sz2  == [sz EXCEPT ![rest] = sz[b] - (size + 1), ![b] = size]
<1>1. b \in Unit /\ b \in Nat /\ sz[b] \in Nat /\ sz[b] <= FRAMES * PAGE
      /\ b + sz[b] \in Unit /\ FRAMES * PAGE \in Nat
  BY TileFacts, Sizes
<1>2. rest \in Nat /\ b < rest /\ rest <= b + sz[b] BY <1>1
<1>3. rest \in Unit /\ rest # NULL BY <1>1, <1>2, Sizes
<1> HIDE DEF rest
<1>4. \A x \in B : x \in Nat /\ x \in Unit /\ sz[x] \in Nat BY TileFacts
<1>5. rest \notin B
  <2> SUFFICES ASSUME rest \in B PROVE FALSE
    OBVIOUS
  <2>1. b + sz[b] < rest BY <1>2 DEF Tile
  <2> QED BY <2>1, <1>1, <1>2
<1>6. /\ sz[b] - (size + 1) \in 0 .. (FRAMES * PAGE)
      /\ size \in 0 .. (FRAMES * PAGE)
  BY <1>1
<1>7. sz2 \in SizeT BY <1>6, Zenon DEF SizeT
<1>8. /\ sz2[b] = size /\ sz2[rest] = sz[b] - (size + 1)
      /\ \A x \in B : x # b => sz2[x] = sz[x]
  BY <1>1, <1>2, <1>3, <1>4, <1>5 DEF SizeT
<1> HIDE DEF sz2
<1>9. b + size = rest - 1 /\ rest + (sz[b] - (size + 1)) = b + sz[b]
  BY <1>1 DEF rest
<1>10. ASSUME NEW x \in B \cup {rest} PROVE x \in Unit /\ x + sz2[x] \in Unit
  <2>1. CASE x = rest BY <2>1, <1>1, <1>3, <1>8, <1>9
  <2>2. CASE x = b
    <3>1. b + size \in Nat /\ b + size <= b + sz[b] BY <1>1
    <3>2. b + size \in Unit BY <3>1, <1>1, Sizes
    <3> QED BY <2>2, <3>2, <1>1, <1>8
  <2>3. CASE x # b /\ x # rest BY <2>3, <1>8 DEF Tile
  <2> QED BY <2>1, <2>2, <2>3
<1>11. ASSUME NEW x \in B \cup {rest}, NEW y \in B \cup {rest}, x < y
       PROVE  x + sz2[x] < y
  <2>1. CASE x = rest
    <3>1. y \in B /\ y # b BY <2>1, <1>1, <1>2, <1>11
    <3>2. b < y BY <2>1, <3>1, <1>1, <1>2, <1>4, <1>11
    <3>3. b + sz[b] < y BY <3>1, <3>2 DEF Tile
    <3> QED BY <2>1, <3>3, <1>8, <1>9
  <2>2. CASE x = b
    <3>1. CASE y = rest BY <2>2, <3>1, <1>2, <1>8, <1>9
    <3>2. CASE y # rest
      <4>1. y \in B /\ b + sz[b] < y BY <2>2, <3>2, <1>11 DEF Tile
      <4> QED BY <2>2, <4>1, <1>1, <1>4, <1>8
    <3> QED BY <3>1, <3>2
  <2>3. CASE x # b /\ x # rest
    <3>1. x \in B /\ sz2[x] = sz[x] BY <2>3, <1>8
    <3>2. CASE y = rest
      <4>1. x < b
        <5> SUFFICES ASSUME b < x PROVE FALSE
          BY <2>3, <3>1, <1>1, <1>4
        <5>1. b + sz[b] < x BY <3>1 DEF Tile
        <5> QED BY <5>1, <3>1, <3>2, <1>1, <1>2, <1>4, <1>11
      <4>2. x + sz[x] < b BY <3>1, <4>1 DEF Tile
      <4> QED BY <3>1, <3>2, <4>2, <1>1, <1>2, <1>4
    <3>3. CASE y # rest BY <3>1, <3>3, <1>11 DEF Tile
    <3> QED BY <3>2, <3>3
  <2> QED BY <2>1, <2>2, <2>3
<1>12. ASSUME NEW u \in Unit
       PROVE  (\E x \in B : x <= u /\ u <= x + sz[x])
                <=> (\E x \in B \cup {rest} : x <= u /\ u <= x + sz2[x])
  <2>0. u \in Nat BY Sizes
  <2>1. b <= u /\ u <= b + sz[b]
           <=> \/ b <= u /\ u <= b + sz2[b]
               \/ rest <= u /\ u <= rest + sz2[rest]
    BY <2>0, <1>1, <1>2, <1>8, <1>9
  <2>2. \A x \in B : x # b => (x <= u /\ u <= x + sz[x] <=> x <= u /\ u <= x + sz2[x])
    BY <1>8
  <2> QED BY <2>1, <2>2
<1>13. Tile(B \cup {rest}, sz2, pages)
  BY <1>10, <1>11, <1>12 DEF Tile
<1> QED BY <1>3, <1>5, <1>7, <1>8, <1>13, Zenon DEF rest, sz2, SplitOff

(* The k pages from f on as one block. *)
GrownBy(B, sz, pages, f, k) ==
    LET b   == f * PAGE
        sz2 == [sz EXCEPT ![b] = k * PAGE - 1]
    IN  /\ b \in Unit \ B /\ b # NULL /\ sz2 \in SizeT
        /\ Tile(B \cup {b}, sz2, pages \cup (f .. (f + k - 1)))
        /\ sz2[b] = k * PAGE - 1
        /\ \A x \in B : sz2[x] = sz[x]

(* Pages that hold no block get one that fills them. *)
LEMMA TileGrow ==
    ASSUME NEW B, NEW sz \in SizeT, NEW pages, Tile(B, sz, pages),
           NEW f \in Frame, NEW k \in Nat \ {0},
           f .. (f + k - 1) \subseteq Frame \ pages, f # NULL
    PROVE  GrownBy(B, sz, pages, f, k)
<1> DEFINE b   == f * PAGE
           m   == k * PAGE
           sz2 == [sz EXCEPT ![b] = m - 1]
           run == f .. (f + k - 1)
<1>1. f \in Nat /\ f > 0 /\ PAGE \in Nat /\ PAGE >= 2 BY FrameFacts, Sizes
<1>2. b \in Nat /\ b > 0 /\ m \in Nat /\ m >= 2 BY <1>1
<1>3. \A u \in Nat : u \div PAGE \in run <=> b <= u /\ u <= b + m - 1
  BY <1>1, RunUnits
<1> HIDE DEF b, m, run
<1>4. run \subseteq Frame \ pages BY DEF run
<1>5. \A u \in Nat : b <= u /\ u <= b + m - 1 => u \in Unit /\ u \div PAGE \notin pages
  BY <1>3, <1>4, UnitPage
<1>6. b \in Unit /\ b + (m - 1) \in Unit
  <2>1. b + m - 1 \in Nat /\ b + m - 1 = b + (m - 1) BY <1>2
  <2> QED BY <2>1, <1>2, <1>5
<1>7. \A x \in B : x \in Nat /\ x \in Unit /\ sz[x] \in Nat /\ x + sz[x] \in Unit
  BY TileFacts
<1>8. \A x \in B : ~ (b <= x /\ x <= b + m - 1) /\ ~ (x <= b /\ b <= x + sz[x])
  <2> SUFFICES ASSUME NEW x \in B
               PROVE  ~ (b <= x /\ x <= b + m - 1) /\ ~ (x <= b /\ b <= x + sz[x])
    OBVIOUS
  <2>1. x \div PAGE \in pages
    <3>1. x <= x /\ x <= x + sz[x] BY <1>7
    <3> QED BY <3>1, <1>7 DEF Tile
  <2>2. ~ (b <= x /\ x <= b + m - 1) BY <2>1, <1>5, <1>7
  <2>3. x <= b /\ b <= x + sz[x] => b \div PAGE \in pages BY <1>6 DEF Tile
  <2>4. b \div PAGE \notin pages BY <1>2, <1>5
  <2> QED BY <2>2, <2>3, <2>4
<1>9. b \notin B BY <1>2, <1>8
<1>10. m - 1 \in 0 .. (FRAMES * PAGE)
  <2>1. b + (m - 1) < FRAMES * PAGE BY <1>6, <1>2, Sizes
  <2> QED BY <2>1, <1>2, Sizes
<1>11. sz2 \in SizeT /\ sz2[b] = m - 1 /\ \A x \in B : sz2[x] = sz[x]
  BY <1>6, <1>7, <1>9, <1>10 DEF SizeT
<1> HIDE DEF sz2
<1>12. ASSUME NEW x \in B \cup {b} PROVE x \in Unit /\ x + sz2[x] \in Unit
  BY <1>6, <1>7, <1>11
<1>13. ASSUME NEW x \in B \cup {b}, NEW y \in B \cup {b}, x < y
       PROVE  x + sz2[x] < y
  <2>1. CASE x = b
    <3>1. y \in B BY <2>1, <1>2, <1>13
    <3>2. b + m - 1 < y BY <2>1, <3>1, <1>2, <1>7, <1>8, <1>13
    <3> QED BY <2>1, <3>2, <1>2, <1>11
  <2>2. CASE x # b /\ y = b
    <3>1. x \in B /\ x + sz[x] < b BY <2>2, <1>2, <1>7, <1>8, <1>13
    <3> QED BY <2>2, <3>1, <1>11
  <2>3. CASE x # b /\ y # b BY <2>3, <1>11, <1>13 DEF Tile
  <2> QED BY <2>1, <2>2, <2>3
<1>14. ASSUME NEW u \in Unit
       PROVE  u \div PAGE \in pages \cup run
                <=> (\E x \in B \cup {b} : x <= u /\ u <= x + sz2[x])
  <2>1. u \in Nat BY Sizes
  <2>2. u \div PAGE \in run <=> b <= u /\ u <= b + sz2[b] BY <2>1, <1>2, <1>3, <1>11
  <2>3. u \div PAGE \in pages <=> \E x \in B : x <= u /\ u <= x + sz2[x]
    BY <1>11 DEF Tile
  <2> QED BY <2>2, <2>3
<1>15. Tile(B \cup {b}, sz2, pages \cup run)
  BY <1>12, <1>13, <1>14 DEF Tile
<1> QED BY <1>2, <1>6, <1>9, <1>11, <1>15 DEF b, m, run, sz2, GrownBy

(* A block that kfree gives back to the PMM. *)
Whole(b, size) == \E f, k \in Nat : b = f * PAGE /\ size + 1 = k * PAGE

(* The block b given back, with the pages kfree works out from its header. *)
ShrunkBy(B, sz, pages, b) ==
    LET i   == b \div PAGE
        run == i .. (i + (sz[b] + 1) \div PAGE - 1)
    IN  run \subseteq pages /\ Tile(B \ {b}, sz, pages \ run)

(* A block of whole pages can be given back with them. *)
LEMMA TileShrink ==
    ASSUME NEW B, NEW sz \in SizeT, NEW pages, Tile(B, sz, pages), NEW b \in B,
           Whole(b, sz[b])
    PROVE  ShrunkBy(B, sz, pages, b)
<1>0. PICK f, k \in Nat : b = f * PAGE /\ sz[b] + 1 = k * PAGE BY DEF Whole
<1> DEFINE run == f .. (f + k - 1)
<1>1. b \in Nat /\ b \in Unit /\ sz[b] \in Nat /\ b + sz[b] \in Unit
  BY TileFacts
<1>2. PAGE \in Nat /\ PAGE >= 2 BY Sizes
<1>3. \A u \in Nat : u \div PAGE \in run <=> b <= u /\ u <= b + sz[b]
  <2>1. \A u \in Nat : u \div PAGE \in run <=> f * PAGE <= u /\ u <= f * PAGE + k * PAGE - 1
    BY RunUnits
  <2>2. f * PAGE + k * PAGE - 1 = b + sz[b] BY <1>0, <1>1
  <2> QED BY <2>1, <2>2, <1>0
<1>4. \A q \in Nat : (q * PAGE) \div PAGE = q
  <2> SUFFICES ASSUME NEW q \in Nat PROVE (q * PAGE) \div PAGE = q
    OBVIOUS
  <2>1. q * PAGE \in Nat BY <1>2
  <2>2. 1 * PAGE = PAGE BY <1>2
  <2>3. (q * PAGE) \div PAGE \in q .. (q + 1 - 1)
           <=> q * PAGE <= q * PAGE /\ q * PAGE <= q * PAGE + 1 * PAGE - 1
    <3> DEFINE w == q * PAGE
    <3>1. w \in Nat BY <2>1
    <3> HIDE DEF w
    <3>2. w \div PAGE \in q .. (q + 1 - 1)
             <=> q * PAGE <= w /\ w <= q * PAGE + 1 * PAGE - 1
      BY <3>1, RunUnits, Zenon
    <3> QED BY <3>2 DEF w
  <2>4. (q * PAGE) \div PAGE \in q .. (q + 1 - 1) BY <2>1, <2>2, <2>3, <1>2
  <2> QED BY <2>4
<1>5. b \div PAGE = f /\ (sz[b] + 1) \div PAGE = k BY <1>0, <1>4
<1> HIDE DEF run
<1>6. \A q \in run : q \in pages
  <2> SUFFICES ASSUME NEW q \in run PROVE q \in pages
    OBVIOUS
  <2>1. q \in Nat /\ q * PAGE \in Nat BY <1>2 DEF run
  <2>2. (q * PAGE) \div PAGE = q BY <2>1, <1>4
  <2>3. b <= q * PAGE /\ q * PAGE <= b + sz[b] BY <2>1, <2>2, <1>3
  <2>4. q * PAGE \in Unit
    <3> DEFINE w == q * PAGE
    <3>1. w \in Nat /\ w <= b + sz[b] BY <2>1, <2>3
    <3> HIDE DEF w
    <3>2. w \in Unit BY <3>1, <1>1, Sizes
    <3> QED BY <3>2 DEF w
  <2> QED BY <2>2, <2>3, <2>4 DEF Tile
<1>7. ASSUME NEW u \in Unit
      PROVE  u \div PAGE \in pages \ run
                <=> (\E x \in B \ {b} : x <= u /\ u <= x + sz[x])
  <2>1. u \in Nat BY Sizes
  <2>2. u \div PAGE \in run <=> b <= u /\ u <= b + sz[b] BY <2>1, <1>3
  <2>3. u \div PAGE \in pages <=> \E x \in B : x <= u /\ u <= x + sz[x] BY DEF Tile
  <2>4. ASSUME NEW x \in B \ {b}, x <= u, u <= x + sz[x] PROVE ~ (b <= u /\ u <= b + sz[b])
    <3>1. x \in Nat /\ sz[x] \in Nat BY TileFacts
    <3>2. CASE x < b
      <4>1. x + sz[x] < b BY <3>2 DEF Tile
      <4> QED BY <4>1, <3>1, <2>1, <2>4, <1>1
    <3>3. CASE b < x
      <4>1. b + sz[b] < x BY <3>3 DEF Tile
      <4> QED BY <4>1, <3>1, <2>1, <2>4, <1>1
    <3> QED BY <3>1, <3>2, <3>3, <1>1
  <2> QED BY <2>2, <2>3, <2>4
<1>8. Tile(B \ {b}, sz, pages \ run)
  BY <1>7 DEF Tile
<1> QED BY <1>5, <1>6, <1>8 DEF run, ShrunkBy

-----------------------------------------------------------------------------
(* The two lists of the heap. *)

HeapT == [size : SizeT, next : Links, prev : Links, super : Unit, free : Unit,
          tail : Unit, state : {"up", "oom", "stuck", "unknown block"}]

(* S and F are the blocks of the two lists. *)
Lists(h, S, F, r) ==
    /\ List(S, r, h.super, h.next, h.prev)
    /\ List(F, r, h.free, h.next, h.prev)
    /\ S \cap F = {}
    /\ h.free # NULL => h.tail \in F /\ h.next[h.tail] = NULL

(* What is known of a block of either list. *)
LEMMA ListedBlock ==
    ASSUME NEW h \in HeapT, NEW S, NEW F, NEW r \in Ranks, Lists(h, S, F, r),
           NEW b \in S \cup F
    PROVE  /\ b \in Unit /\ b # NULL
           /\ h.next[b] \in Unit /\ h.prev[b] \in Unit
           /\ h.prev[b] = NULL => b = h.free \/ b = h.super
           /\ h.prev[b] # NULL => b # h.free /\ b # h.super
           /\ b = h.free <=> b \in F /\ h.prev[b] = NULL
           /\ b = h.super <=> b \in S /\ h.prev[b] = NULL
           /\ h.prev[b] # b
<1>1. b \in Unit /\ b # NULL BY DEF Lists, List
<1>2. h.next[b] \in Unit /\ h.prev[b] \in Unit BY <1>1, Zenon DEF HeapT, Links
<1>3. b \in F => (h.prev[b] = NULL <=> b = h.free) BY DEF Lists, List
<1>4. b \in S => (h.prev[b] = NULL <=> b = h.super) BY DEF Lists, List
<1>5. h.free \in F \cup {NULL} /\ h.super \in S \cup {NULL} /\ S \cap F = {}
  BY DEF Lists, List
<1>6. h.prev[b] # b
  <2> SUFFICES ASSUME h.prev[b] = b PROVE FALSE
    OBVIOUS
  <2>1. r[b] \in Int BY <1>1 DEF Ranks
  <2>2. b \in F => r[b] < r[b] BY <1>1 DEF Lists, List
  <2>3. b \in S => r[b] < r[b] BY <1>1 DEF Lists, List
  <2> QED BY <2>1, <2>2, <2>3
<1> QED BY <1>1, <1>2, <1>3, <1>4, <1>5, <1>6

(* What remove_memory_block_from_list assigns. *)
Removed(h, b, n) ==
    /\ n \in HeapT /\ n.size = h.size /\ n.state = h.state
    /\ n.next = Set(h.next, h.prev[b], h.next[b])
    /\ n.prev = Set(h.prev, h.next[b], h.prev[b])
    /\ n.free  = IF b = h.free THEN h.next[b] ELSE h.free
    /\ n.super = IF b = h.super THEN h.next[b] ELSE h.super
    /\ h.next[b] # NULL => n.tail = h.tail
    /\ h.next[b] = NULL /\ b # h.free =>
          n.tail = IF b = h.tail /\ h.prev[b] # NULL THEN h.prev[b] ELSE h.tail

(* A block of a list is found at a head or behind another block, so that    *)
(* the panic of remove_memory_block_from_list is not reached.               *)
LEMMA RemoveAssigns ==
    ASSUME NEW h \in HeapT, NEW S, NEW F, NEW r \in Ranks, Lists(h, S, F, r),
           NEW b \in S \cup F
    PROVE  Removed(h, b, remove_memory_block_from_list(h, b))
<1> DEFINE n == remove_memory_block_from_list(h, b)
<1>1. /\ b \in Unit /\ b # NULL
      /\ h.next[b] \in Unit /\ h.prev[b] \in Unit
      /\ h.prev[b] = NULL => b = h.free \/ b = h.super
      /\ h.prev[b] # NULL => b # h.free /\ b # h.super
      /\ ~ (b = h.free /\ b = h.super)
  <2>1. S \cap F = {} BY DEF Lists
  <2> QED BY <2>1, ListedBlock
<1>2. h.next \in Links /\ h.prev \in Links /\ NULL \in Unit BY Sizes, Zenon DEF HeapT
<1> DEFINE nx == Set(h.next, h.prev[b], h.next[b])
           pv == Set(h.prev, h.next[b], h.prev[b])
<1>3. nx \in Links /\ pv \in Links BY <1>1, <1>2, SetFacts, Zenon
<1>4. h.prev[b] = NULL => nx = h.next /\ pv = Set(h.prev, h.next[b], NULL) BY DEF Set
<1>5. CASE h.prev[b] = NULL /\ b = h.free
  <2>1. n = [h EXCEPT !.free = h.next[b], !.prev = pv,
                      !.tail = IF h.next[b] = NULL THEN NULL ELSE @]
    BY <1>4, <1>5 DEF remove_memory_block_from_list
  <2> HIDE DEF nx, pv, n
  <2>2. Removed(h, b, n) <=>
        /\ n \in HeapT /\ n.size = h.size /\ n.state = h.state
        /\ n.next = nx /\ n.prev = pv
        /\ n.free = h.next[b] /\ n.super = h.super
        /\ (h.next[b] # NULL => n.tail = h.tail)
    BY <1>1, <1>5 DEF Removed, nx, pv
  <2>3. Removed(h, b, n) BY <2>1, <2>2, <1>1, <1>2, <1>3, <1>4, <1>5, Zenon DEF HeapT
  <2> QED BY <2>3 DEF n
<1>6. CASE h.prev[b] = NULL /\ b # h.free
  <2>1. n = [h EXCEPT !.super = h.next[b], !.prev = pv]
    BY <1>1, <1>4, <1>6, Zenon DEF remove_memory_block_from_list
  <2> HIDE DEF nx, pv, n
  <2>2. Removed(h, b, n) <=>
        /\ n \in HeapT /\ n.size = h.size /\ n.state = h.state
        /\ n.next = nx /\ n.prev = pv
        /\ n.free = h.free /\ n.super = h.next[b]
        /\ n.tail = h.tail
    BY <1>1, <1>6 DEF Removed, nx, pv
  <2>3. Removed(h, b, n) BY <2>1, <2>2, <1>1, <1>3, <1>4, <1>6, Zenon DEF HeapT
  <2> QED BY <2>3 DEF n
<1>7. CASE h.prev[b] # NULL
  <2>1. n = [h EXCEPT !.next = nx, !.prev = pv,
                      !.tail = IF h.next[b] = NULL /\ b = h.tail THEN h.prev[b] ELSE @]
    BY <1>7 DEF remove_memory_block_from_list
  <2> HIDE DEF nx, pv, n
  <2>2. Removed(h, b, n) <=>
        /\ n \in HeapT /\ n.size = h.size /\ n.state = h.state
        /\ n.next = nx /\ n.prev = pv
        /\ n.free = h.free /\ n.super = h.super
        /\ n.tail = IF h.next[b] = NULL /\ b = h.tail THEN h.prev[b] ELSE h.tail
    BY <1>1, <1>7 DEF Removed, nx, pv
  <2>3. Removed(h, b, n) BY <2>1, <2>2, <1>1, <1>3, <1>7, Zenon DEF HeapT
  <2> QED BY <2>3 DEF n
<1> QED BY <1>5, <1>6, <1>7

(* Removing a block keeps both lists, and the tail at the last freed block. *)
LEMMA RemoveBlock ==
    ASSUME NEW h \in HeapT, NEW S, NEW F, NEW r \in Ranks, Lists(h, S, F, r),
           NEW b \in S \cup F
    PROVE  LET n == remove_memory_block_from_list(h, b) IN
           /\ n \in HeapT /\ n.size = h.size /\ n.state = h.state
           /\ Lists(n, S \ {b}, F \ {b}, r)
<1> DEFINE n == remove_memory_block_from_list(h, b)
<1>1. Removed(h, b, n) BY RemoveAssigns
<1> HIDE DEF n
<1>2. /\ b \in Unit /\ b # NULL /\ h.next[b] \in Unit /\ h.prev[b] \in Unit
      /\ b = h.free <=> b \in F /\ h.prev[b] = NULL
      /\ b = h.super <=> b \in S /\ h.prev[b] = NULL
      /\ h.prev[b] # b
  BY ListedBlock
<1>3. /\ List(S, r, h.super, h.next, h.prev) /\ List(F, r, h.free, h.next, h.prev)
      /\ S \cap F = {} /\ h.next \in Links /\ h.prev \in Links
  BY Zenon DEF Lists, HeapT
<1>0. /\ n.next = Set(h.next, h.prev[b], h.next[b])
      /\ n.prev = Set(h.prev, h.next[b], h.prev[b])
  BY <1>1 DEF Removed
<1>4. \A x \in Unit :
         /\ n.next[x] = IF x = h.prev[b] /\ h.prev[b] # NULL THEN h.next[b] ELSE h.next[x]
         /\ n.prev[x] = IF x = h.next[b] /\ h.next[b] # NULL THEN h.prev[b] ELSE h.prev[x]
  BY <1>0, <1>2, <1>3 DEF Set, Links
<1>5. ASSUME NEW X, NEW Y, NEW hx, NEW hy, X \cap Y = {}, b \in X,
             List(X, r, hx, h.next, h.prev), List(Y, r, hy, h.next, h.prev)
      PROVE  /\ List(X \ {b}, r, IF b = hx THEN h.next[b] ELSE hx, n.next, n.prev)
             /\ List(Y, r, hy, n.next, n.prev)
             /\ Y \ {b} = Y
  <2>1. List(X \ {b}, r, IF b = hx THEN h.next[b] ELSE hx, n.next, n.prev)
    <3>1. List(X \ {b}, r, IF b = hx THEN h.next[b] ELSE hx,
               Set(h.next, h.prev[b], h.next[b]), Set(h.prev, h.next[b], h.prev[b]))
      BY <1>3, <1>5, Unlink, Zenon
    <3> QED BY <3>1, <1>0
  <2>2. h.next[b] \in X \cup {NULL} /\ h.prev[b] \in X \cup {NULL} BY <1>5 DEF List
  <2>3. \A x \in Y : x \in Unit /\ x # NULL /\ x \notin X BY <1>5 DEF List
  <2>4. \A x \in Y : r[x] = r[x] /\ n.next[x] = h.next[x] /\ n.prev[x] = h.prev[x]
    BY <2>2, <2>3, <1>4
  <2>5. List(Y, r, hy, n.next, n.prev) BY <2>4, <1>5, ListFrame
  <2> QED BY <2>1, <2>5, <1>5
<1>6. CASE b \in F
  <2>1. b \notin S /\ F \cap S = {} /\ S \ {b} = S BY <1>3, <1>6
  <2>2. /\ List(F \ {b}, r, IF b = h.free THEN h.next[b] ELSE h.free, n.next, n.prev)
        /\ List(S, r, h.super, n.next, n.prev)
    BY <2>1, <1>3, <1>5, <1>6
  <2>3. /\ n.free = IF b = h.free THEN h.next[b] ELSE h.free
        /\ n.super = h.super
    BY <2>1, <1>1, <1>2 DEF Removed
  <2>4. ASSUME n.free # NULL PROVE n.tail \in F \ {b} /\ n.next[n.tail] = NULL
    <3>1. h.free # NULL BY <1>3, <1>6 DEF List
    <3>2. h.tail \in F /\ h.next[h.tail] = NULL /\ h.tail \in Unit
      BY <3>1 DEF Lists, List
    <3>3. CASE h.next[b] # NULL
      <4>1. n.tail = h.tail BY <3>3, <1>1 DEF Removed
      <4>2. h.tail # b BY <3>2, <3>3
      <4>3. h.tail # h.prev[b] \/ h.prev[b] = NULL
        <5>1. h.prev[b] # NULL => h.next[h.prev[b]] = b BY <1>3, <1>6 DEF List
        <5> QED BY <5>1, <3>2, <1>2
      <4> QED BY <4>1, <4>2, <4>3, <3>2, <1>4
    <3>4. CASE h.next[b] = NULL
      <4>1. b # h.free BY <2>3, <2>4, <3>4
      <4>2. h.prev[b] # NULL /\ h.prev[b] \in F \ {b}
        BY <4>1, <1>2, <1>3, <1>6 DEF List
      <4>3. n.tail = IF b = h.tail THEN h.prev[b] ELSE h.tail
        BY <3>4, <4>1, <4>2, <1>1 DEF Removed
      <4>4. CASE b = h.tail BY <4>2, <4>3, <4>4, <3>4, <1>2, <1>4
      <4>5. CASE b # h.tail BY <4>3, <4>5, <3>2, <3>4, <1>4
      <4> QED BY <4>4, <4>5
    <3> QED BY <3>3, <3>4
  <2> QED BY <2>1, <2>2, <2>3, <2>4, <1>1, <1>3 DEF Lists, Removed, n
<1>7. CASE b \in S
  <2>1. b \notin F /\ F \ {b} = F BY <1>3, <1>7
  <2>2. /\ List(S \ {b}, r, IF b = h.super THEN h.next[b] ELSE h.super, n.next, n.prev)
        /\ List(F, r, h.free, n.next, n.prev)
    BY <2>1, <1>3, <1>5, <1>7
  <2>3. /\ n.super = IF b = h.super THEN h.next[b] ELSE h.super
        /\ n.free = h.free
    BY <2>1, <1>1, <1>2 DEF Removed
  <2>4. ASSUME n.free # NULL PROVE n.tail \in F /\ n.next[n.tail] = NULL
    <3>1. h.tail \in F /\ h.next[h.tail] = NULL /\ h.tail \in Unit
      BY <2>3, <2>4 DEF Lists, List
    <3>2. n.tail = h.tail BY <2>1, <3>1, <1>1, <1>2 DEF Removed
    <3>3. h.prev[b] \in S \cup {NULL} BY <1>3, <1>7 DEF List
    <3>4. h.tail # h.prev[b] \/ h.prev[b] = NULL BY <3>1, <3>3, <1>3
    <3> QED BY <3>1, <3>2, <3>4, <1>4
  <2> QED BY <2>1, <2>2, <2>3, <2>4, <1>1, <1>3, Zenon DEF Lists, Removed, n
<1> QED BY <1>6, <1>7
(* What replace_memory_block_in_list assigns. *)
Relinked(h, b, c, n) ==
    /\ n \in HeapT /\ n.size = h.size /\ n.state = h.state
    /\ n.next = Set([h.next EXCEPT ![c] = h.next[b]], h.prev[b], c)
    /\ n.prev = Set([h.prev EXCEPT ![c] = h.prev[b]], h.next[b], c)
    /\ n.free  = IF b = h.free THEN c ELSE h.free
    /\ n.super = IF b = h.super THEN c ELSE h.super
    /\ n.tail  = IF h.next[b] = NULL /\ b = h.tail THEN c ELSE h.tail

(* The panic of replace_memory_block_in_list is not reached either. *)
LEMMA ReplaceAssigns ==
    ASSUME NEW h \in HeapT, NEW S, NEW F, NEW r \in Ranks, Lists(h, S, F, r),
           NEW b \in S \cup F, NEW c \in Unit
    PROVE  Relinked(h, b, c, replace_memory_block_in_list(h, b, c))
<1> DEFINE n == replace_memory_block_in_list(h, b, c)
           nx == Set([h.next EXCEPT ![c] = h.next[b]], h.prev[b], c)
           pv == Set([h.prev EXCEPT ![c] = h.prev[b]], h.next[b], c)
           t  == IF h.next[b] = NULL /\ b = h.tail THEN c ELSE h.tail
<1>1. /\ b \in Unit /\ b # NULL
      /\ h.next[b] \in Unit /\ h.prev[b] \in Unit
      /\ h.prev[b] = NULL => b = h.free \/ b = h.super
      /\ h.prev[b] # NULL => b # h.free /\ b # h.super
      /\ ~ (b = h.free /\ b = h.super)
  <2>1. S \cap F = {} BY DEF Lists
  <2> QED BY <2>1, ListedBlock
<1>2. h.next \in Links /\ h.prev \in Links /\ h.tail \in Unit BY Zenon DEF HeapT
<1>3. nx \in Links /\ pv \in Links /\ t \in Unit
  <2>1. [h.next EXCEPT ![c] = h.next[b]] \in Links BY <1>1, <1>2 DEF Links
  <2>2. [h.prev EXCEPT ![c] = h.prev[b]] \in Links BY <1>1, <1>2 DEF Links
  <2> QED BY <2>1, <2>2, <1>1, <1>2, SetFacts, Zenon
<1>4. n = IF h.prev[b] # NULL THEN [h EXCEPT !.next = nx, !.prev = pv, !.tail = t]
          ELSE IF b = h.free
               THEN [[h EXCEPT !.next = nx, !.prev = pv, !.tail = t] EXCEPT !.free = c]
          ELSE IF b = h.super
               THEN [[h EXCEPT !.next = nx, !.prev = pv, !.tail = t] EXCEPT !.super = c]
          ELSE [h EXCEPT !.state = "unknown block"]
  BY DEF replace_memory_block_in_list
<1> HIDE DEF nx, pv, n, t
<1>5. /\ n \in HeapT /\ n.size = h.size /\ n.state = h.state
      /\ n.next = nx /\ n.prev = pv /\ n.tail = t
      /\ n.free  = IF b = h.free THEN c ELSE h.free
      /\ n.super = IF b = h.super THEN c ELSE h.super
  <2>1. CASE h.prev[b] # NULL BY <2>1, <1>1, <1>3, <1>4, Zenon DEF HeapT
  <2>2. CASE h.prev[b] = NULL /\ b = h.free BY <2>2, <1>1, <1>3, <1>4, Zenon DEF HeapT
  <2>3. CASE h.prev[b] = NULL /\ b # h.free BY <2>3, <1>1, <1>3, <1>4, Zenon DEF HeapT
  <2> QED BY <2>1, <2>2, <2>3
<1>6. Relinked(h, b, c, n) BY <1>5 DEF Relinked, nx, pv, t
<1> QED BY <1>6 DEF n

(* X with c in the place of b. *)
Swap(X, b, c) == IF b \in X THEN (X \ {b}) \cup {c} ELSE X

(* Replacing a block by one that is on neither list keeps both lists. *)
LEMMA ReplaceBlock ==
    ASSUME NEW h \in HeapT, NEW S, NEW F, NEW r \in Ranks, Lists(h, S, F, r),
           NEW b \in S \cup F, NEW c \in Unit \ (S \cup F), c # NULL
    PROVE  LET n == replace_memory_block_in_list(h, b, c) IN
           /\ n \in HeapT /\ n.size = h.size /\ n.state = h.state
           /\ Lists(n, Swap(S, b, c), Swap(F, b, c), [r EXCEPT ![c] = r[b]])
<1> DEFINE n == replace_memory_block_in_list(h, b, c)
           q == [r EXCEPT ![c] = r[b]]
<1>1. Relinked(h, b, c, n) BY ReplaceAssigns
<1> HIDE DEF n
<1>2. /\ b \in Unit /\ b # NULL /\ h.next[b] \in Unit /\ h.prev[b] \in Unit
      /\ b = h.free <=> b \in F /\ h.prev[b] = NULL
      /\ b = h.super <=> b \in S /\ h.prev[b] = NULL
  BY ListedBlock
<1>3. /\ List(S, r, h.super, h.next, h.prev) /\ List(F, r, h.free, h.next, h.prev)
      /\ S \cap F = {} /\ h.next \in Links /\ h.prev \in Links
  BY Zenon DEF Lists, HeapT
<1>4. /\ n.next = Set([h.next EXCEPT ![c] = h.next[b]], h.prev[b], c)
      /\ n.prev = Set([h.prev EXCEPT ![c] = h.prev[b]], h.next[b], c)
  BY <1>1 DEF Relinked
<1>5. \A x \in Unit :
         /\ n.next[x] = IF x = h.prev[b] /\ h.prev[b] # NULL THEN c
                        ELSE IF x = c THEN h.next[b] ELSE h.next[x]
         /\ n.prev[x] = IF x = h.next[b] /\ h.next[b] # NULL THEN c
                        ELSE IF x = c THEN h.prev[b] ELSE h.prev[x]
  BY <1>2, <1>3, <1>4 DEF Set, Links
<1>6. ASSUME NEW X, NEW Y, NEW hx, NEW hy, X \cap Y = {}, b \in X, c \notin X, c \notin Y,
             List(X, r, hx, h.next, h.prev), List(Y, r, hy, h.next, h.prev)
      PROVE  /\ List(Swap(X, b, c), q, IF b = hx THEN c ELSE hx, n.next, n.prev)
             /\ List(Y, q, hy, n.next, n.prev)
             /\ Swap(Y, b, c) = Y
  <2>1. List(Swap(X, b, c), q, IF b = hx THEN c ELSE hx, n.next, n.prev)
    <3>1. List((X \ {b}) \cup {c}, [r EXCEPT ![c] = r[b]], IF b = hx THEN c ELSE hx,
               Set([h.next EXCEPT ![c] = h.next[b]], h.prev[b], c),
               Set([h.prev EXCEPT ![c] = h.prev[b]], h.next[b], c))
      BY <1>3, <1>6, Relink, Zenon
    <3>2. Swap(X, b, c) = (X \ {b}) \cup {c} BY <1>6 DEF Swap
    <3> QED BY <3>1, <3>2, <1>4
  <2>2. h.next[b] \in X \cup {NULL} /\ h.prev[b] \in X \cup {NULL} BY <1>6 DEF List
  <2>3. \A x \in Y : x \in Unit /\ x # NULL /\ x \notin X /\ x # c BY <1>6 DEF List
  <2>4. \A x \in Y : n.next[x] = h.next[x] /\ n.prev[x] = h.prev[x]
    BY <2>2, <2>3, <1>5
  <2>5. \A x \in Y : q[x] = r[x] BY <2>3 DEF Ranks
  <2> HIDE DEF q
  <2>6. List(Y, q, hy, n.next, n.prev) BY <2>4, <2>5, <1>6, ListFrame
  <2> QED BY <2>1, <2>6, <1>6 DEF Swap
<1> HIDE DEF q
<1>7. h.free # NULL => h.tail \in F /\ h.next[h.tail] = NULL /\ h.tail \in Unit /\ h.tail # c
  BY <1>3 DEF Lists, List
<1>8. CASE b \in F
  <2>1. b \notin S /\ F \cap S = {} BY <1>3, <1>8
  <2>2. /\ List(Swap(F, b, c), q, IF b = h.free THEN c ELSE h.free, n.next, n.prev)
        /\ List(S, q, h.super, n.next, n.prev) /\ Swap(S, b, c) = S
    BY <2>1, <1>3, <1>6, <1>8
  <2>3. /\ n.free = IF b = h.free THEN c ELSE h.free
        /\ n.super = h.super
        /\ n.tail = IF h.next[b] = NULL /\ b = h.tail THEN c ELSE h.tail
    BY <2>1, <1>1, <1>2 DEF Relinked
  <2>4. n.tail \in Swap(F, b, c) /\ n.next[n.tail] = NULL
    <3>1. h.free # NULL BY <1>3, <1>8 DEF List
    <3>2. CASE b = h.tail
      <4>1. h.next[b] = NULL /\ n.tail = c BY <3>1, <3>2, <2>3, <1>7
      <4>2. c # h.prev[b] BY <1>3, <1>8 DEF List
      <4>3. n.next[c] = h.next[b] BY <4>2, <1>5
      <4> QED BY <4>1, <4>3, <1>8 DEF Swap
    <3>3. CASE b # h.tail
      <4>1. n.tail = h.tail /\ h.tail \in F \ {b} BY <3>1, <3>3, <2>3, <1>7
      <4>2. h.tail # h.prev[b] \/ h.prev[b] = NULL
        <5>1. h.prev[b] # NULL => h.next[h.prev[b]] = b BY <1>3, <1>8 DEF List
        <5> QED BY <5>1, <3>1, <1>2, <1>7
      <4>3. n.next[h.tail] = NULL BY <3>1, <4>2, <1>5, <1>7
      <4> QED BY <4>1, <4>3 DEF Swap
    <3> QED BY <3>2, <3>3
  <2>5. S \cap Swap(F, b, c) = {} BY <1>3 DEF Swap
  <2>6. Lists(n, Swap(S, b, c), Swap(F, b, c), q)
    BY <2>2, <2>3, <2>4, <2>5 DEF Lists
  <2> QED BY <2>6, <1>1 DEF Relinked, n, q
<1>9. CASE b \in S
  <2>1. b \notin F BY <1>3, <1>9
  <2>2. /\ List(Swap(S, b, c), q, IF b = h.super THEN c ELSE h.super, n.next, n.prev)
        /\ List(F, q, h.free, n.next, n.prev) /\ Swap(F, b, c) = F
    BY <2>1, <1>3, <1>6, <1>9
  <2>3. /\ n.super = IF b = h.super THEN c ELSE h.super
        /\ n.free = h.free
        /\ n.tail = IF h.next[b] = NULL /\ b = h.tail THEN c ELSE h.tail
    BY <2>1, <1>1, <1>2 DEF Relinked
  <2>4. ASSUME n.free # NULL PROVE n.tail \in F /\ n.next[n.tail] = NULL
    <3>1. h.tail \in F /\ h.next[h.tail] = NULL /\ h.tail \in Unit /\ h.tail # c
      BY <2>3, <2>4, <1>7
    <3>2. n.tail = h.tail BY <2>1, <2>3, <3>1
    <3>3. h.prev[b] \in S \cup {NULL} BY <1>3, <1>9 DEF List
    <3>4. h.tail # h.prev[b] \/ h.prev[b] = NULL BY <3>1, <3>3, <1>3
    <3> QED BY <3>1, <3>2, <3>4, <1>5
  <2>5. Swap(S, b, c) \cap F = {} BY <1>3 DEF Swap
  <2>6. Lists(n, Swap(S, b, c), Swap(F, b, c), q)
    BY <2>2, <2>3, <2>4, <2>5 DEF Lists
  <2> QED BY <2>6, <1>1 DEF Relinked, n, q
<1> QED BY <1>8, <1>9

(* A page of its own at the head of the super blocks keeps both lists. *)
LEMMA NewSuper ==
    ASSUME NEW h \in HeapT, NEW S, NEW F, NEW r \in Ranks, Lists(h, S, F, r),
           NEW c \in Unit \ (S \cup F), c # NULL
    PROVE  LET n == NewSuperBlock(h, c) IN
           /\ n \in HeapT /\ n.size = [h.size EXCEPT ![c] = MAX_SMALL]
           /\ n.state = h.state
           /\ \E q \in Ranks : Lists(n, S \cup {c}, F, q)
<1> DEFINE n  == NewSuperBlock(h, c)
           nx == [h.next EXCEPT ![c] = h.super]
           pv == Set([h.prev EXCEPT ![c] = NULL], h.super, c)
           sz == [h.size EXCEPT ![c] = MAX_SMALL]
<1>1. /\ List(S, r, h.super, h.next, h.prev) /\ List(F, r, h.free, h.next, h.prev)
      /\ S \cap F = {} /\ h.next \in Links /\ h.prev \in Links /\ h.super \in Unit
      /\ h.size \in SizeT
  BY Zenon DEF Lists, HeapT
<1>2. nx \in Links BY <1>1 DEF Links
<1>3. pv \in Links
  <2>1. [h.prev EXCEPT ![c] = NULL] \in Links BY <1>1, Sizes DEF Links
  <2> QED BY <2>1, <1>1, SetFacts
<1>4. sz \in SizeT
  <2>1. MAX_SMALL \in 0 .. (FRAMES * PAGE) BY Sizes
  <2> QED BY <2>1, <1>1 DEF SizeT
<1>5. n = [h EXCEPT !.size = sz, !.next = nx, !.prev = pv, !.super = c]
  BY <1>1 DEF NewSuperBlock
<1>6. PICK k \in Int : List(S \cup {c}, [r EXCEPT ![c] = k], c, nx, pv)
  BY <1>1, PushFront
<1> DEFINE q == [r EXCEPT ![c] = k]
<1>7. q \in Ranks BY DEF Ranks
<1>8. \A x \in F : x \in Unit /\ x # NULL /\ x # c /\ x # h.super
  BY <1>1 DEF List
<1>9. \A x \in F : q[x] = r[x] /\ nx[x] = h.next[x] /\ pv[x] = h.prev[x]
  BY <1>1, <1>8 DEF Ranks, Links, Set
<1> HIDE DEF n, nx, pv, sz, q
<1>10. /\ n \in HeapT /\ n.size = sz /\ n.state = h.state /\ n.next = nx /\ n.prev = pv
       /\ n.super = c /\ n.free = h.free /\ n.tail = h.tail
  BY <1>2, <1>3, <1>4, <1>5, Zenon DEF HeapT
<1>11. List(F, q, h.free, nx, pv) BY <1>1, <1>9, ListFrame
<1>12. List(S \cup {c}, q, c, nx, pv) BY <1>6 DEF q
<1>13. h.free # NULL => h.tail \in F /\ nx[h.tail] = NULL BY <1>9 DEF Lists
<1>14. Lists(n, S \cup {c}, F, q)
  BY <1>1, <1>10, <1>11, <1>12, <1>13 DEF Lists
<1> QED BY <1>7, <1>10, <1>14 DEF n, sz
-----------------------------------------------------------------------------
(* The inductive invariant. *)

(* The blocks of the lists and of the callers fill the pages of the heap,   *)
(* and the size in its header tells what kind a block is.                   *)
Placed(h, S, F, A, u) ==
    /\ A \cap (S \cup F) = {}
    /\ Tile(S \cup F \cup A, h.size, u \ RESERVED)
    /\ \A b \in S \cup F : h.size[b] <= MAX_SMALL
    /\ \A b \in A : h.size[b] <= MAX_SMALL \/ Whole(b, h.size[b])
    /\ RESERVED \subseteq u /\ u \subseteq Frame

Sound(h, A, u) ==
    \E S, F \in SUBSET Unit : \E r \in Ranks : Lists(h, S, F, r) /\ Placed(h, S, F, A, u)

IInv == TypeOK /\ kernel # "unknown block" /\ Sound(Heap, allocated, used)

(* Lists are sets of units. *)
LEMMA SoundIntro ==
    ASSUME NEW h, NEW A, NEW u, NEW S, NEW F, NEW r \in Ranks,
           Lists(h, S, F, r), Placed(h, S, F, A, u)
    PROVE  Sound(h, A, u)
<1>1. S \in SUBSET Unit /\ F \in SUBSET Unit BY DEF Lists, List
<1> QED BY <1>1 DEF Sound

(* The heap after a call that leaves it in state h. *)
LEMMA Stored ==
    ASSUME NEW h \in HeapT, Store(h)
    PROVE  Heap' = h
BY Zenon DEF Store, Heap, HeapT

(* TypeOK, of the heap as a record. *)
LEMMA TypeFacts ==
    TypeOK <=> /\ Heap \in HeapT /\ used \in SUBSET Frame /\ allocated \in SUBSET Unit
BY Zenon DEF TypeOK, Heap, HeapT, SizeT, Links

(* The same after a step. *)
LEMMA TypeFactsPrimed ==
    TypeOK' <=> /\ Heap' \in HeapT /\ used' \in SUBSET Frame /\ allocated' \in SUBSET Unit
BY Zenon DEF TypeOK, Heap, HeapT, SizeT, Links

(* In n the block b of h is a caller's, and as large as it asked for. *)
Carved(h, A, b, u, n, size) ==
    /\ n \in HeapT /\ n.state = h.state
    /\ Sound(n, A \cup {b}, u)
    /\ b \notin A /\ size <= n.size[b]
    /\ \A x \in A : n.size[x] = h.size[x]

(* malloc_from_block hands out a block of a list that is big enough, whole  *)
(* or the first part of it, and touches no header of another caller.        *)
LEMMA MallocFromBlock ==
    ASSUME NEW h \in HeapT, NEW S, NEW F, NEW A, NEW u, NEW r \in Ranks,
           Lists(h, S, F, r), Placed(h, S, F, A, u),
           NEW b \in S \cup F, NEW size \in Nat, size <= h.size[b]
    PROVE  Carved(h, A, b, u, malloc_from_block(h, b, size), size)
<1> DEFINE n == malloc_from_block(h, b, size)
           B == S \cup F \cup A
           pages == u \ RESERVED
<1>1. /\ h.size \in SizeT /\ Tile(B, h.size, pages) /\ b \in B /\ b \notin A
      /\ h.size[b] <= MAX_SMALL /\ S \cap F = {}
  BY Zenon DEF Placed, HeapT, Lists
<1>2. \A x \in B : h.size[x] \in Nat /\ x \in Unit
  <2> HIDE DEF B, pages
  <2> QED BY <1>1, TileFacts
<1>3. CASE h.size[b] <= size + 2
  <2>1. n = remove_memory_block_from_list(h, b) BY <1>3 DEF malloc_from_block
  <2>2. /\ n \in HeapT /\ n.size = h.size /\ n.state = h.state
        /\ Lists(n, S \ {b}, F \ {b}, r)
    BY <2>1, RemoveBlock
  <2> HIDE DEF n
  <2>3. (S \ {b}) \cup (F \ {b}) \cup (A \cup {b}) = B OBVIOUS
  <2>4. Placed(n, S \ {b}, F \ {b}, A \cup {b}, u)
    <3>1. (A \cup {b}) \cap ((S \ {b}) \cup (F \ {b})) = {} BY DEF Placed
    <3>2. \A x \in (S \ {b}) \cup (F \ {b}) : n.size[x] <= MAX_SMALL BY <2>2 DEF Placed
    <3>3. \A x \in A \cup {b} : n.size[x] <= MAX_SMALL \/ Whole(x, n.size[x])
      BY <2>2, <1>1 DEF Placed
    <3> QED BY <2>2, <2>3, <3>1, <3>2, <3>3, <1>1 DEF Placed
  <2>5. Sound(n, A \cup {b}, u) BY <2>2, <2>4, SoundIntro
  <2>6. Carved(h, A, b, u, n, size) BY <1>1, <2>2, <2>5 DEF Carved
  <2> QED BY <2>6 DEF n
<1>4. CASE ~ (h.size[b] <= size + 2)
  <2> DEFINE rest == b + 1 + size
             sz2  == [h.size EXCEPT ![rest] = h.size[b] - (size + 1), ![b] = size]
             hs   == [h EXCEPT !.size = sz2]
  <2>1. n = replace_memory_block_in_list(hs, b, rest)
    BY <1>4 DEF malloc_from_block, Split
  <2>0. h.size[b] \in Nat /\ MAX_SMALL \in Nat BY <1>1, <1>2, Sizes
  <2>2. size + 1 <= h.size[b] BY <2>0, <1>4
  <2>3. /\ rest \in Unit \ B /\ rest # NULL /\ sz2 \in SizeT
        /\ Tile(B \cup {rest}, sz2, pages)
        /\ sz2[b] = size /\ sz2[rest] = h.size[b] - (size + 1)
        /\ \A x \in B : x # b => sz2[x] = h.size[x]
    <3> HIDE DEF B, pages
    <3>1. SplitOff(B, h.size, pages, b, size) BY <2>2, <1>1, TileSplit
    <3> QED BY <3>1, Zenon DEF SplitOff
  <2> HIDE DEF rest, sz2
  <2>4. hs \in HeapT /\ hs.size = sz2 /\ hs.state = h.state BY <2>3, Zenon DEF HeapT
  <2>5. Lists(hs, S, F, r)
    <3>1. /\ hs.super = h.super /\ hs.free = h.free /\ hs.tail = h.tail
          /\ hs.next = h.next /\ hs.prev = h.prev
      BY Zenon DEF HeapT
    <3> QED BY <3>1 DEF Lists
  <2> HIDE DEF hs, n
  <2> DEFINE q == [r EXCEPT ![rest] = r[b]]
             S2 == Swap(S, b, rest)
             F2 == Swap(F, b, rest)
  <2>6. rest \in Unit \ (S \cup F) BY <2>3
  <2>7. /\ n \in HeapT /\ n.size = sz2 /\ n.state = h.state
        /\ Lists(n, S2, F2, q)
    BY <2>1, <2>3, <2>4, <2>5, <2>6, ReplaceBlock
  <2>8. q \in Ranks
    <3>1. b \in Unit BY <1>1, <1>2
    <3> QED BY <3>1, <2>6 DEF Ranks
  <2>9. /\ S2 \cup F2 \cup (A \cup {b}) = B \cup {rest}
        /\ S2 \cup F2 = ((S \cup F) \ {b}) \cup {rest}
    BY <1>1 DEF Swap
  <2> HIDE DEF S2, F2, q
  <2>10. Placed(n, S2, F2, A \cup {b}, u)
    <3>1. (A \cup {b}) \cap (S2 \cup F2) = {} BY <2>3, <2>9 DEF Placed
    <3>2. \A x \in S2 \cup F2 : sz2[x] <= MAX_SMALL
      <4> SUFFICES ASSUME NEW x \in S2 \cup F2 PROVE sz2[x] <= MAX_SMALL
        OBVIOUS
      <4>1. CASE x = rest BY <4>1, <2>0, <2>2, <2>3, <1>1
      <4>2. CASE x # rest
        <5>1. x \in S \cup F /\ x # b BY <4>2, <2>9
        <5> QED BY <5>1, <2>3 DEF Placed
      <4> QED BY <4>1, <4>2
    <3>3. \A x \in A : sz2[x] = h.size[x] BY <2>3, <1>1
    <3>4. sz2[b] <= MAX_SMALL BY <2>0, <2>2, <2>3, <1>1
    <3>5. \A x \in A \cup {b} : sz2[x] <= MAX_SMALL \/ Whole(x, sz2[x])
      BY <3>3, <3>4 DEF Placed
    <3>6. Tile(S2 \cup F2 \cup (A \cup {b}), n.size, u \ RESERVED)
      BY <2>3, <2>7, <2>9, Zenon
    <3>7. RESERVED \subseteq u /\ u \subseteq Frame BY DEF Placed
    <3> QED BY <2>7, <3>1, <3>2, <3>5, <3>6, <3>7, Zenon DEF Placed
  <2>11. Sound(n, A \cup {b}, u) BY <2>7, <2>8, <2>10, SoundIntro
  <2>12. \A x \in A : n.size[x] = h.size[x] BY <2>3, <2>7, <1>1
  <2>13. size <= n.size[b] BY <2>3, <2>7
  <2>14. Carved(h, A, b, u, n, size) BY <1>1, <2>7, <2>11, <2>12, <2>13, Zenon DEF Carved
  <2> QED BY <2>14 DEF n
<1> QED BY <1>3, <1>4
-----------------------------------------------------------------------------
(* The steps. *)

HeadersStay == \A x \in allocated : block_size'[x] = block_size[x]

(* The caller gets a block that was nobody's, or the kernel stops. *)
Grants(size) ==
    \/ /\ kernel' = "up"
       /\ \E b \in Unit \ allocated : /\ allocated' = allocated \cup {b}
                                      /\ size <= block_size'[b]
    \/ kernel' # "up" /\ allocated' = allocated

(* The caller gives block b back. *)
Drops(b) == kernel' = "up" /\ allocated' = allocated \ {b}

(* The end of every kmalloc that is served from a list. *)
LEMMA CarveStep ==
    ASSUME IInv, NEW h \in HeapT, NEW S, NEW F, NEW u, NEW r \in Ranks,
           Lists(h, S, F, r), Placed(h, S, F, allocated, u), h.state = "up",
           \A x \in allocated : h.size[x] = block_size[x],
           NEW b \in S \cup F, NEW size \in Nat, size <= h.size[b],
           Carve(h, b, size), used' = u
    PROVE  IInv' /\ HeadersStay /\ Grants(size)
<1> DEFINE n == malloc_from_block(h, b, size)
<1>0. Carved(h, allocated, b, u, malloc_from_block(h, b, size), size) BY MallocFromBlock
<1>2. Store(n) /\ allocated' = allocated \cup {b} BY DEF Carve
<1> HIDE DEF n
<1>1. /\ n \in HeapT /\ n.state = h.state
      /\ Sound(n, allocated \cup {b}, u)
      /\ \A x \in allocated : n.size[x] = h.size[x]
      /\ b \notin allocated /\ size <= n.size[b]
  BY <1>0 DEF n, Carved
<1>3. Heap' = n BY <1>1, <1>2, Stored
<1>4. kernel' = "up" /\ block_size' = n.size BY <1>1, <1>2, Zenon DEF Store
<1>5. u \in SUBSET Frame BY DEF Placed
<1>6. b \in Unit BY ListedBlock
<1>7. allocated' \in SUBSET Unit BY <1>2, <1>6, Zenon DEF IInv, TypeOK
<1>8. TypeOK' BY <1>1, <1>3, <1>5, <1>7, TypeFactsPrimed
<1>9. Sound(Heap, allocated, used)' BY <1>1, <1>2, <1>3, Zenon
<1>10. Grants(size) BY <1>1, <1>2, <1>4, <1>6, Zenon DEF Grants
<1> QED BY <1>1, <1>4, <1>8, <1>9, <1>10, Zenon DEF IInv, HeadersStay

(* An allocation that fails stops the kernel and changes nothing else. *)
LEMMA OutOfMemoryStep ==
    ASSUME IInv, NEW got, got.used = used, OutOfMemory(got), NEW size
    PROVE  IInv' /\ HeadersStay /\ Grants(size)
<1>1. PICK S, F \in SUBSET Unit : \E r \in Ranks :
         Lists(Heap, S, F, r) /\ Placed(Heap, S, F, allocated, used)
  BY Zenon DEF IInv, Sound
<1>2. PICK r \in Ranks : Lists(Heap, S, F, r) /\ Placed(Heap, S, F, allocated, used)
  BY <1>1
<1>3. /\ Heap'.size = Heap.size /\ Heap'.next = Heap.next /\ Heap'.prev = Heap.prev
      /\ Heap'.super = Heap.super /\ Heap'.free = Heap.free /\ Heap'.tail = Heap.tail
      /\ allocated' = allocated /\ used' = used /\ kernel' \in {"oom", "stuck"}
  BY DEF OutOfMemory, Heap
<1>4. Lists(Heap', S, F, r) BY <1>2, <1>3, Zenon DEF Lists
<1>5. Placed(Heap', S, F, allocated', used') BY <1>2, <1>3 DEF Placed
<1>6. Sound(Heap', allocated', used') BY <1>4, <1>5, SoundIntro
<1>7. TypeOK' BY <1>3, Zenon DEF IInv, TypeOK, OutOfMemory
<1>8. block_size' = block_size BY DEF OutOfMemory
<1>9. Grants(size) BY <1>3, Zenon DEF Grants
<1> QED BY <1>3, <1>6, <1>7, <1>8, <1>9, Zenon DEF IInv, HeadersStay

(* The pages the PMM grants lie outside of the heap, which then has them    *)
(* as one block.                                                            *)
LEMMA GrantedBlock ==
    ASSUME NEW h \in HeapT, NEW S, NEW F, NEW A, NEW u, Placed(h, S, F, A, u),
           NEW k \in Nat \ {0}, pmm_alloc_pages(u, k).frame \notin {NULL, NEVER}
    PROVE  LET got == pmm_alloc_pages(u, k) IN
           /\ got.frame \in Nat
           /\ GrownBy(S \cup F \cup A, h.size, u \ RESERVED, got.frame, k)
           /\ (u \ RESERVED) \cup (got.frame .. (got.frame + k - 1)) = got.used \ RESERVED
           /\ RESERVED \subseteq got.used /\ got.used \subseteq Frame
<1> DEFINE got == pmm_alloc_pages(u, k)
           run == got.frame .. (got.frame + k - 1)
<1>1. RESERVED \subseteq u /\ u \subseteq Frame /\ NULL \in u
  BY ReservedAssumption DEF Placed
<1>2. /\ got.frame \in Frame /\ got.frame # NULL
      /\ run \subseteq Frame \ u /\ got.used = u \cup run
  BY <1>1, AllocRun, Zenon
<1>3. h.size \in SizeT /\ Tile(S \cup F \cup A, h.size, u \ RESERVED)
  BY Zenon DEF HeapT, Placed
<1> HIDE DEF got
<1>4. run \subseteq Frame \ (u \ RESERVED) BY <1>2
<1>5. GrownBy(S \cup F \cup A, h.size, u \ RESERVED, got.frame, k)
  BY <1>2, <1>3, <1>4, TileGrow
<1>6. (u \ RESERVED) \cup run = got.used \ RESERVED
  <2> HIDE DEF run
  <2> QED BY <1>1, <1>2
<1> QED BY <1>1, <1>2, <1>5, <1>6, FrameFacts, Zenon DEF got

(* kmalloc of at most a page less its header. *)
LEMMA SmallPreserves ==
    ASSUME IInv, NEW size \in SIZES, kmalloc(size)
    PROVE  IInv' /\ HeadersStay /\ Grants(size)
<1>1. PICK S, F \in SUBSET Unit : \E r \in Ranks :
         Lists(Heap, S, F, r) /\ Placed(Heap, S, F, allocated, used)
  BY Zenon DEF IInv, Sound
<1>2. PICK r \in Ranks : Lists(Heap, S, F, r) /\ Placed(Heap, S, F, allocated, used)
  BY <1>1
<1>3. Heap \in HeapT BY TypeFacts, Zenon DEF IInv
<1>4. /\ Heap.size = block_size /\ Heap.next = next /\ Heap.prev = prev
      /\ Heap.super = g_super_blocks /\ Heap.free = g_free_blocks /\ Heap.state = kernel
  BY DEF Heap
<1>5. kernel = "up" /\ size <= MAX_SMALL /\ size \in Nat BY SizesAssumption DEF kmalloc
<1>6. /\ List(S, r, g_super_blocks, next, prev) /\ List(F, r, g_free_blocks, next, prev)
      /\ next \in Links
  BY <1>2, <1>3, <1>4, Zenon DEF Lists, HeapT
<1> DEFINE inFree  == find_big_enough_block(g_free_blocks, size)
           inSuper == find_big_enough_block(g_super_blocks, size)
           got     == pmm_alloc_pages(used, 1)
<1>7. inFree = NULL \/ (inFree \in F /\ block_size[inFree] >= size) BY <1>6, FindsBlock
<1>8. inSuper = NULL \/ (inSuper \in S /\ block_size[inSuper] >= size) BY <1>6, FindsBlock
<1>9. \/ /\ inFree # NULL
         /\ Carve(Heap, inFree, size) /\ used' = used
      \/ /\ inSuper # NULL
         /\ Carve(Heap, inSuper, size) /\ used' = used
      \/ /\ got.frame # NULL
         /\ Carve(NewSuperBlock(Heap, got.frame * PAGE), got.frame * PAGE, size)
         /\ used' = got.used
      \/ /\ got.frame = NULL
         /\ OutOfMemory(got)
  BY DEF kmalloc
<1> HIDE DEF inFree, inSuper
<1>10. ASSUME NEW b \in S \cup F, block_size[b] >= size, Carve(Heap, b, size), used' = used
       PROVE  IInv' /\ HeadersStay /\ Grants(size)
  <2>1. size <= Heap.size[b]
    <3>1. b \in Unit BY <1>2, <1>3, ListedBlock
    <3>2. block_size[b] \in 0 .. (FRAMES * PAGE) BY <3>1, Zenon DEF IInv, TypeOK
    <3>3. block_size[b] \in Int BY <3>2, Sizes
    <3> QED BY <3>3, <1>4, <1>5, <1>10
  <2>2. Heap.state = "up" BY <1>4, <1>5
  <2>3. \A x \in allocated : Heap.size[x] = block_size[x] BY <1>4
  <2> QED BY <2>1, <2>2, <2>3, <1>2, <1>3, <1>5, <1>10, CarveStep, Zenon
<1>11. CASE inFree # NULL /\ Carve(Heap, inFree, size) /\ used' = used
  BY <1>7, <1>10, <1>11
<1>12. CASE inSuper # NULL /\ Carve(Heap, inSuper, size) /\ used' = used
  BY <1>8, <1>10, <1>12
<1>13. CASE got.frame = NULL /\ OutOfMemory(got)
  <2>1. NULL \in used BY <1>2, ReservedAssumption DEF Placed
  <2>2. got.used = used BY <2>1, <1>13, AllocRun
  <2> HIDE DEF got
  <2> QED BY <2>2, <1>13, OutOfMemoryStep
<1>14. CASE /\ got.frame # NULL
            /\ Carve(NewSuperBlock(Heap, got.frame * PAGE), got.frame * PAGE, size)
            /\ used' = got.used
  <2> DEFINE b == got.frame * PAGE
             n == NewSuperBlock(Heap, b)
             B == S \cup F \cup allocated
             sz2 == [block_size EXCEPT ![b] = MAX_SMALL]
             run == got.frame .. (got.frame + 1 - 1)
  <2>1. /\ got.frame \in Nat
        /\ GrownBy(B, block_size, used \ RESERVED, got.frame, 1)
        /\ (used \ RESERVED) \cup run = got.used \ RESERVED
        /\ RESERVED \subseteq got.used /\ got.used \subseteq Frame
    <3>1. 1 \in Nat \ {0} /\ pmm_alloc_pages(used, 1).frame \notin {NULL, NEVER}
      <4>1. NULL \in used BY <1>2, ReservedAssumption DEF Placed
      <4>2. ~ (1 > FRAMES) BY FrameFacts
      <4>3. got.frame # NEVER BY <4>1, <4>2, AllocRun, FrameFacts DEF NEVER
      <4> QED BY <4>3, <1>14
    <3>2. Placed(Heap, S, F, allocated, used) /\ Heap \in HeapT BY <1>2, <1>3
    <3>3. /\ got.frame \in Nat
          /\ GrownBy(B, Heap.size, used \ RESERVED, got.frame, 1)
          /\ (used \ RESERVED) \cup run = got.used \ RESERVED
          /\ RESERVED \subseteq got.used /\ got.used \subseteq Frame
      BY ONLY <3>1, <3>2, GrantedBlock, Zenon
    <3> QED BY <3>3, <1>4
  <2>2. 1 * PAGE - 1 = MAX_SMALL BY Sizes
  <2>3. /\ b \in Unit \ B /\ b # NULL
        /\ Tile(B \cup {b}, sz2, (used \ RESERVED) \cup run)
        /\ sz2[b] = MAX_SMALL /\ \A x \in B : sz2[x] = block_size[x]
    <3> HIDE DEF got, B
    <3> QED BY <2>1, <2>2, Zenon DEF GrownBy
  <2> HIDE DEF got, b, sz2, run
  <2>4. b \in Unit \ (S \cup F) BY <2>3
  <2>5. /\ n \in HeapT /\ n.size = sz2 /\ n.state = kernel
        /\ \E q \in Ranks : Lists(n, S \cup {b}, F, q)
    <3>1. /\ n \in HeapT /\ n.size = [Heap.size EXCEPT ![b] = MAX_SMALL]
          /\ n.state = Heap.state
          /\ \E q \in Ranks : Lists(n, S \cup {b}, F, q)
      BY ONLY <2>3, <2>4, <1>2, <1>3, NewSuper, Zenon
    <3> QED BY <3>1, <1>4 DEF sz2
  <2>6. PICK q \in Ranks : Lists(n, S \cup {b}, F, q) BY <2>5
  <2> HIDE DEF n
  <2>7. Placed(n, S \cup {b}, F, allocated, got.used)
    <3>1. allocated \cap ((S \cup {b}) \cup F) = {} BY <2>3, <1>2, Zenon DEF Placed
    <3>2. (S \cup {b}) \cup F \cup allocated = B \cup {b} OBVIOUS
    <3>3. Tile((S \cup {b}) \cup F \cup allocated, n.size, got.used \ RESERVED)
      BY <2>1, <2>3, <2>5, <3>2, Zenon
    <3>4. \A x \in (S \cup {b}) \cup F : sz2[x] <= MAX_SMALL
      <4>1. \A x \in S \cup F : block_size[x] <= MAX_SMALL BY <1>2, <1>4, Zenon DEF Placed
      <4>2. MAX_SMALL <= MAX_SMALL BY Sizes
      <4> QED BY <4>1, <4>2, <2>3
    <3>5. \A x \in allocated : sz2[x] <= MAX_SMALL \/ Whole(x, sz2[x])
      <4>1. \A x \in allocated : block_size[x] <= MAX_SMALL \/ Whole(x, block_size[x])
        BY <1>2, <1>4 DEF Placed
      <4> QED BY <4>1, <2>3
    <3> QED BY <2>1, <2>5, <3>1, <3>3, <3>4, <3>5 DEF Placed
  <2>8. size <= n.size[b] BY <2>3, <2>5, <1>5
  <2>9. \A x \in allocated : n.size[x] = block_size[x] BY <2>3, <2>5
  <2>10. Carve(n, b, size) /\ used' = got.used BY <1>14 DEF n, b
  <2>11. b \in (S \cup {b}) \cup F /\ n.state = "up" BY <2>5, <1>5
  <2> QED BY <2>5, <2>6, <2>7, <2>8, <2>9, <2>10, <2>11, <1>5, CarveStep
<1> QED BY <1>9, <1>11, <1>12, <1>13, <1>14
(* A request takes at least one page, and has room behind the header. *)
LEMMA PagesForFacts ==
    ASSUME NEW size \in Nat
    PROVE  PagesFor(size) \in Nat \ {0} /\ size <= PagesFor(size) * PAGE - 1
<1>1. PAGE \in Nat /\ PAGE >= 2 BY Sizes
<1>2. size + 1 + PAGE - 1 = size + PAGE BY <1>1
<1> DEFINE m == size + PAGE
           q == m \div PAGE
<1>3. m \in Nat /\ m >= PAGE BY <1>1
<1> HIDE DEF m
<1>4. q \in Nat /\ m < q * PAGE + PAGE BY <1>3, PageBounds
<1> HIDE DEF q
<1>5. q # 0
  <2>1. SUFFICES ASSUME q = 0 PROVE FALSE OBVIOUS
  <2>2. q * PAGE = 0 BY <2>1, <1>1
  <2> QED BY <2>2, <1>1, <1>3, <1>4
<1>6. q * PAGE \in Nat BY <1>1, <1>4
<1>7. size <= q * PAGE - 1 BY <1>1, <1>4, <1>6 DEF m
<1>8. PagesFor(size) = q BY <1>2 DEF PagesFor, q, m
<1> QED BY <1>4, <1>5, <1>7, <1>8

(* kmalloc of more: whole pages of their own. *)
LEMMA LargePreserves ==
    ASSUME IInv, NEW size \in SIZES, malloc_largeblock(size)
    PROVE  IInv' /\ HeadersStay /\ Grants(size)
<1>1. PICK S, F \in SUBSET Unit : \E r \in Ranks :
         Lists(Heap, S, F, r) /\ Placed(Heap, S, F, allocated, used)
  BY Zenon DEF IInv, Sound
<1>2. PICK r \in Ranks : Lists(Heap, S, F, r) /\ Placed(Heap, S, F, allocated, used)
  BY <1>1
<1> DEFINE k   == PagesFor(size)
           got == pmm_alloc_pages(used, k)
           b   == got.frame * PAGE
           B   == S \cup F \cup allocated
           sz2 == [block_size EXCEPT ![b] = k * PAGE - 1]
           run == got.frame .. (got.frame + k - 1)
<1>3. k \in Nat \ {0} /\ size <= k * PAGE - 1 BY SizesAssumption, PagesForFacts
<1>4. Heap \in HeapT BY TypeFacts, Zenon DEF IInv
<1>5. /\ Heap.size = block_size /\ Heap.next = next /\ Heap.prev = prev
      /\ Heap.super = g_super_blocks /\ Heap.free = g_free_blocks
      /\ Heap.tail = g_free_block_tail
  BY DEF Heap
<1>6. CASE got.frame \in {NULL, NEVER} /\ OutOfMemory(got)
  <2>1. NULL \in used BY <1>2, ReservedAssumption DEF Placed
  <2> HIDE DEF k
  <2>2. got.used = used BY <2>1, <1>3, <1>6, AllocRun, FrameFacts DEF NEVER
  <2> HIDE DEF got
  <2> QED BY <2>2, <1>6, OutOfMemoryStep
<1>7. CASE /\ got.frame \notin {NULL, NEVER}
           /\ block_size' = sz2
           /\ next' = [next EXCEPT ![b] = NULL]
           /\ prev' = [prev EXCEPT ![b] = NULL]
           /\ used' = got.used
           /\ allocated' = allocated \cup {b}
           /\ UNCHANGED <<g_super_blocks, g_free_blocks, g_free_block_tail, kernel>>
  <2> HIDE DEF k
  <2>1. /\ got.frame \in Nat
        /\ GrownBy(B, block_size, used \ RESERVED, got.frame, k)
        /\ (used \ RESERVED) \cup run = got.used \ RESERVED
        /\ RESERVED \subseteq got.used /\ got.used \subseteq Frame
    <3>1. pmm_alloc_pages(used, k).frame \notin {NULL, NEVER} BY <1>7
    <3>2. Placed(Heap, S, F, allocated, used) /\ Heap \in HeapT BY <1>2, <1>4
    <3>3. /\ got.frame \in Nat
          /\ GrownBy(B, Heap.size, used \ RESERVED, got.frame, k)
          /\ (used \ RESERVED) \cup run = got.used \ RESERVED
          /\ RESERVED \subseteq got.used /\ got.used \subseteq Frame
      BY ONLY <3>1, <3>2, <1>3, GrantedBlock, Zenon
    <3> QED BY <3>3, <1>5
  <2>2. /\ b \in Unit \ B /\ b # NULL /\ sz2 \in SizeT
        /\ Tile(B \cup {b}, sz2, (used \ RESERVED) \cup run)
        /\ sz2[b] = k * PAGE - 1 /\ \A x \in B : sz2[x] = block_size[x]
    <3> HIDE DEF got, B
    <3> QED BY <2>1 DEF GrownBy
  <2>3. Whole(b, sz2[b])
    <3> HIDE DEF got
    <3>1. k * PAGE \in Nat BY <1>3, PageAssumption
    <3>2. sz2[b] + 1 = k * PAGE
      <4> HIDE DEF sz2, b
      <4> QED BY <2>2, <3>1
    <3>3. k \in Nat BY <1>3
    <3> HIDE DEF sz2
    <3> QED BY <2>1, <3>2, <3>3 DEF Whole
  <2>4. /\ block_size' = sz2
        /\ next' = [next EXCEPT ![b] = NULL]
        /\ prev' = [prev EXCEPT ![b] = NULL]
        /\ used' = got.used /\ allocated' = allocated \cup {b}
        /\ g_super_blocks' = g_super_blocks /\ g_free_blocks' = g_free_blocks
        /\ g_free_block_tail' = g_free_block_tail /\ kernel' = kernel
    BY <1>7
  <2> HIDE DEF got, b, sz2, run
  <2>5. next \in Links /\ prev \in Links BY <1>4, <1>5, Zenon DEF HeapT
  <2>6. next' \in Links /\ prev' \in Links
        /\ \A x \in Unit \ {b} : next'[x] = next[x] /\ prev'[x] = prev[x]
    BY <2>2, <2>4, <2>5, Sizes DEF Links
  <2>7. TypeOK'
    <3>1. used' \in SUBSET Frame BY <2>1, <2>4, Zenon
    <3>2. block_size' \in [Unit -> 0 .. (FRAMES * PAGE)] BY <2>2, <2>4 DEF SizeT
    <3>3. allocated' \in SUBSET Unit BY <2>2, <2>4, Zenon DEF IInv, TypeOK
    <3>4. next' \in [Unit -> Unit] /\ prev' \in [Unit -> Unit] BY <2>6 DEF Links
    <3>5. /\ {g_super_blocks, g_free_blocks, g_free_block_tail}' \subseteq Unit
          /\ kernel' \in {"up", "oom", "stuck", "unknown block"}
      BY <2>4, Zenon DEF IInv, TypeOK
    <3> QED BY <3>1, <3>2, <3>3, <3>4, <3>5, Zenon DEF TypeOK
  <2>8. /\ Heap'.size = sz2 /\ Heap'.next = next' /\ Heap'.prev = prev'
        /\ Heap'.super = g_super_blocks /\ Heap'.free = g_free_blocks
        /\ Heap'.tail = g_free_block_tail
    BY <2>4 DEF Heap
  <2>9. Lists(Heap', S, F, r)
    <3>1. \A x \in S \cup F : next'[x] = next[x] /\ prev'[x] = prev[x] BY <2>2, <2>6, Zenon
    <3>0. List(S, r, g_super_blocks, next, prev) /\ List(F, r, g_free_blocks, next, prev)
      BY <1>2, <1>5 DEF Lists
    <3>2. List(S, r, g_super_blocks, next', prev') BY ONLY <3>0, <3>1, ListFrame
    <3>3. List(F, r, g_free_blocks, next', prev') BY ONLY <3>0, <3>1, ListFrame
    <3> QED BY <3>1, <3>2, <3>3, <2>8, <1>2, <1>5, Zenon DEF Lists
  <2>10. Placed(Heap', S, F, allocated', used')
    <3>1. allocated' \cap (S \cup F) = {} BY <2>2, <2>4, <1>2, Zenon DEF Placed
    <3>2. S \cup F \cup allocated' = B \cup {b} BY <2>4
    <3>3. Tile(S \cup F \cup allocated', Heap'.size, used' \ RESERVED)
      BY <2>1, <2>2, <2>4, <2>8, <3>2, Zenon
    <3>4. \A x \in S \cup F : sz2[x] <= MAX_SMALL BY <1>2, <1>5, <2>2, Zenon DEF Placed
    <3>5. \A x \in allocated' : sz2[x] <= MAX_SMALL \/ Whole(x, sz2[x])
      <4>1. \A x \in allocated : block_size[x] <= MAX_SMALL \/ Whole(x, block_size[x])
        BY <1>2, <1>5 DEF Placed
      <4> QED BY <4>1, <2>2, <2>3, <2>4
    <3> QED BY <2>1, <2>4, <2>8, <3>1, <3>3, <3>4, <3>5, Zenon DEF Placed
  <2>11. Sound(Heap', allocated', used') BY <2>9, <2>10, SoundIntro
  <2>12. kernel' # "unknown block" BY <2>4, Zenon DEF IInv
  <2>13. kernel' = "up" BY <2>4 DEF malloc_largeblock
  <2>14. b \in Unit \ allocated /\ size <= block_size'[b] BY <1>3, <2>2, <2>4, Zenon
  <2>15. Grants(size) BY <2>4, <2>13, <2>14, Zenon DEF Grants
  <2> QED BY <2>2, <2>4, <2>7, <2>11, <2>12, <2>15, Zenon DEF IInv, HeadersStay
<1> QED BY <1>6, <1>7 DEF malloc_largeblock
(* kfree of a small block, which joins the end of the freed ones. *)
LEMMA SmallFreePreserves ==
    ASSUME IInv, NEW b \in allocated, kfree(b)
    PROVE  IInv' /\ HeadersStay /\ Drops(b)
<1>1. PICK S, F \in SUBSET Unit : \E r \in Ranks :
         Lists(Heap, S, F, r) /\ Placed(Heap, S, F, allocated, used)
  BY Zenon DEF IInv, Sound
<1>2. PICK r \in Ranks : Lists(Heap, S, F, r) /\ Placed(Heap, S, F, allocated, used)
  BY <1>1
<1>3. Heap \in HeapT BY TypeFacts, Zenon DEF IInv
<1>4. /\ Heap.size = block_size /\ Heap.next = next /\ Heap.prev = prev
      /\ Heap.super = g_super_blocks /\ Heap.free = g_free_blocks
      /\ Heap.tail = g_free_block_tail
  BY DEF Heap
<1>5. next \in Links /\ prev \in Links /\ block_size \in SizeT /\ g_free_block_tail \in Unit
      /\ g_free_blocks \in Unit
  BY <1>3, <1>4, Zenon DEF HeapT
<1>6. /\ b \in Unit \ (S \cup F) /\ block_size[b] <= MAX_SMALL
      /\ allocated' = allocated \ {b} /\ used' = used /\ block_size' = block_size
      /\ g_super_blocks' = g_super_blocks /\ kernel' = kernel /\ g_free_block_tail' = b
  BY <1>2, Zenon DEF kfree, Placed, IInv, TypeOK
<1>7. b # NULL
  <2>1. Tile(S \cup F \cup allocated, block_size, used \ RESERVED) BY <1>2, <1>4, Zenon DEF Placed
  <2>2. b \in Nat /\ block_size[b] \in Nat
    <3>1. b \in S \cup F \cup allocated OBVIOUS
    <3> QED BY ONLY <3>1, <2>1, <1>5, TileFacts, Zenon
  <2>3. 0 \div PAGE = 0 BY PageAssumption
  <2>4. 0 \notin used \ RESERVED BY ReservedAssumption
  <2>5. 0 \in Unit BY Sizes
  <2>6. ~ (b <= 0 /\ 0 <= b + block_size[b]) BY <2>1, <2>3, <2>4, <2>5 DEF Tile
  <2> QED BY <2>2, <2>6
<1>8. List(S, r, g_super_blocks, next, prev) /\ List(F, r, g_free_blocks, next, prev)
  BY <1>2, <1>4, Zenon DEF Lists
<1>9. /\ next' \in Links /\ prev' \in Links /\ g_free_blocks' \in Unit
      /\ \E k \in Int : List(F \cup {b}, [r EXCEPT ![b] = k], g_free_blocks', next', prev')
      /\ \A x \in S : next'[x] = next[x] /\ prev'[x] = prev[x]
      /\ g_free_block_tail' \in F \cup {b} /\ next'[g_free_block_tail'] = NULL
  <2>1. CASE g_free_blocks = NULL
    <3>1. F = {} BY <2>1, <1>8 DEF List
    <3>2. /\ next' = [next EXCEPT ![b] = NULL] /\ prev' = [prev EXCEPT ![b] = NULL]
          /\ g_free_blocks' = b
      BY <2>1 DEF kfree, Set
    <3>3. Set([prev EXCEPT ![b] = NULL], NULL, b) = [prev EXCEPT ![b] = NULL] BY DEF Set
    <3>4. \E k \in Int : List(F \cup {b}, [r EXCEPT ![b] = k], b, [next EXCEPT ![b] = NULL],
                              Set([prev EXCEPT ![b] = NULL], NULL, b))
      BY <2>1, <1>5, <1>6, <1>7, <1>8, PushFront
    <3>5. next' \in Links /\ prev' \in Links /\ next'[b] = NULL
          /\ \A x \in Unit \ {b} : next'[x] = next[x] /\ prev'[x] = prev[x]
      BY <3>2, <1>5, <1>6, Sizes DEF Links
    <3>6. S \subseteq Unit \ {b} BY <1>6
    <3> QED BY <3>2, <3>3, <3>4, <3>5, <3>6, <1>6, Zenon
  <2>2. CASE g_free_blocks # NULL
    <3> DEFINE t == g_free_block_tail
    <3>1. t \in F /\ next[t] = NULL BY <2>2, <1>2, <1>4 DEF Lists
    <3>2. t # NULL /\ t # b /\ t \notin S BY <3>1, <1>2, <1>6, <1>8, Zenon DEF Lists, List
    <3>3. /\ next' = Set([next EXCEPT ![b] = NULL], t, b) /\ prev' = [prev EXCEPT ![b] = t]
          /\ g_free_blocks' = g_free_blocks
      BY <2>2 DEF kfree
    <3>4. \E k \in Int : List(F \cup {b}, [r EXCEPT ![b] = k], g_free_blocks,
                              Set([next EXCEPT ![b] = NULL], t, b), [prev EXCEPT ![b] = t])
      <4> HIDE DEF t
      <4> QED BY <3>1, <1>5, <1>6, <1>7, <1>8, PushBack, Zenon
    <3>5. next' \in Links /\ prev' \in Links /\ next'[b] = NULL
          /\ \A x \in Unit \ {b, t} : next'[x] = next[x] /\ prev'[x] = prev[x]
      BY <3>2, <3>3, <1>5, <1>6, Sizes DEF Links, Set
    <3>6. S \subseteq Unit \ {b, t} BY <1>6, <3>2
    <3> QED BY <3>3, <3>4, <3>5, <3>6, <1>5, <1>6, Zenon
  <2> QED BY <2>1, <2>2
<1>10. PICK k \in Int : List(F \cup {b}, [r EXCEPT ![b] = k], g_free_blocks', next', prev')
  BY <1>9
<1> DEFINE q == [r EXCEPT ![b] = k]
<1>11. q \in Ranks /\ \A x \in S : q[x] = r[x] BY <1>6 DEF Ranks
<1> HIDE DEF q
<1>12. List(S, q, g_super_blocks, next', prev') BY <1>8, <1>9, <1>11, ListFrame
<1>13. /\ Heap'.size = block_size /\ Heap'.next = next' /\ Heap'.prev = prev'
       /\ Heap'.super = g_super_blocks /\ Heap'.free = g_free_blocks'
       /\ Heap'.tail = g_free_block_tail'
  BY <1>6 DEF Heap
<1>14. Lists(Heap', S, F \cup {b}, q)
  <2>1. S \cap (F \cup {b}) = {} BY <1>2, <1>6 DEF Lists
  <2>2. List(F \cup {b}, q, g_free_blocks', next', prev') BY <1>10 DEF q
  <2> QED BY <2>1, <2>2, <1>9, <1>12, <1>13 DEF Lists
<1>15. Placed(Heap', S, F \cup {b}, allocated', used')
  <2>1. S \cup (F \cup {b}) \cup allocated' = S \cup F \cup allocated BY <1>6
  <2>2. allocated' \cap (S \cup (F \cup {b})) = {} BY <1>2, <1>6 DEF Placed
  <2>3. Tile(S \cup (F \cup {b}) \cup allocated', Heap'.size, used' \ RESERVED)
    BY <2>1, <1>2, <1>4, <1>6, <1>13, Zenon DEF Placed
  <2>4. /\ \A x \in S \cup (F \cup {b}) : block_size[x] <= MAX_SMALL
        /\ \A x \in allocated' : block_size[x] <= MAX_SMALL \/ Whole(x, block_size[x])
        /\ RESERVED \subseteq used' /\ used' \subseteq Frame
    BY <1>2, <1>4, <1>6, Zenon DEF Placed
  <2> QED BY <2>2, <2>3, <2>4, <1>13 DEF Placed
<1>16. Sound(Heap', allocated', used') BY <1>11, <1>14, <1>15, SoundIntro
<1>17. TypeOK'
  <2>1. next' \in [Unit -> Unit] /\ prev' \in [Unit -> Unit] BY <1>9 DEF Links
  <2>2. {g_super_blocks, g_free_blocks, g_free_block_tail}' \subseteq Unit
    BY <1>6, <1>9, Zenon DEF IInv, TypeOK
  <2>3. /\ used' \in SUBSET Frame /\ allocated' \in SUBSET Unit
        /\ block_size' \in [Unit -> 0 .. (FRAMES * PAGE)]
        /\ kernel' \in {"up", "oom", "stuck", "unknown block"}
    BY <1>6, Zenon DEF IInv, TypeOK
  <2> QED BY <2>1, <2>2, <2>3, Zenon DEF TypeOK
<1>18. kernel = "up" BY DEF kfree
<1>19. Drops(b) BY <1>6, <1>18 DEF Drops
<1> QED BY <1>6, <1>16, <1>17, <1>19, Zenon DEF IInv, HeadersStay

(* kfree of whole pages, which go back to the PMM. *)
LEMMA LargeFreePreserves ==
    ASSUME IInv, NEW b \in allocated, free_largeblock(b)
    PROVE  IInv' /\ HeadersStay /\ Drops(b)
<1>1. PICK S, F \in SUBSET Unit : \E r \in Ranks :
         Lists(Heap, S, F, r) /\ Placed(Heap, S, F, allocated, used)
  BY Zenon DEF IInv, Sound
<1>2. PICK r \in Ranks : Lists(Heap, S, F, r) /\ Placed(Heap, S, F, allocated, used)
  BY <1>1
<1>3. /\ Heap' = Heap /\ allocated' = allocated \ {b} /\ block_size' = block_size
      /\ kernel' = kernel /\ block_size[b] > MAX_SMALL
      /\ used' = pmm_free_pages(used, b \div PAGE, (block_size[b] + 1) \div PAGE)
  BY DEF free_largeblock, Heap
<1>4. Heap \in HeapT /\ Heap.size = block_size BY TypeFacts, Zenon DEF IInv, Heap
<1>5. block_size \in SizeT BY <1>4, Zenon DEF HeapT
<1> DEFINE B == S \cup F \cup allocated
<1>6. Tile(B, block_size, used \ RESERVED) /\ b \in B BY <1>2, <1>4, Zenon DEF Placed
<1>7. Whole(b, block_size[b])
  <2>1. block_size[b] \in Nat BY <1>5, <1>6, TileFacts, Zenon
  <2>2. ~ (block_size[b] <= MAX_SMALL) BY <2>1, <1>3, Sizes
  <2> QED BY <2>2, <1>2, <1>4, Zenon DEF Placed
<1> DEFINE i   == b \div PAGE
           run == i .. (i + (block_size[b] + 1) \div PAGE - 1)
<1>8. ShrunkBy(B, block_size, used \ RESERVED, b)
  <2> HIDE DEF B
  <2> QED BY <1>5, <1>6, <1>7, TileShrink
<1>9. run \subseteq used \ RESERVED /\ Tile(B \ {b}, block_size, (used \ RESERVED) \ run)
  <2> HIDE DEF B
  <2> QED BY <1>8 DEF ShrunkBy
<1>10. used' = used \ run BY <1>3 DEF pmm_free_pages
<1> HIDE DEF run
<1>11. used' \ RESERVED = (used \ RESERVED) \ run BY <1>10
<1>12. RESERVED \subseteq used' /\ used' \subseteq Frame BY <1>2, <1>9, <1>10 DEF Placed
<1>13. S \cup F \cup allocated' = B \ {b} BY <1>2, <1>3 DEF Placed
<1>14. Placed(Heap', S, F, allocated', used')
  <2>1. Tile(S \cup F \cup allocated', Heap'.size, used' \ RESERVED)
    BY <1>3, <1>4, <1>9, <1>11, <1>13, Zenon
  <2>2. /\ allocated' \cap (S \cup F) = {}
        /\ \A x \in S \cup F : Heap'.size[x] <= MAX_SMALL
        /\ \A x \in allocated' : Heap'.size[x] <= MAX_SMALL \/ Whole(x, Heap'.size[x])
    BY <1>2, <1>3, Zenon DEF Placed
  <2> QED BY <2>1, <2>2, <1>12 DEF Placed
<1>15. Sound(Heap', allocated', used') BY <1>2, <1>3, <1>14, SoundIntro
<1>16. TypeOK'
  <2>1. allocated' \in SUBSET Unit BY <1>3, Zenon DEF IInv, TypeOK
  <2> QED BY <2>1, <1>3, <1>4, <1>12, TypeFactsPrimed
<1>17. kernel = "up" BY DEF free_largeblock
<1>18. Drops(b) BY <1>3, <1>17 DEF Drops
<1> QED BY <1>3, <1>15, <1>16, <1>18, Zenon DEF IInv, HeadersStay
(* init_kernel_heap leaves one super block, of the first page it got. *)
LEMMA InitEstablishes == Init => IInv
<1> SUFFICES ASSUME Init PROVE IInv
  OBVIOUS
<1> DEFINE got == pmm_alloc_page(RESERVED)
           f   == got.frame
           b   == f * PAGE
           zeros == [x \in Unit |-> 0]
           sz  == [zeros EXCEPT ![b] = 1 * PAGE - 1]
           none == [x \in Unit |-> NULL]
           r   == [x \in Unit |-> 0]
<1>1. /\ f \in Frame \ RESERVED /\ f # NULL /\ got.used = RESERVED \cup {f}
  BY AllocPage, ReservedAssumption
<1>2. /\ used = got.used
      /\ block_size = [x \in Unit |-> IF x = b THEN MAX_SMALL ELSE 0]
      /\ next = none /\ prev = none
      /\ g_super_blocks = b /\ g_free_blocks = NULL /\ g_free_block_tail = NULL
      /\ allocated = {} /\ kernel = "up"
  BY DEF Init
<1> HIDE DEF got
<1>3. zeros \in SizeT BY Sizes DEF SizeT
<1>4. Tile({}, zeros, {}) BY DEF Tile
<1>5. f .. (f + 1 - 1) = {f}
  <2>1. f \in Nat BY <1>1, FrameFacts, Zenon
  <2> HIDE DEF f
  <2> QED BY <2>1
<1>6. GrownBy({}, zeros, {}, f, 1)
  <2>1. f .. (f + 1 - 1) \subseteq Frame \ {} BY <1>1, <1>5
  <2> HIDE DEF f, zeros
  <2> QED BY <2>1, <1>1, <1>3, <1>4, TileGrow
<1>7. /\ b \in Unit /\ b # NULL /\ sz \in SizeT
      /\ Tile({} \cup {b}, sz, {} \cup (f .. (f + 1 - 1)))
  <2> HIDE DEF f, zeros
  <2> QED BY <1>6 DEF GrownBy
<1>8. 1 * PAGE - 1 = MAX_SMALL /\ NULL \in Unit /\ MAX_SMALL \in Nat BY Sizes
<1> HIDE DEF f, b
<1>9. block_size = sz /\ block_size[b] = MAX_SMALL BY <1>2, <1>7, <1>8
<1>10. used \ RESERVED = {f} BY <1>1, <1>2 DEF f
<1>11. Tile({b}, block_size, used \ RESERVED)
  <2>1. {} \cup {b} = {b} /\ {} \cup (f .. (f + 1 - 1)) = used \ RESERVED
    BY <1>5, <1>10
  <2> HIDE DEF sz
  <2> QED BY <2>1, <1>7, <1>9, Zenon
<1>12. RESERVED \subseteq used /\ used \subseteq Frame BY <1>1, <1>2, ReservedAssumption DEF f
<1>13. TypeOK
  <2>1. block_size \in [Unit -> 0 .. (FRAMES * PAGE)]
    <3> HIDE DEF sz
    <3> QED BY <1>7, <1>9 DEF SizeT
  <2>2. next \in [Unit -> Unit] /\ prev \in [Unit -> Unit] BY <1>2, <1>8
  <2> QED BY <2>1, <2>2, <1>2, <1>7, <1>8, <1>12 DEF TypeOK
<1>14. /\ Heap.size = block_size /\ Heap.next = next /\ Heap.prev = prev
       /\ Heap.super = g_super_blocks /\ Heap.free = g_free_blocks
       /\ Heap.tail = g_free_block_tail
  BY DEF Heap
<1>15. r \in Ranks BY DEF Ranks
<1>16. Lists(Heap, {b}, {}, r)
  <2>1. next[b] = NULL /\ prev[b] = NULL BY <1>2, <1>7
  <2>2. List({b}, r, b, next, prev) BY <2>1, <1>7 DEF List
  <2>3. List({}, r, NULL, next, prev) BY DEF List
  <2> QED BY <2>2, <2>3, <1>2, <1>14 DEF Lists
<1>17. Placed(Heap, {b}, {}, allocated, used)
  <2>1. {b} \cup {} \cup allocated = {b} BY <1>2
  <2>2. Tile({b} \cup {} \cup allocated, Heap.size, used \ RESERVED) BY <2>1, <1>11, <1>14
  <2>3. \A x \in {b} \cup {} : Heap.size[x] <= MAX_SMALL BY <1>8, <1>9, <1>14
  <2> QED BY <2>2, <2>3, <1>2, <1>12 DEF Placed
<1>18. Sound(Heap, allocated, used)
  <2> HIDE DEF r
  <2> QED BY <1>15, <1>16, <1>17, SoundIntro
<1> QED BY <1>2, <1>13, <1>18 DEF IInv

(* What a call comes to for the callers. *)
CallerStep ==
    \/ \E size \in SIZES : kernel = "up" /\ Grants(size)
    \/ \E b \in allocated : kernel = "up" /\ Drops(b)
    \/ allocated' = allocated /\ kernel' = kernel

(* Every step keeps the invariant and the headers of the callers' blocks,   *)
(* and gives or takes one block.                                            *)
LEMMA NextPreserves == IInv /\ [Next]_vars => IInv' /\ HeadersStay /\ CallerStep
<1> SUFFICES ASSUME IInv, [Next]_vars PROVE IInv' /\ HeadersStay /\ CallerStep
  OBVIOUS
<1>1. ASSUME NEW size \in SIZES, kmalloc(size) PROVE IInv' /\ HeadersStay /\ CallerStep
  <2>1. kernel = "up" BY <1>1 DEF kmalloc
  <2> QED BY <1>1, <2>1, SmallPreserves, Zenon DEF CallerStep
<1>2. ASSUME NEW size \in SIZES, malloc_largeblock(size)
      PROVE  IInv' /\ HeadersStay /\ CallerStep
  <2>1. kernel = "up" BY <1>2 DEF malloc_largeblock
  <2> QED BY <1>2, <2>1, LargePreserves, Zenon DEF CallerStep
<1>3. ASSUME NEW b \in allocated, kfree(b) PROVE IInv' /\ HeadersStay /\ CallerStep
  <2>1. kernel = "up" BY <1>3 DEF kfree
  <2> QED BY <1>3, <2>1, SmallFreePreserves, Zenon DEF CallerStep
<1>4. ASSUME NEW b \in allocated, free_largeblock(b)
      PROVE  IInv' /\ HeadersStay /\ CallerStep
  <2>1. kernel = "up" BY <1>4 DEF free_largeblock
  <2> QED BY <1>4, <2>1, LargeFreePreserves, Zenon DEF CallerStep
<1>5. CASE UNCHANGED vars
  <2>1. /\ Heap' = Heap /\ allocated' = allocated /\ used' = used /\ kernel' = kernel
        /\ block_size' = block_size
    BY <1>5 DEF vars, Heap
  <2>2. TypeOK' BY <1>5, Zenon DEF vars, TypeOK, IInv
  <2> QED BY <2>1, <2>2, Zenon DEF IInv, HeadersStay, CallerStep
<1> QED BY <1>1, <1>2, <1>3, <1>4, <1>5 DEF Next

(* In every reachable state two disjoint, doubly linked lists and the       *)
(* callers' blocks fill the heap's pages.                                   *)
THEOREM Invariance == Spec => []IInv
<1>1. Init => IInv BY InitEstablishes
<1>2. IInv /\ [Next]_vars => IInv' BY NextPreserves
<1> QED BY <1>1, <1>2, PTL DEF Spec

(* The fields of the headers and the heads of the lists stay in memory. *)
THEOREM TypeCorrect == Spec => []TypeOK
<1>1. IInv => TypeOK BY Zenon DEF IInv
<1> QED BY <1>1, Invariance, PTL

(* Both lists stay doubly linked and apart with the tail at the last freed  *)
(* block, however blocks are split, removed and appended: heap.c never      *)
(* meets an unknown memory block.                                           *)
THEOREM ListsStayIntact == Spec => []ListsIntact
<1>1. ASSUME IInv PROVE ListsIntact
  <2>1. PICK S, F \in SUBSET Unit : \E r \in Ranks :
           Lists(Heap, S, F, r) /\ Placed(Heap, S, F, allocated, used)
    BY <1>1, Zenon DEF IInv, Sound
  <2>2. PICK r \in Ranks : Lists(Heap, S, F, r) /\ Placed(Heap, S, F, allocated, used)
    BY <2>1
  <2>3. /\ List(S, r, g_super_blocks, next, prev) /\ List(F, r, g_free_blocks, next, prev)
        /\ S \cap F = {} /\ allocated \cap (S \cup F) = {}
        /\ g_free_blocks # NULL => g_free_block_tail \in F /\ next[g_free_block_tail] = NULL
    BY <2>2, Zenon DEF Lists, Placed, Heap
  <2>4. next \in Links BY <1>1, Zenon DEF IInv, TypeOK, Links
  <2>5. Chain(g_super_blocks) = S /\ Chain(g_free_blocks) = F BY <2>3, <2>4, ChainIsList
  <2>6. DoublyLinked(g_super_blocks) BY <2>3, <2>5 DEF DoublyLinked, List
  <2>7. DoublyLinked(g_free_blocks) BY <2>3, <2>5 DEF DoublyLinked, List
  <2>8. kernel # "unknown block" BY <1>1, Zenon DEF IInv
  <2> QED BY <2>3, <2>5, <2>6, <2>7, <2>8, Zenon DEF ListsIntact, Supers, Frees
<1> QED BY <1>1, Invariance, PTL

(* The live blocks never overlap and fill exactly the pages the heap took   *)
(* from the PMM: kmalloc hands nothing out twice and kfree loses nothing.   *)
THEOREM BlocksAlwaysTile == Spec => []BlocksTile
<1>1. ASSUME IInv PROVE BlocksTile
  <2>1. PICK S, F \in SUBSET Unit : \E r \in Ranks :
           Lists(Heap, S, F, r) /\ Placed(Heap, S, F, allocated, used)
    BY <1>1, Zenon DEF IInv, Sound
  <2>2. PICK r \in Ranks : Lists(Heap, S, F, r) /\ Placed(Heap, S, F, allocated, used)
    BY <2>1
  <2> DEFINE B == S \cup F \cup allocated
             pages == used \ RESERVED
  <2>3. /\ List(S, r, g_super_blocks, next, prev) /\ List(F, r, g_free_blocks, next, prev)
        /\ Tile(B, block_size, pages)
    BY <2>2, Zenon DEF Lists, Placed, Heap
  <2>4. next \in Links /\ block_size \in SizeT BY <1>1, Zenon DEF IInv, TypeOK, Links, SizeT
  <2>5. Chain(g_super_blocks) = S /\ Chain(g_free_blocks) = F BY <2>3, <2>4, ChainIsList
  <2> HIDE DEF B, pages
  <2>6. \A x \in B : x \in Nat /\ block_size[x] \in Nat /\ x + block_size[x] \in Unit
    BY <2>3, <2>4, TileFacts
  <2>7. ASSUME NEW a \in B, NEW b \in B, a # b PROVE Extent(a) \cap Extent(b) = {}
    <3>1. /\ a < b => a + block_size[a] < b
          /\ b < a => b + block_size[b] < a
      BY <2>3 DEF Tile
    <3>2. a \in Nat /\ b \in Nat /\ block_size[a] \in Nat /\ block_size[b] \in Nat BY <2>6
    <3> QED BY <3>1, <3>2, <2>7 DEF Extent
  <2>8. UNION {Extent(b) : b \in B} = {u \in Unit : u \div PAGE \in pages}
    <3>1. ASSUME NEW b \in B, NEW u \in Extent(b) PROVE u \in Unit /\ u \div PAGE \in pages
      <4>1. /\ b \in Nat /\ block_size[b] \in Nat /\ b + block_size[b] \in Unit BY <2>6
      <4>2. u \in Nat /\ b <= u /\ u <= b + block_size[b] BY <3>1, <4>1 DEF Extent
      <4>3. u \in Unit BY <4>1, <4>2, Sizes
      <4> QED BY <4>2, <4>3, <2>3 DEF Tile
    <3>2. ASSUME NEW u \in Unit, u \div PAGE \in pages PROVE \E b \in B : u \in Extent(b)
      <4>1. PICK b \in B : b <= u /\ u <= b + block_size[b] BY <3>2, <2>3 DEF Tile
      <4>2. b \in Nat /\ block_size[b] \in Nat /\ u \in Nat BY <2>6, Sizes
      <4> QED BY <4>1, <4>2 DEF Extent
    <3> HIDE DEF Extent
    <3> QED BY <3>1, <3>2, Zenon
  <2>9. Supers \cup Frees \cup allocated = B /\ used \ RESERVED = pages
    BY <2>5 DEF Supers, Frees, B, pages
  <2> QED BY <2>7, <2>8, <2>9 DEF BlocksTile
<1> QED BY <1>1, Invariance, PTL

-----------------------------------------------------------------------------
(* The promise to the callers. *)

(* The callers' blocks are in memory, one behind the other. *)
Apart(A, sz) ==
    /\ \A x \in A : x \in Nat /\ sz[x] \in Nat /\ x + sz[x] < FRAMES * PAGE
    /\ \A a, b \in A : a < b => a + sz[a] < b

(* The invariant keeps them so. *)
LEMMA CallersApart ==
    ASSUME NEW h \in HeapT, NEW A, NEW u, Sound(h, A, u)
    PROVE  Apart(A, h.size)
<1>1. PICK S, F \in SUBSET Unit : \E r \in Ranks : Lists(h, S, F, r) /\ Placed(h, S, F, A, u)
  BY Zenon DEF Sound
<1> DEFINE B == S \cup F \cup A
<1>2. Tile(B, h.size, u \ RESERVED) BY <1>1, Zenon DEF Placed
<1>3. h.size \in SizeT BY Zenon DEF HeapT
<1>4. A \subseteq B OBVIOUS
<1> HIDE DEF B
<1>5. \A x \in B : x \in Nat /\ h.size[x] \in Nat /\ x + h.size[x] \in Unit
  BY <1>2, <1>3, TileFacts
<1>6. \A x \in B : x + h.size[x] < FRAMES * PAGE BY <1>5, Sizes
<1>7. \A a, b \in B : a < b => a + h.size[a] < b BY <1>2 DEF Tile
<1> QED BY <1>4, <1>5, <1>6, <1>7, Zenon DEF Apart

(* A block that is added to them is a piece of memory of its own. *)
LEMMA NewPiece ==
    ASSUME NEW A, NEW sz, NEW b, b \notin A, Apart(A \cup {b}, sz),
           NEW size \in Nat \ {0}, size <= sz[b]
    PROVE  /\ b + 1 \in 0 .. (FRAMES * PAGE - 1) /\ sz[b] \in 0 .. (FRAMES * PAGE)
           /\ (b + 1) .. (b + 1 + sz[b] - 1) \subseteq 0 .. (FRAMES * PAGE - 1)
           /\ \A a \in A : ((b + 1) .. (b + 1 + sz[b] - 1))
                              \cap ((a + 1) .. (a + 1 + sz[a] - 1)) = {}
<1>1. b \in Nat /\ sz[b] \in Nat /\ b + sz[b] < FRAMES * PAGE BY DEF Apart
<1>2. FRAMES * PAGE \in Nat BY Sizes
<1>3. ASSUME NEW a \in A
      PROVE  ((b + 1) .. (b + 1 + sz[b] - 1)) \cap ((a + 1) .. (a + 1 + sz[a] - 1)) = {}
  <2>1. a \in Nat /\ sz[a] \in Nat /\ a # b BY DEF Apart
  <2>2. (a < b => a + sz[a] < b) /\ (b < a => b + sz[b] < a) BY DEF Apart
  <2> QED BY <1>1, <2>1, <2>2
<1> QED BY <1>1, <1>2, <1>3

(* One call is one step of the promise, or none. *)
LEMMA CallKeepsPromise ==
    ASSUME IInv, IInv', HeadersStay, CallerStep
    PROVE  [Promise!Next]_(Promise!vars)
<1> DEFINE owned == {Owned(b) : b \in allocated}
           later == {Owned(b)' : b \in allocated'}
<1>1. \A b \in allocated : Owned(b)' = Owned(b) BY DEF HeadersStay, Owned
<1>2. CASE \E size \in SIZES : kernel = "up" /\ Grants(size)
  <2>1. PICK size \in SIZES : kernel = "up" /\ Grants(size) BY <1>2
  <2>2. CASE kernel' # "up" /\ allocated' = allocated
    <3>1. later = owned BY <1>1, <2>2, Zenon
    <3>2. Promise!Stop BY <2>1, <2>2, <3>1, Zenon DEF Promise!Stop
    <3> QED BY <3>2 DEF Promise!Next
  <2>3. CASE kernel' = "up" /\ \E b \in Unit \ allocated :
                allocated' = allocated \cup {b} /\ size <= block_size'[b]
    <3>1. PICK b \in Unit \ allocated :
             allocated' = allocated \cup {b} /\ size <= block_size'[b]
      BY <2>3
    <3> DEFINE p == Owned(b)'
    <3>2. later = owned \cup {p} BY <1>1, <3>1, Zenon
    <3>3. p.at = b + 1 /\ p.size = block_size'[b] /\ p = [at |-> b + 1, size |-> block_size'[b]]
      BY DEF Owned
    <3>4. Apart(allocated \cup {b}, block_size')
      <4>1. Heap' \in HeapT /\ Heap'.size = block_size' BY TypeFactsPrimed, Zenon DEF IInv, Heap
      <4>2. Sound(Heap', allocated', used') BY Zenon DEF IInv
      <4>3. Apart(allocated', Heap'.size) BY <4>1, <4>2, CallersApart
      <4> QED BY <4>1, <4>3, <3>1
    <3>5. size \in Nat \ {0} BY SizesAssumption
    <3>6. /\ b + 1 \in 0 .. (FRAMES * PAGE - 1) /\ block_size'[b] \in 0 .. (FRAMES * PAGE)
          /\ (b + 1) .. (b + 1 + block_size'[b] - 1) \subseteq 0 .. (FRAMES * PAGE - 1)
          /\ \A a \in allocated : ((b + 1) .. (b + 1 + block_size'[b] - 1))
                \cap ((a + 1) .. (a + 1 + block_size'[a] - 1)) = {}
      BY ONLY <3>1, <3>4, <3>5, NewPiece
    <3>7. p \in Promise!Piece BY <3>3, <3>6 DEF Promise!Piece
    <3>8. Promise!Units(p) = (b + 1) .. (b + 1 + block_size'[b] - 1)
      BY <3>3 DEF Promise!Units
    <3>9. ASSUME NEW q \in owned PROVE Promise!Units(p) \cap Promise!Units(q) = {}
      <4>1. PICK a \in allocated : q = Owned(a) BY <3>9
      <4>2. Promise!Units(q) = (a + 1) .. (a + 1 + block_size'[a] - 1)
        BY <4>1 DEF Promise!Units, Owned, HeadersStay
      <4> QED BY <3>6, <3>8, <4>2
    <3>10. p.size >= size
      <4>1. block_size'[b] \in Int BY <3>6, Sizes
      <4> QED BY <3>1, <3>3, <3>5, <4>1
    <3>11. Promise!Units(p) \subseteq 0 .. (FRAMES * PAGE - 1) BY <3>6, <3>8
    <3> HIDE DEF p
    <3>12. p \in later BY <3>2
    <3>13. Promise!Allocate(size)
      BY <2>1, <2>3, <3>2, <3>7, <3>9, <3>10, <3>11, <3>12, Zenon DEF Promise!Allocate
    <3> QED BY <2>1, <3>13 DEF Promise!Next
  <2> QED BY <2>1, <2>2, <2>3 DEF Grants
<1>3. CASE \E b \in allocated : kernel = "up" /\ Drops(b)
  <2>1. PICK b \in allocated : kernel = "up" /\ Drops(b) BY <1>3
  <2>2. kernel' = "up" /\ allocated' = allocated \ {b} BY <2>1 DEF Drops
  <2>3. \A a \in allocated : a # b => Owned(a) # Owned(b)
    <3>1. \A a \in allocated : a \in Nat BY Sizes, Zenon DEF IInv, TypeOK
    <3> QED BY <3>1 DEF Owned
  <2>4. later = owned \ {Owned(b)} BY <1>1, <2>2, <2>3, Zenon
  <2>5. Promise!Release(Owned(b)) BY <2>1, <2>2, <2>4, Zenon DEF Promise!Release
  <2> QED BY <2>1, <2>5, Zenon DEF Promise!Next
<1>4. CASE allocated' = allocated /\ kernel' = kernel
  <2>1. later = owned BY <1>1, <1>4, Zenon
  <2> QED BY <1>4, <2>1, Zenon DEF Promise!vars
<1> QED BY <1>2, <1>3, <1>4 DEF CallerStep

(* The free lists, the splitting and the whole pages of heap.c together     *)
(* keep the promise of kmalloc and kfree: a caller owns as much as it asked *)
(* for, no two own the same memory, and only its owner's kfree ends that.   *)
THEOREM HeapIsAllocator == Spec => ImplementsAllocator
<1>1. Init => Promise!Init BY Zenon DEF Init, Promise!Init
<1>2. IInv /\ IInv' /\ [Next]_vars => [Promise!Next]_(Promise!vars)
  BY NextPreserves, CallKeepsPromise
<1> QED BY <1>1, <1>2, Invariance, PTL DEF Spec, ImplementsAllocator, Promise!Spec

=============================================================================
