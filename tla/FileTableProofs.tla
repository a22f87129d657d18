--------------------------- MODULE FileTableProofs ---------------------------
(***************************************************************************)
(* The reference counts of FileTable are exact for any number of processes,*)
(* files and descriptors, and files live exactly as long as they are used. *)
(***************************************************************************)
EXTENDS FileTable, FiniteSetTheorems, TLAPS

(* What the search for a descriptor, which starts at the lowest, stops at.  *)
LEMMA MinIsLeast ==
    ASSUME NEW S, S \subseteq Nat, S # {}
    PROVE  Min(S) \in S /\ \A k \in S : Min(S) <= k
<1> DEFINE R == OpToRel(<, Nat)
<1>1. PICK m \in S : \A k \in S : <<k, m>> \notin R
  <2>1. IsWellFoundedOn(R, Nat) BY NatLessThanWellFounded
  <2> HIDE DEF R
  <2> QED BY <2>1, WFMin
<1>2. \A k \in S : ~ (k < m) BY <1>1 DEF OpToRel
<1>3. \A k \in S : m <= k BY <1>2
<1> QED BY <1>3 DEF Min

(* What is known of one file.  The terminal of init starts with one count   *)
(* for three descriptors, so it is freed while two descriptors still lead   *)
(* to it; every other file is freed with its last descriptor.               *)
FileExact(f) ==
    IF f = Tty
    THEN /\ f \notin leaked
         /\ kind[f] = "free" => ref[f] = 0
         /\ kind[f] # "free" => ref[f] >= 1 /\ Cardinality(Users(f)) = ref[f] + 2
    ELSE /\ ref[f] = Cardinality(Users(f)) + (IF f \in leaked THEN 1 ELSE 0)
         /\ kind[f] = "free" <=> ref[f] = 0
         /\ f \in leaked => Cardinality(Users(f)) = 0

Types ==
    /\ alive  \in SUBSET Procs
    /\ fds    \in [Procs -> [Fd -> Files \cup {NULL}]]
    /\ kind   \in [Files -> Kinds]
    /\ ref    \in [Files -> Nat]
    /\ pos    \in [Files -> Nat]
    /\ leaked \in SUBSET Files
    /\ kernel \in {"up", "panic", "corrupt"}

(* pm_exit leaves a process no descriptor. *)
DeadHoldNothing == \A p \in Procs \ alive : \A i \in Fd : fds[p][i] = NULL

(* The inductive invariant. *)
IInv ==
    /\ Types /\ DeadHoldNothing /\ PositionInFile
    /\ \A f \in Files : FileExact(f)
    /\ kernel = "up" => kind[Tty] # "free"

-----------------------------------------------------------------------------
(* A set of descriptors is finite, and no larger than all there are. *)
LEMMA DescriptorSets ==
    ASSUME NEW S \in SUBSET (Procs \X Fd)
    PROVE  /\ IsFiniteSet(S) /\ Cardinality(S) \in Nat
           /\ Cardinality(S) <= Cardinality(Procs) * MAX_FDS
<1>1. IsFiniteSet(Fd) /\ Cardinality(Fd) = MAX_FDS
  <2>1. 0 \in Int /\ MAX_FDS - 1 \in Int /\ MAX_FDS \in Int /\ ~ (0 > MAX_FDS - 1)
    BY FdsAssumption
  <2>2. IsFiniteSet(Fd) /\ Cardinality(Fd) = IF 0 > MAX_FDS - 1 THEN 0 ELSE MAX_FDS - 1 - 0 + 1
    BY <2>1, FS_Interval DEF Fd
  <2> QED BY <2>1, <2>2
<1>2. /\ IsFiniteSet(Procs \X Fd)
      /\ Cardinality(Procs \X Fd) = Cardinality(Procs) * MAX_FDS
  BY <1>1, ProcsAssumption, FS_Product
<1>3. IsFiniteSet(S) /\ Cardinality(S) <= Cardinality(Procs \X Fd) BY <1>2, FS_Subset
<1> QED BY <1>2, <1>3, FS_CardinalityType

(* The descriptors that lead to f, before and after a step. *)
LEMMA UsersFacts ==
    ASSUME NEW f
    PROVE  /\ IsFiniteSet(Users(f)) /\ Cardinality(Users(f)) \in Nat
           /\ Cardinality(Users(f)) <= Cardinality(Procs) * MAX_FDS
           /\ IsFiniteSet(Users(f)') /\ Cardinality(Users(f)') \in Nat
           /\ Cardinality(Users(f)') <= Cardinality(Procs) * MAX_FDS
           /\ Cardinality(Users(f)) = 0 <=> Users(f) = {}
           /\ Cardinality(Users(f)') = 0 <=> Users(f)' = {}
<1>1. Users(f) \in SUBSET (Procs \X Fd) /\ Users(f)' \in SUBSET (Procs \X Fd)
  BY DEF Users
<1> QED BY <1>1, DescriptorSets, FS_EmptySet

(* Descriptor i of p becomes g, and no other one changes. *)
StoreFd(p, i, g) ==
    /\ fds' \in [Procs -> [Fd -> Files \cup {NULL}]]
    /\ \A q \in Procs, j \in Fd : fds'[q][j] = IF q = p /\ j = i THEN g ELSE fds[q][j]

(* Storing g in one descriptor moves one user from the file that was there  *)
(* to g.                                                                    *)
LEMMA SetFd ==
    ASSUME NEW p \in Procs, NEW i \in Fd, NEW g, StoreFd(p, i, g)
    PROVE  \A x \in Files : Cardinality(Users(x)') =
                 Cardinality(Users(x)) - (IF x = fds[p][i] THEN 1 ELSE 0)
                                       + (IF x = g THEN 1 ELSE 0)
<1>1. ASSUME NEW x \in Files
      PROVE  Cardinality(Users(x)') =
                 Cardinality(Users(x)) - (IF x = fds[p][i] THEN 1 ELSE 0)
                                       + (IF x = g THEN 1 ELSE 0)
  <2> DEFINE U == Users(x)
             d == <<p, i>>
             W == Users(x)'
  <2>1. d \in U <=> x = fds[p][i] BY DEF Users
  <2>2. IsFiniteSet(U) /\ Cardinality(U) \in Nat BY UsersFacts
  <2>3. W = IF x = g THEN (U \ {d}) \cup {d} ELSE U \ {d}
    <3>1. ASSUME NEW y \in Procs \X Fd
          PROVE  y \in W <=> IF y = d THEN x = g ELSE y \in U
      <4>1. PICK q \in Procs, j \in Fd : y = <<q, j>> OBVIOUS
      <4>2. y \in W <=> fds'[q][j] = x BY <4>1 DEF Users
      <4>3. y \in U <=> fds[q][j] = x BY <4>1 DEF Users
      <4>4. y = d <=> q = p /\ j = i BY <4>1
      <4> QED BY <4>2, <4>3, <4>4 DEF StoreFd
    <3>2. W \subseteq Procs \X Fd /\ U \subseteq Procs \X Fd /\ d \in Procs \X Fd
      BY DEF Users
    <3> HIDE DEF U, d, W
    <3> QED BY <3>1, <3>2
  <2> HIDE DEF U, d, W
  <2>4. /\ IsFiniteSet(U \ {d})
        /\ Cardinality(U \ {d}) = IF d \in U THEN Cardinality(U) - 1 ELSE Cardinality(U)
    BY <2>2, FS_RemoveElement
  <2>5. Cardinality((U \ {d}) \cup {d}) = Cardinality(U \ {d}) + 1
    <3>1. d \notin U \ {d} OBVIOUS
    <3> QED BY <2>4, <3>1, FS_AddElement
  <2>6. Cardinality(W) = Cardinality(U) - (IF x = fds[p][i] THEN 1 ELSE 0)
                                        + (IF x = g THEN 1 ELSE 0)
    BY <2>1, <2>2, <2>3, <2>4, <2>5
  <2> QED BY <2>6 DEF U, W
<1> QED BY <1>1

(* The descriptors of one process that lead to f, counted as pairs. *)
LEMMA RowCount ==
    ASSUME NEW p \in Procs, NEW S \in SUBSET Fd
    PROVE  /\ {p} \X S \in SUBSET (Procs \X Fd)
           /\ IsFiniteSet(S) /\ Cardinality(S) \in Nat
           /\ IsFiniteSet({p} \X S) /\ Cardinality({p} \X S) = Cardinality(S)
<1>1. IsFiniteSet(Fd) BY FdsAssumption, FS_Interval DEF Fd
<1>2. IsFiniteSet(S) /\ Cardinality(S) \in Nat BY <1>1, FS_Subset, FS_CardinalityType
<1>3. IsFiniteSet({p}) /\ Cardinality({p}) = 1 BY FS_Singleton
<1>4. IsFiniteSet({p} \X S) /\ Cardinality({p} \X S) = 1 * Cardinality(S)
  BY <1>2, <1>3, FS_Product
<1> QED BY <1>2, <1>4

-----------------------------------------------------------------------------
(* vfs_close, as often as descriptors go away: the count stays exact, the   *)
(* last close frees, and only the terminal can be freed too early, which    *)
(* Settle then reports.                                                     *)
LEMMA ClosePreserves ==
    ASSUME IInv, kernel = "up", NEW n \in [Files -> Nat], CloseAll(n), Settle(n),
           fds' \in [Procs -> [Fd -> Files \cup {NULL}]], alive' \in SUBSET Procs,
           DeadHoldNothing', leaked' = leaked,
           \A f \in Files : /\ n[f] <= Cardinality(Users(f))
                            /\ Cardinality(Users(f)') = Cardinality(Users(f)) - n[f]
    PROVE  IInv'
<1>1. Types /\ PositionInFile BY DEF IInv
<1> DEFINE freed(f) == n[f] > 0 /\ n[f] >= ref[f]
<1>2. \A f \in Files : /\ ref'[f] = IF n[f] < ref[f] THEN ref[f] - n[f] ELSE 0
                       /\ kind'[f] = IF freed(f) THEN "free" ELSE kind[f]
                       /\ pos'[f] = IF freed(f) THEN 0 ELSE pos[f]
  BY DEF CloseAll
<1>3. kernel' \in {"up", "corrupt"} BY DEF Settle
<1>4. Types'
  <2>1. /\ ref' = [f \in Files |-> IF n[f] < ref[f] THEN ref[f] - n[f] ELSE 0]
        /\ kind' = [f \in Files |-> IF freed(f) THEN "free" ELSE kind[f]]
        /\ pos'  = [f \in Files |-> IF freed(f) THEN 0 ELSE pos[f]]
    BY DEF CloseAll
  <2>2. ref' \in [Files -> Nat] BY <1>1, <2>1 DEF Types
  <2>3. kind' \in [Files -> Kinds] BY <1>1, <2>1 DEF Types, Kinds
  <2>4. pos' \in [Files -> Nat] BY <1>1, <2>1 DEF Types
  <2> QED BY <1>1, <1>3, <2>2, <2>3, <2>4 DEF Types
<1>5. PositionInFile' BY <1>1, <1>2, SizeAssumption DEF PositionInFile
<1>6. ASSUME NEW f \in Files PROVE FileExact(f)'
  <2>1. FileExact(f) BY DEF IInv
  <2>2. /\ Cardinality(Users(f)) \in Nat /\ Cardinality(Users(f)') \in Nat /\ n[f] \in Nat
        /\ ref[f] \in Nat
    BY <1>1, UsersFacts DEF Types
  <2>3. CASE f = Tty
    <3>1. kind[f] # "free" BY <2>3 DEF IInv
    <3> QED BY <1>2, <2>1, <2>2, <2>3, <3>1 DEF FileExact
  <2>4. CASE f # Tty
    BY <1>2, <2>1, <2>2, <2>4 DEF FileExact
  <2> QED BY <2>3, <2>4
<1>7. kernel' = "up" => kind'[Tty] # "free"
  <2> SUFFICES ASSUME kind'[Tty] = "free" PROVE kernel' = "corrupt"
    OBVIOUS
  <2>1. /\ Tty \in Files /\ Tty # NULL /\ kind[Tty] # "free" /\ FileExact(Tty)
    BY FilesAssumption DEF IInv
  <2>2. ref[Tty] \in Nat /\ n[Tty] \in Nat BY <1>1, <2>1 DEF Types
  <2>3. Cardinality(Users(Tty)) = ref[Tty] + 2 /\ n[Tty] >= ref[Tty]
    BY <1>2, <2>1 DEF FileExact
  <2>4. CASE n[Tty] > ref[Tty] BY <2>1, <2>4 DEF Settle
  <2>5. CASE n[Tty] = ref[Tty]
    <3>1. Cardinality(Users(Tty)') = 2 BY <2>1, <2>2, <2>3, <2>5
    <3>2. Users(Tty)' # {} BY <3>1, UsersFacts
    <3>3. PICK x \in Procs \X Fd : fds'[x[1]][x[2]] = Tty BY <3>2 DEF Users
    <3>4. x[1] \in Procs /\ x[2] \in Fd BY <3>3
    <3>5. \E q \in Procs, i \in Fd : fds'[q][i] # NULL /\ kind'[fds'[q][i]] = "free"
      BY <2>1, <3>3, <3>4
    <3> QED BY <3>5 DEF Settle
  <2> QED BY <2>2, <2>3, <2>4, <2>5
<1> QED BY <1>4, <1>5, <1>6, <1>7 DEF IInv

(* open: the new file gets one count, for its descriptor or as a leak. *)
LEMMA OpenPreserves ==
    ASSUME IInv, NEW p \in Procs, NEW f \in Files, NEW k \in Kinds \ {"free"}, Open(p, f, k)
    PROVE  IInv'
<1>1. Types /\ PositionInFile /\ DeadHoldNothing /\ kernel = "up" /\ p \in alive
  BY DEF IInv, Open
<1>2. /\ kind[f] = "free" /\ kind' = [kind EXCEPT ![f] = k] /\ ref' = [ref EXCEPT ![f] = 1]
      /\ UNCHANGED <<alive, pos, kernel>>
  BY DEF Open
<1>3. f # Tty BY <1>1, <1>2 DEF IInv
<1>4. f \notin leaked /\ Cardinality(Users(f)) = 0
  <2>1. ref[f] = 0 /\ FileExact(f) BY <1>2, <1>3 DEF IInv, FileExact
  <2>2. Cardinality(Users(f)) \in Nat BY UsersFacts
  <2> QED BY <1>3, <2>1, <2>2 DEF FileExact
<1>5. kind' \in [Files -> Kinds] /\ ref' \in [Files -> Nat] /\ PositionInFile'
  BY <1>1, <1>2 DEF Types, PositionInFile
<1>6. \A x \in Files : /\ kind'[x] = IF x = f THEN k ELSE kind[x]
                       /\ ref'[x] = IF x = f THEN 1 ELSE ref[x]
  BY <1>1, <1>2 DEF Types
<1>7. CASE FreeFds(p) = {}
  <2>1. leaked' = leaked \cup {f} /\ fds' = fds BY <1>7 DEF Open
  <2>2. Types' /\ DeadHoldNothing'
    BY <1>1, <1>2, <1>5, <2>1 DEF Types, DeadHoldNothing
  <2>3. ASSUME NEW x \in Files PROVE FileExact(x)'
    <3>1. Users(x)' = Users(x) BY <2>1 DEF Users
    <3>2. FileExact(x) BY DEF IInv
    <3> QED BY <1>3, <1>4, <1>6, <2>1, <3>1, <3>2 DEF FileExact
  <2>4. kind'[Tty] # "free" BY <1>1, <1>3, <1>6, FilesAssumption DEF IInv
  <2> QED BY <1>5, <2>2, <2>3, <2>4 DEF IInv
<1>8. CASE FreeFds(p) # {}
  <2> DEFINE i == Min(FreeFds(p))
  <2>1. i \in Fd /\ fds[p][i] = NULL
    <3>1. FreeFds(p) \subseteq Nat BY FdsAssumption DEF FreeFds, Fd
    <3>2. i \in FreeFds(p) BY <1>8, <3>1, MinIsLeast
    <3> QED BY <3>2 DEF FreeFds
  <2>2. leaked' = leaked /\ fds' = [fds EXCEPT ![p][i] = f] BY <1>8 DEF Open
  <2> HIDE DEF i
  <2>3. /\ StoreFd(p, i, f)
        /\ \A x \in Files : Cardinality(Users(x)') =
                 Cardinality(Users(x)) - (IF x = fds[p][i] THEN 1 ELSE 0)
                                       + (IF x = f THEN 1 ELSE 0)
    <3>1. StoreFd(p, i, f) BY <1>1, <2>1, <2>2 DEF Types, StoreFd
    <3> QED BY <2>1, <3>1, SetFd
  <2>4. Types' BY <1>1, <1>2, <1>5, <2>2, <2>3 DEF Types, StoreFd
  <2>5. DeadHoldNothing' BY <1>1, <1>2, <2>3 DEF DeadHoldNothing, StoreFd
  <2>6. ASSUME NEW x \in Files PROVE FileExact(x)'
    <3>1. Cardinality(Users(x)') = Cardinality(Users(x)) + (IF x = f THEN 1 ELSE 0)
      BY <2>1, <2>3, FilesAssumption, UsersFacts
    <3>2. FileExact(x) /\ Cardinality(Users(x)) \in Nat BY UsersFacts DEF IInv
    <3> QED BY <1>3, <1>4, <1>6, <2>2, <3>1, <3>2 DEF FileExact
  <2>7. kind'[Tty] # "free" BY <1>1, <1>3, <1>6, FilesAssumption DEF IInv
  <2> QED BY <1>5, <2>4, <2>5, <2>6, <2>7 DEF IInv
<1> QED BY <1>7, <1>8

(* close drops one descriptor. *)
LEMMA CloseOnePreserves ==
    ASSUME IInv, NEW p \in Procs, NEW i \in Fd, Close(p, i)
    PROVE  IInv'
<1> DEFINE f == fds[p][i]
           n == Once(f)
<1>1. Types /\ DeadHoldNothing /\ kernel = "up" /\ p \in alive /\ f # NULL /\ f \in Files
  BY DEF IInv, Close, Calls, Types
<1>2. /\ CloseAll(n) /\ Settle(n) /\ fds' = [fds EXCEPT ![p][i] = NULL]
      /\ alive' = alive /\ leaked' = leaked
  BY DEF Close
<1>3. n \in [Files -> Nat] /\ \A x \in Files : n[x] = IF x = f THEN 1 ELSE 0
  BY DEF Once
<1> HIDE DEF n
<1>4. /\ StoreFd(p, i, NULL)
      /\ \A x \in Files : Cardinality(Users(x)') =
               Cardinality(Users(x)) - (IF x = f THEN 1 ELSE 0) + (IF x = NULL THEN 1 ELSE 0)
  <2>1. StoreFd(p, i, NULL) BY <1>1, <1>2 DEF Types, StoreFd
  <2> QED BY <2>1, SetFd
<1>5. DeadHoldNothing' /\ fds' \in [Procs -> [Fd -> Files \cup {NULL}]]
  BY <1>1, <1>2, <1>4 DEF DeadHoldNothing, StoreFd
<1>6. ASSUME NEW x \in Files
      PROVE  /\ n[x] <= Cardinality(Users(x))
             /\ Cardinality(Users(x)') = Cardinality(Users(x)) - n[x]
  <2>1. Cardinality(Users(x)) \in Nat /\ (Cardinality(Users(x)) = 0 <=> Users(x) = {})
    BY UsersFacts
  <2>2. x = f => <<p, i>> \in Users(x) BY DEF Users
  <2>3. x # NULL BY FilesAssumption
  <2> QED BY <1>3, <1>4, <2>1, <2>2, <2>3
<1>7. alive' \in SUBSET Procs BY <1>1, <1>2 DEF Types
<1> QED BY <1>1, <1>2, <1>3, <1>4, <1>5, <1>6, <1>7, ClosePreserves

(* dup counts the new descriptor. *)
LEMMA DupPreserves ==
    ASSUME IInv, NEW p \in Procs, NEW j \in Fd, Dup(p, j)
    PROVE  IInv'
<1> DEFINE f == fds[p][j]
           i == Min(FreeFds(p))
<1>1. /\ Types /\ PositionInFile /\ DeadHoldNothing /\ kernel = "up" /\ p \in alive
      /\ f \in Files
  BY DEF IInv, Dup, Calls, Types
<1>2. i \in Fd /\ fds[p][i] = NULL
  <2>1. FreeFds(p) \subseteq Nat BY FdsAssumption DEF FreeFds, Fd
  <2>2. i \in FreeFds(p) BY <2>1, MinIsLeast DEF Dup
  <2> QED BY <2>2 DEF FreeFds
<1>3. /\ fds' = [fds EXCEPT ![p][i] = f] /\ ref' = [ref EXCEPT ![f] = @ + 1]
      /\ UNCHANGED <<alive, kind, pos, leaked, kernel>>
  BY DEF Dup
<1> HIDE DEF i, f
<1>4. /\ StoreFd(p, i, f)
      /\ \A x \in Files : Cardinality(Users(x)') =
               Cardinality(Users(x)) - (IF x = fds[p][i] THEN 1 ELSE 0)
                                     + (IF x = f THEN 1 ELSE 0)
  <2>1. StoreFd(p, i, f) BY <1>1, <1>2, <1>3 DEF Types, StoreFd
  <2> QED BY <1>2, <2>1, SetFd
<1>5. \A x \in Files : ref'[x] = IF x = f THEN ref[x] + 1 ELSE ref[x]
  BY <1>1, <1>3 DEF Types
<1>6. Types'
  <2>1. ref' \in [Files -> Nat] BY <1>1, <1>3 DEF Types
  <2> QED BY <1>1, <1>3, <1>4, <2>1 DEF Types, StoreFd
<1>7. DeadHoldNothing' /\ PositionInFile'
  BY <1>1, <1>3, <1>4 DEF DeadHoldNothing, PositionInFile, StoreFd
<1>8. ASSUME NEW x \in Files PROVE FileExact(x)'
  <2>1. Cardinality(Users(x)') = Cardinality(Users(x)) + (IF x = f THEN 1 ELSE 0)
    BY <1>2, <1>4, FilesAssumption, UsersFacts
  <2>2. FileExact(x) /\ Cardinality(Users(x)) \in Nat /\ ref[x] \in Nat
    BY <1>1, UsersFacts DEF IInv, Types
  <2>3. x = f => Cardinality(Users(x)) # 0
    <3>1. <<p, j>> \in Users(f) BY DEF Users, f
    <3> QED BY <3>1, UsersFacts
  <2>4. x = Tty => kind[x] # "free" BY <1>1 DEF IInv
  <2> QED BY <1>3, <1>5, <2>1, <2>2, <2>3, <2>4 DEF FileExact
<1> QED BY <1>1, <1>3, <1>6, <1>7, <1>8 DEF IInv

(* dup2 closes what newfd held before it counts oldfd again.  Between two   *)
(* descriptors of the same file the count only dips to zero for the         *)
(* terminal, whose count is two short.                                      *)
LEMMA Dup2Preserves ==
    ASSUME IInv, NEW p \in Procs, NEW i \in Fd, NEW j \in Fd, Dup2(p, i, j)
    PROVE  IInv'
<1> DEFINE f == fds[p][i]
           g == fds[p][j]
<1>1. /\ Types /\ PositionInFile /\ DeadHoldNothing /\ kernel = "up" /\ p \in alive /\ i # j
      /\ f \in Files /\ f # NULL /\ g \in Files \cup {NULL}
  BY DEF IInv, Dup2, Calls, Types
<1>2. /\ fds' = [fds EXCEPT ![p][j] = f] /\ alive' = alive /\ leaked' = leaked
  BY DEF Dup2
<1>3. /\ StoreFd(p, j, f)
      /\ \A x \in Files : Cardinality(Users(x)') =
               Cardinality(Users(x)) - (IF x = g THEN 1 ELSE 0) + (IF x = f THEN 1 ELSE 0)
  <2>1. StoreFd(p, j, f) BY <1>1, <1>2 DEF Types, StoreFd
  <2> HIDE DEF f
  <2> QED BY <2>1, SetFd
<1>4. /\ fds' \in [Procs -> [Fd -> Files \cup {NULL}]] /\ DeadHoldNothing'
      /\ alive' \in SUBSET Procs
  BY <1>1, <1>2, <1>3 DEF DeadHoldNothing, StoreFd, Types
<1>5. <<p, i>> \in Users(f) /\ <<p, j>> \in Users(g) /\ <<p, i>> # <<p, j>>
  BY <1>1 DEF Users
<1>6. fds'[p][i] = f BY <1>1, <1>3 DEF StoreFd
<1>7. \A x \in Files : /\ FileExact(x) /\ ref[x] \in Nat
                       /\ Cardinality(Users(x)) \in Nat
                       /\ x = Tty => kind[x] # "free"
  BY <1>1, UsersFacts DEF IInv, Types
<1> HIDE DEF f, g
<1>8. ASSUME g = f, ref[f] > 1, UNCHANGED <<kind, ref, pos, kernel>>
      PROVE  IInv'
  <2>1. Types' /\ PositionInFile' BY <1>1, <1>2, <1>4, <1>8 DEF Types, PositionInFile
  <2>2. \A x \in Files : FileExact(x)'
    BY <1>2, <1>3, <1>7, <1>8 DEF FileExact
  <2> QED BY <1>1, <1>4, <1>8, <2>1, <2>2 DEF IInv
<1>9. ASSUME g = f, ref[f] = 1, CloseAll(Once(f)), Settle(Once(f))
      PROVE  IInv'
  <2>1. f = Tty
    <3> SUFFICES ASSUME f # Tty PROVE FALSE
      OBVIOUS
    <3>1. Cardinality(Users(f)) <= 1 /\ IsFiniteSet(Users(f)) /\ Cardinality(Users(f)) \in Nat
      BY <1>1, <1>7, <1>9, UsersFacts DEF FileExact
    <3>2. \E x : Users(f) = {x}
      <4>1. Cardinality(Users(f)) # 0 BY <1>5, UsersFacts
      <4>2. Cardinality(Users(f)) = 1 BY <3>1, <4>1
      <4> QED BY <3>1, <4>2, FS_Singleton
    <3> QED BY <1>5, <1>9, <3>2
  <2>2. \A x \in Files : /\ ref'[x] = IF x = f THEN 0 ELSE ref[x]
                         /\ kind'[x] = IF x = f THEN "free" ELSE kind[x]
                         /\ pos'[x] = IF x = f THEN 0 ELSE pos[x]
    BY <1>7, <1>9 DEF CloseAll, Once
  <2>3. /\ ref' \in [Files -> Nat] /\ kind' \in [Files -> Kinds] /\ pos' \in [Files -> Nat]
    <3>1. /\ ref' = [x \in Files |-> ref'[x]] /\ kind' = [x \in Files |-> kind'[x]]
          /\ pos' = [x \in Files |-> pos'[x]]
      BY <1>9 DEF CloseAll
    <3> QED BY <1>1, <2>2, <3>1 DEF Types, Kinds
  <2>4. kernel' = "corrupt"
    <3>1. fds'[p][i] # NULL /\ kind'[fds'[p][i]] = "free" BY <1>1, <1>6, <2>2
    <3> QED BY <1>9, <3>1 DEF Settle
  <2>5. Types' BY <1>1, <1>2, <1>4, <2>3, <2>4 DEF Types
  <2>6. PositionInFile' BY <1>1, <2>2, SizeAssumption DEF PositionInFile
  <2>7. \A x \in Files : FileExact(x)'
    BY <1>2, <1>3, <1>7, <1>9, <2>1, <2>2 DEF FileExact
  <2> QED BY <1>4, <2>4, <2>5, <2>6, <2>7 DEF IInv
<1>10. ASSUME g # f,
              ref'  = [x \in Files |-> IF x = f THEN ref[f] + 1
                                      ELSE IF x = g THEN ref[g] - 1 ELSE ref[x]],
              kind' = [x \in Files |-> IF x = g /\ ref[g] = 1 THEN "free" ELSE kind[x]],
              pos'  = [x \in Files |-> IF x = g /\ ref[g] = 1 THEN 0 ELSE pos[x]],
              Settle([x \in Files |-> 0])
       PROVE  IInv'
  <2>1. \A x \in Files : /\ ref'[x] = IF x = f THEN ref[f] + 1
                                       ELSE IF x = g THEN ref[g] - 1 ELSE ref[x]
                         /\ kind'[x] = IF x = g /\ ref[g] = 1 THEN "free" ELSE kind[x]
                         /\ pos'[x] = IF x = g /\ ref[g] = 1 THEN 0 ELSE pos[x]
    BY <1>10
  <2>2. \A x \in Files : x \in {f, g} => Cardinality(Users(x)) # 0
    BY <1>5, UsersFacts
  <2>3. g \in Files => ref[g] >= 1
    BY <1>7, <2>2 DEF FileExact
  <2>4. /\ ref' \in [Files -> Nat] /\ kind' \in [Files -> Kinds] /\ pos' \in [Files -> Nat]
    <3>1. \A x \in Files : ref'[x] \in Nat /\ kind'[x] \in Kinds /\ pos'[x] \in Nat
      BY <1>1, <1>7, <2>1, <2>3 DEF Types, Kinds
    <3>2. /\ ref' = [x \in Files |-> ref'[x]] /\ kind' = [x \in Files |-> kind'[x]]
          /\ pos' = [x \in Files |-> pos'[x]]
      BY <1>10
    <3> QED BY <3>1, <3>2
  <2>5. kernel' \in {"up", "corrupt"} BY <1>10 DEF Settle
  <2>6. Types' BY <1>1, <1>2, <1>4, <2>4, <2>5 DEF Types
  <2>7. PositionInFile' BY <1>1, <2>1, SizeAssumption DEF PositionInFile
  <2>8. ASSUME NEW x \in Files PROVE FileExact(x)'
    <3>1. /\ FileExact(x) /\ ref[x] \in Nat /\ Cardinality(Users(x)) \in Nat
          /\ x = Tty => kind[x] # "free"
      BY <1>7
    <3>2. CASE x = f
      <4>1. ref'[x] = ref[x] + 1 /\ kind'[x] = kind[x] BY <1>10, <2>1, <3>2
      <4>2. Cardinality(Users(x)') = Cardinality(Users(x)) + 1 BY <1>3, <1>10, <3>1, <3>2
      <4> QED BY <1>2, <2>2, <3>1, <3>2, <4>1, <4>2 DEF FileExact
    <3>3. CASE x = g
      <4>1. /\ ref'[x] = ref[x] - 1 /\ ref[x] >= 1
            /\ kind'[x] = IF ref[x] = 1 THEN "free" ELSE kind[x]
        BY <1>10, <2>1, <2>3, <3>3
      <4>2. Cardinality(Users(x)') = Cardinality(Users(x)) - 1 BY <1>3, <1>10, <3>1, <3>3
      <4> QED BY <1>2, <2>2, <3>1, <3>3, <4>1, <4>2 DEF FileExact
    <3>4. CASE x # f /\ x # g
      <4>1. ref'[x] = ref[x] /\ kind'[x] = kind[x] BY <2>1, <3>4
      <4>2. Cardinality(Users(x)') = Cardinality(Users(x)) BY <1>3, <3>1, <3>4
      <4> QED BY <1>2, <3>1, <4>1, <4>2 DEF FileExact
    <3> QED BY <3>2, <3>3, <3>4
  <2>9. kernel' = "up" => kind'[Tty] # "free"
    <3> SUFFICES ASSUME kind'[Tty] = "free" PROVE kernel' = "corrupt"
      BY <2>5
    <3>1. Tty \in Files /\ Tty # NULL /\ kind[Tty] # "free" /\ ref[Tty] \in Nat
      BY <1>7, FilesAssumption
    <3>2. Tty = g /\ ref[Tty] = 1 BY <2>1, <3>1
    <3>3. Cardinality(Users(Tty)') = 2
      <4>1. Cardinality(Users(Tty)) = 3 BY <1>7, <3>1, <3>2 DEF FileExact
      <4> QED BY <1>3, <1>10, <3>1, <3>2, <4>1
    <3>4. Users(Tty)' # {} BY <3>3, UsersFacts
    <3>5. PICK x \in Procs \X Fd : fds'[x[1]][x[2]] = Tty BY <3>4 DEF Users
    <3>6. x[1] \in Procs /\ x[2] \in Fd BY <3>5
    <3>7. \E q \in Procs, k \in Fd : fds'[q][k] # NULL /\ kind'[fds'[q][k]] = "free"
      BY <3>1, <3>5, <3>6
    <3> QED BY <1>10, <3>7 DEF Settle
  <2> QED BY <1>4, <2>6, <2>7, <2>8, <2>9 DEF IInv
<1> QED BY <1>8, <1>9, <1>10 DEF Dup2, f, g

-----------------------------------------------------------------------------
(* read, lseek and write change the position or stop the machine. *)
LEMMA AccessPreserves ==
    ASSUME IInv, UNCHANGED <<alive, fds, kind, ref, leaked>>,
           kernel' \in {kernel, "panic", "corrupt"}, pos' \in [Files -> Nat], PositionInFile'
    PROVE  IInv'
<1>1. Types' BY DEF IInv, Types
<1>2. DeadHoldNothing' BY DEF IInv, DeadHoldNothing
<1>3. \A f \in Files : FileExact(f)'
  <2>1. \A f \in Files : Users(f)' = Users(f) BY DEF Users
  <2> QED BY <2>1 DEF IInv, FileExact
<1> QED BY <1>1, <1>2, <1>3 DEF IInv

(* A word below the modulus is its own remainder. *)
LEMMA NoWrap ==
    ASSUME NEW x \in Nat, x < WORD
    PROVE  x % WORD = x
BY WordAssumption

(* What vfs_read does to the position: the clamp ends at the end of the     *)
(* file, a sum that does not wrap stays before it, and a size for which it  *)
(* wraps is negative as an int64_t.                                         *)
LEMMA ReadFacts ==
    ASSUME Types, PositionInFile, NEW f \in Files, NEW n \in 0 .. (WORD - 1), vfs_read(f, n)
    PROVE  \E new \in 0 .. FILE_SIZE :
               pos' = [pos EXCEPT ![f] = new] /\ kernel' \in {"up", "corrupt"}
<1> DEFINE a == pos[f]
<1>1. /\ a \in Nat /\ a < FILE_SIZE /\ FILE_SIZE \in Nat /\ WORD \in Nat
      /\ 2 * FILE_SIZE < WORD /\ n \in Nat /\ n < WORD
  BY SizeAssumption, WordAssumption DEF Types, vfs_read
<1>2. ASSUME NEW bytes \in Nat, vfs_fat12_read(f, bytes),
             Signed(bytes) > 0 => a + bytes <= FILE_SIZE
      PROVE  \E new \in 0 .. FILE_SIZE :
                 pos' = [pos EXCEPT ![f] = new] /\ kernel' \in {"up", "corrupt"}
  <2> DEFINE new == IF Signed(bytes) > 0 THEN a + bytes ELSE a
  <2>1. new \in 0 .. FILE_SIZE BY <1>1, <1>2
  <2>2. pos' = [pos EXCEPT ![f] = new] BY <1>2 DEF vfs_fat12_read, Types
  <2>3. kernel' \in {"up", "corrupt"} BY <1>2 DEF vfs_fat12_read
  <2> HIDE DEF new
  <2> QED BY <2>1, <2>2, <2>3
<1>3. CASE (a + n) % WORD > FILE_SIZE
  <2>1. vfs_fat12_read(f, FILE_SIZE - a) BY <1>3 DEF vfs_read
  <2>2. FILE_SIZE - a \in Nat /\ a + (FILE_SIZE - a) <= FILE_SIZE BY <1>1
  <2> HIDE DEF a
  <2> QED BY <1>2, <2>1, <2>2
<1>4. CASE ~ ((a + n) % WORD > FILE_SIZE)
  <2>1. vfs_fat12_read(f, n) BY <1>4 DEF vfs_read
  <2> HIDE DEF a
  <2>2. ASSUME Signed(n) > 0 PROVE a + n <= FILE_SIZE
    <3>1. n < WORD \div 2 BY <1>1, <2>2 DEF Signed
    <3>2. a + n \in Nat /\ a + n < WORD BY <1>1, <3>1
    <3>3. (a + n) % WORD = a + n BY <3>2, NoWrap
    <3> QED BY <1>1, <1>4, <3>2, <3>3
  <2> QED BY <1>1, <1>2, <2>1, <2>2
<1> QED BY <1>3, <1>4

(* A read stops at the end of the file, a seek outside it is refused. *)
LEMMA MovePreserves ==
    ASSUME IInv, NEW f \in Files, NEW new \in 0 .. FILE_SIZE,
           pos' = [pos EXCEPT ![f] = new], kernel' \in {kernel, "corrupt"},
           UNCHANGED <<alive, fds, kind, ref, leaked>>
    PROVE  IInv'
<1>1. Types /\ PositionInFile BY DEF IInv
<1>2. pos' \in [Files -> Nat] BY <1>1, SizeAssumption DEF Types
<1>3. PositionInFile' BY <1>1, SizeAssumption DEF PositionInFile, Types
<1> QED BY <1>2, <1>3, AccessPreserves

(* fork shares every descriptor of the parent with the child. *)
LEMMA ForkPreserves ==
    ASSUME IInv, NEW p \in Procs, NEW c \in Procs, Fork(p, c)
    PROVE  IInv'
<1>1. /\ Types /\ PositionInFile /\ DeadHoldNothing /\ kernel = "up" /\ p \in alive
      /\ c \notin alive /\ p # c
  BY DEF IInv, Fork
<1>2. /\ alive' = alive \cup {c} /\ fds' = [fds EXCEPT ![c] = fds[p]]
      /\ ref' = [f \in Files |-> ref[f] + Count(p)[f]]
      /\ UNCHANGED <<kind, pos, leaked, kernel>>
  BY DEF Fork
<1>3. ASSUME NEW f \in Files
      PROVE  /\ Count(p)[f] \in Nat
             /\ Count(p)[f] # 0 => Cardinality(Users(f)) # 0
             /\ Cardinality(Users(f)') = Cardinality(Users(f)) + Count(p)[f]
  <2> DEFINE S == {i \in Fd : fds[p][i] = f}
             N == {c} \X S
             U == Users(f)
             W == Users(f)'
  <2>1. /\ IsFiniteSet(S) /\ Cardinality(S) \in Nat /\ IsFiniteSet(N)
        /\ Cardinality(N) = Cardinality(S)
    BY RowCount
  <2>2. Count(p)[f] = Cardinality(S) BY DEF Count
  <2>3. IsFiniteSet(U) /\ Cardinality(U) \in Nat BY UsersFacts
  <2>4. W = U \cup N /\ U \cap N = {}
    <3>1. ASSUME NEW y \in Procs \X Fd
          PROVE  /\ y \in W <=> y \in U \/ y \in N
                 /\ ~ (y \in U /\ y \in N)
      <4>1. PICK q \in Procs, i \in Fd : y = <<q, i>> OBVIOUS
      <4>2. y \in W <=> fds'[q][i] = f BY <4>1 DEF Users
      <4>3. y \in U <=> fds[q][i] = f BY <4>1 DEF Users
      <4>4. y \in N <=> q = c /\ fds[p][i] = f BY <4>1
      <4>5. fds'[q][i] = IF q = c THEN fds[p][i] ELSE fds[q][i]
        BY <1>1, <1>2 DEF Types
      <4>6. q = c => fds[q][i] = NULL BY <1>1 DEF DeadHoldNothing
      <4> QED BY <4>2, <4>3, <4>4, <4>5, <4>6, FilesAssumption
    <3>2. W \subseteq Procs \X Fd /\ U \subseteq Procs \X Fd /\ N \subseteq Procs \X Fd
      BY DEF Users
    <3> HIDE DEF U, W, N
    <3> QED BY <3>1, <3>2
  <2>5. Cardinality(S) # 0 => U # {}
    <3> SUFFICES ASSUME Cardinality(S) # 0 PROVE U # {}
      OBVIOUS
    <3>1. S # {} BY FS_EmptySet
    <3>2. PICK i \in Fd : fds[p][i] = f BY <3>1
    <3>3. <<p, i>> \in U BY <3>2 DEF Users
    <3> QED BY <3>3
  <2>6. Cardinality(U \cup N) = Cardinality(U) + Cardinality(N) - Cardinality(U \cap N)
    BY <2>1, <2>3, FS_Union
  <2>7. Cardinality(U \cap N) = 0 BY <2>4, FS_EmptySet
  <2>8. Cardinality(U) = 0 <=> U = {} BY UsersFacts
  <2> HIDE DEF S, N
  <2> QED BY <2>1, <2>2, <2>3, <2>4, <2>5, <2>6, <2>7, <2>8
<1>4. \A f \in Files : ref'[f] = ref[f] + Count(p)[f] BY <1>2
<1>5. Types'
  <2>1. ref' \in [Files -> Nat] BY <1>1, <1>2, <1>3 DEF Types
  <2>2. fds' \in [Procs -> [Fd -> Files \cup {NULL}]] BY <1>1, <1>2 DEF Types
  <2> QED BY <1>1, <1>2, <2>1, <2>2 DEF Types
<1>6. DeadHoldNothing' BY <1>1, <1>2 DEF DeadHoldNothing, Types
<1>7. PositionInFile' BY <1>1, <1>2 DEF PositionInFile
<1>8. ASSUME NEW f \in Files PROVE FileExact(f)'
  <2>1. FileExact(f) /\ ref[f] \in Nat /\ Cardinality(Users(f)) \in Nat
    BY <1>1, UsersFacts DEF IInv, Types
  <2>2. f = Tty => kind[f] # "free" BY <1>1 DEF IInv
  <2> QED BY <1>2, <1>3, <1>4, <2>1, <2>2 DEF FileExact
<1> QED BY <1>1, <1>2, <1>5, <1>6, <1>7, <1>8 DEF IInv

(* exit closes every descriptor of the process. *)
LEMMA ExitPreserves ==
    ASSUME IInv, NEW p \in Procs, Exit(p)
    PROVE  IInv'
<1> DEFINE n == Count(p)
<1>1. Types /\ DeadHoldNothing /\ kernel = "up" BY DEF IInv, Exit
<1>2. /\ alive' = alive \ {p} /\ CloseAll(n) /\ Settle(n) /\ leaked' = leaked
      /\ fds' = [fds EXCEPT ![p] = [i \in Fd |-> NULL]]
  BY DEF Exit
<1>3. ASSUME NEW f \in Files
      PROVE  /\ n[f] \in Nat /\ n[f] <= Cardinality(Users(f))
             /\ Cardinality(Users(f)') = Cardinality(Users(f)) - n[f]
  <2> DEFINE S == {i \in Fd : fds[p][i] = f}
             N == {p} \X S
             U == Users(f)
             W == Users(f)'
  <2>1. /\ IsFiniteSet(S) /\ Cardinality(S) \in Nat /\ IsFiniteSet(N)
        /\ Cardinality(N) = Cardinality(S)
    BY RowCount
  <2>2. n[f] = Cardinality(S) BY DEF Count
  <2>3. IsFiniteSet(U) /\ Cardinality(U) \in Nat BY UsersFacts
  <2>4. W = U \ N /\ N \subseteq U
    <3>1. ASSUME NEW y \in Procs \X Fd
          PROVE  /\ y \in W <=> y \in U /\ y \notin N
                 /\ y \in N => y \in U
      <4>1. PICK q \in Procs, i \in Fd : y = <<q, i>> OBVIOUS
      <4>2. y \in W <=> fds'[q][i] = f BY <4>1 DEF Users
      <4>3. y \in U <=> fds[q][i] = f BY <4>1 DEF Users
      <4>4. y \in N <=> q = p /\ fds[p][i] = f BY <4>1
      <4>5. fds'[q][i] = IF q = p THEN NULL ELSE fds[q][i]
        BY <1>1, <1>2 DEF Types
      <4> QED BY <4>2, <4>3, <4>4, <4>5, FilesAssumption
    <3>2. W \subseteq Procs \X Fd /\ U \subseteq Procs \X Fd /\ N \subseteq Procs \X Fd
      BY DEF Users
    <3> HIDE DEF U, W, N
    <3> QED BY <3>1, <3>2
  <2>5. Cardinality(U \ N) = Cardinality(U) - Cardinality(U \cap N)
    BY <2>3, FS_Difference
  <2>6. U \cap N = N BY <2>4
  <2>7. Cardinality(N) <= Cardinality(U) BY <2>3, <2>4, FS_Subset
  <2> HIDE DEF S, N
  <2> QED BY <2>1, <2>2, <2>3, <2>4, <2>5, <2>6, <2>7
<1>4. n \in [Files -> Nat] BY <1>3 DEF Count
<1>5. fds' \in [Procs -> [Fd -> Files \cup {NULL}]] BY <1>1, <1>2 DEF Types
<1>6. DeadHoldNothing' BY <1>1, <1>2 DEF DeadHoldNothing, Types
<1>7. alive' \in SUBSET Procs BY <1>1, <1>2 DEF Types
<1> HIDE DEF n
<1> QED BY <1>1, <1>2, <1>3, <1>4, <1>5, <1>6, <1>7, ClosePreserves

-----------------------------------------------------------------------------
(* init starts with three descriptors for one count of the terminal. *)
LEMMA InitEstablishes == Init => IInv
<1> SUFFICES ASSUME Init PROVE IInv
  OBVIOUS
<1> USE ProcsAssumption, FilesAssumption, FdsAssumption, SizeAssumption
<1>1. Types BY DEF Init, Types, Kinds
<1>2. DeadHoldNothing /\ PositionInFile BY DEF Init, DeadHoldNothing, PositionInFile
<1>3. Cardinality(Users(Tty)) = 3
  <2> DEFINE S == 0 .. 2
  <2>1. S \in SUBSET Fd BY DEF Fd
  <2>2. Cardinality({InitProc} \X S) = Cardinality(S) BY <2>1, RowCount
  <2>3. Cardinality(S) = 3
    <3>1. 0 \in Int /\ 2 \in Int OBVIOUS
    <3>2. Cardinality(S) = IF 0 > 2 THEN 0 ELSE 2 - 0 + 1 BY <3>1, FS_Interval
    <3> QED BY <3>2
  <2>4. Users(Tty) = {InitProc} \X S
    <3>1. ASSUME NEW y \in Procs \X Fd PROVE y \in Users(Tty) <=> y \in {InitProc} \X S
      <4>1. PICK q \in Procs, i \in Fd : y = <<q, i>> OBVIOUS
      <4>2. y \in Users(Tty) <=> fds[q][i] = Tty BY <4>1 DEF Users
      <4>3. fds[q][i] = IF q = InitProc /\ i \in 0 .. 2 THEN Tty ELSE NULL BY DEF Init
      <4> QED BY <4>1, <4>2, <4>3
    <3>2. Users(Tty) \subseteq Procs \X Fd /\ {InitProc} \X S \subseteq Procs \X Fd
      BY <2>1 DEF Users
    <3> QED BY <3>1, <3>2
  <2> QED BY <2>2, <2>3, <2>4
<1>4. ASSUME NEW f \in Files PROVE FileExact(f)
  <2>1. CASE f = Tty BY <1>3, <2>1 DEF Init, FileExact
  <2>2. CASE f # Tty
    <3>1. Users(f) = {}
      <4> SUFFICES ASSUME NEW y \in Procs \X Fd, fds[y[1]][y[2]] = f PROVE FALSE
        BY DEF Users
      <4>1. y[1] \in Procs /\ y[2] \in Fd OBVIOUS
      <4>2. fds[y[1]][y[2]] \in {Tty, NULL} BY <4>1 DEF Init
      <4> QED BY <2>2, <4>2
    <3>2. Cardinality(Users(f)) = 0 BY <3>1, FS_EmptySet
    <3> QED BY <2>2, <3>2 DEF Init, FileExact
  <2> QED BY <2>1, <2>2
<1> QED BY <1>1, <1>2, <1>4 DEF Init, IInv

(* Every syscall keeps the invariant. *)
LEMMA NextPreserves == IInv /\ [Next]_vars => IInv'
<1> SUFFICES ASSUME IInv, [Next]_vars PROVE IInv'
  OBVIOUS
<1>1. Types /\ PositionInFile BY DEF IInv
<1>2. ASSUME NEW p \in Procs, NEW f \in Files, NEW k \in Kinds \ {"free"}, Open(p, f, k)
      PROVE  IInv'
  BY <1>2, OpenPreserves
<1>3. ASSUME NEW p \in Procs, NEW i \in Fd, Close(p, i) PROVE IInv'
  BY <1>3, CloseOnePreserves
<1>4. ASSUME NEW p \in Procs, NEW i \in Fd, Dup(p, i) PROVE IInv' BY <1>4, DupPreserves
<1>5. ASSUME NEW p \in Procs, NEW i \in Fd, NEW j \in Fd, Dup2(p, i, j) PROVE IInv'
  BY <1>5, Dup2Preserves
<1>6. ASSUME NEW p \in Procs, NEW i \in Fd, Write(p, i) PROVE IInv'
  <2>1. kernel' \in {kernel, "panic"} BY <1>6 DEF Write, Calls, vfs_write
  <2>2. pos' \in [Files -> Nat] /\ PositionInFile'
    BY <1>1, <1>6 DEF Write, PositionInFile, Types
  <2> QED BY <1>6, <2>1, <2>2, AccessPreserves DEF Write
<1>7. ASSUME NEW p \in Procs, NEW i \in Fd, NEW n \in COUNTS, Read(p, i, n)
      PROVE  IInv'
  <2> DEFINE f == fds[p][i]
  <2>1. /\ f \in Files /\ kernel = "up" /\ vfs_read(f, n)
        /\ UNCHANGED <<alive, fds, kind, ref, leaked>>
    BY <1>1, <1>7 DEF Read, Calls, Types
  <2> HIDE DEF f
  <2>2. n \in 0 .. (WORD - 1) BY RequestsAssumption
  <2>3. PICK new \in 0 .. FILE_SIZE :
            pos' = [pos EXCEPT ![f] = new] /\ kernel' \in {"up", "corrupt"}
    BY <2>1, <2>2, <1>1, ReadFacts
  <2> QED BY <2>1, <2>3, MovePreserves
<1>8. ASSUME NEW p \in Procs, NEW i \in Fd, NEW offset \in OFFSETS,
             NEW whence \in {"SET", "CUR", "END"}, Seek(p, i, offset, whence)
      PROVE  IInv'
  <2>1. fds[p][i] \in Files BY <1>1, <1>8 DEF Seek, Calls, Types
  <2>2. \E new \in 0 .. FILE_SIZE : pos' = [pos EXCEPT ![fds[p][i]] = new]
    BY <1>8 DEF Seek, vfs_seek
  <2> QED BY <1>8, <2>1, <2>2, MovePreserves DEF Seek
<1>9. ASSUME NEW p \in Procs, NEW c \in Procs, Fork(p, c) PROVE IInv' BY <1>9, ForkPreserves
<1>10. ASSUME NEW p \in Procs, Exit(p) PROVE IInv' BY <1>10, ExitPreserves
<1>11. CASE UNCHANGED vars
  <2>1. PositionInFile' BY <1>1, <1>11 DEF vars, PositionInFile
  <2> QED BY <1>1, <1>11, <2>1, AccessPreserves DEF vars, Types
<1> QED BY <1>2, <1>3, <1>4, <1>5, <1>6, <1>7, <1>8, <1>9, <1>10, <1>11 DEF Next

(* The open-file table keeps its invariant, in whatever order processes     *)
(* open, duplicate, inherit and close descriptors and exit.                 *)
THEOREM Invariance == Spec => []IInv
BY InitEstablishes, NextPreserves, PTL DEF Spec

(* Every variable keeps its type: file_ref_count never goes below zero, nor *)
(* beyond the number of descriptors there are.                              *)
THEOREM TypeCorrect == Spec => []TypeOK
<1>1. IInv => TypeOK
  <2> SUFFICES ASSUME IInv PROVE TypeOK
    OBVIOUS
  <2>1. Types BY DEF IInv
  <2>2. Cardinality(Procs) \in Nat /\ Cardinality(Procs) >= 1
    BY ProcsAssumption, FS_CardinalityType, FS_EmptySet
  <2>3. Cardinality(Procs) * MAX_FDS \in Nat /\ Cardinality(Procs) * MAX_FDS >= 1
    BY <2>2, FdsAssumption
  <2> DEFINE B == Cardinality(Procs) * MAX_FDS
  <2>4. \A f \in Files : ref[f] \in 0 .. B
    <3> SUFFICES ASSUME NEW f \in Files PROVE ref[f] \in 0 .. B
      OBVIOUS
    <3>1. FileExact(f) /\ ref[f] \in Nat /\ Cardinality(Users(f)) \in Nat
          /\ Cardinality(Users(f)) <= B
      BY <2>1, UsersFacts DEF IInv, Types
    <3> HIDE DEF B
    <3>2. B \in Nat /\ B >= 1 BY <2>3 DEF B
    <3> QED BY <3>1, <3>2 DEF FileExact
  <2> HIDE DEF B
  <2>5. ref \in [Files -> 0 .. B] BY <2>1, <2>4 DEF Types
  <2> QED BY <2>1, <2>5 DEF TypeOK, Types, B
<1> QED BY <1>1, Invariance, PTL

(* file_ref_count counts the descriptors that lead to the file. *)
THEOREM CountsExact == Spec => []RefCountExact
<1>1. IInv => RefCountExact
  <2> SUFFICES ASSUME IInv, kernel = "up", NEW f \in Live
               PROVE  ref[f] = Cardinality(Users(f)) + (IF f \in leaked THEN 1 ELSE 0)
                                       - (IF f = Tty THEN 2 ELSE 0)
    BY DEF RefCountExact
  <2>1. /\ f \in Files /\ kind[f] # "free" /\ FileExact(f) /\ ref[f] \in Nat
        /\ Cardinality(Users(f)) \in Nat
    BY UsersFacts DEF IInv, Types, Live
  <2> QED BY <2>1 DEF FileExact
<1> QED BY <1>1, Invariance, PTL

(* The memory of a file lives as long as a descriptor leads to it, the      *)
(* terminal of init excepted, and no longer.                                *)
THEOREM FilesLive == Spec => []LiveWhileUsed
<1>1. IInv => LiveWhileUsed
  <2> SUFFICES ASSUME IInv PROVE LiveWhileUsed
    OBVIOUS
  <2>1. \A f \in Files : /\ FileExact(f) /\ ref[f] \in Nat /\ Cardinality(Users(f)) \in Nat
                         /\ Cardinality(Users(f)) = 0 <=> Users(f) = {}
    BY UsersFacts DEF IInv, Types
  <2>2. DescriptorsLive BY <2>1 DEF DescriptorsLive, Live, FileExact
  <2>3. NoUnusedFile BY <2>1 DEF NoUnusedFile, Live, FileExact
  <2> QED BY <2>2, <2>3 DEF LiveWhileUsed
<1> QED BY <1>1, Invariance, PTL

(* The shared position stays inside the file, for reads of every size a    *)
(* uint64_t can hold, the ones for which the sum in vfs_read wraps included. *)
THEOREM PositionsInFile == Spec => []PositionInFile
<1>1. IInv => PositionInFile BY DEF IInv
<1> QED BY <1>1, Invariance, PTL

=============================================================================
