--------------------------- MODULE AlgorithmProofs ---------------------------
(***************************************************************************)
(* Sequential parts of the kernel, for inputs of every size: the page      *)
(* allocator on any bitmap and its start from any memory map, the linked   *)
(* queues of the scheduler behind any history, the consoles behind any     *)
(* text.                                                                   *)
(***************************************************************************)
EXTENDS MCKernelParts, KernelTheorems

-----------------------------------------------------------------------------
(* The start of the page allocator. *)

(* What the quotient of two lengths is below. *)
LEMMA QuotientBelow ==
    ASSUME NEW d \in Nat \ {0}, NEW u \in Nat, NEW c \in Nat
    PROVE  u \div d \in Nat /\ (u \div d < c <=> u < c * d)
<1> DEFINE q == u \div d
<1>1. q \in Nat /\ q * d <= u /\ u < q * d + d OBVIOUS
<1> HIDE DEF q
<1>2. \A a, b \in Nat : a <= b => a * d <= b * d OBVIOUS
<1>3. (q + 1) * d = q * d + d /\ q * d \in Nat /\ c * d \in Nat BY <1>1
<1>4. CASE q < c
  <2>1. (q + 1) * d <= c * d BY <1>1, <1>2, <1>4
  <2> QED BY <2>1, <1>1, <1>3, <1>4 DEF q
<1>5. CASE c <= q
  <2>1. c * d <= q * d BY <1>1, <1>2, <1>5
  <2> QED BY <2>1, <1>1, <1>3, <1>5 DEF q
<1> QED BY <1>1, <1>4, <1>5

(* A length in whole pages. *)
LEMMA WholeQuotient ==
    ASSUME NEW d \in Nat \ {0}, NEW u \in Nat, u % d = 0
    PROVE  u \div d \in Nat /\ (u \div d) * d = u
BY QuotientBelow

(* How many pieces of a size hold a number of smaller ones. *)
LEMMA RoundedUp ==
    ASSUME NEW d \in Nat \ {0}, NEW x \in Nat, NEW k \in Nat
    PROVE  /\ DIV_ROUND_UP(x, d) \in Nat
           /\ k < DIV_ROUND_UP(x, d) <=> k * d < x
<1>1. x + d - 1 \in Nat /\ k + 1 \in Nat OBVIOUS
<1> DEFINE q == (x + d - 1) \div d
<1>2. q \in Nat /\ (q < k + 1 <=> x + d - 1 < (k + 1) * d) BY <1>1, QuotientBelow
<1>3. (k + 1) * d = k * d + d /\ k * d \in Nat OBVIOUS
<1> HIDE DEF q
<1>4. k < q <=> k * d < x BY <1>2, <1>3
<1> QED BY <1>2, <1>4 DEF DIV_ROUND_UP, q

(* A bit has one place in the bitmap. *)
LEMMA BitPlace ==
    ASSUME NEW d \in Nat \ {0}, NEW x \in Nat, NEW y \in Nat,
           x \div d = y \div d, x % d = y % d
    PROVE  x = y
OBVIOUS

(* A bitmap of n bits in the bytes D. *)
BitmapOf(b, n, D) == b = [bit_count |-> n, bitmap |-> b.bitmap] /\ DOMAIN b.bitmap = D

(* Setting some bits changes those bits and no other. *)
LEMMA BitsSet ==
    ASSUME NEW b, NEW n, NEW D, BitmapOf(b, n, D),
           NEW bits, bits \subseteq Nat, NEW value \in BOOLEAN,
           NEW p \in Nat, p \div BITS_PER_BYTE \in D
    PROVE  /\ BitmapOf(bitmap_set_bit_value(b, bits, value), n, D)
           /\ bitmap_get_bit_value(bitmap_set_bit_value(b, bits, value), p)
                <=> IF p \in bits THEN value ELSE bitmap_get_bit_value(b, p)
<1> DEFINE bytes == b.bitmap
           c == bitmap_set_bit_value(b, bits, value)
           i == p \div BITS_PER_BYTE
           at(j) == {x % BITS_PER_BYTE : x \in {x \in bits : x \div BITS_PER_BYTE = j}}
           o == at(i)
           new == [j \in D |-> IF value THEN bytes[j] \cup at(j) ELSE bytes[j] \ at(j)]
           old(j) == IF value THEN b.bitmap[j] \cup at(j) ELSE b.bitmap[j] \ at(j)
<1>0. c = [bit_count |-> n, bitmap |-> new]
  <2>1. b = [bit_count |-> n, bitmap |-> bytes] /\ DOMAIN b.bitmap = D BY DEF BitmapOf
  <2>2. c = [b EXCEPT !.bitmap = [j \in DOMAIN b.bitmap |-> old(j)]]
    BY Zenon DEF bitmap_set_bit_value
  <2>3. c = [b EXCEPT !.bitmap = new]
    <3> HIDE DEF at
    <3> QED BY <2>1, <2>2, Zenon
  <2> HIDE DEF new, c, bytes
  <2> QED BY <2>1, <2>3
<1>1. /\ BitmapOf(c, n, D)
      /\ c.bitmap[i] = IF value THEN bytes[i] \cup o ELSE bytes[i] \ o
  <2>1. DOMAIN new = D /\ new[i] = IF value THEN bytes[i] \cup o ELSE bytes[i] \ o OBVIOUS
  <2> HIDE DEF new, o, c
  <2> QED BY <2>1, <1>0 DEF BitmapOf
<1>3. p % BITS_PER_BYTE \in o <=> p \in bits
  <2>1. ASSUME p % BITS_PER_BYTE \in o PROVE p \in bits
    <3>1. PICK x \in bits : x \div BITS_PER_BYTE = i /\ x % BITS_PER_BYTE = p % BITS_PER_BYTE
      BY <2>1
    <3>2. x = p BY <3>1, BytesAssumption, BitPlace
    <3> QED BY <3>1, <3>2
  <2>2. ASSUME p \in bits PROVE p % BITS_PER_BYTE \in o BY <2>2
  <2> QED BY <2>1, <2>2
<1> HIDE DEF c, o, i
<1>4. bitmap_get_bit_value(c, p) <=> IF p \in bits THEN value ELSE bitmap_get_bit_value(b, p)
  <2>1. bitmap_get_bit_value(c, p) <=> p % BITS_PER_BYTE \in c.bitmap[i]
    BY DEF bitmap_get_bit_value, i
  <2>2. bitmap_get_bit_value(b, p) <=> p % BITS_PER_BYTE \in bytes[i]
    BY DEF bitmap_get_bit_value, i
  <2> QED BY <2>1, <2>2, <1>1, <1>3
<1> QED BY <1>1, <1>4 DEF c

(* What is known of an entry of a memory map. *)
LEMMA EntryFacts ==
    ASSUME NEW e \in MapEntries
    PROVE  /\ e.base \in Nat /\ e.length \in Nat /\ MEMORY \in Nat
           /\ e.base + e.length <= MEMORY
           /\ e.type # "reserved" <=> e.type \in {"usable", "acpi", "bootloader"}
           /\ e.type = "usable" => e.base % PAGE_BYTES = 0 /\ e.length % PAGE_BYTES = 0
<1>1. PAGE_BYTES \in Nat /\ MEMORY \in Nat BY BytesAssumption, LengthsAssumption
<1>2. /\ e \in [base : PAGE_BYTES .. MEMORY, length : 1 .. MEMORY,
               type : {"usable", "bootloader", "acpi", "reserved"}]
      /\ e.base + e.length <= MEMORY
      /\ e.type \in {"usable", "bootloader"} =>
            e.base % PAGE_BYTES = 0 /\ e.length % PAGE_BYTES = 0
  BY Zenon DEF MapEntries
<1> QED BY <1>1, <1>2

(* A memory map is a sequence of entries. *)
LEMMA MapShape ==
    ASSUME NEW m \in MemoryMaps
    PROVE  DOMAIN m \subseteq Nat /\ \A i \in DOMAIN m : m[i] \in MapEntries
<1>1. PICK n \in 0 .. ENTRIES : m \in [1 .. n -> MapEntries] BY Zenon DEF MemoryMaps, MapsOf
<1>2. DOMAIN m = 1 .. n /\ \A i \in 1 .. n : m[i] \in MapEntries BY <1>1
<1> QED BY <1>2

(* The pages of an entry. *)
PagesOf(e) ==
    {p \in 0 .. MEMORY : e.base <= p * PAGE_BYTES /\ p * PAGE_BYTES < e.base + e.length}

(* mark_region_free marks the pages of its entry. *)
LEMMA RegionPages ==
    ASSUME NEW e \in MapEntries, e.type = "usable"
    PROVE  mark_region_free(e) = PagesOf(e)
<1> DEFINE P == PAGE_BYTES
           a == e.base \div P
           n == e.length \div P
<1>1. P \in Nat \ {0} BY BytesAssumption
<1>2. a \in Nat /\ a * P = e.base /\ n \in Nat /\ n * P = e.length
  BY <1>1, EntryFacts, WholeQuotient
<1>3. mark_region_free(e) = {a + i : i \in 0 .. (n - 1)} BY DEF mark_region_free
<1>4. e.base + e.length <= MEMORY /\ MEMORY \in Nat BY EntryFacts
<1> HIDE DEF P, a, n
<1>5. \A x, y \in Nat : x < y <=> x * P < y * P
  <2> SUFFICES ASSUME NEW x \in Nat, NEW y \in Nat PROVE x < y <=> x * P < y * P
    OBVIOUS
  <2>1. x * P \in Nat /\ y * P \in Nat BY <1>1
  <2>2. x < y => x * P < y * P BY <1>1
  <2>3. y <= x => y * P <= x * P BY <1>1
  <2> QED BY <2>1, <2>2, <2>3
<1>6. (a + n) * P = e.base + e.length BY <1>1, <1>2
<1>7. \A p \in Nat : p \in PagesOf(e) <=> p \in a .. (a + n - 1)
  <2> SUFFICES ASSUME NEW p \in Nat PROVE p \in PagesOf(e) <=> p \in a .. (a + n - 1)
    OBVIOUS
  <2> DEFINE w == p * P
             x == e.base
             y == e.length
  <2>1. p < a <=> w < x BY <1>2, <1>5
  <2>2. p < a + n <=> w < x + y BY <1>2, <1>5, <1>6
  <2>3. p <= w /\ w \in Nat BY <1>1
  <2>4. x \in Nat /\ y \in Nat /\ x + y <= MEMORY BY EntryFacts
  <2>5. p \in PagesOf(e) <=> p <= MEMORY /\ x <= w /\ w < x + y
    BY <1>4 DEF PagesOf, P
  <2> HIDE DEF w, x, y
  <2>6. p \in PagesOf(e) <=> a <= p /\ p < a + n
    BY <2>1, <2>2, <2>3, <2>4, <2>5, <1>2, <1>4
  <2> QED BY <2>6, <1>2
<1>8. PagesOf(e) \subseteq Nat BY <1>4 DEF PagesOf
<1>9. {a + i : i \in 0 .. (n - 1)} = a .. (a + n - 1) 
  <2>1. ASSUME NEW x \in a .. (a + n - 1) PROVE x \in {a + i : i \in 0 .. (n - 1)}
    <3>1. x - a \in 0 .. (n - 1) /\ x = a + (x - a) BY <1>2
    <3> QED BY <3>1
  <2>2. \A i \in 0 .. (n - 1) : a + i \in a .. (a + n - 1) BY <1>2
  <2> QED BY <2>1, <2>2
<1>10. a .. (a + n - 1) \subseteq Nat BY <1>2
<1> QED BY <1>3, <1>7, <1>8, <1>9, <1>10, Zenon

(* The pages that init_pmm takes for its bitmap are those that hold a byte  *)
(* of it, all of the entry it has found.                                    *)
LEMMA OwnPages ==
    ASSUME NEW e \in MapEntries, e.type = "usable", NEW bytes \in Nat, bytes <= e.length
    PROVE  LET own  == {e.base \div PAGE_BYTES + i :
                          i \in 0 .. (DIV_ROUND_UP(bytes, PAGE_BYTES) - 1)}
               held == {(e.base + b) \div PAGE_BYTES : b \in 0 .. (bytes - 1)}
           IN own = held /\ own \subseteq PagesOf(e)
<1> DEFINE P == PAGE_BYTES
           base == e.base
           a == base \div P
           n == DIV_ROUND_UP(bytes, P)
           own  == {a + i : i \in 0 .. (n - 1)}
           held == {(base + b) \div P : b \in 0 .. (bytes - 1)}
<1>1. P \in Nat \ {0} BY BytesAssumption
<1>2. base \in Nat /\ a \in Nat /\ a * P = base BY <1>1, EntryFacts, WholeQuotient
<1>3. n \in Nat /\ \A i \in Nat : i < n <=> i * P < bytes BY <1>1, RoundedUp
<1>4. \A u \in Nat, c \in Nat : u \div P \in Nat /\ (u \div P < c <=> u < c * P)
  BY <1>1, QuotientBelow
<1> HIDE DEF P, a, n, base
<1>5. \A i \in Nat : i * P \in Nat /\ (a + i) * P = base + i * P /\ (a + i + 1) * P = base + i * P + P
  BY <1>1, <1>2
<1>6. ASSUME NEW i \in 0 .. (n - 1)
      PROVE  i \in Nat /\ i * P \in 0 .. (bytes - 1) /\ a + i = (base + i * P) \div P
  <2>1. i \in Nat /\ i < n BY <1>3
  <2>2. i * P \in Nat /\ i * P < bytes BY <2>1, <1>3, <1>5
  <2> DEFINE w == i * P
             q == (base + w) \div P
  <2>3. /\ q \in Nat
        /\ q < a + i <=> base + w < (a + i) * P
        /\ q < a + i + 1 <=> base + w < (a + i + 1) * P
    BY <2>1, <2>2, <1>2, <1>4
  <2>4. (a + i) * P = base + w /\ (a + i + 1) * P = base + w + P BY <2>1, <1>5
  <2> HIDE DEF w, q
  <2>5. ~ (q < a + i) /\ q < a + i + 1 BY <2>2, <2>3, <2>4, <1>1, <1>2 DEF w
  <2>6. q = a + i BY <2>1, <2>3, <2>5, <1>2
  <2> QED BY <2>1, <2>2, <2>6 DEF w, q
<1>7. own \subseteq held BY <1>6
<1>8. ASSUME NEW b \in 0 .. (bytes - 1) PROVE (base + b) \div P \in own
  <2> DEFINE q == (base + b) \div P
  <2>1. b \in Nat /\ base + b \in Nat BY <1>2
  <2>2. q \in Nat /\ (q < a <=> base + b < a * P) BY <2>1, <1>2, <1>4
  <2>3. a <= q BY <2>1, <2>2, <1>2
  <2>4. ~ (base + b < q * P) BY <2>1, <2>2, <1>4
  <2> HIDE DEF q
  <2> DEFINE i == q - a
  <2>5. i \in Nat /\ q = a + i BY <2>2, <2>3, <1>2
  <2> HIDE DEF i
  <2>6. q * P = base + i * P /\ i * P \in Nat BY <2>5, <1>5
  <2>7. i * P < bytes BY <2>1, <2>4, <2>6, <1>2
  <2>8. i \in 0 .. (n - 1) BY <2>5, <2>7, <1>3
  <2> QED BY <2>5, <2>8 DEF q
<1>9. held \subseteq own BY <1>8
<1>10. own \subseteq PagesOf(e)
  <2> SUFFICES ASSUME NEW i \in 0 .. (n - 1) PROVE a + i \in PagesOf(e)
    OBVIOUS
  <2> DEFINE w == i * P
             p == a + i
             y == e.length
  <2>1. i \in Nat /\ w \in Nat /\ w < bytes BY <1>6
  <2>2. p * P = base + w BY <2>1, <1>5
  <2>3. y \in Nat /\ base + y <= MEMORY /\ MEMORY \in Nat BY EntryFacts DEF base
  <2>4. p \in Nat /\ p <= p * P BY <2>1, <1>1, <1>2
  <2> HIDE DEF w, p, y
  <2>5. p \in 0 .. MEMORY /\ base <= p * P /\ p * P < base + y
    BY <2>1, <2>2, <2>3, <2>4, <1>2 DEF y
  <2>6. p \in PagesOf(e) BY <2>5, Zenon DEF PagesOf, base, P, y
  <2> QED BY <2>6 DEF p
<1>11. own = held BY <1>7, <1>9
<1> QED BY <1>10, <1>11 DEF own, held, a, n, base, P

(* The bitmap has a bit for each page up to the last that is or will be     *)
(* free.                                                                    *)
LEMMA RamTop ==
    ASSUME NEW m \in MemoryMaps
    PROVE  LET ends == {e.base + e.length : e \in {e \in Range(m) : e.type # "reserved"}}
           IN /\ bits_needed(m) \in Nat
              /\ bits_needed(m) = Max({0} \cup {x \div PAGE_BYTES : x \in ends})
              /\ \A i \in DOMAIN m :
                   m[i].type = "usable" => PagesOf(m[i]) \subseteq 0 .. (bits_needed(m) - 1)
<1> DEFINE P == PAGE_BYTES
           ends == {e.base + e.length : e \in {e \in Range(m) : e.type # "reserved"}}
           tops == {m[i].base + m[i].length : i \in EntriesOf(m, {"usable", "acpi", "bootloader"})}
           S == {0} \cup tops
           T == {0} \cup {x \div P : x \in ends}
           top == get_ram_max_size(m)
<1>1. P \in Nat \ {0} /\ MEMORY \in Nat BY BytesAssumption, LengthsAssumption
<1>2. \A i \in DOMAIN m : m[i] \in MapEntries BY MapShape
<1>3. tops = ends
  <2>1. \A i \in DOMAIN m : i \in EntriesOf(m, {"usable", "acpi", "bootloader"})
                              <=> m[i].type # "reserved"
    BY <1>2, EntryFacts DEF EntriesOf
  <2>2. EntriesOf(m, {"usable", "acpi", "bootloader"}) \subseteq DOMAIN m BY DEF EntriesOf
  <2>3. Range(m) = {m[i] : i \in DOMAIN m} BY DEF Range
  <2> QED BY <2>1, <2>2, <2>3, Zenon
<1>4. \A x \in ends : x \in 0 .. MEMORY
  <2>1. \A e \in Range(m) : e \in MapEntries BY <1>2 DEF Range
  <2> QED BY <2>1, EntryFacts
<1> HIDE DEF ends, tops
<1>5. S \subseteq 0 .. MEMORY /\ S # {} BY <1>1, <1>3, <1>4
<1>6. top = Max(S) BY DEF get_ram_max_size, tops
<1> HIDE DEF S, top
<1>7. top \in S /\ \A x \in S : x <= top BY <1>1, <1>5, <1>6, MaxIsGreatest
<1>8. top \in Nat BY <1>1, <1>5, <1>7
<1>9. bits_needed(m) = top \div P BY DEF bits_needed, top
<1>10. \A u \in Nat, c \in Nat : u \div P \in Nat /\ (u \div P < c <=> u < c * P)
  BY <1>1, QuotientBelow
<1> HIDE DEF P
<1> DEFINE n == top \div P
<1>11. n \in Nat BY <1>8, <1>10
<1>12. \A x \in Nat : x <= top => x \div P <= n
  <2> SUFFICES ASSUME NEW x \in Nat, x <= top PROVE x \div P <= n
    OBVIOUS
  <2> DEFINE q == x \div P
             y == (n + 1) * P
  <2>1. top < y BY <1>8, <1>10, <1>11
  <2>2. q \in Nat /\ (q < n + 1 <=> x < y) BY <1>10, <1>11
  <2>3. y \in Nat BY <1>1, <1>11
  <2> HIDE DEF q, y
  <2>4. q < n + 1 BY <2>1, <2>2, <2>3, <1>8
  <2>5. q <= n BY <2>2, <2>4, <1>11
  <2> QED BY <2>5 DEF q
<1> HIDE DEF n
<1>13. 0 \div P = 0 BY <1>1
<1>14. n \in T /\ T # {} /\ \A t \in T : t \in 0 .. MEMORY /\ t <= n
  <2>1. n \in T BY <1>3, <1>7, <1>13 DEF S, n
  <2>2. n <= MEMORY
    <3>1. top <= MEMORY BY <1>5, <1>7
    <3> DEFINE y == (MEMORY + 1) * P
    <3>2. MEMORY < y /\ y \in Nat BY <1>1
    <3>3. n < MEMORY + 1 <=> top < y BY <1>1, <1>8, <1>10 DEF n
    <3> HIDE DEF y
    <3> QED BY <3>1, <3>2, <3>3, <1>1, <1>8, <1>11
  <2>3. ASSUME NEW t \in T PROVE t \in Nat /\ t <= n
    <3>1. CASE t = 0 BY <3>1, <1>11
    <3>2. CASE t # 0
      <4>1. PICK x \in ends : t = x \div P BY <3>2
      <4>2. x \in Nat /\ x <= top BY <1>3, <1>4, <1>7 DEF S
      <4> QED BY <4>1, <4>2, <1>10, <1>12
    <3> QED BY <3>1, <3>2
  <2> HIDE DEF T
  <2> QED BY <2>1, <2>2, <2>3, <1>1, <1>11
<1> HIDE DEF T
<1>15. n = Max(T)
  <2>1. T \subseteq 0 .. MEMORY BY <1>14
  <2> DEFINE x == Max(T)
  <2>2. x \in T /\ \A t \in T : t <= x BY <2>1, <1>1, <1>14, MaxIsGreatest
  <2> HIDE DEF x
  <2>3. x \in Nat /\ x <= n /\ n <= x BY <2>2, <1>14
  <2> QED BY <2>3, <1>11 DEF x
<1>16. ASSUME NEW i \in DOMAIN m, m[i].type = "usable", NEW p \in PagesOf(m[i])
       PROVE  p \in 0 .. (n - 1)
  <2> DEFINE e == m[i]
             x == e.base + e.length
  <2>1. e \in MapEntries BY <1>2
  <2> DEFINE k == e.base \div P + e.length \div P
  <2>2. x \in Nat /\ k \in Nat /\ k * P = x
    <3> DEFINE u == e.base \div P
               v == e.length \div P
    <3>1. u \in Nat /\ u * P = e.base /\ v \in Nat /\ v * P = e.length
      BY <2>1, <1>1, <1>16, EntryFacts, WholeQuotient DEF P
    <3> HIDE DEF u, v
    <3>2. (u + v) * P = u * P + v * P BY <3>1, <1>1
    <3> QED BY <3>1, <3>2, <2>1, EntryFacts DEF u, v
  <2>3. x <= top
    <3>1. x \in tops BY <1>16, Zenon DEF tops, EntriesOf
    <3> QED BY <3>1, <1>7 DEF S
  <2>4. p \in Nat /\ p * P < x BY <1>1 DEF PagesOf, P
  <2> HIDE DEF e, x, k
  <2>5. ~ (n < k) BY <2>2, <2>3, <1>8, <1>10 DEF n
  <2>6. p < k
    <3>1. k <= p => k * P <= p * P BY <2>2, <2>4, <1>1
    <3>2. p * P \in Nat BY <2>4, <1>1
    <3> QED BY <3>1, <3>2, <2>2, <2>4
  <2> QED BY <2>2, <2>4, <2>5, <2>6, <1>11
<1> QED BY <1>9, <1>11, <1>15, <1>16 DEF n, T, ends, P

(* What a bitmap says after init_pmm has filled it, freed some pages and    *)
(* taken some.                                                              *)
LEMMA BitmapReady ==
    ASSUME NEW n \in Nat, NEW free, NEW own,
           free \subseteq 0 .. (n - 1), own \subseteq 0 .. (n - 1)
    PROVE  LET zeros == bitmap_create(n)
               full  == [zeros EXCEPT !.bitmap =
                           [i \in DOMAIN zeros.bitmap |-> 0 .. (BITS_PER_BYTE - 1)]]
               ready == bitmap_set_bit_value(bitmap_set_bit_value(full, free, FALSE), own, TRUE)
           IN /\ ready.bit_count = n
              /\ \A p \in 0 .. (n - 1) :
                   bitmap_get_bit_value(ready, p) <=> (p \in free => p \in own)
<1> DEFINE B == BITS_PER_BYTE
           D == 0 .. (DIV_ROUND_UP(n, B) - 1)
           bytes == [i \in D |-> 0 .. (B - 1)]
           zeros == bitmap_create(n)
           full  == [zeros EXCEPT !.bitmap = [i \in DOMAIN zeros.bitmap |-> 0 .. (B - 1)]]
           freed == bitmap_set_bit_value(full, free, FALSE)
           ready == bitmap_set_bit_value(freed, own, TRUE)
<1>1. B \in Nat \ {0} BY BytesAssumption
<1>2. full = [bit_count |-> n, bitmap |-> bytes]
  <2>1. zeros = [bit_count |-> n, bitmap |-> [i \in D |-> {}]] BY DEF bitmap_create
  <2>2. DOMAIN zeros.bitmap = D BY <2>1
  <2> HIDE DEF zeros, D
  <2>3. full = [zeros EXCEPT !.bitmap = bytes] BY <2>2
  <2> HIDE DEF bytes, full
  <2> QED BY <2>1, <2>3
<1>3. DOMAIN bytes = D OBVIOUS
<1>4. free \subseteq Nat /\ own \subseteq Nat OBVIOUS
<1>5. ASSUME NEW p \in 0 .. (n - 1)
      PROVE  /\ p \in Nat /\ p \div B \in D
             /\ bitmap_get_bit_value(full, p)
  <2>1. p \in Nat /\ p < n OBVIOUS
  <2> DEFINE q == p \div B
             k == DIV_ROUND_UP(n, B)
  <2>2. q \in Nat /\ ~ (p < q * B) BY <2>1, <1>1, QuotientBelow
  <2>3. k \in Nat /\ (q < k <=> q * B < n) BY <2>2, <1>1, RoundedUp
  <2>4. q * B \in Nat BY <2>2, <1>1
  <2>5. p % B \in 0 .. (B - 1) BY <2>1, <1>1
  <2> HIDE DEF q, k, B
  <2>6. q \in 0 .. (k - 1) BY <2>1, <2>2, <2>3, <2>4
  <2>7. q \in D BY <2>6 DEF k
  <2>8. bytes[q] = 0 .. (B - 1) BY <2>7
  <2> HIDE DEF bytes, full, D
  <2>9. full.bitmap[q] = 0 .. (B - 1) BY <2>8, <1>2
  <2> QED BY <2>1, <2>5, <2>7, <2>9 DEF bitmap_get_bit_value, q, B
<1> HIDE DEF bytes, full, D, B
<1>6. BitmapOf(full, n, D) BY <1>2, <1>3 DEF BitmapOf
<1>7. ASSUME NEW p \in 0 .. (n - 1)
      PROVE  bitmap_get_bit_value(ready, p) <=> (p \in free => p \in own)
  <2>1. p \in Nat /\ p \div BITS_PER_BYTE \in D /\ bitmap_get_bit_value(full, p)
    BY <1>5 DEF B
  <2>2. TRUE \in BOOLEAN /\ FALSE \in BOOLEAN OBVIOUS
  <2>3. /\ BitmapOf(freed, n, D)
        /\ bitmap_get_bit_value(freed, p)
             <=> IF p \in free THEN FALSE ELSE bitmap_get_bit_value(full, p)
    BY <2>1, <2>2, <1>4, <1>6, BitsSet
  <2> HIDE DEF freed
  <2>4. bitmap_get_bit_value(ready, p)
             <=> IF p \in own THEN TRUE ELSE bitmap_get_bit_value(freed, p)
    BY <2>1, <2>2, <2>3, <1>4, BitsSet
  <2> QED BY <2>1, <2>3, <2>4
<1>8. ready.bit_count = n
  <2>1. full.bit_count = n BY <1>2
  <2>2. freed.bit_count = full.bit_count BY DEF freed, bitmap_set_bit_value
  <2>3. ready.bit_count = freed.bit_count BY DEF bitmap_set_bit_value
  <2> QED BY <2>1, <2>2, <2>3
<1> QED BY <1>7, <1>8 DEF ready, freed, full, B

(* Where init_pmm puts its bitmap: in an entry that holds it, if there is   *)
(* one.                                                                     *)
LEMMA RegionFound ==
    ASSUME NEW m \in MemoryMaps
    PROVE  /\ get_bitmap_region(m) = -1 <=>
                \A i \in DOMAIN m : m[i].type = "usable" => m[i].length < bytes_needed(m)
           /\ get_bitmap_region(m) # -1 =>
                /\ get_bitmap_region(m) \in DOMAIN m
                /\ m[get_bitmap_region(m)].type = "usable"
                /\ bytes_needed(m) <= m[get_bitmap_region(m)].length
           /\ bytes_needed(m) \in Nat
<1> DEFINE bytes == bytes_needed(m)
           large == {i \in EntriesOf(m, {"usable"}) : m[i].length >= bytes}
           r == get_bitmap_region(m)
<1>1. bytes \in Nat BY RamTop, BytesAssumption, RoundedUp DEF bytes_needed
<1>2. r = IF large = {} THEN -1 ELSE Min(large) BY DEF get_bitmap_region
<1> HIDE DEF r, bytes
<1>3. \A i \in DOMAIN m : i \in Nat /\ m[i].length \in Nat BY MapShape, EntryFacts
<1>4. \A i : i \in large <=> i \in DOMAIN m /\ m[i].type = "usable" /\ m[i].length >= bytes
  BY Zenon DEF EntriesOf
<1> HIDE DEF large
<1>5. large # {} => Min(large) \in large BY <1>3, <1>4, MinIsLeast
<1>6. r # -1 <=> large # {} BY <1>2, <1>3, <1>4, <1>5
<1>7. large = {} <=> \A i \in DOMAIN m : m[i].type = "usable" => m[i].length < bytes
  BY <1>1, <1>3, <1>4
<1>8. r # -1 => r \in DOMAIN m /\ m[r].type = "usable" /\ bytes <= m[r].length
  <2> SUFFICES ASSUME r # -1 PROVE r \in large
    BY <1>1, <1>3, <1>4
  <2> QED BY <1>2, <1>5, <1>6
<1> QED BY <1>1, <1>6, <1>7, <1>8 DEF r, bytes

(* What init_pmm makes of a memory map. *)
LEMMA BitmapPlaced ==
    ASSUME NEW m \in MemoryMaps
    PROVE  LET n     == bits_needed(m)
               bytes == bytes_needed(m)
               pages == UNION {PagesOf(m[i]) : i \in EntriesOf(m, {"usable"})}
               out   == init_pmm(m)
               held  == {(out.bitmap + b) \div PAGE_BYTES : b \in 0 .. (bytes - 1)}
           IN IF \A i \in DOMAIN m : m[i].type = "usable" => m[i].length < bytes
              THEN out.result = "panic: no region"
              ELSE /\ out.result = "ready" /\ out.bit_count = n
                   /\ held \subseteq pages
                   /\ (0 .. (n - 1)) \ out.used = pages \ held
<1> DEFINE n      == bits_needed(m)
           bytes  == bytes_needed(m)
           pages  == UNION {PagesOf(m[i]) : i \in EntriesOf(m, {"usable"})}
           r      == get_bitmap_region(m)
           frames == 0 .. (n - 1)
           zeros  == bitmap_create(n)
           full   == [zeros EXCEPT !.bitmap = [i \in DOMAIN zeros.bitmap |-> 0 .. (BITS_PER_BYTE - 1)]]
           free   == UNION {mark_region_free(m[i]) : i \in EntriesOf(m, {"usable"})}
           own    == {m[r].base \div PAGE_BYTES + i : i \in 0 .. (pages_needed(m) - 1)}
           ready  == bitmap_set_bit_value(bitmap_set_bit_value(full, free, FALSE), own, TRUE)
           out    == init_pmm(m)
           held   == {(m[r].base + b) \div PAGE_BYTES : b \in 0 .. (bytes - 1)}
<1>1. out = IF r = -1 THEN [result |-> "panic: no region"]
            ELSE IF ~ (free \cup own \subseteq frames) THEN [result |-> "panic: out of bounds"]
            ELSE [result |-> "ready", bitmap |-> m[r].base, bit_count |-> ready.bit_count,
                  used |-> {p \in frames : bitmap_get_bit_value(ready, p)}]
  BY Zenon DEF init_pmm
<1>2. n \in Nat /\ \A i \in DOMAIN m : m[i].type = "usable" => PagesOf(m[i]) \subseteq frames
  BY RamTop
<1>3. \A i \in EntriesOf(m, {"usable"}) : i \in DOMAIN m /\ m[i] \in MapEntries /\ m[i].type = "usable"
  BY MapShape DEF EntriesOf
<1>4. free = pages BY <1>3, RegionPages, Zenon
<1>5. pages \subseteq frames BY <1>2, <1>3, Zenon
<1>6. CASE r = -1
  <2>1. \A i \in DOMAIN m : m[i].type = "usable" => m[i].length < bytes BY <1>6, RegionFound
  <2> HIDE DEF out, bytes
  <2>2. out.result = "panic: no region" BY <1>1, <1>6
  <2> QED BY <2>1, <2>2 DEF out, bytes
<1>7. CASE r # -1
  <2> DEFINE e == m[r]
  <2>1. /\ ~ \A i \in DOMAIN m : m[i].type = "usable" => m[i].length < bytes
        /\ r \in DOMAIN m /\ e.type = "usable" /\ bytes <= e.length /\ bytes \in Nat
    BY <1>7, RegionFound
  <2>2. e \in MapEntries BY <2>1, MapShape
  <2>3. own = held /\ own \subseteq PagesOf(e)
    BY <2>1, <2>2, OwnPages DEF pages_needed
  <2>4. PagesOf(e) \subseteq pages BY <2>1, Zenon DEF EntriesOf
  <2> HIDE DEF own, held, pages, free, out, frames, ready, n
  <2>5. own \subseteq frames /\ free \subseteq frames BY <2>3, <2>4, <1>4, <1>5
  <2>6. /\ ready.bit_count = n
        /\ \A p \in frames : bitmap_get_bit_value(ready, p) <=> (p \in free => p \in own)
    BY <2>5, <1>2, BitmapReady DEF ready, frames
  <2>7. out = [result |-> "ready", bitmap |-> e.base, bit_count |-> ready.bit_count,
               used |-> {p \in frames : bitmap_get_bit_value(ready, p)}]
    BY <2>5, <1>1, <1>7
  <2>8. /\ out.result = "ready" /\ out.bitmap = e.base /\ out.bit_count = n
        /\ out.used = {p \in frames : bitmap_get_bit_value(ready, p)}
    BY <2>6, <2>7
  <2>9. frames \ out.used = pages \ held BY <2>3, <2>5, <2>6, <2>8, <1>4
  <2>10. held \subseteq pages BY <2>3, <2>4
  <2>11. held = {(out.bitmap + b) \div PAGE_BYTES : b \in 0 .. (bytes - 1)}
    BY <2>8, Zenon DEF held
  <2> QED BY <2>1, <2>8, <2>9, <2>10, <2>11, Zenon DEF out, pages, frames, n, bytes
<1> QED BY <1>6, <1>7

(* On a memory of any size, with any memory map, init_pmm protects its      *)
(* bitmap and what is not usable, and frees the rest.                       *)
LEMMA BootProtects ==
    ASSUME input \in MemoryMaps, output = init_pmm(input)
    PROVE  BitmapProtectsItself
<1> DEFINE m == input
           within(p, e) == e.base <= p * PAGE_BYTES /\ p * PAGE_BYTES < e.base + e.length
           usable == {e \in Range(m) : e.type = "usable"}
           pages  == {p \in 0 .. MEMORY : \E e \in usable : within(p, e)}
           ends   == {e.base + e.length : e \in {e \in Range(m) : e.type # "reserved"}}
           top    == Max({0} \cup {x \div PAGE_BYTES : x \in ends})
           all    == UNION {PagesOf(m[i]) : i \in EntriesOf(m, {"usable"})}
<1>1. bits_needed(m) = top BY RamTop
<1>2. bytes_needed(m) = DIV_ROUND_UP(top, BITS_PER_BYTE) BY <1>1 DEF bytes_needed
<1>3. Range(m) = {m[i] : i \in DOMAIN m} BY DEF Range
<1>4. all = pages
  <2>1. \A i : i \in EntriesOf(m, {"usable"}) <=> i \in DOMAIN m /\ m[i].type = "usable"
    BY Zenon DEF EntriesOf
  <2>2. \A e : e \in usable <=> \E i \in EntriesOf(m, {"usable"}) : e = m[i]
    BY <2>1, <1>3, Zenon
  <2>3. \A e, p : p \in PagesOf(e) <=> p \in 0 .. MEMORY /\ within(p, e) BY Zenon DEF PagesOf
  <2> HIDE DEF usable, within
  <2>4. \A p : p \in all <=> \E i \in EntriesOf(m, {"usable"}) : p \in PagesOf(m[i]) BY Zenon
  <2>5. \A p : p \in pages <=> p \in 0 .. MEMORY /\ \E e \in usable : within(p, e) BY Zenon
  <2> HIDE DEF all, pages
  <2> QED BY <2>2, <2>3, <2>4, <2>5, Zenon
<1>5. (\A i \in DOMAIN m : m[i].type = "usable" => m[i].length < bytes_needed(m))
        <=> \A e \in usable : e.length < bytes_needed(m)
  BY <1>3, Zenon
<1> DEFINE n     == bits_needed(m)
           bytes == bytes_needed(m)
           held  == {(output.bitmap + b) \div PAGE_BYTES : b \in 0 .. (bytes - 1)}
<1>6. IF \A e \in usable : e.length < bytes
      THEN output.result = "panic: no region"
      ELSE /\ output.result = "ready" /\ output.bit_count = n
           /\ held \subseteq all
           /\ (0 .. (n - 1)) \ output.used = all \ held
  <2> HIDE DEF usable
  <2> QED BY <1>5, BitmapPlaced, Zenon
<1> QED BY <1>1, <1>2, <1>4, <1>6, Zenon DEF BitmapProtectsItself

-----------------------------------------------------------------------------
(* Linked queues. *)

Slot   == TASKS \cup {NIL}
QueueT == [head : Slot, rear : Slot]
SchedT == [queue : [QUEUES -> QueueT], next : [TASKS -> Slot], curr : Slot,
           first : BOOLEAN, idle : BOOLEAN]

(* Tasks are numbered from 1, so that none of them is NIL. *)
LEMMA TaskFacts ==
    /\ TASKS \subseteq Nat /\ NIL \notin TASKS /\ 1 \in TASKS
    /\ RUN \in QUEUES /\ WAIT_QUEUES \subseteq QUEUES
BY TasksAssumption DEF TASKS, NIL, QUEUES

(* The links lead from the head along the line to the rear. *)
Strung(ends, nx, line) ==
    /\ line = <<>> => ends.head = NIL /\ ends.rear = NIL
    /\ line # <<>> => ends.head = line[1] /\ ends.rear = line[Len(line)]
    /\ \A i \in 1 .. Len(line) : nx[line[i]] = IF i = Len(line) THEN NIL ELSE line[i + 1]

(* That is what LinksOf says. *)
LEMMA StrungIsLinked ==
    ASSUME NEW s, NEW q, NEW line \in Seq(TASKS), Strung(s.queue[q], s.next, line)
    PROVE  LinksOf(s, q, line)
<1> DEFINE ends == <<NIL>> \o line \o <<NIL>>
<1>1. Len(line) \in Nat /\ Len(ends) = Len(line) + 2 OBVIOUS
<1>2. \A i \in 1 .. Len(line) : ends[i + 1] = line[i] OBVIOUS
<1>3. ends[1] = NIL /\ ends[Len(line) + 2] = NIL OBVIOUS
<1>4. DOMAIN line = 1 .. Len(line) OBVIOUS
<1> HIDE DEF ends
<1>5. s.queue[q].head = ends[2]
  <2>1. CASE line = <<>> BY <2>1, <1>3 DEF Strung
  <2>2. CASE line # <<>>
    <3>1. 1 \in 1 .. Len(line) BY <2>2, <1>1
    <3>2. ends[1 + 1] = line[1] BY <3>1, <1>2
    <3> QED BY <2>2, <3>2 DEF Strung
  <2> QED BY <2>1, <2>2
<1>6. s.queue[q].rear = ends[Len(ends) - 1]
  <2>0. Len(ends) - 1 = Len(line) + 1 BY <1>1
  <2>1. CASE line = <<>>
    <3>1. Len(ends) - 1 = 1 BY <2>0, <2>1
    <3> QED BY <2>1, <3>1, <1>3 DEF Strung
  <2>2. CASE line # <<>>
    <3>1. Len(line) \in 1 .. Len(line) BY <2>2, <1>1
    <3> QED BY <2>0, <2>2, <3>1, <1>2 DEF Strung
  <2> QED BY <2>1, <2>2
<1>7. ASSUME NEW i \in DOMAIN line PROVE s.next[line[i]] = ends[i + 2]
  <2>1. i \in 1 .. Len(line) /\ s.next[line[i]] = IF i = Len(line) THEN NIL ELSE line[i + 1]
    BY <1>4 DEF Strung
  <2>2. CASE i = Len(line) BY <2>1, <2>2, <1>3
  <2>3. CASE i # Len(line)
    <3>1. i + 1 \in 1 .. Len(line) /\ (i + 1) + 1 = i + 2 BY <2>1, <2>3, <1>1
    <3>2. ends[(i + 1) + 1] = line[i + 1] BY <3>1, <1>2
    <3> QED BY <2>1, <2>3, <3>1, <3>2
  <2> QED BY <2>2, <2>3
<1> QED BY <1>5, <1>6, <1>7 DEF LinksOf, ends

(* A queue is the links of its own tasks only. *)
LEMMA OtherLine ==
    ASSUME NEW ends, NEW nx, NEW nx2, NEW line \in Seq(TASKS), Strung(ends, nx, line),
           \A x \in Range(line) : nx2[x] = nx[x]
    PROVE  Strung(ends, nx2, line)
<1>1. \A i \in 1 .. Len(line) : line[i] \in Range(line) BY DEF Range
<1> QED BY <1>1 DEF Strung

(* task_enqueue, on the queue it is called for. *)
LEMMA EnqueueLine ==
    ASSUME NEW line \in Seq(TASKS), IsInjective(line), NEW task \in TASKS \ Range(line),
           NEW ends, NEW nx, Strung(ends, nx, line), NEW ends2, NEW nx2,
           \A x \in TASKS : nx2[x] = IF x = ends.rear THEN task
                                     ELSE IF x = task THEN NIL ELSE nx[x],
           ends2.head = IF ends.rear = NIL THEN task ELSE ends.head, ends2.rear = task
    PROVE  Strung(ends2, nx2, Append(line, task))
<1> DEFINE long == Append(line, task)
           n    == Len(line)
<1>1. /\ n \in Nat /\ Len(long) = n + 1 /\ long[n + 1] = task /\ long # <<>>
      /\ \A i \in 1 .. n : long[i] = line[i] /\ line[i] \in TASKS /\ line[i] \in Range(line)
  BY DEF Range
<1>2. \A i, j \in 1 .. n : line[i] = line[j] => i = j BY DEF IsInjective
<1> HIDE DEF long
<1>3. n > 0 => ends.head = line[1] /\ ends.rear = line[n] BY DEF Strung
<1>4. n = 0 => ends.rear = NIL BY DEF Strung
<1>5. ends2.head = long[1] /\ ends2.rear = long[n + 1]
  <2>1. CASE n = 0 BY <2>1, <1>1, <1>4
  <2>2. CASE n > 0
    <3>1. 1 \in 1 .. n /\ n \in 1 .. n BY <1>1, <2>2
    <3>2. ends.rear # NIL BY <3>1, <2>2, <1>1, <1>3, TaskFacts
    <3> QED BY <2>2, <3>1, <3>2, <1>1, <1>3
  <2> QED BY <2>1, <2>2, <1>1
<1>6. ASSUME NEW i \in 1 .. (n + 1)
      PROVE  nx2[long[i]] = IF i = n + 1 THEN NIL ELSE long[i + 1]
  <2>1. CASE i = n + 1
    <3>1. ends.rear # task
      <4>1. CASE n = 0 BY <4>1, <1>4, TaskFacts
      <4>2. CASE n > 0
        <5>1. n \in 1 .. n BY <1>1, <4>2
        <5> QED BY <5>1, <4>2, <1>1, <1>3
      <4> QED BY <4>1, <4>2, <1>1
    <3> QED BY <2>1, <3>1, <1>1
  <2>2. CASE i = n /\ n > 0
    <3>1. i \in 1 .. n /\ i # n + 1 BY <1>1, <2>2
    <3> QED BY <2>2, <3>1, <1>1, <1>3
  <2>3. CASE i < n
    <3>1. i \in 1 .. n /\ i + 1 \in 1 .. n /\ i # n + 1 /\ n \in 1 .. n /\ n > 0 BY <1>1, <2>3
    <3>2. line[i] # line[n] BY <3>1, <1>2, <2>3
    <3>3. nx2[line[i]] = nx[line[i]] BY <3>1, <3>2, <1>1, <1>3
    <3>4. nx[line[i]] = line[i + 1] BY <3>1, <2>3 DEF Strung
    <3> QED BY <3>1, <3>3, <3>4, <1>1
  <2> QED BY <2>1, <2>2, <2>3, <1>1
<1> QED BY <1>1, <1>5, <1>6 DEF Strung, long

(* task_dequeue, on the queue it is called for. *)
LEMMA DequeueLine ==
    ASSUME NEW line \in Seq(TASKS), IsInjective(line), line # <<>>,
           NEW ends, NEW nx, Strung(ends, nx, line), NEW ends2, NEW nx2,
           \A x \in TASKS : nx2[x] = IF x = ends.head THEN NIL ELSE nx[x],
           ends2.head = nx[ends.head],
           ends2.rear = IF ends.head = ends.rear THEN NIL ELSE ends.rear
    PROVE  ends.head = Head(line) /\ Strung(ends2, nx2, Tail(line))
<1> DEFINE rest == Tail(line)
           n    == Len(line)
<1>1. /\ n \in Nat /\ n > 0 /\ Len(rest) = n - 1 /\ Head(line) = line[1]
      /\ \A i \in 1 .. (n - 1) : rest[i] = line[i + 1]
      /\ \A i \in 1 .. n : line[i] \in TASKS
  OBVIOUS
<1>2. \A i, j \in 1 .. n : line[i] = line[j] => i = j BY DEF IsInjective
<1>3. rest = <<>> <=> n = 1
  <2>1. rest \in Seq(TASKS) OBVIOUS
  <2>2. \A r \in Seq(TASKS) : r = <<>> <=> Len(r) = 0 OBVIOUS
  <2> HIDE DEF rest, n
  <2> QED BY <2>1, <2>2, <1>1
<1> HIDE DEF rest
<1>4. ends.head = line[1] /\ ends.rear = line[n] BY DEF Strung
<1>5. 1 \in 1 .. n /\ n \in 1 .. n BY <1>1
<1>6. nx[line[1]] = IF n = 1 THEN NIL ELSE line[2]
  <2>1. nx[line[1]] = IF 1 = n THEN NIL ELSE line[1 + 1] BY <1>5, Zenon DEF Strung
  <2> QED BY <2>1
<1>7. CASE n = 1
  <2>1. ends2.head = NIL /\ ends2.rear = NIL BY <1>4, <1>6, <1>7
  <2>2. Len(rest) = 0 BY <1>1, <1>7
  <2> QED BY <2>1, <2>2, <1>1, <1>3, <1>4, <1>7 DEF Strung, rest
<1>8. CASE n # 1
  <2>1. n - 1 \in 1 .. (n - 1) /\ 1 \in 1 .. (n - 1) /\ (n - 1) + 1 = n /\ 1 + 1 = 2
    BY <1>1, <1>8
  <2>2. rest[1] = line[2] /\ rest[n - 1] = line[n] BY <2>1, <1>1
  <2>3. line[1] # line[n] BY <1>2, <1>5, <1>8
  <2>4. ends2.head = rest[1] /\ ends2.rear = rest[Len(rest)]
    BY <2>2, <2>3, <1>1, <1>4, <1>6, <1>8
  <2>5. ASSUME NEW i \in 1 .. Len(rest)
        PROVE  nx2[rest[i]] = IF i = Len(rest) THEN NIL ELSE rest[i + 1]
    <3>1. i \in 1 .. (n - 1) /\ i + 1 \in 1 .. n /\ i + 1 # 1 BY <1>1
    <3>2. rest[i] = line[i + 1] /\ line[i + 1] # line[1] BY <3>1, <1>1, <1>2, <1>5
    <3>3. nx2[rest[i]] = nx[line[i + 1]] BY <3>1, <3>2, <1>1, <1>4
    <3>4. nx[line[i + 1]] = IF i + 1 = n THEN NIL ELSE line[(i + 1) + 1]
      BY <3>1 DEF Strung
    <3>5. CASE i = n - 1 BY <3>1, <3>3, <3>4, <3>5, <1>1
    <3>6. CASE i # n - 1
      <4>1. i + 1 \in 1 .. (n - 1) /\ i + 1 # n BY <3>1, <3>6, <1>1
      <4>2. rest[i + 1] = line[(i + 1) + 1] BY <4>1, <1>1
      <4> QED BY <4>1, <4>2, <3>3, <3>4, <3>6, <1>1
    <3> QED BY <3>5, <3>6
  <2> QED BY <2>4, <2>5, <1>1, <1>3, <1>4, <1>8 DEF Strung, rest
<1> QED BY <1>7, <1>8
(* Every task is in one place of one queue at most, and the links hold all  *)
(* queues together.                                                         *)
LineT == [QUEUES -> Seq(TASKS)]
Queued(lines) == UNION {Range(lines[q]) : q \in QUEUES}

Holds(s, lines) ==
    /\ s \in SchedT /\ lines \in LineT
    /\ \A q \in QUEUES : IsInjective(lines[q]) /\ Strung(s.queue[q], s.next, lines[q])
    /\ \A p, q \in QUEUES : p # q => Range(lines[p]) \cap Range(lines[q]) = {}

(* Only the links of s. *)
Relinked(s, n) ==
    n \in SchedT /\ n.curr = s.curr /\ n.idle = s.idle /\ n.first = s.first

(* What task_enqueue and task_dequeue assign. *)
Enqueued(s, q, task, n) ==
    /\ Relinked(s, n)
    /\ \A p \in QUEUES : p # q => n.queue[p] = s.queue[p]
    /\ n.queue[q].head = IF s.queue[q].rear = NIL THEN task ELSE s.queue[q].head
    /\ n.queue[q].rear = task
    /\ \A x \in TASKS : n.next[x] = IF x = s.queue[q].rear THEN task
                                    ELSE IF x = task THEN NIL ELSE s.next[x]
Dequeued(s, q, head, n) ==
    /\ Relinked(s, n)
    /\ \A p \in QUEUES : p # q => n.queue[p] = s.queue[p]
    /\ n.queue[q].head = s.next[head]
    /\ n.queue[q].rear = IF head = s.queue[q].rear THEN NIL ELSE s.queue[q].rear
    /\ \A x \in TASKS : n.next[x] = IF x = head THEN NIL ELSE s.next[x]

(* task_enqueue changes one queue and the links of the task and of the one  *)
(* it is put behind.                                                        *)
LEMMA EnqueueAssigns ==
    ASSUME NEW s \in SchedT, NEW q \in QUEUES, NEW task \in TASKS
    PROVE  Enqueued(s, q, task, task_enqueue(s, q, task))
<1> DEFINE n == task_enqueue(s, q, task)
           rear == s.queue[q].rear
           cut == [s.next EXCEPT ![task] = NIL]
<1>1. /\ s.queue \in [QUEUES -> QueueT] /\ s.next \in [TASKS -> Slot]
      /\ s.curr \in Slot /\ s.first \in BOOLEAN /\ s.idle \in BOOLEAN
  BY Zenon DEF SchedT
<1>2. s.queue[q] \in QueueT BY <1>1
<1>3. rear \in Slot /\ s.queue[q].head \in Slot BY <1>2, Zenon DEF QueueT
<1>4. task \in Slot /\ NIL \in Slot BY DEF Slot
<1>5. cut \in [TASKS -> Slot] /\ \A x \in TASKS : cut[x] = IF x = task THEN NIL ELSE s.next[x]
  BY <1>1, <1>4
<1>6. CASE rear = NIL
  <2> DEFINE e == [head |-> task, rear |-> task]
             Q == [s.queue EXCEPT ![q] = e]
  <2>1. n = [s EXCEPT !.next = cut, !.queue = Q] BY <1>6, Zenon DEF task_enqueue
  <2>2. e \in QueueT BY <1>4 DEF QueueT
  <2> HIDE DEF e
  <2>3. Q \in [QUEUES -> QueueT] /\ Q[q] = e /\ \A p \in QUEUES : p # q => Q[p] = s.queue[p]
    BY <2>2, <1>1
  <2> HIDE DEF Q, cut, n
  <2>4. /\ n \in SchedT /\ n.next = cut /\ n.queue = Q /\ n.curr = s.curr
        /\ n.first = s.first /\ n.idle = s.idle
    BY <2>1, <2>3, <1>1, <1>5, Zenon DEF SchedT
  <2>5. e.head = task /\ e.rear = task BY DEF e
  <2>6. NIL \notin TASKS BY TaskFacts
  <2> QED BY <2>3, <2>4, <2>5, <2>6, <1>5, <1>6, Zenon DEF Relinked, Enqueued, n
<1>7. CASE rear # NIL
  <2> DEFINE e == [s.queue[q] EXCEPT !.rear = task]
             Q == [s.queue EXCEPT ![q] = e]
             nx == [cut EXCEPT ![rear] = task]
  <2>1. n = [s EXCEPT !.next = nx, !.queue = Q] BY <1>7, Zenon DEF task_enqueue
  <2>2. e \in QueueT /\ e.head = s.queue[q].head /\ e.rear = task
    BY <1>2, <1>4, Zenon DEF QueueT
  <2> HIDE DEF e
  <2>3. Q \in [QUEUES -> QueueT] /\ Q[q] = e /\ \A p \in QUEUES : p # q => Q[p] = s.queue[p]
    BY <2>2, <1>1
  <2>4. rear \in TASKS BY <1>3, <1>7 DEF Slot
  <2>5. nx \in [TASKS -> Slot]
        /\ \A x \in TASKS : nx[x] = IF x = rear THEN task
                                    ELSE IF x = task THEN NIL ELSE s.next[x]
    BY <2>4, <1>4, <1>5
  <2> HIDE DEF Q, nx, n
  <2>6. /\ n \in SchedT /\ n.next = nx /\ n.queue = Q /\ n.curr = s.curr
        /\ n.first = s.first /\ n.idle = s.idle
    BY <2>1, <2>3, <2>5, <1>1, Zenon DEF SchedT
  <2> QED BY <2>2, <2>3, <2>5, <2>6, <1>7, Zenon DEF Relinked, Enqueued, n
<1> QED BY <1>6, <1>7

(* task_dequeue changes one queue and the link of the task it takes. *)
LEMMA DequeueAssigns ==
    ASSUME NEW s \in SchedT, NEW q \in QUEUES, s.queue[q].head # NIL
    PROVE  /\ task_dequeue(s, q).task = s.queue[q].head
           /\ s.queue[q].head \in TASKS
           /\ Dequeued(s, q, s.queue[q].head, task_dequeue(s, q).s)
<1> DEFINE n == task_dequeue(s, q).s
           head == s.queue[q].head
           rear == s.queue[q].rear
           e == [head |-> s.next[head], rear |-> IF head = rear THEN NIL ELSE rear]
           Q == [s.queue EXCEPT ![q] = e]
           nx == [s.next EXCEPT ![head] = NIL]
<1>1. /\ s.queue \in [QUEUES -> QueueT] /\ s.next \in [TASKS -> Slot]
      /\ s.curr \in Slot /\ s.first \in BOOLEAN /\ s.idle \in BOOLEAN
  BY Zenon DEF SchedT
<1>2. s.queue[q] \in QueueT BY <1>1
<1>3. rear \in Slot /\ head \in Slot /\ NIL \in Slot BY <1>2, Zenon DEF QueueT, Slot
<1>4. head \in TASKS BY <1>3 DEF Slot
<1>5. n = [s EXCEPT !.queue = Q, !.next = nx] /\ task_dequeue(s, q).task = head
  BY Zenon DEF task_dequeue
<1>6. nx \in [TASKS -> Slot] /\ \A x \in TASKS : nx[x] = IF x = head THEN NIL ELSE s.next[x]
  BY <1>1, <1>3, <1>4
<1>7. e \in QueueT BY <1>1, <1>3, <1>4 DEF QueueT
<1>8. e.head = s.next[head] /\ e.rear = IF head = rear THEN NIL ELSE rear OBVIOUS
<1> HIDE DEF e
<1>9. Q \in [QUEUES -> QueueT] /\ Q[q] = e /\ \A p \in QUEUES : p # q => Q[p] = s.queue[p]
  BY <1>1, <1>7
<1> HIDE DEF Q, nx, n
<1>10. /\ n \in SchedT /\ n.next = nx /\ n.queue = Q /\ n.curr = s.curr
       /\ n.first = s.first /\ n.idle = s.idle
  BY <1>1, <1>5, <1>6, <1>9, Zenon DEF SchedT
<1> QED BY <1>4, <1>5, <1>6, <1>8, <1>9, <1>10, Zenon DEF Relinked, Dequeued, n

(* Two queues have no task in common, and a task of none is in no line. *)
LEMMA QueuedFacts ==
    ASSUME NEW lines \in LineT, NEW q \in QUEUES
    PROVE  /\ lines[q] \in Seq(TASKS) /\ Range(lines[q]) \subseteq Queued(lines)
           /\ Queued(lines) \subseteq TASKS
<1>1. \A p \in QUEUES : lines[p] \in Seq(TASKS) BY DEF LineT
<1>2. \A p \in QUEUES : Range(lines[p]) \subseteq TASKS BY <1>1, QueueElements
<1> QED BY <1>1, <1>2, Zenon DEF Queued

(* One line of all changes: who is queued then. *)
Reline(lines, q, line, new) ==
    /\ new \in LineT /\ new[q] = line
    /\ \A p \in QUEUES : p # q => new[p] = lines[p]
    /\ Queued(new) \subseteq Queued(lines) \cup Range(line)
    /\ \A x : x \in Queued(new) =>
           x \in Range(line) \/ \E p \in QUEUES : p # q /\ x \in Range(lines[p])

(* Putting another line in the place of one. *)
LEMMA OneLine ==
    ASSUME NEW lines \in LineT, NEW q \in QUEUES, NEW line \in Seq(TASKS)
    PROVE  Reline(lines, q, line, [lines EXCEPT ![q] = line])
<1> DEFINE new == [lines EXCEPT ![q] = line]
<1>1. new \in LineT /\ new[q] = line /\ \A p \in QUEUES : p # q => new[p] = lines[p]
  BY DEF LineT
<1> HIDE DEF new
<1>2. \A x : x \in Queued(new) =>
          x \in Range(line) \/ \E p \in QUEUES : p # q /\ x \in Range(lines[p])
  BY <1>1, Zenon DEF Queued
<1>3. Queued(new) \subseteq Queued(lines) \cup Range(line) BY <1>2, Zenon DEF Queued
<1> QED BY <1>1, <1>2, <1>3 DEF new, Reline

(* A queue is empty when its line is. *)
LEMMA HoldsEmpty ==
    ASSUME NEW s, NEW lines, Holds(s, lines), NEW q \in QUEUES
    PROVE  task_queue_empty(s, q) <=> lines[q] = <<>>
<1>1. lines[q] \in Seq(TASKS) /\ Strung(s.queue[q], s.next, lines[q])
  BY QueuedFacts DEF Holds
<1>2. lines[q] # <<>> => lines[q][1] \in TASKS BY <1>1
<1> QED BY <1>1, <1>2, TaskFacts DEF Strung, task_queue_empty

(* task_enqueue appends a task of no queue to one, and the others stay. *)
LEMMA HoldsEnqueue ==
    ASSUME NEW s, NEW lines, Holds(s, lines), NEW q \in QUEUES,
           NEW task \in TASKS, task \notin Queued(lines)
    PROVE  LET n   == task_enqueue(s, q, task)
               new == [lines EXCEPT ![q] = Append(lines[q], task)]
           IN /\ Holds(n, new) /\ Relinked(s, n)
              /\ Queued(new) \subseteq Queued(lines) \cup {task}
<1> DEFINE n    == task_enqueue(s, q, task)
           long == Append(lines[q], task)
           new  == [lines EXCEPT ![q] = long]
<1>1. /\ s \in SchedT /\ lines \in LineT
      /\ \A p \in QUEUES : IsInjective(lines[p]) /\ Strung(s.queue[p], s.next, lines[p])
      /\ \A p, r \in QUEUES : p # r => Range(lines[p]) \cap Range(lines[r]) = {}
  BY DEF Holds
<1>2. \A p \in QUEUES : /\ lines[p] \in Seq(TASKS) /\ task \notin Range(lines[p])
  BY <1>1, QueuedFacts
<1>3. Enqueued(s, q, task, n) BY <1>1, EnqueueAssigns
<1>4. long \in Seq(TASKS) /\ Range(long) = Range(lines[q]) \cup {task} /\ IsInjective(long)
  BY <1>1, <1>2, QueueAppend
<1> HIDE DEF n
<1>5. Strung(n.queue[q], n.next, long) BY <1>1, <1>2, <1>3, EnqueueLine DEF Enqueued
<1>6. s.queue[q].rear \in Range(lines[q]) \cup {NIL}
  <2>1. lines[q] = <<>> => s.queue[q].rear = NIL BY <1>1 DEF Strung
  <2>2. lines[q] # <<>> => s.queue[q].rear = lines[q][Len(lines[q])] BY <1>1 DEF Strung
  <2>3. lines[q] # <<>> => lines[q][Len(lines[q])] \in Range(lines[q]) BY <1>2 DEF Range
  <2> QED BY <2>1, <2>2, <2>3
<1> HIDE DEF long
<1>7. Reline(lines, q, long, new) BY <1>1, <1>4, OneLine
<1> HIDE DEF new
<1>8. ASSUME NEW p \in QUEUES, p # q PROVE Strung(n.queue[p], n.next, new[p])
  <2>1. n.queue[p] = s.queue[p] /\ new[p] = lines[p] BY <1>3, <1>7, <1>8 DEF Enqueued, Reline
  <2>2. Range(lines[p]) \subseteq TASKS BY <1>2, QueueElements
  <2>3. Range(lines[p]) \cap Range(lines[q]) = {} BY <1>1, <1>8
  <2>4. \A x \in Range(lines[p]) : x \in TASKS /\ x # task /\ x # s.queue[q].rear
    BY <2>2, <2>3, <1>2, <1>6, TaskFacts
  <2>5. \A x \in Range(lines[p]) : n.next[x] = s.next[x] BY <2>4, <1>3 DEF Enqueued
  <2> QED BY <2>1, <2>5, <1>1, <1>2, OtherLine
<1>9. \A p, r \in QUEUES : p # r => Range(new[p]) \cap Range(new[r]) = {}
  <2>1. new[q] = long /\ \A p \in QUEUES : p # q => new[p] = lines[p] BY <1>7 DEF Reline
  <2>2. \A p \in QUEUES : p # q => Range(new[p]) \cap Range(new[q]) = {}
    BY <2>1, <1>1, <1>2, <1>4
  <2>3. \A p, r \in QUEUES : p # r /\ p # q /\ r # q => Range(new[p]) \cap Range(new[r]) = {}
    BY <2>1, <1>1
  <2> QED BY <2>2, <2>3
<1>10. n \in SchedT BY <1>3 DEF Enqueued, Relinked
<1>11. \A p \in QUEUES : IsInjective(new[p]) /\ Strung(n.queue[p], n.next, new[p])
  BY <1>1, <1>4, <1>5, <1>7, <1>8 DEF Reline
<1>12. Holds(n, new) BY <1>7, <1>9, <1>10, <1>11 DEF Holds, Reline
<1>13. Range(lines[q]) \subseteq Queued(lines) BY <1>1, QueuedFacts
<1> QED BY <1>3, <1>4, <1>7, <1>12, <1>13, Zenon DEF n, new, long, Enqueued, Reline

(* task_dequeue takes the first task of a queue, which is then in none. *)
LEMMA HoldsDequeue ==
    ASSUME NEW s, NEW lines, Holds(s, lines), NEW q \in QUEUES, lines[q] # <<>>
    PROVE  LET n   == task_dequeue(s, q).s
               new == [lines EXCEPT ![q] = Tail(lines[q])]
           IN /\ Holds(n, new) /\ Relinked(s, n)
              /\ task_dequeue(s, q).task = Head(lines[q])
              /\ Head(lines[q]) \in TASKS /\ Head(lines[q]) \in Queued(lines)
              /\ Head(lines[q]) \notin Queued(new)
              /\ Queued(new) \subseteq Queued(lines)
<1> DEFINE n    == task_dequeue(s, q).s
           rest == Tail(lines[q])
           new  == [lines EXCEPT ![q] = rest]
           first == Head(lines[q])
<1>1. /\ s \in SchedT /\ lines \in LineT
      /\ \A p \in QUEUES : IsInjective(lines[p]) /\ Strung(s.queue[p], s.next, lines[p])
      /\ \A p, r \in QUEUES : p # r => Range(lines[p]) \cap Range(lines[r]) = {}
  BY DEF Holds
<1>2. \A p \in QUEUES : lines[p] \in Seq(TASKS) BY <1>1, QueuedFacts
<1>3. s.queue[q].head # NIL BY HoldsEmpty DEF task_queue_empty
<1>4. /\ task_dequeue(s, q).task = s.queue[q].head /\ s.queue[q].head \in TASKS
      /\ Dequeued(s, q, s.queue[q].head, n)
  BY <1>1, <1>3, DequeueAssigns
<1> HIDE DEF n
<1>5. s.queue[q].head = first /\ Strung(n.queue[q], n.next, rest)
  <2> DEFINE line  == lines[q]
             ends  == s.queue[q]
             ends2 == n.queue[q]
  <2>1. line \in Seq(TASKS) /\ line # <<>> /\ IsInjective(line) /\ Strung(ends, s.next, line)
    BY <1>1, <1>2
  <2>2. /\ \A x \in TASKS : n.next[x] = IF x = ends.head THEN NIL ELSE s.next[x]
        /\ ends2.head = s.next[ends.head]
        /\ ends2.rear = IF ends.head = ends.rear THEN NIL ELSE ends.rear
    BY <1>4, Zenon DEF Dequeued
  <2> HIDE DEF line, ends, ends2
  <2>3. ends.head = Head(line) /\ Strung(ends2, n.next, Tail(line))
    BY ONLY <2>1, <2>2, DequeueLine
  <2> QED BY <2>3 DEF line, ends, ends2
<1>6. /\ rest \in Seq(TASKS) /\ IsInjective(rest) /\ first \in Range(lines[q])
      /\ Range(rest) \subseteq Range(lines[q]) /\ first \notin Range(rest)
  BY <1>1, <1>2, QueueTail
<1> HIDE DEF rest, first
<1>7. Reline(lines, q, rest, new) BY <1>1, <1>6, OneLine
<1> HIDE DEF new
<1>8. ASSUME NEW p \in QUEUES, p # q PROVE Strung(n.queue[p], n.next, new[p])
  <2>1. n.queue[p] = s.queue[p] /\ new[p] = lines[p] BY <1>4, <1>7, <1>8 DEF Dequeued, Reline
  <2>2. Range(lines[p]) \subseteq TASKS BY <1>2, QueueElements
  <2>3. Range(lines[p]) \cap Range(lines[q]) = {} BY <1>1, <1>8
  <2>5. \A x \in Range(lines[p]) : n.next[x] = s.next[x] 
    BY <2>2, <2>3, <1>4, <1>5, <1>6 DEF Dequeued
  <2> QED BY <2>1, <2>5, <1>1, <1>2, OtherLine
<1>9. \A p, r \in QUEUES : p # r => Range(new[p]) \cap Range(new[r]) = {}
  <2>1. \A p \in QUEUES : Range(new[p]) \subseteq Range(lines[p]) BY <1>6, <1>7 DEF Reline
  <2> QED BY <2>1, <1>1
<1>10. n \in SchedT BY <1>4 DEF Dequeued, Relinked
<1>11. \A p \in QUEUES : IsInjective(new[p]) /\ Strung(n.queue[p], n.next, new[p])
  BY <1>1, <1>5, <1>6, <1>7, <1>8 DEF Reline
<1>12. Holds(n, new) BY <1>7, <1>9, <1>10, <1>11 DEF Holds, Reline
<1>13. Range(lines[q]) \subseteq Queued(lines) BY <1>1, QueuedFacts
<1>14. first \notin Queued(new)
  <2>1. \A p \in QUEUES : p # q => first \notin Range(lines[p]) BY <1>1, <1>6
  <2> QED BY <2>1, <1>6, <1>7 DEF Reline
<1>15. Queued(new) \subseteq Queued(lines) BY <1>6, <1>7, <1>13 DEF Reline
<1>16. first \in TASKS /\ first \in Queued(lines) BY <1>4, <1>5, <1>6, <1>13
<1> QED BY <1>4, <1>5, <1>12, <1>14, <1>15, <1>16, Zenon DEF n, new, first, rest, Dequeued

(* No queue is longer than there are tasks. *)
LEMMA QueueFits ==
    ASSUME NEW line \in Seq(TASKS), IsInjective(line)
    PROVE  Len(line) <= MAX_TASKS
<1> DEFINE N == MAX_TASKS
           f == [i \in 0 .. N |-> line[i + 1] - 1]
<1>1. Len(line) \in Nat /\ N \in Nat BY TasksAssumption
<1> SUFFICES ASSUME N < Len(line) PROVE FALSE
  BY <1>1
<1>2. \A i \in 0 .. N : i + 1 \in 1 .. Len(line) BY <1>1
<1>3. \A i \in 1 .. Len(line) : line[i] \in 1 .. N
  <2>1. \A i \in 1 .. Len(line) : line[i] \in TASKS OBVIOUS
  <2> QED BY <2>1, Zenon DEF TASKS
<1>4. \A i \in 0 .. N : f[i] = line[i + 1] - 1 OBVIOUS
<1> HIDE DEF N, f
<1>5. \A i \in 0 .. N : line[i + 1] \in 1 .. N /\ f[i] = line[i + 1] - 1 BY <1>2, <1>3, <1>4
<1>6. \A i \in 0 .. N : f[i] \in 0 .. (N - 1)
  <2> SUFFICES ASSUME NEW i \in 0 .. N PROVE f[i] \in 0 .. (N - 1)
    OBVIOUS
  <2> DEFINE x == line[i + 1]
  <2>1. x \in 1 .. N /\ f[i] = x - 1 BY <1>5
  <2> HIDE DEF x
  <2> QED BY <2>1, <1>1
<1>7. PICK i \in 0 .. N, j \in 0 .. N : i < j /\ f[i] = f[j] BY <1>1, <1>6, Pigeonhole
<1>8. line[i + 1] = line[j + 1] /\ i + 1 # j + 1
  <2> DEFINE x == line[i + 1]
             y == line[j + 1]
  <2>1. x \in 1 .. N /\ y \in 1 .. N /\ x - 1 = y - 1 BY <1>5, <1>7
  <2> HIDE DEF x, y
  <2>2. x = y BY <2>1, <1>1
  <2> QED BY <2>2, <1>1, <1>7 DEF x, y
<1> QED BY <1>2, <1>8 DEF IsInjective

(* One turn of the loop of pm_waitqueue_dequeue_all. *)
WakeOne(x, q) ==
    IF task_queue_empty(x, q) THEN x
    ELSE task_enqueue(task_dequeue(x, q).s, RUN, task_dequeue(x, q).task)

(* The first task of q is moved behind the run queue. *)
Moved(lines, q) ==
    [[lines EXCEPT ![q] = Tail(lines[q])] EXCEPT ![RUN] = Append(lines[RUN], Head(lines[q]))]

(* Who is to run and who still waits, in this order, does not change; and   *)
(* no other queue does.                                                     *)
SameOrder(lines, new, q) ==
    /\ new[RUN] \o new[q] = lines[RUN] \o lines[q]
    /\ \A p \in QUEUES : p # q /\ p # RUN => new[p] = lines[p]
    /\ Queued(new) \subseteq Queued(lines)

(* Waking one task moves it from the wait queue behind the run queue. *)
LEMMA WakeOneHolds ==
    ASSUME NEW x, NEW lines, Holds(x, lines), NEW q \in WAIT_QUEUES, lines[q] # <<>>
    PROVE  /\ Holds(WakeOne(x, q), Moved(lines, q)) /\ Relinked(x, WakeOne(x, q))
           /\ SameOrder(lines, Moved(lines, q), q)
           /\ Len(Moved(lines, q)[q]) = Len(lines[q]) - 1
<1> DEFINE first == Head(lines[q])
           rest  == [lines EXCEPT ![q] = Tail(lines[q])]
           d     == task_dequeue(x, q).s
           new   == [rest EXCEPT ![RUN] = Append(rest[RUN], first)]
           n     == task_enqueue(d, RUN, first)
<1>0. q \in QUEUES /\ RUN \in QUEUES /\ q # RUN BY QueuesAssumption, TaskFacts
<1>1. /\ Holds(d, rest) /\ Relinked(x, d) /\ task_dequeue(x, q).task = first
      /\ first \in TASKS /\ first \in Queued(lines) /\ first \notin Queued(rest)
      /\ Queued(rest) \subseteq Queued(lines)
  BY <1>0, HoldsDequeue, ZenonT(30)
<1>2. lines \in LineT /\ rest \in LineT BY <1>1 DEF Holds
<1>3. /\ rest[q] = Tail(lines[q]) /\ \A p \in QUEUES : p # q => rest[p] = lines[p]
  BY <1>0, <1>2 DEF LineT
<1>4. lines[q] \in Seq(TASKS) /\ lines[RUN] \in Seq(TASKS) BY <1>0, <1>2, QueuedFacts
<1>5. /\ Len(Tail(lines[q])) = Len(lines[q]) - 1
      /\ Append(lines[RUN], first) \o Tail(lines[q]) = lines[RUN] \o lines[q]
  <2> DEFINE a == lines[RUN]
             b == lines[q]
  <2>1. a \in Seq(TASKS) /\ b \in Seq(TASKS) /\ b # <<>> BY <1>4
  <2> HIDE DEF a, b
  <2>2. Len(Tail(b)) = Len(b) - 1 /\ Append(a, Head(b)) \o Tail(b) = a \o b BY <2>1
  <2> QED BY <2>2 DEF a, b
<1> HIDE DEF rest, first, d
<1>6. /\ Holds(n, new) /\ Relinked(d, n) /\ Queued(new) \subseteq Queued(rest) \cup {first}
  BY <1>0, <1>1, HoldsEnqueue, Zenon
<1>7. /\ new[RUN] = Append(lines[RUN], first)
      /\ \A p \in QUEUES : p # RUN => new[p] = rest[p]
  BY <1>0, <1>2, <1>3 DEF LineT
<1>8. ~ task_queue_empty(x, q) BY <1>0, HoldsEmpty
<1>9. WakeOne(x, q) = n BY <1>1, <1>8, Zenon DEF WakeOne, d
<1>10. Moved(lines, q) = new BY <1>0, <1>3, Zenon DEF Moved, rest, first
<1> HIDE DEF new, n
<1>11. Relinked(x, n) BY <1>1, <1>6 DEF Relinked
<1>12. SameOrder(lines, new, q)
  <2>1. new[RUN] \o new[q] = lines[RUN] \o lines[q] BY <1>0, <1>3, <1>5, <1>7
  <2>2. \A p \in QUEUES : p # q /\ p # RUN => new[p] = lines[p] BY <1>3, <1>7
  <2>3. Queued(new) \subseteq Queued(lines) BY <1>1, <1>6
  <2> QED BY <2>1, <2>2, <2>3 DEF SameOrder
<1>13. Len(new[q]) = Len(lines[q]) - 1 BY <1>0, <1>3, <1>5, <1>7
<1> QED BY <1>6, <1>9, <1>10, <1>11, <1>12, <1>13

(* Any scheduler, whatever its links, stays one. *)
LEMMA WakeOneType ==
    ASSUME NEW x \in SchedT, NEW q \in WAIT_QUEUES
    PROVE  WakeOne(x, q) \in SchedT
<1>0. q \in QUEUES /\ RUN \in QUEUES BY TaskFacts
<1>1. CASE task_queue_empty(x, q) BY <1>1 DEF WakeOne
<1>2. CASE ~ task_queue_empty(x, q)
  <2>1. /\ task_dequeue(x, q).task \in TASKS
        /\ Dequeued(x, q, task_dequeue(x, q).task, task_dequeue(x, q).s)
    BY <1>0, <1>2, DequeueAssigns DEF task_queue_empty
  <2>2. task_dequeue(x, q).s \in SchedT BY <2>1 DEF Dequeued, Relinked
  <2>3. Enqueued(task_dequeue(x, q).s, RUN, task_dequeue(x, q).task, WakeOne(x, q))
    BY <1>0, <1>2, <2>1, <2>2, EnqueueAssigns, Zenon DEF WakeOne
  <2> QED BY <2>3 DEF Enqueued, Relinked
<1> QED BY <1>1, <1>2

(* The lines behind pm_waitqueue_dequeue_all. *)
Woken(lines, q) == [lines EXCEPT ![RUN] = lines[RUN] \o lines[q], ![q] = <<>>]

(* It wakes all tasks of the queue, in the order in which they came. *)
LEMMA HoldsWake ==
    ASSUME NEW s, NEW lines, Holds(s, lines), NEW q \in WAIT_QUEUES
    PROVE  /\ Holds(pm_waitqueue_dequeue_all(s, q), Woken(lines, q))
           /\ Relinked(s, pm_waitqueue_dequeue_all(s, q))
           /\ Queued(Woken(lines, q)) \subseteq Queued(lines)
<1> DEFINE N     == MAX_TASKS
           Eq(f) == f = [n \in 0 .. N |-> IF n = 0 THEN s ELSE WakeOne(f[n - 1], q)]
           after == CHOOSE f : Eq(f)
<1>0. q \in QUEUES /\ RUN \in QUEUES /\ q # RUN BY QueuesAssumption, TaskFacts
<1>1. pm_waitqueue_dequeue_all(s, q) = after[N]
  BY Zenon DEF pm_waitqueue_dequeue_all, WakeOne
<1>2. N \in Nat /\ s \in SchedT /\ lines \in LineT BY TasksAssumption DEF Holds
<1> HIDE DEF N
<1>3. \E f : Eq(f)
  <2> DEFINE G == [n \in 1 .. N |-> [x \in SchedT |-> WakeOne(x, q)]]
  <2>1. G \in [1 .. N -> [SchedT -> SchedT]] BY WakeOneType
  <2> HIDE DEF G
  <2>2. PICK f \in [0 .. N -> SchedT] : IsLoop(f, N, s, G) BY <2>1, <1>2, LoopExists
  <2>3. \A n \in 0 .. N : n # 0 => n \in 1 .. N /\ f[n - 1] \in SchedT BY <1>2
  <2>4. \A n \in 0 .. N : n # 0 => G[n][f[n - 1]] = WakeOne(f[n - 1], q) BY <2>3 DEF G
  <2>5. [n \in 0 .. N |-> IF n = 0 THEN s ELSE G[n][f[n - 1]]]
           = [n \in 0 .. N |-> IF n = 0 THEN s ELSE WakeOne(f[n - 1], q)]
    BY <2>4
  <2> QED BY <2>2, <2>5 DEF IsLoop
<1>4. Eq(after)
  <2> HIDE DEF Eq
  <2> QED BY <1>3
<1> HIDE DEF after
<1>5. after[0] = s /\ \A n \in 1 .. N : after[n] = WakeOne(after[n - 1], q) BY <1>4, <1>2
<1> HIDE DEF Eq
<1> DEFINE J(n) == /\ Relinked(s, after[n])
                   /\ \E new : /\ Holds(after[n], new) /\ SameOrder(lines, new, q)
                               /\ new[q] = <<>> \/ Len(new[q]) + n <= Len(lines[q])
<1>6. J(0)
  <2>1. Relinked(s, s) BY <1>2 DEF Relinked
  <2>2. SameOrder(lines, lines, q) BY DEF SameOrder
  <2>3. Len(lines[q]) + 0 <= Len(lines[q])
    <3>1. lines[q] \in Seq(TASKS) BY <1>0, <1>2, QueuedFacts
    <3> QED BY <3>1
  <2> QED BY <2>1, <2>2, <2>3, <1>5
<1>7. ASSUME NEW n \in Nat, n + 1 <= N, J(n) PROVE J(n + 1)
  <2>1. PICK new : /\ Holds(after[n], new) /\ SameOrder(lines, new, q)
                   /\ new[q] = <<>> \/ Len(new[q]) + n <= Len(lines[q])
    BY <1>7
  <2>2. after[n + 1] = WakeOne(after[n], q)
    <3>1. n + 1 \in 1 .. N /\ (n + 1) - 1 = n BY <1>2, <1>7
    <3> QED BY <3>1, <1>5
  <2>3. CASE new[q] = <<>>
    <3>1. task_queue_empty(after[n], q) BY <1>0, <2>1, <2>3, HoldsEmpty
    <3>2. after[n + 1] = after[n] BY <2>2, <3>1 DEF WakeOne
    <3> QED BY <3>2, <2>1, <2>3, <1>7
  <2>4. CASE new[q] # <<>>
    <3> DEFINE x  == after[n]
               y  == after[n + 1]
               mv == Moved(new, q)
    <3>1. /\ Holds(y, mv) /\ Relinked(x, y) /\ SameOrder(new, mv, q)
          /\ Len(mv[q]) = Len(new[q]) - 1
      BY <2>1, <2>2, <2>4, WakeOneHolds
    <3> HIDE DEF mv, x, y
    <3>2. SameOrder(lines, mv, q) BY <3>1, <2>1 DEF SameOrder
    <3>3. Relinked(s, y) BY <3>1, <1>7 DEF Relinked, x
    <3>4. Len(mv[q]) + (n + 1) <= Len(lines[q])
      <4>1. new[q] \in Seq(TASKS) /\ lines[q] \in Seq(TASKS) BY <1>0, <1>2, <2>1, QueuedFacts DEF Holds
      <4>2. Len(new[q]) \in Nat /\ Len(lines[q]) \in Nat BY <4>1
      <4>3. Len(mv[q]) = Len(new[q]) - 1 /\ Len(new[q]) + n <= Len(lines[q])
        BY <3>1, <2>1, <2>4
      <4> DEFINE a == Len(mv[q])
                 b == Len(new[q])
                 c == Len(lines[q])
      <4> HIDE DEF a, b, c
      <4>4. b \in Nat /\ c \in Nat /\ a = b - 1 /\ b + n <= c BY <4>2, <4>3 DEF a, b, c
      <4>5. a + (n + 1) <= c BY <4>4
      <4> QED BY <4>5 DEF a, c
    <3> QED BY <3>1, <3>2, <3>3, <3>4 DEF y
  <2> QED BY <2>3, <2>4
<1>8. J(N)
  <2> DEFINE S == {n \in Nat : n <= N => J(n)}
  <2> HIDE DEF J
  <2>1. 0 \in S BY <1>6
  <2>2. \A n \in Nat : n \in S => n + 1 \in S BY <1>7, <1>2
  <2> HIDE DEF S
  <2>3. N \in S BY <2>1, <2>2, <1>2, IndexInduction
  <2> QED BY <2>3, <1>2 DEF S
<1>9. PICK new : /\ Holds(after[N], new) /\ SameOrder(lines, new, q)
                 /\ new[q] = <<>> \/ Len(new[q]) + N <= Len(lines[q])
  BY <1>8
<1>10. /\ new \in LineT /\ \A p \in QUEUES : new[p] \in Seq(TASKS)
       /\ lines[q] \in Seq(TASKS) /\ IsInjective(lines[q]) /\ lines[RUN] \in Seq(TASKS)
  BY <1>0, <1>2, <1>9, QueuedFacts DEF Holds
<1>11. new[q] = <<>>
  <2>1. Len(lines[q]) <= N BY <1>10, QueueFits DEF N
  <2>2. Len(lines[q]) \in Nat /\ Len(new[q]) \in Nat /\ (Len(new[q]) = 0 => new[q] = <<>>)
    BY <1>0, <1>10
  <2> QED BY <2>1, <2>2, <1>2, <1>9
<1>12. new[RUN] = lines[RUN] \o lines[q]
  <2>1. new[RUN] \o <<>> = new[RUN] BY <1>0, <1>10
  <2> QED BY <2>1, <1>9, <1>11 DEF SameOrder
<1>13. new = Woken(lines, q)
  <2>1. \A p \in QUEUES : new[p] = Woken(lines, q)[p]
    BY <1>0, <1>2, <1>9, <1>11, <1>12 DEF SameOrder, Woken, LineT
  <2>2. /\ new = [p \in QUEUES |-> new[p]]
        /\ Woken(lines, q) = [p \in QUEUES |-> Woken(lines, q)[p]]
    BY <1>2, <1>10 DEF LineT, Woken
  <2> QED BY <2>1, <2>2
<1> QED BY <1>1, <1>8, <1>9, <1>13 DEF SameOrder

RowT == [queue : LineT, curr : TASKS, idle : BOOLEAN]

(* Scheduler and lines agree, but for who runs. *)
Fit(s, l, added) ==
    /\ Holds(s, l.queue) /\ l \in RowT /\ added \in TASKS
    /\ s.curr = l.curr /\ s.first = FALSE
    /\ l.curr \in 1 .. added /\ Queued(l.queue) \subseteq 1 .. added

(* The task that runs is in no queue. *)
Rep(s, l, added) ==
    /\ Fit(s, l, added)
    /\ s.idle = l.idle
    /\ ~ l.idle => l.curr \notin Queued(l.queue)

(* A scheduler is its links and who runs. *)
LEMMA HoldsLinks ==
    ASSUME NEW s, NEW n, NEW lines, Holds(s, lines), n \in SchedT,
           n.queue = s.queue, n.next = s.next
    PROVE  Holds(n, lines)
BY DEF Holds

(* pm_load_next_ready_process takes the task that is next in line. *)
LEMMA LoadNext ==
    ASSUME NEW s, NEW l, NEW added, Fit(s, l, added)
    PROVE  Rep(pm_load_next_ready_process(s), NextInLine(l), added)
<1> DEFINE n == pm_load_next_ready_process(s)
           m == NextInLine(l)
<1>1. /\ Holds(s, l.queue) /\ l \in RowT /\ added \in TASKS
      /\ s.curr = l.curr /\ s.first = FALSE
      /\ l.curr \in 1 .. added /\ Queued(l.queue) \subseteq 1 .. added
  BY DEF Fit
<1>2. s \in SchedT /\ l.queue \in LineT /\ l.curr \in TASKS BY <1>1, Zenon DEF Holds, RowT
<1>3. RUN \in QUEUES BY TaskFacts
<1>4. CASE l.queue[RUN] = <<>>
  <2>1. task_queue_empty(s, RUN) BY <1>1, <1>3, <1>4, HoldsEmpty
  <2>2. n = [s EXCEPT !.idle = TRUE] /\ m = [l EXCEPT !.idle = TRUE]
    BY <1>4, <2>1, Zenon DEF pm_load_next_ready_process, NextInLine
  <2> HIDE DEF n, m
  <2>3. /\ n \in SchedT /\ n.queue = s.queue /\ n.next = s.next /\ n.curr = s.curr
        /\ n.first = s.first /\ n.idle = TRUE
    BY <2>2, <1>2, Zenon DEF SchedT
  <2>4. m \in RowT /\ m.queue = l.queue /\ m.curr = l.curr /\ m.idle = TRUE
    BY <2>2, <1>1, Zenon DEF RowT
  <2>5. Holds(n, m.queue) BY <2>3, <2>4, <1>1, HoldsLinks
  <2>6. Fit(n, m, added) BY <2>3, <2>4, <2>5, <1>1 DEF Fit
  <2>7. Rep(n, m, added) BY <2>3, <2>4, <2>6 DEF Rep
  <2> QED BY <2>7 DEF n, m
<1>5. CASE l.queue[RUN] # <<>>
  <2> DEFINE d     == task_dequeue(s, RUN).s
             first == Head(l.queue[RUN])
             rest  == [l.queue EXCEPT ![RUN] = Tail(l.queue[RUN])]
  <2>1. ~ task_queue_empty(s, RUN) BY <1>1, <1>3, <1>5, HoldsEmpty
  <2>2. /\ Holds(d, rest) /\ Relinked(s, d) /\ task_dequeue(s, RUN).task = first
        /\ first \in TASKS /\ first \in Queued(l.queue) /\ first \notin Queued(rest)
        /\ Queued(rest) \subseteq Queued(l.queue)
    BY <1>1, <1>3, <1>5, HoldsDequeue, Zenon
  <2>3. /\ n = [d EXCEPT !.curr = first, !.idle = FALSE]
        /\ m = [l EXCEPT !.curr = first, !.queue = rest, !.idle = FALSE]
    BY <1>5, <2>1, <2>2, Zenon DEF pm_load_next_ready_process, NextInLine
  <2>4. d \in SchedT /\ d.first = FALSE /\ rest \in LineT /\ first \in Slot
    BY <1>1, <2>2 DEF Relinked, Holds, Slot
  <2> HIDE DEF d, first, rest, n, m
  <2>5. /\ n \in SchedT /\ n.queue = d.queue /\ n.next = d.next /\ n.curr = first
        /\ n.first = d.first /\ n.idle = FALSE
    BY <2>3, <2>4, Zenon DEF SchedT
  <2>6. m \in RowT /\ m.queue = rest /\ m.curr = first /\ m.idle = FALSE
    BY <2>2, <2>3, <2>4, <1>1, Zenon DEF RowT
  <2>7. Holds(n, m.queue) BY <2>2, <2>5, <2>6, HoldsLinks
  <2>8. first \in 1 .. added /\ Queued(rest) \subseteq 1 .. added BY <2>2, <1>1
  <2>9. Fit(n, m, added) BY <2>4, <2>5, <2>6, <2>7, <2>8, <1>1 DEF Fit
  <2>10. Rep(n, m, added) BY <2>2, <2>5, <2>6, <2>9 DEF Rep
  <2> QED BY <2>10 DEF n, m
<1> QED BY <1>4, <1>5

(* The running task, or a new one, goes to the end of a queue. *)
LEMMA PutInLine ==
    ASSUME NEW s, NEW l, NEW added, Fit(s, l, added), NEW q \in QUEUES,
           NEW task \in TASKS, task \notin Queued(l.queue), NEW last \in TASKS,
           added <= last, task <= last
    PROVE  LET n == task_enqueue(s, q, task)
               m == [l EXCEPT !.queue = [l.queue EXCEPT ![q] = Append(l.queue[q], task)]]
           IN /\ Fit(n, m, last) /\ m.curr = l.curr /\ m.idle = l.idle /\ n.idle = s.idle
              /\ Queued(m.queue) \subseteq Queued(l.queue) \cup {task}
<1> DEFINE n   == task_enqueue(s, q, task)
           new == [l.queue EXCEPT ![q] = Append(l.queue[q], task)]
           m   == [l EXCEPT !.queue = new]
<1>1. /\ Holds(s, l.queue) /\ l \in RowT /\ added \in TASKS
      /\ s.curr = l.curr /\ s.first = FALSE
      /\ l.curr \in 1 .. added /\ Queued(l.queue) \subseteq 1 .. added
  BY DEF Fit
<1>2. Holds(n, new) /\ Relinked(s, n) /\ Queued(new) \subseteq Queued(l.queue) \cup {task}
  BY <1>1, HoldsEnqueue, Zenon
<1>3. new \in LineT BY <1>2 DEF Holds
<1> HIDE DEF n, new
<1>4. m \in RowT /\ m.queue = new /\ m.curr = l.curr /\ m.idle = l.idle
  BY <1>1, <1>3, Zenon DEF RowT
<1> HIDE DEF m
<1>5. \A x \in 1 .. added : x \in 1 .. last
  BY <1>1, TasksAssumption DEF TASKS
<1>6. task \in 1 .. last BY TasksAssumption DEF TASKS
<1>7. Fit(n, m, last)
  BY <1>1, <1>2, <1>4, <1>5, <1>6 DEF Fit, Relinked
<1> QED BY <1>2, <1>4, <1>7 DEF Relinked, n, m, new

-----------------------------------------------------------------------------
(* A fork. *)
LEMMA ForkInLine ==
    ASSUME NEW s, NEW l, NEW added, Rep(s, l, added), ~ l.idle, added # MAX_TASKS
    PROVE  Rep(scheduler_add_task(s, added + 1),
               [l EXCEPT !.queue[RUN] = Append(@, added + 1)], added + 1)
<1> DEFINE n == task_enqueue(s, RUN, added + 1)
           m == [l EXCEPT !.queue = [l.queue EXCEPT ![RUN] = Append(l.queue[RUN], added + 1)]]
<1>1. /\ Fit(s, l, added) /\ s.idle = l.idle /\ l.curr \notin Queued(l.queue)
      /\ s.first = FALSE /\ added \in TASKS
      /\ l.curr \in 1 .. added /\ Queued(l.queue) \subseteq 1 .. added
  BY DEF Rep, Fit
<1>2. /\ added + 1 \in TASKS /\ added \in Nat /\ added <= added + 1 /\ added + 1 <= added + 1
      /\ added + 1 \notin 1 .. added
  BY <1>1, TasksAssumption DEF TASKS
<1>3. added + 1 \notin Queued(l.queue) /\ l.curr # added + 1 BY <1>1, <1>2
<1>4. /\ Fit(n, m, added + 1) /\ m.curr = l.curr /\ m.idle = l.idle /\ n.idle = s.idle
      /\ Queued(m.queue) \subseteq Queued(l.queue) \cup {added + 1}
  BY <1>1, <1>2, <1>3, TaskFacts, PutInLine, Zenon
<1>5. n = scheduler_add_task(s, added + 1) BY <1>1, Zenon DEF scheduler_add_task
<1>6. m = [l EXCEPT !.queue[RUN] = Append(@, added + 1)] BY Zenon
<1> HIDE DEF n, m
<1>7. Rep(n, m, added + 1) BY <1>1, <1>3, <1>4 DEF Rep
<1> QED BY <1>5, <1>6, <1>7, Zenon

(* A tick. *)
LEMMA TickInLine ==
    ASSUME NEW s, NEW l, NEW added, Rep(s, l, added), ~ l.idle
    PROVE  Rep(pm_scheduler_context_switch(s),
               NextInLine([l EXCEPT !.queue[RUN] = Append(@, l.curr)]), added)
<1> DEFINE n == task_enqueue(s, RUN, l.curr)
           m == [l EXCEPT !.queue = [l.queue EXCEPT ![RUN] = Append(l.queue[RUN], l.curr)]]
<1>1. /\ Fit(s, l, added) /\ s.idle = FALSE /\ l.curr \notin Queued(l.queue)
      /\ s.curr = l.curr /\ l.curr \in TASKS /\ added \in TASKS /\ l.curr \in 1 .. added
      /\ l \in RowT /\ l.queue \in LineT /\ Holds(s, l.queue)
  BY DEF Rep, Fit, RowT
<1>2. added <= added /\ l.curr <= added BY <1>1 DEF TASKS
<1>3. Fit(n, m, added) BY <1>1, <1>2, TaskFacts, PutInLine, Zenon
<1>4. m = [l EXCEPT !.queue[RUN] = Append(@, l.curr)] BY Zenon
<1>5. RUN \in QUEUES BY TaskFacts
<1>6. CASE l.queue[RUN] = <<>>
  <2>1. task_queue_empty(s, RUN) BY <1>1, <1>5, <1>6, HoldsEmpty
  <2>2. pm_scheduler_context_switch(s) = s BY <2>1 DEF pm_scheduler_context_switch
  <2>3. NextInLine(m) = l
    <3>1. m.queue = [l.queue EXCEPT ![RUN] = <<l.curr>>] /\ m.queue[RUN] = <<l.curr>>
      BY <1>1, <1>5, <1>6 DEF LineT, RowT
    <3>2. <<l.curr>> # <<>> /\ Head(<<l.curr>>) = l.curr /\ Tail(<<l.curr>>) = <<>> OBVIOUS
    <3>3. [m.queue EXCEPT ![RUN] = Tail(m.queue[RUN])] = l.queue
      BY <3>1, <3>2, <1>1, <1>5, <1>6 DEF LineT
    <3>4. NextInLine(m) = [m EXCEPT !.curr = l.curr, !.queue = l.queue, !.idle = FALSE]
      BY <3>1, <3>2, <3>3, Zenon DEF NextInLine
    <3>5. m \in RowT /\ l.idle = FALSE BY <1>1, <1>3, Zenon DEF Fit, RowT
    <3>6. \A r \in RowT : r = [queue |-> r.queue, curr |-> r.curr, idle |-> r.idle]
      BY DEF RowT
    <3> HIDE DEF m
    <3> QED BY <3>4, <3>5, <3>6, <1>1
  <2> QED BY <2>2, <2>3, <1>4, Zenon
<1>7. CASE l.queue[RUN] # <<>>
  <2>1. ~ task_queue_empty(s, RUN) BY <1>1, <1>5, <1>7, HoldsEmpty
  <2>2. pm_scheduler_context_switch(s) = pm_load_next_ready_process(n)
    BY <2>1, <1>1, Zenon DEF pm_scheduler_context_switch
  <2> HIDE DEF n, m
  <2>3. Rep(pm_load_next_ready_process(n), NextInLine(m), added) BY <1>3, LoadNext
  <2> QED BY <2>2, <2>3, <1>4, Zenon
<1> QED BY <1>6, <1>7

(* A task that waits, and another takes over. *)
LEMMA WaitInLine ==
    ASSUME NEW s, NEW l, NEW added, Rep(s, l, added), ~ l.idle, NEW q \in WAIT_QUEUES
    PROVE  Rep(pm_load_next_ready_process(pm_waitqueue_enqueue(s, q)),
               NextInLine([l EXCEPT !.queue[q] = Append(@, l.curr)]), added)
<1> DEFINE n == task_enqueue(s, q, l.curr)
           m == [l EXCEPT !.queue = [l.queue EXCEPT ![q] = Append(l.queue[q], l.curr)]]
<1>1. /\ Fit(s, l, added) /\ l.curr \notin Queued(l.queue)
      /\ s.curr = l.curr /\ l.curr \in TASKS /\ added \in TASKS /\ l.curr \in 1 .. added
  BY DEF Rep, Fit, RowT
<1>2. added <= added /\ l.curr <= added /\ q \in QUEUES BY <1>1, TaskFacts DEF TASKS
<1>3. Fit(n, m, added) BY <1>1, <1>2, PutInLine, Zenon
<1>4. m = [l EXCEPT !.queue[q] = Append(@, l.curr)] BY Zenon
<1>5. n = pm_waitqueue_enqueue(s, q) BY <1>1, Zenon DEF pm_waitqueue_enqueue
<1> HIDE DEF n, m
<1>6. Rep(pm_load_next_ready_process(n), NextInLine(m), added) BY <1>3, LoadNext
<1> QED BY <1>4, <1>5, <1>6, Zenon

(* An event wakes all that wait for it, and the first of them runs when     *)
(* nobody else does.                                                        *)
LEMMA WakeInLine ==
    ASSUME NEW s, NEW l, NEW added, Rep(s, l, added), NEW q \in WAIT_QUEUES
    PROVE  LET n == pm_waitqueue_dequeue_all(s, q)
               m == [l EXCEPT !.queue[RUN] = @ \o l.queue[q], !.queue[q] = <<>>]
           IN /\ ~ l.idle => Rep(n, m, added)
              /\ l.idle => Rep(pm_load_next_ready_process(n), NextInLine(m), added)
<1> DEFINE n == pm_waitqueue_dequeue_all(s, q)
           m == [l EXCEPT !.queue = Woken(l.queue, q)]
           w == Woken(l.queue, q)
<1>1. /\ Holds(s, l.queue) /\ l \in RowT /\ added \in TASKS
      /\ s.curr = l.curr /\ s.first = FALSE /\ s.idle = l.idle
      /\ l.curr \in 1 .. added /\ Queued(l.queue) \subseteq 1 .. added
      /\ ~ l.idle => l.curr \notin Queued(l.queue)
  BY DEF Rep, Fit
<1>2. Holds(n, w) /\ Relinked(s, n) /\ Queued(w) \subseteq Queued(l.queue)
  BY <1>1, HoldsWake
<1>3. w \in LineT BY <1>2 DEF Holds
<1>4. m = [l EXCEPT !.queue[RUN] = @ \o l.queue[q], !.queue[q] = <<>>] BY Zenon DEF Woken
<1> HIDE DEF n, w
<1>5. m \in RowT /\ m.queue = w /\ m.curr = l.curr /\ m.idle = l.idle
  BY <1>1, <1>3, Zenon DEF RowT, w
<1> HIDE DEF m
<1>6. Fit(n, m, added) BY <1>1, <1>2, <1>5 DEF Fit, Relinked
<1>7. ~ l.idle => Rep(n, m, added) BY <1>1, <1>2, <1>5, <1>6 DEF Rep, Relinked
<1>8. Rep(pm_load_next_ready_process(n), NextInLine(m), added) BY <1>6, LoadNext
<1> QED BY <1>4, <1>7, <1>8, Zenon DEF n

(* Whatever happens, to the scheduler and to the lines. *)
Forks(l, op, added) == op[1] = "fork" /\ ~ l.idle /\ added < MAX_TASKS

(* Whatever happens, the links stay those of the lines. *)
LEMMA StepInLine ==
    ASSUME NEW s, NEW l, NEW added, Rep(s, l, added), NEW op \in Ops
    PROVE  Rep(Do(s, op, added), InLine(l, op, added),
               IF Forks(l, op, added) THEN added + 1 ELSE added)
<1>1. s.idle = l.idle /\ added \in 1 .. MAX_TASKS /\ added \in Int /\ MAX_TASKS \in Int
  BY TasksAssumption DEF Rep, Fit, TASKS
<1>2. \/ op[1] = "fork" \/ op[1] = "tick"
      \/ op[1] \in {"wait", "wake"} /\ op[2] \in WAIT_QUEUES
  BY DEF Ops
<1>3. CASE op[1] = "fork"
  <2>1. /\ Do(s, op, added) = IF s.idle \/ added = MAX_TASKS THEN s
                              ELSE scheduler_add_task(s, added + 1)
        /\ InLine(l, op, added) = IF l.idle \/ added = MAX_TASKS THEN l
                                  ELSE [l EXCEPT !.queue[RUN] = Append(@, added + 1)]
    BY <1>3, Zenon DEF Do, InLine
  <2>2. CASE l.idle \/ added = MAX_TASKS
    <3>1. ~ Forks(l, op, added) BY <1>1, <2>2 DEF Forks
    <3>2. Do(s, op, added) = s /\ InLine(l, op, added) = l BY <2>1, <2>2, <1>1, Zenon
    <3> QED BY <3>1, <3>2, Zenon
  <2>3. CASE ~ l.idle /\ added # MAX_TASKS
    <3>1. Forks(l, op, added) BY <1>1, <1>3, <2>3 DEF Forks
    <3>2. /\ Do(s, op, added) = scheduler_add_task(s, added + 1)
          /\ InLine(l, op, added) = [l EXCEPT !.queue[RUN] = Append(@, added + 1)]
      BY <2>1, <2>3, <1>1, Zenon
    <3>3. Rep(scheduler_add_task(s, added + 1),
              [l EXCEPT !.queue[RUN] = Append(@, added + 1)], added + 1)
      BY <2>3, ForkInLine
    <3> QED BY <3>1, <3>2, <3>3, Zenon
  <2> QED BY <2>2, <2>3
<1>4. CASE op[1] = "tick"
  <2>1. ~ Forks(l, op, added) BY <1>4 DEF Forks
  <2>2. op[1] # "fork" BY <1>4
  <2>3. /\ Do(s, op, added) = pm_scheduler_context_switch(s)
        /\ InLine(l, op, added) = IF l.idle THEN l
                                  ELSE NextInLine([l EXCEPT !.queue[RUN] = Append(@, l.curr)])
    BY <1>4, <2>2, Zenon DEF Do, InLine
  <2>4. CASE l.idle
    <3>1. pm_scheduler_context_switch(s) = s BY <2>4, <1>1, Zenon DEF pm_scheduler_context_switch
    <3> QED BY <3>1, <2>1, <2>3, <2>4, Zenon
  <2>5. CASE ~ l.idle BY <2>1, <2>3, <2>5, TickInLine, Zenon
  <2> QED BY <2>4, <2>5
<1>5. CASE op[1] \in {"wait", "wake"} /\ op[2] \in WAIT_QUEUES
  <2> DEFINE q == op[2]
             n == pm_waitqueue_dequeue_all(s, q)
             m == [l EXCEPT !.queue[RUN] = @ \o l.queue[q], !.queue[q] = <<>>]
  <2>1. ~ Forks(l, op, added) /\ op[1] # "fork" /\ op[1] # "tick" BY <1>5 DEF Forks
  <2>2. /\ Do(s, op, added) =
             IF op[1] = "wait"
             THEN IF s.idle THEN s ELSE pm_load_next_ready_process(pm_waitqueue_enqueue(s, q))
             ELSE IF s.idle THEN pm_load_next_ready_process(n) ELSE n
        /\ InLine(l, op, added) =
             IF op[1] = "wait"
             THEN IF l.idle THEN l ELSE NextInLine([l EXCEPT !.queue[q] = Append(@, l.curr)])
             ELSE IF l.idle THEN NextInLine(m) ELSE m
    BY <2>1, Zenon DEF Do, InLine
  <2>3. CASE op[1] = "wait" /\ l.idle BY <2>1, <2>2, <2>3, <1>1, Zenon
  <2>4. CASE op[1] = "wait" /\ ~ l.idle BY <2>1, <2>2, <2>4, <1>1, <1>5, WaitInLine, Zenon
  <2>5. /\ ~ l.idle => Rep(n, m, added)
        /\ l.idle => Rep(pm_load_next_ready_process(n), NextInLine(m), added)
    BY <1>5, WakeInLine, Zenon
  <2> HIDE DEF n, m
  <2>6. CASE op[1] # "wait" BY <2>1, <2>2, <2>5, <2>6, <1>1, Zenon
  <2> QED BY <2>3, <2>4, <2>6
<1> QED BY <1>2, <1>3, <1>4, <1>5

(* The first task runs at once. *)
LEMMA FirstTask == Rep(scheduler_add_task(Idle, 1), Lines, 1)
<1> DEFINE e == [q \in QUEUES |-> <<>>]
           a == task_enqueue(Idle, RUN, 1)
           d == task_dequeue(a, RUN).s
           n == [d EXCEPT !.curr = 1, !.first = FALSE]
           one  == [e EXCEPT ![RUN] = Append(e[RUN], 1)]
           none == [one EXCEPT ![RUN] = Tail(one[RUN])]
<1>1. /\ 1 \in TASKS /\ RUN \in QUEUES /\ NIL \in Slot /\ 1 \in Slot
      /\ \A q \in QUEUES : e[q] = <<>> /\ e[q] \in Seq(TASKS)
  BY TaskFacts DEF Slot
<1>2. Idle \in SchedT /\ Idle.first = TRUE /\ Idle.idle = FALSE
      /\ \A q \in QUEUES : Idle.queue[q].head = NIL /\ Idle.queue[q].rear = NIL
  BY <1>1 DEF Idle, SchedT, QueueT
<1>3. e \in LineT /\ Queued(e) = {}
  BY <1>1, EmptyQueue DEF LineT, Queued
<1>4. Holds(Idle, e)
  <2>1. \A q \in QUEUES : Range(e[q]) = {} /\ IsInjective(e[q]) BY <1>1, EmptyQueue
  <2>2. \A q \in QUEUES : Strung(Idle.queue[q], Idle.next, e[q]) BY <1>1, <1>2 DEF Strung
  <2> QED BY <2>1, <2>2, <1>2, <1>3 DEF Holds
<1> HIDE DEF e
<1>5. Holds(a, one) /\ Relinked(Idle, a) BY <1>1, <1>3, <1>4, HoldsEnqueue, Zenon
<1>6. one \in LineT /\ one[RUN] = <<1>> /\ \A q \in QUEUES : q # RUN => one[q] = e[q]
  <2>1. Append(<<>>, 1) = <<1>> /\ <<1>> \in Seq(TASKS) BY <1>1
  <2> QED BY <2>1, <1>1, <1>3 DEF LineT
<1>7. one[RUN] # <<>> /\ Head(one[RUN]) = 1 /\ Tail(one[RUN]) = <<>>
  <2>1. <<1>> # <<>> /\ Head(<<1>>) = 1 /\ Tail(<<1>>) = <<>> OBVIOUS
  <2> QED BY <2>1, <1>6, Zenon
<1> HIDE DEF one, a
<1>8. Holds(d, none) /\ Relinked(a, d) /\ task_dequeue(a, RUN).task = 1
  <2>1. one[RUN] # <<>> BY <1>7
  <2>2. RUN \in QUEUES BY <1>1
  <2>3. Holds(d, none) /\ Relinked(a, d) /\ task_dequeue(a, RUN).task = Head(one[RUN])
    BY <2>1, <2>2, <1>5, HoldsDequeue, ZenonT(30)
  <2> QED BY <2>3, <1>7
<1>9. none = e
  <2>1. none \in LineT /\ \A q \in QUEUES : none[q] = e[q] BY <1>1, <1>6, <1>7 DEF LineT
  <2> QED BY <2>1, <1>3 DEF LineT
<1>10. scheduler_add_task(Idle, 1) = n BY <1>2, <1>8, Zenon DEF scheduler_add_task, a
<1>11. d \in SchedT /\ d.idle = FALSE BY <1>2, <1>5, <1>8 DEF Relinked
<1> HIDE DEF none, d
<1>12. /\ n \in SchedT /\ n.queue = d.queue /\ n.next = d.next /\ n.curr = 1
       /\ n.first = FALSE /\ n.idle = d.idle
  BY <1>1, <1>11, Zenon DEF SchedT
<1> HIDE DEF n
<1>13. Holds(n, e) BY <1>8, <1>9, <1>12, HoldsLinks
<1>14. Lines.queue = e /\ Lines.curr = 1 /\ Lines.idle = FALSE /\ Lines \in RowT
  BY <1>1, <1>3 DEF Lines, e, RowT
<1>15. Fit(n, Lines, 1) BY <1>1, <1>3, <1>12, <1>13, <1>14 DEF Fit
<1>16. Rep(n, Lines, 1) BY <1>3, <1>11, <1>12, <1>14, <1>15 DEF Rep
<1> QED BY <1>10, <1>16

(* After any number of events, of any kind and in any order. *)
LEMMA HistoryInLine ==
    ASSUME NEW history \in Seq(Ops)
    PROVE  LET b == After(history) IN Rep(b.s, b.l, b.added)
<1> DEFINE N == Len(history)
           c == [s |-> scheduler_add_task(Idle, 1), l |-> Lines, added |-> 1]
           step(b, n) == [s |-> Do(b.s, history[n], b.added),
                          l |-> InLine(b.l, history[n], b.added),
                          added |-> IF Forks(b.l, history[n], b.added) THEN b.added + 1 ELSE b.added]
           Eq(f) == f = [n \in 0 .. N |-> IF n = 0 THEN c ELSE step(f[n - 1], n)]
           both  == CHOOSE f : Eq(f)
           X     == {b \in [s : SchedT, l : RowT, added : TASKS] : Rep(b.s, b.l, b.added)}
<1>1. After(history) = both[N] BY Zenon DEF After, Forks
<1>2. N \in Nat /\ \A n \in 1 .. N : history[n] \in Ops OBVIOUS
<1>3. ASSUME NEW s, NEW l, NEW added, Rep(s, l, added)
      PROVE  [s |-> s, l |-> l, added |-> added] \in X
  <2>1. s \in SchedT /\ l \in RowT /\ added \in TASKS BY <1>3, Zenon DEF Rep, Fit, Holds
  <2> QED BY <2>1, <1>3
<1>4. c \in X BY <1>3, FirstTask
<1>5. ASSUME NEW n \in 1 .. N, NEW b \in X PROVE step(b, n) \in X
  <2>1. Rep(b.s, b.l, b.added) OBVIOUS
  <2> HIDE DEF X
  <2> QED BY <2>1, <1>2, <1>3, StepInLine, Zenon
<1> HIDE DEF X, c, N
<1>6. \E f : Eq(f)
  <2> DEFINE G == [n \in 1 .. N |-> [b \in X |-> step(b, n)]]
  <2>1. G \in [1 .. N -> [X -> X]]
    <3> HIDE DEF step
    <3> QED BY <1>5
  <2> HIDE DEF G
  <2>2. PICK f \in [0 .. N -> X] : IsLoop(f, N, c, G) BY <2>1, <1>2, <1>4, LoopExists
  <2>3. \A n \in 0 .. N : n # 0 => n \in 1 .. N /\ f[n - 1] \in X BY <1>2
  <2> HIDE DEF step
  <2>4. \A n \in 0 .. N : n # 0 => G[n][f[n - 1]] = step(f[n - 1], n) BY <2>3 DEF G
  <2>5. [n \in 0 .. N |-> IF n = 0 THEN c ELSE G[n][f[n - 1]]]
           = [n \in 0 .. N |-> IF n = 0 THEN c ELSE step(f[n - 1], n)]
    BY <2>4
  <2> QED BY <2>2, <2>5 DEF IsLoop
<1>7. Eq(both)
  <2> HIDE DEF Eq
  <2> QED BY <1>6
<1> HIDE DEF both, step
<1>8. both[0] = c /\ \A n \in 1 .. N : both[n] = step(both[n - 1], n) BY <1>7, <1>2
<1> HIDE DEF Eq
<1>9. both[N] \in X
  <2> DEFINE S == {n \in Nat : n <= N => both[n] \in X}
  <2>1. 0 \in S BY <1>4, <1>8
  <2>2. ASSUME NEW n \in Nat, n \in S PROVE n + 1 \in S
    <3> SUFFICES ASSUME n + 1 <= N PROVE both[n + 1] \in X
      OBVIOUS
    <3>1. n + 1 \in 1 .. N /\ (n + 1) - 1 = n /\ both[n] \in X BY <1>2, <2>2
    <3> QED BY <3>1, <1>5, <1>8
  <2> HIDE DEF S
  <2>3. N \in S BY <2>1, <2>2, <1>2, IndexInduction
  <2> QED BY <2>3, <1>2 DEF S
<1> QED BY <1>1, <1>9 DEF X

-----------------------------------------------------------------------------
(* A product grows with its first factor. *)
LEMMA TimesMonotone ==
    ASSUME NEW a \in Nat, NEW b \in Nat, NEW w \in Nat, a <= b
    PROVE  a * w <= b * w
<1>1. b - a \in Nat OBVIOUS
<1>2. (b - a) * w \in Nat BY <1>1
<1>3. b * w = (b - a) * w + a * w OBVIOUS
<1> QED BY <1>2, <1>3

(* The row of a cell. *)
LEMMA RowOf ==
    ASSUME NEW c \in Nat, NEW w \in Nat \ {0}
    PROVE  c \div w \in Nat /\ (c \div w) * w <= c /\ c < (c \div w) * w + w
OBVIOUS

(* A cell is in one row. *)
LEMMA OneRow ==
    ASSUME NEW c \in Nat, NEW w \in Nat \ {0}, NEW q \in Nat, q * w <= c, c < q * w + w
    PROVE  c \div w = q
<1> DEFINE p == c \div w
<1>1. p \in Nat /\ p * w <= c /\ c < p * w + w BY RowOf
<1> HIDE DEF p
<1>2. \A a, b \in Nat : a < b => a * w + w <= b * w
  <2> SUFFICES ASSUME NEW a \in Nat, NEW b \in Nat, a + 1 <= b PROVE a * w + w <= b * w
    OBVIOUS
  <2>1. (a + 1) * w <= b * w BY TimesMonotone
  <2>2. (a + 1) * w = a * w + w OBVIOUS
  <2> QED BY <2>1, <2>2
<1>3. p * w \in Int /\ q * w \in Int BY <1>1
<1>4. ~ p < q /\ ~ q < p BY <1>1, <1>2, <1>3
<1> QED BY <1>1, <1>4 DEF p

(* A new line below k rows. *)
LEMMA RowBelow ==
    ASSUME NEW c \in Nat, NEW k \in Nat, NEW w \in Nat \ {0}
    PROVE  ((c + k * w) \div w + 1) * w = (c \div w + 1) * w + k * w
<1> DEFINE p == c \div w
<1>1. p \in Nat /\ p * w <= c /\ c < p * w + w BY RowOf
<1> HIDE DEF p
<1>2. (p + k) * w = p * w + k * w /\ p * w \in Int /\ k * w \in Nat /\ p + k \in Nat BY <1>1
<1>3. c + k * w \in Nat /\ (p + k) * w <= c + k * w /\ c + k * w < (p + k) * w + w
  BY <1>1, <1>2
<1>4. (c + k * w) \div w = p + k BY <1>2, <1>3, OneRow
<1>5. ((p + k) + 1) * w = (p + 1) * w + k * w BY <1>1
<1> QED BY <1>4, <1>5 DEF p

(* The size of the screen. *)
LEMMA ScreenFacts ==
    /\ WIDTH \in Nat \ {0} /\ HEIGHT \in Nat /\ Cells \in Nat /\ Cells < 65536
    /\ WIDTH + WIDTH <= Cells
    /\ \A c \in 0 .. (Cells - 1) : (c \div WIDTH + 1) * WIDTH \in 0 .. Cells
<1>1. WIDTH \in Nat \ {0} /\ HEIGHT \in Nat \ {0, 1} /\ Cells < 65536 BY ScreenAssumption
<1>2. Cells \in Nat /\ HEIGHT * WIDTH = Cells BY <1>1 DEF Cells
<1>3. 2 * WIDTH <= HEIGHT * WIDTH BY <1>1, TimesMonotone
<1>4. ASSUME NEW c \in 0 .. (Cells - 1) PROVE (c \div WIDTH + 1) * WIDTH \in 0 .. Cells
  <2> DEFINE p == c \div WIDTH
  <2>1. c \in Nat /\ c < Cells BY <1>2
  <2>2. p \in Nat /\ p * WIDTH <= c BY <1>1, <2>1, RowOf
  <2> HIDE DEF p
  <2>3. ~ HEIGHT <= p
    <3> SUFFICES ASSUME HEIGHT <= p PROVE FALSE
      OBVIOUS
    <3>1. HEIGHT * WIDTH <= p * WIDTH BY <1>1, <2>2, TimesMonotone
    <3>2. p * WIDTH \in Int BY <1>1, <2>2
    <3> QED BY <3>1, <3>2, <1>2, <2>1, <2>2
  <2>4. p + 1 \in Nat /\ p + 1 <= HEIGHT BY <1>1, <2>2, <2>3
  <2>5. (p + 1) * WIDTH <= HEIGHT * WIDTH BY <1>1, <2>4, TimesMonotone
  <2>6. (p + 1) * WIDTH \in Nat BY <1>1, <2>4
  <2> QED BY <2>5, <2>6, <1>2 DEF p
<1> QED BY <1>1, <1>2, <1>3, <1>4

-----------------------------------------------------------------------------
(* A screen or a sheet, of n cells. *)
PaperT(n, Glyph) == [cursor : Int, cell : [0 .. (n - 1) -> Glyph], slides : Nat, outside : BOOLEAN]

(* What a step does to one. *)
HasPut(n, s, c, t) ==
    /\ t.cursor = s.cursor /\ t.slides = s.slides
    /\ t.outside <=> s.outside \/ s.cursor \notin 0 .. (n - 1)
    /\ \A i \in 0 .. (n - 1) : t.cell[i] = IF i = s.cursor THEN c ELSE s.cell[i]
HasMoved(s, cursor, t) ==
    t.cursor = cursor /\ t.slides = s.slides /\ t.outside = s.outside /\ t.cell = s.cell
HasSlid(s, t) ==
    /\ t.cursor = s.cursor /\ t.slides = s.slides + 1 /\ t.outside = s.outside
    /\ \A i \in 0 .. (Cells - 1) :
         t.cell[i] = IF i + WIDTH < Cells THEN s.cell[i + WIDTH] ELSE BLANK

(* What Put assigns. *)
LEMMA PutFacts ==
    ASSUME NEW n, NEW Glyph, NEW s \in PaperT(n, Glyph), NEW c \in Glyph
    PROVE  Put(s, c) \in PaperT(n, Glyph) /\ HasPut(n, s, c, Put(s, c))
<1> DEFINE cell == [i \in DOMAIN s.cell |-> IF i = s.cursor THEN c ELSE s.cell[i]]
           out  == s.outside \/ s.cursor \notin DOMAIN s.cell
           t    == [s EXCEPT !.cell = cell, !.outside = out]
<1>1. Put(s, c) = t BY Zenon DEF Put
<1>2. /\ s.cell \in [0 .. (n - 1) -> Glyph] /\ s.cursor \in Int /\ s.slides \in Nat
      /\ s.outside \in BOOLEAN
  BY Zenon DEF PaperT
<1>3. DOMAIN s.cell = 0 .. (n - 1) BY <1>2
<1>4. /\ cell \in [0 .. (n - 1) -> Glyph]
      /\ \A i \in 0 .. (n - 1) : cell[i] = IF i = s.cursor THEN c ELSE s.cell[i]
  BY <1>2, <1>3
<1>5. out \in BOOLEAN /\ (out <=> s.outside \/ s.cursor \notin 0 .. (n - 1)) BY <1>2, <1>3, Zenon
<1> HIDE DEF cell, out
<1>6. /\ t \in PaperT(n, Glyph) /\ t.cursor = s.cursor /\ t.slides = s.slides
      /\ t.outside = out /\ t.cell = cell
  BY <1>2, <1>4, <1>5, Zenon DEF PaperT
<1> HIDE DEF t
<1> QED BY <1>1, <1>4, <1>5, <1>6, Zenon DEF HasPut

(* What MoveTo assigns. *)
LEMMA MoveFacts ==
    ASSUME NEW n, NEW Glyph, NEW s \in PaperT(n, Glyph), NEW cursor \in Int
    PROVE  MoveTo(s, cursor) \in PaperT(n, Glyph) /\ HasMoved(s, cursor, MoveTo(s, cursor))
BY Zenon DEF MoveTo, PaperT, HasMoved

(* What slide_window assigns. *)
LEMMA SlideFacts ==
    ASSUME NEW Glyph, BLANK \in Glyph, NEW s \in PaperT(Cells, Glyph)
    PROVE  slide_window(s) \in PaperT(Cells, Glyph) /\ HasSlid(s, slide_window(s))
<1> DEFINE cell == [i \in 0 .. (Cells - 1) |-> IF i + WIDTH < Cells THEN s.cell[i + WIDTH] ELSE BLANK]
           more == s.slides + 1
           t    == [s EXCEPT !.cell = cell, !.slides = more]
<1>1. slide_window(s) = t BY Zenon DEF slide_window
<1>2. /\ s.cell \in [0 .. (Cells - 1) -> Glyph] /\ s.cursor \in Int /\ s.slides \in Nat
      /\ s.outside \in BOOLEAN
  BY Zenon DEF PaperT
<1>3. more \in Nat BY <1>2
<1>4. /\ cell \in [0 .. (Cells - 1) -> Glyph]
      /\ \A i \in 0 .. (Cells - 1) : cell[i] = IF i + WIDTH < Cells THEN s.cell[i + WIDTH] ELSE BLANK
  <2>1. \A i \in 0 .. (Cells - 1) : i + WIDTH < Cells => i + WIDTH \in 0 .. (Cells - 1)
    BY ScreenFacts
  <2>2. \A i \in 0 .. (Cells - 1) : i + WIDTH < Cells => s.cell[i + WIDTH] \in Glyph BY <2>1, <1>2
  <2> QED BY <2>2
<1> HIDE DEF cell
<1>5. /\ t \in PaperT(Cells, Glyph) /\ t.cursor = s.cursor /\ t.slides = more
      /\ t.outside = s.outside /\ t.cell = cell
  <2> HIDE DEF more
  <2> QED BY <1>2, <1>3, <1>4, Zenon DEF PaperT
<1> HIDE DEF t
<1> QED BY <1>1, <1>4, <1>5, Zenon DEF HasSlid

Shift(s) == s.slides * WIDTH

(* The screen s is the window on the sheet p, of `rows' rows, and below the *)
(* cursor the sheet is blank.                                               *)
View(s, p, n, rows, Glyph) ==
    /\ s \in PaperT(Cells, Glyph) /\ p \in PaperT(rows * WIDTH, Glyph)
    /\ s.cursor \in 0 .. Cells /\ s.slides <= n /\ ~ s.outside
    /\ p.cursor = s.cursor + Shift(s)
    /\ \A i \in 0 .. (Cells - 1) : s.cell[i] = p.cell[i + Shift(s)]
    /\ \A i \in 0 .. (rows * WIDTH - 1) : i >= p.cursor => p.cell[i] = BLANK

Sizes(n, rows, Glyph) == n \in Nat /\ rows \in Nat /\ n + HEIGHT <= rows /\ BLANK \in Glyph

(* The window is on the sheet. *)
LEMMA ViewFacts ==
    ASSUME NEW s, NEW p, NEW n, NEW rows, NEW Glyph,
           Sizes(n, rows, Glyph), View(s, p, n, rows, Glyph)
    PROVE  /\ Shift(s) \in Nat /\ rows * WIDTH \in Nat /\ Shift(s) + Cells <= rows * WIDTH
           /\ s.slides \in Nat /\ s.cursor \in Int /\ p.cursor \in Int
<1>1. s.slides \in Nat /\ s.slides <= n /\ s.cursor \in Int /\ p.cursor \in Int
  BY Zenon DEF View, PaperT
<1>2. n \in Nat /\ rows \in Nat /\ n + HEIGHT <= rows /\ WIDTH \in Nat /\ HEIGHT \in Nat
  BY ScreenFacts DEF Sizes
<1>3. s.slides + HEIGHT \in Nat /\ s.slides + HEIGHT <= rows BY <1>1, <1>2
<1>4. (s.slides + HEIGHT) * WIDTH <= rows * WIDTH BY <1>2, <1>3, TimesMonotone
<1>5. (s.slides + HEIGHT) * WIDTH = s.slides * WIDTH + Cells BY <1>1, <1>2 DEF Cells
<1>6. s.slides * WIDTH \in Nat /\ rows * WIDTH \in Nat BY <1>1, <1>2
<1> QED BY <1>1, <1>4, <1>5, <1>6 DEF Shift

(* Scrolling: the row that comes into view is blank on the sheet too. *)
LEMMA SlideViews ==
    ASSUME NEW s, NEW p, NEW n, NEW rows, NEW Glyph,
           Sizes(n, rows, Glyph), View(s, p, n, rows, Glyph), s.cursor >= WIDTH, n + 1 + HEIGHT <= rows
    PROVE  View(MoveTo(slide_window(s), s.cursor - WIDTH), p, n + 1, rows, Glyph)
<1> DEFINE u == slide_window(s)
           t == MoveTo(u, s.cursor - WIDTH)
<1>1. /\ s \in PaperT(Cells, Glyph) /\ p \in PaperT(rows * WIDTH, Glyph)
      /\ s.cursor \in 0 .. Cells /\ s.slides <= n /\ ~ s.outside
      /\ p.cursor = s.cursor + Shift(s) /\ BLANK \in Glyph /\ n \in Nat
  BY DEF View, Sizes
<1>2. /\ WIDTH \in Nat \ {0} /\ Cells \in Nat BY ScreenFacts
<1>3. /\ Shift(s) \in Nat /\ rows * WIDTH \in Nat /\ Shift(s) + Cells <= rows * WIDTH
      /\ s.slides \in Nat
  BY ViewFacts
<1>4. u \in PaperT(Cells, Glyph) /\ HasSlid(s, u) BY <1>1, SlideFacts
<1>5. s.cursor - WIDTH \in Int BY <1>1, <1>2
<1> HIDE DEF u
<1>6. t \in PaperT(Cells, Glyph) /\ HasMoved(u, s.cursor - WIDTH, t) BY <1>4, <1>5, MoveFacts
<1> HIDE DEF t
<1> USE DEF HasPut, HasMoved, HasSlid
<1>7. Shift(t) = Shift(s) + WIDTH BY <1>2, <1>3, <1>4, <1>6 DEF Shift
<1>8. t.cursor \in 0 .. Cells /\ t.slides <= n + 1 /\ ~ t.outside /\ p.cursor = t.cursor + Shift(t)
  BY <1>1, <1>2, <1>3, <1>4, <1>6, <1>7
<1>9. Shift(s) + WIDTH + Cells <= rows * WIDTH
  <2>1. n + 1 + HEIGHT <= rows /\ n \in Nat /\ HEIGHT \in Nat /\ rows \in Nat BY ScreenFacts DEF Sizes
  <2>2. s.slides + 1 + HEIGHT \in Nat /\ s.slides + 1 + HEIGHT <= rows BY <2>1, <1>1, <1>3
  <2>3. (s.slides + 1 + HEIGHT) * WIDTH <= rows * WIDTH BY <2>1, <2>2, <1>2, TimesMonotone
  <2>4. (s.slides + 1 + HEIGHT) * WIDTH = s.slides * WIDTH + WIDTH + Cells
    BY <2>1, <1>2, <1>3 DEF Cells
  <2> QED BY <2>3, <2>4 DEF Shift
<1>10. ASSUME NEW i \in 0 .. (Cells - 1) PROVE t.cell[i] = p.cell[i + Shift(t)]
  <2>1. i + Shift(t) = (i + WIDTH) + Shift(s) BY <1>2, <1>3, <1>7
  <2>2. CASE i + WIDTH < Cells
    <3>1. i + WIDTH \in 0 .. (Cells - 1) BY <2>2, <1>2
    <3>2. t.cell[i] = s.cell[i + WIDTH] BY <2>2, <1>4, <1>6
    <3>3. s.cell[i + WIDTH] = p.cell[(i + WIDTH) + Shift(s)] BY <3>1 DEF View
    <3> QED BY <2>1, <3>2, <3>3
  <2>3. CASE ~ i + WIDTH < Cells
    <3>1. t.cell[i] = BLANK BY <2>3, <1>4, <1>6
    <3>2. (i + WIDTH) + Shift(s) \in 0 .. (rows * WIDTH - 1) /\ (i + WIDTH) + Shift(s) >= p.cursor
      BY <2>3, <1>1, <1>2, <1>3, <1>9
    <3>3. p.cell[(i + WIDTH) + Shift(s)] = BLANK BY <3>2 DEF View
    <3> QED BY <2>1, <3>1, <3>3
  <2> QED BY <2>2, <2>3
<1> QED BY <1>1, <1>6, <1>8, <1>10, Zenon DEF View, t, u

(* One character at the same place of the window and of the sheet. *)
LEMMA WrittenInWindow ==
    ASSUME NEW cells \in Nat, NEW R \in Nat, NEW d \in Nat, d + cells <= R,
           NEW k \in 0 .. (cells - 1), NEW c, NEW S, NEW T, NEW P, NEW Q,
           \A i \in 0 .. (cells - 1) : S[i] = P[i + d],
           \A i \in 0 .. (cells - 1) : T[i] = IF i = k THEN c ELSE S[i],
           \A i \in 0 .. (R - 1) : Q[i] = IF i = k + d THEN c ELSE P[i]
    PROVE  \A i \in 0 .. (cells - 1) : T[i] = Q[i + d]
<1> SUFFICES ASSUME NEW i \in 0 .. (cells - 1) PROVE T[i] = Q[i + d]
  OBVIOUS
<1>1. i + d \in 0 .. (R - 1) /\ (i + d = k + d <=> i = k) OBVIOUS
<1>2. T[i] = IF i = k THEN c ELSE P[i + d] OBVIOUS
<1>3. Q[i + d] = IF i + d = k + d THEN c ELSE P[i + d] BY <1>1, Zenon
<1> QED BY <1>1, <1>2, <1>3, Zenon

(* A character, at both cursors. *)
LEMMA PutViews ==
    ASSUME NEW s, NEW p, NEW n, NEW rows, NEW Glyph,
           Sizes(n, rows, Glyph), View(s, p, n, rows, Glyph), s.cursor < Cells, NEW c \in Glyph
    PROVE  View(MoveTo(Put(s, c), s.cursor + 1), MoveTo(Put(p, c), p.cursor + 1), n, rows, Glyph)
<1> DEFINE u == Put(s, c)
           t == MoveTo(u, s.cursor + 1)
           v == Put(p, c)
           o == MoveTo(v, p.cursor + 1)
           R == rows * WIDTH
<1>1. /\ s \in PaperT(Cells, Glyph) /\ p \in PaperT(R, Glyph)
      /\ s.cursor \in 0 .. Cells /\ s.slides <= n /\ ~ s.outside
      /\ p.cursor = s.cursor + Shift(s)
      /\ \A i \in 0 .. (Cells - 1) : s.cell[i] = p.cell[i + Shift(s)]
      /\ \A i \in 0 .. (R - 1) : i >= p.cursor => p.cell[i] = BLANK
  BY DEF View
<1>2. Cells \in Nat BY ScreenFacts
<1>3. Shift(s) \in Nat /\ R \in Nat /\ Shift(s) + Cells <= R BY ViewFacts
<1> HIDE DEF R
<1>4. u \in PaperT(Cells, Glyph) /\ HasPut(Cells, s, c, u) BY <1>1, PutFacts
<1>5. v \in PaperT(R, Glyph) /\ HasPut(R, p, c, v) BY <1>1, PutFacts
<1> HIDE DEF u, v
<1>6. s.cursor + 1 \in Int /\ p.cursor + 1 \in Int BY <1>1, <1>3
<1>7. t \in PaperT(Cells, Glyph) /\ HasMoved(u, s.cursor + 1, t) BY <1>4, <1>6, MoveFacts
<1>8. o \in PaperT(R, Glyph) /\ HasMoved(v, p.cursor + 1, o) BY <1>5, <1>6, MoveFacts
<1> HIDE DEF t, o
<1>9. /\ t.cursor = s.cursor + 1 /\ t.slides = s.slides /\ t.cell = u.cell
      /\ t.outside <=> s.outside \/ s.cursor \notin 0 .. (Cells - 1)
      /\ o.cursor = p.cursor + 1 /\ o.cell = v.cell
  BY <1>4, <1>7, <1>8, Zenon DEF HasPut, HasMoved
<1>10. Shift(t) = Shift(s) BY <1>9, Zenon DEF Shift
<1>11. s.cursor \in 0 .. (Cells - 1) BY <1>1, <1>2
<1>12. ~ t.outside BY <1>1, <1>9, <1>11, Zenon
<1> DEFINE x == s.cursor
           d == Shift(s)
           S == s.cell
           P == p.cell
           T == t.cell
           Q == o.cell
<1>13. /\ \A i \in 0 .. (Cells - 1) : S[i] = P[i + d]
       /\ \A i \in 0 .. (Cells - 1) : T[i] = IF i = x THEN c ELSE S[i]
       /\ \A i \in 0 .. (R - 1) : Q[i] = IF i = x + d THEN c ELSE P[i]
       /\ \A i \in 0 .. (R - 1) : i >= x + d => P[i] = BLANK
  <2>1. p.cursor = x + d BY <1>1
  <2>2. \A i \in 0 .. (Cells - 1) : S[i] = P[i + d] BY <1>1
  <2>3. \A i \in 0 .. (Cells - 1) : T[i] = IF i = x THEN c ELSE S[i]
    BY <1>4, <1>9, Zenon DEF HasPut
  <2>4. \A i \in 0 .. (R - 1) : Q[i] = IF i = x + d THEN c ELSE P[i]
    BY <2>1, <1>5, <1>9, Zenon DEF HasPut
  <2>5. \A i \in 0 .. (R - 1) : i >= x + d => P[i] = BLANK BY <2>1, <1>1, Zenon
  <2> QED BY <2>2, <2>3, <2>4, <2>5, Zenon
<1>14. p.cursor = x + d /\ x \in 0 .. (Cells - 1) /\ d \in Nat /\ d + Cells <= R BY <1>1, <1>3, <1>11
<1> HIDE DEF x, d, S, P, T, Q
<1>15. \A i \in 0 .. (Cells - 1) : T[i] = Q[i + d]
  BY <1>2, <1>3, <1>13, <1>14, WrittenInWindow
<1>16. \A i \in 0 .. (R - 1) : i >= x + d + 1 => Q[i] = BLANK BY <1>3, <1>13, <1>14
<1>17. x + 1 \in 0 .. Cells /\ x + d + 1 = x + 1 + d BY <1>2, <1>14
<1>18. /\ t.cursor \in 0 .. Cells /\ t.slides <= n /\ o.cursor = t.cursor + Shift(t)
       /\ o.cursor = x + d + 1
  BY <1>1, <1>9, <1>10, <1>14, <1>17, Zenon DEF x, d
<1>19. \A i \in 0 .. (Cells - 1) : t.cell[i] = o.cell[i + Shift(t)]
  BY <1>10, <1>15, Zenon DEF T, Q, d
<1>20. \A i \in 0 .. (R - 1) : i >= o.cursor => o.cell[i] = BLANK
  <2>1. o.cursor = x + d + 1 BY <1>18
  <2> QED BY <2>1, <1>16, Zenon DEF Q
<1> QED BY <1>7, <1>8, <1>12, <1>18, <1>19, <1>20, Zenon DEF View, t, o, u, v, R

(* A new line, on both. *)
LEMMA NewLineViews ==
    ASSUME NEW s, NEW p, NEW n, NEW rows, NEW Glyph,
           Sizes(n, rows, Glyph), View(s, p, n, rows, Glyph), s.cursor < Cells
    PROVE  View(MoveTo(s, (s.cursor \div WIDTH + 1) * WIDTH),
                MoveTo(p, (p.cursor \div WIDTH + 1) * WIDTH), n, rows, Glyph)
<1> DEFINE a == (s.cursor \div WIDTH + 1) * WIDTH
           b == (p.cursor \div WIDTH + 1) * WIDTH
           t == MoveTo(s, a)
           o == MoveTo(p, b)
<1>1. /\ s \in PaperT(Cells, Glyph) /\ p \in PaperT(rows * WIDTH, Glyph)
      /\ s.cursor \in 0 .. Cells /\ s.slides <= n /\ ~ s.outside
      /\ p.cursor = s.cursor + Shift(s)
      /\ \A i \in 0 .. (Cells - 1) : s.cell[i] = p.cell[i + Shift(s)]
      /\ \A i \in 0 .. (rows * WIDTH - 1) : i >= p.cursor => p.cell[i] = BLANK
  BY DEF View
<1>2. Cells \in Nat /\ WIDTH \in Nat \ {0} BY ScreenFacts
<1>3. /\ Shift(s) \in Nat /\ s.slides \in Nat /\ rows * WIDTH \in Nat BY ViewFacts
<1>4. s.cursor \in Nat /\ s.cursor \in 0 .. (Cells - 1) /\ p.cursor \in Nat BY <1>1, <1>2, <1>3
<1>5. a \in 0 .. Cells BY <1>4, ScreenFacts
<1>6. b = a + Shift(s)
  <2> DEFINE c == s.cursor
             k == s.slides
  <2>1. c \in Nat /\ k \in Nat BY <1>3, <1>4
  <2> HIDE DEF c, k
  <2>2. ((c + k * WIDTH) \div WIDTH + 1) * WIDTH = (c \div WIDTH + 1) * WIDTH + k * WIDTH
    BY <2>1, <1>2, RowBelow
  <2>3. p.cursor = c + k * WIDTH /\ Shift(s) = k * WIDTH BY <1>1 DEF Shift, c, k
  <2> QED BY <2>2, <2>3, Zenon DEF c
<1>7. b >= p.cursor
  <2>1. s.cursor < (s.cursor \div WIDTH) * WIDTH + WIDTH /\ s.cursor \div WIDTH \in Nat BY <1>2, <1>4, RowOf
  <2>2. a = (s.cursor \div WIDTH) * WIDTH + WIDTH BY <2>1, <1>2
  <2> HIDE DEF a, b
  <2>3. a > s.cursor BY <2>1, <2>2
  <2> QED BY <2>3, <1>1, <1>3, <1>4, <1>5, <1>6
<1> HIDE DEF a, b
<1>8. a \in Int /\ b \in Int BY <1>3, <1>5, <1>6
<1>9. t \in PaperT(Cells, Glyph) /\ HasMoved(s, a, t) BY <1>1, <1>8, MoveFacts
<1>10. o \in PaperT(rows * WIDTH, Glyph) /\ HasMoved(p, b, o)
  <2> DEFINE R == rows * WIDTH
  <2>1. p \in PaperT(R, Glyph) BY <1>1
  <2> HIDE DEF R
  <2>2. o \in PaperT(R, Glyph) /\ HasMoved(p, b, o) BY <2>1, <1>8, MoveFacts
  <2> QED BY <2>2 DEF R
<1> HIDE DEF t, o
<1> USE DEF HasMoved
<1>11. Shift(t) = Shift(s) BY <1>9 DEF Shift
<1>12. \A i \in 0 .. (rows * WIDTH - 1) : i >= o.cursor => o.cell[i] = BLANK
  <2>1. \A i \in 0 .. (rows * WIDTH - 1) : i >= b => i >= p.cursor BY <1>3, <1>4, <1>7, <1>8
  <2> QED BY <2>1, <1>1, <1>10
<1> QED BY <1>1, <1>5, <1>6, <1>9, <1>10, <1>11, <1>12, Zenon DEF View, t, o, a, b

(* A backspace, on both. *)
LEMMA EraseViews ==
    ASSUME NEW s, NEW p, NEW n, NEW rows, NEW Glyph,
           Sizes(n, rows, Glyph), View(s, p, n, rows, Glyph), s.cursor > 0
    PROVE  View(Put(MoveTo(s, s.cursor - 1), BLANK), Put(MoveTo(p, p.cursor - 1), BLANK),
                n, rows, Glyph)
<1> DEFINE u == MoveTo(s, s.cursor - 1)
           t == Put(u, BLANK)
           v == MoveTo(p, p.cursor - 1)
           o == Put(v, BLANK)
           R == rows * WIDTH
<1>1. /\ s \in PaperT(Cells, Glyph) /\ p \in PaperT(R, Glyph) /\ BLANK \in Glyph
      /\ s.cursor \in 0 .. Cells /\ s.slides <= n /\ ~ s.outside
      /\ p.cursor = s.cursor + Shift(s)
      /\ \A i \in 0 .. (Cells - 1) : s.cell[i] = p.cell[i + Shift(s)]
      /\ \A i \in 0 .. (R - 1) : i >= p.cursor => p.cell[i] = BLANK
  BY DEF View, Sizes
<1>2. Cells \in Nat BY ScreenFacts
<1>3. Shift(s) \in Nat /\ R \in Nat /\ Shift(s) + Cells <= R BY ViewFacts
<1> HIDE DEF R
<1>4. s.cursor - 1 \in Int /\ p.cursor - 1 \in Int BY <1>1, <1>3
<1>5. u \in PaperT(Cells, Glyph) /\ HasMoved(s, s.cursor - 1, u) BY <1>1, <1>4, MoveFacts
<1>6. v \in PaperT(R, Glyph) /\ HasMoved(p, p.cursor - 1, v) BY <1>1, <1>4, MoveFacts
<1> HIDE DEF u, v
<1>7. t \in PaperT(Cells, Glyph) /\ HasPut(Cells, u, BLANK, t) BY <1>1, <1>5, PutFacts
<1>8. o \in PaperT(R, Glyph) /\ HasPut(R, v, BLANK, o) BY <1>1, <1>6, PutFacts
<1> HIDE DEF t, o
<1> DEFINE x == s.cursor - 1
           d == Shift(s)
           S == s.cell
           P == p.cell
           T == t.cell
           Q == o.cell
<1>9. p.cursor - 1 = x + d /\ x \in 0 .. (Cells - 1) /\ d \in Nat /\ d + Cells <= R
  BY <1>1, <1>2, <1>3
<1> HIDE DEF x
<1>10. /\ u.cursor = x /\ u.slides = s.slides /\ u.cell = S /\ u.outside = s.outside
       /\ v.cursor = x + d /\ v.cell = P
  BY <1>5, <1>6, <1>9, Zenon DEF HasMoved, x
<1>11. /\ t.cursor = x /\ t.slides = s.slides /\ o.cursor = x + d
       /\ t.outside <=> s.outside \/ x \notin 0 .. (Cells - 1)
       /\ \A i \in 0 .. (Cells - 1) : S[i] = P[i + d]
       /\ \A i \in 0 .. (Cells - 1) : T[i] = IF i = x THEN BLANK ELSE S[i]
       /\ \A i \in 0 .. (R - 1) : Q[i] = IF i = x + d THEN BLANK ELSE P[i]
  <2>1. t.cursor = x /\ t.slides = s.slides /\ o.cursor = x + d
    BY <1>7, <1>8, <1>10, Zenon DEF HasPut
  <2>2. t.outside <=> s.outside \/ x \notin 0 .. (Cells - 1) BY <1>7, <1>10, Zenon DEF HasPut
  <2>3. \A i \in 0 .. (Cells - 1) : S[i] = P[i + d] BY <1>1
  <2>4. \A i \in 0 .. (Cells - 1) : T[i] = IF i = x THEN BLANK ELSE S[i]
    BY <1>7, <1>10, Zenon DEF HasPut
  <2>5. \A i \in 0 .. (R - 1) : Q[i] = IF i = x + d THEN BLANK ELSE P[i]
    BY <1>8, <1>10, Zenon DEF HasPut
  <2> QED BY <2>1, <2>2, <2>3, <2>4, <2>5, Zenon
<1>12. Shift(t) = d BY <1>11, Zenon DEF Shift
<1>13. ~ t.outside BY <1>1, <1>9, <1>11, Zenon
<1>14. \A i \in 0 .. (R - 1) : i >= p.cursor => P[i] = BLANK BY <1>1
<1>15. p.cursor = x + d + 1 BY <1>1, <1>3, <1>9
<1> HIDE DEF d, S, P, T, Q
<1>16. \A i \in 0 .. (Cells - 1) : T[i] = Q[i + d]
  BY <1>2, <1>3, <1>9, <1>11, WrittenInWindow
<1>17. \A i \in 0 .. (R - 1) : i >= x + d => Q[i] = BLANK
  <2> SUFFICES ASSUME NEW i \in 0 .. (R - 1), i >= x + d PROVE Q[i] = BLANK
    OBVIOUS
  <2>1. i = x + d \/ i >= p.cursor BY <1>3, <1>9, <1>15
  <2>2. Q[i] = IF i = x + d THEN BLANK ELSE P[i] BY <1>11
  <2> QED BY <2>1, <2>2, <1>14
<1>18. x \in 0 .. Cells BY <1>2, <1>9
<1>19. /\ t.cursor \in 0 .. Cells /\ t.slides <= n /\ o.cursor = t.cursor + Shift(t)
       /\ \A i \in 0 .. (Cells - 1) : t.cell[i] = o.cell[i + Shift(t)]
       /\ \A i \in 0 .. (R - 1) : i >= o.cursor => o.cell[i] = BLANK
  BY <1>1, <1>11, <1>12, <1>16, <1>17, <1>18, Zenon DEF T, Q
<1> QED BY <1>7, <1>8, <1>13, <1>19, Zenon DEF View, t, o, u, v, R

(* The framebuffer leaves its cursor on the screen; the VGA console makes   *)
(* room before it writes.                                                   *)
Showing(console, s, p, n, rows, Glyph) ==
    /\ View(s, p, n, rows, Glyph)
    /\ console = "framebuffer" => s.cursor < Cells

(* One character on the sheet. *)
OnPaper(console, p, c) ==
    CASE c = NEW_LINE -> MoveTo(p, (p.cursor \div WIDTH + 1) * WIDTH)
      [] c = BACK_SPACE /\ console = "vga" -> Put(MoveTo(p, p.cursor - 1), BLANK)
      [] OTHER -> MoveTo(Put(p, c), p.cursor + 1)

OnScreen(console, s, c) ==
    IF console = "framebuffer" THEN framebuffer_char(s, c) ELSE vga_text_char(s, c)

(* Where a backspace has a cell before it. *)
Erasable(s) == s.cursor > 0 /\ (s.cursor >= Cells - 1 => s.cursor > WIDTH)

(* framebuffer_write keeps the screen a window on the paper. *)
LEMMA FramebufferShows ==
    ASSUME NEW s, NEW p, NEW n, NEW rows, NEW Glyph, NEW c \in Glyph,
           Sizes(n + 1, rows, Glyph), n \in Nat, View(s, p, n, rows, Glyph), s.cursor < Cells
    PROVE  Showing("framebuffer", framebuffer_char(s, c), OnPaper("framebuffer", p, c),
                   n + 1, rows, Glyph)
<1> DEFINE t == IF c = NEW_LINE THEN MoveTo(s, (s.cursor \div WIDTH + 1) * WIDTH)
                ELSE MoveTo(Put(s, c), s.cursor + 1)
           o == OnPaper("framebuffer", p, c)
<1>0. Sizes(n, rows, Glyph) /\ n + 1 + HEIGHT <= rows BY ScreenFacts DEF Sizes
<1>1. View(t, o, n, rows, Glyph)
  <2>1. CASE c = NEW_LINE
    <3>1. o = MoveTo(p, (p.cursor \div WIDTH + 1) * WIDTH) BY <2>1, Zenon DEF OnPaper
    <3> QED BY <2>1, <3>1, <1>0, NewLineViews, Zenon
  <2>2. CASE c # NEW_LINE
    <3>1. ~ (c = BACK_SPACE /\ "framebuffer" = "vga") OBVIOUS
    <3>2. o = MoveTo(Put(p, c), p.cursor + 1) BY <2>2, <3>1, Zenon DEF OnPaper
    <3> QED BY <2>2, <3>2, <1>0, PutViews, Zenon
  <2> QED BY <2>1, <2>2
<1>2. framebuffer_char(s, c) = IF t.cursor >= Cells THEN MoveTo(slide_window(t), t.cursor - WIDTH) ELSE t
  BY Zenon DEF framebuffer_char, slide_framebuffer
<1> HIDE DEF t, o
<1>3. t.cursor \in 0 .. Cells BY <1>1 DEF View
<1>4. /\ WIDTH \in Nat \ {0} /\ Cells \in Nat /\ WIDTH <= Cells BY ScreenFacts
<1>5. CASE t.cursor >= Cells
  <2> DEFINE u == MoveTo(slide_window(t), t.cursor - WIDTH)
  <2>1. t.cursor >= WIDTH /\ t.cursor - WIDTH < Cells /\ t.cursor - WIDTH \in Int BY <1>3, <1>4, <1>5
  <2>2. View(u, o, n + 1, rows, Glyph) BY <2>1, <1>0, <1>1, SlideViews
  <2>3. u.cursor = t.cursor - WIDTH
    <3>1. t \in PaperT(Cells, Glyph) /\ BLANK \in Glyph BY <1>0, <1>1 DEF View, Sizes
    <3>2. slide_window(t) \in PaperT(Cells, Glyph) BY <3>1, SlideFacts
    <3> QED BY <3>2, <2>1, MoveFacts DEF HasMoved
  <2> HIDE DEF u
  <2>4. Showing("framebuffer", u, o, n + 1, rows, Glyph) BY <2>1, <2>2, <2>3 DEF Showing
  <2> QED BY <2>4, <1>2, <1>5, Zenon DEF u, o
<1>6. CASE ~ t.cursor >= Cells
  <2>1. View(t, o, n + 1, rows, Glyph)
    <3>1. t.slides \in Nat /\ t.slides <= n BY <1>0, <1>1, ViewFacts DEF View
    <3>2. t.slides <= n + 1 BY <3>1
    <3> QED BY <3>2, <1>1, Zenon DEF View
  <2>2. t.cursor < Cells BY <1>3, <1>4, <1>6
  <2>3. Showing("framebuffer", t, o, n + 1, rows, Glyph) BY <2>1, <2>2 DEF Showing
  <2> QED BY <2>3, <1>2, <1>6, Zenon DEF o
<1> QED BY <1>5, <1>6

(* So does vga_text_write, although it scrolls before the last cell. *)
LEMMA VgaShows ==
    ASSUME NEW s, NEW p, NEW n, NEW rows, NEW Glyph, NEW c \in Glyph,
           Sizes(n + 1, rows, Glyph), n \in Nat, View(s, p, n, rows, Glyph),
           c = BACK_SPACE => Erasable(s)
    PROVE  Showing("vga", vga_text_char(s, c), OnPaper("vga", p, c), n + 1, rows, Glyph)
<1> DEFINE room == IF s.cursor >= Cells - 1 THEN MoveTo(slide_window(s), U16(s.cursor - WIDTH)) ELSE s
           back == MoveTo(room, U16(room.cursor - 1))
           o == OnPaper("vga", p, c)
           t == vga_text_char(s, c)
<1>0. Sizes(n, rows, Glyph) /\ n + 1 + HEIGHT <= rows BY ScreenFacts DEF Sizes
<1>1. /\ WIDTH \in Nat \ {0} /\ Cells \in Nat /\ WIDTH + WIDTH <= Cells /\ Cells < 65536
  BY ScreenFacts
<1>2. s.cursor \in 0 .. Cells /\ s \in PaperT(Cells, Glyph) /\ s.slides <= n /\ s.slides \in Nat
  BY <1>0, ViewFacts DEF View
<1>3. \A x \in 0 .. Cells : U16(x) = x BY <1>1 DEF U16
<1>4. View(room, p, n + 1, rows, Glyph) /\ room.cursor < Cells /\ (Erasable(s) => room.cursor > 0)
  <2>1. CASE s.cursor >= Cells - 1
    <3>1. s.cursor >= WIDTH /\ s.cursor - WIDTH \in 0 .. Cells /\ s.cursor - WIDTH < Cells
      BY <2>1, <1>1, <1>2
    <3>2. room = MoveTo(slide_window(s), s.cursor - WIDTH) BY <2>1, <3>1, <1>3
    <3>3. View(room, p, n + 1, rows, Glyph) BY <3>1, <3>2, <1>0, SlideViews
    <3>4. room.cursor = s.cursor - WIDTH
      <4>1. slide_window(s) \in PaperT(Cells, Glyph) BY <1>0, <1>2, SlideFacts DEF Sizes
      <4>2. s.cursor - WIDTH \in Int BY <1>1, <1>2
      <4> HIDE DEF room
      <4> QED BY <4>1, <4>2, <3>2, MoveFacts DEF HasMoved
    <3> HIDE DEF room
    <3> QED BY <2>1, <3>1, <3>3, <3>4, <1>1, <1>2 DEF Erasable
  <2>2. CASE ~ s.cursor >= Cells - 1
    <3>1. room = s BY <2>2
    <3>2. s.slides <= n + 1 BY <1>2
    <3>3. View(s, p, n + 1, rows, Glyph) BY <3>2 DEF View
    <3> HIDE DEF room
    <3> QED BY <2>2, <3>1, <3>3, <1>1, <1>2 DEF Erasable
  <2> QED BY <2>1, <2>2
<1>5. t = CASE c = NEW_LINE -> MoveTo(room, (room.cursor \div WIDTH + 1) * WIDTH)
            [] c = BACK_SPACE -> Put(back, BLANK)
            [] OTHER    -> MoveTo(Put(room, c), U16(room.cursor + 1))
  BY Zenon DEF vga_text_char
<1> HIDE DEF room, t
<1>6. room.cursor \in 0 .. Cells BY <1>4 DEF View
<1>7. NEW_LINE # BACK_SPACE BY DEF NEW_LINE, BACK_SPACE
<1>8. View(t, o, n + 1, rows, Glyph)
  <2>1. CASE c = NEW_LINE
    <3>1. o = MoveTo(p, (p.cursor \div WIDTH + 1) * WIDTH) BY <2>1, <1>7, Zenon DEF OnPaper
    <3>2. t = MoveTo(room, (room.cursor \div WIDTH + 1) * WIDTH) BY <2>1, <1>5, <1>7, Zenon
    <3> HIDE DEF o
    <3> QED BY <3>1, <3>2, <1>4, NewLineViews
  <2>2. CASE c = BACK_SPACE
    <3>1. o = Put(MoveTo(p, p.cursor - 1), BLANK) BY <2>2, <1>7, Zenon DEF OnPaper
    <3>2. t = Put(back, BLANK) BY <2>2, <1>5, <1>7, Zenon
    <3>3. room.cursor > 0 BY <2>2, <1>4
    <3>4. room.cursor - 1 \in 0 .. Cells BY <3>3, <1>1, <1>6
    <3>5. t = Put(MoveTo(room, room.cursor - 1), BLANK) BY <3>2, <3>4, <1>3
    <3> HIDE DEF o
    <3> QED BY <3>1, <3>3, <3>5, <1>4, EraseViews
  <2>3. CASE c # NEW_LINE /\ c # BACK_SPACE
    <3>1. o = MoveTo(Put(p, c), p.cursor + 1) BY <2>3, Zenon DEF OnPaper
    <3>2. t = MoveTo(Put(room, c), U16(room.cursor + 1)) BY <2>3, <1>5, Zenon
    <3>3. room.cursor + 1 \in 0 .. Cells BY <1>1, <1>4, <1>6
    <3>4. t = MoveTo(Put(room, c), room.cursor + 1) BY <3>2, <3>3, <1>3
    <3> HIDE DEF o
    <3> QED BY <3>1, <3>4, <1>4, PutViews
  <2> QED BY <2>1, <2>2, <2>3
<1> QED BY <1>8 DEF Showing, t

(* A character of any text leaves a screen a screen, and a sheet a sheet. *)
LEMMA ScreenType ==
    ASSUME NEW console, NEW Glyph, BLANK \in Glyph, NEW c \in Glyph, NEW s \in PaperT(Cells, Glyph)
    PROVE  OnScreen(console, s, c) \in PaperT(Cells, Glyph)
<1> DEFINE Ours == PaperT(Cells, Glyph)
<1>1. WIDTH \in Nat \ {0} BY ScreenFacts
<1>2. \A x \in Int : U16(x) \in Int BY DEF U16
<1>3. \A x \in Ours : x.cursor \in Int BY Zenon DEF PaperT
<1>4. \A x \in Ours : /\ x.cursor - WIDTH \in Int /\ x.cursor - 1 \in Int /\ x.cursor + 1 \in Int
                   /\ (x.cursor \div WIDTH + 1) * WIDTH \in Int
  BY <1>1, <1>3
<1>5. \A x \in Ours : \A i \in Int : MoveTo(x, i) \in Ours BY MoveFacts
<1>6. \A x \in Ours : \A g \in Glyph : Put(x, g) \in Ours BY PutFacts
<1>7. \A x \in Ours : slide_window(x) \in Ours BY SlideFacts
<1>8. s.cursor + 1 \in Int /\ s \in Ours BY <1>4
<1> HIDE DEF Ours
<1>9. framebuffer_char(s, c) \in Ours
  <2> DEFINE t == IF c = NEW_LINE THEN MoveTo(s, (s.cursor \div WIDTH + 1) * WIDTH)
                  ELSE MoveTo(Put(s, c), s.cursor + 1)
  <2>1. t \in Ours BY <1>4, <1>5, <1>6, <1>8, Zenon
  <2>2. framebuffer_char(s, c) = IF t.cursor >= Cells THEN MoveTo(slide_window(t), t.cursor - WIDTH) ELSE t
    BY Zenon DEF framebuffer_char, slide_framebuffer
  <2> HIDE DEF t
  <2> QED BY <2>1, <2>2, <1>4, <1>5, <1>7, Zenon
<1>10. vga_text_char(s, c) \in Ours
  <2> DEFINE room == IF s.cursor >= Cells - 1 THEN MoveTo(slide_window(s), U16(s.cursor - WIDTH)) ELSE s
             back == MoveTo(room, U16(room.cursor - 1))
  <2>1. room \in Ours BY <1>2, <1>4, <1>5, <1>7, <1>8, Zenon
  <2>2. vga_text_char(s, c) =
          CASE c = NEW_LINE -> MoveTo(room, (room.cursor \div WIDTH + 1) * WIDTH)
            [] c = BACK_SPACE -> Put(back, BLANK)
            [] OTHER    -> MoveTo(Put(room, c), U16(room.cursor + 1))
    BY Zenon DEF vga_text_char
  <2> HIDE DEF room
  <2>3. MoveTo(room, (room.cursor \div WIDTH + 1) * WIDTH) \in Ours BY <2>1, <1>4, <1>5, Zenon
  <2>4. Put(back, BLANK) \in Ours BY <2>1, <1>2, <1>4, <1>5, <1>6, Zenon
  <2>5. MoveTo(Put(room, c), U16(room.cursor + 1)) \in Ours BY <2>1, <1>2, <1>4, <1>5, <1>6, Zenon
  <2> HIDE DEF back
  <2> QED BY <2>2, <2>3, <2>4, <2>5
<1> QED BY <1>9, <1>10 DEF OnScreen, Ours

(* The paper keeps its type. *)
LEMMA SheetType ==
    ASSUME NEW console, NEW n, NEW Glyph, BLANK \in Glyph, NEW c \in Glyph, NEW p \in PaperT(n, Glyph)
    PROVE  OnPaper(console, p, c) \in PaperT(n, Glyph)
<1> DEFINE Ours == PaperT(n, Glyph)
<1>1. p.cursor \in Int BY Zenon DEF PaperT
<1>2. p.cursor - 1 \in Int /\ p.cursor + 1 \in Int /\ (p.cursor \div WIDTH + 1) * WIDTH \in Int
  BY <1>1, ScreenFacts
<1>3. \A x \in Ours : \A i \in Int : MoveTo(x, i) \in Ours BY MoveFacts
<1>4. \A x \in Ours : \A g \in Glyph : Put(x, g) \in Ours BY PutFacts
<1>5. p \in Ours OBVIOUS
<1> HIDE DEF Ours
<1>6. /\ MoveTo(p, (p.cursor \div WIDTH + 1) * WIDTH) \in Ours
      /\ Put(MoveTo(p, p.cursor - 1), BLANK) \in Ours /\ MoveTo(Put(p, c), p.cursor + 1) \in Ours
  BY <1>2, <1>3, <1>4, <1>5, Zenon
<1> QED BY <1>6 DEF OnPaper, Ours

(* Whatever is written, the screen is a window on it. *)
LEMMA WritingShows ==
    ASSUME NEW console \in Consoles, NEW Glyph, BLANK \in Glyph, NEW text \in Seq(Glyph),
           console = "vga" => \A n \in DOMAIN text :
               text[n] = BACK_SPACE => Erasable(Screens(console, text)[n - 1])
    PROVE  WindowOn(Write(console, text), Typed(console, text))
<1> DEFINE N == Len(text)
           rows == N + HEIGHT
           X == PaperT(Cells, Glyph)
           Y == PaperT(rows * WIDTH, Glyph)
           EqS(f) == f = [n \in 0 .. N |-> IF n = 0 THEN Cleared ELSE OnScreen(console, f[n - 1], text[n])]
           EqP(f) == f = [n \in 0 .. N |-> IF n = 0 THEN Sheet(rows) ELSE OnPaper(console, f[n - 1], text[n])]
           screen == CHOOSE f : EqS(f)
           sheet  == CHOOSE f : EqP(f)
<1>1. Screens(console, text) = screen BY Zenon DEF Screens, OnScreen
<1>2. Typed(console, text) = sheet[N] BY Zenon DEF Typed, OnPaper
<1>3. N \in Nat /\ (\A n \in 1 .. N : text[n] \in Glyph) /\ DOMAIN text = 1 .. N OBVIOUS
<1> HIDE DEF N
<1>4. rows \in Nat /\ N + HEIGHT <= rows BY <1>3, ScreenFacts
<1> HIDE DEF rows
<1>5. Cleared \in X BY ScreenFacts DEF Cleared, PaperT
<1>6. Sheet(rows) \in Y BY <1>4, ScreenFacts DEF Sheet, PaperT
<1> HIDE DEF X, Y
<1>7. \E f : EqS(f)
  <2> DEFINE G == [n \in 1 .. N |-> [s \in X |-> OnScreen(console, s, text[n])]]
  <2>1. G \in [1 .. N -> [X -> X]] BY <1>3, ScreenType DEF X
  <2> HIDE DEF G
  <2>2. PICK f \in [0 .. N -> X] : IsLoop(f, N, Cleared, G) BY <2>1, <1>3, <1>5, LoopExists
  <2>3. \A n \in 0 .. N : n # 0 => n \in 1 .. N /\ f[n - 1] \in X BY <1>3
  <2>4. \A n \in 0 .. N : n # 0 => G[n][f[n - 1]] = OnScreen(console, f[n - 1], text[n])
    BY <2>3 DEF G
  <2>5. [n \in 0 .. N |-> IF n = 0 THEN Cleared ELSE G[n][f[n - 1]]]
           = [n \in 0 .. N |-> IF n = 0 THEN Cleared ELSE OnScreen(console, f[n - 1], text[n])]
    BY <2>4
  <2> QED BY <2>2, <2>5 DEF IsLoop
<1>8. \E f : EqP(f)
  <2> DEFINE G == [n \in 1 .. N |-> [s \in Y |-> OnPaper(console, s, text[n])]]
  <2>1. G \in [1 .. N -> [Y -> Y]] BY <1>3, SheetType DEF Y
  <2> HIDE DEF G
  <2>2. PICK f \in [0 .. N -> Y] : IsLoop(f, N, Sheet(rows), G) BY <2>1, <1>3, <1>6, LoopExists
  <2>3. \A n \in 0 .. N : n # 0 => n \in 1 .. N /\ f[n - 1] \in Y BY <1>3
  <2>4. \A n \in 0 .. N : n # 0 => G[n][f[n - 1]] = OnPaper(console, f[n - 1], text[n])
    BY <2>3 DEF G
  <2>5. [n \in 0 .. N |-> IF n = 0 THEN Sheet(rows) ELSE G[n][f[n - 1]]]
           = [n \in 0 .. N |-> IF n = 0 THEN Sheet(rows) ELSE OnPaper(console, f[n - 1], text[n])]
    BY <2>4
  <2> QED BY <2>2, <2>5 DEF IsLoop
<1>9. EqS(screen) /\ EqP(sheet)
  <2> HIDE DEF EqS, EqP
  <2> QED BY <1>7, <1>8
<1> HIDE DEF screen, sheet
<1>10. screen[0] = Cleared /\ \A n \in 1 .. N : screen[n] = OnScreen(console, screen[n - 1], text[n])
  BY <1>9, <1>3
<1>11. sheet[0] = Sheet(rows) /\ \A n \in 1 .. N : sheet[n] = OnPaper(console, sheet[n - 1], text[n])
  BY <1>9, <1>3
<1> HIDE DEF EqS, EqP
<1> DEFINE J(n) == Showing(console, screen[n], sheet[n], n, rows, Glyph)
<1>12. J(0)
  <2>1. /\ Cleared.cursor = 0 /\ Cleared.slides = 0 /\ Cleared.outside = FALSE
        /\ \A i \in 0 .. (Cells - 1) : Cleared.cell[i] = BLANK
    BY DEF Cleared
  <2>2. Sheet(rows).cursor = 0 /\ \A i \in 0 .. (rows * WIDTH - 1) : Sheet(rows).cell[i] = BLANK
    BY DEF Sheet
  <2>3. Shift(Cleared) = 0 BY <2>1, ScreenFacts DEF Shift
  <2>4. HEIGHT \in Nat /\ HEIGHT <= rows /\ WIDTH \in Nat \ {0} /\ Cells \in Nat /\ WIDTH <= Cells
    BY <1>3, <1>4, ScreenFacts
  <2>5. HEIGHT * WIDTH <= rows * WIDTH /\ HEIGHT * WIDTH = Cells /\ rows * WIDTH \in Nat
    BY <2>4, <1>4, TimesMonotone DEF Cells
  <2>6. \A i \in 0 .. (Cells - 1) : i + 0 = i /\ i \in 0 .. (rows * WIDTH - 1) BY <2>4, <2>5
  <2>7. View(Cleared, Sheet(rows), 0, rows, Glyph)
    BY <2>1, <2>2, <2>3, <2>4, <2>6, <1>5, <1>6 DEF View, X, Y
  <2> QED BY <2>1, <2>4, <2>7, <1>10, <1>11 DEF Showing
<1>13. ASSUME NEW n \in Nat, n + 1 <= N, J(n) PROVE J(n + 1)
  <2>1. n + 1 \in 1 .. N /\ (n + 1) - 1 = n BY <1>3, <1>13
  <2>2. /\ screen[n + 1] = OnScreen(console, screen[n], text[n + 1])
        /\ sheet[n + 1] = OnPaper(console, sheet[n], text[n + 1]) /\ text[n + 1] \in Glyph
    BY <2>1, <1>3, <1>10, <1>11
  <2>3. Sizes(n + 1, rows, Glyph) BY <1>3, <1>4, <1>13, ScreenFacts DEF Sizes
  <2>4. CASE console = "framebuffer"
    <3>1. View(screen[n], sheet[n], n, rows, Glyph) /\ screen[n].cursor < Cells
      BY <1>13, <2>4 DEF Showing
    <3>2. screen[n + 1] = framebuffer_char(screen[n], text[n + 1]) BY <2>2, <2>4 DEF OnScreen
    <3> QED BY <3>1, <3>2, <2>2, <2>3, <2>4, FramebufferShows, Zenon
  <2>5. CASE console = "vga"
    <3>1. View(screen[n], sheet[n], n, rows, Glyph) BY <1>13 DEF Showing
    <3>2. screen[n + 1] = vga_text_char(screen[n], text[n + 1]) BY <2>2, <2>5 DEF OnScreen
    <3>3. text[n + 1] = BACK_SPACE => Erasable(screen[n]) BY <2>1, <2>5, <1>1, <1>3
    <3> QED BY <3>1, <3>2, <3>3, <2>2, <2>3, <2>5, VgaShows
  <2> QED BY <2>4, <2>5 DEF Consoles
<1>14. J(N)
  <2> DEFINE S == {n \in Nat : n <= N => J(n)}
  <2> HIDE DEF J
  <2>1. 0 \in S BY <1>12
  <2>2. \A n \in Nat : n \in S => n + 1 \in S BY <1>13, <1>3
  <2> HIDE DEF S
  <2>3. N \in S BY <2>1, <2>2, <1>3, IndexInduction
  <2> QED BY <2>3, <1>3 DEF S
<1>15. Write(console, text) = screen[N] BY <1>1 DEF Write, N
<1> DEFINE s == screen[N]
           p == sheet[N]
<1>16. View(s, p, N, rows, Glyph) BY <1>14 DEF Showing
<1>17. s.cell \in [0 .. (Cells - 1) -> Glyph] BY <1>16, Zenon DEF View, PaperT
<1> HIDE DEF s, p
<1>18. DOMAIN s.cell = 0 .. (Cells - 1) BY <1>17
<1>19. Sizes(N, rows, Glyph) BY <1>3, <1>4 DEF Sizes
<1>20. Shift(s) \in Nat /\ s.cursor \in Int BY <1>16, <1>19, ViewFacts
<1>21. WindowOn(s, p) BY <1>16, <1>18, <1>20 DEF WindowOn, View, Shift
<1> QED BY <1>2, <1>15, <1>21 DEF s, p

-----------------------------------------------------------------------------
(* A question is asked of its inputs, and answered by what the code does.   *)
Known(about, inputs, result) ==
    /\ question = about => input \in inputs
    /\ Answered(about) => output = result

PartsInv ==
    /\ Known("allocate", Requests, pmm_alloc_pages(input.used, input.count))
    /\ Known("boot", MemoryMaps, init_pmm(input))
    /\ Known("queue", Histories, After(input))
    /\ Known("write", Writings, Write(input.console, input.text))

(* A behaviour answers the question it was asked, about the input it had.   *)
LEMMA AnswersKnown == PartsSpec => []PartsInv
<1>1. PartsInit => PartsInv
  BY DEF PartsInit, PartsAsk, Ask, Elsewhere, PartsInv, Known, Answered
<1>2. PartsInv /\ [PartsNext]_vars => PartsInv'
  BY DEF PartsNext, PartsAnswer, Answer, Elsewhere, PartsInv, Known, Answered, vars
<1> QED BY <1>1, <1>2, PTL DEF PartsSpec

(* On a memory of any size and whatever is in use, pmm_alloc_pages grants   *)
(* the lowest run of free frames; asked for more than the memory, it does   *)
(* not answer.                                                              *)
THEOREM AllocatorTakesFirstFit == PartsSpec => []FirstFit
<1>1. PartsInv => FirstFit
  <2> SUFFICES ASSUME PartsInv, Answered("allocate")
               PROVE  output = IF input.count > FRAMES THEN Endless(input.used)
                               ELSE IF Fits(input.used, input.count) = {} THEN Refusal(input.used)
                               ELSE Grant(input.used, Min(Fits(input.used, input.count)), input.count)
    BY DEF FirstFit, Fits
  <2>1. input \in Requests /\ output = pmm_alloc_pages(input.used, input.count)
    BY DEF PartsInv, Known, Answered
  <2>2. ~ (input.count > FRAMES) => input.count \in 1 .. FRAMES
    BY <2>1, FramesAssumption DEF Requests
  <2>3. CASE input.count > FRAMES BY <2>1, <2>3 DEF pmm_alloc_pages
  <2>4. CASE ~ (input.count > FRAMES) BY <2>1, <2>2, <2>4, FirstFitInAnyMemory
  <2> QED BY <2>3, <2>4
<1> QED BY <1>1, AnswersKnown, PTL

(* On a memory of any size, with any memory map, init_pmm frees what is     *)
(* usable and protects everything else and its own bitmap.                  *)
THEOREM BootFreesUsable == PartsSpec => []BitmapProtectsItself
<1>1. PartsInv => BitmapProtectsItself
  <2> SUFFICES ASSUME PartsInv, Answered("boot") PROVE BitmapProtectsItself
    BY Zenon DEF BitmapProtectsItself
  <2>1. input \in MemoryMaps /\ output = init_pmm(input) BY DEF PartsInv, Known, Answered
  <2> QED BY <2>1, BootProtects
<1> QED BY <1>1, AnswersKnown, PTL

(* With any number of tasks and wait queues and behind a history of any     *)
(* length, the links of the scheduler hold together the queues they should. *)
THEOREM SchedulerKeepsLines == PartsSpec => []QueuesLinked
<1>1. PartsInv => QueuesLinked
  <2> SUFFICES ASSUME PartsInv, Answered("queue") PROVE QueuesLinked
    BY DEF QueuesLinked
  <2>1. input \in Histories /\ output = After(input)
    BY DEF PartsInv, Known, Answered
  <2>2. input \in Seq(Ops)
    <3>1. \A n \in Nat : \A h \in [1 .. n -> Ops] : h \in Seq(Ops) OBVIOUS
    <3>2. EVENTS \in Nat /\ 0 .. EVENTS \subseteq Nat BY LengthsAssumption
    <3>3. <<"fork", RUN>> \in Ops BY DEF Ops
    <3>4. [i \in 1 .. 3 |-> <<"fork", RUN>>] \in Seq(Ops) BY <3>1, <3>3
    <3>5. CASE input \in UNION {[1 .. n -> Ops] : n \in 0 .. EVENTS} BY <3>1, <3>2, <3>5, Zenon
    <3>6. CASE \E h \in [1 .. EVENTS -> Ops] : input = [i \in 1 .. 3 |-> <<"fork", RUN>>] \o h
      <4> DEFINE three == [i \in 1 .. 3 |-> <<"fork", RUN>>]
      <4> HIDE DEF three
      <4>1. PICK h \in [1 .. EVENTS -> Ops] : input = three \o h BY <3>6, Zenon DEF three
      <4>2. three \in Seq(Ops) /\ h \in Seq(Ops) BY <3>1, <3>2, <3>4 DEF three
      <4> QED BY <4>1, <4>2
    <3> QED BY <2>1, <3>5, <3>6, Zenon DEF Histories
  <2>3. Rep(output.s, output.l, output.added) BY <2>1, <2>2, HistoryInLine
  <2>4. output.s.curr = output.l.curr /\ output.s.idle = output.l.idle
        /\ Holds(output.s, output.l.queue)
    BY <2>3 DEF Rep, Fit
  <2>5. \A q \in QUEUES : LinksOf(output.s, q, output.l.queue[q])
    <3> SUFFICES ASSUME NEW q \in QUEUES PROVE LinksOf(output.s, q, output.l.queue[q])
      OBVIOUS
    <3>1. /\ output.l.queue[q] \in Seq(TASKS)
          /\ Strung(output.s.queue[q], output.s.next, output.l.queue[q])
      BY <2>4 DEF Holds, LineT
    <3> QED BY <3>1, StrungIsLinked
  <2> QED BY <2>4, <2>5 DEF QueuesLinked
<1> QED BY <1>1, AnswersKnown, PTL

(* On a screen of any size and behind a text of any length, either console  *)
(* shows the last rows of what was written.                                 *)
THEOREM ConsolesShowWindow == PartsSpec => []ScreenIsWindow
<1>1. PartsInv => ScreenIsWindow
  <2> SUFFICES ASSUME PartsInv, Answered("write")
               PROVE  WindowOn(Write(input.console, input.text), Typed(input.console, input.text))
    BY DEF ScreenIsWindow, PartsInv, Known, Answered
  <2> DEFINE Glyph == {"a", NEW_LINE, BACK_SPACE, BLANK}
  <2>1. input \in Writings BY DEF PartsInv, Known, Answered
  <2>2. /\ input.console \in Consoles /\ input.text \in Texts
        /\ NeverAbove(input.console, input.text)
    BY <2>1 DEF Writings
  <2>3. \A n \in Nat : \A t \in [1 .. n -> {"a", NEW_LINE, BACK_SPACE}] : t \in Seq(Glyph) OBVIOUS
  <2>4. 0 .. LETTERS \subseteq Nat BY LengthsAssumption
  <2>5. input.text \in Seq(Glyph) BY <2>2, <2>3, <2>4, Zenon DEF Texts
  <2>6. BLANK \in Glyph OBVIOUS
  <2>7. input.console = "vga" => \A n \in DOMAIN input.text :
            input.text[n] = BACK_SPACE => Erasable(Screens(input.console, input.text)[n - 1])
    BY <2>2, Zenon DEF NeverAbove, Erasable
  <2> HIDE DEF Glyph
  <2> QED BY <2>2, <2>5, <2>6, <2>7, WritingShows
<1> QED BY <1>1, AnswersKnown, PTL

=============================================================================
