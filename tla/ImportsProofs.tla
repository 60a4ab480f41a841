--------------------------- MODULE ImportsProofs ---------------------------
(***************************************************************************)
(* Proofs for API configurations and imports, modules Addresses, ApiTables *)
(* and Imports: addresses are decoded to what they were encoded from, for  *)
(* all sizes of segments; tables of configurations keep their types and    *)
(* their order, a lookup finds in them what core.ini says, and the core    *)
(* starts with the default of core.ini or not at all; libraries are loaded *)
(* where they should be, listed and started before use - for any libraries *)
(* and core.ini, any number of processes and imports.                      *)
(***************************************************************************)
EXTENDS Imports, FiniteSetTheorems, SequenceTheorems, WellFoundedInduction, TLAPS

-----------------------------------------------------------------------------
(* Addresses *)

(* Numbers made of a multiple and a rest have these as quotient and rest.   *)
LEMMA Quotient ==
  ASSUME NEW n \in Nat \ {0}, NEW a \in Nat, NEW r \in 0..(n - 1)
  PROVE  /\ (a * n + r) \div n = a
         /\ (a * n + r) % n = r
<1> DEFINE x == a * n + r
           q == x \div n
           m == x % n
<1>1. a * n \in Nat
  OBVIOUS
<1>2. x \in Nat
  BY <1>1
<1>3. q \in Int /\ m \in 0..(n - 1) /\ x = n * q + m
  BY <1>2
<1> HIDE DEF q, m
<1>4. a * n - n * q = m - r
  BY <1>1, <1>3
<1>5. n * (a - q) = m - r
  BY <1>3, <1>4
<1>6. a - q = 0
  <2>1. CASE a - q >= 1
    <3>1. n * (a - q) >= n
      BY <1>3, <2>1
    <3> QED
      BY <3>1, <1>3, <1>5
  <2>2. CASE a - q <= -1
    <3>1. n * (a - q) <= -n
      BY <1>3, <2>2
    <3> QED
      BY <3>1, <1>3, <1>5
  <2> QED
    BY <1>3, <2>1, <2>2
<1>7. a = q /\ m = r
  BY <1>3, <1>5, <1>6
<1> QED
  BY <1>7 DEF q, m

LEMMA Monotone ==
  ASSUME NEW n \in Nat, NEW a \in Nat, NEW b \in Nat, a <= b
  PROVE  a * n <= b * n
<1>1. PICK c \in Nat : b = a + c
  BY b = a + (b - a), b - a \in Nat
<1>2. b * n = a * n + c * n
  BY <1>1
<1>3. c * n \in Nat /\ a * n \in Nat
  BY <1>1
<1> QED
  BY <1>2, <1>3

(* An address in a library that has a segment and fits in it is taken for   *)
(* that library and that place in it, wherever the core has the library.    *)
THEOREM LibrariesAreDecoded ==
  ASSUME NEW index \in Nat \ {0}, NEW addr \in Dword, NEW handle \in Dword,
         HasSegment(index), Fits(addr, handle), ~IS_SHARED(handle)
  PROVE  LET p == encode_address(addr, index, handle)
         IN  /\ p \in Dword
             /\ KindOf(p) = "inLibrary"
             /\ LibraryOf(p) = index /\ OffsetOf(p) = addr - handle
<1> USE AddressesAssumption
<1> DEFINE p == encode_address(addr, index, handle)
           segment == ENCODED + index
           offset == addr - handle
           coded == segment * SEGMENT + offset
<1>1. /\ SEGMENT \in Nat \ {0} /\ SHARED \in Nat /\ ENCODED \in Nat /\ TOP \in Nat
      /\ FORWARDS \in 1..SEGMENT
  OBVIOUS
<1>2. segment \in Nat /\ ENCODED < segment /\ segment + 1 < TOP
  BY <1>1 DEF HasSegment
<1>3. offset \in 0..(SEGMENT - 1)
  BY DEF Fits
<1>4. /\ segment * SEGMENT \in Nat /\ TOP * SEGMENT \in Nat /\ ENCODED * SEGMENT \in Nat
      /\ SHARED * SEGMENT \in Nat
  BY <1>1, <1>2
<1>5. (segment + 1) * SEGMENT = segment * SEGMENT + SEGMENT
  BY <1>1, <1>2
<1>6. (segment + 2) * SEGMENT = segment * SEGMENT + SEGMENT + SEGMENT
  BY <1>1, <1>2
<1>7. (segment + 2) * SEGMENT <= TOP * SEGMENT
  BY <1>1, <1>2, Monotone
<1>8. /\ ENCODED * SEGMENT <= segment * SEGMENT
      /\ SHARED * SEGMENT <= ENCODED * SEGMENT
  BY <1>1, <1>2, Monotone
<1> HIDE DEF segment, offset
<1>9. /\ coded \in Nat /\ coded < TOP * SEGMENT - FORWARDS
      /\ ENCODED * SEGMENT <= coded /\ SHARED * SEGMENT <= coded
  BY <1>1, <1>3, <1>4, <1>6, <1>7, <1>8
<1>10. coded > 0
  <2>1. SEGMENT <= ENCODED * SEGMENT
    BY <1>1, Monotone, 1 <= ENCODED, 1 * SEGMENT = SEGMENT
  <2>2. coded \in Nat /\ ENCODED * SEGMENT \in Nat /\ SEGMENT \in Nat /\ SEGMENT > 0
    BY <1>1, <1>9
  <2>3. SEGMENT <= coded
    BY <1>9, <2>1, <2>2
  <2> QED
    BY <2>2, <2>3
<1>11. p = coded
  <2>1. coded % (TOP * SEGMENT) = coded
    BY <1>1, <1>4, <1>9, Quotient, 0 * (TOP * SEGMENT) + coded = coded, SMTT(30)
  <2>2. p = coded % (TOP * SEGMENT)
    BY DEF encode_address, segment, offset
  <2> QED
    BY <2>1, <2>2
<1>12. coded \div SEGMENT = segment /\ coded % SEGMENT = offset
  BY <1>1, <1>2, <1>3, Quotient
<1> HIDE DEF coded, p
<1>13. p \in Dword
  BY <1>1, <1>4, <1>9, <1>11 DEF Dword
<1>14. KindOf(p) = "inLibrary"
  BY <1>1, <1>4, <1>9, <1>10, <1>11 DEF KindOf, IsForward, IS_SHARED
<1>15. LibraryOf(p) = index /\ OffsetOf(p) = addr - handle
  BY <1>1, <1>11, <1>12 DEF LibraryOf, OffsetOf, segment, offset
<1> QED
  BY <1>13, <1>14, <1>15 DEF p

(* Of the system's own functions, those of a DLL that is not shared are kept *)
(* by their place in it, and others by an address in the shared arena, that  *)
(* of a stub if they are above it; the same holds of shared libraries there. *)
THEOREM SystemAddressesAreDecoded ==
  ASSUME NEW addr \in Dword \ {0}, ~IsForward(addr), NEW handle \in Dword, NEW index \in Nat
  PROVE  /\ ~IS_SHARED(addr) =>
              /\ encode_address(addr, 0, handle) = addr
              /\ KindOf(addr) = "inTarget"
         /\ IS_SHARED(addr) => KindOf(encode_address(addr, 0, handle)) = "absolute"
         /\ (IS_SHARED(addr) /\ addr < ENCODED * SEGMENT /\ IS_SHARED(handle)) =>
              /\ encode_address(addr, index, handle) = addr
              /\ KindOf(addr) = "absolute"
<1> USE AddressesAssumption
<1>1. /\ SHARED * SEGMENT \in Nat /\ ENCODED * SEGMENT \in Nat /\ TOP * SEGMENT \in Nat
      /\ SEGMENT \in Nat /\ addr \in Nat /\ addr # 0
  BY DEF Dword
<1>2. SHARED * SEGMENT <= ENCODED * SEGMENT
  BY Monotone
<1>3. (ENCODED + 1) * SEGMENT <= TOP * SEGMENT
  BY Monotone
<1>4. (ENCODED + 1) * SEGMENT = ENCODED * SEGMENT + SEGMENT
  OBVIOUS
<1>5. SHARED * SEGMENT >= SEGMENT
  BY Monotone, 1 * SEGMENT = SEGMENT, 1 <= SHARED
<1>6. FORWARDS \in 1..SEGMENT
  OBVIOUS
<1>7. ~IS_SHARED(addr) => encode_address(addr, 0, handle) = addr /\ KindOf(addr) = "inTarget"
  BY <1>1, <1>2 DEF IS_SHARED, encode_address, KindOf
<1>8. ASSUME NEW a \in (SHARED * SEGMENT)..(ENCODED * SEGMENT - 1)
      PROVE  KindOf(a) = "absolute"
  <2>1. ~IsForward(a)
    BY <1>1, <1>3, <1>4, <1>6, <1>8 DEF IsForward
  <2>2. a # 0
    BY <1>1, <1>5, <1>6, <1>8
  <2> QED
    BY <1>1, <1>8, <2>1, <2>2 DEF KindOf, IS_SHARED
<1>9. IS_SHARED(addr) => KindOf(encode_address(addr, 0, handle)) = "absolute"
  <2>1. CASE addr < ENCODED * SEGMENT
    BY <1>1, <1>8, <2>1 DEF IS_SHARED, encode_address
  <2>2. CASE addr >= ENCODED * SEGMENT
    <3>1. encode_address(addr, 0, handle) = Stub[addr]
      BY <1>1, <2>2 DEF encode_address
    <3> QED
      BY <3>1, <1>8, StubAssumption
  <2> QED
    BY <1>1, <2>1, <2>2
<1>10. (IS_SHARED(addr) /\ addr < ENCODED * SEGMENT /\ IS_SHARED(handle)) =>
          encode_address(addr, index, handle) = addr /\ KindOf(addr) = "absolute"
  BY <1>1, <1>8 DEF IS_SHARED, encode_address
<1> QED
  BY <1>7, <1>9, <1>10

(* An export that is forwarded comes back by the ordinal it was kept by.     *)
THEOREM ForwardsAreDecoded ==
  ASSUME NEW ordinal \in 0..(FORWARDS - 1), NEW handle \in Dword
  PROVE  LET p == encode_address(ForwardOf(ordinal), 0, handle)
         IN  p \in Dword /\ KindOf(p) = "forward" /\ OrdinalOf(p) = ordinal
<1> USE AddressesAssumption
<1>1. /\ TOP * SEGMENT \in Nat /\ SEGMENT \in Nat /\ FORWARDS \in 1..SEGMENT
      /\ 1 * SEGMENT = SEGMENT
  OBVIOUS
<1>2. 2 * SEGMENT <= TOP * SEGMENT
  BY Monotone
<1>3. ForwardOf(ordinal) \in Dword \ {0} /\ IsForward(ForwardOf(ordinal))
  BY <1>1, <1>2 DEF ForwardOf, IsForward, Dword
<1>4. encode_address(ForwardOf(ordinal), 0, handle) = ForwardOf(ordinal)
  BY <1>3 DEF encode_address
<1>5. OrdinalOf(ForwardOf(ordinal)) = ordinal
  BY <1>1 DEF OrdinalOf, ForwardOf
<1> QED
  BY <1>3, <1>4, <1>5 DEF KindOf

-----------------------------------------------------------------------------
(* Least elements, and functions defined by recursion over numbers *)

LEMMA Least ==
  ASSUME NEW S \in SUBSET Nat, S # {}
  PROVE  \E x \in S : \A y \in S : x <= y
<1>1. PICK R : R = OpToRel(<, Nat)
    BY Zenon
<1>2. IsWellFoundedOn(R, Nat)
    BY <1>1, Zenon, NatLessThanWellFounded
<1>3. PICK x \in S : \A y \in S : ~(<<y, x>> \in R)
    BY <1>2, WFMin
<1>4. \A y \in S : ~(y < x)
  <2>1. \A y \in S : y < x => <<y, x>> \in R
      BY <1>1, <1>3 DEF OpToRel
  <2>. QED BY <1>3, <2>1
<1>. QED BY <1>4

LEMMA UpTo ==
  ASSUME NEW L \in Nat, NEW N, 0 \in N, \A n \in 0..L-1 : n \in N => n + 1 \in N
  PROVE  \A n \in 0..L : n \in N
<1>1. SUFFICES ASSUME {n \in 0..L : n \notin N} # {} PROVE FALSE
    OBVIOUS
<1>2. PICK x \in {n \in 0..L : n \notin N} : \A y \in {n \in 0..L : n \notin N} : x <= y
    BY <1>1, Least, {n \in 0..L : n \notin N} \subseteq Nat
<1>3. x # 0 /\ x - 1 \in 0..L-1 /\ x - 1 \in 0..L /\ ~(x <= x - 1)
    BY <1>2
<1>4. x - 1 \in N
    BY <1>2, <1>3
<1>5. (x - 1) + 1 = x
    BY <1>2
<1>. QED BY <1>2, <1>3, <1>4, <1>5

LEMMA Minimum ==
  ASSUME NEW S \in SUBSET Nat, S # {}
  PROVE  Min(S) \in S /\ \A y \in S : Min(S) <= y
  BY Least DEF Min

LEMMA Maximum ==
  ASSUME NEW n \in Nat, NEW S \in SUBSET (0..n), S # {}
  PROVE  Max(S) \in S /\ \A y \in S : y <= Max(S)
<1>1. PICK T : T = {n - y : y \in S}
    OBVIOUS
<1>2. T \in SUBSET Nat /\ T # {}
  <2>1. \A y \in S : n - y \in Nat
      OBVIOUS
  <2>. QED BY <1>1, <2>1
<1>3. PICK x \in T : \A y \in T : x <= y
    BY <1>2, Least
<1>4. PICK m \in S : x = n - m
    BY <1>1, <1>3
<1>5. \A y \in S : m >= y
    BY <1>1, <1>3, <1>4
<1>. QED BY <1>5 DEF Max

(* What is defined of 0 and of each number by the one before is defined, and *)
(* is in each set that the steps lead to.                                    *)
Leads(L, a, T, step) ==
  a \in T[0] /\ \A k \in 1..L : \A t \in T[k - 1] : step[<<k, t>>] \in T[k]
Follows(L, a, T, step, f) ==
  /\ f = [k \in 0..L |-> f[k]] /\ f[0] = a
  /\ \A k \in 1..L : f[k] = step[<<k, f[k - 1]>>]
  /\ \A k \in 0..L : f[k] \in T[k]

LEMMA Recursion ==
  ASSUME NEW L \in Nat, NEW a, NEW T, NEW step, Leads(L, a, T, step)
  PROVE  \E f : Follows(L, a, T, step, f)
<1>0. a \in T[0] /\ \A k \in 1..L : \A t \in T[k - 1] : step[<<k, t>>] \in T[k]
    BY DEF Leads
<1> DEFINE Upto(n, f) == /\ f = [k \in 0..n |-> IF k = 0 THEN a ELSE step[<<k, f[k - 1]>>]]
                         /\ \A k \in 0..n : f[k] \in T[k]
           N == {n \in 0..L : \E f : Upto(n, f)}
<1>1. 0 \in N
  <2>1. PICK f : f = [k \in 0..0 |-> a]
      OBVIOUS
  <2>2. \A k \in 0..0 : k = 0
      OBVIOUS
  <2>3. f[0] = a /\ a \in T[0]
      BY <1>0, <2>1
  <2>4. f = [k \in 0..0 |-> IF k = 0 THEN a ELSE step[<<k, f[k - 1]>>]]
      BY <2>1, <2>2
  <2>5. Upto(0, f)
      BY <2>2, <2>3, <2>4
  <2>. QED BY <2>5
<1>2. ASSUME NEW n \in 0..L-1, n \in N PROVE n + 1 \in N
  <2>1. PICK f : Upto(n, f)
      BY <1>2
  <2>2. PICK next : next = step[<<n + 1, f[n]>>]
      OBVIOUS
  <2>3. n \in 0..n /\ n + 1 \in 1..L /\ (n + 1) - 1 = n /\ n + 1 # 0 /\ n + 1 \in 0..L
      OBVIOUS
  <2>4. next \in T[n + 1]
      BY <1>0, <2>1, <2>2, <2>3
  <2>5. PICK g : g = [k \in 0..n + 1 |-> IF k = n + 1 THEN next ELSE f[k]]
      OBVIOUS
  <2>6. \A k \in 0..n + 1 : /\ k # n + 1 => k \in 0..n
                            /\ k # 0 => k - 1 \in 0..n /\ k - 1 # n + 1 /\ k - 1 \in 0..n + 1
    <3>1. ASSUME NEW k \in 0..n + 1, k # n + 1 PROVE k \in 0..n
        BY <3>1
    <3>2. ASSUME NEW k \in 0..n + 1, k # 0
          PROVE  k - 1 \in 0..n /\ k - 1 # n + 1 /\ k - 1 \in 0..n + 1
        BY <3>2
    <3>. QED BY <3>1, <3>2
  <2>7. /\ g[n + 1] = next /\ \A k \in 0..n : g[k] = f[k]
    <3>1. \A k \in 0..n : k \in 0..n + 1 /\ k # n + 1
        OBVIOUS
    <3>. QED BY <2>5, <3>1
  <2>8. \A k \in 0..n : f[k] = IF k = 0 THEN a ELSE step[<<k, f[k - 1]>>]
      BY <2>1
  <2>9. ASSUME NEW k \in 0..n + 1
        PROVE  g[k] = (IF k = 0 THEN a ELSE step[<<k, g[k - 1]>>]) /\ g[k] \in T[k]
    <3>1. CASE k = n + 1
      <4>1. g[k - 1] = f[n]
          BY <2>3, <2>7, <3>1
      <4>. QED BY <2>2, <2>3, <2>4, <2>7, <3>1, <4>1
    <3>2. CASE k # n + 1
      <4>1. k \in 0..n /\ g[k] = f[k]
          BY <2>6, <2>7, <3>2
      <4>2. k # 0 => g[k - 1] = f[k - 1]
          BY <2>6, <2>7, <4>1
      <4>3. g[k] \in T[k]
          BY <2>1, <4>1
      <4>. QED BY <2>8, <4>1, <4>2, <4>3
    <3>. QED BY <3>1, <3>2
  <2>10. g = [k \in 0..n + 1 |-> IF k = 0 THEN a ELSE step[<<k, g[k - 1]>>]]
      BY <2>5, <2>9
  <2>11. Upto(n + 1, g)
      BY <2>9, <2>10
  <2>. QED BY <2>3, <2>11
<1>3. L \in N
  <2> HIDE DEF N
  <2>. QED BY <1>1, <1>2, UpTo
<1>4. PICK f : Upto(L, f)
    BY <1>3
<1>5. \A k \in 1..L : k \in 0..L /\ k # 0
    OBVIOUS
<1>6. 0 \in 0..L
    OBVIOUS
<1>7. f = [k \in 0..L |-> f[k]] /\ f[0] = a
    BY <1>4, <1>6
<1>8. \A k \in 1..L : f[k] = step[<<k, f[k - 1]>>]
    BY <1>4, <1>5
<1>9. \A k \in 0..L : f[k] \in T[k]
    BY <1>4
<1> HIDE DEF Upto
<1>. QED BY <1>7, <1>8, <1>9 DEF Follows

LEMMA Throughout ==
  ASSUME NEW L \in Nat, NEW T, NEW f, f[0] \in T[0],
         \A k \in 1..L : f[k - 1] \in T[k - 1] => f[k] \in T[k]
  PROVE  \A k \in 0..L : f[k] \in T[k]
<1>1. PICK N : N = {n \in 0..L : f[n] \in T[n]}
    OBVIOUS
<1>2. 0 \in N
    BY <1>1
<1>3. ASSUME NEW n \in 0..L-1, n \in N PROVE n + 1 \in N
  <2>1. n + 1 \in 1..L /\ (n + 1) - 1 = n /\ n + 1 \in 0..L
      OBVIOUS
  <2>. QED BY <1>1, <1>3, <2>1
<1>. QED BY <1>1, <1>2, <1>3, UpTo

-----------------------------------------------------------------------------
(* Libraries and overridden DLLs *)

LEMMA AppendNewHolds ==
  ASSUME NEW S, NEW s \in Seq(S), IsInjective(s), NEW x \in S
  PROVE  /\ AppendNew(s, x) \in Seq(S) /\ IsInjective(AppendNew(s, x))
         /\ Len(s) <= Len(AppendNew(s, x))
         /\ \A k \in 1..Len(s) : AppendNew(s, x)[k] = s[k]
<1>1. DOMAIN s = 1..Len(s) /\ Len(s) \in Nat
    OBVIOUS
<1>2. CASE x \in ToSet(s)
    BY <1>1, <1>2 DEF AppendNew
<1>3. CASE x \notin ToSet(s)
  <2>1. PICK u : u = Append(s, x)
      OBVIOUS
  <2>2. /\ u \in Seq(S) /\ Len(u) = Len(s) + 1 /\ DOMAIN u = 1..Len(s) + 1
        /\ u[Len(s) + 1] = x /\ \A k \in 1..Len(s) : u[k] = s[k]
      BY <2>1
  <2>3. \A k \in 1..Len(s) : s[k] # x
      BY <1>1, <1>3 DEF ToSet
  <2>4. \A k \in 1..Len(s) + 1 : k # Len(s) + 1 => k \in 1..Len(s)
      BY <1>1
  <2>5. \A a, b \in 1..Len(s) : s[a] = s[b] => a = b
      BY <1>1 DEF IsInjective
  <2>6. IsInjective(u)
    <3>1. ASSUME NEW a \in 1..Len(s) + 1, NEW b \in 1..Len(s) + 1, u[a] = u[b] PROVE a = b
        BY <2>2, <2>3, <2>4, <2>5, <3>1
    <3>. QED BY <2>2, <3>1 DEF IsInjective
  <2>7. AppendNew(s, x) = u /\ Len(s) <= Len(u)
      BY <1>1, <1>3, <2>1, <2>2 DEF AppendNew
  <2>. QED BY <2>2, <2>6, <2>7
<1>. QED BY <1>2, <1>3

LEMMA AppendNewHas ==
  ASSUME NEW S, NEW s \in Seq(S), NEW x \in S
  PROVE  x \in ToSet(AppendNew(s, x)) /\ ToSet(s) \subseteq ToSet(AppendNew(s, x))
<1>1. CASE x \in ToSet(s)
    BY <1>1 DEF AppendNew
<1>2. CASE x \notin ToSet(s)
  <2>1. PICK u : u = Append(s, x)
      OBVIOUS
  <2>2. /\ DOMAIN s = 1..Len(s) /\ Len(s) \in Nat /\ DOMAIN u = 1..Len(s) + 1
        /\ u[Len(s) + 1] = x /\ \A k \in 1..Len(s) : u[k] = s[k]
      BY <2>1
  <2>3. Len(s) + 1 \in DOMAIN u /\ \A k \in 1..Len(s) : k \in DOMAIN u
      BY <2>2
  <2>4. x \in ToSet(u) /\ ToSet(s) \subseteq ToSet(u)
      BY <2>2, <2>3 DEF ToSet
  <2>. QED BY <1>2, <2>1, <2>4 DEF AppendNew
<1>. QED BY <1>1, <1>2

LEMMA AppendAllHolds ==
  ASSUME NEW S, NEW s \in Seq(S), IsInjective(s), NEW xs \in Seq(S)
  PROVE  /\ AppendAll(s, xs) \in Seq(S) /\ IsInjective(AppendAll(s, xs))
         /\ Len(s) <= Len(AppendAll(s, xs))
         /\ \A k \in 1..Len(s) : AppendAll(s, xs)[k] = s[k]
         /\ ToSet(xs) \subseteq ToSet(AppendAll(s, xs))
<1>1. PICK L \in Nat : L = Len(xs) /\ DOMAIN xs = 1..L /\ \A k \in 1..L : xs[k] \in S
    OBVIOUS
<1>2. PICK G : G = {u \in Seq(S) : /\ IsInjective(u) /\ Len(s) <= Len(u)
                                   /\ \A k \in 1..Len(s) : u[k] = s[k]}
    OBVIOUS
<1>3. PICK T : T = [k \in 0..L |-> {u \in G : \A m \in 1..k : xs[m] \in ToSet(u)}]
    OBVIOUS
<1>4. PICK step : step = [kt \in (1..L) \X G |-> AppendNew(kt[2], xs[kt[1]])]
    OBVIOUS
<1>5. \A k \in 1..L, t \in G : step[<<k, t>>] = AppendNew(t, xs[k])
    BY <1>4
<1>6. s \in G
  <2>1. Len(s) <= Len(s)
      OBVIOUS
  <2>. QED BY <1>2, <2>1
<1>7. ASSUME NEW k \in 1..L, NEW t \in G PROVE AppendNew(t, xs[k]) \in G
  <2>1. /\ t \in Seq(S) /\ IsInjective(t) /\ Len(s) <= Len(t)
        /\ \A j \in 1..Len(s) : t[j] = s[j]
      BY <1>2
  <2>2. PICK u : u = AppendNew(t, xs[k])
      OBVIOUS
  <2>3. /\ u \in Seq(S) /\ IsInjective(u) /\ Len(t) <= Len(u)
        /\ \A j \in 1..Len(t) : u[j] = t[j]
      BY <1>1, <2>1, <2>2, AppendNewHolds
  <2>4. /\ Len(s) <= Len(u) /\ \A j \in 1..Len(s) : j \in 1..Len(t)
    <3>1. Len(s) \in Nat /\ Len(t) \in Nat /\ Len(u) \in Nat
        BY <2>1, <2>3
    <3>. QED BY <2>1, <2>3, <3>1
  <2>5. \A j \in 1..Len(s) : u[j] = s[j]
      BY <2>1, <2>3, <2>4
  <2>. QED BY <1>2, <2>2, <2>3, <2>4, <2>5
<1>8. \A k \in 1..L : k - 1 \in 0..L /\ k \in 0..L
    OBVIOUS
<1>9. /\ 0 \in 0..L /\ s \in T[0]
      /\ \A k \in 1..L : \A t \in T[k - 1] : t \in G /\ AppendNew(t, xs[k]) \in T[k]
  <2>1. 0 \in 0..L /\ \A m \in 1..0 : FALSE
      OBVIOUS
  <2>2. ASSUME NEW k \in 1..L, NEW t \in T[k - 1]
        PROVE  t \in G /\ AppendNew(t, xs[k]) \in T[k]
    <3>1. t \in G /\ \A m \in 1..k - 1 : xs[m] \in ToSet(t)
        BY <1>3, <1>8
    <3>2. t \in Seq(S) /\ xs[k] \in S
        BY <1>1, <1>2, <3>1
    <3>3. xs[k] \in ToSet(AppendNew(t, xs[k])) /\ ToSet(t) \subseteq ToSet(AppendNew(t, xs[k]))
        BY <3>2, AppendNewHas
    <3>4. \A m \in 1..k : m = k \/ m \in 1..k - 1
        OBVIOUS
    <3>5. \A m \in 1..k : xs[m] \in ToSet(AppendNew(t, xs[k]))
        BY <3>1, <3>3, <3>4
    <3>. QED BY <1>3, <1>7, <1>8, <3>1, <3>5
  <2>. QED BY <1>3, <1>6, <2>1, <2>2
<1>10. PICK f : /\ f = [k \in 0..L |-> f[k]] /\ f[0] = s
                /\ \A k \in 1..L : f[k] = step[<<k, f[k - 1]>>]
                /\ \A k \in 0..L : f[k] \in T[k]
  <2>1. Leads(L, s, T, step)
      BY <1>5, <1>9 DEF Leads
  <2>2. PICK f : Follows(L, s, T, step, f)
      BY <2>1, Recursion
  <2>. QED BY <2>2 DEF Follows
<1>11. f = [k \in 0..L |-> IF k = 0 THEN s ELSE AppendNew(f[k - 1], xs[k])]
  <2>1. ASSUME NEW k \in 0..L, k # 0
        PROVE  f[k] = AppendNew(f[k - 1], xs[k])
    <3>1. k \in 1..L /\ k - 1 \in 0..L
        BY <2>1
    <3>2. f[k - 1] \in G
        BY <1>9, <1>10, <3>1
    <3>. QED BY <1>5, <1>10, <3>1, <3>2
  <2>. QED BY <1>10, <2>1
<1> DEFINE Is(g) == g = [k \in 0..Len(xs) |-> IF k = 0 THEN s ELSE AppendNew(g[k - 1], xs[k])]
<1>12. PICK all : all = CHOOSE g : Is(g)
    OBVIOUS
<1>13. Is(all)
    BY <1>1, <1>11, <1>12
<1>14. all[0] = s /\ \A k \in 1..L : all[k] = AppendNew(all[k - 1], xs[k])
  <2>1. \A k \in 1..L : k \in 0..L /\ k # 0
      OBVIOUS
  <2>. QED BY <1>1, <1>9, <1>13, <2>1
<1>15. \A k \in 0..L : all[k] \in T[k]
  <2>1. all[0] \in T[0]
      BY <1>9, <1>14
  <2>2. \A k \in 1..L : all[k - 1] \in T[k - 1] => all[k] \in T[k]
      BY <1>9, <1>14
  <2>. QED BY <2>1, <2>2, Throughout
<1>16. AppendAll(s, xs) = all[L]
    BY <1>1, <1>12 DEF AppendAll
<1>17. AppendAll(s, xs) \in G /\ \A m \in 1..L : xs[m] \in ToSet(AppendAll(s, xs))
    BY <1>3, <1>15, <1>16, L \in 0..L
<1>18. ToSet(xs) \subseteq ToSet(AppendAll(s, xs))
    BY <1>1, <1>17 DEF ToSet
<1>. QED BY <1>2, <1>17, <1>18

-----------------------------------------------------------------------------
(* Entries that are put, taken and found *)

LEMMA Taken ==
  ASSUME NEW S, NEW s \in Seq(S), NEW m \in 1..Len(s) + 1, NEW n \in 0..Len(s), m <= n + 1
  PROVE  /\ SubSeq(s, m, n) \in Seq(S) /\ Len(SubSeq(s, m, n)) = n - m + 1
         /\ \A i \in 1..n - m + 1 : SubSeq(s, m, n)[i] = s[m + i - 1]
<1>1. m \in Int /\ n \in Int /\ Len(s) \in Nat
    OBVIOUS
<1>2. \A i \in m..n : s[i] \in S
  <2>1. \A i \in m..n : i \in 1..Len(s)
      BY <1>1
  <2>. QED BY <2>1
<1>3. PICK u : u = SubSeq(s, m, n)
    OBVIOUS
<1>4. /\ u \in Seq(S) /\ Len(u) = (IF m <= n THEN n - m + 1 ELSE 0)
      /\ \A i \in 1..n - m + 1 : u[i] = s[m + i - 1]
    BY <1>1, <1>2, <1>3, SubSeqProperties
<1>5. (IF m <= n THEN n - m + 1 ELSE 0) = n - m + 1
    BY <1>1
<1>. QED BY <1>3, <1>4, <1>5

LEMMA Inserted ==
  ASSUME NEW S, NEW s \in Seq(S), NEW k \in 1..Len(s) + 1, NEW e \in S
  PROVE  /\ InsertAt(s, k, e) \in Seq(S) /\ Len(InsertAt(s, k, e)) = Len(s) + 1
         /\ InsertAt(s, k, e)[k] = e
         /\ \A i \in 1..k - 1 : InsertAt(s, k, e)[i] = s[i]
         /\ \A i \in k + 1..Len(s) + 1 : InsertAt(s, k, e)[i] = s[i - 1]
<1>1. PICK L \in Nat : L = Len(s)
    OBVIOUS
<1>2. PICK a, b : a = SubSeq(s, 1, k - 1) /\ b = SubSeq(s, k, L)
    OBVIOUS
<1>3. /\ a \in Seq(S) /\ Len(a) = k - 1 /\ \A i \in 1..k - 1 : a[i] = s[i]
  <2>1. k - 1 \in 0..L /\ 1 \in 1..L + 1 /\ 1 <= (k - 1) + 1 /\ (k - 1) - 1 + 1 = k - 1
        /\ \A i \in 1..k - 1 : 1 + i - 1 = i
      BY <1>1
  <2>. QED BY <1>1, <1>2, <2>1, Taken
<1>4. /\ b \in Seq(S) /\ Len(b) = L - k + 1 /\ \A i \in 1..L - k + 1 : b[i] = s[k + i - 1]
  <2>1. L \in 0..L /\ k \in 1..L + 1 /\ k <= L + 1
      BY <1>1
  <2>. QED BY <1>1, <1>2, <2>1, Taken
<1>5. <<e>> \in Seq(S) /\ Len(<<e>>) = 1 /\ <<e>>[1] = e
    OBVIOUS
<1>6. PICK c : c = a \o <<e>>
    OBVIOUS
<1>7. /\ c \in Seq(S) /\ Len(c) = k /\ c[k] = e /\ \A i \in 1..k - 1 : c[i] = s[i]
  <2>1. c \in Seq(S) /\ Len(c) = Len(a) + 1
        /\ \A i \in 1..Len(a) + 1 : c[i] = IF i <= Len(a) THEN a[i] ELSE <<e>>[i - Len(a)]
      BY <1>3, <1>5, <1>6, ConcatProperties
  <2>2. (k - 1) + 1 = k /\ k - (k - 1) = 1 /\ ~(k <= k - 1) /\ k \in 1..k
        /\ \A i \in 1..k - 1 : i <= k - 1 /\ i \in 1..k
      BY <1>1
  <2>. QED BY <1>3, <1>5, <2>1, <2>2
<1>8. PICK u : u = c \o b
    OBVIOUS
<1>9. /\ u \in Seq(S) /\ Len(u) = L + 1
      /\ \A i \in 1..L + 1 : u[i] = IF i <= k THEN c[i] ELSE b[i - k]
  <2>1. /\ u \in Seq(S) /\ Len(u) = Len(c) + Len(b)
        /\ \A i \in 1..Len(c) + Len(b) : u[i] = IF i <= Len(c) THEN c[i] ELSE b[i - Len(c)]
      BY <1>4, <1>7, <1>8, ConcatProperties
  <2>2. k + (L - k + 1) = L + 1
      BY <1>1
  <2>. QED BY <1>4, <1>7, <2>1, <2>2
<1>10. u[k] = e /\ \A i \in 1..k - 1 : u[i] = s[i]
  <2>1. k \in 1..L + 1 /\ k <= k /\ \A i \in 1..k - 1 : i \in 1..L + 1 /\ i <= k
      BY <1>1
  <2>. QED BY <1>7, <1>9, <2>1
<1>11. ASSUME NEW i \in k + 1..L + 1 PROVE u[i] = s[i - 1]
  <2>1. i \in 1..L + 1 /\ ~(i <= k) /\ i - k \in 1..L - k + 1 /\ k + (i - k) - 1 = i - 1
      BY <1>1
  <2>. QED BY <1>4, <1>9, <2>1
<1>12. InsertAt(s, k, e) = u
    BY <1>1, <1>2, <1>6, <1>8 DEF InsertAt
<1>. QED BY <1>1, <1>9, <1>10, <1>11, <1>12

LEMMA Removed ==
  ASSUME NEW S, NEW s \in Seq(S), NEW k \in 1..Len(s)
  PROVE  /\ RemoveAt(s, k) \in Seq(S) /\ Len(RemoveAt(s, k)) = Len(s) - 1
         /\ \A i \in 1..k - 1 : RemoveAt(s, k)[i] = s[i]
         /\ \A i \in k..Len(s) - 1 : RemoveAt(s, k)[i] = s[i + 1]
<1>1. PICK L \in Nat : L = Len(s)
    OBVIOUS
<1>2. PICK a, b : a = SubSeq(s, 1, k - 1) /\ b = SubSeq(s, k + 1, L)
    OBVIOUS
<1>3. /\ a \in Seq(S) /\ Len(a) = k - 1 /\ \A i \in 1..k - 1 : a[i] = s[i]
  <2>1. k - 1 \in 0..L /\ 1 \in 1..L + 1 /\ 1 <= (k - 1) + 1 /\ (k - 1) - 1 + 1 = k - 1
        /\ \A i \in 1..k - 1 : 1 + i - 1 = i
      BY <1>1
  <2>2. k - 1 \in 0..Len(s) /\ 1 \in 1..Len(s) + 1
      BY <1>1, <2>1
  <2>3. /\ SubSeq(s, 1, k - 1) \in Seq(S) /\ Len(SubSeq(s, 1, k - 1)) = (k - 1) - 1 + 1
        /\ \A i \in 1..(k - 1) - 1 + 1 : SubSeq(s, 1, k - 1)[i] = s[1 + i - 1]
      BY <2>1, <2>2, Taken
  <2>. QED BY <1>2, <2>1, <2>3
<1>4. /\ b \in Seq(S) /\ Len(b) = L - k /\ \A i \in 1..L - k : b[i] = s[k + i]
  <2>1. L \in 0..L /\ k + 1 \in 1..L + 1 /\ k + 1 <= L + 1 /\ L - (k + 1) + 1 = L - k
        /\ \A i \in 1..L - k : (k + 1) + i - 1 = k + i
      BY <1>1
  <2>2. L \in 0..Len(s) /\ k + 1 \in 1..Len(s) + 1
      BY <1>1, <2>1
  <2>3. /\ SubSeq(s, k + 1, L) \in Seq(S) /\ Len(SubSeq(s, k + 1, L)) = L - (k + 1) + 1
        /\ \A i \in 1..L - (k + 1) + 1 : SubSeq(s, k + 1, L)[i] = s[(k + 1) + i - 1]
      BY <2>1, <2>2, Taken
  <2>. QED BY <1>2, <2>1, <2>3
<1>5. PICK u : u = a \o b
    OBVIOUS
<1>6. /\ u \in Seq(S) /\ Len(u) = L - 1
      /\ \A i \in 1..L - 1 : u[i] = IF i <= k - 1 THEN a[i] ELSE b[i - (k - 1)]
  <2>1. /\ u \in Seq(S) /\ Len(u) = Len(a) + Len(b)
        /\ \A i \in 1..Len(a) + Len(b) : u[i] = IF i <= Len(a) THEN a[i] ELSE b[i - Len(a)]
      BY <1>3, <1>4, <1>5, ConcatProperties
  <2>2. (k - 1) + (L - k) = L - 1
      BY <1>1
  <2>. QED BY <1>3, <1>4, <2>1, <2>2
<1>7. ASSUME NEW i \in 1..k - 1 PROVE u[i] = s[i]
  <2>1. i \in 1..L - 1 /\ i <= k - 1
      BY <1>1
  <2>. QED BY <1>3, <1>6, <2>1
<1>8. ASSUME NEW i \in k..L - 1 PROVE u[i] = s[i + 1]
  <2>1. i \in 1..L - 1 /\ ~(i <= k - 1) /\ i - (k - 1) \in 1..L - k /\ k + (i - (k - 1)) = i + 1
      BY <1>1
  <2>. QED BY <1>4, <1>6, <2>1
<1>9. RemoveAt(s, k) = u
    BY <1>1, <1>2, <1>5 DEF RemoveAt
<1>. QED BY <1>1, <1>6, <1>7, <1>8, <1>9

Spans(u, n) == u = [i \in 1..n |-> u[i]]

LEMMA SpansASeq ==
  ASSUME NEW n \in Nat, NEW S, NEW u, Spans(u, n), \A i \in 1..n : u[i] \in S
  PROVE  u \in Seq(S)
<1>1. u \in [1..n -> S]
    BY DEF Spans
<1>2. u \in UNION {[1..m -> S] : m \in Nat}
    BY <1>1
<1>3. Seq(S) = UNION {[1..m -> S] : m \in Nat}
    BY SeqDef, Zenon
<1>. QED BY <1>2, <1>3, Zenon

Entries == [key : Names, addr : Dword]

LEMMA ZeroIsDword == 0 \in Dword
<1>1. \A a, b \in Nat : a > 0 /\ b > 0 => a * b \in Nat /\ a * b > 0
    OBVIOUS
<1>2. PICK M : M = TOP * SEGMENT
    OBVIOUS
<1>3. M \in Nat /\ M > 0
    BY <1>1, <1>2, AddressesAssumption
<1>. QED BY <1>2, <1>3 DEF Dword

LEMMA EncodedIsDword ==
  ASSUME NEW addr \in Dword, NEW lib \in Libs \cup {STD}
  PROVE  Encoded(addr, lib) \in Dword
<1>1. PICK index : index = SelectInSeq(apilibs, LAMBDA l : l = lib) - 1
    OBVIOUS
<1>2. index \in Int
  <2>1. PICK I : I = {i \in 1..Len(apilibs) : apilibs[i] = lib}
      OBVIOUS
  <2>2. SelectInSeq(apilibs, LAMBDA l : l = lib) = IF I # {} THEN Min(I) ELSE 0
      BY <2>1 DEF SelectInSeq
  <2>3. I # {} => Min(I) \in I
    <3>1. I \in SUBSET Nat
        BY <2>1
    <3>. QED BY <3>1, Minimum
  <2>. QED BY <1>1, <2>1, <2>2, <2>3
<1>3. PICK handle : handle = IF lib = STD THEN 0 ELSE Handle[lib]
    OBVIOUS
<1>4. handle \in Int
    BY <1>3, TablesAssumption DEF Dword
<1>5. PICK M : M = TOP * SEGMENT
    OBVIOUS
<1>6. M \in Nat \ {0} /\ Dword = 0..(M - 1)
  <2>1. TOP \in Nat \ {0} /\ SEGMENT \in Nat \ {0}
      BY AddressesAssumption
  <2>2. \A a, b \in Nat \ {0} : a * b \in Nat \ {0}
      OBVIOUS
  <2>. QED BY <1>5, <2>1, <2>2 DEF Dword
<1>7. Stub[addr] \in Dword
  <2>1. Stub[addr] \in (SHARED * SEGMENT)..(ENCODED * SEGMENT - 1)
      BY StubAssumption
  <2>2. SHARED * SEGMENT \in Nat /\ ENCODED * SEGMENT \in Nat /\ ENCODED * SEGMENT <= M
    <3>1. \A a, b, c \in Nat : a * c \in Nat /\ (a <= b => a * c <= b * c)
        OBVIOUS
    <3>2. SHARED \in Nat /\ ENCODED \in Nat /\ TOP \in Nat /\ SEGMENT \in Nat /\ ENCODED <= TOP
        BY AddressesAssumption
    <3>. QED BY <1>5, <3>1, <3>2
  <2>. QED BY <1>6, <2>1, <2>2
<1>8. ((ENCODED + index) * SEGMENT + addr - handle) % M \in Dword
  <2>1. PICK x \in Int : x = (ENCODED + index) * SEGMENT + addr - handle
    <3>1. ENCODED + index \in Int /\ SEGMENT \in Int /\ addr \in Int
        BY <1>2, AddressesAssumption DEF Dword
    <3>. QED BY <1>4, <3>1
  <2>2. x % M \in 0..(M - 1)
      BY <1>6, <2>1
  <2>. QED BY <1>6, <2>1, <2>2
<1>9. encode_address(addr, index, handle) \in Dword
    BY <1>5, <1>7, <1>8 DEF encode_address
<1>. QED BY <1>1, <1>3, <1>9 DEF Encoded

LEMMA Place ==
  ASSUME NEW S, NEW entries \in Seq(S), \A e \in S : e.key \in Int,
         NEW from \in 1..Len(entries) + 1, NEW key \in Int
  PROVE  LET k == PlaceFrom(entries, from, key)
         IN  /\ k \in from..Len(entries) + 1
             /\ \A j \in from..k - 1 : entries[j].key < key
             /\ k <= Len(entries) => key <= entries[k].key
<1>1. PICK L \in Nat : L = Len(entries)
    OBVIOUS
<1>2. PICK C : C = {k \in from..L : key <= entries[k].key} \cup {L + 1}
    OBVIOUS
<1>3. PICK k : k = Min(C)
    OBVIOUS
<1>4. k \in C /\ \A y \in C : k <= y
  <2>1. C \in SUBSET Nat /\ C # {}
      BY <1>1, <1>2
  <2>. QED BY <1>3, <2>1, Minimum
<1>5. k \in from..L + 1
    BY <1>1, <1>2, <1>4
<1>6. k <= L => key <= entries[k].key
    BY <1>1, <1>2, <1>4
<1>7. ASSUME NEW j \in from..k - 1 PROVE entries[j].key < key
  <2>1. j \in from..L /\ j \in 1..L /\ ~(k <= j)
      BY <1>1, <1>5
  <2>2. entries[j].key \in Int
      BY <1>1, <2>1
  <2>3. ~(key <= entries[j].key)
      BY <1>2, <1>4, <2>1
  <2>. QED BY <2>2, <2>3
<1>8. PlaceFrom(entries, from, key) = k
    BY <1>1, <1>2, <1>3 DEF PlaceFrom
<1>. QED BY <1>1, <1>5, <1>6, <1>7, <1>8

\* Where an entry with this key has its place: after those before k, and not after k.
Between(named, k, key) ==
  /\ k \in 1..Len(named) + 1
  /\ \A j \in 1..k - 1 : named[j].key < key
  /\ k <= Len(named) => key <= named[k].key

LEMMA PutKeepsOrder ==
  ASSUME NEW named \in NamedApis, Increasing(named), NEW new \in Entries, NEW k,
         Between(named, k, new.key)
  PROVE  /\ PutAt(named, k, new) \in NamedApis /\ Increasing(PutAt(named, k, new))
         /\ k <= Len(PutAt(named, k, new)) /\ PutAt(named, k, new)[k] = new
<1>1. PICK L \in Nat : L = Len(named) /\ DOMAIN named = 1..L
    BY DEF NamedApis
<1>2. /\ k \in 1..L + 1 /\ (\A j \in 1..k - 1 : named[j].key < new.key)
      /\ (k <= L => new.key <= named[k].key)
    BY <1>1 DEF Between
<1>3. \A i \in 1..L : named[i] \in Entries /\ named[i].key \in Int
  <2>1. \A i \in 1..L : named[i] \in Entries
    <3>1. named \in Seq(Entries)
        BY DEF NamedApis, Entries
    <3>. QED BY <1>1, <3>1
  <2>2. \A e \in Entries : e.key \in Int
      BY TablesAssumption DEF Entries
  <2>. QED BY <2>1, <2>2
<1>4. new.key \in Int
    BY TablesAssumption DEF Entries
<1>5. \A i, j \in 1..L : i < j => named[i].key < named[j].key
    BY <1>1 DEF Increasing
<1>6. named \in Seq(Entries)
    BY DEF NamedApis, Entries
<1>7. CASE IsAt(named, k, new.key)
  <2>1. k \in 1..L /\ named[k].key = new.key
      BY <1>1, <1>7 DEF IsAt
  <2>2. PICK u : u = [named EXCEPT ![k] = new]
      OBVIOUS
  <2>3. /\ u \in Seq(Entries) /\ Len(u) = L /\ DOMAIN u = 1..L /\ u[k] = new
        /\ \A i \in 1..L : i # k => u[i] = named[i]
      BY <1>1, <1>6, <2>1, <2>2
  <2>4. \A i \in 1..L : u[i].key = named[i].key
      BY <2>1, <2>3
  <2>5. Increasing(u)
      BY <1>5, <2>3, <2>4 DEF Increasing
  <2>6. PutAt(named, k, new) = u
      BY <1>7, <2>2 DEF PutAt, ReplaceAt
  <2>7. k <= L
      BY <2>1
  <2>. QED BY <2>3, <2>5, <2>6, <2>7 DEF NamedApis, Entries
<1>8. CASE ~IsAt(named, k, new.key)
  <2>1. PICK u : u = InsertAt(named, k, new)
      OBVIOUS
  <2>2. /\ u \in Seq(Entries) /\ Len(u) = L + 1 /\ u[k] = new
        /\ \A i \in 1..k - 1 : u[i] = named[i]
        /\ \A i \in k + 1..L + 1 : u[i] = named[i - 1]
    <3>1. k \in 1..Len(named) + 1
        BY <1>1, <1>2
    <3>2. /\ InsertAt(named, k, new) \in Seq(Entries)
          /\ Len(InsertAt(named, k, new)) = Len(named) + 1
          /\ InsertAt(named, k, new)[k] = new
          /\ \A i \in 1..k - 1 : InsertAt(named, k, new)[i] = named[i]
          /\ \A i \in k + 1..Len(named) + 1 : InsertAt(named, k, new)[i] = named[i - 1]
        BY <1>6, <3>1, Inserted
    <3>. QED BY <1>1, <2>1, <3>2
  <2>3. DOMAIN u = 1..L + 1
      BY <2>2
  <2>4. k <= L => new.key < named[k].key
    <3>1. ASSUME k <= L PROVE named[k].key # new.key /\ k \in 1..L
        BY <1>1, <1>2, <1>8, <3>1 DEF IsAt
    <3>. QED BY <1>2, <1>3, <1>4, <3>1
  <2>5. ASSUME NEW j \in k..L PROVE new.key < named[j].key
    <3>1. j \in 1..L /\ k <= L /\ k \in 1..L
        BY <1>2
    <3>2. j = k \/ named[k].key < named[j].key
        BY <1>2, <1>5, <3>1
    <3>. QED BY <1>3, <1>4, <2>4, <3>1, <3>2
  <2>6. ASSUME NEW i \in 1..L + 1, NEW j \in 1..L + 1, i < j PROVE u[i].key < u[j].key
    <3>1. CASE i < k /\ j < k
      <4>1. i \in 1..k - 1 /\ j \in 1..k - 1 /\ i \in 1..L /\ j \in 1..L
          BY <1>2, <3>1
      <4>. QED BY <1>5, <2>2, <2>6, <4>1
    <3>2. CASE i < k /\ j = k
      <4>1. i \in 1..k - 1
          BY <1>2, <3>2
      <4>. QED BY <1>2, <2>2, <3>2, <4>1
    <3>3. CASE i < k /\ j > k
      <4>1. i \in 1..k - 1 /\ i \in 1..L /\ j \in k + 1..L + 1 /\ j - 1 \in 1..L /\ i < j - 1
          BY <1>2, <3>3
      <4>. QED BY <1>5, <2>2, <4>1
    <3>4. CASE i = k /\ j > k
      <4>1. j \in k + 1..L + 1 /\ j - 1 \in k..L
          BY <1>2, <3>4
      <4>. QED BY <2>2, <2>5, <3>4, <4>1
    <3>5. CASE i > k /\ j > k
      <4>1. /\ j \in k + 1..L + 1 /\ j - 1 \in 1..L
            /\ i \in k + 1..L + 1 /\ i - 1 \in 1..L /\ i - 1 < j - 1
          BY <1>2, <2>6, <3>5
      <4>. QED BY <1>5, <2>2, <4>1
    <3>. QED BY <1>2, <2>6, <3>1, <3>2, <3>3, <3>4, <3>5
  <2>7. Increasing(u)
      BY <2>3, <2>6 DEF Increasing
  <2>8. PutAt(named, k, new) = u
      BY <1>8, <2>1 DEF PutAt
  <2>9. k <= L + 1
      BY <1>2
  <2>. QED BY <2>2, <2>7, <2>8, <2>9 DEF NamedApis, Entries
<1>. QED BY <1>7, <1>8

LEMMA RemoveKeepsOrder ==
  ASSUME NEW named \in NamedApis, Increasing(named), NEW k \in 1..Len(named)
  PROVE  RemoveAt(named, k) \in NamedApis /\ Increasing(RemoveAt(named, k))
<1>1. PICK L \in Nat : L = Len(named) /\ DOMAIN named = 1..L
    BY DEF NamedApis
<1>2. PICK u : u = RemoveAt(named, k)
    OBVIOUS
<1>3. /\ u \in NamedApis /\ Len(u) = L - 1
      /\ \A i \in 1..k - 1 : u[i] = named[i]
      /\ \A i \in k..L - 1 : u[i] = named[i + 1]
    BY <1>1, <1>2, Removed DEF NamedApis
<1>4. DOMAIN u = 1..L - 1
    BY <1>3 DEF NamedApis
<1>5. \A i, j \in 1..L : i < j => named[i].key < named[j].key
    BY <1>1 DEF Increasing
<1>6. \A i \in 1..L - 1 : \/ i \in 1..k - 1 /\ i \in 1..L
                          \/ i \in k..L - 1 /\ i + 1 \in 1..L
    BY <1>1
<1>7. ASSUME NEW i \in 1..L - 1, NEW j \in 1..L - 1, i < j PROVE u[i].key < u[j].key
  <2>1. CASE i \in 1..k - 1 /\ j \in 1..k - 1
      BY <1>3, <1>5, <1>6, <1>7, <2>1
  <2>2. CASE i \in 1..k - 1 /\ j \in k..L - 1
    <3>1. i \in 1..L /\ j + 1 \in 1..L /\ i < j + 1
        BY <1>1, <1>7
    <3>. QED BY <1>3, <1>5, <2>2, <3>1
  <2>3. CASE i \in k..L - 1 /\ j \in k..L - 1
    <3>1. i + 1 \in 1..L /\ j + 1 \in 1..L /\ i + 1 < j + 1
        BY <1>1, <1>7
    <3>. QED BY <1>3, <1>5, <2>3, <3>1
  <2>4. ~(i \in k..L - 1 /\ j \in 1..k - 1)
      BY <1>1, <1>7
  <2>. QED BY <1>6, <2>1, <2>2, <2>3, <2>4
<1>. QED BY <1>2, <1>3, <1>4, <1>7 DEF Increasing

LEMMA PutReplaces ==
  ASSUME NEW named \in NamedApis, Increasing(named), NEW new \in Entries, NEW k,
         Between(named, k, new.key)
  PROVE  ToSet(PutAt(named, k, new)) = {e \in ToSet(named) : e.key # new.key} \cup {new}
<1>1. PICK L \in Nat : L = Len(named) /\ DOMAIN named = 1..L
    BY DEF NamedApis
<1>2. /\ k \in 1..L + 1 /\ (\A j \in 1..k - 1 : named[j].key < new.key)
      /\ (k <= L => new.key <= named[k].key)
    BY <1>1 DEF Between
<1>3. named \in Seq(Entries)
    BY DEF NamedApis, Entries
<1>4. \A i \in 1..L : named[i] \in Entries /\ named[i].key \in Int
  <2>1. \A i \in 1..L : named[i] \in Entries
      BY <1>1, <1>3
  <2>2. \A e \in Entries : e.key \in Int
      BY TablesAssumption DEF Entries
  <2>. QED BY <2>1, <2>2
<1>5. new.key \in Int
    BY TablesAssumption DEF Entries
<1>6. \A i, j \in 1..L : i < j => named[i].key < named[j].key
    BY <1>1 DEF Increasing
<1>7. \A j \in 1..k - 1 : named[j].key # new.key
  <2>1. \A j \in 1..k - 1 : j \in 1..L
      BY <1>2
  <2>. QED BY <1>2, <1>4, <1>5, <2>1
<1>8. ASSUME NEW j \in k + 1..L PROVE named[j].key # new.key
  <2>1. k \in 1..L /\ j \in 1..L /\ k < j /\ k <= L
      BY <1>2
  <2>2. named[k].key < named[j].key /\ new.key <= named[k].key
      BY <1>2, <1>6, <2>1
  <2>. QED BY <1>4, <1>5, <2>1, <2>2
<1>9. PICK D : D = {e \in ToSet(named) : e.key # new.key} \cup {new}
    OBVIOUS
<1>10. ToSet(named) = {named[i] : i \in 1..L}
    BY <1>1 DEF ToSet
<1>11. CASE IsAt(named, k, new.key)
  <2>1. k \in 1..L /\ named[k].key = new.key
      BY <1>1, <1>11 DEF IsAt
  <2>2. PICK u : u = [named EXCEPT ![k] = new]
      OBVIOUS
  <2>3. DOMAIN u = 1..L /\ u[k] = new /\ \A i \in 1..L : i # k => u[i] = named[i]
      BY <1>1, <1>3, <2>1, <2>2
  <2>4. ToSet(u) = {u[i] : i \in 1..L}
      BY <2>3 DEF ToSet
  <2>5. \A i \in 1..L : i # k => i \in 1..k - 1 \/ i \in k + 1..L
      BY <1>2
  <2>6. \A i \in 1..L : i # k => named[i].key # new.key
      BY <1>7, <1>8, <2>5
  <2>7. ToSet(u) \subseteq D
      BY <1>9, <1>10, <2>3, <2>4, <2>6
  <2>8. D \subseteq ToSet(u)
      BY <1>9, <1>10, <2>1, <2>3, <2>4
  <2>9. PutAt(named, k, new) = u
      BY <1>11, <2>2 DEF PutAt, ReplaceAt
  <2>. QED BY <1>9, <2>7, <2>8, <2>9
<1>12. CASE ~IsAt(named, k, new.key)
  <2>1. PICK u : u = InsertAt(named, k, new)
      OBVIOUS
  <2>2. /\ u \in Seq(Entries) /\ Len(u) = L + 1 /\ u[k] = new
        /\ \A i \in 1..k - 1 : u[i] = named[i]
        /\ \A i \in k + 1..L + 1 : u[i] = named[i - 1]
    <3>1. k \in 1..Len(named) + 1
        BY <1>1, <1>2
    <3>2. /\ InsertAt(named, k, new) \in Seq(Entries)
          /\ Len(InsertAt(named, k, new)) = Len(named) + 1
          /\ InsertAt(named, k, new)[k] = new
          /\ \A i \in 1..k - 1 : InsertAt(named, k, new)[i] = named[i]
          /\ \A i \in k + 1..Len(named) + 1 : InsertAt(named, k, new)[i] = named[i - 1]
        BY <1>3, <3>1, Inserted
    <3>. QED BY <1>1, <2>1, <3>2
  <2>3. DOMAIN u = 1..L + 1 /\ ToSet(u) = {u[i] : i \in 1..L + 1}
      BY <2>2 DEF ToSet
  <2>4. k \in 1..L => named[k].key # new.key
      BY <1>1, <1>12 DEF IsAt
  <2>5. \A i \in 1..L : i \in 1..k - 1 \/ i = k \/ i \in k + 1..L
      BY <1>2
  <2>6. \A i \in 1..L : named[i].key # new.key
      BY <1>7, <1>8, <2>4, <2>5
  <2>7. ASSUME NEW i \in 1..L + 1 PROVE u[i] \in D
    <3>1. \/ i \in 1..k - 1 /\ i \in 1..L
          \/ i = k
          \/ i \in k + 1..L + 1 /\ i - 1 \in 1..L
        BY <1>2
    <3>. QED BY <1>9, <1>10, <2>2, <2>6, <3>1
  <2>8. ASSUME NEW i \in 1..L PROVE named[i] \in ToSet(u)
    <3>1. \/ i \in 1..k - 1 /\ i \in 1..L + 1
          \/ i + 1 \in k + 1..L + 1 /\ i + 1 \in 1..L + 1 /\ (i + 1) - 1 = i
        BY <1>2
    <3>2. \E j \in 1..L + 1 : u[j] = named[i]
        BY <2>2, <3>1
    <3>. QED BY <2>3, <3>2
  <2>9. k \in 1..L + 1 /\ new \in ToSet(u)
      BY <1>2, <2>2, <2>3
  <2>10. ToSet(u) = D
    <3>1. ToSet(u) \subseteq D
        BY <2>3, <2>7
    <3>2. D \subseteq ToSet(u)
        BY <1>9, <1>10, <2>8, <2>9
    <3>. QED BY <3>1, <3>2
  <2>11. PutAt(named, k, new) = u
      BY <1>12, <2>1 DEF PutAt
  <2>. QED BY <1>9, <2>10, <2>11
<1>. QED BY <1>11, <1>12

-----------------------------------------------------------------------------
(* Names of a library joined with those there *)

NewOf(src, m, lib) == [key |-> src[m].key, addr |-> Encoded(src[m].addr, lib)]
FirstsOf(src, j) == {m \in 1..j : \A n \in 1..m - 1 : src[n].key # src[m].key}

\* What joining the first j of src's should make: the first of each name, and what
\* was there with another.
JoinedOf(dst, src, lib, j) ==
  {e \in ToSet(dst) : \A m \in 1..j : src[m].key # e.key}
    \cup {NewOf(src, m, lib) : m \in FirstsOf(src, j)}

JoinHolds(dst, src, lib, j, d) ==
  /\ d \in [named : NamedApis, next : Nat \ {0}]
  /\ Increasing(d.named) /\ ToSet(d.named) = JoinedOf(dst, src, lib, j)
  /\ j = 0 => d.next = 1
  /\ j # 0 => /\ d.next - 1 \in 1..Len(d.named)
              /\ d.named[d.next - 1].key = src[j].key

JoinOne(src, lib, j, done) ==
  LET new == NewOf(src, j, lib)
      k   == PlaceFrom(done.named, done.next, new.key)
  IN  IF j > 1 /\ src[j - 1].key = new.key THEN done
      ELSE [named |-> PutAt(done.named, k, new), next |-> k + 1]

LEMMA NewIsEntry ==
  ASSUME NEW src \in NamedApis, NEW lib \in Libs \cup {STD}, NEW j \in 1..Len(src)
  PROVE  NewOf(src, j, lib) \in Entries /\ src[j].key \in Int
<1>1. src[j].key \in Names /\ src[j].addr \in Dword
  <2>1. src \in Seq(Entries)
      BY DEF NamedApis, Entries
  <2>2. src[j] \in Entries
      BY <2>1
  <2>. QED BY <2>2 DEF Entries
<1>2. Encoded(src[j].addr, lib) \in Dword
    BY <1>1, EncodedIsDword
<1>. QED BY <1>1, <1>2, TablesAssumption DEF NewOf, Entries

\* A name that is there already is left out.
LEMMA JoinedSame ==
  ASSUME NEW dst, NEW src \in NamedApis, NEW lib, NEW j \in 1..Len(src),
         j > 1, src[j - 1].key = src[j].key
  PROVE  JoinedOf(dst, src, lib, j) = JoinedOf(dst, src, lib, j - 1)
<1>1. j - 1 \in 1..j - 1 /\ j \in Nat /\ j - 1 \in 1..j /\ j \in 1..j
    BY DEF NamedApis
<1>2. \A m \in 1..j : m \in 1..j - 1 \/ m = j
    BY <1>1
<1>3. \A m \in 1..j - 1 : m \in 1..j
    BY <1>1
<1>4. FirstsOf(src, j) = FirstsOf(src, j - 1)
    BY <1>1, <1>2, <1>3 DEF FirstsOf
<1>5. ASSUME NEW e
      PROVE  (\A m \in 1..j : src[m].key # e.key) <=> (\A m \in 1..j - 1 : src[m].key # e.key)
    BY <1>1, <1>2, <1>3
<1>. QED BY <1>4, <1>5 DEF JoinedOf

\* A name that comes first takes the place of what was there.
LEMMA JoinedNew ==
  ASSUME NEW dst, NEW src \in NamedApis, NEW lib \in Libs \cup {STD}, NEW j \in 1..Len(src),
         \A n \in 1..j - 1 : src[n].key # src[j].key
  PROVE  JoinedOf(dst, src, lib, j) =
           {e \in JoinedOf(dst, src, lib, j - 1) : e.key # src[j].key} \cup {NewOf(src, j, lib)}
<1>1. j \in Nat /\ j \in 1..j
    BY DEF NamedApis
<1>2. \A m \in 1..j : m \in 1..j - 1 \/ m = j
    BY <1>1
<1>3. \A m \in 1..j - 1 : m \in 1..j
    BY <1>1
<1>4. FirstsOf(src, j) = FirstsOf(src, j - 1) \cup {j}
    BY <1>1, <1>2, <1>3 DEF FirstsOf
<1>5. ASSUME NEW e
      PROVE  (\A m \in 1..j : src[m].key # e.key)
               <=> (\A m \in 1..j - 1 : src[m].key # e.key) /\ e.key # src[j].key
    BY <1>1, <1>2, <1>3
<1>6. \A m \in FirstsOf(src, j - 1) : NewOf(src, m, lib).key # src[j].key
    BY DEF FirstsOf, NewOf
<1>7. PICK A, B : /\ A = {NewOf(src, m, lib) : m \in FirstsOf(src, j - 1)}
                  /\ B = {e \in ToSet(dst) : \A m \in 1..j - 1 : src[m].key # e.key}
    OBVIOUS
<1>8. {NewOf(src, m, lib) : m \in FirstsOf(src, j)} = A \cup {NewOf(src, j, lib)}
    BY <1>4, <1>7
<1>9. {e \in ToSet(dst) : \A m \in 1..j : src[m].key # e.key} = {e \in B : e.key # src[j].key}
    BY <1>5, <1>7
<1>10. \A e \in A : e.key # src[j].key
    BY <1>6, <1>7
<1>11. JoinedOf(dst, src, lib, j - 1) = B \cup A
    BY <1>7 DEF JoinedOf
<1>12. JoinedOf(dst, src, lib, j) = {e \in B : e.key # src[j].key} \cup A \cup {NewOf(src, j, lib)}
    BY <1>8, <1>9 DEF JoinedOf
<1>. QED BY <1>10, <1>11, <1>12

LEMMA JoinOneHolds ==
  ASSUME NEW dst, NEW src \in NamedApis, Sorted(src), NEW lib \in Libs \cup {STD},
         NEW j \in 1..Len(src), NEW done, JoinHolds(dst, src, lib, j - 1, done)
  PROVE  JoinHolds(dst, src, lib, j, JoinOne(src, lib, j, done))
<1>1. PICK named, next : named = done.named /\ next = done.next
    OBVIOUS
<1>2. /\ named \in NamedApis /\ next \in Nat \ {0} /\ Increasing(named)
      /\ ToSet(named) = JoinedOf(dst, src, lib, j - 1)
      /\ j - 1 = 0 => next = 1
      /\ j - 1 # 0 => next - 1 \in 1..Len(named) /\ named[next - 1].key = src[j - 1].key
      /\ done \in [named : NamedApis, next : Nat \ {0}]
    BY <1>1 DEF JoinHolds
<1>3. PICK new : new = NewOf(src, j, lib)
    OBVIOUS
<1>4. new \in Entries /\ new.key = src[j].key /\ new.key \in Int
    BY <1>3, NewIsEntry DEF NewOf
<1>5. PICK k : k = PlaceFrom(named, next, new.key)
    OBVIOUS
<1>6. PICK L \in Nat : L = Len(src) /\ DOMAIN src = 1..L
    BY DEF NamedApis
<1>7. j \in 1..L /\ j \in Nat /\ j # 0
    BY <1>6
<1>8. \A m \in 1..L : src[m].key \in Int
    BY <1>6, NewIsEntry
<1>9. JoinOne(src, lib, j, done) =
        IF j > 1 /\ src[j - 1].key = new.key THEN done
        ELSE [named |-> PutAt(named, k, new), next |-> k + 1]
    BY <1>1, <1>3, <1>5 DEF JoinOne
<1>10. CASE j > 1 /\ src[j - 1].key = new.key
  <2>1. JoinedOf(dst, src, lib, j) = JoinedOf(dst, src, lib, j - 1)
      BY <1>4, <1>10, JoinedSame
  <2>2. j - 1 # 0
      BY <1>10
  <2>3. JoinOne(src, lib, j, done) = done
      BY <1>9, <1>10
  <2>4. JoinHolds(dst, src, lib, j, done)
      BY <1>1, <1>2, <1>4, <1>7, <1>10, <2>1, <2>2 DEF JoinHolds
  <2>. QED BY <2>3, <2>4
<1>11. CASE ~(j > 1 /\ src[j - 1].key = new.key)
  <2>1. \A m, n \in 1..L : m < n => src[m].key <= src[n].key
      BY <1>6 DEF Sorted
  <2>2. ASSUME NEW n \in 1..j - 1 PROVE src[n].key < src[j].key
    <3>1. n \in 1..L /\ j - 1 \in 1..L /\ j > 1 /\ j - 1 < j /\ (n = j - 1 \/ n < j - 1)
        BY <1>7
    <3>2. src[j - 1].key <= src[j].key /\ src[j - 1].key # src[j].key
        BY <1>4, <1>7, <1>11, <2>1, <3>1
    <3>3. src[n].key <= src[j - 1].key
        BY <1>8, <2>1, <3>1
    <3>4. PICK x, y, z \in Int : x = src[n].key /\ y = src[j - 1].key /\ z = src[j].key
        BY <1>7, <1>8, <3>1
    <3>5. x <= y /\ y <= z /\ y # z
        BY <3>2, <3>3, <3>4
    <3>6. x < z
        BY <3>5
    <3>. QED BY <3>4, <3>6
  <2>3. PICK M \in Nat : M = Len(named) /\ DOMAIN named = 1..M
      BY <1>2 DEF NamedApis
  <2>4. named \in Seq(Entries) /\ \A e \in Entries : e.key \in Int
      BY <1>2, TablesAssumption DEF NamedApis, Entries
  <2>5. \A i \in 1..M : named[i].key \in Int
      BY <2>3, <2>4
  <2>6. next \in 1..M + 1
      BY <1>2, <1>7, <2>3
  <2>7. ASSUME NEW i \in 1..next - 1 PROVE named[i].key < new.key
    <3>1. j - 1 # 0
        BY <1>2, <2>7
    <3>2. /\ next - 1 \in 1..M /\ i \in 1..M /\ (i = next - 1 \/ i < next - 1)
          /\ j - 1 \in 1..j - 1
        BY <1>2, <1>7, <2>3, <2>7, <3>1
    <3>3. named[next - 1].key < src[j].key
        BY <1>2, <2>2, <3>1, <3>2
    <3>4. \A a, b \in 1..M : a < b => named[a].key < named[b].key
        BY <1>2, <2>3 DEF Increasing
    <3>5. named[i].key = named[next - 1].key \/ named[i].key < named[next - 1].key
        BY <3>2, <3>4
    <3>. QED BY <1>4, <2>5, <3>2, <3>3, <3>5
  <2>8. /\ k \in next..M + 1
        /\ \A i \in next..k - 1 : named[i].key < new.key
        /\ k <= M => new.key <= named[k].key
    <3>1. next \in 1..Len(named) + 1
        BY <2>3, <2>6
    <3>2. /\ k \in next..Len(named) + 1
          /\ \A i \in next..k - 1 : named[i].key < new.key
          /\ k <= Len(named) => new.key <= named[k].key
        BY <1>4, <1>5, <2>4, <3>1, Place
    <3>. QED BY <2>3, <3>2
  <2>9. Between(named, k, new.key)
    <3>1. \A i \in 1..k - 1 : i \in 1..next - 1 \/ i \in next..k - 1
        BY <2>6, <2>8
    <3>2. k \in 1..Len(named) + 1
        BY <2>3, <2>6, <2>8
    <3>. QED BY <2>3, <2>7, <2>8, <3>1, <3>2 DEF Between
  <2>10. PICK put : put = PutAt(named, k, new)
      OBVIOUS
  <2>11. put \in NamedApis /\ Increasing(put) /\ k <= Len(put) /\ put[k] = new
      BY <1>2, <1>4, <2>9, <2>10, PutKeepsOrder
  <2>12. ToSet(put) = {e \in ToSet(named) : e.key # new.key} \cup {new}
      BY <1>2, <1>4, <2>9, <2>10, PutReplaces
  <2>13. ToSet(put) = JoinedOf(dst, src, lib, j)
    <3>1. \A n \in 1..j - 1 : src[n].key # src[j].key
      <4>1. \A n \in 1..j - 1 : n \in 1..L
          BY <1>7
      <4>. QED BY <1>7, <1>8, <2>2, <4>1
    <3>2. JoinedOf(dst, src, lib, j) =
            {e \in JoinedOf(dst, src, lib, j - 1) : e.key # src[j].key} \cup {NewOf(src, j, lib)}
        BY <3>1, JoinedNew
    <3>. QED BY <1>2, <1>3, <1>4, <2>12, <3>2
  <2>14. k + 1 \in Nat \ {0} /\ (k + 1) - 1 = k /\ k \in 1..Len(put)
    <3>1. Len(put) \in Nat
        BY <2>11 DEF NamedApis
    <3>. QED BY <2>6, <2>8, <2>11, <3>1
  <2>15. PICK d : d = [named |-> put, next |-> k + 1]
      OBVIOUS
  <2>16. /\ d \in [named : NamedApis, next : Nat \ {0}] /\ d.named = put /\ d.next = k + 1
         /\ JoinOne(src, lib, j, done) = d
      BY <1>9, <1>11, <2>10, <2>11, <2>14, <2>15
  <2>. QED BY <1>4, <1>7, <2>11, <2>13, <2>14, <2>16 DEF JoinHolds
<1>. QED BY <1>10, <1>11

LEMMA JoinNamesHolds ==
  ASSUME NEW dst \in NamedApis, Increasing(dst), NEW src \in NamedApis, Sorted(src),
         NEW lib \in Libs \cup {STD}
  PROVE  /\ JoinNames(dst, src, lib) \in NamedApis /\ Increasing(JoinNames(dst, src, lib))
         /\ ToSet(JoinNames(dst, src, lib)) = JoinedOf(dst, src, lib, Len(src))
<1>1. PICK L \in Nat : L = Len(src)
    BY DEF NamedApis
<1>2. PICK R : R = [named : NamedApis, next : Nat \ {0}]
    OBVIOUS
<1>3. PICK T : T = [j \in 0..L |-> {d \in R : JoinHolds(dst, src, lib, j, d)}]
    OBVIOUS
<1>4. PICK step : step = [kt \in (1..L) \X R |-> JoinOne(src, lib, kt[1], kt[2])]
    OBVIOUS
<1>5. \A k \in 1..L, d \in R : step[<<k, d>>] = JoinOne(src, lib, k, d)
    BY <1>4
<1>6. PICK a : a = [named |-> dst, next |-> 1]
    OBVIOUS
<1>7. a \in R /\ JoinHolds(dst, src, lib, 0, a)
  <2>1. a \in R /\ a.named = dst /\ a.next = 1
      BY <1>2, <1>6
  <2>2. \A m \in 1..0 : FALSE
      OBVIOUS
  <2>3. FirstsOf(src, 0) = {}
      BY <2>2 DEF FirstsOf
  <2>4. {e \in ToSet(dst) : \A m \in 1..0 : src[m].key # e.key} = ToSet(dst)
      BY <2>2
  <2>5. JoinedOf(dst, src, lib, 0) = ToSet(dst)
      BY <2>3, <2>4 DEF JoinedOf
  <2>. QED BY <1>2, <2>1, <2>5 DEF JoinHolds
<1>8. \A k \in 1..L : k - 1 \in 0..L /\ k \in 0..L /\ k # 0
    OBVIOUS
<1>9. ASSUME NEW k \in 1..L, NEW d \in T[k - 1]
      PROVE  d \in R /\ JoinOne(src, lib, k, d) \in T[k]
  <2>1. d \in R /\ JoinHolds(dst, src, lib, k - 1, d)
      BY <1>3, <1>8
  <2>2. PICK u : u = JoinOne(src, lib, k, d)
      OBVIOUS
  <2>3. JoinHolds(dst, src, lib, k, u)
      BY <1>1, <2>1, <2>2, JoinOneHolds
  <2>4. u \in R
      BY <1>2, <2>3 DEF JoinHolds
  <2>. QED BY <1>3, <1>8, <2>1, <2>2, <2>3, <2>4
<1>10. PICK f : /\ f = [k \in 0..L |-> f[k]] /\ f[0] = a
                /\ \A k \in 1..L : f[k] = step[<<k, f[k - 1]>>]
                /\ \A k \in 0..L : f[k] \in T[k]
  <2>1. a \in T[0]
      BY <1>3, <1>7, 0 \in 0..L
  <2>2. \A k \in 1..L : \A t \in T[k - 1] : step[<<k, t>>] \in T[k]
      BY <1>5, <1>9
  <2>3. Leads(L, a, T, step)
      BY <2>1, <2>2 DEF Leads
  <2>4. PICK f : Follows(L, a, T, step, f)
      BY <2>3, Recursion
  <2>. QED BY <2>4 DEF Follows
<1> DEFINE Is(g) == g = [j \in 0..Len(src) |->
        IF j = 0 THEN [named |-> dst, next |-> 1]
        ELSE LET done == g[j - 1]
                 new  == [key |-> src[j].key, addr |-> Encoded(src[j].addr, lib)]
                 k    == PlaceFrom(done.named, done.next, new.key)
             IN  IF j > 1 /\ src[j - 1].key = new.key THEN done
                 ELSE [named |-> PutAt(done.named, k, new), next |-> k + 1]]
<1>11. \A g : Is(g) <=> g = [j \in 0..L |-> IF j = 0 THEN a ELSE JoinOne(src, lib, j, g[j - 1])]
    BY <1>1, <1>6 DEF JoinOne, NewOf
<1>12. PICK join : join = CHOOSE g : Is(g)
    OBVIOUS
<1>13. JoinNames(dst, src, lib) = join[L].named
    BY <1>1, <1>12 DEF JoinNames
<1> HIDE DEF Is
<1>14. f = [j \in 0..L |-> IF j = 0 THEN a ELSE JoinOne(src, lib, j, f[j - 1])]
  <2>1. ASSUME NEW k \in 0..L, k # 0
        PROVE  f[k] = JoinOne(src, lib, k, f[k - 1])
    <3>1. k \in 1..L /\ k - 1 \in 0..L
        BY <2>1
    <3>2. f[k - 1] \in R
        BY <1>9, <1>10, <3>1
    <3>. QED BY <1>5, <1>10, <3>1, <3>2
  <2>. QED BY <1>10, <2>1
<1>15. Is(join)
    BY <1>11, <1>12, <1>14
<1>16. join[0] = a /\ \A k \in 1..L : join[k] = JoinOne(src, lib, k, join[k - 1])
  <2>1. join = [j \in 0..L |-> IF j = 0 THEN a ELSE JoinOne(src, lib, j, join[j - 1])]
      BY <1>11, <1>15
  <2>. QED BY <1>8, <2>1, 0 \in 0..L
<1>17. \A k \in 0..L : join[k] \in T[k]
  <2>1. join[0] \in T[0]
      BY <1>3, <1>7, <1>16, 0 \in 0..L
  <2>2. \A k \in 1..L : join[k - 1] \in T[k - 1] => join[k] \in T[k]
      BY <1>9, <1>16
  <2>. QED BY <2>1, <2>2, Throughout
<1>18. JoinHolds(dst, src, lib, L, join[L])
    BY <1>3, <1>17, L \in 0..L
<1>. QED BY <1>1, <1>13, <1>18 DEF JoinHolds

-----------------------------------------------------------------------------
(* Tables of libraries *)

LEMMA StdAddressIsDword ==
  ASSUME NEW t \in Targets, NEW f \in DOMAIN System[t].functions
  PROVE  StdAddress(t, f) \in Dword
<1>1. PICK dll : dll = System[t]
    OBVIOUS
<1>2. /\ dll.functions \in Seq(ToSet(dll.functions)) /\ Len(dll.functions) < FORWARDS
      /\ \A g \in DOMAIN dll.functions : dll.functions[g].rva + dll.handle \in Dword
    BY <1>1, SystemAssumption
<1>3. PICK L \in Nat : L = Len(dll.functions) /\ DOMAIN dll.functions = 1..L
    BY <1>2
<1>4. f \in 1..L /\ L < FORWARDS
    BY <1>1, <1>2, <1>3
<1>5. ForwardOf(f) \in Dword
  <2>1. PICK M \in Nat : M = TOP * SEGMENT /\ SEGMENT <= M
    <3>1. \A a, b \in Nat : a > 0 => a * b \in Nat /\ b <= a * b
        OBVIOUS
    <3>. QED BY <3>1, AddressesAssumption
  <2>2. FORWARDS \in Nat /\ FORWARDS <= SEGMENT /\ SEGMENT \in Nat
      BY AddressesAssumption
  <2>3. M - FORWARDS + f \in 0..(M - 1)
      BY <1>4, <2>1, <2>2
  <2>. QED BY <2>1, <2>3 DEF ForwardOf, Dword
<1>6. System[t].functions[f].rva + System[t].handle \in Dword
    BY <1>1, <1>2
<1>. QED BY <1>5, <1>6 DEF StdAddress

LEMMA StdTableTypes ==
  ASSUME NEW t \in Targets
  PROVE  /\ StdTable(t).target = t
         /\ StdTable(t).named \in NamedApis /\ Sorted(StdTable(t).named)
         /\ StdTable(t).ordinals \in OrdinalApis /\ Sorted(StdTable(t).ordinals)
<1>1. PICK names, functions : names = System[t].names /\ functions = System[t].functions
    OBVIOUS
<1>2. /\ functions \in Seq(ToSet(functions)) /\ names \in Seq([key : Names, function : DOMAIN functions])
      /\ Sorted(names)
    BY <1>1, SystemAssumption
<1>3. PICK named : named = [k \in DOMAIN names |->
                              [key |-> names[k].key, addr |-> StdAddress(t, names[k].function)]]
    OBVIOUS
<1>4. PICK ordinals : ordinals = [f \in DOMAIN functions |-> [key |-> f, addr |-> StdAddress(t, f)]]
    OBVIOUS
<1>5. StdTable(t).target = t /\ StdTable(t).named = named /\ StdTable(t).ordinals = ordinals
    BY <1>1, <1>3, <1>4 DEF StdTable
<1>6. PICK L \in Nat : L = Len(names) /\ DOMAIN names = 1..L
    BY <1>2
<1>7. ASSUME NEW k \in 1..L PROVE named[k] \in Entries /\ named[k].key = names[k].key
  <2>1. names[k] \in [key : Names, function : DOMAIN functions]
    <3>1. PICK E : E = [key : Names, function : DOMAIN functions]
        OBVIOUS
    <3>2. names \in Seq(E)
        BY <1>2, <3>1
    <3>3. names[k] \in E
        BY <1>6, <3>2
    <3>. QED BY <3>1, <3>3
  <2>2. StdAddress(t, names[k].function) \in Dword
      BY <1>1, <2>1, StdAddressIsDword
  <2>. QED BY <1>3, <1>6, <2>1, <2>2 DEF Entries
<1>8. named \in NamedApis
  <2>1. named = [k \in 1..L |-> named[k]]
      BY <1>3, <1>6
  <2>2. named \in Seq(Entries)
      BY <1>7, <2>1
  <2>. QED BY <2>2 DEF NamedApis, Entries
<1>9. DOMAIN named = 1..L
    BY <1>3, <1>6
<1>10. Sorted(named)
    BY <1>2, <1>6, <1>7, <1>9 DEF Sorted
<1>11. PICK N \in Nat : N = Len(functions) /\ DOMAIN functions = 1..N
    BY <1>2
<1>12. ASSUME NEW f \in 1..N
       PROVE  ordinals[f] \in [key : Nat \ {0}, addr : Dword] /\ ordinals[f].key = f
  <2>1. StdAddress(t, f) \in Dword
      BY <1>1, <1>11, StdAddressIsDword
  <2>2. f \in Nat \ {0}
      OBVIOUS
  <2>. QED BY <1>4, <1>11, <2>1, <2>2
<1>13. ordinals \in OrdinalApis
  <2>1. ordinals = [f \in 1..N |-> ordinals[f]]
      BY <1>4, <1>11
  <2>2. ordinals \in Seq([key : Nat \ {0}, addr : Dword])
    <3>1. PICK E : E = [key : Nat \ {0}, addr : Dword]
        OBVIOUS
    <3>2. \A f \in 1..N : ordinals[f] \in E
        BY <1>12, <3>1
    <3>3. ordinals \in Seq(E)
        BY <2>1, <3>2
    <3>. QED BY <3>1, <3>3
  <2>. QED BY <2>2 DEF OrdinalApis
<1>14. DOMAIN ordinals = 1..N
    BY <1>4, <1>11
<1>15. \A f, g \in 1..N : f < g => f <= g
    OBVIOUS
<1>16. Sorted(ordinals)
    BY <1>12, <1>14, <1>15 DEF Sorted
<1>. QED BY <1>5, <1>8, <1>10, <1>13, <1>16

\* The library's tables, whoever it is.
LEMMA TableTypes ==
  ASSUME overridden \in Seq(Targets), NEW lib \in Libs \cup {STD}, NEW t, Overrides(lib, t)
  PROVE  LET table == TableFor(lib, t)
         IN  /\ table.target = t
             /\ table.named \in NamedApis /\ Sorted(table.named)
             /\ table.ordinals \in OrdinalApis /\ Sorted(table.ordinals)
<1>1. PICK tables : tables = TablesOf(lib)
    OBVIOUS
<1>2. /\ DOMAIN tables \subseteq Nat
      /\ \A k \in DOMAIN tables : /\ tables[k].named \in NamedApis /\ Sorted(tables[k].named)
                                  /\ tables[k].ordinals \in OrdinalApis /\ Sorted(tables[k].ordinals)
  <2>1. CASE lib = STD
    <3>1. tables = [k \in DOMAIN overridden |-> StdTable(overridden[k])]
        BY <1>1, <2>1 DEF TablesOf
    <3>2. DOMAIN overridden = 1..Len(overridden) /\ Len(overridden) \in Nat
        OBVIOUS
    <3>3. \A k \in DOMAIN overridden : overridden[k] \in Targets
        BY <3>2
    <3>4. DOMAIN tables = DOMAIN overridden /\ DOMAIN tables \subseteq Nat
        BY <3>1, <3>2
    <3>5. ASSUME NEW k \in DOMAIN tables
          PROVE  /\ tables[k].named \in NamedApis /\ Sorted(tables[k].named)
                 /\ tables[k].ordinals \in OrdinalApis /\ Sorted(tables[k].ordinals)
      <4>1. tables[k] = StdTable(overridden[k]) /\ overridden[k] \in Targets
          BY <3>1, <3>3, <3>4
      <4>. QED BY <4>1, StdTableTypes
    <3>. QED BY <3>4, <3>5
  <2>2. CASE lib # STD
    <3>1. lib \in Libs /\ tables = LibTables[lib]
        BY <1>1, <2>2 DEF TablesOf
    <3>2. PICK Shape : Shape = [target : Targets, named : NamedApis, ordinals : OrdinalApis]
        OBVIOUS
    <3>3. /\ tables \in Seq(Shape)
          /\ \A k \in DOMAIN tables : Sorted(tables[k].named) /\ Sorted(tables[k].ordinals)
        BY <3>1, <3>2, TablesAssumption
    <3>4. DOMAIN tables \subseteq Nat /\ \A k \in DOMAIN tables : tables[k] \in Shape
        BY <3>3
    <3>5. \A k \in DOMAIN tables : tables[k].named \in NamedApis /\ tables[k].ordinals \in OrdinalApis
        BY <3>2, <3>4
    <3>. QED BY <3>3, <3>4, <3>5
  <2>. QED BY <2>1, <2>2
<1>3. PICK C : C = {k \in DOMAIN tables : tables[k].target = t}
    OBVIOUS
<1>4. C \in SUBSET Nat /\ C # {}
    BY <1>1, <1>2, <1>3 DEF Overrides
<1>5. Min(C) \in C
    BY <1>4, Minimum
<1>6. TableFor(lib, t) = tables[Min(C)]
    BY <1>1, <1>3 DEF TableFor
<1>. QED BY <1>2, <1>3, <1>5, <1>6

-----------------------------------------------------------------------------
(* Tables of configurations *)

Rows  == {r \in [named : NamedApis, unnamed : Seq(Dword)] : Increasing(r.named)}
Fulls == {tables \in Seq(Rows) : Len(tables) <= Len(overridden)}

LEMMA FullIsRows ==
  ASSUME NEW tables
  PROVE  Full(tables) <=> tables \in Fulls
<1>1. PICK E : E = [named : NamedApis, unnamed : Seq(Dword)]
    OBVIOUS
<1>2. Rows = {r \in E : Increasing(r.named)}
    BY <1>1 DEF Rows
<1>3. Full(tables) <=> /\ tables \in Seq(E) /\ Len(tables) <= Len(overridden)
                       /\ \A i \in DOMAIN tables : Increasing(tables[i].named)
    BY <1>1 DEF Full, Tables
<1>4. tables \in Fulls <=> tables \in Seq(Rows) /\ Len(tables) <= Len(overridden)
    BY DEF Fulls
<1>5. ASSUME tables \in Seq(E), \A i \in DOMAIN tables : Increasing(tables[i].named)
      PROVE  tables \in Seq(Rows)
  <2>1. PICK L \in Nat : L = Len(tables) /\ DOMAIN tables = 1..L /\ Spans(tables, L)
      BY <1>5 DEF Spans
  <2>2. \A i \in 1..L : tables[i] \in E
      BY <1>5, <2>1
  <2>3. \A i \in 1..L : tables[i] \in Rows
      BY <1>2, <1>5, <2>1, <2>2
  <2>. QED BY <2>1, <2>3, SpansASeq
<1>6. ASSUME tables \in Seq(Rows)
      PROVE  tables \in Seq(E) /\ \A i \in DOMAIN tables : Increasing(tables[i].named)
  <2>1. PICK L \in Nat : L = Len(tables) /\ DOMAIN tables = 1..L /\ Spans(tables, L)
      BY <1>6 DEF Spans
  <2>2. \A i \in 1..L : tables[i] \in Rows
      BY <1>6, <2>1
  <2>3. \A i \in 1..L : tables[i] \in E /\ Increasing(tables[i].named)
      BY <1>2, <2>2
  <2>4. tables \in Seq(E)
    <3>1. \A i \in 1..L : tables[i] \in E
        BY <2>3
    <3>. QED BY <2>1, <3>1, SpansASeq
  <2>. QED BY <2>1, <2>3, <2>4
<1>. QED BY <1>3, <1>4, <1>5, <1>6

LEMMA RowIs ==
  ASSUME NEW named \in NamedApis, Increasing(named), NEW unnamed \in Seq(Dword)
  PROVE  [named |-> named, unnamed |-> unnamed] \in Rows
<1>1. PICK r : r = [named |-> named, unnamed |-> unnamed]
    OBVIOUS
<1>2. r \in [named : NamedApis, unnamed : Seq(Dword)] /\ r.named = named
    BY <1>1
<1>. QED BY <1>1, <1>2 DEF Rows

LEMMA RowHas ==
  ASSUME NEW r \in Rows
  PROVE  /\ r.named \in NamedApis /\ Increasing(r.named) /\ r.unnamed \in Seq(Dword)
         /\ r = [named |-> r.named, unnamed |-> r.unnamed]
  BY DEF Rows

LEMMA EmptyRow == EmptyTable \in Rows
<1>1. PICK e : e = << >>
    OBVIOUS
<1>2. e \in NamedApis /\ e \in Seq(Dword) /\ DOMAIN e = {}
    BY <1>1 DEF NamedApis
<1>3. Increasing(e)
    BY <1>2 DEF Increasing
<1>. QED BY <1>1, <1>2, <1>3, RowIs DEF EmptyTable

\* A function over 1 to a number is a sequence; so it keeps its length when it grows.
LEMMA GrownFull ==
  ASSUME overridden \in Seq(Targets), NEW tables \in Fulls, NEW i \in 0..Len(overridden)
  PROVE  /\ Grown(tables, i) \in Fulls /\ i <= Len(Grown(tables, i))
         /\ Len(tables) <= Len(Grown(tables, i))
         /\ \A k \in 1..Len(tables) : Grown(tables, i)[k] = tables[k]
         /\ \A k \in Len(tables) + 1..Len(Grown(tables, i)) : Grown(tables, i)[k] = EmptyTable
<1>1. PICK N \in Nat : N = Len(overridden) /\ DOMAIN overridden = 1..N
    OBVIOUS
<1>2. PICK L \in Nat : L = Len(tables) /\ DOMAIN tables = 1..L /\ L <= N /\ \A k \in 1..L : tables[k] \in Rows
    BY <1>1 DEF Fulls
<1>3. i \in 0..N
    BY <1>1
<1>4. CASE i <= L
  <2>1. Grown(tables, i) = tables
      BY <1>2, <1>4 DEF Grown
  <2>2. \A k \in L + 1..L : FALSE
      BY <1>2
  <2>. QED BY <1>2, <1>4, <2>1, <2>2
<1>5. CASE ~(i <= L)
  <2>1. PICK u : u = [k \in 1..N |-> IF k <= L THEN tables[k] ELSE EmptyTable]
      OBVIOUS
  <2>2. Grown(tables, i) = u
      BY <1>1, <1>2, <1>5, <2>1 DEF Grown
  <2>3. \A k \in 1..N : k <= L => k \in 1..L
      OBVIOUS
  <2>4. \A k \in 1..N : u[k] \in Rows
      BY <1>2, <2>1, <2>3, EmptyRow
  <2>5. u = [k \in 1..N |-> u[k]]
      BY <2>1
  <2>6. u \in Seq(Rows)
      BY <2>4, <2>5
  <2>7. Len(u) = N
      BY <2>1, <2>6
  <2>8. /\ \A k \in 1..L : k \in 1..N /\ k <= L
        /\ \A k \in L + 1..N : k \in 1..N /\ ~(k <= L)
      BY <1>2
  <2>9. u \in Fulls
      BY <1>1, <2>6, <2>7 DEF Fulls
  <2>. QED BY <1>2, <1>3, <2>1, <2>2, <2>7, <2>8, <2>9
<1>. QED BY <1>4, <1>5

LEMMA GrownOrdinalsTypes ==
  ASSUME NEW unnamed \in Seq(Dword), NEW count \in Nat
  PROVE  /\ GrownOrdinals(unnamed, count) \in Seq(Dword)
         /\ Len(unnamed) <= Len(GrownOrdinals(unnamed, count))
         /\ count <= Len(GrownOrdinals(unnamed, count))
         /\ \A o \in 1..Len(GrownOrdinals(unnamed, count)) :
              GrownOrdinals(unnamed, count)[o] = IF o <= Len(unnamed) THEN unnamed[o] ELSE 0
<1>1. PICK L \in Nat : L = Len(unnamed) /\ \A o \in 1..L : unnamed[o] \in Dword
    OBVIOUS
<1>2. PICK S : S = {L, count}
    OBVIOUS
<1>3. S # {} /\ S \in SUBSET (0..L + count) /\ L + count \in Nat
    BY <1>2
<1>4. PICK N : N = Max(S)
    OBVIOUS
<1>5. N \in S /\ \A y \in S : y <= N
    BY <1>3, <1>4, Maximum
<1>6. N \in Nat /\ L <= N /\ count <= N
    BY <1>2, <1>5
<1>7. PICK u : u = [o \in 1..N |-> IF o <= L THEN unnamed[o] ELSE 0]
    OBVIOUS
<1>8. GrownOrdinals(unnamed, count) = u
    BY <1>1, <1>2, <1>4, <1>7 DEF GrownOrdinals
<1>9. \A o \in 1..N : o <= L => o \in 1..L
    OBVIOUS
<1>10. 0 \in Dword
    BY ZeroIsDword
<1>11. \A o \in 1..N : u[o] \in Dword
    BY <1>1, <1>7, <1>9, <1>10
<1>12. u = [o \in 1..N |-> u[o]]
    BY <1>7
<1>13. u \in Seq(Dword)
    BY <1>6, <1>11, <1>12
<1>14. Len(u) = N
    BY <1>6, <1>7, <1>13
<1>. QED BY <1>1, <1>6, <1>7, <1>8, <1>13, <1>14

LEMMA JoinOrdinalsTypes ==
  ASSUME NEW unnamed \in Seq(Dword), NEW src \in OrdinalApis, NEW lib \in Libs \cup {STD}
  PROVE  JoinOrdinals(unnamed, src, lib) \in Seq(Dword)
<1>1. PICK E : E = [key : Nat \ {0}, addr : Dword]
    OBVIOUS
<1>2. src \in Seq(E)
    BY <1>1 DEF OrdinalApis
<1>3. PICK L \in Nat : L = Len(src) /\ DOMAIN src = 1..L
    BY <1>2
<1>4. \A k \in 1..L : src[k] \in E
    BY <1>2, <1>3
<1>5. \A k \in 1..L : src[k].key \in Nat /\ src[k].addr \in Dword
    BY <1>1, <1>4
<1>6. PICK last : last = IF src = <<>> THEN 0 ELSE src[Len(src)].key
    OBVIOUS
<1>7. last \in Nat
  <2>1. src # <<>> => L \in 1..L
      BY <1>2, <1>3
  <2>. QED BY <1>3, <1>5, <1>6, <2>1
<1>8. PICK g : g = GrownOrdinals(unnamed, last)
    OBVIOUS
<1>9. g \in Seq(Dword)
    BY <1>7, <1>8, GrownOrdinalsTypes
<1>10. PICK N \in Nat : N = Len(g) /\ DOMAIN g = 1..N /\ \A o \in 1..N : g[o] \in Dword
    BY <1>9
<1>11. PICK own : own = [o \in 1..N |-> {k \in DOMAIN src : src[k].key = o}]
    OBVIOUS
<1>12. PICK u : u = [o \in 1..N |-> IF own[o] = {} THEN g[o] ELSE Encoded(src[Min(own[o])].addr, lib)]
    OBVIOUS
<1>13. JoinOrdinals(unnamed, src, lib) = u
  <2>1. JoinOrdinals(unnamed, src, lib) =
          [o \in DOMAIN g |-> IF {k \in DOMAIN src : src[k].key = o} = {} THEN g[o]
                              ELSE Encoded(src[Min({k \in DOMAIN src : src[k].key = o})].addr, lib)]
      BY <1>6, <1>8 DEF JoinOrdinals
  <2>. QED BY <1>10, <1>11, <1>12, <2>1
<1>14. ASSUME NEW o \in 1..N PROVE u[o] \in Dword
  <2>1. own[o] \in SUBSET Nat /\ own[o] \subseteq 1..L
      BY <1>3, <1>11
  <2>2. CASE own[o] = {}
      BY <1>10, <1>12, <2>2
  <2>3. CASE own[o] # {}
    <3>1. Min(own[o]) \in 1..L
        BY <2>1, <2>3, Minimum
    <3>2. Encoded(src[Min(own[o])].addr, lib) \in Dword
        BY <1>5, <3>1, EncodedIsDword
    <3>. QED BY <1>12, <2>3, <3>2
  <2>. QED BY <2>2, <2>3
<1>15. u = [o \in 1..N |-> u[o]]
    BY <1>12
<1>. QED BY <1>13, <1>14, <1>15

JoinedRow(row, lib, t) ==
  [named   |-> JoinNames(row.named, TableFor(lib, t).named, lib),
   unnamed |-> JoinOrdinals(row.unnamed, TableFor(lib, t).ordinals, lib)]

LEMMA JoinedRowIsRow ==
  ASSUME overridden \in Seq(Targets), NEW row \in Rows, NEW lib \in Libs \cup {STD},
         NEW t, Overrides(lib, t)
  PROVE  JoinedRow(row, lib, t) \in Rows
<1>1. PICK named, ordinals : named = TableFor(lib, t).named /\ ordinals = TableFor(lib, t).ordinals
    OBVIOUS
<1>2. /\ named \in NamedApis /\ Sorted(named)
      /\ ordinals \in OrdinalApis
    BY <1>1, TableTypes
<1>3. row.named \in NamedApis /\ Increasing(row.named) /\ row.unnamed \in Seq(Dword)
    BY RowHas
<1>4. PICK n, u : n = JoinNames(row.named, named, lib) /\ u = JoinOrdinals(row.unnamed, ordinals, lib)
    OBVIOUS
<1>5. n \in NamedApis /\ Increasing(n)
    BY <1>2, <1>3, <1>4, JoinNamesHolds
<1>6. u \in Seq(Dword)
    BY <1>2, <1>3, <1>4, JoinOrdinalsTypes
<1>7. JoinedRow(row, lib, t) = [named |-> n, unnamed |-> u]
    BY <1>1, <1>4 DEF JoinedRow
<1>. QED BY <1>5, <1>6, <1>7, RowIs

OwnOf(lib) == {i \in DOMAIN overridden : Overrides(lib, overridden[i])}

\* A library's tables are joined with those of the DLLs it overrides, and with no others.
LEMMA MergeLibHolds ==
  ASSUME overridden \in Seq(Targets), NEW tables \in Fulls, NEW lib \in Libs \cup {STD}
  PROVE  LET all == Grown(tables, Max(OwnOf(lib) \cup {0}))
         IN  /\ MergeLib(tables, lib) \in Fulls
             /\ all \in Fulls /\ DOMAIN MergeLib(tables, lib) = DOMAIN all
             /\ OwnOf(lib) \subseteq DOMAIN all
             /\ \A i \in DOMAIN all :
                  MergeLib(tables, lib)[i] =
                    IF i \in OwnOf(lib) THEN JoinedRow(all[i], lib, overridden[i]) ELSE all[i]
<1>1. PICK N \in Nat : N = Len(overridden) /\ DOMAIN overridden = 1..N
    OBVIOUS
<1>2. PICK own : own = OwnOf(lib)
    OBVIOUS
<1>3. own \subseteq 1..N /\ \A i \in own : Overrides(lib, overridden[i])
    BY <1>1, <1>2 DEF OwnOf
<1>4. PICK m : m = Max(own \cup {0})
    OBVIOUS
<1>5. m \in 0..N /\ \A i \in own : i <= m
  <2>1. own \cup {0} \in SUBSET (0..N) /\ own \cup {0} # {}
      BY <1>3
  <2>2. m \in own \cup {0} /\ \A i \in own \cup {0} : i <= m
      BY <1>4, <2>1, Maximum
  <2>. QED BY <2>1, <2>2
<1>6. PICK all : all = Grown(tables, m)
    OBVIOUS
<1>7. all \in Fulls /\ m <= Len(all)
    BY <1>1, <1>5, <1>6, GrownFull
<1>8. PICK L \in Nat : L = Len(all) /\ DOMAIN all = 1..L /\ L <= N /\ \A i \in 1..L : all[i] \in Rows
    BY <1>1, <1>7 DEF Fulls
<1>9. PICK u : u = [i \in 1..L |-> IF i \in own THEN JoinedRow(all[i], lib, overridden[i]) ELSE all[i]]
    OBVIOUS
<1>10. MergeLib(tables, lib) = u
  <2>1. MergeLib(tables, lib) =
          [i \in DOMAIN all |-> IF i \in own THEN JoinedRow(all[i], lib, overridden[i]) ELSE all[i]]
      BY <1>2, <1>4, <1>6 DEF MergeLib, JoinedRow, OwnOf
  <2>. QED BY <1>8, <1>9, <2>1
<1>11. \A i \in 1..L : i \in own => JoinedRow(all[i], lib, overridden[i]) \in Rows
    BY <1>3, <1>8, JoinedRowIsRow
<1>12. \A i \in 1..L : u[i] \in Rows
    BY <1>8, <1>9, <1>11
<1>13. u \in Seq(Rows)
  <2>1. Spans(u, L)
      BY <1>9 DEF Spans
  <2>. QED BY <1>12, <2>1, SpansASeq
<1>14. Len(u) = L /\ DOMAIN u = 1..L
    BY <1>9, <1>13
<1>15. u \in Fulls
    BY <1>1, <1>8, <1>13, <1>14 DEF Fulls
<1>16. own \subseteq 1..L
    BY <1>3, <1>5, <1>7, <1>8
<1>. QED BY <1>2, <1>4, <1>6, <1>7, <1>8, <1>9, <1>10, <1>14, <1>15, <1>16

\* The tables after each library.
LEMMA MergeLibsAre ==
  ASSUME overridden \in Seq(Targets), NEW tables \in Fulls, NEW libs \in Seq(Libs \cup {STD})
  PROVE  \E f : /\ f[0] = tables /\ f[Len(libs)] = MergeLibs(tables, libs)
                /\ \A k \in 1..Len(libs) : f[k] = MergeLib(f[k - 1], libs[k])
                /\ \A k \in 0..Len(libs) : f[k] \in Fulls
<1>1. PICK L \in Nat : L = Len(libs) /\ \A k \in 1..L : libs[k] \in Libs \cup {STD}
    OBVIOUS
<1>2. PICK F : F = Fulls
    OBVIOUS
<1>3. PICK T : T = [k \in 0..L |-> F]
    OBVIOUS
<1>4. PICK step : step = [kt \in (1..L) \X F |-> MergeLib(kt[2], libs[kt[1]])]
    OBVIOUS
<1>5. \A k \in 1..L, t \in F : step[<<k, t>>] = MergeLib(t, libs[k])
    BY <1>4
<1>6. \A k \in 1..L, t \in F : MergeLib(t, libs[k]) \in F
    BY <1>1, <1>2, MergeLibHolds
<1>7. \A k \in 1..L : k - 1 \in 0..L /\ k \in 0..L /\ k # 0
    OBVIOUS
<1>8. tables \in T[0] /\ 0 \in 0..L
    BY <1>2, <1>3, 0 \in 0..L
<1>9. PICK f : /\ f = [k \in 0..L |-> f[k]] /\ f[0] = tables
               /\ \A k \in 1..L : f[k] = step[<<k, f[k - 1]>>]
               /\ \A k \in 0..L : f[k] \in T[k]
  <2>1. \A k \in 1..L : \A t \in T[k - 1] : step[<<k, t>>] \in T[k]
      BY <1>3, <1>5, <1>6, <1>7
  <2>2. Leads(L, tables, T, step)
      BY <1>8, <2>1 DEF Leads
  <2>3. PICK f : Follows(L, tables, T, step, f)
      BY <2>2, Recursion
  <2>. QED BY <2>3 DEF Follows
<1> DEFINE Is(g) == g = [k \in 0..Len(libs) |-> IF k = 0 THEN tables ELSE MergeLib(g[k - 1], libs[k])]
<1>10. PICK merged : merged = CHOOSE g : Is(g)
    OBVIOUS
<1>11. MergeLibs(tables, libs) = merged[L]
    BY <1>1, <1>10 DEF MergeLibs
<1>12. f = [k \in 0..L |-> IF k = 0 THEN tables ELSE MergeLib(f[k - 1], libs[k])]
  <2>1. ASSUME NEW k \in 0..L, k # 0
        PROVE  f[k] = MergeLib(f[k - 1], libs[k])
    <3>1. k \in 1..L /\ k - 1 \in 0..L
        BY <2>1
    <3>2. f[k - 1] \in F
        BY <1>3, <1>9, <3>1
    <3>. QED BY <1>5, <1>9, <3>1, <3>2
  <2>. QED BY <1>9, <2>1
<1>13. Is(merged)
    BY <1>1, <1>10, <1>12
<1>14. merged[0] = tables /\ \A k \in 1..L : merged[k] = MergeLib(merged[k - 1], libs[k])
    BY <1>1, <1>7, <1>8, <1>13
<1>15. \A k \in 0..L : merged[k] \in T[k]
  <2>1. merged[0] \in T[0]
      BY <1>8, <1>14
  <2>2. \A k \in 1..L : merged[k - 1] \in T[k - 1] => merged[k] \in T[k]
      BY <1>3, <1>6, <1>7, <1>14
  <2>. QED BY <2>1, <2>2, Throughout
<1>16. \A k \in 0..L : merged[k] \in Fulls
    BY <1>2, <1>3, <1>15
<1>. QED BY <1>1, <1>11, <1>14, <1>16

LEMMA MergeLibsFull ==
  ASSUME overridden \in Seq(Targets), NEW tables \in Fulls, NEW libs \in Seq(Libs \cup {STD})
  PROVE  MergeLibs(tables, libs) \in Fulls
<1>1. Len(libs) \in 0..Len(libs)
    OBVIOUS
<1>. QED BY <1>1, MergeLibsAre

-----------------------------------------------------------------------------
(* Overrides of single functions *)

LEMMA RowPut ==
  ASSUME overridden \in Seq(Targets), NEW tables \in Fulls, NEW i \in 1..Len(tables), NEW r \in Rows
  PROVE  [tables EXCEPT ![i] = r] \in Fulls
<1>1. PICK L \in Nat : L = Len(tables) /\ DOMAIN tables = 1..L /\ L <= Len(overridden)
    BY DEF Fulls
<1>2. tables \in Seq(Rows)
    BY DEF Fulls
<1>3. PICK u : u = [tables EXCEPT ![i] = r]
    OBVIOUS
<1>4. u \in Seq(Rows) /\ Len(u) = Len(tables)
    BY <1>2, <1>3
<1>. QED BY <1>1, <1>3, <1>4 DEF Fulls

LEMMA RowOf ==
  ASSUME NEW tables \in Fulls, NEW i \in 1..Len(tables)
  PROVE  /\ tables[i] \in Rows /\ tables[i].named \in NamedApis /\ Increasing(tables[i].named)
         /\ tables[i].unnamed \in Seq(Dword)
<1>1. tables[i] \in Rows
    BY DEF Fulls
<1>. QED BY <1>1, RowHas

\* The place of a key in a table of names.
LEMMA BoundIsBetween ==
  ASSUME NEW named \in NamedApis, Increasing(named), NEW key \in Int
  PROVE  Between(named, LowerBound(named, key), key)
<1>1. named \in Seq(Entries) /\ \A e \in Entries : e.key \in Int
    BY TablesAssumption DEF NamedApis, Entries
<1>2. PICK k : k = PlaceFrom(named, 1, key)
    OBVIOUS
<1>3. /\ k \in 1..Len(named) + 1
      /\ \A j \in 1..k - 1 : named[j].key < key
      /\ k <= Len(named) => key <= named[k].key
  <2>1. 1 \in 1..Len(named) + 1
      BY <1>1
  <2>. QED BY <1>1, <1>2, <2>1, Place
<1>. QED BY <1>2, <1>3 DEF Between, LowerBound

LEMMA EraseFull ==
  ASSUME overridden \in Seq(Targets), NEW tables \in Fulls, NEW o, NEW i, CanErase(tables, o, i)
  PROVE  EraseOne(tables, o, i) \in Fulls
<1>1. i \in 1..Len(tables)
    BY DEF CanErase, Fulls
<1>2. PICK named, unnamed : named = tables[i].named /\ unnamed = tables[i].unnamed
    OBVIOUS
<1>3. /\ tables[i] \in Rows /\ named \in NamedApis /\ Increasing(named) /\ unnamed \in Seq(Dword)
      /\ tables[i] = [named |-> named, unnamed |-> unnamed]
    BY <1>1, <1>2, RowOf, RowHas
<1>4. CASE o.kind = "name"
  <2>1. PICK k : k = LowerBound(named, o.key)
      OBVIOUS
  <2>2. k \in DOMAIN named
      BY <1>2, <1>4, <2>1 DEF CanErase, IsAt
  <2>3. k \in 1..Len(named)
      BY <1>3, <2>2 DEF NamedApis
  <2>4. PICK n : n = RemoveAt(named, k)
      OBVIOUS
  <2>5. n \in NamedApis /\ Increasing(n)
      BY <1>3, <2>3, <2>4, RemoveKeepsOrder
  <2>6. PICK r : r = [named |-> n, unnamed |-> unnamed]
      OBVIOUS
  <2>7. r \in Rows
      BY <1>3, <2>5, <2>6, RowIs
  <2>8. r = [tables[i] EXCEPT !.named = n]
      BY <1>3, <2>6
  <2>9. EraseOne(tables, o, i) = [tables EXCEPT ![i] = r]
      BY <1>2, <1>4, <2>1, <2>4, <2>8 DEF EraseOne
  <2>. QED BY <1>1, <2>7, <2>9, RowPut
<1>5. CASE o.kind # "name"
  <2>1. o.key \in DOMAIN unnamed
      BY <1>2, <1>5 DEF CanErase
  <2>2. PICK u : u = [unnamed EXCEPT ![o.key] = 0]
      OBVIOUS
  <2>3. u \in Seq(Dword)
    <3>1. 0 \in Dword
        BY ZeroIsDword
    <3>. QED BY <1>3, <2>1, <2>2, <3>1
  <2>4. PICK r : r = [named |-> named, unnamed |-> u]
      OBVIOUS
  <2>5. r \in Rows
      BY <1>3, <2>3, <2>4, RowIs
  <2>6. r = [tables[i] EXCEPT !.unnamed = u]
      BY <1>3, <2>4
  <2>7. EraseOne(tables, o, i) = [tables EXCEPT ![i] = r]
      BY <1>2, <1>5, <2>2, <2>6 DEF EraseOne
  <2>. QED BY <1>1, <2>5, <2>7, RowPut
<1>. QED BY <1>4, <1>5

\* What is taken from a library is one of its functions with that name or ordinal.
LEMMA SourceTypes ==
  ASSUME overridden \in Seq(Targets), apilibs \in Seq(Libs \cup {STD}), NEW o, CanMerge(o)
  PROVE  /\ o.lib \in Libs \cup {STD}
         /\ SourceOf(o)[PlaceIn(o)].addr \in Dword
         /\ IF o.kind = "name" THEN o.key \in Names ELSE o.key \in Nat \ {0}
<1>1. o.lib \in Libs \cup {STD} /\ Overrides(o.lib, o.target)
  <2>1. \A k \in DOMAIN apilibs : apilibs[k] \in Libs \cup {STD}
      OBVIOUS
  <2>. QED BY <2>1 DEF CanMerge, ToSet
<1>2. PICK named, ordinals : /\ named = TableFor(o.lib, o.target).named
                             /\ ordinals = TableFor(o.lib, o.target).ordinals
    OBVIOUS
<1>3. named \in NamedApis /\ ordinals \in OrdinalApis
    BY <1>1, <1>2, TableTypes
<1>4. PICK k : k = PlaceIn(o)
    OBVIOUS
<1>5. CASE o.kind = "name"
  <2>1. SourceOf(o) = named
      BY <1>2, <1>5 DEF SourceOf
  <2>2. k \in DOMAIN named /\ named[k].key = o.key
      BY <1>4, <2>1 DEF CanMerge, IsAt
  <2>3. named \in Seq(Entries)
      BY <1>3 DEF NamedApis, Entries
  <2>4. named[k] \in Entries
      BY <2>2, <2>3
  <2>5. named[k].key \in Names /\ named[k].addr \in Dword
      BY <2>4 DEF Entries
  <2>. QED BY <1>1, <1>4, <1>5, <2>1, <2>2, <2>5
<1>6. CASE o.kind # "name"
  <2>1. SourceOf(o) = ordinals
      BY <1>2, <1>6 DEF SourceOf
  <2>2. k \in DOMAIN ordinals /\ ordinals[k].key = o.key
      BY <1>4, <2>1 DEF CanMerge, IsAt
  <2>3. PICK E : E = [key : Nat \ {0}, addr : Dword]
      OBVIOUS
  <2>4. ordinals \in Seq(E)
      BY <1>3, <2>3 DEF OrdinalApis
  <2>5. ordinals[k] \in E
      BY <2>2, <2>4
  <2>6. ordinals[k].key \in Nat \ {0} /\ ordinals[k].addr \in Dword
      BY <2>3, <2>5
  <2>. QED BY <1>1, <1>4, <1>6, <2>1, <2>2, <2>6
<1>. QED BY <1>5, <1>6

LEMMA MergeOneFull ==
  ASSUME overridden \in Seq(Targets), apilibs \in Seq(Libs \cup {STD}), NEW tables \in Fulls,
         NEW o, CanMerge(o), NEW i \in 1..Len(overridden)
  PROVE  MergeOne(tables, o, i) \in Fulls
<1>1. PICK all : all = Grown(tables, i)
    OBVIOUS
<1>2. all \in Fulls /\ i <= Len(all)
  <2>1. i \in 0..Len(overridden)
      OBVIOUS
  <2>. QED BY <1>1, <2>1, GrownFull
<1>3. i \in 1..Len(all)
    BY <1>2 DEF Fulls
<1>4. PICK addr : addr = Encoded(SourceOf(o)[PlaceIn(o)].addr, o.lib)
    OBVIOUS
<1>5. addr \in Dword
    BY <1>4, SourceTypes, EncodedIsDword
<1>6. PICK named, unnamed : named = all[i].named /\ unnamed = all[i].unnamed
    OBVIOUS
<1>7. /\ all[i] \in Rows /\ named \in NamedApis /\ Increasing(named) /\ unnamed \in Seq(Dword)
      /\ all[i] = [named |-> named, unnamed |-> unnamed]
    BY <1>2, <1>3, <1>6, RowOf, RowHas
<1>8. CASE o.kind = "name"
  <2>1. PICK new : new = [key |-> o.key, addr |-> addr]
      OBVIOUS
  <2>2. new \in Entries /\ new.key = o.key /\ o.key \in Int
      BY <1>5, <1>8, <2>1, SourceTypes, TablesAssumption DEF Entries
  <2>3. PICK n : n = PutName(named, new)
      OBVIOUS
  <2>4. n \in NamedApis /\ Increasing(n)
    <3>1. PICK k : k = LowerBound(named, new.key)
        OBVIOUS
    <3>2. Between(named, k, new.key)
        BY <1>7, <2>2, <3>1, BoundIsBetween
    <3>3. n = PutAt(named, k, new)
        BY <2>3, <3>1 DEF PutName
    <3>. QED BY <1>7, <2>2, <3>2, <3>3, PutKeepsOrder
  <2>5. PICK r : r = [named |-> n, unnamed |-> unnamed]
      OBVIOUS
  <2>6. r \in Rows
      BY <1>7, <2>4, <2>5, RowIs
  <2>7. r = [all[i] EXCEPT !.named = n]
      BY <1>7, <2>5
  <2>8. MergeOne(tables, o, i) = [all EXCEPT ![i] = r]
      BY <1>1, <1>4, <1>6, <1>8, <2>1, <2>3, <2>7 DEF MergeOne
  <2>. QED BY <1>2, <1>3, <2>6, <2>8, RowPut
<1>9. CASE o.kind # "name"
  <2>1. o.key \in Nat \ {0}
      BY <1>9, SourceTypes
  <2>2. PICK g : g = GrownOrdinals(unnamed, o.key)
      OBVIOUS
  <2>3. g \in Seq(Dword) /\ o.key <= Len(g)
      BY <1>7, <2>1, <2>2, GrownOrdinalsTypes
  <2>4. PICK u : u = [g EXCEPT ![o.key] = addr]
      OBVIOUS
  <2>5. u \in Seq(Dword)
    <3>1. o.key \in DOMAIN g
        BY <2>1, <2>3
    <3>. QED BY <1>5, <2>3, <2>4, <3>1
  <2>6. PICK r : r = [named |-> named, unnamed |-> u]
      OBVIOUS
  <2>7. r \in Rows
      BY <1>7, <2>5, <2>6, RowIs
  <2>8. r = [all[i] EXCEPT !.unnamed = u]
      BY <1>7, <2>6
  <2>9. MergeOne(tables, o, i) = [all EXCEPT ![i] = r]
      BY <1>1, <1>4, <1>6, <1>9, <2>2, <2>4, <2>8 DEF MergeOne
  <2>. QED BY <1>2, <1>3, <2>7, <2>9, RowPut
<1>. QED BY <1>8, <1>9

LEMMA OverrideKeeps ==
  ASSUME overridden \in Seq(Targets), apilibs \in Seq(Libs \cup {STD}),
         NEW tables \in Fulls \cup {Failed}, NEW o
  PROVE  Override(tables, o) \in Fulls \cup {Failed}
<1>1. PICK I : I = {k \in 1..Len(overridden) : overridden[k] = o.target}
    OBVIOUS
<1>2. PICK i : i = SelectInSeq(overridden, LAMBDA t : t = o.target)
    OBVIOUS
<1>3. i = IF I # {} THEN Min(I) ELSE 0
    BY <1>1, <1>2 DEF SelectInSeq
<1>4. I # {} => Min(I) \in I
  <2>1. I \in SUBSET Nat
      BY <1>1
  <2>. QED BY <2>1, Minimum
<1>5. i = 0 \/ i \in 1..Len(overridden)
    BY <1>1, <1>3, <1>4
<1>6. Override(tables, o) =
        IF tables = Failed \/ i = 0 THEN Failed
        ELSE IF o.lib = None
          THEN IF CanErase(tables, o, i) THEN EraseOne(tables, o, i) ELSE Failed
        ELSE IF CanMerge(o) THEN MergeOne(tables, o, i) ELSE Failed
    BY <1>2 DEF Override
<1>7. CASE tables = Failed \/ i = 0
    BY <1>6, <1>7
<1>8. CASE ~(tables = Failed \/ i = 0)
  <2>1. tables \in Fulls /\ i \in 1..Len(overridden)
      BY <1>5, <1>8
  <2>2. CanErase(tables, o, i) => EraseOne(tables, o, i) \in Fulls
      BY <2>1, EraseFull
  <2>3. CanMerge(o) => MergeOne(tables, o, i) \in Fulls
      BY <2>1, MergeOneFull
  <2>. QED BY <1>6, <2>2, <2>3
<1>. QED BY <1>7, <1>8

\* The tables after each line.
LEMMA OverridingIs ==
  ASSUME overridden \in Seq(Targets), apilibs \in Seq(Libs \cup {STD}),
         NEW tables \in Fulls, NEW lines, lines \in Seq(ToSet(lines))
  PROVE  \E f : /\ f[0] = tables /\ f[Len(lines)] = Overriding(tables, lines)
                /\ \A k \in 1..Len(lines) : f[k] = Override(f[k - 1], lines[k])
                /\ \A k \in 0..Len(lines) : f[k] \in Fulls \cup {Failed}
<1>1. PICK L \in Nat : L = Len(lines)
    OBVIOUS
<1>2. PICK F : F = Fulls \cup {Failed}
    OBVIOUS
<1>3. PICK T : T = [k \in 0..L |-> F]
    OBVIOUS
<1>4. PICK step : step = [kt \in (1..L) \X F |-> Override(kt[2], lines[kt[1]])]
    OBVIOUS
<1>5. \A k \in 1..L, t \in F : step[<<k, t>>] = Override(t, lines[k])
    BY <1>4
<1>6. \A k \in 1..L, t \in F : Override(t, lines[k]) \in F
    BY <1>2, OverrideKeeps
<1>7. \A k \in 1..L : k - 1 \in 0..L /\ k \in 0..L /\ k # 0
    OBVIOUS
<1>8. tables \in T[0] /\ 0 \in 0..L
    BY <1>2, <1>3, 0 \in 0..L
<1>9. PICK f : /\ f = [k \in 0..L |-> f[k]] /\ f[0] = tables
               /\ \A k \in 1..L : f[k] = step[<<k, f[k - 1]>>]
               /\ \A k \in 0..L : f[k] \in T[k]
  <2>1. \A k \in 1..L : \A t \in T[k - 1] : step[<<k, t>>] \in T[k]
      BY <1>3, <1>5, <1>6, <1>7
  <2>2. Leads(L, tables, T, step)
      BY <1>8, <2>1 DEF Leads
  <2>3. PICK f : Follows(L, tables, T, step, f)
      BY <2>2, Recursion
  <2>. QED BY <2>3 DEF Follows
<1> DEFINE Is(g) == g = [k \in 0..Len(lines) |-> IF k = 0 THEN tables ELSE Override(g[k - 1], lines[k])]
<1>10. PICK after : after = CHOOSE g : Is(g)
    OBVIOUS
<1>11. Overriding(tables, lines) = after[L]
    BY <1>1, <1>10 DEF Overriding
<1>12. f = [k \in 0..L |-> IF k = 0 THEN tables ELSE Override(f[k - 1], lines[k])]
  <2>1. ASSUME NEW k \in 0..L, k # 0
        PROVE  f[k] = Override(f[k - 1], lines[k])
    <3>1. k \in 1..L /\ k - 1 \in 0..L
        BY <2>1
    <3>2. f[k - 1] \in F
        BY <1>3, <1>9, <3>1
    <3>. QED BY <1>5, <1>9, <3>1, <3>2
  <2>. QED BY <1>9, <2>1
<1>13. Is(after)
    BY <1>1, <1>10, <1>12
<1>14. after[0] = tables /\ \A k \in 1..L : after[k] = Override(after[k - 1], lines[k])
    BY <1>1, <1>7, <1>8, <1>13
<1>15. \A k \in 0..L : after[k] \in T[k]
  <2>1. after[0] \in T[0]
      BY <1>8, <1>14
  <2>2. \A k \in 1..L : after[k - 1] \in T[k - 1] => after[k] \in T[k]
      BY <1>3, <1>6, <1>7, <1>14
  <2>. QED BY <2>1, <2>2, Throughout
<1>16. \A k \in 0..L : after[k] \in Fulls \cup {Failed}
    BY <1>2, <1>3, <1>15
<1>. QED BY <1>1, <1>11, <1>14, <1>16

LEMMA OverridingKeeps ==
  ASSUME overridden \in Seq(Targets), apilibs \in Seq(Libs \cup {STD}),
         NEW tables \in Fulls, NEW lines, lines \in Seq(ToSet(lines))
  PROVE  Overriding(tables, lines) \in Fulls \cup {Failed}
<1>1. Len(lines) \in 0..Len(lines)
    OBVIOUS
<1>. QED BY <1>1, OverridingIs

-----------------------------------------------------------------------------
(* Libraries of an entry *)

LEMMA JoinedHas ==
  ASSUME NEW S, NEW s \in Seq(S), NEW u \in Seq(S)
  PROVE  s \o u \in Seq(S) /\ ToSet(s) \subseteq ToSet(s \o u) /\ ToSet(u) \subseteq ToSet(s \o u)
<1>1. PICK v : v = s \o u
    OBVIOUS
<1>2. /\ v \in Seq(S) /\ Len(v) = Len(s) + Len(u)
      /\ \A k \in 1..Len(s) : v[k] = s[k]
      /\ \A k \in 1..Len(u) : v[Len(s) + k] = u[k]
    BY <1>1
<1>3. /\ DOMAIN s = 1..Len(s) /\ DOMAIN u = 1..Len(u) /\ DOMAIN v = 1..Len(s) + Len(u)
      /\ Len(s) \in Nat /\ Len(u) \in Nat
    BY <1>2
<1>4. /\ \A k \in 1..Len(s) : k \in 1..Len(s) + Len(u)
      /\ \A k \in 1..Len(u) : Len(s) + k \in 1..Len(s) + Len(u)
    BY <1>3
<1>5. \A k \in 1..Len(s) : s[k] \in ToSet(v)
    BY <1>2, <1>3, <1>4 DEF ToSet
<1>6. ASSUME NEW k \in 1..Len(u) PROVE u[k] \in ToSet(v)
  <2>1. v[Len(s) + k] = u[k] /\ Len(s) + k \in DOMAIN v
      BY <1>2, <1>3, <1>4
  <2>. QED BY <2>1 DEF ToSet
<1>7. \A x \in ToSet(s) : x \in ToSet(v)
    BY <1>3, <1>5 DEF ToSet
<1>8. \A x \in ToSet(u) : x \in ToSet(v)
    BY <1>3, <1>6 DEF ToSet
<1>. QED BY <1>1, <1>2, <1>7, <1>8

LEMMA Flattened ==
  ASSUME NEW S, NEW seqs \in Seq(Seq(S))
  PROVE  /\ FlattenSeq(seqs) \in Seq(S)
         /\ \A k \in 1..Len(seqs) : ToSet(seqs[k]) \subseteq ToSet(FlattenSeq(seqs))
<1>1. PICK n \in Nat : n = Len(seqs) /\ \A k \in 1..n : seqs[k] \in Seq(S)
    OBVIOUS
<1>2. CASE n = 0
  <2>1. Len(seqs) = 0
      BY <1>1, <1>2
  <2>2. FlattenSeq(seqs) = seqs
      BY <2>1, Zenon DEF FlattenSeq
  <2>3. seqs = <<>>
      BY <2>1, EmptySeq
  <2>4. <<>> \in Seq(S)
      OBVIOUS
  <2>. QED BY <1>1, <1>2, <2>2, <2>3, <2>4
<1>3. CASE n # 0
  <2>1. PICK L \in Nat : L = n - 1
    <3>1. n - 1 \in Nat
        BY <1>3
    <3>. QED BY <3>1
  <2>2. L + 1 = n /\ (\A k \in 1..L : k \in 1..n /\ k + 1 \in 1..n) /\ 1 \in 1..n
      BY <1>1, <2>1
  <2>3. PICK F : F = Seq(S)
      OBVIOUS
  <2>4. PICK T : T = [k \in 0..L |-> {s \in F : \A m \in 1..k + 1 : ToSet(seqs[m]) \subseteq ToSet(s)}]
      OBVIOUS
  <2>5. PICK step : step = [kt \in (1..L) \X F |-> kt[2] \o seqs[kt[1] + 1]]
      OBVIOUS
  <2>6. \A k \in 1..L, t \in F : step[<<k, t>>] = t \o seqs[k + 1]
      BY <2>5
  <2>8. \A k \in 1..L : k - 1 \in 0..L /\ k \in 0..L /\ k # 0 /\ (k - 1) + 1 = k
      BY <2>1
  <2>7. ASSUME NEW k \in 1..L, NEW t \in T[k - 1]
        PROVE  t \in F /\ t \o seqs[k + 1] \in T[k]
    <3>1. t \in F /\ \A m \in 1..k : ToSet(seqs[m]) \subseteq ToSet(t)
        BY <2>4, <2>8
    <3>2. seqs[k + 1] \in Seq(S)
        BY <1>1, <2>2
    <3>3. /\ t \o seqs[k + 1] \in F
          /\ ToSet(t) \subseteq ToSet(t \o seqs[k + 1])
          /\ ToSet(seqs[k + 1]) \subseteq ToSet(t \o seqs[k + 1])
        BY <2>3, <3>1, <3>2, JoinedHas
    <3>4. \A m \in 1..k + 1 : m = k + 1 \/ m \in 1..k
        OBVIOUS
    <3>5. \A m \in 1..k + 1 : ToSet(seqs[m]) \subseteq ToSet(t \o seqs[k + 1])
        BY <3>1, <3>3, <3>4
    <3>. QED BY <2>4, <2>8, <3>1, <3>3, <3>5
  <2>9. seqs[1] \in T[0] /\ 0 \in 0..L
    <3>1. 0 \in 0..L /\ \A m \in 1..0 + 1 : m = 1
        OBVIOUS
    <3>2. seqs[1] \in F
        BY <1>1, <2>2, <2>3
    <3>. QED BY <2>4, <3>1, <3>2
  <2>10. PICK f : /\ f = [k \in 0..L |-> f[k]] /\ f[0] = seqs[1]
                  /\ \A k \in 1..L : f[k] = step[<<k, f[k - 1]>>]
                  /\ \A k \in 0..L : f[k] \in T[k]
    <3>1. \A k \in 1..L : \A t \in T[k - 1] : step[<<k, t>>] \in T[k]
        BY <2>6, <2>7
    <3>2. Leads(L, seqs[1], T, step)
        BY <2>9, <3>1 DEF Leads
    <3>3. PICK f : Follows(L, seqs[1], T, step, f)
        BY <3>2, Recursion
    <3>. QED BY <3>3 DEF Follows
  <2>11. PICK g : g = [i \in 1..n |-> f[i - 1]]
      OBVIOUS
  <2>12. \A i \in 1..n : i - 1 \in 0..L /\ (i # 1 => i - 1 \in 1..L /\ i - 1 \in 1..n)
    <3>1. ASSUME NEW i \in 1..n PROVE i - 1 \in 0..L
        BY <1>1, <2>1
    <3>2. ASSUME NEW i \in 1..n, i # 1 PROVE i - 1 \in 1..L /\ i - 1 \in 1..n
        BY <1>1, <2>1, <3>2
    <3>. QED BY <3>1, <3>2
  <2> DEFINE Is(h) == h = [i \in 1..Len(seqs) |-> IF i = 1 THEN seqs[i] ELSE h[i - 1] \o seqs[i]]
  <2>13. PICK flatten : flatten = CHOOSE h : Is(h)
      OBVIOUS
  <2>14. FlattenSeq(seqs) = flatten[n]
      BY <1>1, <1>3, <2>13 DEF FlattenSeq
  <2>15. ASSUME NEW i \in 1..n
         PROVE  g[i] = IF i = 1 THEN seqs[i] ELSE g[i - 1] \o seqs[i]
    <3>1. CASE i = 1
        BY <2>10, <2>11, <3>1
    <3>2. CASE i # 1
      <4>1. i - 1 \in 1..L /\ i - 1 \in 1..n /\ i - 1 \in 0..L /\ (i - 1) - 1 \in 0..L
            /\ (i - 1) + 1 = i
          BY <2>8, <2>12, <3>2
      <4>2. f[(i - 1) - 1] \in F
          BY <2>7, <2>10, <4>1
      <4>3. f[i - 1] = f[(i - 1) - 1] \o seqs[(i - 1) + 1]
          BY <2>6, <2>10, <4>1, <4>2
      <4>4. g[i] = f[i - 1] /\ g[i - 1] = f[(i - 1) - 1]
          BY <2>11, <4>1
      <4>. QED BY <3>2, <4>1, <4>3, <4>4
    <3>. QED BY <3>1, <3>2
  <2>16. g = [i \in 1..n |-> IF i = 1 THEN seqs[i] ELSE g[i - 1] \o seqs[i]]
      BY <2>11, <2>15
  <2>17. Is(flatten)
      BY <1>1, <2>13, <2>16
  <2>18. \A i \in 1..n : flatten[i] = IF i = 1 THEN seqs[i] ELSE flatten[i - 1] \o seqs[i]
      BY <1>1, <2>17
  <2>19. PICK h : h = [k \in 0..L |-> flatten[k + 1]]
      OBVIOUS
  <2>20. \A k \in 0..L : h[k] \in T[k]
    <3>1. h[0] \in T[0]
      <4>1. h[0] = flatten[1] /\ flatten[1] = seqs[1]
          BY <2>2, <2>9, <2>18, <2>19
      <4>. QED BY <2>9, <4>1
    <3>2. ASSUME NEW k \in 1..L, h[k - 1] \in T[k - 1] PROVE h[k] \in T[k]
      <4>1. /\ k - 1 \in 0..L /\ k \in 0..L /\ (k - 1) + 1 = k /\ k + 1 \in 1..n
            /\ (k + 1) - 1 = k /\ k + 1 # 1
          BY <2>2, <2>8
      <4>2. h[k - 1] = flatten[k] /\ h[k] = flatten[k + 1]
          BY <2>19, <4>1
      <4>3. flatten[k + 1] = flatten[k] \o seqs[k + 1]
          BY <2>18, <4>1
      <4>. QED BY <2>7, <3>2, <4>2, <4>3
    <3>. QED BY <3>1, <3>2, Throughout
  <2>21. flatten[n] \in F /\ \A m \in 1..n : ToSet(seqs[m]) \subseteq ToSet(flatten[n])
    <3>1. L \in 0..L /\ h[L] = flatten[n]
        BY <2>2, <2>19
    <3>. QED BY <2>2, <2>4, <2>20, <3>1
  <2>. QED BY <1>1, <2>3, <2>14, <2>21
<1>. QED BY <1>2, <1>3

LEMMA TargetsOfTypes ==
  ASSUME NEW libs \in Seq(Libs \cup {STD})
  PROVE  /\ TargetsOf(libs) \in Seq(Targets)
         /\ \A lib \in ToSet(libs) \cap Libs : \A k \in DOMAIN LibTables[lib] :
              LibTables[lib][k].target \in ToSet(TargetsOf(libs))
<1>1. PICK N \in Nat : N = Len(libs) /\ DOMAIN libs = 1..N /\ \A k \in 1..N : libs[k] \in Libs \cup {STD}
    OBVIOUS
<1>2. PICK seqs : seqs = [k \in 1..N |->
                            IF libs[k] = STD THEN <<>>
                            ELSE [m \in DOMAIN LibTables[libs[k]] |-> LibTables[libs[k]][m].target]]
    OBVIOUS
<1>3. ASSUME NEW k \in 1..N PROVE seqs[k] \in Seq(Targets)
  <2>1. CASE libs[k] = STD
      BY <1>2, <2>1
  <2>2. CASE libs[k] # STD
    <3>1. PICK tables : tables = LibTables[libs[k]]
        OBVIOUS
    <3>2. PICK Shape : Shape = [target : Targets, named : NamedApis, ordinals : OrdinalApis]
        OBVIOUS
    <3>3. tables \in Seq(Shape)
        BY <1>1, <2>2, <3>1, <3>2, TablesAssumption
    <3>4. PICK M \in Nat : M = Len(tables) /\ DOMAIN tables = 1..M /\ \A m \in 1..M : tables[m] \in Shape
        BY <3>3
    <3>5. PICK u : u = [m \in 1..M |-> tables[m].target]
        OBVIOUS
    <3>6. \A m \in 1..M : u[m] \in Targets
        BY <3>2, <3>4, <3>5
    <3>7. Spans(u, M)
        BY <3>5 DEF Spans
    <3>8. u \in Seq(Targets)
        BY <3>6, <3>7, SpansASeq
    <3>9. seqs[k] = u
        BY <1>2, <2>2, <3>1, <3>4, <3>5
    <3>. QED BY <3>8, <3>9
  <2>. QED BY <2>1, <2>2
<1>4. Spans(seqs, N)
    BY <1>2 DEF Spans
<1>5. seqs \in Seq(Seq(Targets))
    BY <1>3, <1>4, SpansASeq
<1>6. TargetsOf(libs) = FlattenSeq(seqs)
    BY <1>1, <1>2 DEF TargetsOf
<1>7. Len(seqs) = N
    BY <1>2, <1>5
<1>8. /\ FlattenSeq(seqs) \in Seq(Targets)
      /\ \A k \in 1..N : ToSet(seqs[k]) \subseteq ToSet(FlattenSeq(seqs))
    BY <1>5, <1>7, Flattened
<1>9. ASSUME NEW lib \in ToSet(libs) \cap Libs, NEW m \in DOMAIN LibTables[lib]
      PROVE  LibTables[lib][m].target \in ToSet(FlattenSeq(seqs))
  <2>1. PICK k \in 1..N : libs[k] = lib
      BY <1>1 DEF ToSet
  <2>2. lib # STD
      BY TablesAssumption
  <2>3. seqs[k] = [j \in DOMAIN LibTables[lib] |-> LibTables[lib][j].target]
      BY <1>2, <2>1, <2>2
  <2>4. LibTables[lib][m].target \in ToSet(seqs[k])
      BY <2>3 DEF ToSet
  <2>. QED BY <1>8, <2>4
<1>. QED BY <1>6, <1>8, <1>9

-----------------------------------------------------------------------------
(* Which configurations are loaded *)

SectionName(k) == ini.sections[k].name
Configured(k)  == \E c \in DOMAIN apiconfs : apiconfs[c].name = SectionName(k)

\* Entries are loaded in their order.  As long as none has failed, each has its
\* number; the default one is not passed by without being loaded.
ConfigurationsInv ==
  /\ ini \in Inis /\ entry \in Nat \ {0} /\ entry <= Len(ini.sections) + 1
  /\ apiconfs \in Seq(ToSet(apiconfs)) /\ Len(apiconfs) < entry
  /\ apiconf = [name |-> apiconf.name, tables |-> apiconf.tables]
  /\ phase = "tables" => entry <= Len(ini.sections) /\ apiconf.name = SectionName(entry)
  /\ \A c \in DOMAIN apiconfs : \E j \in 1..entry-1 : apiconfs[c].name = SectionName(j)
  /\ \A m \in 0..entry-1 : (\A k \in 1..m : Configured(k)) =>
       m <= Len(apiconfs) /\ \A k \in 1..m : apiconfs[k].name = SectionName(k)
  /\ ini.default < entry => Configured(ini.default) \/ phase = "aborted"
  /\ DefaultOrNothing

LEMMA AllConfigured ==
  ASSUME ConfigurationsInv, NEW m \in 0..entry-1, \A k \in 1..m : Configured(k)
  PROVE  m <= Len(apiconfs) /\ \A k \in 1..m : apiconfs[k].name = SectionName(k)
<1>1. \A n \in 0..entry-1 : (\A k \in 1..n : Configured(k)) =>
        n <= Len(apiconfs) /\ \A k \in 1..n : apiconfs[k].name = SectionName(k)
    BY DEF ConfigurationsInv
<1>. QED BY <1>1

LEMMA SectionsDiffer ==
  ASSUME ConfigurationsInv
  PROVE  /\ ini.default \in Nat \ {0} /\ Len(ini.sections) \in Nat
         /\ DOMAIN ini.sections = 1..Len(ini.sections)
         /\ \A j, k \in 1..Len(ini.sections) : SectionName(j) = SectionName(k) => j = k
         /\ DOMAIN apiconfs = 1..Len(apiconfs) /\ Len(apiconfs) \in Nat
<1>1. /\ ini.default \in Nat \ {0} /\ ini.sections \in Seq(ToSet(ini.sections))
      /\ \A j, k \in DOMAIN ini.sections : SectionName(j) = SectionName(k) => j = k
    BY InisAssumption DEF ConfigurationsInv, SectionName
<1>2. Len(ini.sections) \in Nat /\ DOMAIN ini.sections = 1..Len(ini.sections)
    BY <1>1
<1>3. DOMAIN apiconfs = 1..Len(apiconfs) /\ Len(apiconfs) \in Nat
    BY DEF ConfigurationsInv
<1>. QED BY <1>1, <1>2, <1>3

LEMMA ConfigurationsInitially ==
  ASSUME TablesInit
  PROVE  ConfigurationsInv
<1>1. /\ ini \in Inis /\ apiconfs = <<>> /\ entry = 1 /\ phase = "libraries"
      /\ apiconf = [name |-> None, tables |-> <<>>]
    BY DEF TablesInit
<1>2. /\ ini.default \in Nat \ {0} /\ ini.sections \in Seq(ToSet(ini.sections))
    BY <1>1, InisAssumption
<1>3. Len(ini.sections) \in Nat
    BY <1>2
<1>4. <<>> \in Seq(ToSet(<<>>)) /\ Len(<<>>) = 0 /\ DOMAIN <<>> = {}
    BY DEF ToSet
<1>5. \A m \in 0..entry-1 : m = 0
    BY <1>1
<1>6. 1..0 = {}
    OBVIOUS
<1>7. apiconf = [name |-> apiconf.name, tables |-> apiconf.tables]
    BY <1>1
<1>. QED BY <1>1, <1>2, <1>3, <1>4, <1>5, <1>6, <1>7 DEF ConfigurationsInv, DefaultOrNothing

\* What has been loaded stays.
LEMMA NextEntryKeeps ==
  ASSUME ConfigurationsInv, NextEntry, UNCHANGED ini,
         phase \in {"libraries", "tables"}, entry <= Len(ini.sections)
  PROVE  ConfigurationsInv'
<1>1. /\ entry' = entry + 1 /\ UNCHANGED <<apiconf, apiconfs>>
      /\ phase' = IF entry = ini.default THEN "aborted" ELSE "libraries"
    BY DEF NextEntry
<1>2. /\ ini.default \in Nat \ {0} /\ Len(ini.sections) \in Nat
      /\ \A j, k \in 1..Len(ini.sections) : SectionName(j) = SectionName(k) => j = k
      /\ entry \in Nat \ {0} /\ Len(apiconfs) \in Nat /\ Len(apiconfs) < entry
    BY SectionsDiffer DEF ConfigurationsInv
<1>3. \A k : SectionName(k)' = SectionName(k) /\ (Configured(k)' <=> Configured(k))
    BY <1>1 DEF SectionName, Configured
<1>4. ~Configured(entry)
  <2>1. \A c \in DOMAIN apiconfs : \E j \in 1..entry-1 : apiconfs[c].name = SectionName(j)
      BY DEF ConfigurationsInv
  <2>2. \A j \in 1..entry-1 : SectionName(j) # SectionName(entry)
      BY <1>2
  <2>. QED BY <2>1, <2>2 DEF Configured
<1>5. ASSUME NEW m \in 0..entry'-1, \A k \in 1..m : Configured(k)'
      PROVE  m <= Len(apiconfs') /\ \A k \in 1..m : apiconfs'[k].name = SectionName(k)'
  <2>1. m # entry
      BY <1>2, <1>3, <1>4, <1>5
  <2>2. m \in 0..entry-1
      BY <1>1, <1>2, <2>1
  <2>. QED BY <1>1, <1>3, <1>5, <2>2 DEF ConfigurationsInv
<1>6. ASSUME NEW c \in DOMAIN apiconfs'
      PROVE  \E j \in 1..entry'-1 : apiconfs'[c].name = SectionName(j)'
  <2>1. PICK j \in 1..entry-1 : apiconfs[c].name = SectionName(j)
      BY <1>1 DEF ConfigurationsInv
  <2>2. j \in 1..entry'-1
      BY <1>1, <1>2
  <2>. QED BY <1>1, <1>3, <2>1, <2>2
<1>7. ini.default < entry' => Configured(ini.default)' \/ phase' = "aborted"
  <2>1. CASE entry = ini.default
      BY <1>1, <2>1
  <2>2. CASE entry # ini.default
    <3>1. ini.default < entry' => ini.default < entry
        BY <1>1, <1>2, <2>2
    <3>2. ini.default < entry => Configured(ini.default)
        BY DEF ConfigurationsInv
    <3>3. Configured(ini.default) => Configured(ini.default)'
        BY <1>1 DEF Configured, SectionName
    <3>. QED BY <3>1, <3>2, <3>3
  <2>. QED BY <2>1, <2>2
<1>8. DefaultOrNothing'
    BY <1>1 DEF DefaultOrNothing
<1>9. /\ ini' \in Inis /\ entry' \in Nat \ {0} /\ entry' <= Len(ini'.sections) + 1
      /\ apiconfs' \in Seq(ToSet(apiconfs')) /\ Len(apiconfs') < entry'
      /\ apiconf' = [name |-> apiconf'.name, tables |-> apiconf'.tables]
      /\ phase' # "tables"
    BY <1>1, <1>2 DEF ConfigurationsInv
<1>. QED BY <1>5, <1>6, <1>7, <1>8, <1>9 DEF ConfigurationsInv

LEMMA LoadLibrariesKeeps ==
  ASSUME ConfigurationsInv, NEW missing, LoadLibraries(missing)
  PROVE  ConfigurationsInv'
<1>1. phase = "libraries" /\ UNCHANGED ini /\ entry <= Len(ini.sections)
    BY SectionsDiffer DEF LoadLibraries
<1>2. CASE NextEntry
    BY <1>1, <1>2, NextEntryKeeps
<1>3. CASE \E tables : /\ apiconf' = [name |-> Section.name, tables |-> tables]
                       /\ phase' = "tables" /\ UNCHANGED <<entry, apiconfs>>
  <2>1. PICK tables : /\ apiconf' = [name |-> Section.name, tables |-> tables]
                      /\ phase' = "tables" /\ UNCHANGED <<entry, apiconfs>>
      BY <1>3
  <2>2. \A k : SectionName(k)' = SectionName(k) /\ (Configured(k)' <=> Configured(k))
      BY <1>1, <2>1 DEF SectionName, Configured
  <2>3. DefaultOrNothing'
      BY <2>1 DEF DefaultOrNothing
  <2>4. apiconf'.name = SectionName(entry)
        /\ apiconf' = [name |-> apiconf'.name, tables |-> apiconf'.tables]
      BY <2>1 DEF SectionName, Section
  <2>5. ini.default < entry => Configured(ini.default)
      BY <1>1 DEF ConfigurationsInv
  <2>. QED BY <1>1, <2>1, <2>2, <2>3, <2>4, <2>5 DEF ConfigurationsInv
<1>. QED BY <1>2, <1>3 DEF LoadLibraries

LEMMA MakeTablesKeeps ==
  ASSUME ConfigurationsInv, NEW memory, MakeTables(memory)
  PROVE  ConfigurationsInv'
<1>1. phase = "tables" /\ UNCHANGED ini /\ entry <= Len(ini.sections)
    BY DEF MakeTables, ConfigurationsInv
<1>. PICK e : e = entry
    OBVIOUS
<1>2. CASE NextEntry
    BY <1>1, <1>2, NextEntryKeeps
<1>3. CASE \E tables : /\ apiconfs' = Append(apiconfs, [apiconf EXCEPT !.tables = tables])
                       /\ entry' = entry + 1 /\ phase' = "libraries" /\ UNCHANGED apiconf
  <2>1. PICK tables : apiconfs' = Append(apiconfs, [apiconf EXCEPT !.tables = tables])
      BY <1>3
  <2>2. PICK conf : conf = [apiconf EXCEPT !.tables = tables]
      OBVIOUS
  <2>3. conf.name = SectionName(entry)
      BY <1>1, <2>2 DEF ConfigurationsInv
  <2>4. /\ Len(apiconfs') = Len(apiconfs) + 1 /\ DOMAIN apiconfs' = 1..Len(apiconfs) + 1
        /\ apiconfs'[Len(apiconfs) + 1] = conf
        /\ \A c \in 1..Len(apiconfs) : apiconfs'[c] = apiconfs[c]
        /\ apiconfs' \in Seq(ToSet(apiconfs) \cup {conf})
    <3>1. PICK S : S = ToSet(apiconfs) \cup {conf}
        OBVIOUS
    <3>2. PICK s \in Seq(S) : s = apiconfs
        BY <3>1 DEF ConfigurationsInv
    <3>3. conf \in S
        BY <3>1
    <3>4. /\ Len(Append(s, conf)) = Len(s) + 1 /\ DOMAIN Append(s, conf) = 1..Len(s) + 1
          /\ Append(s, conf)[Len(s) + 1] = conf
          /\ \A c \in 1..Len(s) : Append(s, conf)[c] = s[c]
          /\ Append(s, conf) \in Seq(S)
        BY <3>3
    <3>. QED BY <2>1, <2>2, <3>1, <3>2, <3>4
  <2>5. /\ ini.default \in Nat \ {0} /\ Len(ini.sections) \in Nat
        /\ \A j, k \in 1..Len(ini.sections) : SectionName(j) = SectionName(k) => j = k
        /\ entry \in Nat \ {0} /\ Len(apiconfs) \in Nat /\ Len(apiconfs) < entry
        /\ DOMAIN apiconfs = 1..Len(apiconfs)
      BY SectionsDiffer DEF ConfigurationsInv
  <2>6. \A k : SectionName(k)' = SectionName(k)
      BY <1>1 DEF SectionName
  <2>7. /\ \A k : Configured(k) => Configured(k)'
        /\ \A k \in 1..e-1 : Configured(k)' => Configured(k)
        /\ Configured(e)'
    <3>1. DOMAIN apiconfs' = DOMAIN apiconfs \cup {Len(apiconfs) + 1}
        BY <2>4, <2>5
    <3>2. \A k \in 1..e-1 : SectionName(k) # conf.name
        BY <1>1, <2>3, <2>5
    <3>3. \A k : Configured(k) => Configured(k)'
        BY <2>4, <2>5, <2>6, <3>1 DEF Configured
    <3>4. \A k \in 1..e-1 : Configured(k)' => Configured(k)
        BY <2>4, <2>5, <2>6, <3>1, <3>2 DEF Configured
    <3>5. \E c \in DOMAIN apiconfs' : apiconfs'[c].name = SectionName(e)
        BY <2>3, <2>4, <3>1
    <3>6. Configured(e)'
        BY <2>6, <3>5 DEF Configured
    <3>. QED BY <3>3, <3>4, <3>6
  <2>8. ASSUME NEW m \in 0..entry'-1, \A k \in 1..m : Configured(k)'
        PROVE  m <= Len(apiconfs') /\ \A k \in 1..m : apiconfs'[k].name = SectionName(k)'
    <3>1. m \in 0..e
        BY <1>3, <2>5, <2>8
    <3>2. CASE m = e
      <4>1. \A k \in 1..e-1 : k \in 1..m
          BY <2>5, <3>2
      <4>2. \A k \in 1..e-1 : Configured(k)
          BY <2>7, <2>8, <4>1
      <4>3. e-1 <= Len(apiconfs) /\ \A k \in 1..e-1 : apiconfs[k].name = SectionName(k)
        <5>1. e-1 \in 0..entry-1
            BY <2>5
        <5>. QED BY <4>2, <5>1, AllConfigured
      <4>4. Len(apiconfs) = e - 1
          BY <2>5, <4>3
      <4>5. \A k \in 1..e : k = e \/ k \in 1..e-1
          BY <2>5
      <4>6. m <= Len(apiconfs') /\ apiconfs'[e] = conf
            /\ \A k \in 1..e-1 : apiconfs'[k] = apiconfs[k]
          BY <2>4, <2>5, <3>2, <4>4
      <4>. QED BY <2>3, <2>6, <3>2, <4>3, <4>5, <4>6
    <3>3. CASE m # e
      <4>1. m \in 0..e-1 /\ \A k \in 1..m : k \in 1..e-1
          BY <2>5, <3>1, <3>3
      <4>2. m <= Len(apiconfs) /\ \A k \in 1..m : apiconfs[k].name = SectionName(k)
          BY <2>7, <2>8, <4>1 DEF ConfigurationsInv
      <4>3. \A k \in 1..m : k \in 1..Len(apiconfs)
          BY <2>5, <4>1, <4>2
      <4>. QED BY <2>4, <2>5, <2>6, <4>1, <4>2, <4>3
    <3>. QED BY <3>2, <3>3
  <2>9. ASSUME NEW c \in DOMAIN apiconfs'
        PROVE  \E j \in 1..entry'-1 : apiconfs'[c].name = SectionName(j)'
    <3>1. CASE c = Len(apiconfs) + 1
      <4>1. e \in 1..entry'-1
          BY <1>3, <2>5
      <4>2. apiconfs'[c].name = SectionName(e)
          BY <2>3, <2>4, <3>1
      <4>. QED BY <2>6, <4>1, <4>2
    <3>2. CASE c # Len(apiconfs) + 1
      <4>1. c \in DOMAIN apiconfs
          BY <2>4, <2>5, <2>9, <3>2
      <4>2. PICK j \in 1..entry-1 : apiconfs[c].name = SectionName(j)
          BY <4>1 DEF ConfigurationsInv
      <4>3. j \in 1..entry'-1
          BY <1>3, <2>5
      <4>. QED BY <2>4, <2>5, <2>6, <4>1, <4>2, <4>3
    <3>. QED BY <3>1, <3>2
  <2>10. ini.default < entry' => Configured(ini.default)'
    <3>1. PICK d : d = ini.default
        OBVIOUS
    <3>2. d < entry' => d < entry \/ d = e
        BY <1>3, <2>5, <3>1
    <3>3. d < entry => Configured(d)
        BY <1>1, <3>1 DEF ConfigurationsInv
    <3>4. d < entry' => Configured(d)'
        BY <2>7, <3>2, <3>3
    <3>. QED BY <1>1, <3>1, <3>4 DEF Configured, SectionName
  <2>11. DefaultOrNothing'
      BY <1>3 DEF DefaultOrNothing
  <2>12. apiconfs' \in Seq(ToSet(apiconfs'))
    <3>1. \A c \in 1..Len(apiconfs') : apiconfs'[c] \in ToSet(apiconfs')
        BY <2>4, <2>5 DEF ToSet
    <3>2. PICK s \in Seq(ToSet(apiconfs) \cup {conf}) : s = apiconfs'
        BY <2>4
    <3>3. s \in Seq(ToSet(s))
      <4>1. \A c \in 1..Len(s) : s[c] \in ToSet(s)
          BY DEF ToSet
      <4>. QED BY <4>1
    <3>. QED BY <3>2, <3>3
  <2>13. /\ ini' \in Inis /\ entry' \in Nat \ {0} /\ entry' <= Len(ini'.sections) + 1
         /\ Len(apiconfs') < entry' /\ phase' = "libraries"
         /\ apiconf' = [name |-> apiconf'.name, tables |-> apiconf'.tables]
      BY <1>1, <1>3, <2>4, <2>5 DEF ConfigurationsInv
  <2>. QED BY <1>1, <2>8, <2>9, <2>10, <2>11, <2>12, <2>13 DEF ConfigurationsInv
<1>. QED BY <1>2, <1>3 DEF MakeTables

LEMMA EndOfEntriesKeeps ==
  ASSUME ConfigurationsInv, EndOfEntries
  PROVE  ConfigurationsInv'
<1>1. /\ phase = "libraries" /\ UNCHANGED <<ini, apiconfs, entry, apiconf>>
      /\ phase' = IF entry <= ini.default THEN "aborted" ELSE "ready"
      /\ default_apiconf' = IF phase' = "ready" /\ ini.default \in DOMAIN apiconfs
                            THEN apiconfs[ini.default].name ELSE None
    BY DEF EndOfEntries
<1>. PICK d : d = ini.default
    OBVIOUS
<1>2. /\ d \in Nat \ {0} /\ entry \in Nat \ {0} /\ Len(apiconfs) \in Nat
      /\ DOMAIN apiconfs = 1..Len(apiconfs)
      /\ d < entry => Configured(d)
    BY <1>1, SectionsDiffer DEF ConfigurationsInv
<1>3. \A k : SectionName(k)' = SectionName(k) /\ (Configured(k)' <=> Configured(k))
    BY <1>1 DEF SectionName, Configured
<1>4. ASSUME phase' = "ready", \A k \in 1..d-1 : Configured(k)
      PROVE  default_apiconf' = SectionName(d)
  <2>1. d < entry
      BY <1>1, <1>2, <1>4
  <2>2. \A k \in 1..d : Configured(k)
      BY <1>2, <1>4, <2>1
  <2>3. d \in 0..entry-1 /\ d \in 1..d
      BY <1>2, <2>1
  <2>4. d <= Len(apiconfs) /\ apiconfs[d].name = SectionName(d)
      BY <2>2, <2>3, AllConfigured
  <2>. QED BY <1>1, <1>2, <1>4, <2>4
<1>5. DefaultOrNothing'
  <2>1. ASSUME phase' = "ready", \A k \in 1..d-1 : SectionName(k) \in {c.name : c \in ToSet(apiconfs)}
        PROVE  default_apiconf' = SectionName(d)
    <3>1. \A k \in 1..d-1 : Configured(k)
        BY <2>1 DEF Configured, ToSet
    <3>. QED BY <1>4, <2>1, <3>1
  <2>. QED BY <1>1, <2>1 DEF DefaultOrNothing, SectionName
<1>6. ini.default < entry => Configured(ini.default)'
    BY <1>1, <1>2 DEF Configured, SectionName
<1>7. /\ phase' # "tables" /\ ConfigurationsInv
    BY <1>1
<1>. QED BY <1>1, <1>3, <1>5, <1>6, <1>7 DEF ConfigurationsInv

LEMMA ConfigurationsStep ==
  ASSUME ConfigurationsInv, TablesNext \/ UNCHANGED tablesVars
  PROVE  ConfigurationsInv'
<1>1. CASE UNCHANGED tablesVars
  <2>1. UNCHANGED <<ini, apiconfs, entry, apiconf, phase, default_apiconf>>
      BY <1>1 DEF tablesVars, confVars
  <2>. QED BY <2>1 DEF ConfigurationsInv, DefaultOrNothing, Configured, SectionName
<1>2. CASE TablesNext
    BY <1>2, LoadLibrariesKeeps, MakeTablesKeeps, EndOfEntriesKeeps DEF TablesNext
<1>. QED BY <1>1, <1>2

\* Processes do not change the tables.
LEMMA TablesStep ==
  ASSUME [ImportsNext]_importsVars
  PROVE  TablesNext \/ UNCHANGED tablesVars
<1>1. CASE UNCHANGED importsVars
    BY <1>1 DEF importsVars
<1>2. ASSUME NEW p \in Procs, LoadModule(p) PROVE UNCHANGED tablesVars
  <2>1. \/ BeginLoad(p) \/ EndLoad(p) \/ Initialize(p)
        \/ Attach(p) \/ Run(p) \/ Ran(p)
      BY <1>2 DEF LoadModule
  <2>2. BeginLoad(p) \/ EndLoad(p) => UNCHANGED tablesVars
      BY DEF BeginLoad, EndLoad
  <2>3. Initialize(p) \/ Attach(p) => UNCHANGED tablesVars
      BY DEF Initialize, Attach
  <2>4. Run(p) \/ Ran(p) => UNCHANGED tablesVars
      BY DEF Run, Ran
  <2>. QED BY <2>1, <2>2, <2>3, <2>4
<1>3. ASSUME NEW p \in Procs, NEW k \in Kinds, Resolve(p, k) PROVE UNCHANGED tablesVars
  <2>1. \/ Import(p, k) \/ GetInstance(p, k) \/ MakeInstance(p, k)
        \/ Scan(p, k) \/ Load(p, k) \/ Start(p, k) \/ Mark(p, k)
      BY <1>3 DEF Resolve
  <2>2. Import(p, k) \/ GetInstance(p, k) \/ MakeInstance(p, k) => UNCHANGED tablesVars
      BY DEF Import, GetInstance, MakeInstance
  <2>3. Scan(p, k) \/ Load(p, k) => UNCHANGED tablesVars
      BY DEF Scan, Load
  <2>4. Start(p, k) \/ Mark(p, k) => UNCHANGED tablesVars
      BY DEF Start, Mark
  <2>. QED BY <2>1, <2>2, <2>3, <2>4
<1>. QED BY <1>1, <1>2, <1>3 DEF ImportsNext

(* "Failed to load default api configuration - aborting": the core starts    *)
(* with the default of core.ini or not at all, whatever entries of it fail,  *)
(* unless one before the default does.                                       *)
THEOREM Default == ImportsSpec => []DefaultOrNothing
<1>1. ImportsInit => ConfigurationsInv
    BY ConfigurationsInitially DEF ImportsInit
<1>2. ConfigurationsInv /\ [ImportsNext]_importsVars => ConfigurationsInv'
    BY ConfigurationsStep, TablesStep
<1>3. ConfigurationsInv => DefaultOrNothing
    BY DEF ConfigurationsInv
<1>. QED BY <1>1, <1>2, <1>3, PTL DEF ImportsSpec

-----------------------------------------------------------------------------
(* The types of tables *)

LEMMA FullStays ==
  ASSUME Len(overridden) \in Nat, Len(overridden') \in Nat, Len(overridden) <= Len(overridden'),
         NEW tables, Full(tables)
  PROVE  Full(tables)'
<1>1. /\ tables \in Tables /\ Len(tables) <= Len(overridden)
      /\ \A i \in DOMAIN tables : Increasing(tables[i].named)
    BY DEF Full
<1>2. Len(tables) \in Nat
    BY <1>1 DEF Tables
<1>3. Len(tables) <= Len(overridden')
    BY <1>1, <1>2
<1>. QED BY <1>1, <1>3 DEF Full

\* Tables of what is loaded stay full while DLLs are added.
LEMMA LoadedStayFull ==
  ASSUME TablesTypeOK, Len(overridden') \in Nat, Len(overridden) <= Len(overridden')
  PROVE  \A c \in ToSet(apiconfs) \cup {apiconf} : Full(c.tables)'
<1>1. PICK C : C = ToSet(apiconfs) \cup {apiconf}
    OBVIOUS
<1>2. Len(overridden) \in Nat
    BY DEF TablesTypeOK
<1>3. ASSUME NEW c \in C PROVE Full(c.tables)'
  <2>1. Full(c.tables)
      BY <1>1 DEF TablesTypeOK
  <2>2. PICK tables : tables = c.tables
      OBVIOUS
  <2>3. Full(tables)'
      BY <1>2, <2>1, <2>2, FullStays
  <2>. QED BY <2>2, <2>3
<1>. QED BY <1>1, <1>3

LEMMA TypesInitially ==
  ASSUME TablesInit
  PROVE  TablesTypeOK
<1>1. /\ apilibs = <<STD>> /\ overridden = <<>> /\ apiconfs = <<>> /\ entry = 1
      /\ apiconf = [name |-> None, tables |-> <<>>] /\ phase = "libraries"
    BY DEF TablesInit
<1>2. apilibs \in Seq(Libs \cup {STD}) /\ Len(apilibs) = 1 /\ apilibs[1] = STD /\ DOMAIN apilibs = 1..1
    BY <1>1
<1>3. apilibs # <<>>
  <2>1. Len(apilibs) = 1 /\ Len(<<>>) = 0
      BY <1>2
  <2>2. ASSUME apilibs = <<>> PROVE FALSE
    <3>1. Len(apilibs) = Len(<<>>)
        BY <2>2
    <3>2. Len(apilibs) = 1
        BY <1>2
    <3>3. Len(<<>>) = 0
        OBVIOUS
    <3>. QED BY <3>1, <3>2, <3>3
  <2>. QED BY <2>2
<1>4. IsInjective(apilibs)
    BY <1>2 DEF IsInjective
<1>5. overridden \in Seq(Targets) /\ DOMAIN overridden = {} /\ Len(overridden) = 0
    BY <1>1
<1>6. IsInjective(overridden)
    BY <1>5 DEF IsInjective
<1>7. ToSet(apiconfs) = {} /\ apiconfs \in Seq(ToSet(apiconfs))
    BY <1>1 DEF ToSet
<1>8. Full(apiconf.tables)
  <2>1. PICK e : e = << >>
      OBVIOUS
  <2>2. apiconf.tables = e
      BY <1>1, <2>1
  <2>3. e \in Tables /\ Len(e) = 0 /\ DOMAIN e = {}
      BY <2>1 DEF Tables
  <2>. QED BY <1>5, <2>2, <2>3 DEF Full
<1>. QED BY <1>1, <1>2, <1>3, <1>4, <1>5, <1>6, <1>7, <1>8 DEF TablesTypeOK

LEMMA LoadApilibsTypes ==
  ASSUME TablesTypeOK, NEW libs \in Seq(Libs \cup {STD}), LoadApilibs(libs)
  PROVE  /\ (apilibs \in Seq(Libs \cup {STD}) /\ apilibs # <<>> /\ apilibs[1] = STD)'
         /\ (overridden \in Seq(Targets) /\ IsInjective(apilibs) /\ IsInjective(overridden))'
         /\ Len(overridden) \in Nat /\ Len(overridden') \in Nat
         /\ Len(overridden) <= Len(overridden')
<1>1. /\ apilibs \in Seq(Libs \cup {STD}) /\ apilibs # <<>> /\ apilibs[1] = STD
      /\ overridden \in Seq(Targets) /\ IsInjective(apilibs) /\ IsInjective(overridden)
    BY DEF TablesTypeOK
<1>2. PICK a : a = AppendAll(apilibs, libs)
    OBVIOUS
<1>3. /\ a \in Seq(Libs \cup {STD}) /\ IsInjective(a) /\ Len(apilibs) <= Len(a)
      /\ \A k \in 1..Len(apilibs) : a[k] = apilibs[k]
    BY <1>1, <1>2, AppendAllHolds
<1>4. PICK targets : targets = TargetsOf(libs)
    OBVIOUS
<1>5. targets \in Seq(Targets)
    BY <1>4, TargetsOfTypes
<1>6. PICK o : o = AppendAll(overridden, targets)
    OBVIOUS
<1>7. o \in Seq(Targets) /\ IsInjective(o) /\ Len(overridden) <= Len(o)
    BY <1>1, <1>5, <1>6, AppendAllHolds
<1>8. apilibs' = a /\ overridden' = o
    BY <1>2, <1>4, <1>6 DEF LoadApilibs
<1>9. Len(apilibs) \in Nat \ {0} /\ 1 \in 1..Len(apilibs)
  <2>1. Len(apilibs) \in Nat
      BY <1>1
  <2>2. Len(apilibs) # 0
      BY <1>1, EmptySeq
  <2>. QED BY <2>1, <2>2
<1>10. a[1] = STD /\ a # <<>>
  <2>1. Len(a) # 0
      BY <1>3, <1>9
  <2>2. a # <<>>
      BY <2>1, EmptySeq
  <2>. QED BY <1>1, <1>3, <1>9, <2>2
<1>11. Len(overridden) \in Nat /\ Len(o) \in Nat
    BY <1>1, <1>7
<1>12. IsInjective(apilibs)' /\ IsInjective(overridden)'
    BY <1>3, <1>7, <1>8 DEF IsInjective
<1>. QED BY <1>3, <1>7, <1>8, <1>10, <1>11, <1>12

LEMMA SectionTypes ==
  ASSUME ConfigurationsInv, entry \in DOMAIN ini.sections
  PROVE  /\ Section.contents \in Seq(Libs \cup {STD})
         /\ Section.overrides \in Seq(ToSet(Section.overrides))
<1>1. ini \in Inis
    BY DEF ConfigurationsInv
<1>. QED BY <1>1, InisAssumption DEF Section

\* An entry that failed leaves what was loaded before it.
LEMMA NextEntryTypes ==
  ASSUME ConfigurationsInv, TablesTypeOK, NextEntry,
         apilibs' \in Seq(Libs \cup {STD}), apilibs' # <<>>, apilibs[1]' = STD,
         overridden' \in Seq(Targets), IsInjective(apilibs)', IsInjective(overridden)',
         Len(overridden) <= Len(overridden')
  PROVE  TablesTypeOK'
<1>1. /\ entry' = entry + 1 /\ phase' \in {"libraries", "tables", "ready", "aborted"}
      /\ apiconf' = apiconf /\ apiconfs' = apiconfs
    BY DEF NextEntry
<1>2. entry' \in Nat \ {0}
    BY <1>1 DEF TablesTypeOK
<1>3. apiconfs \in Seq(ToSet(apiconfs))
    BY DEF TablesTypeOK
<1>4. ToSet(apiconfs)' = ToSet(apiconfs)
    BY <1>1 DEF ToSet
<1>5. \A c \in ToSet(apiconfs) \cup {apiconf} : Full(c.tables)'
    BY LoadedStayFull
<1>6. \A c \in (ToSet(apiconfs) \cup {apiconf})' : Full(c.tables)'
    BY <1>1, <1>4, <1>5
<1>7. (apiconfs \in Seq(ToSet(apiconfs)))'
    BY <1>1, <1>3 DEF ToSet
<1>. QED BY <1>1, <1>2, <1>6, <1>7 DEF TablesTypeOK

LEMMA LoadLibrariesTypes ==
  ASSUME ConfigurationsInv, TablesTypeOK, NEW missing \in SUBSET Libs, LoadLibraries(missing)
  PROVE  TablesTypeOK'
<1>1. PICK contents, bad, from :
        /\ contents = Section.contents
        /\ bad = {k \in DOMAIN contents : contents[k] \in missing}
        /\ from = Found(Section.inherit)
    OBVIOUS
<1>2. /\ entry \in DOMAIN ini.sections
      /\ IF Section.inherit # None /\ from = 0
         THEN NextEntry /\ UNCHANGED <<apilibs, overridden>>
         ELSE /\ LoadApilibs(IF bad = {} THEN contents ELSE SubSeq(contents, 1, Min(bad) - 1))
              /\ IF bad # {} THEN NextEntry
                 ELSE /\ apiconf' = [name |-> Section.name,
                                     tables |-> Grown(IF from = 0 THEN <<>> ELSE apiconfs[from].tables,
                                                      Len(overridden))]
                      /\ phase' = "tables"
                      /\ UNCHANGED <<entry, apiconfs>>
    BY <1>1 DEF LoadLibraries
<1>3. contents \in Seq(Libs \cup {STD})
    BY <1>1, <1>2, SectionTypes
<1>4. /\ apilibs \in Seq(Libs \cup {STD}) /\ apilibs # <<>> /\ apilibs[1] = STD
      /\ overridden \in Seq(Targets) /\ IsInjective(apilibs) /\ IsInjective(overridden)
      /\ Len(overridden) \in Nat
    BY DEF TablesTypeOK
<1>5. CASE Section.inherit # None /\ from = 0
  <2>1. NextEntry /\ apilibs' = apilibs /\ overridden' = overridden
      BY <1>2, <1>5
  <2>2. IsInjective(apilibs)' /\ IsInjective(overridden)' /\ apilibs[1]' = STD
      BY <1>4, <2>1 DEF IsInjective
  <2>3. Len(overridden) <= Len(overridden')
      BY <1>4, <2>1
  <2>. QED BY <1>4, <2>1, <2>2, <2>3, NextEntryTypes
<1>6. CASE ~(Section.inherit # None /\ from = 0)
  <2>1. PICK libs : libs = IF bad = {} THEN contents ELSE SubSeq(contents, 1, Min(bad) - 1)
      OBVIOUS
  <2>2. libs \in Seq(Libs \cup {STD})
    <3>1. CASE bad = {}
        BY <1>3, <2>1, <3>1
    <3>2. CASE bad # {}
      <4>1. PICK N \in Nat : N = Len(contents) /\ DOMAIN contents = 1..N
          BY <1>3
      <4>2. bad \in SUBSET Nat /\ bad \subseteq 1..N
          BY <1>1, <4>1
      <4>3. PICK m \in 1..N : m = Min(bad)
          BY <3>2, <4>2, Minimum
      <4>4. m - 1 \in 0..Len(contents) /\ 1 \in 1..Len(contents) + 1 /\ 1 <= (m - 1) + 1
          BY <4>1
      <4>5. SubSeq(contents, 1, m - 1) \in Seq(Libs \cup {STD})
          BY <1>3, <4>4, Taken
      <4>. QED BY <2>1, <3>2, <4>3, <4>5
    <3>. QED BY <3>1, <3>2
  <2>3. LoadApilibs(libs)
      BY <1>2, <1>6, <2>1
  <2>4. /\ (apilibs \in Seq(Libs \cup {STD}) /\ apilibs # <<>> /\ apilibs[1] = STD)'
        /\ (overridden \in Seq(Targets) /\ IsInjective(apilibs) /\ IsInjective(overridden))'
        /\ Len(overridden) \in Nat /\ Len(overridden') \in Nat
        /\ Len(overridden) <= Len(overridden')
      BY <2>2, <2>3, LoadApilibsTypes
  <2>5. CASE bad # {}
    <3>1. NextEntry
        BY <1>2, <1>6, <2>5
    <3>. QED BY <2>4, <3>1, NextEntryTypes
  <2>6. CASE bad = {}
    <3>1. PICK tables : tables = IF from = 0 THEN <<>> ELSE apiconfs[from].tables
        OBVIOUS
    <3>2. /\ apiconf' = [name |-> Section.name, tables |-> Grown(tables, Len(overridden))]
          /\ phase' = "tables" /\ entry' = entry /\ apiconfs' = apiconfs
        BY <1>2, <1>6, <2>6, <3>1
    <3>3. tables \in Fulls
      <4>1. CASE from = 0
        <5>1. PICK e : e = << >>
            OBVIOUS
        <5>2. e \in Seq(Rows) /\ Len(e) = 0
            BY <5>1
        <5>3. tables = e /\ 0 <= Len(overridden)
            BY <1>4, <3>1, <4>1, <5>1
        <5>. QED BY <5>2, <5>3 DEF Fulls
      <4>2. CASE from # 0
        <5>1. PICK I : I = {k \in 1..Len(apiconfs) : apiconfs[k].name = Section.inherit}
            OBVIOUS
        <5>2. from = IF I # {} THEN Min(I) ELSE 0
            BY <1>1, <5>1 DEF Found, SelectInSeq
        <5>3. I # {} => Min(I) \in I
          <6>1. I \in SUBSET Nat
              BY <5>1
          <6>. QED BY <6>1, Minimum
        <5>4. from \in 1..Len(apiconfs) /\ DOMAIN apiconfs = 1..Len(apiconfs)
            BY <4>2, <5>1, <5>2, <5>3 DEF TablesTypeOK
        <5>5. apiconfs[from] \in ToSet(apiconfs)
            BY <5>4 DEF ToSet
        <5>6. Full(tables)
            BY <3>1, <4>2, <5>5 DEF TablesTypeOK
        <5>. QED BY <5>6, FullIsRows
      <4>. QED BY <4>1, <4>2
    <3>4. PICK grown : grown = Grown(tables, Len(overridden))
        OBVIOUS
    <3>5. Full(grown)
      <4>1. Len(overridden) \in 0..Len(overridden)
          BY <1>4
      <4>2. grown \in Fulls
          BY <1>4, <3>3, <3>4, <4>1, GrownFull
      <4>. QED BY <4>2, FullIsRows
    <3>6. Full(grown)'
        BY <2>4, <3>5, FullStays
    <3>7. \A c \in ToSet(apiconfs) \cup {apiconf} : Full(c.tables)'
        BY <2>4, LoadedStayFull
    <3>8. apiconf'.tables = grown
        BY <3>2, <3>4
    <3>9. ToSet(apiconfs)' = ToSet(apiconfs)
        BY <3>2 DEF ToSet
    <3>10. \A c \in (ToSet(apiconfs) \cup {apiconf})' : Full(c.tables)'
        BY <3>6, <3>7, <3>8, <3>9
    <3>11. (apiconfs \in Seq(ToSet(apiconfs)))' /\ (entry \in Nat \ {0})'
      <4>1. apiconfs \in Seq(ToSet(apiconfs)) /\ entry \in Nat \ {0}
          BY DEF TablesTypeOK
      <4>. QED BY <3>2, <3>9, <4>1
    <3>. QED BY <2>4, <3>2, <3>10, <3>11 DEF TablesTypeOK
  <2>. QED BY <2>5, <2>6
<1>. QED BY <1>5, <1>6

LEMMA MakeTablesTypes ==
  ASSUME ConfigurationsInv, TablesTypeOK, NEW memory \in BOOLEAN, MakeTables(memory)
  PROVE  TablesTypeOK'
<1>1. PICK joined, tables : /\ joined = MergeLibs(apiconf.tables, Section.contents)
                            /\ tables = Overriding(joined, Section.overrides)
    OBVIOUS
<1>2. /\ phase = "tables" /\ apilibs' = apilibs /\ overridden' = overridden
      /\ IF memory /\ tables # Failed
         THEN /\ apiconfs' = Append(apiconfs, [apiconf EXCEPT !.tables = tables])
              /\ entry' = entry + 1 /\ phase' = "libraries" /\ apiconf' = apiconf
         ELSE NextEntry
    BY <1>1 DEF MakeTables
<1>3. /\ apilibs \in Seq(Libs \cup {STD}) /\ apilibs # <<>> /\ apilibs[1] = STD
      /\ overridden \in Seq(Targets) /\ IsInjective(apilibs) /\ IsInjective(overridden)
      /\ Len(overridden) \in Nat
    BY DEF TablesTypeOK
<1>4. IsInjective(apilibs)' /\ IsInjective(overridden)' /\ apilibs[1]' = STD
    BY <1>2, <1>3 DEF IsInjective
<1>5. Len(overridden) <= Len(overridden')
    BY <1>2, <1>3
<1>6. CASE ~(memory /\ tables # Failed)
  <2>1. NextEntry
      BY <1>2, <1>6
  <2>. QED BY <1>2, <1>3, <1>4, <1>5, <2>1, NextEntryTypes
<1>7. CASE memory /\ tables # Failed
  <2>1. PICK new : new = [apiconf EXCEPT !.tables = tables]
      OBVIOUS
  <2>2. /\ apiconfs' = Append(apiconfs, new)
        /\ entry' = entry + 1 /\ phase' = "libraries" /\ apiconf' = apiconf
      BY <1>2, <1>7, <2>1
  <2>3. entry \in DOMAIN ini.sections
    <3>1. entry <= Len(ini.sections) /\ entry \in Nat \ {0}
        BY <1>2 DEF ConfigurationsInv
    <3>. QED BY <3>1, SectionsDiffer
  <2>4. /\ Section.contents \in Seq(Libs \cup {STD})
        /\ Section.overrides \in Seq(ToSet(Section.overrides))
      BY <2>3, SectionTypes
  <2>5. PICK old, contents, overrides :
          old = apiconf.tables /\ contents = Section.contents /\ overrides = Section.overrides
      OBVIOUS
  <2>6. old \in Fulls
    <3>1. Full(old)
        BY <2>5 DEF TablesTypeOK
    <3>. QED BY <3>1, FullIsRows
  <2>7. joined \in Fulls
      BY <1>1, <1>3, <2>4, <2>5, <2>6, MergeLibsFull
  <2>8. tables \in Fulls
    <3>1. Overriding(joined, overrides) \in Fulls \cup {Failed}
        BY <1>3, <2>4, <2>5, <2>7, OverridingKeeps
    <3>. QED BY <1>1, <1>7, <2>5, <3>1
  <2>9. Full(tables)
      BY <2>8, FullIsRows
  <2>10. Full(tables)'
      BY <1>2, <1>3, <1>5, <2>9, FullStays
  <2>11. new.tables = tables
    <3>1. apiconf = [name |-> apiconf.name, tables |-> apiconf.tables]
        BY DEF ConfigurationsInv
    <3>. QED BY <2>1, <3>1
  <2>12. ToSet(apiconfs)' = ToSet(apiconfs) \cup {new} /\ (apiconfs \in Seq(ToSet(apiconfs)))'
    <3>1. apiconfs \in Seq(ToSet(apiconfs))
        BY DEF TablesTypeOK
    <3>2. PICK N \in Nat : N = Len(apiconfs) /\ DOMAIN apiconfs = 1..N
        BY <3>1
    <3>3. PICK u : u = Append(apiconfs, new)
        OBVIOUS
    <3>4. /\ DOMAIN u = 1..N + 1 /\ u[N + 1] = new /\ \A k \in 1..N : u[k] = apiconfs[k]
          /\ u \in Seq(ToSet(apiconfs) \cup {new})
      <4>1. PICK S : S = ToSet(apiconfs) \cup {new}
          OBVIOUS
      <4>2. apiconfs \in Seq(S) /\ new \in S
        <5>1. \A k \in 1..N : apiconfs[k] \in S
            BY <3>2, <4>1 DEF ToSet
        <5>2. Spans(apiconfs, N)
            BY <3>1, <3>2 DEF Spans
        <5>3. apiconfs \in Seq(S)
            BY <5>1, <5>2, SpansASeq
        <5>. QED BY <4>1, <5>3
      <4>. QED BY <3>2, <3>3, <4>1, <4>2
    <3>5. ToSet(u) = ToSet(apiconfs) \cup {new}
      <4>1. \A k \in 1..N + 1 : k \in 1..N \/ k = N + 1
          OBVIOUS
      <4>2. \A k \in 1..N : k \in 1..N + 1
          OBVIOUS
      <4>3. N + 1 \in 1..N + 1
          OBVIOUS
      <4>4. ToSet(u) = {u[k] : k \in 1..N + 1} /\ ToSet(apiconfs) = {apiconfs[k] : k \in 1..N}
          BY <3>2, <3>4 DEF ToSet
      <4>5. ToSet(u) \subseteq ToSet(apiconfs) \cup {new}
          BY <3>4, <4>1, <4>4
      <4>6. ToSet(apiconfs) \cup {new} \subseteq ToSet(u)
          BY <3>4, <4>2, <4>3, <4>4
      <4>. QED BY <4>5, <4>6
    <3>6. apiconfs' = u
        BY <2>2, <3>3
    <3>7. ToSet(apiconfs)' = ToSet(u)
        BY <3>6 DEF ToSet
    <3>. QED BY <3>4, <3>5, <3>6, <3>7
  <2>13. \A c \in ToSet(apiconfs) \cup {apiconf} : Full(c.tables)'
      BY <1>2, <1>3, <1>5, LoadedStayFull
  <2>14. \A c \in (ToSet(apiconfs) \cup {apiconf})' : Full(c.tables)'
      BY <2>2, <2>10, <2>11, <2>12, <2>13
  <2>15. (entry \in Nat \ {0})'
      BY <2>2 DEF TablesTypeOK
  <2>. QED BY <1>2, <1>3, <1>4, <2>2, <2>12, <2>14, <2>15 DEF TablesTypeOK
<1>. QED BY <1>6, <1>7

LEMMA TypesStep ==
  ASSUME ConfigurationsInv, TablesTypeOK, TablesNext \/ UNCHANGED tablesVars
  PROVE  TablesTypeOK'
<1>1. ASSUME apilibs' = apilibs, overridden' = overridden, apiconfs' = apiconfs, entry' = entry,
             apiconf' = apiconf, phase' \in {"libraries", "tables", "ready", "aborted"}
      PROVE  TablesTypeOK'
    BY <1>1 DEF TablesTypeOK, Full, ToSet, IsInjective
<1>2. CASE UNCHANGED tablesVars
  <2>1. UNCHANGED <<apilibs, overridden, apiconfs, entry, apiconf, phase>>
      BY <1>2 DEF tablesVars, confVars
  <2>. QED BY <1>1, <2>1 DEF TablesTypeOK
<1>3. CASE EndOfEntries
  <2>1. /\ UNCHANGED <<apilibs, overridden, apiconfs, entry, apiconf>>
        /\ phase' \in {"aborted", "ready"}
      BY <1>3 DEF EndOfEntries
  <2>. QED BY <1>1, <2>1
<1>. QED BY <1>2, <1>3, LoadLibrariesTypes, MakeTablesTypes DEF TablesNext

-----------------------------------------------------------------------------
(* Lookups *)

\* The address that a table of names has for a name, 0 if it has none.
AddressOf(named, key) ==
  IF \E m \in 1..Len(named) : named[m].key = key
  THEN named[CHOOSE m \in 1..Len(named) : named[m].key = key].addr
  ELSE 0

LEMMA AddressAt ==
  ASSUME NEW named \in NamedApis, Increasing(named), NEW m \in 1..Len(named)
  PROVE  AddressOf(named, named[m].key) = named[m].addr
<1>1. PICK L \in Nat : L = Len(named) /\ DOMAIN named = 1..L
    BY DEF NamedApis
<1>2. \A i \in 1..L : named[i].key \in Int
  <2>1. named \in Seq(Entries) /\ \A e \in Entries : e.key \in Int
      BY TablesAssumption DEF NamedApis, Entries
  <2>. QED BY <1>1, <2>1
<1>3. PICK n : n = CHOOSE i \in 1..L : named[i].key = named[m].key
    OBVIOUS
<1>4. n \in 1..L /\ named[n].key = named[m].key
    BY <1>1, <1>3
<1>5. n = m
  <2>1. \A i, j \in 1..L : i < j => named[i].key < named[j].key
      BY <1>1 DEF Increasing
  <2>2. m \in 1..L /\ (n < m \/ m < n \/ n = m)
      BY <1>1, <1>4
  <2>. QED BY <1>2, <1>4, <2>1, <2>2
<1>. QED BY <1>1, <1>3, <1>5 DEF AddressOf

\* What the search of a part of a table should find.
Within(named, key, lo, hi) == \E m \in lo + 1..hi + 1 : named[m].key = key
Finds(named, key, lo, hi) == IF Within(named, key, lo, hi) THEN AddressOf(named, key) ELSE 0

\* One step of the search, given what the rest finds.
SearchOne(named, key, g, lo, hi) ==
  LET curr == (lo + hi) \div 2
  IN  IF lo > hi THEN 0
      ELSE IF key > named[curr + 1].key THEN g[<<curr + 1, hi>>]
      ELSE IF key < named[curr + 1].key THEN g[<<lo, curr - 1>>]
      ELSE named[curr + 1].addr

LEMMA Middle ==
  ASSUME NEW L \in Nat, NEW lo \in 0..L, NEW hi \in -1..L - 1, lo <= hi
  PROVE  LET curr == (lo + hi) \div 2
         IN  /\ curr \in lo..hi /\ curr + 1 \in 1..L
             /\ curr + 1 \in 0..L /\ curr - 1 \in -1..L - 1
<1>1. PICK curr : curr = (lo + hi) \div 2
    OBVIOUS
<1>2. curr \in Int /\ 2 * curr <= lo + hi /\ lo + hi <= 2 * curr + 1
    BY <1>1
<1>3. curr \in lo..hi
    BY <1>2
<1>. QED BY <1>1, <1>3

LEMMA Halves ==
  ASSUME NEW named \in NamedApis, Increasing(named), NEW key \in Int,
         NEW lo \in 0..Len(named), NEW hi \in -1..Len(named) - 1, NEW curr \in lo..hi
  PROVE  /\ key > named[curr + 1].key =>
              Finds(named, key, lo, hi) = Finds(named, key, curr + 1, hi)
         /\ key < named[curr + 1].key =>
              Finds(named, key, lo, hi) = Finds(named, key, lo, curr - 1)
         /\ key = named[curr + 1].key =>
              Finds(named, key, lo, hi) = named[curr + 1].addr
<1>1. PICK L \in Nat : L = Len(named) /\ DOMAIN named = 1..L
    BY DEF NamedApis
<1>2. \A i \in 1..L : named[i].key \in Int
  <2>1. named \in Seq(Entries) /\ \A e \in Entries : e.key \in Int
      BY TablesAssumption DEF NamedApis, Entries
  <2>. QED BY <1>1, <2>1
<1>3. \A i, j \in 1..L : i < j => named[i].key < named[j].key
    BY <1>1 DEF Increasing
<1>4. PICK c : c = curr + 1
    OBVIOUS
<1>5. c \in 1..L /\ c \in lo + 1..hi + 1 /\ c - 1 = curr /\ (curr - 1) + 1 = c - 1
    BY <1>1, <1>4
<1>6. \A m \in lo + 1..hi + 1 : m \in 1..L
    BY <1>1
<1>7. CASE key > named[c].key
  <2>1. ASSUME NEW m \in lo + 1..hi + 1, named[m].key = key PROVE m \in (curr + 1) + 1..hi + 1
    <3>1. ~(m < c) /\ m # c
        BY <1>2, <1>3, <1>5, <1>6, <1>7, <2>1
    <3>. QED BY <1>4, <1>5, <3>1
  <2>2. \A m \in (curr + 1) + 1..hi + 1 : m \in lo + 1..hi + 1
      BY <1>4, <1>5
  <2>3. Within(named, key, lo, hi) <=> Within(named, key, curr + 1, hi)
      BY <2>1, <2>2 DEF Within
  <2>. QED BY <1>2, <1>4, <1>5, <1>7, <2>3 DEF Finds
<1>8. CASE key < named[c].key
  <2>1. ASSUME NEW m \in lo + 1..hi + 1, named[m].key = key PROVE m \in lo + 1..(curr - 1) + 1
    <3>1. m \in 1..L /\ named[c].key \in Int /\ named[m].key \in Int
        BY <1>2, <1>5, <1>6
    <3>2. ~(named[c].key < named[m].key) /\ m # c
        BY <1>8, <2>1, <3>1
    <3>3. ~(c < m)
        BY <1>3, <1>5, <3>1, <3>2
    <3>. QED BY <1>4, <1>5, <3>2, <3>3
  <2>2. \A m \in lo + 1..(curr - 1) + 1 : m \in lo + 1..hi + 1
      BY <1>4, <1>5
  <2>3. Within(named, key, lo, hi) <=> Within(named, key, lo, curr - 1)
      BY <2>1, <2>2 DEF Within
  <2>. QED BY <1>2, <1>4, <1>5, <1>8, <2>3 DEF Finds
<1>9. CASE key = named[c].key
  <2>1. Within(named, key, lo, hi)
      BY <1>5, <1>9 DEF Within
  <2>2. AddressOf(named, key) = named[c].addr
      BY <1>1, <1>5, <1>9, AddressAt
  <2>. QED BY <1>2, <1>4, <1>5, <1>9, <2>1, <2>2 DEF Finds
<1>10. named[c].key \in Int
    BY <1>2, <1>5
<1>. QED BY <1>4, <1>7, <1>8, <1>9, <1>10

\* A step of the search finds what it should, if the rest does.
LEMMA SearchOneFinds ==
  ASSUME NEW named \in NamedApis, Increasing(named), NEW key \in Int,
         NEW lo \in 0..Len(named), NEW hi \in -1..Len(named) - 1, NEW g,
         lo <= hi => \A a \in 0..Len(named), b \in -1..Len(named) - 1 :
                       b - a < hi - lo => g[<<a, b>>] = Finds(named, key, a, b)
  PROVE  SearchOne(named, key, g, lo, hi) = Finds(named, key, lo, hi)
<1>1. PICK L \in Nat : L = Len(named)
    BY DEF NamedApis
<1>2. CASE lo > hi
  <2>1. \A m \in lo + 1..hi + 1 : FALSE
      BY <1>2
  <2>2. ~Within(named, key, lo, hi)
      BY <2>1 DEF Within
  <2>. QED BY <1>2, <2>2 DEF SearchOne, Finds
<1>3. CASE lo <= hi
  <2>1. PICK curr : curr = (lo + hi) \div 2
      OBVIOUS
  <2>2. curr \in lo..hi /\ curr + 1 \in 1..L /\ curr + 1 \in 0..L /\ curr - 1 \in -1..L - 1
      BY <1>1, <1>3, <2>1, Middle
  <2>3. hi - (curr + 1) < hi - lo /\ (curr - 1) - lo < hi - lo
      BY <2>2
  <2>4. /\ g[<<curr + 1, hi>>] = Finds(named, key, curr + 1, hi)
        /\ g[<<lo, curr - 1>>] = Finds(named, key, lo, curr - 1)
      BY <1>1, <1>3, <2>2, <2>3
  <2>5. named[curr + 1].key \in Int
    <3>1. named \in Seq(Entries) /\ \A e \in Entries : e.key \in Int
        BY TablesAssumption DEF NamedApis, Entries
    <3>. QED BY <1>1, <2>2, <3>1
  <2>6. ~(lo > hi)
      BY <1>3
  <2>7. SearchOne(named, key, g, lo, hi) =
          IF key > named[curr + 1].key THEN g[<<curr + 1, hi>>]
          ELSE IF key < named[curr + 1].key THEN g[<<lo, curr - 1>>]
          ELSE named[curr + 1].addr
      BY <2>1, <2>6 DEF SearchOne
  <2>8. /\ key > named[curr + 1].key =>
             Finds(named, key, lo, hi) = Finds(named, key, curr + 1, hi)
        /\ key < named[curr + 1].key =>
             Finds(named, key, lo, hi) = Finds(named, key, lo, curr - 1)
        /\ key = named[curr + 1].key =>
             Finds(named, key, lo, hi) = named[curr + 1].addr
      BY <2>2, Halves
  <2>. QED BY <2>4, <2>5, <2>7, <2>8
<1>4. lo > hi \/ lo <= hi
    BY <1>1
<1>. QED BY <1>2, <1>3, <1>4

LEMMA SearchFinds ==
  ASSUME NEW named \in NamedApis, Increasing(named), NEW key \in Int,
         NEW first \in 0..Len(named), NEW last \in -1..Len(named) - 1
  PROVE  Search(named, key, first, last) = Finds(named, key, first, last)
<1>1. PICK L \in Nat : L = Len(named)
    BY DEF NamedApis
<1>2. PICK D : D = (0..L) \X (-1..L - 1)
    OBVIOUS
<1>3. \A part \in D : part[1] \in 0..L /\ part[2] \in -1..L - 1 /\ part = <<part[1], part[2]>>
    BY <1>2
<1>4. \A lo \in 0..L, hi \in -1..L - 1 : <<lo, hi>> \in D /\ <<lo, hi>>[1] = lo /\ <<lo, hi>>[2] = hi
    BY <1>2
<1>5. PICK f : f = [part \in D |-> Finds(named, key, part[1], part[2])]
    OBVIOUS
<1>6. \A lo \in 0..L, hi \in -1..L - 1 : f[<<lo, hi>>] = Finds(named, key, lo, hi)
    BY <1>4, <1>5
<1>7. ASSUME NEW lo \in 0..L, NEW hi \in -1..L - 1
      PROVE  SearchOne(named, key, f, lo, hi) = Finds(named, key, lo, hi)
    BY <1>1, <1>6, SearchOneFinds
<1>8. f = [part \in D |-> SearchOne(named, key, f, part[1], part[2])]
    BY <1>3, <1>5, <1>7
<1> DEFINE Is(g) == g = [part \in (0..Len(named)) \X (-1..Len(named)-1) |->
        LET lo   == part[1]
            hi   == part[2]
            curr == (lo + hi) \div 2
        IN  IF lo > hi THEN 0
            ELSE IF key > named[curr + 1].key THEN g[<<curr + 1, hi>>]
            ELSE IF key < named[curr + 1].key THEN g[<<lo, curr - 1>>]
            ELSE named[curr + 1].addr]
<1>9. PICK search : search = CHOOSE g : Is(g)
    OBVIOUS
<1>10. Search(named, key, first, last) = search[<<first, last>>]
    BY <1>9, Zenon DEF Search
<1>11. \A g : Is(g) <=> g = [part \in D |-> SearchOne(named, key, g, part[1], part[2])]
    BY <1>1, <1>2 DEF SearchOne
<1> HIDE DEF Is
<1>12. Is(f)
    BY <1>8, <1>11
<1>13. search = [part \in D |-> SearchOne(named, key, search, part[1], part[2])]
    BY <1>9, <1>11, <1>12
<1>14. \A lo \in 0..L, hi \in -1..L - 1 : search[<<lo, hi>>] = SearchOne(named, key, search, lo, hi)
  <2>1. \A part \in D : search[part] = SearchOne(named, key, search, part[1], part[2])
      BY <1>13
  <2>. QED BY <1>4, <2>1, ZenonT(40)
<1>15. PICK N : N = {n \in 0..L : \A lo \in 0..L, hi \in -1..L - 1 :
                       hi - lo + 1 <= n => search[<<lo, hi>>] = Finds(named, key, lo, hi)}
    OBVIOUS
<1>16. 0 \in N
  <2>1. ASSUME NEW lo \in 0..L, NEW hi \in -1..L - 1, hi - lo + 1 <= 0
        PROVE  search[<<lo, hi>>] = Finds(named, key, lo, hi)
    <3>1. ~(lo <= hi)
        BY <2>1
    <3>2. SearchOne(named, key, search, lo, hi) = Finds(named, key, lo, hi)
        BY <1>1, <3>1, SearchOneFinds
    <3>. QED BY <1>14, <3>2
  <2>. QED BY <1>15, <2>1, 0 \in 0..L
<1>17. ASSUME NEW n \in 0..L - 1, n \in N PROVE n + 1 \in N
  <2>1. ASSUME NEW lo \in 0..L, NEW hi \in -1..L - 1, hi - lo + 1 <= n + 1
        PROVE  search[<<lo, hi>>] = Finds(named, key, lo, hi)
    <3>1. ASSUME NEW a \in 0..L, NEW b \in -1..L - 1, b - a < hi - lo
          PROVE  search[<<a, b>>] = Finds(named, key, a, b)
      <4>1. b - a + 1 <= n
          BY <2>1, <3>1
      <4>. QED BY <1>15, <1>17, <4>1
    <3>2. SearchOne(named, key, search, lo, hi) = Finds(named, key, lo, hi)
        BY <1>1, <3>1, SearchOneFinds
    <3>. QED BY <1>14, <3>2
  <2>2. n + 1 \in 0..L
      OBVIOUS
  <2>. QED BY <1>15, <2>1, <2>2
<1>18. L \in N
  <2>1. \A n \in 0..L - 1 : n \in N => n + 1 \in N
      BY <1>17
  <2>2. \A n \in 0..L : n \in N
      BY <1>16, <2>1, UpTo
  <2>. QED BY <2>2, L \in 0..L
<1>19. last - first + 1 <= L
    BY <1>1
<1>. QED BY <1>1, <1>10, <1>15, <1>18, <1>19

\* Of a table whose names are in order, the lookup finds the one it has, from wherever
\* the loader's hint starts it.
LEMMA GetNamedFinds ==
  ASSUME NEW named \in NamedApis, Increasing(named), NEW key \in Int, NEW hint \in Nat
  PROVE  GetNamed(named, hint, key) = AddressOf(named, key)
<1>1. PICK L \in Nat : L = Len(named) /\ DOMAIN named = 1..L
    BY DEF NamedApis
<1>2. \A i \in 1..L : named[i].key \in Int
  <2>1. named \in Seq(Entries) /\ \A e \in Entries : e.key \in Int
      BY TablesAssumption DEF NamedApis, Entries
  <2>. QED BY <1>1, <2>1
<1>3. \A i, j \in 1..L : i < j => named[i].key < named[j].key
    BY <1>1 DEF Increasing
<1>4. PICK last : last = L - 1
    OBVIOUS
<1>5. GetNamed(named, hint, key) =
        IF hint > last THEN Search(named, key, 0, last)
        ELSE IF key > named[hint + 1].key THEN Search(named, key, hint + 1, last)
        ELSE IF key < named[hint + 1].key THEN Search(named, key, 0, hint - 1)
        ELSE named[hint + 1].addr
    BY <1>1, <1>4 DEF GetNamed
<1>6. 0 \in 0..L /\ last \in -1..L - 1 /\ last + 1 = L
    BY <1>4
<1>7. Finds(named, key, 0, last) = AddressOf(named, key)
  <2>1. Within(named, key, 0, last) <=> \E m \in 1..Len(named) : named[m].key = key
      BY <1>1, <1>6 DEF Within
  <2>. QED BY <2>1 DEF Finds, AddressOf
<1>8. CASE hint > last
    BY <1>1, <1>5, <1>6, <1>7, <1>8, SearchFinds
<1>9. CASE ~(hint > last)
  <2>1. /\ hint \in 0..last /\ hint + 1 \in 1..L /\ hint + 1 \in 0..L /\ hint - 1 \in -1..L - 1
      BY <1>4, <1>9
  <2>2. /\ key > named[hint + 1].key =>
             Finds(named, key, 0, last) = Finds(named, key, hint + 1, last)
        /\ key < named[hint + 1].key =>
             Finds(named, key, 0, last) = Finds(named, key, 0, hint - 1)
        /\ key = named[hint + 1].key =>
             Finds(named, key, 0, last) = named[hint + 1].addr
    <3>1. 0 \in 0..Len(named) /\ last \in -1..Len(named) - 1
        BY <1>1, <1>6
    <3>. QED BY <2>1, <3>1, Halves
  <2>3. /\ Search(named, key, hint + 1, last) = Finds(named, key, hint + 1, last)
        /\ Search(named, key, 0, hint - 1) = Finds(named, key, 0, hint - 1)
      BY <1>1, <1>6, <2>1, SearchFinds
  <2>4. named[hint + 1].key \in Int
      BY <1>2, <2>1
  <2>. QED BY <1>5, <1>7, <1>9, <2>2, <2>3, <2>4
<1>. QED BY <1>8, <1>9

\* Where a name's entry is, its address is found; where none is, there is none.
LEMMA AddressIs ==
  ASSUME NEW named \in NamedApis, Increasing(named), NEW key
  PROVE  /\ \A e \in ToSet(named) : e.key = key => AddressOf(named, key) = e.addr
         /\ (\A e \in ToSet(named) : e.key # key) => AddressOf(named, key) = 0
<1>1. DOMAIN named = 1..Len(named)
    BY DEF NamedApis
<1>2. ASSUME NEW e \in ToSet(named), e.key = key PROVE AddressOf(named, key) = e.addr
  <2>1. PICK m \in 1..Len(named) : e = named[m]
      BY <1>1 DEF ToSet
  <2>. QED BY <1>2, <2>1, AddressAt
<1>3. ASSUME \A e \in ToSet(named) : e.key # key PROVE AddressOf(named, key) = 0
  <2>1. \A m \in 1..Len(named) : named[m].key # key
      BY <1>1, <1>3 DEF ToSet
  <2>. QED BY <2>1 DEF AddressOf
<1>. QED BY <1>2, <1>3

FirstOf(src, key) == src[Min({m \in DOMAIN src : src[m].key = key})]

\* After a join a name has the first of the library's functions, and one that the
\* library has not what it had.
LEMMA JoinNamesFinds ==
  ASSUME NEW dst \in NamedApis, Increasing(dst), NEW src \in NamedApis, Sorted(src),
         NEW lib \in Libs \cup {STD}, NEW key
  PROVE  AddressOf(JoinNames(dst, src, lib), key) =
           IF \E m \in DOMAIN src : src[m].key = key THEN Encoded(FirstOf(src, key).addr, lib)
           ELSE AddressOf(dst, key)
<1>1. PICK L \in Nat : L = Len(src) /\ DOMAIN src = 1..L
    BY DEF NamedApis
<1>2. PICK joined : joined = JoinNames(dst, src, lib)
    OBVIOUS
<1>3. joined \in NamedApis /\ Increasing(joined) /\ ToSet(joined) = JoinedOf(dst, src, lib, L)
    BY <1>1, <1>2, JoinNamesHolds
<1>4. CASE \E m \in DOMAIN src : src[m].key = key
  <2>1. PICK C : C = {m \in DOMAIN src : src[m].key = key}
      OBVIOUS
  <2>2. C \in SUBSET Nat /\ C # {} /\ C \subseteq 1..L
      BY <1>1, <1>4, <2>1
  <2>3. PICK first : first = Min(C)
      OBVIOUS
  <2>4. first \in C /\ \A y \in C : first <= y
      BY <2>2, <2>3, Minimum
  <2>5. first \in 1..L /\ src[first].key = key
      BY <2>1, <2>2, <2>4
  <2>6. first \in FirstsOf(src, L)
    <3>1. ASSUME NEW n \in 1..first - 1 PROVE src[n].key # src[first].key
      <4>1. n \in 1..L /\ ~(first <= n)
          BY <2>5
      <4>. QED BY <1>1, <2>1, <2>4, <2>5, <4>1
    <3>. QED BY <2>5, <3>1 DEF FirstsOf
  <2>7. PICK e : e = NewOf(src, first, lib)
      OBVIOUS
  <2>8. e \in ToSet(joined) /\ e.key = key /\ e.addr = Encoded(src[first].addr, lib)
      BY <1>3, <2>5, <2>6, <2>7 DEF JoinedOf, NewOf
  <2>9. AddressOf(joined, key) = e.addr
      BY <1>3, <2>8, AddressIs
  <2>10. FirstOf(src, key) = src[first]
      BY <2>1, <2>3 DEF FirstOf
  <2>. QED BY <1>2, <1>4, <2>8, <2>9, <2>10
<1>5. CASE ~\E m \in DOMAIN src : src[m].key = key
  <2>1. \A m \in 1..L : src[m].key # key
      BY <1>1, <1>5
  <2>2. ASSUME NEW e, e.key = key PROVE e \in ToSet(joined) <=> e \in ToSet(dst)
    <3>1. \A m \in FirstsOf(src, L) : NewOf(src, m, lib).key # key
        BY <2>1 DEF FirstsOf, NewOf
    <3>2. e \notin {NewOf(src, m, lib) : m \in FirstsOf(src, L)}
        BY <2>2, <3>1
    <3>3. \A m \in 1..L : src[m].key # e.key
        BY <2>1, <2>2
    <3>. QED BY <1>3, <3>2, <3>3 DEF JoinedOf
  <2>3. CASE \E e \in ToSet(dst) : e.key = key
    <3>1. PICK e \in ToSet(dst) : e.key = key
        BY <2>3
    <3>2. AddressOf(dst, key) = e.addr
        BY <3>1, AddressIs
    <3>3. AddressOf(joined, key) = e.addr
        BY <1>3, <2>2, <3>1, AddressIs
    <3>. QED BY <1>2, <1>5, <3>2, <3>3
  <2>4. CASE ~\E e \in ToSet(dst) : e.key = key
    <3>1. \A e \in ToSet(dst) : e.key # key
        BY <2>4
    <3>2. \A e \in ToSet(joined) : e.key # key
        BY <2>2, <2>4
    <3>3. AddressOf(dst, key) = 0
        BY <3>1, AddressIs
    <3>4. AddressOf(joined, key) = 0
        BY <1>3, <3>2, AddressIs
    <3>. QED BY <1>2, <1>5, <3>3, <3>4
  <2>. QED BY <2>3, <2>4
<1>. QED BY <1>4, <1>5

HasName(lib, t, key) ==
  Overrides(lib, t) /\ \E m \in DOMAIN TableFor(lib, t).named : TableFor(lib, t).named[m].key = key

\* What a lookup finds of a DLL's name in the tables of a configuration, whatever the
\* hint; of a DLL that has no table it finds nothing.
Looked(tables, i, hint, key) ==
  IF i \in DOMAIN tables THEN GetNamed(tables[i].named, hint, key) ELSE 0

LEMMA LookedFinds ==
  ASSUME overridden \in Seq(Targets), NEW tables \in Fulls, NEW i, NEW hint \in Nat, NEW key \in Int
  PROVE  Looked(tables, i, hint, key) =
           IF i \in DOMAIN tables THEN AddressOf(tables[i].named, key) ELSE 0
<1>1. CASE i \in DOMAIN tables
  <2>1. i \in 1..Len(tables)
      BY <1>1 DEF Fulls
  <2>2. tables[i].named \in NamedApis /\ Increasing(tables[i].named)
      BY <2>1, RowOf
  <2>. QED BY <1>1, <2>2, GetNamedFinds DEF Looked
<1>. QED BY <1>1 DEF Looked

(* merge(apilib), "join named apis", of all DLLs at once: what a library has a *)
(* name for is found in the library, the first of those of the name, and       *)
(* every other name is found where it was - whatever the loader's hints, and   *)
(* whatever was joined, inherited, put and erased before.                      *)
THEOREM LibrariesTakePrecedence ==
  ASSUME TablesTypeOK, NEW tables, Full(tables), NEW lib \in Libs \cup {STD},
         NEW i \in DOMAIN overridden, NEW key \in Names, NEW hint \in Nat, NEW before \in Nat
  PROVE  Looked(MergeLib(tables, lib), i, hint, key) =
           IF HasName(lib, overridden[i], key)
           THEN Encoded(FirstOf(TableFor(lib, overridden[i]).named, key).addr, lib)
           ELSE Looked(tables, i, before, key)
<1>1. overridden \in Seq(Targets) /\ key \in Int
    BY TablesAssumption DEF TablesTypeOK
<1>2. tables \in Fulls
    BY FullIsRows
<1>3. PICK all, merged : /\ all = Grown(tables, Max(OwnOf(lib) \cup {0}))
                         /\ merged = MergeLib(tables, lib)
    OBVIOUS
<1>4. PICK own, t : own = OwnOf(lib) /\ t = overridden[i]
    OBVIOUS
<1>5. /\ merged \in Fulls /\ all \in Fulls /\ DOMAIN merged = DOMAIN all
      /\ own \subseteq DOMAIN all
      /\ \A j \in DOMAIN all :
           merged[j] = IF j \in own THEN JoinedRow(all[j], lib, overridden[j]) ELSE all[j]
    BY <1>1, <1>2, <1>3, <1>4, MergeLibHolds
<1>6. Looked(all, i, before, key) = Looked(tables, i, before, key)
  <2>1. PICK N \in Nat : N = Len(overridden) /\ DOMAIN overridden = 1..N
      BY <1>1
  <2>2. PICK m : m = Max(own \cup {0})
      OBVIOUS
  <2>3. m \in 0..N
    <3>1. own \cup {0} \in SUBSET (0..N) /\ own \cup {0} # {}
        BY <1>4, <2>1 DEF OwnOf
    <3>2. m \in own \cup {0}
        BY <2>2, <3>1, Maximum
    <3>. QED BY <3>1, <3>2
  <2>4. /\ Len(tables) <= Len(all)
        /\ \A k \in 1..Len(tables) : all[k] = tables[k]
        /\ \A k \in Len(tables) + 1..Len(all) : all[k] = EmptyTable
      BY <1>1, <1>2, <1>3, <1>4, <2>1, <2>2, <2>3, GrownFull
  <2>5. PICK K, M \in Nat : /\ K = Len(tables) /\ DOMAIN tables = 1..K
                            /\ M = Len(all) /\ DOMAIN all = 1..M
      BY <1>2, <1>5 DEF Fulls
  <2>6. i \in 1..N
      BY <2>1
  <2>7. \/ i \in 1..K /\ i \in 1..M
        \/ i \notin 1..K /\ i \in K + 1..M
        \/ i \notin 1..K /\ i \notin 1..M
      BY <2>4, <2>5, <2>6
  <2>8. EmptyTable \in Rows /\ AddressOf(EmptyTable.named, key) = 0
    <3>1. EmptyTable.named \in NamedApis /\ Increasing(EmptyTable.named)
        BY EmptyRow, RowHas
    <3>2. ToSet(EmptyTable.named) = {}
        BY DEF EmptyTable, ToSet
    <3>. QED BY <3>1, <3>2, EmptyRow, AddressIs
  <2>9. Looked(all, i, before, key) = IF i \in DOMAIN all THEN AddressOf(all[i].named, key) ELSE 0
      BY <1>1, <1>5, LookedFinds
  <2>10. Looked(tables, i, before, key) =
           IF i \in DOMAIN tables THEN AddressOf(tables[i].named, key) ELSE 0
      BY <1>1, <1>2, LookedFinds
  <2>11. \A k \in K + 1..M : k \in 1..M
      BY <2>5
  <2>. QED BY <2>4, <2>5, <2>7, <2>8, <2>9, <2>10, <2>11
<1>7. Looked(all, i, before, key) = IF i \in DOMAIN all THEN AddressOf(all[i].named, key) ELSE 0
    BY <1>1, <1>5, LookedFinds
<1>8. Looked(merged, i, hint, key) =
        IF i \in DOMAIN merged THEN AddressOf(merged[i].named, key) ELSE 0
    BY <1>1, <1>5, LookedFinds
<1>9. CASE i \in own
  <2>1. Overrides(lib, t) /\ i \in DOMAIN all
      BY <1>4, <1>5, <1>9 DEF OwnOf
  <2>2. PICK src, dst : src = TableFor(lib, t).named /\ dst = all[i].named
      OBVIOUS
  <2>3. src \in NamedApis /\ Sorted(src)
      BY <1>1, <2>1, <2>2, TableTypes
  <2>4. dst \in NamedApis /\ Increasing(dst)
    <3>1. i \in 1..Len(all)
        BY <1>5, <2>1 DEF Fulls
    <3>. QED BY <1>5, <2>2, <3>1, RowOf
  <2>5. merged[i].named = JoinNames(dst, src, lib)
      BY <1>4, <1>5, <1>9, <2>1, <2>2 DEF JoinedRow
  <2>6. AddressOf(merged[i].named, key) =
          IF \E m \in DOMAIN src : src[m].key = key THEN Encoded(FirstOf(src, key).addr, lib)
          ELSE AddressOf(dst, key)
      BY <2>3, <2>4, <2>5, JoinNamesFinds
  <2>7. HasName(lib, t, key) <=> \E m \in DOMAIN src : src[m].key = key
      BY <2>1, <2>2 DEF HasName
  <2>. QED BY <1>3, <1>4, <1>5, <1>6, <1>7, <1>8, <2>1, <2>2, <2>6, <2>7
<1>10. CASE i \notin own
  <2>1. ~HasName(lib, t, key)
      BY <1>4, <1>10 DEF HasName, OwnOf
  <2>2. Looked(merged, i, hint, key) = Looked(all, i, before, key)
      BY <1>5, <1>7, <1>8, <1>10
  <2>. QED BY <1>3, <1>4, <1>6, <2>1, <2>2
<1>. QED BY <1>9, <1>10

-----------------------------------------------------------------------------
(* What core.ini says of a function *)

FunctionKinds == {"name", "ordinal"}
Asked(kind, key) ==
  IF kind = "name" THEN key \in Names ELSE kind = "ordinal" /\ key \in Nat \ {0}

LinesFor(sec, kind, t, key) ==
  {j \in DOMAIN sec.overrides :
     /\ sec.overrides[j].kind = kind
     /\ sec.overrides[j].target = t /\ sec.overrides[j].key = key}
LineSays(o, kind, t, key) ==
  IF o.lib = None THEN Nowhere ELSE FunctionOf(o.lib, kind, t, key, o.id)
LibsFor(sec, kind, t, key) ==
  {j \in DOMAIN sec.contents : PlacesOf(sec.contents[j], kind, t, key) # {}}
UpsOf(sections, n) == {up \in 1..n-1 : sections[up].name = sections[n].inherit}

\* What a section says, given what those say that it may inherit.
Says(sections, n, kind, t, key, said) ==
  IF LinesFor(sections[n], kind, t, key) # {}
    THEN LineSays(sections[n].overrides[Max(LinesFor(sections[n], kind, t, key))], kind, t, key)
  ELSE IF LibsFor(sections[n], kind, t, key) # {}
    THEN FunctionOf(sections[n].contents[Max(LibsFor(sections[n], kind, t, key))], kind, t, key, 0)
  ELSE IF UpsOf(sections, n) # {} THEN said[Max(UpsOf(sections, n))]
  ELSE FunctionOf(STD, kind, t, key, 0)

LEMMA UpIsBefore ==
  ASSUME NEW sections, NEW n \in Nat \ {0}, UpsOf(sections, n) # {}
  PROVE  /\ Max(UpsOf(sections, n)) \in 1..n-1
         /\ sections[Max(UpsOf(sections, n))].name = sections[n].inherit
<1>1. UpsOf(sections, n) \in SUBSET (0..n-1) /\ n - 1 \in Nat
    BY DEF UpsOf
<1>2. Max(UpsOf(sections, n)) \in UpsOf(sections, n)
    BY <1>1, Maximum
<1>. QED BY <1>2 DEF UpsOf

LEMMA SaidIs ==
  ASSUME NEW L \in Nat, NEW sections, DOMAIN sections = 1..L, NEW kind, NEW t, NEW key
  PROVE  \E said : /\ \A n \in 1..L : Said(sections, n, kind, t, key) = said[n]
                   /\ \A n \in 1..L : said[n] = Says(sections, n, kind, t, key, said)
<1> DEFINE Is(g) == g = [m \in 1..L |-> Says(sections, m, kind, t, key, g)]
           Upto(n, g) == /\ g = [m \in 1..L |-> g[m]]
                         /\ \A m \in 1..n : g[m] = Says(sections, m, kind, t, key, g)
           N == {n \in 0..L : \E g : Upto(n, g)}
<1>1. ASSUME NEW n \in 1..L, NEW g, NEW h, \A m \in 1..n-1 : g[m] = h[m]
      PROVE  Says(sections, n, kind, t, key, g) = Says(sections, n, kind, t, key, h)
  <2>1. UpsOf(sections, n) # {} => g[Max(UpsOf(sections, n))] = h[Max(UpsOf(sections, n))]
      BY <1>1, UpIsBefore
  <2>. QED BY <2>1 DEF Says
<1>2. 0 \in N
  <2>1. PICK g : g = [m \in 1..L |-> 0]
      OBVIOUS
  <2>2. g = [m \in 1..L |-> g[m]] /\ \A m \in 1..0 : FALSE
      BY <2>1
  <2>3. Upto(0, g)
      BY <2>2
  <2>. QED BY <2>3
<1>3. ASSUME NEW n \in 0..L-1, n \in N PROVE n + 1 \in N
  <2>1. PICK g : Upto(n, g)
      BY <1>3
  <2>2. PICK h : h = [g EXCEPT ![n + 1] = Says(sections, n + 1, kind, t, key, g)]
      OBVIOUS
  <2>3. n + 1 \in 1..L /\ n \in Nat /\ \A m \in 1..n : m \in 1..L /\ m # n + 1
      OBVIOUS
  <2>4. /\ h = [m \in 1..L |-> h[m]] /\ h[n + 1] = Says(sections, n + 1, kind, t, key, g)
        /\ \A m \in 1..n : h[m] = g[m]
      BY <2>1, <2>2, <2>3
  <2>5. ASSUME NEW m \in 1..n + 1 PROVE h[m] = Says(sections, m, kind, t, key, h)
    <3>0. m \in 1..L
        OBVIOUS
    <3>1. \A k \in 1..m - 1 : h[k] = g[k]
      <4>1. \A k \in 1..m - 1 : k \in 1..n
          OBVIOUS
      <4>. QED BY <2>4, <4>1
    <3>2. Says(sections, m, kind, t, key, h) = Says(sections, m, kind, t, key, g)
        BY <1>1, <3>0, <3>1
    <3>3. m = n + 1 \/ m \in 1..n
        OBVIOUS
    <3>. QED BY <2>1, <2>4, <3>2, <3>3
  <2>6. Upto(n + 1, h)
      BY <2>4, <2>5
  <2>. QED BY <2>3, <2>6
<1>4. L \in N
  <2>1. PICK M : M = N
      OBVIOUS
  <2>2. 0 \in M /\ \A n \in 0..L-1 : n \in M => n + 1 \in M
      BY <1>2, <1>3, <2>1
  <2>3. \A n \in 0..L : n \in M
    <3> HIDE DEF N, Upto, Is
    <3>. QED BY <2>2, UpTo
  <2>4. L \in 0..L
      OBVIOUS
  <2>. QED BY <2>1, <2>3, <2>4
<1>5. PICK f : Is(f)
  <2>1. PICK g : Upto(L, g)
      BY <1>4
  <2>. QED BY <2>1
<1>6. PICK said : said = CHOOSE g : Is(g)
    OBVIOUS
<1>7. Is(said)
    BY <1>5, <1>6
<1>8. ASSUME NEW n \in 1..L PROVE Said(sections, n, kind, t, key) = said[n]
    BY <1>6, Zenon DEF Said, Says, LinesFor, LineSays, LibsFor, UpsOf
<1>9. \A n \in 1..L : said[n] = Says(sections, n, kind, t, key, said)
    BY <1>7
<1>. QED BY <1>8, <1>9

\* The DLLs whose tables a configuration has whole, by JoinedAssumption.
DllsOf(sections) == CHOOSE dlls \in [DOMAIN sections -> SUBSET Targets] : JoinsStd(sections, dlls)

LEMMA SectionsAre ==
  ASSUME NEW i \in Inis
  PROVE  LET S == i.sections
         IN  /\ Len(S) \in Nat /\ DOMAIN S = 1..Len(S)
             /\ \A j, k \in 1..Len(S) : S[j].name = S[k].name => j = k
             /\ \A k \in 1..Len(S) :
                  /\ S[k].name # None /\ S[k].contents \in Seq(Libs \cup {STD})
                  /\ S[k].overrides \in Seq(ToSet(S[k].overrides))
                  /\ \A o \in ToSet(S[k].overrides) : o.kind \in FunctionKinds /\ o.id \in Nat
             /\ DllsOf(S) \in [1..Len(S) -> SUBSET Targets] /\ JoinsStd(S, DllsOf(S))
<1>1. PICK S : S = i.sections
    OBVIOUS
<1>2. S \in Seq(ToSet(S))
    BY <1>1, InisAssumption
<1>3. Len(S) \in Nat /\ DOMAIN S = 1..Len(S)
    BY <1>2
<1>4. \A j, k \in 1..Len(S) : S[j].name = S[k].name => j = k
    BY <1>1, <1>3, InisAssumption
<1>5. ASSUME NEW k \in 1..Len(S)
      PROVE  /\ S[k].name # None /\ S[k].contents \in Seq(Libs \cup {STD})
             /\ S[k].overrides \in Seq(ToSet(S[k].overrides))
             /\ \A o \in ToSet(S[k].overrides) : o.kind \in FunctionKinds /\ o.id \in Nat
    BY <1>1, <1>3, InisAssumption DEF FunctionKinds
<1>6. DllsOf(S) \in [DOMAIN S -> SUBSET Targets] /\ JoinsStd(S, DllsOf(S))
  <2>1. \E dlls \in [DOMAIN S -> SUBSET Targets] : JoinsStd(S, dlls)
      BY <1>1, JoinedAssumption
  <2>. QED BY <2>1, Zenon DEF DllsOf
<1>. QED BY <1>1, <1>3, <1>4, <1>5, <1>6

(* A library has functions only of the DLLs that it has tables for.          *)
LEMMA LibraryHasTable ==
  ASSUME NEW lib \in Libs, NEW kind, NEW t, NEW key, PlacesOf(lib, kind, t, key) # {}
  PROVE  \E k \in DOMAIN LibTables[lib] : LibTables[lib][k].target = t
<1>1. lib # STD
    BY TablesAssumption
<1>2. DOMAIN FunctionsOf(lib, kind, t) # {}
    BY <1>1 DEF PlacesOf
<1>3. SUFFICES ASSUME ~\E k \in DOMAIN LibTables[lib] : LibTables[lib][k].target = t
               PROVE  FALSE
    OBVIOUS
<1>4. {k \in DOMAIN LibTables[lib] : LibTables[lib][k].target = t} = {}
    BY <1>3
<1>5. FunctionsOf(lib, kind, t) = <<>>
    BY <1>4 DEF FunctionsOf
<1>. QED BY <1>2, <1>5

(* Of a DLL whose table a section has not whole, it says what the system     *)
(* says: neither it nor what it inherits names the DLL.                      *)
LEMMA SaidOfOthers ==
  ASSUME NEW i \in Inis, NEW kind, NEW t, NEW key
  PROVE  \A n \in 1..Len(i.sections) : t \notin DllsOf(i.sections)[n] =>
           Said(i.sections, n, kind, t, key) = FunctionOf(STD, kind, t, key, 0)
<1>0. PICK S : S = i.sections
    OBVIOUS
<1>1. PICK L \in Nat : S = i.sections /\ L = Len(S) /\ DOMAIN S = 1..L
    BY <1>0, SectionsAre
<1>2. PICK D : D = DllsOf(S) /\ D \in [1..L -> SUBSET Targets] /\ JoinsStd(S, D)
    BY <1>1, SectionsAre
<1>3. PICK said : /\ \A n \in 1..L : Said(S, n, kind, t, key) = said[n]
                  /\ \A n \in 1..L : said[n] = Says(S, n, kind, t, key, said)
    BY <1>1, SaidIs
<1>4. PICK N : N = {m \in 0..L : \A n \in 1..m :
                      t \notin D[n] => said[n] = FunctionOf(STD, kind, t, key, 0)}
    OBVIOUS
<1>5. 0 \in N
  <2>1. 0 \in 0..L /\ \A n \in 1..0 : FALSE
      OBVIOUS
  <2>. QED BY <1>4, <2>1
<1>6. ASSUME NEW m \in 0..L-1, m \in N PROVE m + 1 \in N
  <2>1. PICK n : n = m + 1
      OBVIOUS
  <2>2. n \in 1..L /\ n \in 0..L /\ n - 1 = m /\ \A k \in 1..n : k = n \/ k \in 1..m
      BY <2>1
  <2>3. ASSUME t \notin D[n] PROVE said[n] = FunctionOf(STD, kind, t, key, 0)
    <3>1. PICK sec : sec = S[n]
        OBVIOUS
    <3>2. PICK own : own = ToSet(TargetsOf(sec.contents))
        OBVIOUS
    <3>3. /\ own \cup {o.target : o \in ToSet(sec.overrides)} \subseteq D[n]
          /\ D[n] = (IF STD \in ToSet(sec.contents) THEN own ELSE {}) \cup UNION {D[up] : up \in UpsOf(S, n)}
        BY <1>1, <1>2, <2>2, <3>1, <3>2 DEF JoinsStd, UpsOf
    <3>4. LinesFor(sec, kind, t, key) = {}
      <4>1. \A j \in DOMAIN sec.overrides : sec.overrides[j] \in ToSet(sec.overrides)
          BY DEF ToSet
      <4>2. \A j \in DOMAIN sec.overrides : sec.overrides[j].target # t
          BY <2>3, <3>3, <4>1
      <4>. QED BY <4>2 DEF LinesFor
    <3>5. sec.contents \in Seq(Libs \cup {STD})
        BY <1>1, <2>2, <3>1, SectionsAre
    <3>6. \A j \in LibsFor(sec, kind, t, key) : sec.contents[j] = STD
      <4>1. SUFFICES ASSUME NEW j \in LibsFor(sec, kind, t, key), sec.contents[j] # STD PROVE FALSE
          OBVIOUS
      <4>2. PICK lib : lib = sec.contents[j]
          OBVIOUS
      <4>3. lib \in ToSet(sec.contents) \cap Libs /\ PlacesOf(lib, kind, t, key) # {}
          BY <3>5, <4>1, <4>2 DEF LibsFor, ToSet
      <4>4. PICK k \in DOMAIN LibTables[lib] : LibTables[lib][k].target = t
          BY <4>3, LibraryHasTable
      <4>5. t \in own
          BY <3>2, <3>5, <4>3, <4>4, TargetsOfTypes
      <4>. QED BY <2>3, <3>3, <4>5
    <3>7. LibsFor(sec, kind, t, key) # {} =>
            sec.contents[Max(LibsFor(sec, kind, t, key))] = STD
      <4>1. LibsFor(sec, kind, t, key) \in SUBSET (0..Len(sec.contents)) /\ Len(sec.contents) \in Nat
          BY <3>5 DEF LibsFor
      <4>. QED BY <3>6, <4>1, Maximum
    <3>8. UpsOf(S, n) # {} => said[Max(UpsOf(S, n))] = FunctionOf(STD, kind, t, key, 0)
      <4>1. SUFFICES ASSUME UpsOf(S, n) # {}
                     PROVE  said[Max(UpsOf(S, n))] = FunctionOf(STD, kind, t, key, 0)
          OBVIOUS
      <4>2. PICK up : up = Max(UpsOf(S, n))
          OBVIOUS
      <4>3. up \in 1..m
          BY <2>2, <4>1, <4>2, UpIsBefore
      <4>4. up \in UpsOf(S, n)
        <5>1. UpsOf(S, n) \in SUBSET (0..m) /\ m \in Nat
          <6>1. UpsOf(S, n) \subseteq 1..m
              BY <2>2 DEF UpsOf
          <6>. QED BY <6>1
        <5>. QED BY <4>1, <4>2, <5>1, Maximum
      <4>5. t \notin D[up]
          BY <2>3, <3>3, <4>4
      <4>. QED BY <1>4, <1>6, <4>2, <4>3, <4>5
    <3>9. said[n] = Says(S, n, kind, t, key, said)
        BY <1>3, <2>2
    <3>. QED BY <3>1, <3>4, <3>7, <3>8, <3>9 DEF Says
  <2>4. \A k \in 1..n : t \notin D[k] => said[k] = FunctionOf(STD, kind, t, key, 0)
      BY <1>4, <1>6, <2>2, <2>3
  <2>. QED BY <1>4, <2>1, <2>2, <2>4
<1>7. \A m \in 0..L : m \in N
    BY <1>5, <1>6, UpTo
<1>8. L \in N
    BY <1>7
<1>. QED BY <1>1, <1>2, <1>3, <1>4, <1>8

-----------------------------------------------------------------------------
(* What is kept of a function leads to it *)

\* What is in the list of libraries that are loaded.
Libraries ==
  /\ apilibs \in Seq(Libs \cup {STD}) /\ apilibs # <<>> /\ apilibs[1] = STD
  /\ IsInjective(apilibs)

IndexOf(lib) == SelectInSeq(apilibs, LAMBDA l : l = lib) - 1

LEMMA Indexed ==
  ASSUME Libraries, NEW lib \in ToSet(apilibs)
  PROVE  /\ IndexOf(lib) \in Nat /\ IndexOf(lib) + 1 \in 1..Len(apilibs)
         /\ apilibs[IndexOf(lib) + 1] = lib
         /\ lib = STD <=> IndexOf(lib) = 0
<1>1. /\ apilibs \in Seq(Libs \cup {STD}) /\ apilibs # <<>> /\ apilibs[1] = STD
      /\ DOMAIN apilibs = 1..Len(apilibs) /\ Len(apilibs) \in Nat
      /\ \A i, j \in 1..Len(apilibs) : apilibs[i] = apilibs[j] => i = j
    BY DEF Libraries, IsInjective
<1>2. PICK I : I = {i \in 1..Len(apilibs) : apilibs[i] = lib}
    OBVIOUS
<1>3. I # {} /\ I \in SUBSET Nat
  <2>1. \E i \in DOMAIN apilibs : apilibs[i] = lib
      BY DEF ToSet
  <2>. QED BY <1>1, <1>2, <2>1
<1>4. SelectInSeq(apilibs, LAMBDA l : l = lib) = Min(I)
    BY <1>2, <1>3 DEF SelectInSeq
<1>5. PICK i : i = Min(I) /\ i \in I /\ i \in 1..Len(apilibs) /\ apilibs[i] = lib
    BY <1>2, <1>3, Minimum
<1>6. IndexOf(lib) = i - 1 /\ (i - 1) + 1 = i /\ i - 1 \in Nat /\ (i = 1 <=> i - 1 = 0)
    BY <1>4, <1>5 DEF IndexOf
<1>7. 1 \in 1..Len(apilibs)
    BY <1>5
<1>8. lib = STD <=> i = 1
    BY <1>1, <1>5, <1>7
<1>. QED BY <1>5, <1>6, <1>8

(* encode_address asserts that there is a segment for each library: there is *)
(* while there are no more libraries than segments.                          *)
LEMMA SegmentsForAll ==
  ASSUME Libraries, NEW lib \in ToSet(apilibs)
  PROVE  HasSegment(IndexOf(lib))
<1>1. PICK n \in Nat : /\ n = Len(apilibs) /\ DOMAIN apilibs = 1..n
                       /\ \A i \in 1..n : apilibs[i] \in Libs \cup {STD}
                       /\ \A i, j \in 1..n : apilibs[i] = apilibs[j] => i = j
    BY DEF Libraries, IsInjective
<1>2. /\ IsFiniteSet(Libs) /\ HasSegment(Cardinality(Libs)) /\ STD \notin Libs
    BY PlacesAssumption, TablesAssumption
<1>3. /\ IsFiniteSet(Libs \cup {STD}) /\ Cardinality(Libs \cup {STD}) = Cardinality(Libs) + 1
      /\ Cardinality(Libs) \in Nat
    BY <1>2, FS_AddElement, FS_CardinalityType
<1>4. IsFiniteSet(1..n) /\ Cardinality(1..n) = n
  <2>1. 1 \in Int /\ n \in Int
      OBVIOUS
  <2>2. /\ IsFiniteSet(1..n)
        /\ Cardinality(1..n) = IF 1 > n THEN 0 ELSE n - 1 + 1
      BY <2>1, FS_Interval
  <2>. QED BY <2>2
<1>5. apilibs \in Injection(1..n, Libs \cup {STD})
  <2>1. apilibs \in [1..n -> Libs \cup {STD}]
      BY <1>1 DEF Libraries
  <2>. QED BY <1>1, <2>1 DEF Injection, IsInjective
<1>6. n <= Cardinality(Libs) + 1
  <2>1. Cardinality(1..n) <= Cardinality(Libs \cup {STD})
      BY <1>3, <1>4, <1>5, FS_Injection
  <2>. QED BY <1>3, <1>4, <2>1
<1>7. IndexOf(lib) \in Nat /\ IndexOf(lib) + 1 <= n
    BY <1>1, Indexed
<1>. QED BY <1>2, <1>3, <1>6, <1>7, AddressesAssumption DEF HasSegment

Known(p) == KindOf(p) = "inLibrary" => LibraryOf(p) + 1 \in DOMAIN apilibs

LEMMA ZeroIsBelow == ~IS_SHARED(0)
<1>1. \A a, b \in Nat : a > 0 /\ b > 0 => a * b \in Nat /\ a * b > 0
    OBVIOUS
<1>2. PICK M : M = SHARED * SEGMENT
    OBVIOUS
<1>3. M \in Nat /\ M > 0
    BY <1>1, <1>2, AddressesAssumption
<1>. QED BY <1>2, <1>3 DEF IS_SHARED

LEMMA ArenaIsBelow ==
  ASSUME NEW a \in Dword, a < ENCODED * SEGMENT
  PROVE  ~IsForward(a)
<1> USE AddressesAssumption
<1>1. (ENCODED + 1) * SEGMENT <= TOP * SEGMENT
    BY Monotone
<1>2. (ENCODED + 1) * SEGMENT = ENCODED * SEGMENT + SEGMENT
    OBVIOUS
<1>3. /\ ENCODED * SEGMENT \in Nat /\ TOP * SEGMENT \in Nat /\ SEGMENT \in Nat
      /\ FORWARDS \in Nat /\ FORWARDS <= SEGMENT /\ a \in Nat
    BY DEF Dword
<1>. QED BY <1>1, <1>2, <1>3 DEF IsForward

LEMMA LibraryKept ==
  ASSUME Libraries, NEW lib \in Libs, lib \in ToSet(apilibs), NEW t,
         NEW k \in DOMAIN LibTables[lib],
         NEW e \in ToSet(LibTables[lib][k].named) \cup ToSet(LibTables[lib][k].ordinals),
         e.addr \in Dword
  PROVE  /\ Known(Encoded(e.addr, lib))
         /\ decode_address(Encoded(e.addr, lib), t) =
              IF IS_SHARED(Handle[lib]) THEN InArena(e.addr)
              ELSE [in |-> lib, at |-> e.addr - Handle[lib]]
<1>1. lib # STD /\ Handle[lib] \in Dword
    BY TablesAssumption
<1>2. PICK index : index = IndexOf(lib)
    OBVIOUS
<1>3. /\ index \in Nat \ {0} /\ index + 1 \in 1..Len(apilibs) /\ apilibs[index + 1] = lib
      /\ HasSegment(index)
    BY <1>1, <1>2, Indexed, SegmentsForAll
<1>4. PICK p : p = Encoded(e.addr, lib)
    OBVIOUS
<1>5. p = encode_address(e.addr, index, Handle[lib])
    BY <1>1, <1>2, <1>4 DEF Encoded, IndexOf
<1>6. DOMAIN apilibs = 1..Len(apilibs)
    BY DEF Libraries
<1>7. IF IS_SHARED(Handle[lib]) THEN IS_SHARED(e.addr) /\ e.addr < ENCODED * SEGMENT
      ELSE Fits(e.addr, Handle[lib])
    BY PlacesAssumption
<1>8. CASE IS_SHARED(Handle[lib])
  <2>1. p = e.addr
      BY <1>3, <1>5, <1>8 DEF encode_address
  <2>2. IS_SHARED(e.addr) /\ e.addr < ENCODED * SEGMENT
      BY <1>7, <1>8
  <2>3. KindOf(e.addr) = "absolute"
    <3>1. e.addr \in Dword \ {0}
      <4>. QED BY <2>2, ZeroIsBelow
    <3>2. ~IsForward(e.addr)
        BY <2>2, ArenaIsBelow
    <3>. QED BY <1>1, <1>8, <2>2, <3>1, <3>2, SystemAddressesAreDecoded
  <2>4. decode_address(p, t) = InArena(p)
      BY <2>1, <2>3 DEF decode_address
  <2>. QED BY <1>4, <1>8, <2>1, <2>3, <2>4 DEF Known
<1>9. CASE ~IS_SHARED(Handle[lib])
  <2>1. Fits(e.addr, Handle[lib])
      BY <1>7, <1>9
  <2>2. KindOf(p) = "inLibrary" /\ LibraryOf(p) = index /\ OffsetOf(p) = e.addr - Handle[lib]
      BY <1>1, <1>3, <1>5, <1>9, <2>1, LibrariesAreDecoded
  <2>3. decode_address(p, t) = [in |-> lib, at |-> e.addr - Handle[lib]]
      BY <1>3, <2>2 DEF decode_address
  <2>. QED BY <1>3, <1>4, <1>6, <1>9, <2>2, <2>3 DEF Known
<1>. QED BY <1>8, <1>9

(* A function of the system's is led to by what is kept of it, but for one   *)
(* that a shared DLL does not use.                                           *)
LEMMA SystemKept ==
  ASSUME Libraries, NEW t \in Targets, NEW f \in DOMAIN System[t].functions
  PROVE  LET p == Encoded(StdAddress(t, f), STD)
         IN  /\ Known(p)
             /\ \/ Reaches(decode_address(p, t), OriExportFromOrdinal(t, f))
                \/ /\ IS_SHARED(System[t].handle)
                   /\ System[t].functions[f].forward = None /\ System[t].functions[f].rva = 0
                   /\ OriExportFromOrdinal(t, f) = Nowhere
<1>1. PICK fun, handle : fun = System[t].functions[f] /\ handle = System[t].handle
    OBVIOUS
<1>2. PICK L \in Nat : /\ L = Len(System[t].functions) /\ DOMAIN System[t].functions = 1..L
                       /\ L < FORWARDS
  <2>1. /\ System[t].functions \in Seq(ToSet(System[t].functions))
        /\ Len(System[t].functions) < FORWARDS
      BY SystemAssumption
  <2>. QED BY <2>1
<1>3. /\ handle \in Nat /\ (handle # 0 => IS_SHARED(handle))
      /\ fun.rva \in Nat /\ ~IS_SHARED(fun.rva) /\ ~IsForward(fun.rva + handle)
  <2>1. fun \in ToSet(System[t].functions)
      BY <1>1 DEF ToSet
  <2>. QED BY <1>1, <2>1, PlacesAssumption
<1>4. fun.rva + handle \in Dword /\ fun.rva + handle = handle + fun.rva
  <2>1. fun.rva + handle \in Dword
      BY <1>1, SystemAssumption
  <2>. QED BY <1>3, <2>1
<1>5. OriExportFromOrdinal(t, f) =
        IF fun.forward # None THEN [in |-> "forward", at |-> fun.forward]
        ELSE IF fun.rva = 0 THEN Nowhere
        ELSE IF IS_SHARED(handle) THEN InArena(handle + fun.rva)
        ELSE [in |-> t, at |-> fun.rva]
  <2>1. f \in 1..L + 1 /\ f \in 1..L
      BY <1>2
  <2>2. System[t].functions \in Seq(ToSet(System[t].functions))
      BY SystemAssumption
  <2>3. Append(System[t].functions, System[t].after)[f] = fun
      BY <1>1, <1>2, <2>1, <2>2
  <2>. QED BY <1>1, <1>2, <2>1, <2>3 DEF OriExportFromOrdinal
<1>6. PICK p : p = Encoded(StdAddress(t, f), STD)
    OBVIOUS
<1>7. p = encode_address(StdAddress(t, f), 0, 0)
  <2>1. STD \in ToSet(apilibs)
    <3>1. apilibs \in Seq(Libs \cup {STD}) /\ apilibs # <<>> /\ apilibs[1] = STD
        BY DEF Libraries
    <3>2. Len(apilibs) # 0 /\ Len(apilibs) \in Nat /\ DOMAIN apilibs = 1..Len(apilibs)
        BY <3>1, EmptySeq
    <3>3. 1 \in DOMAIN apilibs
        BY <3>2
    <3>. QED BY <3>1, <3>3 DEF ToSet
  <2>2. IndexOf(STD) = 0
      BY <2>1, Indexed
  <2>. QED BY <1>6, <2>2 DEF Encoded, IndexOf
<1>8. 0 \in Dword
    BY ZeroIsDword
<1>9. CASE fun.forward # None
  <2>1. StdAddress(t, f) = ForwardOf(f)
      BY <1>1, <1>9 DEF StdAddress
  <2>2. f \in 0..(FORWARDS - 1)
      BY <1>2, AddressesAssumption
  <2>3. KindOf(p) = "forward" /\ OrdinalOf(p) = f
      BY <1>7, <1>8, <2>1, <2>2, ForwardsAreDecoded
  <2>4. decode_address(p, t) = OriExportFromOrdinal(t, f)
      BY <2>3 DEF decode_address
  <2>. QED BY <1>6, <2>3, <2>4 DEF Known, Reaches
<1>10. CASE fun.forward = None
  <2>1. StdAddress(t, f) = fun.rva + handle
      BY <1>1, <1>10 DEF StdAddress
  <2>2. PICK addr \in Dword : addr = fun.rva + handle
      BY <1>4
  <2>3. p = encode_address(addr, 0, 0) /\ ~IsForward(addr)
      BY <1>3, <1>7, <2>1, <2>2
  <2>4. CASE fun.rva = 0 /\ handle = 0
    <3>1. addr = 0
        BY <2>2, <2>4
    <3>2. p = 0
      <4>1. ENCODED * SEGMENT > 0
        <5>1. \A a, b \in Nat : a > 0 /\ b > 0 => a * b > 0
            OBVIOUS
        <5>. QED BY <5>1, AddressesAssumption
      <4>. QED BY <2>3, <3>1, <4>1 DEF encode_address
    <3>3. KindOf(p) = "none"
        BY <3>2 DEF KindOf
    <3>4. decode_address(p, t) = Nowhere /\ OriExportFromOrdinal(t, f) = Nowhere
        BY <1>5, <1>10, <2>4, <3>3 DEF decode_address
    <3>. QED BY <1>6, <3>3, <3>4 DEF Known, Reaches
  <2>5. CASE fun.rva = 0 /\ handle # 0
    <3>1. ~IS_SHARED(addr) => KindOf(p) # "inLibrary"
      <4>1. IS_SHARED(addr)
          BY <1>3, <2>2, <2>5
      <4>. QED BY <4>1
    <3>2. IS_SHARED(addr) /\ addr # 0
        BY <1>3, <2>2, <2>5
    <3>3. KindOf(p) = "absolute"
        BY <1>8, <2>3, <3>2, SystemAddressesAreDecoded
    <3>4. OriExportFromOrdinal(t, f) = Nowhere
        BY <1>5, <1>10, <2>5
    <3>. QED BY <1>1, <1>3, <1>6, <1>10, <2>5, <3>3, <3>4 DEF Known
  <2>6. CASE fun.rva # 0 /\ handle = 0
    <3>1. addr = fun.rva /\ addr # 0 /\ ~IS_SHARED(addr)
        BY <1>3, <2>2, <2>6
    <3>2. p = addr /\ KindOf(p) = "inTarget"
        BY <1>8, <2>3, <3>1, SystemAddressesAreDecoded
    <3>3. decode_address(p, t) = [in |-> t, at |-> fun.rva]
        BY <3>1, <3>2 DEF decode_address
    <3>4. OriExportFromOrdinal(t, f) = [in |-> t, at |-> fun.rva]
        BY <1>5, <1>10, <2>6, ZeroIsBelow
    <3>. QED BY <1>6, <3>2, <3>3, <3>4 DEF Known, Reaches
  <2>7. CASE fun.rva # 0 /\ handle # 0
    <3>1. IS_SHARED(handle) /\ addr = handle + fun.rva
        BY <1>3, <1>4, <2>2, <2>7
    <3>2. IS_SHARED(addr) /\ addr # 0
      <4>1. SHARED * SEGMENT \in Nat
          BY AddressesAssumption
      <4>. QED BY <1>3, <2>7, <3>1, <4>1 DEF IS_SHARED
    <3>3. KindOf(p) = "absolute"
        BY <1>8, <2>3, <3>2, SystemAddressesAreDecoded
    <3>4. decode_address(p, t) = InArena(p)
        BY <3>3 DEF decode_address
    <3>5. OriExportFromOrdinal(t, f) = InArena(addr)
        BY <1>5, <1>10, <2>7, <3>1
    <3>6. p = addr \/ (addr >= ENCODED * SEGMENT /\ p = Stub[addr])
      <4>1. ENCODED * SEGMENT \in Nat /\ addr \in Nat
          BY AddressesAssumption DEF Dword
      <4>. QED BY <2>3, <4>1 DEF encode_address
    <3>7. Reaches(InArena(p), InArena(addr))
        BY <3>6 DEF Reaches, InArena
    <3>. QED BY <1>6, <3>3, <3>4, <3>5, <3>7 DEF Known
  <2>. QED BY <2>4, <2>5, <2>6, <2>7
<1>. QED BY <1>9, <1>10

-----------------------------------------------------------------------------
(* What the tables have of a library *)

AnswersAs(found, said, kind, t, key) ==
  \/ Reaches(found, said)
  \/ kind = "ordinal" /\ Stray(t, key) /\ said = Nowhere
KeptAs(p, said, kind, t, key) == Known(p) /\ AnswersAs(decode_address(p, t), said, kind, t, key)

SourceFor(lib, kind, t) == IF kind = "name" THEN TableFor(lib, t).named ELSE TableFor(lib, t).ordinals

LEMMA StdOverrides ==
  ASSUME overridden \in Seq(Targets), NEW t
  PROVE  /\ Overrides(STD, t) <=> t \in ToSet(overridden)
         /\ Overrides(STD, t) => t \in Targets /\ TableFor(STD, t) = StdTable(t)
<1>1. PICK L \in Nat : /\ L = Len(overridden) /\ DOMAIN overridden = 1..L
                       /\ \A k \in 1..L : overridden[k] \in Targets
    OBVIOUS
<1>2. PICK tables : tables = TablesOf(STD)
    OBVIOUS
<1>3. tables = [k \in 1..L |-> StdTable(overridden[k])]
    BY <1>1, <1>2 DEF TablesOf
<1>4. DOMAIN tables = 1..L
      /\ \A k \in 1..L : tables[k] = StdTable(overridden[k]) /\ tables[k].target = overridden[k]
  <2>1. \A k \in 1..L : StdTable(overridden[k]).target = overridden[k]
      BY <1>1, StdTableTypes
  <2>. QED BY <1>3, <2>1
<1>5. Overrides(STD, t) <=> t \in ToSet(overridden)
    BY <1>1, <1>2, <1>4 DEF Overrides, ToSet
<1>6. ASSUME Overrides(STD, t) PROVE t \in Targets /\ TableFor(STD, t) = StdTable(t)
  <2>1. PICK C : C = {k \in DOMAIN tables : tables[k].target = t}
      OBVIOUS
  <2>2. C \in SUBSET Nat /\ C # {}
      BY <1>2, <1>4, <1>6, <2>1 DEF Overrides
  <2>3. Min(C) \in C
      BY <2>2, Minimum
  <2>4. TableFor(STD, t) = tables[Min(C)]
      BY <1>2, <2>1 DEF TableFor
  <2>5. Min(C) \in 1..L /\ tables[Min(C)].target = t
      BY <1>4, <2>1, <2>3
  <2>. QED BY <1>1, <1>4, <2>4, <2>5
<1>. QED BY <1>5, <1>6

LEMMA LibraryOverrides ==
  ASSUME NEW lib \in Libs, NEW t, NEW kind, Overrides(lib, t)
  PROVE  /\ SourceFor(lib, kind, t) = FunctionsOf(lib, kind, t)
         /\ \E k \in DOMAIN LibTables[lib] :
              ToSet(SourceFor(lib, kind, t)) \subseteq
                ToSet(LibTables[lib][k].named) \cup ToSet(LibTables[lib][k].ordinals)
<1>1. lib # STD /\ TablesOf(lib) = LibTables[lib]
    BY TablesAssumption DEF TablesOf
<1>2. PICK own : own = {k \in DOMAIN LibTables[lib] : LibTables[lib][k].target = t}
    OBVIOUS
<1>3. own # {}
    BY <1>1, <1>2 DEF Overrides
<1>4. TableFor(lib, t) = LibTables[lib][Min(own)]
    BY <1>1, <1>2 DEF TableFor
<1>5. SourceFor(lib, kind, t) = FunctionsOf(lib, kind, t)
    BY <1>2, <1>3, <1>4 DEF SourceFor, FunctionsOf
<1>6. Min(own) \in DOMAIN LibTables[lib]
  <2>1. PICK Shape : Shape = [target : Targets, named : NamedApis, ordinals : OrdinalApis]
      OBVIOUS
  <2>2. LibTables[lib] \in Seq(Shape)
      BY <2>1, TablesAssumption
  <2>3. own \in SUBSET Nat
      BY <1>2, <2>2
  <2>4. Min(own) \in own
      BY <1>3, <2>3, Minimum
  <2>. QED BY <1>2, <2>4
<1>7. ToSet(SourceFor(lib, kind, t)) \subseteq
        ToSet(LibTables[lib][Min(own)].named) \cup ToSet(LibTables[lib][Min(own)].ordinals)
    BY <1>4 DEF SourceFor
<1>. QED BY <1>5, <1>6, <1>7

\* A library's functions with a name or ordinal are where the joins look for them.
LEMMA SourceHas ==
  ASSUME overridden \in Seq(Targets), NEW lib \in Libs \cup {STD}, NEW t, Overrides(lib, t),
         NEW kind, NEW key, Asked(kind, key)
  PROVE  PlacesOf(lib, kind, t, key) =
           {m \in DOMAIN SourceFor(lib, kind, t) : SourceFor(lib, kind, t)[m].key = key}
<1>1. CASE lib # STD
    BY <1>1, LibraryOverrides DEF PlacesOf
<1>2. CASE lib = STD
  <2>1. t \in Targets /\ TableFor(STD, t) = StdTable(t)
      BY <1>2, StdOverrides
  <2>2. CASE kind = "name"
    <3>1. SourceFor(STD, kind, t) =
            [k \in DOMAIN System[t].names |->
               [key |-> System[t].names[k].key, addr |-> StdAddress(t, System[t].names[k].function)]]
        BY <2>1, <2>2 DEF SourceFor, StdTable
    <3>. QED BY <1>2, <2>2, <3>1 DEF PlacesOf
  <2>3. CASE kind # "name"
    <3>1. SourceFor(STD, kind, t) =
            [f \in DOMAIN System[t].functions |-> [key |-> f, addr |-> StdAddress(t, f)]]
        BY <2>1, <2>3 DEF SourceFor, StdTable
    <3>. QED BY <1>2, <2>3, <3>1 DEF PlacesOf
  <2>. QED BY <2>2, <2>3
<1>. QED BY <1>1, <1>2

\* The types of what is joined.
LEMMA SourceForTypes ==
  ASSUME overridden \in Seq(Targets), NEW lib \in Libs \cup {STD}, NEW t, Overrides(lib, t), NEW kind
  PROVE  LET src == SourceFor(lib, kind, t)
         IN  /\ DOMAIN src = 1..Len(src) /\ Len(src) \in Nat
             /\ \A m \in 1..Len(src) : src[m].addr \in Dword /\ src[m].key \in Int
             /\ Sorted(src)
<1>1. PICK src : src = SourceFor(lib, kind, t)
    OBVIOUS
<1>2. PICK table : table = TableFor(lib, t)
    OBVIOUS
<1>3. /\ table.named \in NamedApis /\ Sorted(table.named)
      /\ table.ordinals \in OrdinalApis /\ Sorted(table.ordinals)
    BY <1>2, TableTypes
<1>4. CASE kind = "name"
  <2>1. src \in Seq(Entries) /\ Sorted(src)
      BY <1>1, <1>2, <1>3, <1>4 DEF SourceFor, NamedApis, Entries
  <2>2. \A e \in Entries : e.addr \in Dword /\ e.key \in Int
      BY TablesAssumption DEF Entries
  <2>. QED BY <1>1, <2>1, <2>2
<1>5. CASE kind # "name"
  <2>1. PICK E : E = [key : Nat \ {0}, addr : Dword]
      OBVIOUS
  <2>2. src \in Seq(E) /\ Sorted(src)
      BY <1>1, <1>2, <1>3, <1>5, <2>1 DEF SourceFor, OrdinalApis
  <2>3. \A e \in E : e.addr \in Dword /\ e.key \in Int
      BY <2>1
  <2>. QED BY <1>1, <2>2, <2>3
<1>. QED BY <1>4, <1>5

(* What a table gets of a library's function leads to that function.         *)
LEMMA PlaceKept ==
  ASSUME Libraries, overridden \in Seq(Targets), NEW lib \in ToSet(apilibs), NEW t, Overrides(lib, t),
         NEW kind \in FunctionKinds, NEW key, Asked(kind, key), NEW id,
         NEW m \in PlacesOf(lib, kind, t, key), m = Min(PlacesOf(lib, kind, t, key)) + id
  PROVE  KeptAs(Encoded(SourceFor(lib, kind, t)[m].addr, lib), FunctionOf(lib, kind, t, key, id),
                kind, t, key)
<1>0. lib \in Libs \cup {STD}
  <2>1. \A k \in DOMAIN apilibs : apilibs[k] \in Libs \cup {STD}
      BY DEF Libraries
  <2>. QED BY <2>1 DEF ToSet
<1>1. PICK src : src = SourceFor(lib, kind, t)
    OBVIOUS
<1>2. m \in DOMAIN src /\ src[m].key = key /\ src[m].addr \in Dword
  <2>1. m \in DOMAIN src /\ src[m].key = key
      BY <1>0, <1>1, SourceHas
  <2>. QED BY <1>0, <1>1, <2>1, SourceForTypes
<1>3. PICK said : said = FunctionOf(lib, kind, t, key, id)
    OBVIOUS
<1>4. CASE lib # STD
  <2>1. lib \in Libs
      BY <1>0, <1>4
  <2>2. src = FunctionsOf(lib, kind, t)
      BY <1>1, <2>1, LibraryOverrides
  <2>3. PICK k \in DOMAIN LibTables[lib] :
          ToSet(src) \subseteq ToSet(LibTables[lib][k].named) \cup ToSet(LibTables[lib][k].ordinals)
      BY <1>1, <2>1, LibraryOverrides
  <2>4. PICK e : e = src[m]
      OBVIOUS
  <2>5. e \in ToSet(LibTables[lib][k].named) \cup ToSet(LibTables[lib][k].ordinals)
    <3>1. e \in ToSet(src)
        BY <1>2, <2>4 DEF ToSet
    <3>. QED BY <2>3, <3>1
  <2>6. /\ Known(Encoded(e.addr, lib))
        /\ decode_address(Encoded(e.addr, lib), t) =
              IF IS_SHARED(Handle[lib]) THEN InArena(e.addr)
              ELSE [in |-> lib, at |-> e.addr - Handle[lib]]
      BY <1>2, <2>1, <2>4, <2>5, LibraryKept
  <2>7. said = IF IS_SHARED(Handle[lib]) THEN InArena(e.addr)
               ELSE [in |-> lib, at |-> e.addr - Handle[lib]]
      BY <1>3, <1>4, <2>2, <2>4 DEF FunctionOf
  <2>. QED BY <1>1, <1>3, <2>4, <2>6, <2>7 DEF KeptAs, AnswersAs, Reaches
<1>5. CASE lib = STD
  <2>1. t \in Targets /\ TableFor(STD, t) = StdTable(t)
      BY <1>5, StdOverrides
  <2>2. CASE kind = "name"
    <3>1. PICK names, f : names = System[t].names /\ f = names[m].function
        OBVIOUS
    <3>2. m \in DOMAIN names
        BY <1>5, <2>2, <3>1 DEF PlacesOf
    <3>3. src[m].addr = StdAddress(t, f)
        BY <1>1, <1>5, <2>1, <2>2, <3>1, <3>2 DEF SourceFor, StdTable
    <3>4. said = OriExportFromOrdinal(t, f)
        BY <1>3, <1>5, <2>2, <3>1 DEF FunctionOf
    <3>5. f \in DOMAIN System[t].functions
      <4>1. PICK E : E = [key : Names, function : DOMAIN System[t].functions]
          OBVIOUS
      <4>2. names \in Seq(E)
          BY <2>1, <3>1, <4>1, SystemAssumption
      <4>3. names[m] \in E
          BY <3>2, <4>2
      <4>. QED BY <3>1, <4>1, <4>3
    <3>6. System[t].functions[f].forward = None => System[t].functions[f].rva # 0
      <4>1. names[m] \in ToSet(System[t].names)
          BY <3>1, <3>2 DEF ToSet
      <4>. QED BY <2>1, <3>1, <4>1, PlacesAssumption
    <3>7. Known(Encoded(StdAddress(t, f), STD))
          /\ Reaches(decode_address(Encoded(StdAddress(t, f), STD), t), OriExportFromOrdinal(t, f))
        BY <2>1, <3>5, <3>6, SystemKept
    <3>. QED BY <1>1, <1>3, <1>5, <3>3, <3>4, <3>7 DEF KeptAs, AnswersAs
  <2>3. CASE kind = "ordinal"
    <3>1. m = key /\ m \in DOMAIN System[t].functions
        BY <1>5, <2>3 DEF PlacesOf
    <3>2. src[m].addr = StdAddress(t, m)
        BY <1>1, <1>5, <2>1, <2>3, <3>1 DEF SourceFor, StdTable
    <3>3. said = OriExportFromOrdinal(t, m)
        BY <1>3, <1>5, <2>3 DEF FunctionOf
    <3>4. /\ Known(Encoded(StdAddress(t, m), STD))
          /\ \/ Reaches(decode_address(Encoded(StdAddress(t, m), STD), t), OriExportFromOrdinal(t, m))
             \/ Stray(t, m) /\ OriExportFromOrdinal(t, m) = Nowhere
        BY <2>1, <3>1, SystemKept DEF Stray
    <3>. QED BY <1>1, <1>3, <1>5, <2>3, <3>1, <3>2, <3>3, <3>4 DEF KeptAs, AnswersAs
  <2>. QED BY <2>2, <2>3 DEF FunctionKinds
<1>. QED BY <1>4, <1>5

-----------------------------------------------------------------------------
(* What a join makes of a DLL's table *)

KeptFor(row, kind, key) ==
  IF kind = "name" THEN AddressOf(row.named, key) ELSE GetOrdinal(row.unnamed, key)
TableOf(tables, i) == IF i \in DOMAIN tables THEN tables[i] ELSE EmptyTable

LEMMA TableOfTypes ==
  ASSUME NEW tables \in Fulls, NEW i \in Nat \ {0}
  PROVE  /\ TableOf(tables, i) \in Rows
         /\ i \in DOMAIN tables <=> i \in 1..Len(tables)
         /\ DOMAIN tables = 1..Len(tables) /\ Len(tables) \in Nat /\ Len(tables) <= Len(overridden)
<1>1. /\ DOMAIN tables = 1..Len(tables) /\ Len(tables) \in Nat /\ Len(tables) <= Len(overridden)
    BY DEF Fulls
<1>2. i \in 1..Len(tables) => tables[i] \in Rows
    BY RowOf
<1>. QED BY <1>1, <1>2, EmptyRow DEF TableOf

\* recalloc changes no table: one that is not there is empty.
LEMMA GrownTable ==
  ASSUME overridden \in Seq(Targets), NEW tables \in Fulls, NEW n \in 0..Len(overridden),
         NEW i \in Nat \ {0}
  PROVE  TableOf(Grown(tables, n), i) = TableOf(tables, i)
<1>1. PICK all : all = Grown(tables, n)
    OBVIOUS
<1>2. /\ all \in Fulls /\ Len(tables) <= Len(all)
      /\ \A k \in 1..Len(tables) : all[k] = tables[k]
      /\ \A k \in Len(tables) + 1..Len(all) : all[k] = EmptyTable
    BY <1>1, GrownFull
<1>3. PICK K, M \in Nat : K = Len(tables) /\ DOMAIN tables = 1..K /\ M = Len(all) /\ DOMAIN all = 1..M
    BY <1>2 DEF Fulls
<1>4. \/ i \in 1..K /\ i \in 1..M
      \/ i \notin 1..K /\ i \in K + 1..M /\ i \in 1..M
      \/ i \notin 1..K /\ i \notin 1..M
    BY <1>2, <1>3
<1>. QED BY <1>1, <1>2, <1>3, <1>4 DEF TableOf

LEMMA JoinOrdinalsFinds ==
  ASSUME NEW unnamed \in Seq(Dword), NEW src \in OrdinalApis, Sorted(src),
         NEW lib \in Libs \cup {STD}, NEW key \in Nat \ {0}
  PROVE  LET joined == JoinOrdinals(unnamed, src, lib)
         IN  /\ GetOrdinal(joined, key) =
                  IF \E m \in DOMAIN src : src[m].key = key
                  THEN Encoded(FirstOf(src, key).addr, lib) ELSE GetOrdinal(unnamed, key)
             /\ unnamed # <<>> \/ src # <<>> => joined # <<>>
<1>1. PICK E : E = [key : Nat \ {0}, addr : Dword]
    OBVIOUS
<1>2. src \in Seq(E)
    BY <1>1 DEF OrdinalApis
<1>3. PICK L \in Nat : L = Len(src) /\ DOMAIN src = 1..L
    BY <1>2
<1>4. \A k \in 1..L : src[k].key \in Nat \ {0} /\ src[k].addr \in Dword
  <2>1. \A k \in 1..L : src[k] \in E
      BY <1>2, <1>3
  <2>. QED BY <1>1, <2>1
<1>5. PICK last : last = IF src = <<>> THEN 0 ELSE src[Len(src)].key
    OBVIOUS
<1>6. last \in Nat /\ \A k \in 1..L : src[k].key <= last
  <2>1. CASE src = <<>>
      BY <1>3, <1>5, <2>1
  <2>2. CASE src # <<>>
    <3>1. L \in 1..L
        BY <1>2, <1>3, <2>2
    <3>2. last = src[L].key /\ last \in Nat
        BY <1>3, <1>4, <1>5, <2>2, <3>1
    <3>3. ASSUME NEW k \in 1..L PROVE src[k].key <= src[L].key
      <4>1. k < L \/ k = L
          OBVIOUS
      <4>2. \A a \in Nat : a <= a
          OBVIOUS
      <4>. QED BY <1>3, <1>4, <3>1, <4>1, <4>2 DEF Sorted
    <3>. QED BY <3>2, <3>3
  <2>. QED BY <2>1, <2>2
<1>7. PICK g : g = GrownOrdinals(unnamed, last)
    OBVIOUS
<1>8. /\ g \in Seq(Dword) /\ Len(unnamed) <= Len(g) /\ last <= Len(g)
      /\ \A o \in 1..Len(g) : g[o] = IF o <= Len(unnamed) THEN unnamed[o] ELSE 0
    BY <1>6, <1>7, GrownOrdinalsTypes
<1>9. PICK N, U \in Nat : N = Len(g) /\ DOMAIN g = 1..N /\ U = Len(unnamed) /\ U <= N /\ last <= N
    BY <1>8
<1>10. PICK own : own = [o \in 1..N |-> {k \in DOMAIN src : src[k].key = o}]
    OBVIOUS
<1>11. PICK u : u = [o \in 1..N |-> IF own[o] = {} THEN g[o] ELSE Encoded(src[Min(own[o])].addr, lib)]
    OBVIOUS
<1>12. JoinOrdinals(unnamed, src, lib) = u
  <2>1. JoinOrdinals(unnamed, src, lib) =
          [o \in DOMAIN g |-> IF {k \in DOMAIN src : src[k].key = o} = {} THEN g[o]
                              ELSE Encoded(src[Min({k \in DOMAIN src : src[k].key = o})].addr, lib)]
      BY <1>5, <1>7 DEF JoinOrdinals
  <2>. QED BY <1>9, <1>10, <1>11, <2>1
<1>13. u \in Seq(Dword)
    BY <1>12, JoinOrdinalsTypes
<1>14. Len(u) = N
    BY <1>9, <1>11, <1>13
<1> DEFINE Goal == GetOrdinal(u, key) =
                     IF \E m \in DOMAIN src : src[m].key = key
                     THEN Encoded(FirstOf(src, key).addr, lib) ELSE GetOrdinal(unnamed, key)
<1>15. ASSUME \E m \in DOMAIN src : src[m].key = key PROVE Goal
  <2>1. key <= last /\ key \in 1..N
      BY <1>3, <1>6, <1>9, <1>15
  <2>2. own[key] # {} /\ own[key] = {k \in DOMAIN src : src[k].key = key}
      BY <1>10, <1>15, <2>1
  <2>3. u[key] = Encoded(FirstOf(src, key).addr, lib)
      BY <1>11, <2>1, <2>2 DEF FirstOf
  <2>4. ~(key > N)
      BY <2>1
  <2>. QED BY <1>12, <1>14, <1>15, <2>3, <2>4 DEF GetOrdinal
<1>16. ASSUME ~\E m \in DOMAIN src : src[m].key = key PROVE Goal
  <2>1. CASE key > N
    <3>1. key > U
        BY <1>9, <2>1
    <3>2. GetOrdinal(u, key) = 0 /\ GetOrdinal(unnamed, key) = 0
        BY <1>9, <1>14, <2>1, <3>1 DEF GetOrdinal
    <3>. QED BY <1>16, <3>2
  <2>2. CASE ~(key > N)
    <3>1. key \in 1..N /\ own[key] = {}
        BY <1>9, <1>10, <1>16, <2>2
    <3>2. u[key] = IF key <= U THEN unnamed[key] ELSE 0
        BY <1>8, <1>9, <1>11, <3>1
    <3>3. key <= U <=> ~(key > U)
        BY <1>9
    <3>. QED BY <1>9, <1>12, <1>14, <1>16, <2>2, <3>2, <3>3 DEF GetOrdinal
  <2>. QED BY <2>1, <2>2
<1>17. ASSUME unnamed # <<>> \/ src # <<>> PROVE u # <<>>
  <2>1. N > 0
    <3>1. CASE unnamed # <<>>
      <4>1. U > 0
          BY <1>9, <3>1
      <4>. QED BY <1>9, <4>1
    <3>2. CASE src # <<>>
      <4>1. L \in 1..L
          BY <1>2, <1>3, <3>2
      <4>2. last > 0
          BY <1>4, <1>6, <4>1
      <4>. QED BY <1>6, <1>9, <4>2
    <3>. QED BY <1>17, <3>1, <3>2
  <2>. QED BY <1>13, <1>14, <2>1
<1>. QED BY <1>12, <1>15, <1>16, <1>17

LEMMA JoinedRowFinds ==
  ASSUME overridden \in Seq(Targets), NEW lib \in Libs \cup {STD}, NEW t, Overrides(lib, t),
         NEW row \in Rows, NEW kind \in FunctionKinds, NEW key, Asked(kind, key)
  PROVE  KeptFor(JoinedRow(row, lib, t), kind, key) =
              IF PlacesOf(lib, kind, t, key) # {}
              THEN Encoded(SourceFor(lib, kind, t)[Min(PlacesOf(lib, kind, t, key))].addr, lib)
              ELSE KeptFor(row, kind, key)
<1>1. PICK table : table = TableFor(lib, t)
    OBVIOUS
<1>2. /\ table.named \in NamedApis /\ Sorted(table.named)
      /\ table.ordinals \in OrdinalApis /\ Sorted(table.ordinals)
    BY <1>1, TableTypes
<1>3. row.named \in NamedApis /\ Increasing(row.named) /\ row.unnamed \in Seq(Dword)
    BY RowHas
<1>4. PICK joined : joined = JoinedRow(row, lib, t)
    OBVIOUS
<1>5. /\ joined.named = JoinNames(row.named, table.named, lib)
      /\ joined.unnamed = JoinOrdinals(row.unnamed, table.ordinals, lib)
    BY <1>1, <1>4 DEF JoinedRow
<1>6. PICK src, places : src = SourceFor(lib, kind, t) /\ places = PlacesOf(lib, kind, t, key)
    OBVIOUS
<1>7. places = {m \in DOMAIN src : src[m].key = key}
    BY <1>6, SourceHas
<1>8. (places # {} <=> \E m \in DOMAIN src : src[m].key = key) /\ FirstOf(src, key) = src[Min(places)]
    BY <1>7 DEF FirstOf
<1>9. CASE kind = "name"
  <2>1. src = table.named
      BY <1>1, <1>6, <1>9 DEF SourceFor
  <2>2. AddressOf(joined.named, key) =
          IF \E m \in DOMAIN src : src[m].key = key THEN Encoded(FirstOf(src, key).addr, lib)
          ELSE AddressOf(row.named, key)
      BY <1>2, <1>3, <1>5, <2>1, JoinNamesFinds
  <2>. QED BY <1>4, <1>6, <1>8, <1>9, <2>2 DEF KeptFor
<1>10. CASE kind # "name"
  <2>1. src = table.ordinals /\ key \in Nat \ {0}
      BY <1>1, <1>6, <1>10 DEF SourceFor, Asked
  <2>2. GetOrdinal(joined.unnamed, key) =
          IF \E m \in DOMAIN src : src[m].key = key THEN Encoded(FirstOf(src, key).addr, lib)
          ELSE GetOrdinal(row.unnamed, key)
      BY <1>2, <1>3, <1>5, <2>1, JoinOrdinalsFinds
  <2>. QED BY <1>4, <1>6, <1>8, <1>10, <2>2 DEF KeptFor
<1>. QED BY <1>9, <1>10

\* A table that has ordinals keeps some, and one that is joined with STD's gets some.
LEMMA JoinedRowIsWhole ==
  ASSUME overridden \in Seq(Targets), NEW lib \in Libs \cup {STD}, NEW t, Overrides(lib, t),
         NEW row \in Rows, row.unnamed # <<>> \/ lib = STD
  PROVE  JoinedRow(row, lib, t).unnamed # <<>>
<1>1. PICK table : table = TableFor(lib, t)
    OBVIOUS
<1>2. table.ordinals \in OrdinalApis /\ Sorted(table.ordinals)
    BY <1>1, TableTypes
<1>3. row.unnamed \in Seq(Dword)
    BY RowHas
<1>4. JoinedRow(row, lib, t).unnamed = JoinOrdinals(row.unnamed, table.ordinals, lib)
    BY <1>1 DEF JoinedRow
<1>5. lib = STD => table.ordinals # <<>>
  <2>1. SUFFICES ASSUME lib = STD PROVE table.ordinals # <<>>
      OBVIOUS
  <2>2. t \in Targets /\ table = StdTable(t)
      BY <1>1, <2>1, StdOverrides
  <2>3. PICK functions : functions = System[t].functions /\ functions \in Seq(ToSet(functions))
      BY <2>2, SystemAssumption
  <2>4. functions # <<>>
      BY <2>2, <2>3, PlacesAssumption
  <2>5. DOMAIN table.ordinals = DOMAIN functions
      BY <2>2, <2>3 DEF StdTable
  <2>6. 1 \in DOMAIN functions
      BY <2>3, <2>4
  <2>. QED BY <2>5, <2>6
<1>6. 1 \in Nat \ {0}
    OBVIOUS
<1>. QED BY <1>2, <1>3, <1>4, <1>5, <1>6, JoinOrdinalsFinds

\* merge(apilib), of one DLL.
LEMMA MergeLibTable ==
  ASSUME overridden \in Seq(Targets), NEW tables \in Fulls, NEW lib \in Libs \cup {STD},
         NEW i \in 1..Len(overridden)
  PROVE  TableOf(MergeLib(tables, lib), i) =
           IF Overrides(lib, overridden[i]) THEN JoinedRow(TableOf(tables, i), lib, overridden[i])
           ELSE TableOf(tables, i)
<1>1. PICK own, m : own = OwnOf(lib) /\ m = Max(own \cup {0})
    OBVIOUS
<1>2. PICK all, merged : all = Grown(tables, m) /\ merged = MergeLib(tables, lib)
    OBVIOUS
<1>3. /\ DOMAIN merged = DOMAIN all /\ own \subseteq DOMAIN all
      /\ \A j \in DOMAIN all :
           merged[j] = IF j \in own THEN JoinedRow(all[j], lib, overridden[j]) ELSE all[j]
    BY <1>1, <1>2, MergeLibHolds
<1>4. PICK N \in Nat : N = Len(overridden) /\ DOMAIN overridden = 1..N
    OBVIOUS
<1>5. m \in 0..N
  <2>1. own \cup {0} \in SUBSET (0..N) /\ own \cup {0} # {}
      BY <1>1, <1>4 DEF OwnOf
  <2>2. m \in own \cup {0}
      BY <1>1, <2>1, Maximum
  <2>. QED BY <2>1, <2>2
<1>6. TableOf(all, i) = TableOf(tables, i)
    BY <1>2, <1>4, <1>5, GrownTable
<1>7. i \in own <=> Overrides(lib, overridden[i])
    BY <1>1, <1>4 DEF OwnOf
<1>. QED BY <1>2, <1>3, <1>6, <1>7 DEF TableOf

-----------------------------------------------------------------------------
(* What the joins of a section make of a DLL's table *)

\* The libraries that have a function, among the first n of them.
HaveOf(libs, n, kind, t, key) == {j \in 1..n : PlacesOf(libs[j], kind, t, key) # {}}

LEMMA NextIsLast ==
  ASSUME NEW n \in Nat, NEW S \in SUBSET (1..n + 1)
  PROVE  /\ n + 1 \in S => Max(S) = n + 1
         /\ S # {} => Max(S) \in S
<1>1. S \in SUBSET (0..n + 1) /\ n + 1 \in Nat
    OBVIOUS
<1>2. ASSUME S # {} PROVE Max(S) \in S /\ \A y \in S : y <= Max(S)
    BY <1>1, <1>2, Maximum
<1>3. ASSUME n + 1 \in S PROVE Max(S) = n + 1
  <2>1. Max(S) \in 1..n + 1 /\ n + 1 <= Max(S)
      BY <1>2, <1>3
  <2>. QED BY <2>1
<1>. QED BY <1>2, <1>3

\* Of DLL i, what a library has is in the table after it is joined, and nothing else
\* changes.
AfterLib(tables, after, lib, i, t, kind, key) ==
  LET kept == KeptFor(TableOf(after, i), kind, key)
  IN  IF PlacesOf(lib, kind, t, key) # {}
      THEN KeptAs(kept, FunctionOf(lib, kind, t, key, 0), kind, t, key)
      ELSE kept = KeptFor(TableOf(tables, i), kind, key)

\* The last of n libraries that has a function is where it is from.
AfterLibs(tables, after, libs, n, i, t, kind, key) ==
  LET kept == KeptFor(TableOf(after, i), kind, key)
      have == HaveOf(libs, n, kind, t, key)
  IN  IF have # {} THEN KeptAs(kept, FunctionOf(libs[Max(have)], kind, t, key, 0), kind, t, key)
      ELSE kept = KeptFor(TableOf(tables, i), kind, key)

\* merge(apilib).
LEMMA MergeLibKept ==
  ASSUME Libraries, overridden \in Seq(Targets), NEW tables \in Fulls, NEW lib \in ToSet(apilibs),
         NEW i \in 1..Len(overridden), NEW t, t = overridden[i],
         NEW kind \in FunctionKinds, NEW key, Asked(kind, key)
  PROVE  AfterLib(tables, MergeLib(tables, lib), lib, i, t, kind, key)
<1>1. lib \in Libs \cup {STD}
  <2>1. \A k \in DOMAIN apilibs : apilibs[k] \in Libs \cup {STD}
      BY DEF Libraries
  <2>. QED BY <2>1 DEF ToSet
<1>2. PICK row, merged : row = TableOf(tables, i) /\ merged = TableOf(MergeLib(tables, lib), i)
    OBVIOUS
<1>3. row \in Rows /\ i \in Nat \ {0}
    BY <1>2, TableOfTypes
<1>4. merged = IF Overrides(lib, t) THEN JoinedRow(row, lib, t) ELSE row
    BY <1>1, <1>2, MergeLibTable
<1>5. PICK places : places = PlacesOf(lib, kind, t, key)
    OBVIOUS
<1>6. places # {} => Overrides(lib, t)
  <2>1. CASE lib = STD
    <3>1. t \in ToSet(overridden)
        BY DEF ToSet
    <3>. QED BY <2>1, <3>1, StdOverrides
  <2>2. CASE lib # STD
    <3>1. lib \in Libs
        BY <1>1, <2>2
    <3>. QED BY <1>5, <2>2, <3>1, LibraryHasTable DEF Overrides, TablesOf
  <2>. QED BY <2>1, <2>2
<1>7. CASE places # {}
  <2>1. Overrides(lib, t)
      BY <1>6, <1>7
  <2>2. PICK src : src = SourceFor(lib, kind, t)
      OBVIOUS
  <2>3. places \in SUBSET Nat
    <3>1. places = {m \in DOMAIN src : src[m].key = key}
        BY <1>1, <1>5, <2>1, <2>2, SourceHas
    <3>2. DOMAIN src = 1..Len(src)
        BY <1>1, <2>1, <2>2, SourceForTypes
    <3>. QED BY <3>1, <3>2
  <2>4. PICK m \in places : m = Min(places) /\ m + 0 = m
    <3>1. Min(places) \in places
        BY <1>7, <2>3, Minimum
    <3>2. \A a \in Nat : a + 0 = a
        OBVIOUS
    <3>. QED BY <2>3, <3>1, <3>2
  <2>5. KeptAs(Encoded(src[m].addr, lib), FunctionOf(lib, kind, t, key, 0), kind, t, key)
      BY <1>5, <2>1, <2>2, <2>4, PlaceKept
  <2>6. KeptFor(merged, kind, key) = Encoded(src[Min(places)].addr, lib)
      BY <1>1, <1>3, <1>4, <1>5, <1>7, <2>1, <2>2, JoinedRowFinds
  <2>. QED BY <1>2, <1>5, <1>7, <2>4, <2>5, <2>6 DEF AfterLib
<1>8. CASE places = {}
  <2>1. ASSUME Overrides(lib, t)
        PROVE  KeptFor(JoinedRow(row, lib, t), kind, key) = KeptFor(row, kind, key)
    <3>1. ~(PlacesOf(lib, kind, t, key) # {})
        BY <1>5, <1>8
    <3>. QED BY <1>1, <1>3, <2>1, <3>1, JoinedRowFinds
  <2>. QED BY <1>2, <1>4, <1>5, <1>8, <2>1 DEF AfterLib
<1>. QED BY <1>7, <1>8

\* join_apilibs.
LEMMA MergeLibsKept ==
  ASSUME Libraries, overridden \in Seq(Targets), NEW tables \in Fulls,
         NEW libs \in Seq(Libs \cup {STD}), ToSet(libs) \subseteq ToSet(apilibs),
         NEW i \in 1..Len(overridden), NEW t, t = overridden[i],
         NEW kind \in FunctionKinds, NEW key, Asked(kind, key)
  PROVE  AfterLibs(tables, MergeLibs(tables, libs), libs, Len(libs), i, t, kind, key)
<1>1. PICK L \in Nat : L = Len(libs) /\ \A k \in 1..L : libs[k] \in ToSet(apilibs)
  <2>1. DOMAIN libs = 1..Len(libs) /\ Len(libs) \in Nat
      OBVIOUS
  <2>2. \A k \in 1..Len(libs) : libs[k] \in ToSet(libs)
      BY <2>1 DEF ToSet
  <2>. QED BY <2>1, <2>2
<1>2. PICK f : /\ f[0] = tables /\ f[L] = MergeLibs(tables, libs)
               /\ \A k \in 1..L : f[k] = MergeLib(f[k - 1], libs[k])
               /\ \A k \in 0..L : f[k] \in Fulls
    BY <1>1, MergeLibsAre
<1> DEFINE Have(n) == HaveOf(libs, n, kind, t, key)
           Holds(n) == AfterLibs(tables, f[n], libs, n, i, t, kind, key)
           N == {n \in 0..L : Holds(n)}
<1>3. Have(0) = {}
    BY DEF HaveOf
<1>4. 0 \in N
    BY <1>2, <1>3, 0 \in 0..L DEF AfterLibs
<1>5. ASSUME NEW n \in 0..L-1, Holds(n) PROVE Holds(n + 1)
  <2>1. n + 1 \in 1..L /\ (n + 1) - 1 = n /\ n \in 0..L /\ n \in Nat
      OBVIOUS
  <2>2. PICK lib : lib = libs[n + 1] /\ lib \in ToSet(apilibs)
      BY <1>1, <2>1
  <2>3. f[n + 1] = MergeLib(f[n], lib) /\ f[n] \in Fulls
      BY <1>2, <2>1, <2>2
  <2>4. AfterLib(f[n], f[n + 1], lib, i, t, kind, key)
      BY <2>2, <2>3, MergeLibKept
  <2>5. \A j \in 1..n + 1 : j = n + 1 \/ j \in 1..n
      BY <2>1
  <2>6. \A j \in 1..n : j \in 1..n + 1
      BY <2>1
  <2>7. n + 1 \in 1..n + 1
      BY <2>1
  <2>8. CASE PlacesOf(lib, kind, t, key) # {}
    <3>1. n + 1 \in Have(n + 1) /\ Have(n + 1) \in SUBSET (1..n + 1)
        BY <2>2, <2>7, <2>8 DEF HaveOf
    <3>2. Max(Have(n + 1)) = n + 1
        BY <2>1, <3>1, NextIsLast
    <3>. QED BY <2>2, <2>4, <2>8, <3>1, <3>2 DEF AfterLib, AfterLibs
  <2>9. CASE PlacesOf(lib, kind, t, key) = {}
    <3>1. Have(n + 1) = Have(n)
        BY <2>2, <2>5, <2>6, <2>9 DEF HaveOf
    <3>. QED BY <1>5, <2>4, <2>9, <3>1 DEF AfterLib, AfterLibs
  <2>. QED BY <2>8, <2>9
<1>6. PICK M : M = N
    OBVIOUS
<1>7. 0 \in M /\ \A n \in 0..L-1 : n \in M => n + 1 \in M
  <2>1. \A n \in 0..L-1 : n + 1 \in 0..L
      OBVIOUS
  <2> HIDE DEF Holds
  <2>. QED BY <1>4, <1>5, <1>6, <2>1
<1>8. L \in M
  <2> HIDE DEF N, Holds, Have
  <2>1. \A n \in 0..L : n \in M
      BY <1>7, UpTo
  <2>. QED BY <2>1, L \in 0..L
<1>9. Holds(L)
    BY <1>6, <1>8
<1>. QED BY <1>1, <1>2, <1>9

\* A table with ordinals keeps some, one that is joined with STD's gets some, and one
\* for which no library has anything is left as it is.
LEMMA MergeLibsWhole ==
  ASSUME overridden \in Seq(Targets), NEW tables \in Fulls, NEW libs \in Seq(Libs \cup {STD}),
         NEW i \in 1..Len(overridden), NEW t, t = overridden[i]
  PROVE  LET row == TableOf(MergeLibs(tables, libs), i)
         IN  /\ TableOf(tables, i).unnamed # <<>> \/ STD \in ToSet(libs) => row.unnamed # <<>>
             /\ (\A lib \in ToSet(libs) : ~Overrides(lib, t)) => row = TableOf(tables, i)
<1>1. PICK L \in Nat : /\ L = Len(libs) /\ DOMAIN libs = 1..L
                       /\ \A k \in 1..L : libs[k] \in Libs \cup {STD} /\ libs[k] \in ToSet(libs)
  <2>1. DOMAIN libs = 1..Len(libs) /\ Len(libs) \in Nat
      OBVIOUS
  <2>2. \A k \in 1..Len(libs) : libs[k] \in ToSet(libs) /\ libs[k] \in Libs \cup {STD}
      BY <2>1 DEF ToSet
  <2>. QED BY <2>1, <2>2
<1>2. PICK f : /\ f[0] = tables /\ f[L] = MergeLibs(tables, libs)
               /\ \A k \in 1..L : f[k] = MergeLib(f[k - 1], libs[k])
               /\ \A k \in 0..L : f[k] \in Fulls
    BY <1>1, MergeLibsAre
<1>3. i \in Nat \ {0} /\ t \in ToSet(overridden)
    BY DEF ToSet
<1>4. Overrides(STD, t)
    BY <1>3, StdOverrides
<1> DEFINE Row(n) == TableOf(f[n], i)
           Holds(n) == /\ (Row(0).unnamed # <<>> \/ \E k \in 1..n : libs[k] = STD) => Row(n).unnamed # <<>>
                       /\ (\A k \in 1..n : ~Overrides(libs[k], t)) => Row(n) = Row(0)
           N == {n \in 0..L : Holds(n)}
<1>5. 0 \in N
  <2>1. ~\E k \in 1..0 : TRUE
      OBVIOUS
  <2>. QED BY <2>1, 0 \in 0..L
<1>6. ASSUME NEW n \in 0..L-1, Holds(n) PROVE Holds(n + 1)
  <2>1. n + 1 \in 1..L /\ (n + 1) - 1 = n /\ n \in 0..L
      OBVIOUS
  <2>2. PICK lib : lib = libs[n + 1] /\ lib \in Libs \cup {STD}
      BY <1>1, <2>1
  <2>3. f[n + 1] = MergeLib(f[n], lib) /\ f[n] \in Fulls
      BY <1>2, <2>1, <2>2
  <2>4. Row(n) \in Rows
      BY <1>3, <2>3, TableOfTypes
  <2>5. Row(n + 1) = IF Overrides(lib, t) THEN JoinedRow(Row(n), lib, t) ELSE Row(n)
      BY <2>2, <2>3, MergeLibTable
  <2>6. Row(n).unnamed # <<>> \/ lib = STD => Row(n + 1).unnamed # <<>>
      BY <1>4, <2>2, <2>4, <2>5, JoinedRowIsWhole
  <2>7. /\ \A k \in 1..n + 1 : k \in 1..n \/ k = n + 1
        /\ \A k \in 1..n : k \in 1..n + 1
        /\ n + 1 \in 1..n + 1
      BY <2>1
  <2> HIDE DEF Row
  <2>8. (Row(0).unnamed # <<>> \/ \E k \in 1..n + 1 : libs[k] = STD) => Row(n + 1).unnamed # <<>>
      BY <1>6, <2>2, <2>6, <2>7
  <2>9. (\A k \in 1..n + 1 : ~Overrides(libs[k], t)) => Row(n + 1) = Row(0)
      BY <1>6, <2>2, <2>5, <2>7
  <2>. QED BY <2>8, <2>9
<1>7. PICK M : M = N
    OBVIOUS
<1>8. 0 \in M /\ \A n \in 0..L-1 : n \in M => n + 1 \in M
  <2>1. \A n \in 0..L-1 : n + 1 \in 0..L
      OBVIOUS
  <2> HIDE DEF Holds
  <2>. QED BY <1>5, <1>6, <1>7, <2>1
<1>9. L \in M
  <2> HIDE DEF N, Holds, Row
  <2>1. \A n \in 0..L : n \in M
      BY <1>8, UpTo
  <2>. QED BY <2>1, L \in 0..L
<1>10. Holds(L)
    BY <1>7, <1>9
<1>11. STD \in ToSet(libs) => \E k \in 1..L : libs[k] = STD
    BY <1>1 DEF ToSet
<1>. QED BY <1>1, <1>2, <1>10, <1>11

-----------------------------------------------------------------------------
(* What a line of a section makes of a DLL's table *)

LEMMA SameAddress ==
  ASSUME NEW a \in NamedApis, Increasing(a), NEW b \in NamedApis, Increasing(b), NEW key,
         \A e : e.key = key => (e \in ToSet(a) <=> e \in ToSet(b))
  PROVE  AddressOf(a, key) = AddressOf(b, key)
<1>1. CASE \E e \in ToSet(a) : e.key = key
  <2>1. PICK e \in ToSet(a) : e.key = key
      BY <1>1
  <2>2. AddressOf(a, key) = e.addr
      BY <2>1, AddressIs
  <2>3. AddressOf(b, key) = e.addr
      BY <2>1, AddressIs
  <2>. QED BY <2>2, <2>3
<1>2. CASE ~\E e \in ToSet(a) : e.key = key
  <2>1. AddressOf(a, key) = 0
      BY <1>2, AddressIs
  <2>2. AddressOf(b, key) = 0
      BY <1>2, AddressIs
  <2>. QED BY <2>1, <2>2
<1>. QED BY <1>1, <1>2

LEMMA PutNameFinds ==
  ASSUME NEW named \in NamedApis, Increasing(named), NEW new \in Entries, NEW key
  PROVE  AddressOf(PutName(named, new), key) = IF key = new.key THEN new.addr ELSE AddressOf(named, key)
<1>1. new.key \in Int
    BY TablesAssumption DEF Entries
<1>2. PICK k : k = LowerBound(named, new.key)
    OBVIOUS
<1>3. Between(named, k, new.key)
    BY <1>1, <1>2, BoundIsBetween
<1>4. PICK put : put = PutAt(named, k, new) /\ put = PutName(named, new)
    BY <1>2 DEF PutName
<1>5. put \in NamedApis /\ Increasing(put)
    BY <1>3, <1>4, PutKeepsOrder
<1>6. ToSet(put) = {e \in ToSet(named) : e.key # new.key} \cup {new}
    BY <1>3, <1>4, PutReplaces
<1>7. CASE key = new.key
  <2>1. new \in ToSet(put)
      BY <1>6
  <2>. QED BY <1>4, <1>5, <1>7, <2>1, AddressIs
<1>8. CASE key # new.key
  <2>1. \A e : e.key = key => (e \in ToSet(put) <=> e \in ToSet(named))
      BY <1>6, <1>8
  <2>. QED BY <1>4, <1>5, <1>8, <2>1, SameAddress
<1>. QED BY <1>7, <1>8

LEMMA RemovedFinds ==
  ASSUME NEW named \in NamedApis, Increasing(named), NEW k \in 1..Len(named), NEW key
  PROVE  AddressOf(RemoveAt(named, k), key) = IF key = named[k].key THEN 0 ELSE AddressOf(named, key)
<1>1. PICK L \in Nat : L = Len(named) /\ DOMAIN named = 1..L /\ k \in 1..L
    BY DEF NamedApis
<1>2. PICK rest : rest = RemoveAt(named, k)
    OBVIOUS
<1>3. rest \in NamedApis /\ Increasing(rest)
    BY <1>2, RemoveKeepsOrder
<1>4. /\ Len(rest) = L - 1 /\ \A i \in 1..k - 1 : rest[i] = named[i]
      /\ \A i \in k..L - 1 : rest[i] = named[i + 1]
  <2>1. named \in Seq(Entries)
      BY DEF NamedApis, Entries
  <2>. QED BY <1>1, <1>2, <2>1, Removed
<1>5. DOMAIN rest = 1..L - 1
    BY <1>3, <1>4 DEF NamedApis
<1>6. \A i \in 1..L : named[i].key \in Int
  <2>1. named \in Seq(Entries) /\ \A e \in Entries : e.key \in Int
      BY TablesAssumption DEF NamedApis, Entries
  <2>. QED BY <1>1, <2>1
<1>7. \A i \in 1..L : named[i].key = named[k].key => i = k
  <2>1. \A i, j \in 1..L : i < j => named[i].key < named[j].key
      BY <1>1 DEF Increasing
  <2>2. \A i \in 1..L : i < k \/ k < i \/ i = k
      BY <1>1
  <2>. QED BY <1>1, <1>6, <2>1, <2>2
<1>8. \A i \in 1..L - 1 : \E j \in 1..L : j # k /\ rest[i] = named[j]
  <2>1. \A i \in 1..L - 1 : i \in 1..k - 1 \/ (i \in k..L - 1 /\ i + 1 \in 1..L /\ i + 1 # k)
      BY <1>1
  <2>2. \A i \in 1..k - 1 : i \in 1..L /\ i # k
      BY <1>1
  <2>. QED BY <1>4, <2>1, <2>2
<1>9. \A j \in 1..L : j # k => \E i \in 1..L - 1 : rest[i] = named[j]
  <2>1. \A j \in 1..L : j # k => \/ j \in 1..k - 1 /\ j \in 1..L - 1
                                 \/ j - 1 \in k..L - 1 /\ j - 1 \in 1..L - 1 /\ (j - 1) + 1 = j
      BY <1>1
  <2>. QED BY <1>4, <2>1
<1>10. CASE key = named[k].key
  <2>1. \A e \in ToSet(rest) : e.key # key
      BY <1>1, <1>5, <1>7, <1>8, <1>10 DEF ToSet
  <2>. QED BY <1>2, <1>3, <1>10, <2>1, AddressIs
<1>11. CASE key # named[k].key
  <2>1. ASSUME NEW e, e.key = key PROVE e \in ToSet(rest) <=> e \in ToSet(named)
    <3>1. e \in ToSet(rest) <=> \E i \in 1..L - 1 : e = rest[i]
        BY <1>5 DEF ToSet
    <3>2. e \in ToSet(named) <=> \E j \in 1..L : e = named[j]
        BY <1>1 DEF ToSet
    <3>3. \A j \in 1..L : e = named[j] => j # k
        BY <1>11, <2>1
    <3>. QED BY <1>8, <1>9, <3>1, <3>2, <3>3
  <2>. QED BY <1>2, <1>3, <1>11, <2>1, SameAddress
<1>. QED BY <1>10, <1>11

LEMMA BoundIsFirst ==
  ASSUME NEW S, NEW src \in Seq(S), \A e \in S : e.key \in Int, Sorted(src),
         NEW key \in Int, NEW m \in DOMAIN src, src[m].key = key
  PROVE  LowerBound(src, key) = Min({k \in DOMAIN src : src[k].key = key})
<1>1. PICK L \in Nat : L = Len(src) /\ DOMAIN src = 1..L /\ \A k \in 1..L : src[k].key \in Int
    OBVIOUS
<1>2. PICK C : C = {k \in DOMAIN src : src[k].key = key}
    OBVIOUS
<1>3. C \in SUBSET Nat /\ C # {}
    BY <1>1, <1>2
<1>4. PICK c : c = Min(C) /\ c \in C /\ \A y \in C : c <= y
    BY <1>3, Minimum
<1>5. PICK b : b = LowerBound(src, key)
    OBVIOUS
<1>6. /\ b \in 1..L + 1 /\ \A j \in 1..b - 1 : src[j].key < key
      /\ b <= L => key <= src[b].key
  <2>1. 1 \in 1..Len(src) + 1
      BY <1>1
  <2>2. b = PlaceFrom(src, 1, key)
      BY <1>5 DEF LowerBound
  <2>. QED BY <1>1, <2>1, <2>2, Place
<1>7. c \in 1..L /\ src[c].key = key
    BY <1>1, <1>2, <1>4
<1>8. b <= c
  <2>1. ~(c \in 1..b - 1)
      BY <1>6, <1>7
  <2>. QED BY <1>6, <1>7, <2>1
<1>9. b \in C
  <2>1. b \in 1..L /\ key <= src[b].key
      BY <1>6, <1>7, <1>8
  <2>2. src[b].key <= src[c].key
    <3>1. b = c \/ b < c
        BY <1>7, <1>8, <2>1
    <3>. QED BY <1>1, <1>7, <2>1, <3>1 DEF Sorted
  <2>. QED BY <1>1, <1>2, <1>7, <2>1, <2>2
<1>10. b = c
  <2>1. b \in Int /\ c \in Int /\ c <= b
      BY <1>4, <1>6, <1>7, <1>9
  <2>. QED BY <1>8, <2>1
<1>. QED BY <1>2, <1>4, <1>5, <1>10

\* A line changes what is kept of its function, and of no other.
Puts(row, r, o, p, kind, key) ==
  KeptFor(r, kind, key) = IF kind = o.kind /\ key = o.key THEN p ELSE KeptFor(row, kind, key)

IsPut(tables, after, d, r) == after = [tables EXCEPT ![d] = r]
PutsInRow(tables, after, d, o, p, kind, key) ==
  /\ d \in 1..Len(tables)
  /\ \E r \in Rows : /\ IsPut(tables, after, d, r) /\ Puts(tables[d], r, o, p, kind, key)
                     /\ tables[d].unnamed # <<>> => r.unnamed # <<>>

LEMMA EraseRow ==
  ASSUME overridden \in Seq(Targets), NEW tables \in Fulls, NEW o, o.kind \in FunctionKinds,
         NEW d, CanErase(tables, o, d), NEW kind \in FunctionKinds, NEW key, Asked(kind, key)
  PROVE  PutsInRow(tables, EraseOne(tables, o, d), d, o, 0, kind, key)
<1>1. d \in 1..Len(tables)
    BY DEF CanErase, Fulls
<1>2. PICK row, named, unnamed : row = tables[d] /\ named = row.named /\ unnamed = row.unnamed
    OBVIOUS
<1>3. /\ row \in Rows /\ named \in NamedApis /\ Increasing(named) /\ unnamed \in Seq(Dword)
      /\ row = [named |-> named, unnamed |-> unnamed]
    BY <1>1, <1>2, RowOf, RowHas
<1>4. CASE o.kind = "name"
  <2>1. PICK k : k = LowerBound(named, o.key)
      OBVIOUS
  <2>2. k \in DOMAIN named /\ named[k].key = o.key
      BY <1>2, <1>4, <2>1 DEF CanErase, IsAt
  <2>3. k \in 1..Len(named)
      BY <1>3, <2>2 DEF NamedApis
  <2>4. PICK n : n = RemoveAt(named, k)
      OBVIOUS
  <2>5. n \in NamedApis /\ Increasing(n)
      BY <1>3, <2>3, <2>4, RemoveKeepsOrder
  <2>6. PICK r : r = [named |-> n, unnamed |-> unnamed]
      OBVIOUS
  <2>7. r \in Rows
      BY <1>3, <2>5, <2>6, RowIs
  <2>8. r = [tables[d] EXCEPT !.named = n]
      BY <1>2, <1>3, <2>6
  <2>9. EraseOne(tables, o, d) = [tables EXCEPT ![d] = r]
      BY <1>2, <1>4, <2>1, <2>4, <2>8 DEF EraseOne
  <2>10. AddressOf(n, key) = IF key = o.key THEN 0 ELSE AddressOf(named, key)
      BY <1>3, <2>2, <2>3, <2>4, RemovedFinds
  <2>11. Puts(row, r, o, 0, kind, key)
      BY <1>2, <1>4, <2>6, <2>10 DEF Puts, KeptFor
  <2>. QED BY <1>1, <1>2, <2>6, <2>7, <2>9, <2>11 DEF PutsInRow, IsPut
<1>5. CASE o.kind # "name"
  <2>1. o.key \in DOMAIN unnamed
      BY <1>2, <1>5 DEF CanErase
  <2>2. PICK u : u = [unnamed EXCEPT ![o.key] = 0]
      OBVIOUS
  <2>3. u \in Seq(Dword) /\ Len(u) = Len(unnamed) /\ o.key \in 1..Len(unnamed)
    <3>1. 0 \in Dword
        BY ZeroIsDword
    <3>. QED BY <1>3, <2>1, <2>2, <3>1
  <2>4. PICK r : r = [named |-> named, unnamed |-> u]
      OBVIOUS
  <2>5. r \in Rows
      BY <1>3, <2>3, <2>4, RowIs
  <2>6. r = [tables[d] EXCEPT !.unnamed = u]
      BY <1>2, <1>3, <2>4
  <2>7. EraseOne(tables, o, d) = [tables EXCEPT ![d] = r]
      BY <1>2, <1>5, <2>2, <2>6 DEF EraseOne
  <2>8. kind # "name" => GetOrdinal(u, key) = IF key = o.key THEN 0 ELSE GetOrdinal(unnamed, key)
    <3>1. SUFFICES ASSUME kind # "name"
                   PROVE  GetOrdinal(u, key) = IF key = o.key THEN 0 ELSE GetOrdinal(unnamed, key)
        OBVIOUS
    <3>2. key \in Nat \ {0}
        BY <3>1 DEF Asked
    <3>3. PICK U \in Nat : U = Len(unnamed) /\ DOMAIN unnamed = 1..U
        BY <1>3
    <3>4. key > U <=> key \notin 1..U
        BY <3>2
    <3>. QED BY <2>1, <2>2, <2>3, <3>3, <3>4 DEF GetOrdinal
  <2>9. Puts(row, r, o, 0, kind, key)
    <3>1. kind = "name" \/ kind = o.kind
        BY <1>5 DEF FunctionKinds
    <3>. QED BY <1>2, <1>5, <2>4, <2>8, <3>1 DEF Puts, KeptFor
  <2>10. unnamed # <<>> => u # <<>>
      BY <1>3, <2>3
  <2>. QED BY <1>1, <1>2, <2>4, <2>5, <2>7, <2>9, <2>10 DEF PutsInRow, IsPut
<1>. QED BY <1>4, <1>5

LEMMA MergeOneRow ==
  ASSUME overridden \in Seq(Targets), apilibs \in Seq(Libs \cup {STD}), NEW tables \in Fulls,
         NEW o, o.kind \in FunctionKinds, CanMerge(o), NEW d \in 1..Len(overridden),
         NEW kind \in FunctionKinds, NEW key, Asked(kind, key),
         NEW all, all = Grown(tables, d), NEW addr, addr = Encoded(SourceOf(o)[PlaceIn(o)].addr, o.lib)
  PROVE  all \in Fulls /\ PutsInRow(all, MergeOne(tables, o, d), d, o, addr, kind, key)
<1>2. all \in Fulls /\ d \in 1..Len(all)
  <2>1. d \in 0..Len(overridden)
      OBVIOUS
  <2>2. all \in Fulls /\ d <= Len(all)
      BY <2>1, GrownFull
  <2>. QED BY <2>2 DEF Fulls
<1>5. addr \in Dword
    BY SourceTypes, EncodedIsDword
<1>6. PICK row, named, unnamed : row = all[d] /\ named = row.named /\ unnamed = row.unnamed
    OBVIOUS
<1>7. /\ row \in Rows /\ named \in NamedApis /\ Increasing(named) /\ unnamed \in Seq(Dword)
      /\ row = [named |-> named, unnamed |-> unnamed]
    BY <1>2, <1>6, RowOf, RowHas
<1>8. CASE o.kind = "name"
  <2>1. PICK new : new = [key |-> o.key, addr |-> addr]
      OBVIOUS
  <2>2. new \in Entries /\ new.key = o.key /\ new.addr = addr /\ o.key \in Int
      BY <1>5, <1>8, <2>1, SourceTypes, TablesAssumption DEF Entries
  <2>3. PICK n : n = PutName(named, new)
      OBVIOUS
  <2>4. n \in NamedApis /\ Increasing(n)
    <3>1. PICK k : k = LowerBound(named, new.key)
        OBVIOUS
    <3>2. Between(named, k, new.key)
        BY <1>7, <2>2, <3>1, BoundIsBetween
    <3>3. n = PutAt(named, k, new)
        BY <2>3, <3>1 DEF PutName
    <3>. QED BY <1>7, <2>2, <3>2, <3>3, PutKeepsOrder
  <2>5. PICK r : r = [named |-> n, unnamed |-> unnamed]
      OBVIOUS
  <2>6. r \in Rows
      BY <1>7, <2>4, <2>5, RowIs
  <2>7. r = [all[d] EXCEPT !.named = n]
      BY <1>6, <1>7, <2>5
  <2>8. MergeOne(tables, o, d) = [all EXCEPT ![d] = r]
      BY <1>6, <1>8, <2>1, <2>3, <2>7 DEF MergeOne
  <2>9. AddressOf(n, key) = IF key = o.key THEN addr ELSE AddressOf(named, key)
      BY <1>7, <2>2, <2>3, PutNameFinds
  <2>10. Puts(row, r, o, addr, kind, key)
      BY <1>6, <1>8, <2>5, <2>9 DEF Puts, KeptFor
  <2>. QED BY <1>2, <1>6, <2>5, <2>6, <2>8, <2>10 DEF PutsInRow, IsPut
<1>9. CASE o.kind # "name"
  <2>1. o.key \in Nat \ {0}
      BY <1>9, SourceTypes
  <2>2. PICK g : g = GrownOrdinals(unnamed, o.key)
      OBVIOUS
  <2>3. /\ g \in Seq(Dword) /\ Len(unnamed) <= Len(g) /\ o.key <= Len(g)
        /\ \A p \in 1..Len(g) : g[p] = IF p <= Len(unnamed) THEN unnamed[p] ELSE 0
      BY <1>7, <2>1, <2>2, GrownOrdinalsTypes
  <2>4. PICK u : u = [g EXCEPT ![o.key] = addr]
      OBVIOUS
  <2>5. u \in Seq(Dword) /\ Len(u) = Len(g) /\ o.key \in 1..Len(g)
    <3>1. o.key \in DOMAIN g
        BY <2>1, <2>3
    <3>. QED BY <1>5, <2>3, <2>4, <3>1
  <2>6. PICK r : r = [named |-> named, unnamed |-> u]
      OBVIOUS
  <2>7. r \in Rows
      BY <1>7, <2>5, <2>6, RowIs
  <2>8. r = [all[d] EXCEPT !.unnamed = u]
      BY <1>6, <1>7, <2>6
  <2>9. MergeOne(tables, o, d) = [all EXCEPT ![d] = r]
      BY <1>6, <1>9, <2>2, <2>4, <2>8 DEF MergeOne
  <2>10. kind # "name" => GetOrdinal(u, key) = IF key = o.key THEN addr ELSE GetOrdinal(unnamed, key)
    <3>1. SUFFICES ASSUME kind # "name"
                   PROVE  GetOrdinal(u, key) = IF key = o.key THEN addr ELSE GetOrdinal(unnamed, key)
        OBVIOUS
    <3>2. key \in Nat \ {0}
        BY <3>1 DEF Asked
    <3>3. PICK U, G \in Nat : U = Len(unnamed) /\ G = Len(g) /\ U <= G /\ DOMAIN g = 1..G
        BY <1>7, <2>3
    <3>4. CASE key > G
      <4>1. key > U /\ key # o.key
          BY <2>5, <3>2, <3>3, <3>4
      <4>. QED BY <2>5, <3>3, <3>4, <4>1 DEF GetOrdinal
    <3>5. CASE ~(key > G)
      <4>1. key \in 1..G /\ (key <= U <=> ~(key > U))
          BY <3>2, <3>3, <3>5
      <4>2. g[key] = GetOrdinal(unnamed, key)
          BY <2>3, <3>3, <4>1 DEF GetOrdinal
      <4>3. u[key] = IF key = o.key THEN addr ELSE g[key]
          BY <2>4, <3>3, <4>1
      <4>. QED BY <2>5, <3>3, <3>5, <4>2, <4>3 DEF GetOrdinal
    <3>. QED BY <3>4, <3>5
  <2>11. Puts(row, r, o, addr, kind, key)
    <3>1. kind = "name" \/ kind = o.kind
        BY <1>9 DEF FunctionKinds
    <3>. QED BY <1>6, <1>9, <2>6, <2>10, <3>1 DEF Puts, KeptFor
  <2>12. u # <<>>
      BY <2>5
  <2>. QED BY <1>2, <1>6, <2>6, <2>7, <2>9, <2>11, <2>12 DEF PutsInRow, IsPut
<1>. QED BY <1>8, <1>9

-----------------------------------------------------------------------------
(* What the lines of a section make of the tables *)

LEMMA NothingKept ==
  ASSUME NEW kind, NEW t, NEW key
  PROVE  KeptAs(0, Nowhere, kind, t, key)
<1>1. KindOf(0) = "none"
    BY DEF KindOf
<1>. QED BY <1>1 DEF KeptAs, Known, AnswersAs, Reaches, decode_address

\* What a line puts into a table leads to the function that it names.
LEMMA LineKept ==
  ASSUME Libraries, overridden \in Seq(Targets), NEW o, o.kind \in FunctionKinds, o.id \in Nat,
         CanMerge(o)
  PROVE  /\ Asked(o.kind, o.key)
         /\ KeptAs(Encoded(SourceOf(o)[PlaceIn(o)].addr, o.lib),
                   FunctionOf(o.lib, o.kind, o.target, o.key, o.id), o.kind, o.target, o.key)
<1>1. PICK lib, t, kind, key : lib = o.lib /\ t = o.target /\ kind = o.kind /\ key = o.key
    OBVIOUS
<1>2. lib \in ToSet(apilibs) /\ lib \in Libs \cup {STD} /\ Overrides(lib, t)
      /\ IF kind = "name" THEN key \in Names ELSE key \in Nat \ {0}
  <2>1. apilibs \in Seq(Libs \cup {STD})
      BY DEF Libraries
  <2>. QED BY <1>1, <2>1, SourceTypes DEF CanMerge
<1>3. Asked(kind, key) /\ key \in Int
    BY <1>1, <1>2, TablesAssumption DEF Asked, FunctionKinds
<1>4. PICK src, m : src = SourceFor(lib, kind, t) /\ m = PlaceIn(o)
    OBVIOUS
<1>5. SourceOf(o) = src
    BY <1>1, <1>4 DEF SourceOf, SourceFor
<1>6. m \in DOMAIN src /\ src[m].key = key
    BY <1>1, <1>4, <1>5 DEF CanMerge, IsAt
<1>7. PICK places : places = PlacesOf(lib, kind, t, key)
    OBVIOUS
<1>8. places = {k \in DOMAIN src : src[k].key = key}
  <2>1. PlacesOf(lib, kind, t, key) =
          {k \in DOMAIN SourceFor(lib, kind, t) : SourceFor(lib, kind, t)[k].key = key}
      BY <1>2, <1>3, SourceHas
  <2>. QED BY <1>4, <1>7, <2>1
<1>9. LowerBound(src, key) = Min(places)
  <2>1. /\ DOMAIN src = 1..Len(src) /\ Len(src) \in Nat
        /\ \A k \in 1..Len(src) : src[k].key \in Int
        /\ Sorted(src)
      BY <1>2, <1>4, SourceForTypes
  <2>2. \E S : src \in Seq(S) /\ \A e \in S : e.key \in Int
    <3>1. PICK table : table = TableFor(lib, t)
        OBVIOUS
    <3>2. table.named \in NamedApis /\ table.ordinals \in OrdinalApis
        BY <1>2, <3>1, TableTypes
    <3>3. CASE kind = "name"
      <4>1. src \in Seq(Entries)
          BY <1>4, <3>1, <3>2, <3>3 DEF SourceFor, NamedApis, Entries
      <4>2. \A e \in Entries : e.key \in Int
          BY TablesAssumption DEF Entries
      <4>. QED BY <4>1, <4>2
    <3>4. CASE kind # "name"
      <4>1. PICK E : E = [key : Nat \ {0}, addr : Dword]
          OBVIOUS
      <4>2. src \in Seq(E)
          BY <1>4, <3>1, <3>2, <3>4, <4>1 DEF SourceFor, OrdinalApis
      <4>3. \A e \in E : e.key \in Int
          BY <4>1
      <4>. QED BY <4>2, <4>3
    <3>. QED BY <3>3, <3>4
  <2>3. PICK S : src \in Seq(S) /\ \A e \in S : e.key \in Int
      BY <2>2
  <2>. QED BY <1>3, <1>6, <1>8, <2>1, <2>3, BoundIsFirst
<1>10. m = Min(places) + o.id /\ m \in places
    BY <1>1, <1>4, <1>5, <1>6, <1>8, <1>9 DEF PlaceIn
<1>11. KeptAs(Encoded(src[m].addr, lib), FunctionOf(lib, kind, t, key, o.id), kind, t, key)
    BY <1>1, <1>2, <1>3, <1>4, <1>7, <1>10, PlaceKept
<1>. QED BY <1>1, <1>3, <1>4, <1>5, <1>11

IsOf(o, kind, t, key) == o.kind = kind /\ o.target = t /\ o.key = key

\* Of DLL i, the line's function is what the line says, and the others are as before.
AfterLine(tables, after, o, i, t, kind, key) ==
  LET kept == KeptFor(TableOf(after, i), kind, key)
  IN  IF IsOf(o, kind, t, key) THEN KeptAs(kept, LineSays(o, kind, t, key), kind, t, key)
      ELSE kept = KeptFor(TableOf(tables, i), kind, key)
StaysWhole(tables, after, targets, i, t) ==
  /\ TableOf(tables, i).unnamed # <<>> => TableOf(after, i).unnamed # <<>>
  /\ t \notin targets => TableOf(after, i) = TableOf(tables, i)

LEMMA TablePut ==
  ASSUME NEW tables \in Fulls, NEW d \in 1..Len(tables), NEW r \in Rows, NEW i \in Nat \ {0},
         NEW after, IsPut(tables, after, d, r)
  PROVE  TableOf(after, i) = IF i = d THEN r ELSE TableOf(tables, i)
<1>1. DOMAIN tables = 1..Len(tables) /\ after = [tables EXCEPT ![d] = r]
    BY DEF Fulls, IsPut
<1>. QED BY <1>1 DEF TableOf

LEMMA OverrideKept ==
  ASSUME Libraries, overridden \in Seq(Targets), IsInjective(overridden), NEW tables \in Fulls,
         NEW o, o.kind \in FunctionKinds, o.id \in Nat, Override(tables, o) # Failed,
         NEW i \in 1..Len(overridden), NEW t, t = overridden[i],
         NEW kind \in FunctionKinds, NEW key, Asked(kind, key)
  PROVE  /\ AfterLine(tables, Override(tables, o), o, i, t, kind, key)
         /\ StaysWhole(tables, Override(tables, o), {o.target}, i, t)
<1>0. apilibs \in Seq(Libs \cup {STD})
    BY DEF Libraries
<1>1. PICK I : I = {k \in 1..Len(overridden) : overridden[k] = o.target}
    OBVIOUS
<1>2. PICK d : d = SelectInSeq(overridden, LAMBDA m : m = o.target)
    OBVIOUS
<1>3. d = IF I # {} THEN Min(I) ELSE 0
    BY <1>1, <1>2 DEF SelectInSeq
<1>4. I # {} => Min(I) \in I
  <2>1. I \in SUBSET Nat
      BY <1>1
  <2>. QED BY <2>1, Minimum
<1>5. PICK after : after = Override(tables, o)
    OBVIOUS
<1>6. after =
        IF tables = Failed \/ d = 0 THEN Failed
        ELSE IF o.lib = None
          THEN IF CanErase(tables, o, d) THEN EraseOne(tables, o, d) ELSE Failed
        ELSE IF CanMerge(o) THEN MergeOne(tables, o, d) ELSE Failed
    BY <1>2, <1>5 DEF Override
<1>7. d # 0 /\ d \in 1..Len(overridden) /\ overridden[d] = o.target
  <2>1. d # 0
      BY <1>5, <1>6
  <2>. QED BY <1>1, <1>3, <1>4, <2>1
<1>8. i \in Nat \ {0} /\ (i = d <=> t = o.target)
  <2>1. DOMAIN overridden = 1..Len(overridden)
      OBVIOUS
  <2>. QED BY <1>7, <2>1 DEF IsInjective
<1>9. IF o.lib = None THEN CanErase(tables, o, d) /\ after = EraseOne(tables, o, d)
      ELSE CanMerge(o) /\ after = MergeOne(tables, o, d)
    BY <1>5, <1>6
<1>10. CASE o.lib = None
  <2>1. CanErase(tables, o, d) /\ after = EraseOne(tables, o, d)
      BY <1>9, <1>10
  <2>2. PICK r \in Rows : /\ IsPut(tables, after, d, r)
                          /\ d \in 1..Len(tables)
                          /\ Puts(tables[d], r, o, 0, kind, key)
                          /\ tables[d].unnamed # <<>> => r.unnamed # <<>>
    <3>1. PutsInRow(tables, EraseOne(tables, o, d), d, o, 0, kind, key)
        BY <2>1, EraseRow
    <3>2. PutsInRow(tables, after, d, o, 0, kind, key)
        BY <2>1, <3>1
    <3>. QED BY <3>2 DEF PutsInRow
  <2>3. TableOf(after, i) = IF i = d THEN r ELSE TableOf(tables, i)
      BY <1>8, <2>2, TablePut
  <2>4. TableOf(tables, d) = tables[d]
      BY <2>2 DEF TableOf, Fulls
  <2>5. LineSays(o, kind, t, key) = Nowhere /\ KeptAs(0, Nowhere, kind, t, key)
      BY <1>10, NothingKept DEF LineSays
  <2>6. AfterLine(tables, after, o, i, t, kind, key)
      BY <1>8, <2>2, <2>3, <2>4, <2>5 DEF AfterLine, IsOf, Puts
  <2>7. StaysWhole(tables, after, {o.target}, i, t)
      BY <1>8, <2>2, <2>3, <2>4 DEF StaysWhole
  <2>. QED BY <1>5, <2>6, <2>7
<1>11. CASE o.lib # None
  <2>1. CanMerge(o) /\ after = MergeOne(tables, o, d)
      BY <1>9, <1>11
  <2>2. PICK all, addr : all = Grown(tables, d) /\ addr = Encoded(SourceOf(o)[PlaceIn(o)].addr, o.lib)
      OBVIOUS
  <2>3. PICK r \in Rows : /\ all \in Fulls /\ d \in 1..Len(all) /\ IsPut(all, after, d, r)
                          /\ Puts(all[d], r, o, addr, kind, key)
                          /\ all[d].unnamed # <<>> => r.unnamed # <<>>
    <3>1. all \in Fulls /\ PutsInRow(all, MergeOne(tables, o, d), d, o, addr, kind, key)
        BY <1>0, <1>7, <2>1, <2>2, MergeOneRow
    <3>2. PutsInRow(all, after, d, o, addr, kind, key)
        BY <2>1, <3>1
    <3>. QED BY <3>1, <3>2 DEF PutsInRow
  <2>4. TableOf(after, i) = IF i = d THEN r ELSE TableOf(all, i)
      BY <1>8, <2>3, TablePut
  <2>5. TableOf(all, i) = TableOf(tables, i)
    <3>1. d \in 0..Len(overridden)
        BY <1>7
    <3>. QED BY <1>8, <2>2, <3>1, GrownTable
  <2>6. TableOf(all, d) = all[d]
      BY <2>3 DEF TableOf, Fulls
  <2>7. IsOf(o, kind, t, key) => KeptAs(addr, LineSays(o, kind, t, key), kind, t, key)
    <3>1. KeptAs(addr, FunctionOf(o.lib, o.kind, o.target, o.key, o.id), o.kind, o.target, o.key)
        BY <2>1, <2>2, LineKept
    <3>. QED BY <1>11, <3>1 DEF IsOf, LineSays
  <2>8. AfterLine(tables, after, o, i, t, kind, key)
      BY <1>8, <2>3, <2>4, <2>5, <2>6, <2>7 DEF AfterLine, IsOf, Puts
  <2>9. StaysWhole(tables, after, {o.target}, i, t)
      BY <1>8, <2>3, <2>4, <2>5, <2>6 DEF StaysWhole
  <2>. QED BY <1>5, <2>8, <2>9
<1>. QED BY <1>10, <1>11

\* The last of n lines for a function is what it is, and the functions of DLLs that
\* no line is for are as before.
SayOf(lines, n, kind, t, key) == {j \in 1..n : IsOf(lines[j], kind, t, key)}
TargetsUpTo(lines, n) == {lines[j].target : j \in 1..n}
AfterLines(tables, after, lines, n, i, t, kind, key) ==
  LET kept == KeptFor(TableOf(after, i), kind, key)
      say  == SayOf(lines, n, kind, t, key)
  IN  IF say # {} THEN KeptAs(kept, LineSays(lines[Max(say)], kind, t, key), kind, t, key)
      ELSE kept = KeptFor(TableOf(tables, i), kind, key)

\* parse_overrides.
LEMMA OverridingKept ==
  ASSUME Libraries, overridden \in Seq(Targets), IsInjective(overridden), NEW tables \in Fulls,
         NEW lines, lines \in Seq(ToSet(lines)),
         \A o \in ToSet(lines) : o.kind \in FunctionKinds /\ o.id \in Nat,
         Overriding(tables, lines) # Failed,
         NEW i \in 1..Len(overridden), NEW t, t = overridden[i],
         NEW kind \in FunctionKinds, NEW key, Asked(kind, key)
  PROVE  /\ AfterLines(tables, Overriding(tables, lines), lines, Len(lines), i, t, kind, key)
         /\ StaysWhole(tables, Overriding(tables, lines), TargetsUpTo(lines, Len(lines)), i, t)
<1>0. apilibs \in Seq(Libs \cup {STD})
    BY DEF Libraries
<1>1. PICK L \in Nat : L = Len(lines) /\ \A k \in 1..L : lines[k] \in ToSet(lines)
    OBVIOUS
<1>2. PICK f : /\ f[0] = tables /\ f[L] = Overriding(tables, lines)
               /\ \A k \in 1..L : f[k] = Override(f[k - 1], lines[k])
               /\ \A k \in 0..L : f[k] \in Fulls \cup {Failed}
    BY <1>0, <1>1, OverridingIs
<1> DEFINE Say(n) == SayOf(lines, n, kind, t, key)
           Holds(n) == f[n] # Failed =>
                         /\ AfterLines(tables, f[n], lines, n, i, t, kind, key)
                         /\ StaysWhole(tables, f[n], TargetsUpTo(lines, n), i, t)
           N == {n \in 0..L : Holds(n)}
<1>3. Say(0) = {}
    BY DEF SayOf
<1>4. 0 \in N
    BY <1>2, <1>3, 0 \in 0..L DEF AfterLines, StaysWhole
<1>5. ASSUME NEW n \in 0..L-1, Holds(n) PROVE Holds(n + 1)
  <2>1. n + 1 \in 1..L /\ (n + 1) - 1 = n /\ n \in 0..L /\ n \in Nat
      OBVIOUS
  <2>2. PICK o : o = lines[n + 1] /\ o.kind \in FunctionKinds /\ o.id \in Nat
      BY <1>1, <2>1
  <2>3. SUFFICES ASSUME f[n + 1] # Failed
                 PROVE  /\ AfterLines(tables, f[n + 1], lines, n + 1, i, t, kind, key)
                        /\ StaysWhole(tables, f[n + 1], TargetsUpTo(lines, n + 1), i, t)
      OBVIOUS
  <2>4. f[n + 1] = Override(f[n], o) /\ f[n] # Failed /\ f[n] \in Fulls
    <3>1. f[n + 1] = Override(f[n], o)
        BY <1>2, <2>1, <2>2
    <3>2. f[n] # Failed
        BY <2>3, <3>1 DEF Override
    <3>. QED BY <1>2, <2>1, <3>1, <3>2
  <2>5. AfterLine(f[n], f[n + 1], o, i, t, kind, key) /\ StaysWhole(f[n], f[n + 1], {o.target}, i, t)
      BY <2>2, <2>3, <2>4, OverrideKept
  <2>6. /\ \A j \in 1..n + 1 : j = n + 1 \/ j \in 1..n
        /\ \A j \in 1..n : j \in 1..n + 1
        /\ n + 1 \in 1..n + 1
      BY <2>1
  <2>7. StaysWhole(tables, f[n + 1], TargetsUpTo(lines, n + 1), i, t)
    <3>1. TargetsUpTo(lines, n + 1) = TargetsUpTo(lines, n) \cup {o.target}
        BY <2>2, <2>6 DEF TargetsUpTo
    <3>2. StaysWhole(tables, f[n], TargetsUpTo(lines, n), i, t)
        BY <1>5, <2>4
    <3>. QED BY <2>5, <3>1, <3>2 DEF StaysWhole
  <2>8. AfterLines(tables, f[n], lines, n, i, t, kind, key)
      BY <1>5, <2>4
  <2>9. CASE IsOf(o, kind, t, key)
    <3>1. n + 1 \in Say(n + 1) /\ Say(n + 1) \in SUBSET (1..n + 1)
        BY <2>2, <2>6, <2>9 DEF SayOf
    <3>2. Max(Say(n + 1)) = n + 1
        BY <2>1, <3>1, NextIsLast
    <3>. QED BY <2>2, <2>5, <2>7, <2>9, <3>1, <3>2 DEF AfterLine, AfterLines
  <2>10. CASE ~IsOf(o, kind, t, key)
    <3>1. Say(n + 1) = Say(n)
        BY <2>2, <2>6, <2>10 DEF SayOf
    <3>. QED BY <2>5, <2>7, <2>8, <2>10, <3>1 DEF AfterLine, AfterLines
  <2>. QED BY <2>9, <2>10
<1>6. PICK M : M = N
    OBVIOUS
<1>7. 0 \in M /\ \A n \in 0..L-1 : n \in M => n + 1 \in M
  <2>1. \A n \in 0..L-1 : n + 1 \in 0..L
      OBVIOUS
  <2> HIDE DEF Holds
  <2>. QED BY <1>4, <1>5, <1>6, <2>1
<1>8. L \in M
  <2> HIDE DEF N, Holds, Say
  <2>1. \A n \in 0..L : n \in M
      BY <1>7, UpTo
  <2>. QED BY <2>1, L \in 0..L
<1>9. Holds(L)
    BY <1>6, <1>8
<1>. QED BY <1>1, <1>2, <1>9

-----------------------------------------------------------------------------
(* Tables that are as core.ini says *)

\* The table of a DLL is empty, or everything that can be asked for is kept in it.
RowHolds(row, sections, n, t) ==
  IF row.unnamed = <<>> THEN row = EmptyTable /\ t \notin DllsOf(sections)[n]
  ELSE \A kind \in FunctionKinds : \A key : Asked(kind, key) =>
         KeptAs(KeptFor(row, kind, key), Said(sections, n, kind, t, key), kind, t, key)

TablesHold(tables, n) ==
  /\ DllsOf(ini.sections)[n] \subseteq ToSet(overridden)
  /\ \A i \in 1..Len(overridden) : RowHolds(TableOf(tables, i), ini.sections, n, overridden[i])

\* What a section begins with: the tables of the one that it inherits, or empty ones.
RowInherited(row, sections, n, t) ==
  IF UpsOf(sections, n) = {} THEN row = EmptyTable
  ELSE RowHolds(row, sections, Max(UpsOf(sections, n)), t)

LEMMA EmptyKeeps ==
  ASSUME NEW kind \in FunctionKinds, NEW key, Asked(kind, key)
  PROVE  EmptyTable.unnamed = <<>> /\ KeptFor(EmptyTable, kind, key) = 0
<1>1. EmptyTable.unnamed = <<>> /\ EmptyTable.named = <<>>
    BY DEF EmptyTable
<1>2. AddressOf(<<>>, key) = 0
    BY DEF AddressOf
<1>3. kind # "name" => GetOrdinal(<<>>, key) = 0
  <2>1. kind # "name" => key \in Nat /\ key > 0
      BY DEF Asked
  <2>. QED BY <2>1 DEF GetOrdinal
<1>. QED BY <1>1, <1>2, <1>3 DEF KeptFor

LEMMA UpIsOne ==
  ASSUME NEW i \in Inis, NEW n \in 1..Len(i.sections), UpsOf(i.sections, n) # {}
  PROVE  /\ Max(UpsOf(i.sections, n)) \in 1..n-1 /\ Max(UpsOf(i.sections, n)) \in 1..Len(i.sections)
         /\ i.sections[Max(UpsOf(i.sections, n))].name = i.sections[n].inherit
         /\ \A up \in UpsOf(i.sections, n) : up = Max(UpsOf(i.sections, n))
         /\ Max(UpsOf(i.sections, n)) \in UpsOf(i.sections, n)
<1>1. PICK S : S = i.sections
    OBVIOUS
<1>2. PICK L \in Nat : /\ L = Len(S) /\ n \in 1..L
                       /\ \A j, k \in 1..L : S[j].name = S[k].name => j = k
    BY <1>1, SectionsAre
<1>3. n \in Nat \ {0}
    BY <1>2
<1>4. PICK up : up = Max(UpsOf(S, n)) /\ up \in 1..n-1 /\ S[up].name = S[n].inherit
    BY <1>1, <1>3, UpIsBefore
<1>5. \A m \in 1..n-1 : m \in 1..L
    BY <1>2
<1>6. \A m \in UpsOf(S, n) : m \in 1..n-1 /\ S[m].name = S[n].inherit
    BY DEF UpsOf
<1>7. \A m \in UpsOf(S, n) : m = up
    BY <1>2, <1>4, <1>5, <1>6
<1>8. up \in UpsOf(S, n)
    BY <1>4 DEF UpsOf
<1>. QED BY <1>1, <1>2, <1>4, <1>5, <1>7, <1>8

\* Which DLLs a section has whole: those of the one that it inherits and, if it joins
\* STD, those of its libraries.
DllsFrom(sections, n, D, sec, own) ==
  /\ own \subseteq D[n] /\ \A o \in ToSet(sec.overrides) : o.target \in D[n]
  /\ \A t \in D[n] : \/ UpsOf(sections, n) # {} /\ t \in D[Max(UpsOf(sections, n))]
                     \/ STD \in ToSet(sec.contents) /\ t \in own

LEMMA DllsAre ==
  ASSUME NEW i \in Inis, NEW n \in 1..Len(i.sections), NEW D, D = DllsOf(i.sections),
         NEW sec, sec = i.sections[n], NEW own, own = ToSet(TargetsOf(sec.contents))
  PROVE  DllsFrom(i.sections, n, D, sec, own)
<1>1. PICK S : S = i.sections
    OBVIOUS
<1>2. /\ DOMAIN S = 1..Len(S) /\ JoinsStd(S, D)
    BY <1>1, SectionsAre
<1>3. n \in DOMAIN S /\ sec = S[n]
    BY <1>1, <1>2
<1>4. /\ ToSet(TargetsOf(S[n].contents)) \cup {o.target : o \in ToSet(S[n].overrides)} \subseteq D[n]
      /\ D[n] = (IF STD \in ToSet(S[n].contents) THEN ToSet(TargetsOf(S[n].contents)) ELSE {})
                  \cup UNION {D[up] : up \in UpsOf(S, n)}
    BY <1>2, <1>3, Zenon DEF JoinsStd, UpsOf
<1>5. ToSet(TargetsOf(S[n].contents)) \subseteq D[n] /\ \A o \in ToSet(S[n].overrides) : o.target \in D[n]
    BY <1>4
<1>6. own \subseteq D[n] /\ \A o \in ToSet(sec.overrides) : o.target \in D[n]
    BY <1>3, <1>5, Zenon
<1>7. \A t \in D[n] : \/ \E up \in UpsOf(S, n) : t \in D[up]
                      \/ STD \in ToSet(S[n].contents) /\ t \in ToSet(TargetsOf(S[n].contents))
  <2>1. PICK c, f : c = ToSet(S[n].contents) /\ f = ToSet(TargetsOf(S[n].contents))
      OBVIOUS
  <2>2. D[n] = (IF STD \in c THEN f ELSE {}) \cup UNION {D[up] : up \in UpsOf(S, n)}
      BY <1>4, <2>1, Zenon
  <2>3. \A t \in D[n] : (\E up \in UpsOf(S, n) : t \in D[up]) \/ (STD \in c /\ t \in f)
      BY <2>2
  <2>. QED BY <2>1, <2>3, Zenon
<1>8. \A up \in UpsOf(S, n) : UpsOf(S, n) # {} /\ up = Max(UpsOf(S, n))
    BY <1>1, UpIsOne
<1>9. DllsFrom(S, n, D, sec, own)
    BY <1>3, <1>6, <1>7, <1>8, Zenon DEF DllsFrom
<1>. QED BY <1>1, <1>9

\* Of what no table is inherited, the DLL's own functions are all that is said.
LEMMA EmptyInherited ==
  ASSUME ini \in Inis, NEW n \in 1..Len(ini.sections), NEW row, NEW t,
         RowInherited(row, ini.sections, n, t), row.unnamed = <<>>
  PROVE  /\ row = EmptyTable
         /\ UpsOf(ini.sections, n) # {} =>
              LET up == Max(UpsOf(ini.sections, n))
              IN  /\ t \notin DllsOf(ini.sections)[up]
                  /\ \A kind, key : Said(ini.sections, up, kind, t, key) = FunctionOf(STD, kind, t, key, 0)
<1>1. CASE UpsOf(ini.sections, n) = {}
    BY <1>1 DEF RowInherited
<1>2. CASE UpsOf(ini.sections, n) # {}
  <2>1. PICK up : up = Max(UpsOf(ini.sections, n)) /\ up \in 1..Len(ini.sections)
      BY <1>2, UpIsOne
  <2>2. row = EmptyTable /\ t \notin DllsOf(ini.sections)[up]
      BY <1>2, <2>1 DEF RowInherited, RowHolds
  <2>3. \A kind, key : Said(ini.sections, up, kind, t, key) = FunctionOf(STD, kind, t, key, 0)
      BY <2>1, <2>2, SaidOfOthers
  <2>. QED BY <2>1, <2>2, <2>3
<1>. QED BY <1>1, <1>2

\* What MakeTables finds.
Making(begun, n) ==
  /\ Libraries /\ overridden \in Seq(Targets) /\ IsInjective(overridden) /\ begun \in Fulls
  /\ ini \in Inis /\ n \in 1..Len(ini.sections)
  /\ ToSet(ini.sections[n].contents) \subseteq ToSet(apilibs)
  /\ ToSet(TargetsOf(ini.sections[n].contents)) \subseteq ToSet(overridden)
  /\ UpsOf(ini.sections, n) # {} =>
       DllsOf(ini.sections)[Max(UpsOf(ini.sections, n))] \subseteq ToSet(overridden)
  /\ \A i \in 1..Len(overridden) : RowInherited(TableOf(begun, i), ini.sections, n, overridden[i])
Made(begun, n) ==
  Overriding(MergeLibs(begun, ini.sections[n].contents), ini.sections[n].overrides)

\* The section's own part in a table: after its libraries and its lines.
LEMMA SectionMakes ==
  ASSUME NEW begun, NEW n, Making(begun, n), NEW sec, sec = ini.sections[n],
         Made(begun, n) # Failed, NEW i \in 1..Len(overridden), NEW t, t = overridden[i]
  PROVE  \E merged :
         /\ merged \in Fulls
         /\ TableOf(begun, i).unnamed # <<>> \/ STD \in ToSet(sec.contents) =>
              TableOf(merged, i).unnamed # <<>>
         /\ (\A lib \in ToSet(sec.contents) : ~Overrides(lib, t)) => TableOf(merged, i) = TableOf(begun, i)
         /\ StaysWhole(merged, Made(begun, n), TargetsUpTo(sec.overrides, Len(sec.overrides)), i, t)
         /\ \A kind \in FunctionKinds : \A key : Asked(kind, key) =>
              /\ AfterLibs(begun, merged, sec.contents, Len(sec.contents), i, t, kind, key)
              /\ AfterLines(merged, Made(begun, n), sec.overrides, Len(sec.overrides), i, t, kind, key)
<1>1. /\ Libraries /\ overridden \in Seq(Targets) /\ IsInjective(overridden) /\ begun \in Fulls
      /\ ini \in Inis /\ n \in 1..Len(ini.sections)
      /\ ToSet(sec.contents) \subseteq ToSet(apilibs)
    BY DEF Making
<1>2. /\ sec.contents \in Seq(Libs \cup {STD}) /\ sec.overrides \in Seq(ToSet(sec.overrides))
      /\ \A o \in ToSet(sec.overrides) : o.kind \in FunctionKinds /\ o.id \in Nat
    BY <1>1, SectionsAre
<1>3. PICK merged, libs, lines : /\ merged = MergeLibs(begun, sec.contents) /\ libs = sec.contents
                                 /\ lines = sec.overrides
    OBVIOUS
<1>4. merged \in Fulls
    BY <1>1, <1>2, <1>3, MergeLibsFull
<1>5. PICK after : after = Made(begun, n) /\ after = Overriding(merged, lines) /\ after # Failed
    BY <1>3 DEF Made
<1>6. /\ TableOf(begun, i).unnamed # <<>> \/ STD \in ToSet(libs) => TableOf(merged, i).unnamed # <<>>
      /\ (\A lib \in ToSet(libs) : ~Overrides(lib, t)) => TableOf(merged, i) = TableOf(begun, i)
    BY <1>1, <1>2, <1>3, MergeLibsWhole
<1>7. ASSUME NEW kind \in FunctionKinds, NEW key, Asked(kind, key)
      PROVE  /\ AfterLibs(begun, merged, libs, Len(libs), i, t, kind, key)
             /\ AfterLines(merged, after, lines, Len(lines), i, t, kind, key)
             /\ StaysWhole(merged, after, TargetsUpTo(lines, Len(lines)), i, t)
  <2>1. AfterLibs(begun, merged, libs, Len(libs), i, t, kind, key)
      BY <1>1, <1>2, <1>3, <1>7, MergeLibsKept
  <2>2. /\ AfterLines(merged, after, lines, Len(lines), i, t, kind, key)
        /\ StaysWhole(merged, after, TargetsUpTo(lines, Len(lines)), i, t)
      BY <1>1, <1>2, <1>3, <1>4, <1>5, <1>7, OverridingKept
  <2>. QED BY <2>1, <2>2
<1>8. StaysWhole(merged, after, TargetsUpTo(lines, Len(lines)), i, t)
  <2>1. "ordinal" \in FunctionKinds /\ Asked("ordinal", 1)
      BY DEF FunctionKinds, Asked
  <2>. QED BY <1>7, <2>1
<1>. QED BY <1>3, <1>4, <1>5, <1>6, <1>7, <1>8

\* Whether a DLL's table is there, and which functions it then has.
LEMMA RowMade ==
  ASSUME NEW begun, NEW n, Making(begun, n), Made(begun, n) # Failed,
         NEW i \in 1..Len(overridden), NEW t, t = overridden[i]
  PROVE  RowHolds(TableOf(Made(begun, n), i), ini.sections, n, t)
<1>1. PICK S, sec : S = ini.sections /\ sec = S[n]
    OBVIOUS
<1>2. /\ Libraries /\ overridden \in Seq(Targets) /\ begun \in Fulls /\ ini \in Inis /\ n \in 1..Len(S)
      /\ RowInherited(TableOf(begun, i), S, n, t)
    BY <1>1 DEF Making
<1>3. PICK L \in Nat : /\ L = Len(S) /\ DOMAIN S = 1..L /\ n \in 1..L
                       /\ sec.contents \in Seq(Libs \cup {STD})
                       /\ sec.overrides \in Seq(ToSet(sec.overrides))
    BY <1>1, <1>2, SectionsAre
<1>4. PICK ups, up, D, own : /\ ups = UpsOf(S, n) /\ up = Max(ups) /\ D = DllsOf(S)
                             /\ own = ToSet(TargetsOf(sec.contents))
    OBVIOUS
<1>5. /\ own \subseteq D[n] /\ \A o \in ToSet(sec.overrides) : o.target \in D[n]
      /\ t \in D[n] => (ups # {} /\ t \in D[up]) \/ STD \in ToSet(sec.contents)
  <2>1. DllsFrom(S, n, D, sec, own)
      BY <1>1, <1>2, <1>4, DllsAre
  <2>. QED BY <1>4, <2>1 DEF DllsFrom
<1>6. PICK merged :
        /\ merged \in Fulls
        /\ TableOf(begun, i).unnamed # <<>> \/ STD \in ToSet(sec.contents) =>
             TableOf(merged, i).unnamed # <<>>
        /\ (\A lib \in ToSet(sec.contents) : ~Overrides(lib, t)) => TableOf(merged, i) = TableOf(begun, i)
        /\ StaysWhole(merged, Made(begun, n), TargetsUpTo(sec.overrides, Len(sec.overrides)), i, t)
        /\ \A kind \in FunctionKinds : \A key : Asked(kind, key) =>
             /\ AfterLibs(begun, merged, sec.contents, Len(sec.contents), i, t, kind, key)
             /\ AfterLines(merged, Made(begun, n), sec.overrides, Len(sec.overrides), i, t, kind, key)
    BY <1>1, SectionMakes
<1>7. PICK b, m, r : /\ b = TableOf(begun, i) /\ m = TableOf(merged, i)
                     /\ r = TableOf(Made(begun, n), i)
    OBVIOUS
<1>8. ASSUME b.unnamed = <<>>
      PROVE  /\ b = EmptyTable
             /\ ups # {} => t \notin D[up] /\ \A kind, key :
                              Said(S, up, kind, t, key) = FunctionOf(STD, kind, t, key, 0)
    BY <1>1, <1>2, <1>4, <1>7, <1>8, EmptyInherited
<1>9. (m.unnamed # <<>> => r.unnamed # <<>>)
      /\ (t \notin TargetsUpTo(sec.overrides, Len(sec.overrides)) => r = m)
    BY <1>6, <1>7 DEF StaysWhole
<1>10. ASSUME b.unnamed = <<>>, STD \notin ToSet(sec.contents)
       PROVE  r = EmptyTable /\ t \notin D[n]
  <2>1. t \notin D[n]
      BY <1>5, <1>8, <1>10
  <2>2. ASSUME NEW lib \in ToSet(sec.contents) PROVE ~Overrides(lib, t)
    <3>1. SUFFICES ASSUME Overrides(lib, t) PROVE FALSE
        OBVIOUS
    <3>2. lib \in Libs
      <4>1. \A k \in DOMAIN sec.contents : sec.contents[k] \in Libs \cup {STD}
          BY <1>3
      <4>. QED BY <1>10, <2>2, <4>1 DEF ToSet
    <3>3. lib # STD
        BY <1>10, <2>2
    <3>4. PICK k \in DOMAIN LibTables[lib] : LibTables[lib][k].target = t
        BY <3>1, <3>3 DEF Overrides, TablesOf
    <3>5. t \in own
        BY <1>3, <1>4, <2>2, <3>2, <3>4, TargetsOfTypes
    <3>. QED BY <1>5, <2>1, <3>5
  <2>3. m = b
      BY <1>6, <1>7, <2>2
  <2>4. t \notin TargetsUpTo(sec.overrides, Len(sec.overrides))
    <3>1. DOMAIN sec.overrides = 1..Len(sec.overrides)
        BY <1>3
    <3>2. \A j \in 1..Len(sec.overrides) : sec.overrides[j] \in ToSet(sec.overrides)
        BY <3>1 DEF ToSet
    <3>. QED BY <1>5, <2>1, <3>2 DEF TargetsUpTo
  <2>. QED BY <1>8, <1>9, <1>10, <2>1, <2>3, <2>4
<1>11. b.unnamed # <<>> \/ STD \in ToSet(sec.contents) => r.unnamed # <<>>
    BY <1>6, <1>7, <1>9
<1>12. CASE r.unnamed = <<>>
  <2>1. b.unnamed = <<>> /\ STD \notin ToSet(sec.contents)
      BY <1>11, <1>12
  <2>. QED BY <1>1, <1>4, <1>7, <1>10, <1>12, <2>1 DEF RowHolds
<1>13. CASE r.unnamed # <<>>
  <2>1. ASSUME NEW kind \in FunctionKinds, NEW key, Asked(kind, key)
        PROVE  KeptAs(KeptFor(r, kind, key), Said(S, n, kind, t, key), kind, t, key)
    <3>1. PICK said : /\ \A k \in 1..L : Said(S, k, kind, t, key) = said[k]
                      /\ \A k \in 1..L : said[k] = Says(S, k, kind, t, key, said)
        BY <1>3, SaidIs
    <3>2. Said(S, n, kind, t, key) = Says(S, n, kind, t, key, said)
        BY <1>3, <3>1
    <3>3. PICK lines, libs : lines = LinesFor(sec, kind, t, key) /\ libs = LibsFor(sec, kind, t, key)
        OBVIOUS
    <3>4. DOMAIN sec.overrides = 1..Len(sec.overrides) /\ DOMAIN sec.contents = 1..Len(sec.contents)
        BY <1>3
    <3>5. lines = SayOf(sec.overrides, Len(sec.overrides), kind, t, key)
        BY <3>3, <3>4 DEF LinesFor, SayOf, IsOf
    <3>6. libs = HaveOf(sec.contents, Len(sec.contents), kind, t, key)
        BY <3>3, <3>4 DEF LibsFor, HaveOf
    <3>7. /\ AfterLibs(begun, merged, sec.contents, Len(sec.contents), i, t, kind, key)
          /\ AfterLines(merged, Made(begun, n), sec.overrides, Len(sec.overrides), i, t, kind, key)
        BY <1>6, <2>1
    <3>8. CASE lines # {}
      <4>1. Said(S, n, kind, t, key) = LineSays(sec.overrides[Max(lines)], kind, t, key)
          BY <1>1, <3>2, <3>3, <3>8 DEF Says
      <4>. QED BY <1>7, <3>5, <3>7, <3>8, <4>1 DEF AfterLines
    <3>9. CASE lines = {} /\ libs # {}
      <4>1. Said(S, n, kind, t, key) = FunctionOf(sec.contents[Max(libs)], kind, t, key, 0)
          BY <1>1, <3>2, <3>3, <3>9 DEF Says
      <4>2. KeptFor(r, kind, key) = KeptFor(m, kind, key)
          BY <1>7, <3>5, <3>7, <3>9 DEF AfterLines
      <4>. QED BY <1>7, <3>6, <3>7, <3>9, <4>1, <4>2 DEF AfterLibs
    <3>10. CASE lines = {} /\ libs = {}
      <4>1. KeptFor(r, kind, key) = KeptFor(m, kind, key)
          BY <1>7, <3>5, <3>7, <3>10 DEF AfterLines
      <4>2. KeptFor(m, kind, key) = KeptFor(b, kind, key)
          BY <1>7, <3>6, <3>7, <3>10 DEF AfterLibs
      <4>3. Said(S, n, kind, t, key) = IF ups # {} THEN said[up] ELSE FunctionOf(STD, kind, t, key, 0)
          BY <1>1, <1>4, <3>2, <3>3, <3>10 DEF Says
      <4>4. ups # {} => up \in 1..L /\ said[up] = Said(S, up, kind, t, key)
        <5>1. ups # {} => up \in 1..L
            BY <1>1, <1>2, <1>3, <1>4, UpIsOne
        <5>. QED BY <3>1, <5>1
      <4>5. CASE b.unnamed # <<>>
        <5>1. ups # {} /\ RowHolds(b, S, up, t)
          <6>1. EmptyTable.unnamed = <<>>
              BY DEF EmptyTable
          <6>. QED BY <1>2, <1>4, <1>7, <4>5, <6>1 DEF RowInherited
        <5>2. KeptAs(KeptFor(b, kind, key), Said(S, up, kind, t, key), kind, t, key)
            BY <2>1, <4>5, <5>1 DEF RowHolds
        <5>. QED BY <4>1, <4>2, <4>3, <4>4, <5>1, <5>2
      <4>6. CASE b.unnamed = <<>>
        <5>1. STD \in ToSet(sec.contents)
          <6>1. EmptyTable.unnamed = <<>>
              BY DEF EmptyTable
          <6>. QED BY <1>10, <1>13, <4>6, <6>1
        <5>2. PICK j \in DOMAIN sec.contents : sec.contents[j] = STD
            BY <5>1 DEF ToSet
        <5>3. PlacesOf(STD, kind, t, key) = {}
            BY <3>3, <3>10, <5>2 DEF LibsFor
        <5>4. FunctionOf(STD, kind, t, key, 0) = Nowhere
            BY <5>3 DEF FunctionOf
        <5>5. Said(S, n, kind, t, key) = Nowhere
            BY <1>8, <4>3, <4>4, <4>6, <5>4
        <5>6. KeptFor(b, kind, key) = 0
            BY <1>8, <2>1, <4>6, EmptyKeeps
        <5>. QED BY <4>1, <4>2, <5>5, <5>6, NothingKept
      <4>. QED BY <4>5, <4>6
    <3>. QED BY <3>8, <3>9, <3>10
  <2>. QED BY <1>1, <1>7, <1>13, <2>1 DEF RowHolds
<1>. QED BY <1>12, <1>13

(* The tables that MakeTables makes of a section's libraries and overrides   *)
(* are as core.ini says.                                                     *)
LEMMA TablesMade ==
  ASSUME NEW begun, NEW n, Making(begun, n), Made(begun, n) # Failed
  PROVE  TablesHold(Made(begun, n), n)
<1>1. PICK S, sec, D, own : /\ S = ini.sections /\ sec = S[n] /\ D = DllsOf(S)
                            /\ own = ToSet(TargetsOf(sec.contents))
    OBVIOUS
<1>2. /\ ini \in Inis /\ n \in 1..Len(S) /\ own \subseteq ToSet(overridden)
      /\ UpsOf(S, n) # {} => D[Max(UpsOf(S, n))] \subseteq ToSet(overridden)
    BY <1>1 DEF Making
<1>3. DllsFrom(S, n, D, sec, own)
    BY <1>1, <1>2, DllsAre
<1>4. D[n] \subseteq ToSet(overridden)
    BY <1>2, <1>3 DEF DllsFrom
<1>5. \A i \in 1..Len(overridden) : RowHolds(TableOf(Made(begun, n), i), S, n, overridden[i])
    BY <1>1, RowMade
<1>. QED BY <1>1, <1>4, <1>5 DEF TablesHold

-----------------------------------------------------------------------------
(* Tables that are loaded stay as core.ini says *)

\* apilib_ptrs and overridden_module_names are only added to.
ListsGrow ==
  /\ overridden' \in Seq(Targets) /\ IsInjective(overridden)' /\ apilibs' \in Seq(Libs \cup {STD})
  /\ Len(apilibs) <= Len(apilibs') /\ \A k \in 1..Len(apilibs) : apilibs'[k] = apilibs[k]
  /\ Len(overridden) <= Len(overridden')
  /\ \A k \in 1..Len(overridden) : overridden'[k] = overridden[k]
  /\ ini' = ini

LEMMA ListsStay ==
  ASSUME TablesTypeOK, UNCHANGED <<ini, apilibs, overridden>>
  PROVE  ListsGrow
<1>1. /\ overridden \in Seq(Targets) /\ apilibs \in Seq(Libs \cup {STD})
      /\ \A i, j \in DOMAIN overridden : overridden[i] = overridden[j] => i = j
    BY DEF TablesTypeOK, IsInjective
<1>2. Len(overridden) \in Nat /\ Len(apilibs) \in Nat
    BY <1>1
<1>3. Len(overridden) <= Len(overridden') /\ Len(apilibs) <= Len(apilibs')
    BY <1>2
<1>4. IsInjective(overridden)'
    BY <1>1 DEF IsInjective
<1>. QED BY <1>1, <1>3, <1>4 DEF ListsGrow

LEMMA KeptStays ==
  ASSUME apilibs \in Seq(Libs \cup {STD}), ListsGrow, NEW p, NEW said, NEW kind, NEW t, NEW key,
         KeptAs(p, said, kind, t, key)
  PROVE  KeptAs(p, said, kind, t, key)'
<1>1. DOMAIN apilibs = 1..Len(apilibs) /\ DOMAIN apilibs' = 1..Len(apilibs')
      /\ Len(apilibs) \in Nat /\ Len(apilibs') \in Nat
    BY DEF ListsGrow
<1>2. \A k \in DOMAIN apilibs : k \in DOMAIN apilibs' /\ apilibs'[k] = apilibs[k]
    BY <1>1 DEF ListsGrow
<1>3. Known(p)
    BY DEF KeptAs
<1>4. Known(p)'
    BY <1>2, <1>3 DEF Known
<1>5. PICK found : found = decode_address(p, t)
    OBVIOUS
<1>6. decode_address(p, t)' = found
  <2>1. CASE KindOf(p) = "inLibrary"
    <3>1. apilibs'[LibraryOf(p) + 1] = apilibs[LibraryOf(p) + 1]
        BY <1>2, <1>3, <2>1 DEF Known
    <3>. QED BY <1>5, <2>1, <3>1 DEF decode_address
  <2>2. CASE KindOf(p) # "inLibrary"
      BY <1>5, <2>2 DEF decode_address
  <2>. QED BY <2>1, <2>2
<1>7. AnswersAs(found, said, kind, t, key)
    BY <1>5 DEF KeptAs
<1>. QED BY <1>4, <1>6, <1>7 DEF KeptAs

LEMMA RowStays ==
  ASSUME apilibs \in Seq(Libs \cup {STD}), ListsGrow, NEW row, NEW sections, NEW n, NEW t,
         RowHolds(row, sections, n, t)
  PROVE  RowHolds(row, sections, n, t)'
<1>1. CASE row.unnamed = <<>>
    BY <1>1 DEF RowHolds
<1>2. CASE row.unnamed # <<>>
  <2>1. ASSUME NEW kind \in FunctionKinds, NEW key, Asked(kind, key)
        PROVE  KeptAs(KeptFor(row, kind, key), Said(sections, n, kind, t, key), kind, t, key)'
    <3>1. PICK p, said : p = KeptFor(row, kind, key) /\ said = Said(sections, n, kind, t, key)
        OBVIOUS
    <3>2. KeptAs(p, said, kind, t, key)
        BY <1>2, <2>1, <3>1 DEF RowHolds
    <3>3. KeptAs(p, said, kind, t, key)'
        BY <3>2, KeptStays
    <3>. QED BY <3>1, <3>3
  <2>. QED BY <1>2, <2>1 DEF RowHolds
<1>. QED BY <1>1, <1>2

\* A DLL that is added is none of those that the tables have whole.
LEMMA TablesStay ==
  ASSUME TablesTypeOK, ListsGrow, NEW tables \in Fulls, NEW n, TablesHold(tables, n)
  PROVE  TablesHold(tables, n)'
<1>1. PICK S, D : S = ini.sections /\ D = DllsOf(S)[n]
    OBVIOUS
<1>2. PICK L, M \in Nat :
        /\ L = Len(overridden) /\ DOMAIN overridden = 1..L /\ M = Len(overridden')
        /\ DOMAIN overridden' = 1..M /\ L <= M /\ \A k \in 1..L : overridden'[k] = overridden[k]
        /\ \A j, k \in 1..M : overridden'[j] = overridden'[k] => j = k
  <2>1. overridden \in Seq(Targets) /\ overridden' \in Seq(Targets)
      BY DEF TablesTypeOK, ListsGrow
  <2>2. \A j, k \in DOMAIN overridden' : overridden'[j] = overridden'[k] => j = k
      BY DEF ListsGrow, IsInjective
  <2>3. /\ Len(overridden) \in Nat /\ DOMAIN overridden = 1..Len(overridden)
        /\ Len(overridden') \in Nat /\ DOMAIN overridden' = 1..Len(overridden')
      BY <2>1
  <2>4. /\ Len(overridden) <= Len(overridden')
        /\ \A k \in 1..Len(overridden) : overridden'[k] = overridden[k]
      BY DEF ListsGrow
  <2>. QED BY <2>2, <2>3, <2>4
<1>3. ini' = ini /\ apilibs \in Seq(Libs \cup {STD})
    BY DEF ListsGrow, TablesTypeOK
<1>4. \A k \in 1..L : k \in 1..M
    BY <1>2
<1>5. D \subseteq ToSet(overridden) /\ \A i \in 1..L : RowHolds(TableOf(tables, i), S, n, overridden[i])
    BY <1>1, <1>2 DEF TablesHold
<1>6. D \subseteq ToSet(overridden)'
    BY <1>2, <1>4, <1>5 DEF ToSet
<1>7. ASSUME NEW i \in 1..M PROVE RowHolds(TableOf(tables, i), S, n, overridden[i])'
  <2>1. PICK row, t : row = TableOf(tables, i) /\ t = overridden'[i]
      OBVIOUS
  <2>2. CASE i \in 1..L
    <3>1. RowHolds(row, S, n, t)
        BY <1>2, <1>5, <2>1, <2>2
    <3>2. RowHolds(row, S, n, t)'
        BY <1>3, <3>1, RowStays
    <3>. QED BY <2>1, <3>2
  <2>3. CASE i \notin 1..L
    <3>1. i \in Nat \ {0} /\ i \notin 1..Len(tables)
        BY <1>2, <2>3 DEF Fulls
    <3>2. row = EmptyTable
        BY <2>1, <3>1, TableOfTypes DEF TableOf
    <3>3. t \notin D
      <4>1. SUFFICES ASSUME t \in D PROVE FALSE
          OBVIOUS
      <4>2. PICK j \in 1..L : overridden[j] = t
          BY <1>2, <1>5, <4>1 DEF ToSet
      <4>. QED BY <1>2, <1>4, <2>1, <2>3, <4>2
    <3>4. row.unnamed = <<>>
        BY <3>2 DEF EmptyTable
    <3>. QED BY <1>1, <2>1, <3>2, <3>3, <3>4 DEF RowHolds
  <2>. QED BY <2>2, <2>3
<1>. QED BY <1>1, <1>2, <1>3, <1>6, <1>7 DEF TablesHold

\* Every configuration is as its section of core.ini says, and the one that is being
\* made has what MakeTables needs.
LookupsInv ==
  /\ \A c \in 1..Len(apiconfs) : \E n \in 1..entry-1 :
       apiconfs[c].name = SectionName(n) /\ TablesHold(apiconfs[c].tables, n)
  /\ phase = "tables" => Making(apiconf.tables, entry)

LEMMA LoadedStays ==
  ASSUME ConfigurationsInv, TablesTypeOK, LookupsInv, ListsGrow, NEW c \in 1..Len(apiconfs),
         NEW tables, tables = apiconfs[c].tables
  PROVE  \E n \in 1..entry-1 : /\ apiconfs[c].name = SectionName(n) /\ SectionName(n)' = SectionName(n)
                               /\ TablesHold(tables, n)'
<1>1. DOMAIN apiconfs = 1..Len(apiconfs) /\ ini' = ini
    BY SectionsDiffer DEF ListsGrow
<1>2. PICK n \in 1..entry-1 : apiconfs[c].name = SectionName(n) /\ TablesHold(tables, n)
    BY DEF LookupsInv
<1>3. tables \in Fulls
  <2>1. apiconfs[c] \in ToSet(apiconfs)
      BY <1>1 DEF ToSet
  <2>2. Full(tables)
      BY <2>1 DEF TablesTypeOK
  <2>. QED BY <2>2, FullIsRows
<1>4. TablesHold(tables, n)'
    BY <1>2, <1>3, TablesStay
<1>5. SectionName(n)' = SectionName(n)
    BY <1>1 DEF SectionName
<1>. QED BY <1>2, <1>4, <1>5

LEMMA LoadedStay ==
  ASSUME ConfigurationsInv, TablesTypeOK, LookupsInv, ListsGrow,
         apiconfs' = apiconfs, entry' = entry \/ entry' = entry + 1
  PROVE  (\A c \in 1..Len(apiconfs) : \E n \in 1..entry-1 :
            apiconfs[c].name = SectionName(n) /\ TablesHold(apiconfs[c].tables, n))'
<1>1. entry \in Nat \ {0}
    BY DEF ConfigurationsInv
<1>2. ASSUME NEW c \in 1..Len(apiconfs)
      PROVE  (\E n \in 1..entry-1 : apiconfs[c].name = SectionName(n) /\ TablesHold(apiconfs[c].tables, n))'
  <2>1. PICK tables : tables = apiconfs[c].tables
      OBVIOUS
  <2>2. PICK n \in 1..entry-1 : /\ apiconfs[c].name = SectionName(n) /\ SectionName(n)' = SectionName(n)
                                /\ TablesHold(tables, n)'
      BY <2>1, LoadedStays
  <2>3. n \in 1..entry'-1
      BY <1>1, <2>2
  <2>4. apiconfs'[c].tables = tables /\ apiconfs'[c].name = SectionName(n)'
      BY <2>1, <2>2
  <2>. QED BY <2>2, <2>3, <2>4
<1>. QED BY <1>2

LEMMA LookupsInitially ==
  ASSUME TablesInit
  PROVE  LookupsInv
<1>1. apiconfs = <<>> /\ phase = "libraries"
    BY DEF TablesInit
<1>2. \A c \in 1..Len(apiconfs) : FALSE
    BY <1>1
<1>. QED BY <1>1, <1>2 DEF LookupsInv

LEMMA NextEntryLookups ==
  ASSUME ConfigurationsInv, TablesTypeOK, LookupsInv, ListsGrow, NextEntry
  PROVE  LookupsInv'
<1>1. apiconfs' = apiconfs /\ (entry' = entry \/ entry' = entry + 1) /\ phase' # "tables"
    BY DEF NextEntry
<1>. QED BY <1>1, LoadedStay DEF LookupsInv

LEMMA LoadApilibsGrow ==
  ASSUME TablesTypeOK, NEW libs \in Seq(Libs \cup {STD}), LoadApilibs(libs), ini' = ini
  PROVE  /\ ListsGrow /\ Libraries'
         /\ ToSet(libs) \subseteq ToSet(apilibs') /\ ToSet(TargetsOf(libs)) \subseteq ToSet(overridden')
<1>1. /\ apilibs \in Seq(Libs \cup {STD}) /\ IsInjective(apilibs)
      /\ overridden \in Seq(Targets) /\ IsInjective(overridden)
    BY DEF TablesTypeOK
<1>2. PICK a : a = AppendAll(apilibs, libs)
    OBVIOUS
<1>3. /\ a \in Seq(Libs \cup {STD}) /\ IsInjective(a) /\ Len(apilibs) <= Len(a)
      /\ \A k \in 1..Len(apilibs) : a[k] = apilibs[k]
      /\ ToSet(libs) \subseteq ToSet(a)
    BY <1>1, <1>2, AppendAllHolds
<1>4. PICK targets : targets = TargetsOf(libs)
    OBVIOUS
<1>5. targets \in Seq(Targets)
    BY <1>4, TargetsOfTypes
<1>6. PICK o : o = AppendAll(overridden, targets)
    OBVIOUS
<1>7. /\ o \in Seq(Targets) /\ IsInjective(o) /\ Len(overridden) <= Len(o)
      /\ \A k \in 1..Len(overridden) : o[k] = overridden[k]
      /\ ToSet(targets) \subseteq ToSet(o)
    BY <1>1, <1>5, <1>6, AppendAllHolds
<1>8. apilibs' = a /\ overridden' = o
    BY <1>2, <1>4, <1>6 DEF LoadApilibs
<1>9. /\ (apilibs \in Seq(Libs \cup {STD}) /\ apilibs # <<>> /\ apilibs[1] = STD)'
      /\ (overridden \in Seq(Targets) /\ IsInjective(apilibs) /\ IsInjective(overridden))'
    BY LoadApilibsTypes
<1>10. ListsGrow
    BY <1>3, <1>7, <1>8, <1>9 DEF ListsGrow
<1>11. Libraries'
    BY <1>9 DEF Libraries
<1>. QED BY <1>3, <1>4, <1>7, <1>8, <1>10, <1>11

LEMMA FoundIsThere ==
  ASSUME ConfigurationsInv, NEW name, Found(name) # 0
  PROVE  Found(name) \in 1..Len(apiconfs) /\ apiconfs[Found(name)].name = name
<1>1. PICK I : I = {k \in 1..Len(apiconfs) : apiconfs[k].name = name}
    OBVIOUS
<1>2. Found(name) = IF I # {} THEN Min(I) ELSE 0
    BY <1>1 DEF Found, SelectInSeq
<1>3. I # {} => Min(I) \in I
  <2>1. I \in SUBSET Nat
      BY <1>1
  <2>. QED BY <2>1, Minimum
<1>. QED BY <1>1, <1>2, <1>3

\* What a configuration begins with is as in the one that it inherits.
LEMMA BaseInherited ==
  ASSUME ConfigurationsInv, TablesTypeOK, LookupsInv, ListsGrow, Libraries',
         NEW n \in 1..Len(ini.sections), n = entry, NEW from, from = Found(Section.inherit),
         Section.inherit = None \/ from # 0,
         NEW tables, tables = IF from = 0 THEN <<>> ELSE apiconfs[from].tables,
         NEW begun, begun = Grown(tables, Len(overridden)),
         ToSet(Section.contents) \subseteq ToSet(apilibs'),
         ToSet(TargetsOf(Section.contents)) \subseteq ToSet(overridden')
  PROVE  Making(begun, n)'
<1>1. PICK S, D : S = ini.sections /\ D = DllsOf(S)
    OBVIOUS
<1>2. ini \in Inis /\ ini' = ini /\ entry \in Nat \ {0} /\ n \in 1..Len(S)
    BY <1>1 DEF ConfigurationsInv, ListsGrow
<1>3. /\ DOMAIN S = 1..Len(S) /\ Len(S) \in Nat /\ \A k \in 1..Len(S) : S[k].name # None
    BY <1>1, <1>2, SectionsAre
<1>4. /\ overridden \in Seq(Targets) /\ Len(overridden) \in Nat
      /\ overridden' \in Seq(Targets) /\ IsInjective(overridden)'
      /\ Len(overridden) <= Len(overridden') /\ Libraries'
    BY DEF TablesTypeOK, ListsGrow
<1>5. tables \in Fulls /\ (from = 0 => \A i \in Nat \ {0} : TableOf(tables, i) = EmptyTable)
  <2>1. CASE from = 0
    <3>1. PICK e : e = << >>
        OBVIOUS
    <3>2. e \in Seq(Rows) /\ Len(e) = 0 /\ DOMAIN e = {}
        BY <3>1
    <3>3. tables = e /\ 0 <= Len(overridden)
        BY <1>4, <2>1, <3>1
    <3>. QED BY <3>2, <3>3 DEF Fulls, TableOf
  <2>2. CASE from # 0
    <3>1. from \in 1..Len(apiconfs) /\ apiconfs[from].name = Section.inherit
        BY <2>2, FoundIsThere
    <3>2. apiconfs[from] \in ToSet(apiconfs)
        BY <3>1, SectionsDiffer DEF ToSet
    <3>3. Full(tables)
        BY <2>2, <3>2 DEF TablesTypeOK
    <3>. QED BY <2>2, <3>3, FullIsRows
  <2>. QED BY <2>1, <2>2
<1>6. /\ begun \in Fulls /\ \A i \in Nat \ {0} : TableOf(begun, i) = TableOf(tables, i)
  <2>1. Len(overridden) \in 0..Len(overridden)
      BY <1>4
  <2>. QED BY <1>4, <1>5, <2>1, GrownFull, GrownTable
<1>7. (begun \in Fulls)'
    BY <1>4, <1>6 DEF Fulls, Rows
<1>8. (/\ Libraries /\ overridden \in Seq(Targets) /\ IsInjective(overridden) /\ begun \in Fulls
       /\ ini \in Inis /\ n \in 1..Len(ini.sections)
       /\ ToSet(ini.sections[n].contents) \subseteq ToSet(apilibs)
       /\ ToSet(TargetsOf(ini.sections[n].contents)) \subseteq ToSet(overridden))'
    BY <1>1, <1>2, <1>4, <1>7 DEF Section
<1>9. CASE from = 0
  <2>1. UpsOf(S, n) = {}
    <3>1. S[n].inherit = None
        BY <1>1, <1>9 DEF Section
    <3>2. \A m \in 1..n-1 : m \in 1..Len(S)
        BY <1>2, <1>3
    <3>. QED BY <1>3, <3>1, <3>2 DEF UpsOf
  <2>2. \A i \in Nat \ {0} : TableOf(begun, i) = EmptyTable
      BY <1>5, <1>6, <1>9
  <2>3. (\A i \in 1..Len(overridden) : RowInherited(TableOf(begun, i), S, n, overridden[i]))'
      BY <2>1, <2>2 DEF RowInherited
  <2>4. ini'.sections = S
      BY <1>1, <1>2
  <2>. QED BY <1>8, <2>1, <2>3, <2>4 DEF Making
<1>10. CASE from # 0
  <2>1. from \in 1..Len(apiconfs) /\ apiconfs[from].name = Section.inherit
      BY <1>10, FoundIsThere
  <2>2. PICK up \in 1..entry-1 : apiconfs[from].name = SectionName(up) /\ TablesHold(tables, up)
      BY <1>10, <2>1 DEF LookupsInv
  <2>3. up \in UpsOf(S, n)
      BY <1>1, <2>1, <2>2 DEF UpsOf, SectionName, Section
  <2>4. up = Max(UpsOf(S, n)) /\ UpsOf(S, n) # {}
      BY <1>1, <1>2, <2>3, UpIsOne
  <2>5. TablesHold(tables, up)'
      BY <1>5, <2>2, TablesStay
  <2>6. D[up] \subseteq ToSet(overridden')
      BY <1>1, <1>2, <2>5 DEF TablesHold
  <2>7. ASSUME NEW i \in 1..Len(overridden')
        PROVE  RowInherited(TableOf(begun, i), S, n, overridden[i])'
    <3>1. RowHolds(TableOf(tables, i), S, up, overridden[i])'
        BY <1>1, <1>2, <2>5 DEF TablesHold
    <3>2. i \in Nat \ {0}
        BY <1>4
    <3>3. TableOf(begun, i) = TableOf(tables, i)
        BY <1>6, <3>2
    <3>. QED BY <2>4, <3>1, <3>3 DEF RowInherited
  <2>8. ini'.sections = S
      BY <1>1, <1>2
  <2>. QED BY <1>1, <1>8, <2>4, <2>6, <2>7, <2>8 DEF Making
<1>. QED BY <1>9, <1>10

LEMMA LoadLibrariesLookups ==
  ASSUME ConfigurationsInv, TablesTypeOK, LookupsInv, NEW missing \in SUBSET Libs,
         LoadLibraries(missing)
  PROVE  LookupsInv'
<1>1. PICK contents, bad, from :
        /\ contents = Section.contents
        /\ bad = {k \in DOMAIN contents : contents[k] \in missing}
        /\ from = Found(Section.inherit)
    OBVIOUS
<1>2. /\ entry \in DOMAIN ini.sections /\ ini' = ini
      /\ IF Section.inherit # None /\ from = 0
         THEN NextEntry /\ UNCHANGED <<apilibs, overridden>>
         ELSE /\ LoadApilibs(IF bad = {} THEN contents ELSE SubSeq(contents, 1, Min(bad) - 1))
              /\ IF bad # {} THEN NextEntry
                 ELSE /\ apiconf' = [name |-> Section.name,
                                     tables |-> Grown(IF from = 0 THEN <<>> ELSE apiconfs[from].tables,
                                                      Len(overridden))]
                      /\ phase' = "tables"
                      /\ UNCHANGED <<entry, apiconfs>>
    BY <1>1 DEF LoadLibraries
<1>3. contents \in Seq(Libs \cup {STD})
    BY <1>1, <1>2, SectionTypes
<1>4. CASE Section.inherit # None /\ from = 0
  <2>1. NextEntry /\ UNCHANGED <<ini, apilibs, overridden>>
      BY <1>2, <1>4
  <2>2. ListsGrow
      BY <2>1, ListsStay
  <2>. QED BY <2>1, <2>2, NextEntryLookups
<1>5. CASE ~(Section.inherit # None /\ from = 0)
  <2>1. PICK libs : libs = IF bad = {} THEN contents ELSE SubSeq(contents, 1, Min(bad) - 1)
      OBVIOUS
  <2>2. libs \in Seq(Libs \cup {STD})
    <3>1. CASE bad = {}
        BY <1>3, <2>1, <3>1
    <3>2. CASE bad # {}
      <4>1. PICK N \in Nat : N = Len(contents) /\ DOMAIN contents = 1..N
          BY <1>3
      <4>2. bad \in SUBSET Nat /\ bad \subseteq 1..N
          BY <1>1, <4>1
      <4>3. PICK m \in 1..N : m = Min(bad)
          BY <3>2, <4>2, Minimum
      <4>4. m - 1 \in 0..Len(contents) /\ 1 \in 1..Len(contents) + 1 /\ 1 <= (m - 1) + 1
          BY <4>1
      <4>5. SubSeq(contents, 1, m - 1) \in Seq(Libs \cup {STD})
          BY <1>3, <4>4, Taken
      <4>. QED BY <2>1, <3>2, <4>3, <4>5
    <3>. QED BY <3>1, <3>2
  <2>3. LoadApilibs(libs)
      BY <1>2, <1>5, <2>1
  <2>4. /\ ListsGrow /\ Libraries'
        /\ ToSet(libs) \subseteq ToSet(apilibs') /\ ToSet(TargetsOf(libs)) \subseteq ToSet(overridden')
      BY <1>2, <2>2, <2>3, LoadApilibsGrow
  <2>5. CASE bad # {}
    <3>1. NextEntry
        BY <1>2, <1>5, <2>5
    <3>. QED BY <2>4, <3>1, NextEntryLookups
  <2>6. CASE bad = {}
    <3>1. PICK tables, begun : /\ tables = IF from = 0 THEN <<>> ELSE apiconfs[from].tables
                               /\ begun = Grown(tables, Len(overridden))
        OBVIOUS
    <3>2. /\ apiconf' = [name |-> Section.name, tables |-> begun]
          /\ entry' = entry /\ apiconfs' = apiconfs
        BY <1>2, <1>5, <2>6, <3>1
    <3>3. PICK n \in 1..Len(ini.sections) : n = entry
        BY <1>2, SectionsDiffer
    <3>4. libs = Section.contents
        BY <1>1, <2>1, <2>6
    <3>5. Section.inherit = None \/ from # 0
        BY <1>5
    <3>6. Making(begun, n)'
        BY <1>1, <2>4, <3>1, <3>3, <3>4, <3>5, BaseInherited
    <3>7. apiconf'.tables = begun /\ entry' = n
        BY <3>2, <3>3
    <3>8. Making(apiconf.tables, entry)'
        BY <3>6, <3>7
    <3>. QED BY <2>4, <3>2, <3>8, LoadedStay DEF LookupsInv
  <2>. QED BY <2>5, <2>6
<1>. QED BY <1>4, <1>5

LEMMA MadeFull ==
  ASSUME NEW begun, NEW n, Making(begun, n), Made(begun, n) # Failed
  PROVE  Made(begun, n) \in Fulls
<1>1. PICK sec : sec = ini.sections[n]
    OBVIOUS
<1>2. /\ Libraries /\ overridden \in Seq(Targets) /\ IsInjective(overridden) /\ begun \in Fulls
      /\ ini \in Inis /\ n \in 1..Len(ini.sections)
    BY DEF Making
<1>3. sec.contents \in Seq(Libs \cup {STD}) /\ sec.overrides \in Seq(ToSet(sec.overrides))
    BY <1>1, <1>2, SectionsAre
<1>4. PICK merged : merged = MergeLibs(begun, sec.contents)
    OBVIOUS
<1>5. merged \in Fulls
    BY <1>2, <1>3, <1>4, MergeLibsFull
<1>6. Overriding(merged, sec.overrides) \in Fulls \cup {Failed}
  <2>1. apilibs \in Seq(Libs \cup {STD})
      BY <1>2 DEF Libraries
  <2>. QED BY <1>2, <1>3, <1>5, <2>1, OverridingKeeps
<1>. QED BY <1>1, <1>4, <1>6 DEF Made

LEMMA MakeTablesLookups ==
  ASSUME ConfigurationsInv, TablesTypeOK, LookupsInv, NEW memory \in BOOLEAN, MakeTables(memory)
  PROVE  LookupsInv'
<1>1. PICK tables : tables = Made(apiconf.tables, entry)
    OBVIOUS
<1>2. /\ phase = "tables" /\ UNCHANGED <<ini, apilibs, overridden>>
      /\ IF memory /\ tables # Failed
         THEN /\ apiconfs' = Append(apiconfs, [apiconf EXCEPT !.tables = tables])
              /\ entry' = entry + 1 /\ phase' = "libraries" /\ apiconf' = apiconf
         ELSE NextEntry
    BY <1>1 DEF MakeTables, Made, Section
<1>3. ListsGrow
    BY <1>2, ListsStay
<1>4. CASE ~(memory /\ tables # Failed)
  <2>1. NextEntry
      BY <1>2, <1>4
  <2>. QED BY <1>3, <2>1, NextEntryLookups
<1>5. CASE memory /\ tables # Failed
  <2>1. PICK new, n : new = [apiconf EXCEPT !.tables = tables] /\ n = entry
      OBVIOUS
  <2>2. /\ apiconfs' = Append(apiconfs, new)
        /\ entry' = entry + 1 /\ phase' = "libraries"
      BY <1>2, <1>5, <2>1
  <2>3. new.tables = tables /\ new.name = SectionName(n)
    <3>1. apiconf = [name |-> apiconf.name, tables |-> apiconf.tables] /\ apiconf.name = SectionName(n)
        BY <1>2, <2>1 DEF ConfigurationsInv
    <3>. QED BY <2>1, <3>1
  <2>4. PICK begun : begun = apiconf.tables
      OBVIOUS
  <2>5. Making(begun, n) /\ tables = Made(begun, n)
      BY <1>1, <1>2, <2>1, <2>4 DEF LookupsInv
  <2>6. TablesHold(tables, n)
      BY <1>5, <2>5, TablesMade
  <2>7. tables \in Fulls
      BY <1>5, <2>5, MadeFull
  <2>8. TablesHold(tables, n)'
      BY <1>3, <2>6, <2>7, TablesStay
  <2>9. SectionName(n)' = SectionName(n)
      BY <1>2 DEF SectionName
  <2>10. PICK N \in Nat : /\ N = Len(apiconfs) /\ apiconfs'[N + 1] = new /\ Len(apiconfs') = N + 1
                          /\ \A c \in 1..N : apiconfs'[c] = apiconfs[c]
    <3>1. apiconfs \in Seq(ToSet(apiconfs))
        BY DEF TablesTypeOK
    <3>. QED BY <2>2, <3>1
  <2>11. entry \in Nat \ {0}
      BY DEF ConfigurationsInv
  <2>12. ASSUME NEW c \in 1..N
         PROVE  (\E k \in 1..entry-1 :
                   apiconfs[c].name = SectionName(k) /\ TablesHold(apiconfs[c].tables, k))'
    <3>1. PICK old : old = apiconfs[c].tables
        OBVIOUS
    <3>2. PICK k \in 1..entry-1 : /\ apiconfs[c].name = SectionName(k) /\ SectionName(k)' = SectionName(k)
                                  /\ TablesHold(old, k)'
        BY <1>3, <2>10, <3>1, LoadedStays
    <3>3. k \in 1..entry'-1
        BY <2>2, <2>11, <3>2
    <3>4. apiconfs'[c].tables = old /\ apiconfs'[c].name = SectionName(k)'
        BY <2>10, <3>1, <3>2
    <3>. QED BY <3>2, <3>3, <3>4
  <2>13. (\E k \in 1..entry-1 :
            apiconfs[N + 1].name = SectionName(k) /\ TablesHold(apiconfs[N + 1].tables, k))'
    <3>1. n \in 1..entry'-1
        BY <2>1, <2>2, <2>11
    <3>2. apiconfs'[N + 1].tables = tables /\ apiconfs'[N + 1].name = SectionName(n)'
        BY <2>3, <2>9, <2>10
    <3>. QED BY <2>8, <3>1, <3>2
  <2>14. \A c \in 1..Len(apiconfs') : c \in 1..N \/ c = N + 1
      BY <2>10
  <2>. QED BY <2>2, <2>12, <2>13, <2>14 DEF LookupsInv
<1>. QED BY <1>4, <1>5

LEMMA MakingStays ==
  ASSUME TablesTypeOK, UNCHANGED <<ini, apilibs, overridden>>, NEW begun, NEW n, Making(begun, n)
  PROVE  Making(begun, n)'
<1>1. ListsGrow /\ apilibs \in Seq(Libs \cup {STD})
    BY ListsStay DEF TablesTypeOK
<1>2. PICK S, L : S = ini.sections /\ L = Len(overridden)
    OBVIOUS
<1>3. (/\ Libraries /\ overridden \in Seq(Targets) /\ IsInjective(overridden) /\ begun \in Fulls
       /\ ini \in Inis /\ n \in 1..Len(ini.sections)
       /\ ToSet(ini.sections[n].contents) \subseteq ToSet(apilibs)
       /\ ToSet(TargetsOf(ini.sections[n].contents)) \subseteq ToSet(overridden)
       /\ UpsOf(ini.sections, n) # {} =>
            DllsOf(ini.sections)[Max(UpsOf(ini.sections, n))] \subseteq ToSet(overridden))'
  <2>1. Libraries' /\ (begun \in Fulls)' /\ IsInjective(overridden)' /\ (overridden \in Seq(Targets))'
      BY DEF Making, Libraries, IsInjective, Fulls
  <2>2. ini' = ini /\ ToSet(apilibs)' = ToSet(apilibs) /\ ToSet(overridden)' = ToSet(overridden)
      BY DEF ToSet
  <2>. QED BY <2>1, <2>2, Zenon DEF Making
<1>4. ASSUME NEW i \in 1..L PROVE RowInherited(TableOf(begun, i), S, n, overridden[i])'
  <2>1. PICK row, t, up : row = TableOf(begun, i) /\ t = overridden[i] /\ up = Max(UpsOf(S, n))
      OBVIOUS
  <2>2. RowInherited(row, S, n, t)
      BY <1>2, <2>1 DEF Making
  <2>3. RowHolds(row, S, up, t) => RowHolds(row, S, up, t)'
      BY <1>1, RowStays
  <2>4. RowInherited(row, S, n, t)'
      BY <2>1, <2>2, <2>3 DEF RowInherited
  <2>. QED BY <2>1, <2>4
<1>5. ini'.sections = S /\ Len(overridden') = L
    BY <1>2
<1>. QED BY <1>3, <1>4, <1>5 DEF Making

LEMMA LookupsStep ==
  ASSUME ConfigurationsInv, TablesTypeOK, LookupsInv, TablesNext \/ UNCHANGED tablesVars
  PROVE  LookupsInv'
<1>1. CASE UNCHANGED tablesVars
  <2>1. UNCHANGED <<ini, apilibs, overridden>> /\ UNCHANGED <<apiconfs, entry, apiconf, phase>>
      BY <1>1 DEF tablesVars, confVars
  <2>2. ListsGrow
      BY <2>1, ListsStay
  <2>3. ASSUME phase' = "tables" PROVE Making(apiconf.tables, entry)'
    <3>1. PICK begun, n : begun = apiconf.tables /\ n = entry
        OBVIOUS
    <3>2. Making(begun, n)
        BY <2>1, <2>3, <3>1 DEF LookupsInv
    <3>3. Making(begun, n)'
        BY <2>1, <3>2, MakingStays
    <3>4. apiconf'.tables = begun /\ entry' = n
        BY <2>1, <3>1
    <3>. QED BY <3>3, <3>4
  <2>. QED BY <2>1, <2>2, <2>3, LoadedStay DEF LookupsInv
<1>2. CASE EndOfEntries
  <2>1. UNCHANGED <<ini, apilibs, overridden>> /\ UNCHANGED <<apiconfs, entry>> /\ phase' # "tables"
      BY <1>2 DEF EndOfEntries
  <2>2. ListsGrow
      BY <2>1, ListsStay
  <2>. QED BY <2>1, <2>2, LoadedStay DEF LookupsInv
<1>. QED BY <1>1, <1>2, LoadLibrariesLookups, MakeTablesLookups DEF TablesNext

-----------------------------------------------------------------------------
(* Functions are looked up as core.ini says *)

\* What is not overridden is looked up in the DLL itself.
LEMMA OwnFunction ==
  ASSUME NEW t \in Targets
  PROVE  /\ \A key \in Names : FunctionOf(STD, "name", t, key, 0) = OriExportFromName(t, key)
         /\ \A ord \in Nat \ {0} :
              AnswersAs(OriExportFromOrdinal(t, ord), FunctionOf(STD, "ordinal", t, ord, 0),
                        "ordinal", t, ord)
<1>1. PICK dll : dll = System[t]
    OBVIOUS
<1>2. /\ DOMAIN dll.functions = 1..Len(dll.functions) /\ Len(dll.functions) \in Nat
      /\ DOMAIN dll.names = 1..Len(dll.names)
    BY <1>1, SystemAssumption
<1>3. ASSUME NEW key \in Names
      PROVE  FunctionOf(STD, "name", t, key, 0) = OriExportFromName(t, key)
  <2>1. PICK ks : ks = {k \in DOMAIN dll.names : dll.names[k].key = key}
      OBVIOUS
  <2>2. PlacesOf(STD, "name", t, key) = ks
      BY <1>1, <2>1 DEF PlacesOf
  <2>3. CASE ks = {}
      BY <1>1, <2>1, <2>2, <2>3 DEF FunctionOf, OriExportFromName
  <2>4. CASE ks # {}
    <3>1. ks \in SUBSET Nat
        BY <1>2, <2>1
    <3>2. PICK k \in Nat : k = Min(ks)
        BY <2>4, <3>1, Minimum
    <3>3. k + 0 = k
        OBVIOUS
    <3>4. FunctionOf(STD, "name", t, key, 0) = OriExportFromOrdinal(t, dll.names[k].function)
        BY <1>1, <2>2, <2>4, <3>2, <3>3 DEF FunctionOf
    <3>5. OriExportFromName(t, key) = OriExportFromOrdinal(t, dll.names[k].function)
        BY <1>1, <2>1, <2>4, <3>2 DEF OriExportFromName
    <3>. QED BY <3>4, <3>5
  <2>. QED BY <2>3, <2>4
<1>4. ASSUME NEW ord \in Nat \ {0}
      PROVE  AnswersAs(OriExportFromOrdinal(t, ord), FunctionOf(STD, "ordinal", t, ord, 0),
                       "ordinal", t, ord)
  <2>1. PlacesOf(STD, "ordinal", t, ord) = {ord} \cap DOMAIN dll.functions
      BY <1>1 DEF PlacesOf
  <2>2. CASE ord \in DOMAIN dll.functions
    <3>1. PlacesOf(STD, "ordinal", t, ord) = {ord}
        BY <2>1, <2>2
    <3>2. Min({ord}) = ord
      <4>1. {ord} \in SUBSET Nat /\ {ord} # {}
          OBVIOUS
      <4>2. Min({ord}) \in {ord}
          BY <4>1, Minimum
      <4>. QED BY <4>2
    <3>3. ord + 0 = ord
        OBVIOUS
    <3>4. FunctionOf(STD, "ordinal", t, ord, 0) = OriExportFromOrdinal(t, ord)
        BY <3>1, <3>2, <3>3 DEF FunctionOf
    <3>. QED BY <3>4 DEF AnswersAs, Reaches
  <2>3. CASE ord \notin DOMAIN dll.functions
    <3>1. FunctionOf(STD, "ordinal", t, ord, 0) = Nowhere
        BY <2>1, <2>3 DEF FunctionOf
    <3>2. CASE ord = Len(dll.functions) + 1
        BY <1>1, <3>1, <3>2 DEF AnswersAs, Stray
    <3>3. CASE ord # Len(dll.functions) + 1
      <4>1. ord \notin 1..Len(dll.functions) + 1
          BY <1>2, <2>3, <3>3
      <4>2. OriExportFromOrdinal(t, ord) = Nowhere
          BY <1>1, <4>1 DEF OriExportFromOrdinal
      <4>. QED BY <3>1, <4>2 DEF AnswersAs, Reaches
    <3>. QED BY <3>2, <3>3
  <2>. QED BY <2>2, <2>3
<1>. QED BY <1>3, <1>4

DllAt(t) == SelectInSeq(overridden, LAMBDA m : m = t)

LEMMA PlaceOfDll ==
  ASSUME overridden \in Seq(Targets), NEW t
  PROVE  /\ DllAt(t) = 0 => t \notin ToSet(overridden)
         /\ DllAt(t) # 0 => DllAt(t) \in 1..Len(overridden) /\ overridden[DllAt(t)] = t
<1>1. PICK I : I = {k \in 1..Len(overridden) : overridden[k] = t}
    OBVIOUS
<1>2. DllAt(t) = IF I # {} THEN Min(I) ELSE 0
    BY <1>1 DEF DllAt, SelectInSeq
<1>3. I # {} => Min(I) \in I
  <2>1. I \in SUBSET Nat
      BY <1>1
  <2>. QED BY <2>1, Minimum
<1>4. I = {} => t \notin ToSet(overridden)
    BY <1>1 DEF ToSet
<1>. QED BY <1>1, <1>2, <1>3, <1>4

LEMMA TableAnswers ==
  ASSUME TablesTypeOK, ini \in Inis, NEW n \in 1..Len(ini.sections), NEW tables \in Fulls,
         TablesHold(tables, n), NEW t \in Targets
  PROVE  /\ \A key \in Names, hint \in Nat :
              AnswersAs(ExportFromName(tables, t, hint, key), Said(ini.sections, n, "name", t, key),
                        "name", t, key)
         /\ \A ord \in Nat \ {0} :
              AnswersAs(ExportFromOrdinal(tables, t, ord), Said(ini.sections, n, "ordinal", t, ord),
                        "ordinal", t, ord)
<1>1. PICK S, i, D : /\ S = ini.sections /\ D = DllsOf(S)[n]
                     /\ i = SelectInSeq(overridden, LAMBDA m : m = t)
    OBVIOUS
<1>2. overridden \in Seq(Targets) /\ Len(overridden) \in Nat
    BY DEF TablesTypeOK
<1>3. IF i = 0 THEN t \notin ToSet(overridden) ELSE i \in 1..Len(overridden) /\ overridden[i] = t
  <2>1. i = DllAt(t)
      BY <1>1 DEF DllAt
  <2>. QED BY <1>2, <2>1, PlaceOfDll
<1>4. D \subseteq ToSet(overridden)
    BY <1>1 DEF TablesHold
<1>5. PICK row : row = TableOf(tables, i)
    OBVIOUS
<1>6. i # 0 => RowHolds(row, S, n, t)
    BY <1>1, <1>3, <1>5 DEF TablesHold
<1>7. i # 0 => (IsTableEmpty(tables, i) <=> row.unnamed = <<>>)
  <2>1. EmptyTable.unnamed = <<>>
      BY DEF EmptyTable
  <2>. QED BY <1>5, <2>1 DEF IsTableEmpty, TableOf
<1>8. CASE i = 0 \/ IsTableEmpty(tables, i)
  <2>1. t \notin D
      BY <1>1, <1>3, <1>4, <1>6, <1>7, <1>8 DEF RowHolds
  <2>2. \A kind, key : Said(S, n, kind, t, key) = FunctionOf(STD, kind, t, key, 0)
      BY <1>1, <2>1, SaidOfOthers
  <2>3. \A key, hint : ExportFromName(tables, t, hint, key) = OriExportFromName(t, key)
      BY <1>1, <1>8 DEF ExportFromName
  <2>4. \A ord : ExportFromOrdinal(tables, t, ord) = OriExportFromOrdinal(t, ord)
      BY <1>1, <1>8 DEF ExportFromOrdinal
  <2>5. \A key \in Names : FunctionOf(STD, "name", t, key, 0) = OriExportFromName(t, key)
      BY OwnFunction
  <2>6. \A ord \in Nat \ {0} : AnswersAs(OriExportFromOrdinal(t, ord),
                                        FunctionOf(STD, "ordinal", t, ord, 0), "ordinal", t, ord)
      BY OwnFunction
  <2>7. ASSUME NEW key \in Names, NEW hint \in Nat
        PROVE  AnswersAs(ExportFromName(tables, t, hint, key), Said(S, n, "name", t, key), "name", t, key)
    <3>1. ExportFromName(tables, t, hint, key) = Said(S, n, "name", t, key)
        BY <2>2, <2>3, <2>5
    <3>. QED BY <3>1 DEF AnswersAs, Reaches
  <2>8. ASSUME NEW ord \in Nat \ {0}
        PROVE  AnswersAs(ExportFromOrdinal(tables, t, ord), Said(S, n, "ordinal", t, ord), "ordinal", t, ord)
      BY <2>2, <2>4, <2>6
  <2>. QED BY <1>1, <2>7, <2>8
<1>9. CASE i # 0 /\ ~IsTableEmpty(tables, i)
  <2>1. row = tables[i] /\ i \in DOMAIN tables /\ row.unnamed # <<>>
      BY <1>5, <1>7, <1>9 DEF IsTableEmpty, TableOf
  <2>2. \A kind \in FunctionKinds : \A key : Asked(kind, key) =>
          KeptAs(KeptFor(row, kind, key), Said(S, n, kind, t, key), kind, t, key)
      BY <1>6, <1>9, <2>1 DEF RowHolds
  <2>3. row.named \in NamedApis /\ Increasing(row.named)
    <3>1. i \in 1..Len(tables)
        BY <2>1 DEF Fulls
    <3>. QED BY <2>1, <3>1, RowOf
  <2>4. ASSUME NEW key \in Names, NEW hint \in Nat
        PROVE  AnswersAs(ExportFromName(tables, t, hint, key), Said(S, n, "name", t, key), "name", t, key)
    <3>1. key \in Int
        BY TablesAssumption
    <3>2. GetNamed(row.named, hint, key) = KeptFor(row, "name", key)
        BY <2>3, <3>1, GetNamedFinds DEF KeptFor
    <3>3. ExportFromName(tables, t, hint, key) = decode_address(GetNamed(row.named, hint, key), t)
        BY <1>1, <1>9, <2>1 DEF ExportFromName
    <3>4. KeptAs(KeptFor(row, "name", key), Said(S, n, "name", t, key), "name", t, key)
        BY <2>2 DEF FunctionKinds, Asked
    <3>. QED BY <3>2, <3>3, <3>4 DEF KeptAs
  <2>5. ASSUME NEW ord \in Nat \ {0}
        PROVE  AnswersAs(ExportFromOrdinal(tables, t, ord), Said(S, n, "ordinal", t, ord), "ordinal", t, ord)
    <3>1. KeptFor(row, "ordinal", ord) = GetOrdinal(row.unnamed, ord)
        BY DEF KeptFor
    <3>2. ExportFromOrdinal(tables, t, ord) = decode_address(GetOrdinal(row.unnamed, ord), t)
        BY <1>1, <1>9, <2>1 DEF ExportFromOrdinal
    <3>3. KeptAs(KeptFor(row, "ordinal", ord), Said(S, n, "ordinal", t, ord), "ordinal", t, ord)
        BY <2>2 DEF FunctionKinds, Asked
    <3>. QED BY <3>1, <3>2, <3>3 DEF KeptAs
  <2>. QED BY <1>1, <2>4, <2>5
<1>. QED BY <1>8, <1>9

LEMMA OrdinalsAre ==
  ASSUME NEW t \in Targets
  PROVE  Ordinals(t) \subseteq Nat \ {0}
<1>1. DOMAIN System[t].functions = 1..Len(System[t].functions)
    BY SystemAssumption
<1>2. ASSUME NEW lib \in Libs, NEW e \in ToSet(FunctionsOf(lib, "ordinal", t))
      PROVE  e.key \in Nat \ {0}
  <2>1. PICK own : own = {k \in DOMAIN LibTables[lib] : LibTables[lib][k].target = t}
      OBVIOUS
  <2>2. own # {}
    <3>1. ToSet(<<>>) = {}
        BY DEF ToSet
    <3>. QED BY <1>2, <2>1, <3>1 DEF FunctionsOf
  <2>3. DOMAIN LibTables[lib] = 1..Len(LibTables[lib])
        /\ \A k \in DOMAIN LibTables[lib] : LibTables[lib][k].ordinals \in OrdinalApis
    <3>1. PICK R : R = [target : Targets, named : NamedApis, ordinals : OrdinalApis]
        OBVIOUS
    <3>2. LibTables[lib] \in Seq(R)
        BY <3>1, TablesAssumption
    <3>3. \A r \in R : r.ordinals \in OrdinalApis
        BY <3>1
    <3>. QED BY <3>2, <3>3
  <2>4. PICK k \in DOMAIN LibTables[lib] : k = Min(own)
    <3>1. own \in SUBSET Nat
        BY <2>1, <2>3
    <3>2. Min(own) \in own
        BY <2>2, <3>1, Minimum
    <3>. QED BY <2>1, <3>2
  <2>5. PICK src : src = LibTables[lib][k].ordinals
      OBVIOUS
  <2>6. e \in ToSet(src)
      BY <1>2, <2>1, <2>2, <2>4, <2>5 DEF FunctionsOf
  <2>7. PICK E : E = [key : Nat \ {0}, addr : Dword]
      OBVIOUS
  <2>8. src \in Seq(E)
      BY <2>3, <2>5, <2>7 DEF OrdinalApis
  <2>9. e \in E
      BY <2>6, <2>8 DEF ToSet
  <2>. QED BY <2>7, <2>9
<1>3. \A f \in 1..Len(System[t].functions) : f \in Nat \ {0}
    BY SystemAssumption
<1>. QED BY <1>1, <1>2, <1>3 DEF Ordinals

LEMMA LookupsHold ==
  ASSUME ConfigurationsInv, TablesTypeOK, LookupsInv
  PROVE  LookupsAreAsConfigured
<1> SUFFICES ASSUME NEW c \in ToSet(apiconfs), NEW t \in Targets
             PROVE  /\ \A key \in Names, hint \in 0..Cardinality(Names) :
                         Reaches(ExportFromName(c.tables, t, hint, key),
                                 Said(ini.sections, SectionOf(c), "name", t, key))
                    /\ \A ord \in Ordinals(t) :
                         LET said == Said(ini.sections, SectionOf(c), "ordinal", t, ord)
                         IN  \/ Reaches(ExportFromOrdinal(c.tables, t, ord), said)
                             \/ Stray(t, ord) /\ said = Nowhere
    BY DEF LookupsAreAsConfigured
<1>1. /\ ini \in Inis /\ Len(ini.sections) \in Nat /\ DOMAIN ini.sections = 1..Len(ini.sections)
      /\ \A j, k \in 1..Len(ini.sections) : SectionName(j) = SectionName(k) => j = k
      /\ DOMAIN apiconfs = 1..Len(apiconfs)
      /\ entry \in Nat \ {0} /\ entry <= Len(ini.sections) + 1
    BY SectionsDiffer DEF ConfigurationsInv
<1>2. PICK m \in 1..Len(apiconfs) : c = apiconfs[m]
    BY <1>1 DEF ToSet
<1>3. PICK n \in 1..entry-1 : c.name = SectionName(n) /\ TablesHold(c.tables, n)
    BY <1>2 DEF LookupsInv
<1>4. n \in 1..Len(ini.sections)
    BY <1>1
<1>5. SectionOf(c) = n
    BY <1>1, <1>3, <1>4 DEF SectionOf, SectionName
<1>6. PICK tables : tables = c.tables
    OBVIOUS
<1>7. tables \in Fulls
  <2>1. Full(tables)
      BY <1>6 DEF TablesTypeOK
  <2>. QED BY <2>1, FullIsRows
<1>8. /\ \A key \in Names, hint \in Nat :
           AnswersAs(ExportFromName(tables, t, hint, key), Said(ini.sections, n, "name", t, key),
                     "name", t, key)
      /\ \A ord \in Nat \ {0} :
           AnswersAs(ExportFromOrdinal(tables, t, ord), Said(ini.sections, n, "ordinal", t, ord),
                     "ordinal", t, ord)
    BY <1>1, <1>3, <1>4, <1>6, <1>7, TableAnswers
<1>9. Cardinality(Names) \in Nat
    BY PlacesAssumption, FS_CardinalityType
<1>10. ASSUME NEW key \in Names, NEW hint \in 0..Cardinality(Names)
       PROVE  Reaches(ExportFromName(c.tables, t, hint, key),
                      Said(ini.sections, SectionOf(c), "name", t, key))
  <2>1. hint \in Nat
      BY <1>9
  <2>2. AnswersAs(ExportFromName(tables, t, hint, key), Said(ini.sections, n, "name", t, key),
                  "name", t, key)
      BY <1>8, <2>1
  <2>. QED BY <1>5, <1>6, <2>2 DEF AnswersAs
<1>11. ASSUME NEW ord \in Ordinals(t), NEW said, said = Said(ini.sections, SectionOf(c), "ordinal", t, ord)
       PROVE  \/ Reaches(ExportFromOrdinal(c.tables, t, ord), said)
              \/ Stray(t, ord) /\ said = Nowhere
  <2>1. ord \in Nat \ {0}
      BY OrdinalsAre
  <2>2. AnswersAs(ExportFromOrdinal(tables, t, ord), said, "ordinal", t, ord)
      BY <1>5, <1>8, <1>11, <2>1
  <2>. QED BY <1>6, <2>2 DEF AnswersAs
<1>. QED BY <1>10, <1>11

-----------------------------------------------------------------------------
(* Tables while the core starts and processes run *)

(* The tables keep their types: addresses are dwords, names are in order and *)
(* each is there once, in every configuration and table, whatever entries of *)
(* core.ini fail; apilib_ptrs begins with STD and has no library twice.      *)
THEOREM TypesOfTables == ImportsSpec => []TablesTypeOK
<1>1. ImportsInit => ConfigurationsInv /\ TablesTypeOK
    BY ConfigurationsInitially, TypesInitially DEF ImportsInit
<1>2. ConfigurationsInv /\ TablesTypeOK /\ [ImportsNext]_importsVars
        => (ConfigurationsInv /\ TablesTypeOK)'
    BY ConfigurationsStep, TypesStep, TablesStep
<1>. QED BY <1>1, <1>2, PTL DEF ImportsSpec

\* Whatever hint the loader has, a name is found in every table that has it.
LookupsFind ==
  \A c \in ToSet(apiconfs), hint \in Nat, key \in Names : \A i \in DOMAIN c.tables :
    GetNamed(c.tables[i].named, hint, key) = AddressOf(c.tables[i].named, key)

(* get(table_id, hint, api_name): "Api address or 0 if api address not found". *)
(* The binary search ends where the name is, or finds that it is not there, in *)
(* every configuration and from every hint, a wrong one too.                   *)
THEOREM Lookups == ImportsSpec => []LookupsFind
<1>1. TablesTypeOK => LookupsFind
  <2> SUFFICES ASSUME TablesTypeOK, NEW c \in ToSet(apiconfs), NEW hint \in Nat,
                      NEW key \in Names, NEW i \in DOMAIN c.tables
               PROVE  GetNamed(c.tables[i].named, hint, key) = AddressOf(c.tables[i].named, key)
      BY DEF LookupsFind
  <2>1. PICK tables : tables = c.tables
      OBVIOUS
  <2>2. tables \in Fulls
      BY <2>1, FullIsRows DEF TablesTypeOK
  <2>3. i \in 1..Len(tables)
      BY <2>1, <2>2 DEF Fulls
  <2>4. tables[i].named \in NamedApis /\ Increasing(tables[i].named)
      BY <2>2, <2>3, RowOf
  <2>5. key \in Int
      BY TablesAssumption
  <2>. QED BY <2>1, <2>4, <2>5, GetNamedFinds
<1>. QED BY <1>1, TypesOfTables, PTL

(* apiconf.cpp, get: "Api address or 0 if api address not found".  Whatever the *)
(* libraries and core.ini are, whatever entries fail and whatever hint the      *)
(* loader has: in every configuration that is loaded a function is found where  *)
(* the last override, else the last library that has it, else what is inherited *)
(* says, and where no one speaks of it in its DLL.                              *)
THEOREM FunctionsComeAsConfigured == ImportsSpec => []LookupsAreAsConfigured
<1> DEFINE Inv == ConfigurationsInv /\ TablesTypeOK /\ LookupsInv
<1>1. ImportsInit => Inv
    BY ConfigurationsInitially, TypesInitially, LookupsInitially DEF ImportsInit
<1>2. Inv /\ [ImportsNext]_importsVars => Inv'
    BY ConfigurationsStep, TypesStep, LookupsStep, TablesStep
<1>3. Inv => LookupsAreAsConfigured
    BY LookupsHold
<1>. QED BY <1>1, <1>2, <1>3, PTL DEF ImportsSpec

-----------------------------------------------------------------------------
(* The inductive invariant of processes *)

Lists == [data : Seq(Libs), init : Nat]

\* An import leaves what it does not touch of its thread alone.
ThreadShape ==
  /\ DOMAIN thread = Procs
  /\ \A p \in Procs :
       /\ DOMAIN thread[p] = Kinds
       /\ \A k \in Kinds :
            thread[p][k] = [at |-> At(p, k), fun |-> Fun(p, k), mi |-> Mi(p, k),
                            libs |-> thread[p][k].libs]

ProcessTypes ==
  /\ base \in [Procs -> [Libs -> Nat]] /\ uses \in [Procs -> [Libs -> Nat]]
  /\ modinits \in [Procs -> Seq(Lists)] /\ modinit \in [Procs -> Nat]
  /\ attached \in [Procs -> SUBSET Libs] /\ refused \in [Procs -> SUBSET Libs]
  /\ DOMAIN bound = Procs
  /\ ThreadShape

\* A library that was loaded is there until it refuses to start.
Present(p, lib) == base[p][lib] # 0 \/ lib \in refused[p]

\* What a library is to a process: it is somewhere while it is used.
LibraryHolds(p, lib) ==
  /\ base[p][lib] \in Bases \cup {0, Handle[lib]}
  /\ base[p][lib] = 0 <=> uses[p][lib] = 0

\* An import knows its library and its list.  Only GetProcAddress starts libraries, so
\* none is freed while it does.
ThreadHolds(p, k) ==
  /\ At(p, k) \in {"instance", "make", "scan", "load", "start", "mark", "attach"} =>
       Lib(p, k) \in Libs
  /\ At(p, k) \in {"scan", "load", "start", "mark", "attach"} =>
       Mi(p, k) \in 1..Len(modinits[p])
  /\ At(p, k) \in {"start", "mark"} => Lib(p, k) \in ToSet(Data(p, Mi(p, k)))
  /\ At(p, k) \in {"start", "mark", "attach"} =>
       Present(p, Lib(p, k))
  /\ At(p, k) = "start" => k = "dynamic" /\ base[p][Lib(p, k)] # 0
  /\ At(p, k) \in {"imports", "notify", "attach", "running"} => k = "static"

\* A list has what was loaded, and what of it was initialised has been started or has
\* refused to, but for the one that is being.
ListHolds(p, mi) ==
  /\ modinits[p][mi].init <= Len(Data(p, mi))
  /\ \A lib \in ToSet(Data(p, mi)) : Present(p, lib)
  /\ \A j \in 1..modinits[p][mi].init :
       \/ Data(p, mi)[j] \in attached[p] \cup refused[p]
       \/ At(p, "static") = "attach" /\ Lib(p, "static") = Data(p, mi)[j]

\* What a module imports is in some list; and if there was one when its imports were
\* resolved, it is initialised with one.
LoadHolds(p) ==
  /\ \A lib \in thread[p]["static"].libs :
       \E mi \in 1..Len(modinits[p]) : lib \in ToSet(Data(p, mi))
  /\ At(p, "static") \in {"notify", "attach"} =>
       /\ Mi(p, "static") \in 0..Len(modinits[p])
       /\ thread[p]["static"].libs # {} => Mi(p, "static") # 0
  /\ At(p, "static") = "running" /\ Len(modinits[p]) <= 1 =>
       thread[p]["static"].libs \subseteq attached[p] \cup refused[p]

\* While all libraries start: an import that goes on to load its library will list it,
\* one that has loaded it will mark its IMTE, by which others find it.
Loads(p, k, mi, lib) ==
  IF At(p, k) = "load" /\ Mi(p, k) = mi /\ Lib(p, k) = lib THEN 1 ELSE 0
Marks(p, k, mi, lib) ==
  IF At(p, k) \in {"start", "mark"} /\ Mi(p, k) = mi /\ Lib(p, k) = lib THEN 1 ELSE 0
Occurrences(data, lib) == Cardinality({j \in DOMAIN data : data[j] = lib})

ListedAtMostTwice(p, mi, lib) ==
  LET n == Occurrences(Data(p, mi), lib)
  IN  /\ n + Loads(p, "static", mi, lib) + Loads(p, "dynamic", mi, lib) <= 2
      /\ <<lib, base[p][lib]>> \notin marked =>
           n <= Marks(p, "static", mi, lib) + Marks(p, "dynamic", mi, lib)

\* An import is bound in the instance that the process has now.
Binds(p, b) ==
  /\ b.fun.in \in Libs
  /\ b.fun.in \notin refused[p] =>
       base[p][b.fun.in] # 0 /\ b.address = base[p][b.fun.in] + b.fun.at

\* Krnl32lock is owned by the process that resolves a module's imports.
LockHolds(p) ==
  krnl32lock = p <=> At(p, "static") \notin {"idle", "notify", "attach", "running"}

ProcessHolds(p) ==
  /\ \A lib \in Libs : LibraryHolds(p, lib)
  /\ \A k \in Kinds : ThreadHolds(p, k)
  /\ modinit[p] = Len(modinits[p])
  /\ \A mi \in 1..Len(modinits[p]) : ListHolds(p, mi)
  /\ LoadHolds(p)
  /\ refused[p] = {} =>
       \A mi \in 1..Len(modinits[p]), lib \in Libs : ListedAtMostTwice(p, mi, lib)
  /\ \A b \in bound[p] : Binds(p, b)

ProcessesInv ==
  ProcessTypes /\ \A p \in Procs : ProcessHolds(p) /\ LockHolds(p)

-----------------------------------------------------------------------------
(* A step of one import *)

\* Of another process IMTEs of libraries it has keep their index.
Untouched(q) ==
  /\ base'[q] = base[q] /\ uses'[q] = uses[q] /\ modinits'[q] = modinits[q]
  /\ modinit'[q] = modinit[q] /\ attached'[q] = attached[q] /\ refused'[q] = refused[q]
  /\ thread'[q] = thread[q] /\ bound'[q] = bound[q]
  /\ \A lib \in Libs : base[q][lib] # 0 /\ <<lib, base[q][lib]>> \in marked =>
       <<lib, base[q][lib]>> \in marked'

LEMMA NoOccurrences ==
  ASSUME NEW data \in Seq(Libs), NEW lib \in Libs
  PROVE  /\ Occurrences(data, lib) \in Nat
         /\ Occurrences(data, lib) = 0 <=> lib \notin ToSet(data)
<1> DEFINE at == {j \in DOMAIN data : data[j] = lib}
<1>1. DOMAIN data = 1..Len(data) /\ Len(data) \in Nat
    OBVIOUS
<1>2. IsFiniteSet(at)
    BY <1>1, FS_Interval, FS_Subset, at \subseteq 1..Len(data), 1 \in Int, Len(data) \in Int
<1>3. Cardinality(at) \in Nat /\ (Cardinality(at) = 0 <=> at = {})
    BY <1>2, FS_CardinalityType, FS_EmptySet
<1>4. at = {} <=> lib \notin ToSet(data)
    BY DEF ToSet
<1>. QED BY <1>3, <1>4 DEF Occurrences

LEMMA OccursOnceMore ==
  ASSUME NEW data \in Seq(Libs), NEW lib \in Libs, NEW x \in Libs
  PROVE  Occurrences(Append(data, x), lib) =
           IF x = lib THEN Occurrences(data, lib) + 1 ELSE Occurrences(data, lib)
<1> DEFINE at == {j \in DOMAIN data : data[j] = lib}
           new == {j \in DOMAIN Append(data, x) : Append(data, x)[j] = lib}
           len == Len(data)
<1>1. /\ DOMAIN data = 1..len /\ len \in Nat /\ DOMAIN Append(data, x) = 1..len+1
      /\ \A j \in 1..len : Append(data, x)[j] = data[j]
      /\ Append(data, x)[len + 1] = x
    OBVIOUS
<1>2. IsFiniteSet(at)
    BY <1>1, FS_Interval, FS_Subset, at \subseteq 1..len, 1 \in Int, len \in Int
<1> HIDE DEF len
<1>3. at \subseteq 1..len /\ len + 1 \notin at
    BY <1>1
<1>4. CASE x = lib
  <2>1. new = at \cup {len + 1}
      BY <1>1, <1>4
  <2>2. Cardinality(new) = Cardinality(at) + 1
      BY <1>2, <1>3, <2>1, FS_AddElement
  <2>. QED BY <1>4, <2>2 DEF Occurrences
<1>5. CASE x # lib
  <2>1. new = at
      BY <1>1, <1>5
  <2>. QED BY <1>5, <2>1 DEF Occurrences
<1>. QED BY <1>4, <1>5

LEMMA ListTypes ==
  ASSUME ProcessTypes, NEW p \in Procs
  PROVE  /\ Len(modinits[p]) \in Nat
         /\ \A mi \in 1..Len(modinits[p]) :
              /\ modinits[p][mi] \in Lists /\ Data(p, mi) \in Seq(Libs)
              /\ DOMAIN Data(p, mi) = 1..Len(Data(p, mi)) /\ Len(Data(p, mi)) \in Nat
<1>1. modinits[p] \in Seq(Lists)
    BY DEF ProcessTypes
<1>2. ASSUME NEW mi \in 1..Len(modinits[p])
      PROVE  /\ modinits[p][mi] \in Lists /\ Data(p, mi) \in Seq(Libs)
             /\ DOMAIN Data(p, mi) = 1..Len(Data(p, mi)) /\ Len(Data(p, mi)) \in Nat
  <2>1. modinits[p][mi] \in Lists
      BY <1>1, <1>2
  <2>2. modinits[p][mi].data \in Seq(Libs)
      BY <2>1 DEF Lists
  <2>3. PICK s \in Seq(Libs) : s = Data(p, mi)
      BY <2>2 DEF Data
  <2>4. DOMAIN s = 1..Len(s) /\ Len(s) \in Nat
      OBVIOUS
  <2>. QED BY <2>1, <2>3, <2>4
<1>. QED BY <1>1, <1>2

\* One list of a process is replaced.
Replaces(p, mi, list) == modinits' = [modinits EXCEPT ![p] = [modinits[p] EXCEPT ![mi] = list]]

LEMMA OneListMoves ==
  ASSUME modinits \in [Procs -> Seq(Lists)], NEW p \in Procs,
         NEW mi \in 1..Len(modinits[p]), NEW list \in Lists,
         Replaces(p, mi, list)
  PROVE  /\ modinits' \in [Procs -> Seq(Lists)] /\ Len(modinits'[p]) = Len(modinits[p])
         /\ modinits'[p][mi] = list
         /\ \A m \in 1..Len(modinits[p]) \ {mi} : modinits'[p][m] = modinits[p][m]
         /\ \A q \in Procs \ {p} : modinits'[q] = modinits[q]
<1>1. PICK s \in Seq(Lists) : s = modinits[p]
    OBVIOUS
<1>2. PICK t : t = [s EXCEPT ![mi] = list]
    OBVIOUS
<1>3. mi \in 1..Len(s)
    BY <1>1
<1>4. /\ t \in Seq(Lists) /\ Len(t) = Len(s) /\ t[mi] = list
      /\ \A m \in 1..Len(s) \ {mi} : t[m] = s[m]
    BY <1>2, <1>3
<1>5. modinits' = [modinits EXCEPT ![p] = t]
    BY <1>1, <1>2 DEF Replaces
<1>6. /\ modinits' \in [Procs -> Seq(Lists)] /\ modinits'[p] = t
      /\ \A q \in Procs \ {p} : modinits'[q] = modinits[q]
    BY <1>4, <1>5
<1>. QED BY <1>1, <1>4, <1>6

(* A process that does nothing keeps what holds of it. *)
LEMMA UntouchedHolds ==
  ASSUME ProcessTypes, NEW q \in Procs, ProcessHolds(q), Untouched(q)
  PROVE  ProcessHolds(q)'
<1>1. /\ base[q] \in [Libs -> Nat] /\ modinits[q] \in Seq(Lists)
      /\ \A mi : Data(q, mi)' = Data(q, mi)
    BY DEF ProcessTypes, Untouched, Data
<1>2. \A k : /\ At(q, k)' = At(q, k) /\ Fun(q, k)' = Fun(q, k) /\ Lib(q, k)' = Lib(q, k)
             /\ Mi(q, k)' = Mi(q, k)
    BY DEF Untouched, At, Fun, Lib, Mi
<1>3. \A lib : Present(q, lib)' <=> Present(q, lib)
    BY DEF Present, Untouched
<1>4. (\A lib \in Libs : LibraryHolds(q, lib)') /\ (\A k \in Kinds : ThreadHolds(q, k)')
      /\ modinit'[q] = Len(modinits'[q])
    BY <1>1, <1>2, <1>3 DEF ProcessHolds, LibraryHolds, ThreadHolds, Untouched
<1>5. \A mi \in 1..Len(modinits'[q]) : ListHolds(q, mi)'
    BY <1>1, <1>2, <1>3 DEF ProcessHolds, ListHolds, Untouched
<1>6. LoadHolds(q)' /\ \A b \in bound'[q] : Binds(q, b)'
    BY <1>1, <1>2 DEF ProcessHolds, LoadHolds, Binds, Untouched
<1>7. ASSUME refused'[q] = {}, NEW mi \in 1..Len(modinits'[q]), NEW lib \in Libs
      PROVE  ListedAtMostTwice(q, mi, lib)'
  <2>1. /\ refused[q] = {} /\ mi \in 1..Len(modinits[q]) /\ ListedAtMostTwice(q, mi, lib)
        /\ ListHolds(q, mi)
      BY <1>7 DEF Untouched, ProcessHolds
  <2>2. \A k : Loads(q, k, mi, lib)' = Loads(q, k, mi, lib)
               /\ Marks(q, k, mi, lib)' = Marks(q, k, mi, lib)
      BY <1>2 DEF Loads, Marks
  <2>3. Data(q, mi) \in Seq(Libs)
      BY <2>1, ListTypes
  <2>4. CASE base[q][lib] = 0
    <3>1. Occurrences(Data(q, mi), lib) = 0
        BY <2>1, <2>3, <2>4, NoOccurrences DEF ListHolds, Present
    <3>. QED BY <1>1, <2>1, <2>2, <3>1 DEF ListedAtMostTwice, Marks
  <2>5. CASE base[q][lib] # 0
      BY <1>1, <2>1, <2>2, <2>5 DEF ListedAtMostTwice, Untouched
  <2>. QED BY <2>4, <2>5
<1>. QED BY <1>4, <1>5, <1>6, <1>7 DEF ProcessHolds

Goes(p, k, at, fun, mi, libs) ==
  thread' = [thread EXCEPT ![p][k] = [at |-> at, fun |-> fun, mi |-> mi, libs |-> libs]]

LEMMA ThreadMoves ==
  ASSUME ThreadShape, NEW p \in Procs, NEW k \in Kinds,
         NEW at, NEW fun, NEW mi, NEW libs, Goes(p, k, at, fun, mi, libs)
  PROVE  /\ ThreadShape'
         /\ At(p, k)' = at /\ Fun(p, k)' = fun /\ Lib(p, k)' = fun.in /\ Mi(p, k)' = mi
         /\ thread'[p][k].libs = libs
         /\ \A j \in Kinds \ {k} : thread'[p][j] = thread[p][j]
         /\ \A q \in Procs \ {p} : thread'[q] = thread[q]
<1>1. /\ thread'[p][k] = [at |-> at, fun |-> fun, mi |-> mi, libs |-> libs]
      /\ \A j \in Kinds \ {k} : thread'[p][j] = thread[p][j]
      /\ \A q \in Procs \ {p} : thread'[q] = thread[q]
      /\ DOMAIN thread' = Procs /\ \A q \in Procs : DOMAIN thread'[q] = Kinds
    BY DEF ThreadShape, Goes
<1>2. /\ At(p, k)' = at /\ Fun(p, k)' = fun /\ Lib(p, k)' = fun.in /\ Mi(p, k)' = mi
      /\ thread'[p][k].libs = libs
    BY <1>1 DEF At, Fun, Lib, Mi
<1>3. ASSUME NEW q \in Procs, NEW j \in Kinds
      PROVE  thread'[q][j] = [at |-> At(q, j)', fun |-> Fun(q, j)', mi |-> Mi(q, j)',
                              libs |-> thread'[q][j].libs]
  <2>1. CASE q = p /\ j = k
      BY <1>1, <1>2, <2>1
  <2>2. CASE ~(q = p /\ j = k)
    <3>1. thread'[q][j] = thread[q][j]
        BY <1>1, <2>2
    <3>. QED BY <3>1 DEF ThreadShape, At, Fun, Mi
  <2>. QED BY <2>1, <2>2
<1>. QED BY <1>1, <1>2, <1>3 DEF ThreadShape

(* A step that loads and frees nothing of its process, and lists nothing. *)
LEMMA ThreadStep ==
  ASSUME ProcessTypes, NEW p \in Procs, NEW k \in Kinds, ProcessHolds(p),
         NEW at, NEW fun, NEW mi, NEW libs, Goes(p, k, at, fun, mi, libs),
         UNCHANGED <<base, uses, modinits, modinit>>,
         attached' \in [Procs -> SUBSET Libs], attached[p] \subseteq attached'[p],
         refused' \in [Procs -> SUBSET Libs], refused[p] \subseteq refused'[p],
         DOMAIN bound' = Procs,
         ThreadHolds(p, k)',
         k = "static" => LoadHolds(p)',
         \A b \in bound'[p] : b \in bound[p] \/ Binds(p, b)',
         k = "static" /\ At(p, k) = "attach" => Lib(p, k) \in attached'[p] \cup refused'[p],
         refused'[p] = {} =>
           \A m \in 1..Len(modinits[p]), lib \in Libs : ListedAtMostTwice(p, m, lib)'
  PROVE  ProcessTypes' /\ ProcessHolds(p)'
<1>1. ThreadShape
    BY DEF ProcessTypes
<1>2. /\ ThreadShape'
      /\ At(p, k)' = at /\ Lib(p, k)' = fun.in /\ Mi(p, k)' = mi
      /\ \A j \in Kinds \ {k} :
           /\ thread'[p][j] = thread[p][j]
           /\ At(p, j)' = At(p, j) /\ Lib(p, j)' = Lib(p, j) /\ Mi(p, j)' = Mi(p, j)
  <2>1. /\ ThreadShape'
        /\ At(p, k)' = at /\ Lib(p, k)' = fun.in /\ Mi(p, k)' = mi
        /\ \A j \in Kinds \ {k} : thread'[p][j] = thread[p][j]
      BY <1>1, ThreadMoves
  <2>. QED BY <2>1 DEF At, Fun, Lib, Mi
<1>3. ProcessTypes'
    BY <1>2 DEF ProcessTypes
<1>4. \A lib : Present(p, lib) => Present(p, lib)'
    BY DEF Present
<1>5. \A m : Data(p, m)' = Data(p, m)
    BY DEF Data
<1>6. (\A lib \in Libs : LibraryHolds(p, lib)') /\ modinit'[p] = Len(modinits'[p])
    BY DEF ProcessHolds, LibraryHolds
<1>7. \A j \in Kinds : ThreadHolds(p, j)'
  <2>1. ASSUME NEW j \in Kinds \ {k} PROVE ThreadHolds(p, j)'
    <3>1. ThreadHolds(p, j)
        BY DEF ProcessHolds
    <3>. QED BY <1>2, <1>4, <1>5, <3>1 DEF ThreadHolds
  <2>. QED BY <2>1
<1>8. ASSUME NEW m \in 1..Len(modinits'[p]) PROVE ListHolds(p, m)'
  <2>1. ListHolds(p, m)
      BY <1>8 DEF ProcessHolds
  <2>2. ASSUME NEW j \in 1..modinits[p][m].init
        PROVE  \/ Data(p, m)[j] \in attached'[p] \cup refused'[p]
               \/ At(p, "static")' = "attach" /\ Lib(p, "static")' = Data(p, m)[j]
      BY <1>2, <2>1 DEF ListHolds, Kinds
  <2>. QED BY <1>4, <1>5, <2>1, <2>2 DEF ListHolds
<1>9. LoadHolds(p)'
  <2>1. CASE k # "static"
    <3>1. LoadHolds(p) /\ "static" \in Kinds \ {k}
        BY <2>1 DEF ProcessHolds, Kinds
    <3>. QED BY <1>2, <1>5, <3>1 DEF LoadHolds
  <2>. QED BY <2>1
<1>10. ASSUME NEW b \in bound'[p] PROVE Binds(p, b)'
  <2>1. CASE b \in bound[p]
      BY <2>1 DEF ProcessHolds, Binds
  <2>. QED BY <2>1
<1>. QED BY <1>3, <1>6, <1>7, <1>8, <1>9, <1>10 DEF ProcessHolds

LEMMA OthersHold ==
  ASSUME ProcessesInv, NEW p \in Procs, ProcessTypes', ProcessHolds(p)',
         \A q \in Procs \ {p} : Untouched(q), \A q \in Procs : LockHolds(q)'
  PROVE  ProcessesInv'
<1>1. ASSUME NEW q \in Procs \ {p} PROVE ProcessHolds(q)'
    BY UntouchedHolds DEF ProcessesInv
<1>. QED BY <1>1 DEF ProcessesInv

LEMMA StillListed ==
  ASSUME ProcessesInv, NEW p \in Procs, NEW k \in Kinds,
         UNCHANGED <<base, refused>>, marked \subseteq marked',
         \A m \in 1..Len(modinits[p]) : Data(p, m)' = Data(p, m),
         \A j \in Kinds \ {k} : thread'[p][j] = thread[p][j],
         At(p, k) \notin {"start", "mark"}, At(p, k)' \notin {"load", "start", "mark"}
  PROVE  refused'[p] = {} =>
           \A m \in 1..Len(modinits[p]), lib \in Libs : ListedAtMostTwice(p, m, lib)'
<1> SUFFICES ASSUME refused'[p] = {}, NEW m \in 1..Len(modinits[p]), NEW lib \in Libs
             PROVE  ListedAtMostTwice(p, m, lib)'
    OBVIOUS
<1>1. ListedAtMostTwice(p, m, lib)
    BY DEF ProcessesInv, ProcessHolds
<1>2. Occurrences(Data(p, m), lib) \in Nat /\ Data(p, m)' = Data(p, m)
    BY ListTypes, NoOccurrences DEF ProcessesInv, Data
<1>3. \A j \in Kinds : /\ Loads(p, j, m, lib)' \in 0..Loads(p, j, m, lib)
                       /\ Marks(p, j, m, lib)' = Marks(p, j, m, lib)
                       /\ Loads(p, j, m, lib) \in 0..1 /\ Marks(p, j, m, lib) \in 0..1
    BY DEF Loads, Marks, At, Fun, Lib, Mi
<1>. QED BY <1>1, <1>2, <1>3 DEF ListedAtMostTwice, Kinds

(* A step that changes nothing that its process shares. *)
LEMMA QuietStep ==
  ASSUME ProcessesInv, NEW p \in Procs, NEW k \in Kinds,
         NEW at, NEW fun, NEW mi, NEW libs, Goes(p, k, at, fun, mi, libs),
         UNCHANGED processVars,
         DOMAIN bound' = Procs, \A q \in Procs \ {p} : bound'[q] = bound[q],
         At(p, k) \notin {"start", "mark", "attach"}, at \notin {"load", "start", "mark"},
         ThreadHolds(p, k)',
         k = "static" => LoadHolds(p)',
         \A b \in bound'[p] : b \in bound[p] \/ Binds(p, b)',
         \A q \in Procs : LockHolds(q)'
  PROVE  ProcessesInv'
<1>1. /\ ProcessTypes /\ ProcessHolds(p) /\ ThreadShape
      /\ attached \in [Procs -> SUBSET Libs] /\ refused \in [Procs -> SUBSET Libs]
    BY DEF ProcessesInv, ProcessTypes
<1>2. /\ At(p, k)' = at
      /\ \A j \in Kinds \ {k} : thread'[p][j] = thread[p][j]
      /\ \A q \in Procs \ {p} : thread'[q] = thread[q]
    BY <1>1, ThreadMoves
<1>3. refused'[p] = {} =>
        \A m \in 1..Len(modinits[p]), lib \in Libs : ListedAtMostTwice(p, m, lib)'
  <2>1. /\ UNCHANGED <<base, refused>> /\ marked \subseteq marked'
        /\ \A m \in 1..Len(modinits[p]) : Data(p, m)' = Data(p, m)
      BY DEF processVars, Data
  <2>. QED BY <1>2, <2>1, StillListed
<1>4. ProcessTypes' /\ ProcessHolds(p)'
    BY <1>1, <1>3, ThreadStep DEF processVars
<1>5. \A q \in Procs \ {p} : Untouched(q)
    BY <1>2 DEF Untouched, processVars
<1>. QED BY <1>4, <1>5, OthersHold

(* The lock changes hands as the imports of a module begin and end. *)
LEMMA LocksHold ==
  ASSUME ProcessesInv, NEW p \in Procs, NEW k \in Kinds,
         \A j \in Kinds \ {k} : At(p, j)' = At(p, j),
         \A q \in Procs \ {p} : At(q, "static")' = At(q, "static"),
         \/ k = "static" /\ krnl32lock = p /\ krnl32lock' = Nobody
               /\ At(p, k)' \in {"idle", "notify", "attach", "running"}
         \/ k = "static" /\ krnl32lock = Nobody /\ krnl32lock' = p
               /\ At(p, k)' \notin {"idle", "notify", "attach", "running"}
         \/ /\ krnl32lock' = krnl32lock
            /\ k = "static" =>
                 (At(p, k)' \in {"idle", "notify", "attach", "running"}
                   <=> At(p, k) \in {"idle", "notify", "attach", "running"})
  PROVE  \A q \in Procs : LockHolds(q)'
<1>1. Nobody \notin Procs
    BY ImportsAssumption
<1>2. LockHolds(p)'
    BY <1>1 DEF ProcessesInv, LockHolds, Kinds
<1>3. ASSUME NEW q \in Procs \ {p} PROVE LockHolds(q)'
    BY <1>1 DEF ProcessesInv, LockHolds, Kinds
<1>. QED BY <1>2, <1>3

-----------------------------------------------------------------------------
(* The steps *)

LEMMA Threads ==
  ASSUME ProcessesInv, NEW p \in Procs, NEW k \in Kinds
  PROVE  /\ ProcessTypes /\ ThreadShape /\ ProcessHolds(p) /\ ThreadHolds(p, k) /\ LoadHolds(p)
         /\ modinit[p] = Len(modinits[p]) /\ Len(modinits[p]) \in Nat
         /\ thread[p][k] = [at |-> At(p, k), fun |-> Fun(p, k), mi |-> Mi(p, k),
                            libs |-> thread[p][k].libs]
         /\ DOMAIN thread = Procs /\ DOMAIN thread[p] = Kinds
<1>1. ProcessTypes /\ ThreadShape /\ ProcessHolds(p)
    BY DEF ProcessesInv, ProcessTypes
<1>. QED BY <1>1, ListTypes DEF ProcessHolds, ThreadShape

LEMMA Moved ==
  ASSUME ProcessesInv, NEW p \in Procs, NEW k \in Kinds,
         NEW at, NEW fun, NEW mi, NEW libs, Goes(p, k, at, fun, mi, libs)
  PROVE  /\ At(p, k)' = at /\ Fun(p, k)' = fun /\ Lib(p, k)' = fun.in /\ Mi(p, k)' = mi
         /\ thread'[p][k].libs = libs
         /\ \A j \in Kinds \ {k} : At(p, j)' = At(p, j)
         /\ \A q \in Procs \ {p} :
              thread'[q] = thread[q] /\ At(q, "static")' = At(q, "static")
<1>1. /\ At(p, k)' = at /\ Fun(p, k)' = fun /\ Lib(p, k)' = fun.in /\ Mi(p, k)' = mi
      /\ thread'[p][k].libs = libs
      /\ \A j \in Kinds \ {k} : thread'[p][j] = thread[p][j]
      /\ \A q \in Procs \ {p} : thread'[q] = thread[q]
  <2>1. ThreadShape
      BY Threads
  <2>. QED BY <2>1, ThreadMoves
<1>. QED BY <1>1 DEF At

(* A step that sets fields of a thread sets it to a whole. *)
LEMMA ThreadGoes ==
  ASSUME ProcessesInv, NEW p \in Procs, NEW k \in Kinds,
         NEW at, NEW fun, NEW mi, NEW libs,
         \/ /\ To(p, k, at)
            /\ fun = Fun(p, k) /\ mi = Mi(p, k) /\ libs = thread[p][k].libs
         \/ /\ thread' = [thread EXCEPT ![p][k].fun = fun, ![p][k].at = at]
            /\ mi = Mi(p, k) /\ libs = thread[p][k].libs
         \/ /\ thread' = [thread EXCEPT ![p][k].at = at, ![p][k].fun = fun]
            /\ mi = Mi(p, k) /\ libs = thread[p][k].libs
         \/ /\ thread' = [thread EXCEPT ![p][k].mi = mi, ![p][k].at = at]
            /\ fun = Fun(p, k) /\ libs = thread[p][k].libs
         \/ /\ thread' = [thread EXCEPT ![p][k].at = at, ![p][k].mi = mi]
            /\ fun = Fun(p, k) /\ libs = thread[p][k].libs
         \/ thread' = [thread EXCEPT ![p][k] = Idle] /\ at = "idle" /\ fun = Nowhere /\ mi = 0
              /\ libs = {}
  PROVE  Goes(p, k, at, fun, mi, libs)
<1>1. /\ thread[p][k] = [at |-> At(p, k), fun |-> Fun(p, k), mi |-> Mi(p, k),
                         libs |-> thread[p][k].libs]
      /\ DOMAIN thread = Procs /\ DOMAIN thread[p] = Kinds
    BY Threads
<1> DEFINE new == [at |-> at, fun |-> fun, mi |-> mi, libs |-> libs]
           t == thread[p][k]
<1>2. CASE /\ To(p, k, at)
           /\ fun = Fun(p, k) /\ mi = Mi(p, k) /\ libs = thread[p][k].libs
  <2>1. [t EXCEPT !.at = at] = new
      BY <1>1, <1>2
  <2>. QED BY <1>2, <2>1 DEF Goes, To
<1>3. CASE /\ thread' = [thread EXCEPT ![p][k].fun = fun, ![p][k].at = at]
           /\ mi = Mi(p, k) /\ libs = thread[p][k].libs
  <2> DEFINE one == [at |-> At(p, k), fun |-> fun, mi |-> Mi(p, k), libs |-> t.libs]
  <2>1. [t EXCEPT !.fun = fun] = one
      BY <1>1
  <2>2. [one EXCEPT !.at = at] = new
      BY <1>3
  <2>3. thread' = [thread EXCEPT ![p] = [thread[p] EXCEPT ![k] =
                     [[t EXCEPT !.fun = fun] EXCEPT !.at = at]]]
      BY <1>1, <1>3
  <2>. QED BY <2>1, <2>2, <2>3 DEF Goes
<1>4. CASE /\ thread' = [thread EXCEPT ![p][k].at = at, ![p][k].fun = fun]
           /\ mi = Mi(p, k) /\ libs = thread[p][k].libs
  <2> DEFINE one == [at |-> at, fun |-> Fun(p, k), mi |-> Mi(p, k), libs |-> t.libs]
  <2>1. [t EXCEPT !.at = at] = one
      BY <1>1
  <2>2. [one EXCEPT !.fun = fun] = new
      BY <1>4
  <2>3. thread' = [thread EXCEPT ![p] = [thread[p] EXCEPT ![k] =
                     [[t EXCEPT !.at = at] EXCEPT !.fun = fun]]]
      BY <1>1, <1>4
  <2>. QED BY <2>1, <2>2, <2>3 DEF Goes
<1>5. CASE /\ thread' = [thread EXCEPT ![p][k].mi = mi, ![p][k].at = at]
           /\ fun = Fun(p, k) /\ libs = thread[p][k].libs
  <2> DEFINE one == [at |-> At(p, k), fun |-> Fun(p, k), mi |-> mi, libs |-> t.libs]
  <2>1. [t EXCEPT !.mi = mi] = one
      BY <1>1
  <2>2. [one EXCEPT !.at = at] = new
      BY <1>5
  <2>3. thread' = [thread EXCEPT ![p] = [thread[p] EXCEPT ![k] =
                     [[t EXCEPT !.mi = mi] EXCEPT !.at = at]]]
      BY <1>1, <1>5
  <2>. QED BY <2>1, <2>2, <2>3 DEF Goes
<1>6. CASE /\ thread' = [thread EXCEPT ![p][k].at = at, ![p][k].mi = mi]
           /\ fun = Fun(p, k) /\ libs = thread[p][k].libs
  <2> DEFINE one == [at |-> at, fun |-> Fun(p, k), mi |-> Mi(p, k), libs |-> t.libs]
  <2>1. [t EXCEPT !.at = at] = one
      BY <1>1
  <2>2. [one EXCEPT !.mi = mi] = new
      BY <1>6
  <2>3. thread' = [thread EXCEPT ![p] = [thread[p] EXCEPT ![k] =
                     [[t EXCEPT !.at = at] EXCEPT !.mi = mi]]]
      BY <1>1, <1>6
  <2>. QED BY <2>1, <2>2, <2>3 DEF Goes
<1>7. CASE thread' = [thread EXCEPT ![p][k] = Idle] /\ at = "idle" /\ fun = Nowhere /\ mi = 0
             /\ libs = {}
    BY <1>7 DEF Goes, Idle
<1>. QED BY <1>2, <1>3, <1>4, <1>5, <1>6, <1>7

LEMMA BeginLoadKeeps ==
  ASSUME ProcessesInv, NEW p \in Procs, BeginLoad(p)
  PROVE  ProcessesInv'
<1> DEFINE libs == thread[p]["static"].libs
<1>1. /\ "static" \in Kinds /\ At(p, "static") = "idle" /\ To(p, "static", "imports")
      /\ krnl32lock = Nobody /\ krnl32lock' = p
      /\ UNCHANGED processVars /\ UNCHANGED bound
    BY DEF Kinds, BeginLoad
<1>2. Goes(p, "static", "imports", Fun(p, "static"), Mi(p, "static"), libs)
    BY <1>1, ThreadGoes
<1>3. /\ At(p, "static")' = "imports" /\ thread'[p]["static"].libs = libs
      /\ \A j \in Kinds \ {"static"} : At(p, j)' = At(p, j)
      /\ \A q \in Procs \ {p} : At(q, "static")' = At(q, "static")
    BY <1>1, <1>2, Moved
<1>4. ThreadHolds(p, "static")' /\ LoadHolds(p)'
  <2>1. LoadHolds(p)
      BY <1>1, Threads
  <2>. QED BY <1>1, <1>3, <2>1 DEF ThreadHolds, LoadHolds, processVars, Data
<1>5. \A q \in Procs : LockHolds(q)'
    BY <1>1, <1>3, LocksHold
<1>6. DOMAIN bound' = Procs
    BY <1>1 DEF ProcessesInv, ProcessTypes
<1>. QED BY <1>1, <1>2, <1>4, <1>5, <1>6, QuietStep

LEMMA ImportKeeps ==
  ASSUME ProcessesInv, NEW p \in Procs, NEW k \in Kinds, Import(p, k)
  PROVE  ProcessesInv'
<1> DEFINE libs == thread[p][k].libs
<1>1. PICK fun : /\ fun.in \in Libs
                 /\ thread' = [thread EXCEPT ![p][k].fun = fun, ![p][k].at = "instance"]
    BY DEF Import
<1>2. /\ At(p, k) = (IF k = "static" THEN "imports" ELSE "idle")
      /\ UNCHANGED processVars /\ UNCHANGED <<krnl32lock, bound>>
    BY DEF Import
<1>3. Goes(p, k, "instance", fun, Mi(p, k), libs)
    BY <1>1, ThreadGoes
<1>4. /\ At(p, k)' = "instance" /\ Lib(p, k)' = fun.in /\ thread'[p][k].libs = libs
      /\ \A j \in Kinds \ {k} : At(p, j)' = At(p, j)
      /\ \A q \in Procs \ {p} : At(q, "static")' = At(q, "static")
    BY <1>3, Moved
<1>5. ThreadHolds(p, k)' /\ (k = "static" => LoadHolds(p)')
  <2>1. LoadHolds(p)
      BY Threads
  <2>. QED BY <1>1, <1>2, <1>4, <2>1 DEF ThreadHolds, LoadHolds, processVars, Data
<1>6. \A q \in Procs : LockHolds(q)'
    BY <1>2, <1>4, LocksHold
<1>7. DOMAIN bound' = Procs
    BY <1>2 DEF ProcessesInv, ProcessTypes
<1>. QED BY <1>2, <1>3, <1>4, <1>5, <1>6, <1>7, QuietStep

LEMMA GetInstanceKeeps ==
  ASSUME ProcessesInv, NEW p \in Procs, NEW k \in Kinds, GetInstance(p, k)
  PROVE  ProcessesInv'
<1> DEFINE libs == thread[p][k].libs
<1>1. PICK at \in {"make", "scan"} :
        /\ thread' = [thread EXCEPT ![p][k].mi = modinit[p], ![p][k].at = at]
        /\ at = "scan" => modinit[p] # 0
    BY DEF GetInstance
<1>2. /\ At(p, k) = "instance"
      /\ UNCHANGED processVars /\ UNCHANGED <<krnl32lock, bound>>
    BY DEF GetInstance
<1>3. Goes(p, k, at, Fun(p, k), modinit[p], libs)
    BY <1>1, ThreadGoes
<1>4. /\ At(p, k)' = at /\ Lib(p, k)' = Lib(p, k) /\ Mi(p, k)' = modinit[p]
      /\ thread'[p][k].libs = libs
      /\ \A j \in Kinds \ {k} : At(p, j)' = At(p, j)
      /\ \A q \in Procs \ {p} : At(q, "static")' = At(q, "static")
    BY <1>3, Moved DEF Lib
<1>5. ThreadHolds(p, k)' /\ (k = "static" => LoadHolds(p)')
  <2>1. /\ LoadHolds(p) /\ ThreadHolds(p, k)
        /\ modinit[p] = Len(modinits[p]) /\ Len(modinits[p]) \in Nat
      BY Threads
  <2>2. modinits' = modinits
      BY <1>2 DEF processVars
  <2>3. ThreadHolds(p, k)'
      BY <1>1, <1>2, <1>4, <2>1, <2>2 DEF ThreadHolds
  <2>4. k = "static" => LoadHolds(p)'
      BY <1>1, <1>2, <1>4, <2>1, <2>2 DEF LoadHolds, processVars, Data
  <2>. QED BY <2>3, <2>4
<1>6. \A q \in Procs : LockHolds(q)'
    BY <1>1, <1>2, <1>4, LocksHold
<1>7. DOMAIN bound' = Procs
    BY <1>2 DEF ProcessesInv, ProcessTypes
<1>. QED BY <1>1, <1>2, <1>3, <1>4, <1>5, <1>6, <1>7, QuietStep

LEMMA EndLoadKeeps ==
  ASSUME ProcessesInv, NEW p \in Procs, EndLoad(p)
  PROVE  ProcessesInv'
<1> DEFINE libs == thread[p]["static"].libs
<1>1. /\ "static" \in Kinds /\ At(p, "static") = "imports"
      /\ thread' = [thread EXCEPT ![p]["static"].at = "notify", ![p]["static"].mi = modinit[p]]
      /\ krnl32lock' = Nobody
      /\ UNCHANGED processVars /\ UNCHANGED bound
    BY DEF Kinds, EndLoad
<1>2. Goes(p, "static", "notify", Fun(p, "static"), modinit[p], libs)
    BY <1>1, ThreadGoes
<1>3. /\ At(p, "static")' = "notify" /\ thread'[p]["static"].libs = libs
      /\ Mi(p, "static")' = modinit[p]
      /\ \A j \in Kinds \ {"static"} : At(p, j)' = At(p, j)
      /\ \A q \in Procs \ {p} : At(q, "static")' = At(q, "static")
  <2>1. "static" \in Kinds
      BY DEF Kinds
  <2>. QED BY <1>2, <2>1, Moved
<1>4. ThreadHolds(p, "static")' /\ LoadHolds(p)'
  <2>1. LoadHolds(p) /\ modinit[p] = Len(modinits[p]) /\ Len(modinits[p]) \in Nat
      BY <1>1, Threads
  <2>2. modinits' = modinits
      BY <1>1 DEF processVars
  <2>3. ThreadHolds(p, "static")'
      BY <1>3 DEF ThreadHolds
  <2>4. libs # {} => modinit[p] # 0
      BY <2>1 DEF LoadHolds
  <2>5. modinit[p] \in 0..Len(modinits[p])
      BY <2>1
  <2>6. \A m : Data(p, m)' = Data(p, m)
      BY <2>2 DEF Data
  <2>7. \A lib \in libs : \E m \in 1..Len(modinits'[p]) : lib \in ToSet(Data(p, m)')
      BY <2>1, <2>2, <2>6 DEF LoadHolds
  <2>8. LoadHolds(p)'
      BY <1>3, <2>2, <2>4, <2>5, <2>6, <2>7 DEF LoadHolds
  <2>. QED BY <2>3, <2>8
<1>5. \A q \in Procs : LockHolds(q)'
  <2>1. krnl32lock = p
      BY <1>1 DEF ProcessesInv, LockHolds
  <2>. QED BY <1>1, <1>3, <2>1, LocksHold
<1>6. DOMAIN bound' = Procs
    BY <1>1 DEF ProcessesInv, ProcessTypes
<1>. QED BY <1>1, <1>2, <1>4, <1>5, <1>6, QuietStep

LEMMA OnlyOne ==
  ASSUME NEW n \in Nat, n <= 1
  PROVE  /\ \A i \in 1..n : i = 1 /\ n = 1
         /\ \A i \in 0..n : i # 0 => i = 1 /\ n = 1
  OBVIOUS

(* What is initialised to its end has started all that was imported.         *)
LEMMA RunKeeps ==
  ASSUME ProcessesInv, NEW p \in Procs, Run(p)
  PROVE  ProcessesInv'
<1> DEFINE libs == thread[p]["static"].libs
           mi == Mi(p, "static")
<1>1. /\ "static" \in Kinds /\ At(p, "static") = "notify" /\ To(p, "static", "running")
      /\ ~HasInitialize(p, mi)
      /\ UNCHANGED processVars /\ UNCHANGED <<krnl32lock, bound>>
    BY DEF Kinds, Run
<1>2. Goes(p, "static", "running", Fun(p, "static"), mi, libs)
    BY <1>1, ThreadGoes
<1>3. /\ At(p, "static")' = "running" /\ thread'[p]["static"].libs = libs
      /\ \A j \in Kinds \ {"static"} : At(p, j)' = At(p, j)
      /\ \A q \in Procs \ {p} : At(q, "static")' = At(q, "static")
    BY <1>1, <1>2, Moved
<1>4. LoadHolds(p) /\ Len(modinits[p]) \in Nat /\ ProcessTypes /\ ProcessHolds(p)
    BY <1>1, Threads
<1>5. ASSUME Len(modinits[p]) <= 1, NEW lib \in libs
      PROVE  lib \in attached[p] \cup refused[p]
  <2>1. mi = 1 /\ Len(modinits[p]) = 1 /\ lib \in ToSet(Data(p, 1))
    <3>1. PICK m \in 1..Len(modinits[p]) : lib \in ToSet(Data(p, m))
        BY <1>4, <1>5 DEF LoadHolds
    <3>2. mi \in 0..Len(modinits[p]) /\ mi # 0
        BY <1>1, <1>4, <1>5 DEF LoadHolds
    <3>3. Len(modinits[p]) \in Nat /\ Len(modinits[p]) <= 1
        BY <1>4, <1>5
    <3>4. Len(modinits[p]) = 1 /\ m = 1
        BY <3>3, OnlyOne
    <3>5. mi = 1
        BY <3>2, <3>3, OnlyOne
    <3>. QED BY <3>1, <3>4, <3>5
  <2>2. /\ ListHolds(p, 1) /\ DOMAIN Data(p, 1) = 1..Len(Data(p, 1))
        /\ modinits[p][1].init \in Nat /\ Len(Data(p, 1)) \in Nat
      BY <1>4, <2>1, ListTypes DEF ProcessHolds, Lists
  <2>3. modinits[p][1].init = Len(Data(p, 1))
      BY <1>1, <2>1, <2>2 DEF HasInitialize, Data, ListHolds
  <2>4. PICK j \in 1..Len(Data(p, 1)) : Data(p, 1)[j] = lib
      BY <2>1, <2>2 DEF ToSet
  <2>. QED BY <1>1, <2>2, <2>3, <2>4 DEF ListHolds
<1>6. ThreadHolds(p, "static")' /\ LoadHolds(p)'
  <2>1. UNCHANGED <<modinits, attached, refused>>
      BY <1>1 DEF processVars
  <2>2. ThreadHolds(p, "static")'
      BY <1>3 DEF ThreadHolds
  <2>3. LoadHolds(p)'
      BY <1>3, <1>4, <1>5, <2>1 DEF LoadHolds, Data
  <2>. QED BY <2>2, <2>3
<1>7. \A q \in Procs : LockHolds(q)'
    BY <1>1, <1>3, LocksHold
<1>8. DOMAIN bound' = Procs
    BY <1>1 DEF ProcessesInv, ProcessTypes
<1>. QED BY <1>1, <1>2, <1>6, <1>7, <1>8, QuietStep

\* A thread that is done, or whose import fails, has nothing to hold.
LEMMA IdleHolds ==
  ASSUME NEW p \in Procs, NEW k \in Kinds, At(p, k)' = "idle", thread'[p][k].libs = {}
  PROVE  ThreadHolds(p, k)' /\ (k = "static" => LoadHolds(p)')
  BY DEF ThreadHolds, LoadHolds

LEMMA RanKeeps ==
  ASSUME ProcessesInv, NEW p \in Procs, Ran(p)
  PROVE  ProcessesInv'
<1>1. /\ "static" \in Kinds /\ At(p, "static") = "running"
      /\ thread' = [thread EXCEPT ![p]["static"] = Idle]
      /\ UNCHANGED processVars /\ UNCHANGED <<krnl32lock, bound>>
    BY DEF Kinds, Ran
<1>2. Goes(p, "static", "idle", Nowhere, 0, {})
    BY <1>1, ThreadGoes
<1>3. /\ At(p, "static")' = "idle" /\ thread'[p]["static"].libs = {}
      /\ \A j \in Kinds \ {"static"} : At(p, j)' = At(p, j)
      /\ \A q \in Procs \ {p} : At(q, "static")' = At(q, "static")
    BY <1>1, <1>2, Moved
<1>4. ThreadHolds(p, "static")' /\ LoadHolds(p)'
    BY <1>1, <1>3, IdleHolds
<1>5. \A q \in Procs : LockHolds(q)'
    BY <1>1, <1>3, LocksHold
<1>6. DOMAIN bound' = Procs
    BY <1>1 DEF ProcessesInv, ProcessTypes
<1>. QED BY <1>1, <1>2, <1>4, <1>5, <1>6, QuietStep

AnsweredAt(k) == IF k = "dynamic" THEN "idle" ELSE "imports"
AnsweredLibs(p, k) == IF k = "dynamic" THEN {} ELSE thread[p][k].libs \cup {Lib(p, k)}

\* An import that is answered, with what is in its list.
LEMMA AnswerHolds ==
  ASSUME ProcessesInv, NEW p \in Procs, NEW k \in Kinds, NEW at,
         Answer(p, k, Lib(p, k), at), UNCHANGED <<base, modinits, refused>>,
         At(p, k) \in {"scan", "mark"}, Lib(p, k) \in ToSet(Data(p, Mi(p, k))),
         Lib(p, k) \notin refused[p] =>
           base[p][Lib(p, k)] # 0 /\ at = base[p][Lib(p, k)]
  PROVE  /\ Goes(p, k, AnsweredAt(k), Nowhere, 0, AnsweredLibs(p, k))
         /\ DOMAIN bound' = Procs /\ \A q \in Procs \ {p} : bound'[q] = bound[q]
         /\ \A b \in bound'[p] : b \in bound[p] \/ Binds(p, b)'
         /\ ThreadHolds(p, k)' /\ (k = "static" => LoadHolds(p)')
         /\ At(p, k)' = AnsweredAt(k)
         /\ \A j \in Kinds \ {k} : At(p, j)' = At(p, j)
         /\ \A q \in Procs \ {p} : At(q, "static")' = At(q, "static")
<1> DEFINE lib == Lib(p, k)
<1>. PICK to, libs : to = AnsweredAt(k) /\ libs = AnsweredLibs(p, k)
    OBVIOUS
<1>0. /\ to = (IF k = "dynamic" THEN "idle" ELSE "imports")
      /\ libs = (IF k = "dynamic" THEN {} ELSE thread[p][k].libs \cup {lib})
    BY DEF AnsweredAt, AnsweredLibs
<1>1. /\ thread[p][k] = [at |-> At(p, k), fun |-> Fun(p, k), mi |-> Mi(p, k),
                         libs |-> thread[p][k].libs]
      /\ LoadHolds(p) /\ ThreadHolds(p, k)
    BY Threads
<1>2. Goes(p, k, to, Nowhere, 0, libs)
  <2>1. CASE k = "dynamic"
    <3>1. thread' = [thread EXCEPT ![p][k] = Idle]
        BY <2>1 DEF Answer
    <3>. QED BY <1>0, <2>1, <3>1 DEF Goes, Idle
  <2>2. CASE k # "dynamic"
    <3> DEFINE one == [at |-> "imports", fun |-> Nowhere, mi |-> 0, libs |-> {}]
    <3>1. [Idle EXCEPT !.at = "imports"] = one
        BY DEF Idle
    <3>2. [one EXCEPT !.libs = libs] = [at |-> to, fun |-> Nowhere, mi |-> 0, libs |-> libs]
        BY <1>0, <2>2
    <3>3. thread' = [thread EXCEPT ![p][k] =
                       [[Idle EXCEPT !.at = "imports"] EXCEPT !.libs = libs]]
        BY <1>0, <2>2 DEF Answer
    <3>. QED BY <3>1, <3>2, <3>3 DEF Goes
  <2>. QED BY <2>1, <2>2
<1>3. /\ At(p, k)' = to /\ thread'[p][k].libs = libs
      /\ \A j \in Kinds \ {k} : At(p, j)' = At(p, j)
      /\ \A q \in Procs \ {p} : At(q, "static")' = At(q, "static")
    BY <1>2, Moved
<1>4. DOMAIN bound = Procs
    BY DEF ProcessesInv, ProcessTypes
<1>5. /\ DOMAIN bound' = Procs /\ \A q \in Procs \ {p} : bound'[q] = bound[q]
      /\ bound'[p] = bound[p] \cup {[fun |-> Fun(p, k), address |-> at + Fun(p, k).at]}
    BY <1>4 DEF Answer
<1>6. lib \in Libs /\ Mi(p, k) \in 1..Len(modinits[p])
    BY <1>1 DEF ThreadHolds
<1>7. ASSUME NEW b \in bound'[p], b \notin bound[p] PROVE Binds(p, b)'
  <2>1. b = [fun |-> Fun(p, k), address |-> at + Fun(p, k).at]
      BY <1>5, <1>7
  <2>2. b.fun = Fun(p, k) /\ b.address = at + b.fun.at /\ b.fun.in = lib
      BY <2>1 DEF Lib
  <2>. QED BY <1>6, <2>2 DEF Binds
<1>8. ThreadHolds(p, k)'
    BY <1>0, <1>3 DEF ThreadHolds, Kinds
<1>9. k = "static" => LoadHolds(p)'
  <2>1. \A m : Data(p, m)' = Data(p, m)
      BY DEF Data
  <2>2. ASSUME k = "static", NEW l \in libs
        PROVE  \E m \in 1..Len(modinits[p]) : l \in ToSet(Data(p, m))
      BY <1>0, <1>1, <1>6, <2>2 DEF LoadHolds
  <2>3. k = "static" => At(p, k)' = "imports"
      BY <1>0, <1>3
  <2>. QED BY <1>3, <2>1, <2>2, <2>3 DEF LoadHolds
<1>. QED BY <1>2, <1>3, <1>5, <1>7, <1>8, <1>9

\* What lists hold, of lists that are there.
LEMMA Listed ==
  ASSUME ProcessesInv, NEW p \in Procs, NEW m \in 1..Len(modinits[p])
  PROVE  /\ ListHolds(p, m) /\ \A lib \in ToSet(Data(p, m)) : lib \in Libs /\ Present(p, lib)
         /\ \A lib \in Libs :
              /\ Occurrences(Data(p, m), lib) \in Nat
              /\ Occurrences(Data(p, m), lib) = 0 <=> lib \notin ToSet(Data(p, m))
              /\ LibraryHolds(p, lib)
              /\ refused[p] = {} => ListedAtMostTwice(p, m, lib)
<1>1. ProcessTypes /\ ProcessHolds(p) /\ Data(p, m) \in Seq(Libs)
    BY ListTypes DEF ProcessesInv
<1>2. ListHolds(p, m) /\ \A lib \in ToSet(Data(p, m)) : Present(p, lib)
    BY <1>1 DEF ProcessHolds, ListHolds
<1>3. ToSet(Data(p, m)) \subseteq Libs
    BY <1>1 DEF ToSet
<1>. QED BY <1>1, <1>2, <1>3, NoOccurrences DEF ProcessHolds

(* What is found in the list is where it is marked to be, or was freed; what *)
(* is not found will be listed, by no more than one import more.             *)
LEMMA ScanKeeps ==
  ASSUME ProcessesInv, NEW p \in Procs, NEW k \in Kinds, Scan(p, k)
  PROVE  ProcessesInv'
<1> DEFINE lib == Lib(p, k)
           data == Data(p, Mi(p, k))
           hits == IF lib \notin ToSet(data) THEN {}
                   ELSE {a \in Bases \cup {Handle[lib]} :
                           <<lib, a>> \in marked /\ base[p][lib] \in {0, a}}
<1>1. /\ At(p, k) = "scan" /\ UNCHANGED processVars /\ krnl32lock' = krnl32lock
      /\ lib \in Libs /\ Mi(p, k) \in 1..Len(modinits[p])
    BY Threads DEF Scan, ThreadHolds
<1>2. CASE \E a \in hits : Answer(p, k, lib, a)
  <2>1. PICK a \in hits : Answer(p, k, lib, a)
      BY <1>2
  <2>2. lib \in ToSet(data) /\ base[p][lib] \in {0, a}
      BY <2>1
  <2>3. lib \notin refused[p] => base[p][lib] # 0 /\ a = base[p][lib]
      BY <1>1, <2>2, Listed DEF Present
  <2>5. /\ Goes(p, k, AnsweredAt(k), Nowhere, 0, AnsweredLibs(p, k))
        /\ DOMAIN bound' = Procs /\ \A q \in Procs \ {p} : bound'[q] = bound[q]
        /\ \A b \in bound'[p] : b \in bound[p] \/ Binds(p, b)'
        /\ ThreadHolds(p, k)' /\ (k = "static" => LoadHolds(p)')
        /\ At(p, k)' = AnsweredAt(k)
        /\ \A j \in Kinds \ {k} : At(p, j)' = At(p, j)
        /\ \A q \in Procs \ {p} : At(q, "static")' = At(q, "static")
    <3>1. UNCHANGED <<base, modinits, refused>>
        BY <1>1 DEF processVars
    <3>2. At(p, k) \in {"scan", "mark"} /\ Lib(p, k) \in ToSet(Data(p, Mi(p, k)))
        BY <1>1, <2>2
    <3>3. Answer(p, k, Lib(p, k), a)
        BY <2>1
    <3>. QED BY <2>3, <3>1, <3>2, <3>3, AnswerHolds
  <2>6. \A q \in Procs : LockHolds(q)'
      BY <1>1, <2>5, LocksHold DEF AnsweredAt
  <2>7. AnsweredAt(k) \notin {"load", "start", "mark"}
      BY DEF AnsweredAt
  <2>. QED BY <1>1, <2>5, <2>6, <2>7, QuietStep
<1>3. CASE (hits = {} \/ base[p][lib] = 0) /\ To(p, k, "load") /\ UNCHANGED bound
  <2> DEFINE libs == thread[p][k].libs
  <2>1. Goes(p, k, "load", Fun(p, k), Mi(p, k), libs)
      BY <1>3, ThreadGoes
  <2>2. /\ At(p, k)' = "load" /\ Lib(p, k)' = lib /\ Mi(p, k)' = Mi(p, k)
        /\ thread'[p][k].libs = libs
        /\ \A j \in Kinds \ {k} : At(p, j)' = At(p, j)
        /\ \A q \in Procs \ {p} :
             thread'[q] = thread[q] /\ At(q, "static")' = At(q, "static")
      BY <2>1, Moved DEF Lib
  <2>3. ThreadHolds(p, k)'
      BY <1>1, <2>2 DEF ThreadHolds, processVars
  <2>4. k = "static" => LoadHolds(p)'
    <3>1. LoadHolds(p) /\ (\A m : Data(p, m)' = Data(p, m))
        BY <1>1, Threads DEF Data, processVars
    <3>. QED BY <1>1, <2>2, <3>1 DEF LoadHolds, processVars
  <2>5. \A q \in Procs : LockHolds(q)'
      BY <1>1, <2>2, LocksHold
  <2>6. ASSUME refused'[p] = {}, NEW m \in 1..Len(modinits[p]), NEW l \in Libs
        PROVE  ListedAtMostTwice(p, m, l)'
    <3>1. /\ refused[p] = {} /\ ListedAtMostTwice(p, m, l) /\ LibraryHolds(p, l)
          /\ Occurrences(Data(p, m), l) \in Nat
          /\ Occurrences(Data(p, m), l) = 0 <=> l \notin ToSet(Data(p, m))
          /\ \A x \in ToSet(Data(p, m)) : Present(p, x)
        BY <1>1, <2>6, Listed DEF processVars
    <3>2. /\ Data(p, m)' = Data(p, m) /\ UNCHANGED <<base, marked>>
        BY <1>1 DEF processVars, Data
    <3>3. \A j \in Kinds : /\ Loads(p, j, m, l) \in 0..1 /\ Marks(p, j, m, l) \in 0..1
                           /\ Loads(p, j, m, l) = 0 \/ Marks(p, j, m, l) = 0
        BY DEF Loads, Marks
    <3>4. \A j \in Kinds \ {k} : /\ Loads(p, j, m, l)' = Loads(p, j, m, l)
                                 /\ Marks(p, j, m, l)' = Marks(p, j, m, l)
      <4>1. ThreadShape
          BY Threads
      <4>2. \A j \in Kinds \ {k} : thread'[p][j] = thread[p][j]
          BY <2>1, <4>1, ThreadMoves
      <4>. QED BY <4>2 DEF Loads, Marks, At, Fun, Lib, Mi
    <3>5. /\ Loads(p, k, m, l) = 0 /\ Marks(p, k, m, l) = 0 /\ Marks(p, k, m, l)' = 0
          /\ Loads(p, k, m, l)' = IF Mi(p, k) = m /\ lib = l THEN 1 ELSE 0
        BY <1>1, <2>2 DEF Loads, Marks
    <3>6. CASE Mi(p, k) = m /\ lib = l
      <4>1. l \in ToSet(Data(p, m)) => <<l, base[p][l]>> \notin marked
        <5>1. l \in ToSet(Data(p, m)) => base[p][l] # 0 /\ base[p][l] \in Bases \cup {Handle[l]}
            BY <3>1 DEF Present, LibraryHolds
        <5>. QED BY <1>3, <3>6, <5>1
      <4>. QED BY <3>1, <3>2, <3>3, <3>4, <3>5, <3>6, <4>1 DEF ListedAtMostTwice, Kinds
    <3>7. CASE ~(Mi(p, k) = m /\ lib = l)
        BY <3>1, <3>2, <3>4, <3>5, <3>7 DEF ListedAtMostTwice, Kinds
    <3>. QED BY <3>6, <3>7
  <2>7. /\ ProcessTypes /\ ProcessHolds(p) /\ DOMAIN bound' = Procs
        /\ attached \in [Procs -> SUBSET Libs] /\ refused \in [Procs -> SUBSET Libs]
      BY <1>3 DEF ProcessesInv, ProcessTypes
  <2>8. ProcessTypes' /\ ProcessHolds(p)'
      BY <1>1, <1>3, <2>1, <2>3, <2>4, <2>6, <2>7, ThreadStep DEF processVars
  <2>9. \A q \in Procs \ {p} : Untouched(q)
      BY <1>1, <1>3, <2>2 DEF Untouched, processVars
  <2>. QED BY <2>5, <2>8, <2>9, OthersHold
<1>. QED BY <1>2, <1>3 DEF Scan

\* Where a library may be is somewhere.
LEMMA Places ==
  ASSUME NEW lib \in Libs, NEW a \in Bases \cup {Handle[lib]}
  PROVE  a \in Nat /\ a # 0
<1>1. CASE a \in Bases
    BY <1>1, ImportsAssumption
<1>2. CASE a = Handle[lib]
  <2>1. Handle[lib] \in Dword \ {0}
      BY TablesAssumption
  <2>. QED BY <1>2, <2>1 DEF Dword
<1>. QED BY <1>1, <1>2

LEMMA MarkKeeps ==
  ASSUME ProcessesInv, NEW p \in Procs, NEW k \in Kinds, Mark(p, k)
  PROVE  ProcessesInv'
<1> DEFINE lib == Lib(p, k)
           data == Data(p, Mi(p, k))
<1>1. /\ At(p, k) = "mark" /\ marked' = marked \cup {<<lib, base[p][lib]>>}
      /\ UNCHANGED <<base, uses, modinits, modinit, attached, refused, krnl32lock>>
      /\ Answer(p, k, Lib(p, k), base[p][lib])
    BY DEF Mark
<1>2. /\ lib \in Libs /\ Mi(p, k) \in 1..Len(modinits[p]) /\ lib \in ToSet(data)
      /\ Present(p, lib)
    BY <1>1, Threads DEF ThreadHolds
<1>3. /\ Goes(p, k, AnsweredAt(k), Nowhere, 0, AnsweredLibs(p, k))
      /\ DOMAIN bound' = Procs /\ \A q \in Procs \ {p} : bound'[q] = bound[q]
      /\ \A b \in bound'[p] : b \in bound[p] \/ Binds(p, b)'
      /\ ThreadHolds(p, k)' /\ (k = "static" => LoadHolds(p)')
      /\ At(p, k)' = AnsweredAt(k)
      /\ \A j \in Kinds \ {k} : At(p, j)' = At(p, j)
      /\ \A q \in Procs \ {p} : At(q, "static")' = At(q, "static")
  <2>1. UNCHANGED <<base, modinits, refused>>
      BY <1>1
  <2>2. At(p, k) \in {"scan", "mark"} /\ Lib(p, k) \in ToSet(Data(p, Mi(p, k)))
      BY <1>1, <1>2
  <2>3. Lib(p, k) \notin refused[p] => base[p][lib] # 0 /\ base[p][lib] = base[p][Lib(p, k)]
      BY <1>2 DEF Present
  <2>. QED BY <1>1, <2>1, <2>2, <2>3, AnswerHolds
<1>4. \A q \in Procs : LockHolds(q)'
    BY <1>1, <1>3, LocksHold DEF AnsweredAt
<1>5. /\ \A j \in Kinds \ {k} : thread'[p][j] = thread[p][j]
      /\ \A q \in Procs \ {p} : thread'[q] = thread[q]
  <2>1. ThreadShape
      BY Threads
  <2>. QED BY <1>3, <2>1, ThreadMoves
<1>6. ASSUME refused'[p] = {}, NEW m \in 1..Len(modinits[p]), NEW l \in Libs
      PROVE  ListedAtMostTwice(p, m, l)'
  <2>1. /\ ListedAtMostTwice(p, m, l) /\ Occurrences(Data(p, m), l) \in Nat
        /\ Data(p, m)' = Data(p, m)
      BY <1>1, <1>6, Listed DEF Data
  <2>2. \A j \in Kinds \ {k} : /\ Loads(p, j, m, l)' = Loads(p, j, m, l)
                               /\ Marks(p, j, m, l)' = Marks(p, j, m, l)
      BY <1>5 DEF Loads, Marks, At, Fun, Lib, Mi
  <2>3. /\ Loads(p, k, m, l) = 0 /\ Loads(p, k, m, l)' = 0 /\ Marks(p, k, m, l)' = 0
        /\ Marks(p, k, m, l) = IF Mi(p, k) = m /\ lib = l THEN 1 ELSE 0
      BY <1>1, <1>3 DEF Loads, Marks, AnsweredAt
  <2>4. lib = l => <<l, base[p][l]>> \in marked'
      BY <1>1
  <2>5. <<l, base[p][l]>> \notin marked' => <<l, base[p][l]>> \notin marked
      BY <1>1
  <2>. QED BY <1>1, <2>1, <2>2, <2>3, <2>4, <2>5 DEF ListedAtMostTwice, Kinds
<1>7. /\ ProcessTypes /\ ProcessHolds(p)
      /\ attached \in [Procs -> SUBSET Libs] /\ refused \in [Procs -> SUBSET Libs]
    BY DEF ProcessesInv, ProcessTypes
<1>8. ProcessTypes' /\ ProcessHolds(p)'
    BY <1>1, <1>3, <1>6, <1>7, ThreadStep
<1>9. \A q \in Procs \ {p} : Untouched(q)
    BY <1>1, <1>3, <1>5 DEF Untouched
<1>. QED BY <1>4, <1>8, <1>9, OthersHold

LEMMA AttachKeeps ==
  ASSUME ProcessesInv, NEW p \in Procs, Attach(p)
  PROVE  ProcessesInv'
<1> DEFINE lib == Lib(p, "static")
           libs == thread[p]["static"].libs
<1>1. /\ "static" \in Kinds /\ At(p, "static") = "attach"
      /\ UNCHANGED <<base, uses, marked, modinits, modinit, krnl32lock, bound>>
    BY DEF Kinds, Attach
<1>2. /\ ProcessTypes /\ ProcessHolds(p) /\ DOMAIN bound' = Procs
      /\ attached \in [Procs -> SUBSET Libs] /\ refused \in [Procs -> SUBSET Libs]
    BY <1>1 DEF ProcessesInv, ProcessTypes
<1>3. lib \in Libs /\ Present(p, lib) /\ LoadHolds(p)
    BY <1>1, Threads DEF ThreadHolds
<1>4. PICK at, fun, mi, new :
        /\ at \in {"notify", "idle"}
        /\ Goes(p, "static", at, fun, mi, new)
        /\ IF at = "notify"
             THEN /\ fun = Fun(p, "static") /\ mi = Mi(p, "static") /\ new = libs
                  /\ IF base[p][lib] = 0 THEN UNCHANGED attached ELSE Attaches(p, lib)
                  /\ UNCHANGED refused
             ELSE new = {} /\ Refuses(p, lib) /\ UNCHANGED attached
  <2>1. CASE /\ To(p, "static", "notify")
             /\ IF base[p][lib] = 0 THEN UNCHANGED attached ELSE Attaches(p, lib)
             /\ UNCHANGED refused
    <3>1. Goes(p, "static", "notify", Fun(p, "static"), Mi(p, "static"), libs)
        BY <1>1, <2>1, ThreadGoes
    <3>. QED BY <2>1, <3>1
  <2>2. CASE /\ thread' = [thread EXCEPT ![p]["static"] = Idle]
             /\ Refuses(p, lib) /\ UNCHANGED attached
    <3>1. Goes(p, "static", "idle", Nowhere, 0, {})
        BY <1>1, <2>2, ThreadGoes
    <3>. QED BY <2>2, <3>1
  <2>. QED BY <2>1, <2>2 DEF Attach
<1>. at \in {"notify", "idle"}
    BY <1>4
<1>5. /\ At(p, "static")' = at /\ Mi(p, "static")' = mi /\ thread'[p]["static"].libs = new
      /\ \A j \in Kinds \ {"static"} : At(p, j)' = At(p, j)
      /\ \A q \in Procs \ {p} :
           thread'[q] = thread[q] /\ At(q, "static")' = At(q, "static")
    BY <1>1, <1>4, Moved
<1>6. \A q \in Procs : LockHolds(q)'
    BY <1>1, <1>5, LocksHold
<1>7. /\ attached' \in [Procs -> SUBSET Libs] /\ attached[p] \subseteq attached'[p]
      /\ refused' \in [Procs -> SUBSET Libs] /\ refused[p] \subseteq refused'[p]
      /\ lib \in attached'[p] \cup refused'[p]
      /\ \A q \in Procs \ {p} : attached'[q] = attached[q] /\ refused'[q] = refused[q]
    BY <1>2, <1>3, <1>4 DEF Attaches, Refuses, Present
<1>8. ThreadHolds(p, "static")' /\ LoadHolds(p)'
  <2>1. CASE at = "idle"
      BY <1>1, <1>4, <1>5, <2>1, IdleHolds
  <2>2. CASE at = "notify"
    <3>1. new = libs /\ mi = Mi(p, "static")
        BY <1>4, <2>2
    <3>2. \A m : Data(p, m)' = Data(p, m)
        BY <1>1 DEF Data
    <3>3. LoadHolds(p)'
        BY <1>1, <1>3, <1>5, <2>2, <3>1, <3>2 DEF LoadHolds
    <3>. QED BY <1>5, <2>2, <3>3 DEF ThreadHolds
  <2>. QED BY <2>1, <2>2
<1>9. refused'[p] = {} =>
        \A m \in 1..Len(modinits[p]), l \in Libs : ListedAtMostTwice(p, m, l)'
  <2>1. CASE at = "idle"
    <3>1. refused'[p] # {}
        BY <1>2, <1>4, <2>1 DEF Refuses
    <3>. QED BY <3>1
  <2>2. CASE at = "notify"
    <3>1. /\ UNCHANGED <<base, refused>> /\ marked \subseteq marked'
          /\ \A m \in 1..Len(modinits[p]) : Data(p, m)' = Data(p, m)
        BY <1>1, <1>4, <2>2 DEF Data
    <3>2. \A j \in Kinds \ {"static"} : thread'[p][j] = thread[p][j]
      <4>1. ThreadShape
          BY <1>1, Threads
      <4>. QED BY <1>1, <1>4, <4>1, ThreadMoves
    <3>3. At(p, "static") \notin {"start", "mark"} /\ At(p, "static")' \notin {"load", "start", "mark"}
        BY <1>1, <1>5, <2>2
    <3>. QED BY <1>1, <3>1, <3>2, <3>3, StillListed
  <2>. QED BY <2>1, <2>2
<1>10. ProcessTypes' /\ ProcessHolds(p)'
  <2>1. UNCHANGED <<base, uses, modinits, modinit>> /\ \A b \in bound'[p] : b \in bound[p]
      BY <1>1
  <2>. QED BY <1>1, <1>2, <1>4, <1>7, <1>8, <1>9, <2>1, ThreadStep
<1>11. \A q \in Procs \ {p} : Untouched(q)
    BY <1>1, <1>5, <1>7 DEF Untouched
<1>. QED BY <1>6, <1>10, <1>11, OthersHold

(* A new list has nothing; that another may be lost with it is no matter to  *)
(* the invariant.                                                            *)
LEMMA MakeInstanceKeeps ==
  ASSUME ProcessesInv, NEW p \in Procs, NEW k \in Kinds, MakeInstance(p, k)
  PROVE  ProcessesInv'
<1> DEFINE libs == thread[p][k].libs
           list == [data |-> <<>>, init |-> 0]
<1>1. /\ At(p, k) = "make" /\ modinits' = [modinits EXCEPT ![p] = Append(@, list)]
      /\ modinit' = [modinit EXCEPT ![p] = Len(modinits'[p])]
      /\ thread' = [thread EXCEPT ![p][k].mi = modinit'[p], ![p][k].at = "scan"]
      /\ UNCHANGED <<base, uses, marked, attached, refused, krnl32lock, bound>>
    BY DEF MakeInstance
<1>2. /\ ProcessTypes /\ ProcessHolds(p) /\ ThreadHolds(p, k) /\ LoadHolds(p)
      /\ modinits \in [Procs -> Seq(Lists)] /\ modinit \in [Procs -> Nat]
      /\ Len(modinits[p]) \in Nat /\ modinits[p] \in Seq(Lists)
    BY Threads DEF ProcessTypes
<1>. PICK new \in Nat : new = Len(modinits[p]) + 1
    BY <1>2
<1>3. list \in Lists
    BY DEF Lists
<1>4. /\ modinits'[p] = Append(modinits[p], list) /\ modinit'[p] = Len(modinits'[p])
      /\ \A q \in Procs \ {p} : modinits'[q] = modinits[q] /\ modinit'[q] = modinit[q]
    BY <1>1, <1>2
<1>5. /\ Len(modinits'[p]) = new /\ modinits'[p][new] = list
      /\ \A m \in 1..Len(modinits[p]) : modinits'[p][m] = modinits[p][m]
  <2>1. PICK s \in Seq(Lists), x \in Lists : s = modinits[p] /\ x = list
      BY <1>2, <1>3
  <2>2. /\ Len(Append(s, x)) = Len(s) + 1 /\ Append(s, x)[Len(s) + 1] = x
        /\ \A m \in 1..Len(s) : Append(s, x)[m] = s[m]
      OBVIOUS
  <2>. QED BY <1>4, <2>1, <2>2
<1>6. /\ modinits' \in [Procs -> Seq(Lists)] /\ modinit' \in [Procs -> Nat]
  <2>1. Append(modinits[p], list) \in Seq(Lists) /\ new \in Nat
      BY <1>2, <1>3
  <2>. QED BY <1>1, <1>2, <1>5, <2>1
<1>7. Goes(p, k, "scan", Fun(p, k), new, libs)
  <2>1. thread' = [thread EXCEPT ![p][k].mi = new, ![p][k].at = "scan"]
      BY <1>1, <1>4, <1>5
  <2>. QED BY <2>1, ThreadGoes
<1>8. /\ At(p, k)' = "scan" /\ Lib(p, k)' = Lib(p, k) /\ Mi(p, k)' = new
      /\ thread'[p][k].libs = libs
      /\ \A j \in Kinds \ {k} : At(p, j)' = At(p, j)
      /\ \A q \in Procs \ {p} :
           thread'[q] = thread[q] /\ At(q, "static")' = At(q, "static")
    BY <1>7, Moved DEF Lib
<1>9. ThreadShape' /\ \A j \in Kinds \ {k} : thread'[p][j] = thread[p][j]
  <2>1. ThreadShape
      BY Threads
  <2>. QED BY <1>7, <2>1, ThreadMoves
<1>10. ProcessTypes'
    BY <1>1, <1>2, <1>6, <1>9 DEF ProcessTypes
<1>11. /\ \A m \in 1..Len(modinits[p]) : Data(p, m)' = Data(p, m)
       /\ Data(p, new)' = <<>> /\ modinits'[p][new].init = 0
       /\ \A lib : Present(p, lib)' <=> Present(p, lib)
    BY <1>1, <1>5 DEF Data, Present
<1>12. (\A lib \in Libs : LibraryHolds(p, lib)') /\ \A b \in bound'[p] : Binds(p, b)'
    BY <1>1, <1>2 DEF ProcessHolds, LibraryHolds, Binds
<1>13. \A j \in Kinds : ThreadHolds(p, j)'
  <2>1. ASSUME NEW j \in Kinds \ {k} PROVE ThreadHolds(p, j)'
    <3>1. /\ ThreadHolds(p, j) /\ At(p, j)' = At(p, j) /\ Lib(p, j)' = Lib(p, j)
          /\ Mi(p, j)' = Mi(p, j)
        BY <1>2, <1>9 DEF ProcessHolds, At, Fun, Lib, Mi
    <3>. QED BY <1>1, <1>2, <1>5, <1>11, <3>1 DEF ThreadHolds
  <2>2. ThreadHolds(p, k)'
      BY <1>1, <1>2, <1>5, <1>8 DEF ThreadHolds
  <2>. QED BY <2>1, <2>2
<1>14. ASSUME NEW m \in 1..Len(modinits'[p]) PROVE ListHolds(p, m)'
  <2>1. CASE m = new
    <3>1. Data(p, m)' = <<>> /\ modinits'[p][m].init = 0
        BY <1>11, <2>1
    <3>2. Len(<<>>) = 0 /\ ToSet(<<>>) = {}
        BY DEF ToSet
    <3>. QED BY <3>1, <3>2 DEF ListHolds
  <2>2. CASE m # new
    <3>1. m \in 1..Len(modinits[p])
        BY <1>2, <1>5, <2>2
    <3>2. /\ ListHolds(p, m) /\ modinits'[p][m] = modinits[p][m] /\ Data(p, m)' = Data(p, m)
        BY <1>2, <1>5, <1>11, <3>1 DEF ProcessHolds
    <3>3. At(p, "static") = "attach" =>
            At(p, "static")' = "attach" /\ Lib(p, "static")' = Lib(p, "static")
        BY <1>1, <1>9 DEF Kinds, At, Lib, Fun
    <3>. QED BY <1>1, <1>11, <3>2, <3>3 DEF ListHolds
  <2>. QED BY <2>1, <2>2
<1>15. LoadHolds(p)'
  <2>1. \A lib \in thread'[p]["static"].libs :
          \E m \in 1..Len(modinits[p]) : lib \in ToSet(Data(p, m))
      BY <1>2, <1>8, <1>9 DEF LoadHolds, Kinds
  <2>2. \A m \in 1..Len(modinits[p]) : m \in 1..Len(modinits'[p]) /\ Data(p, m)' = Data(p, m)
      BY <1>2, <1>5, <1>11
  <2>3. CASE k = "static"
      BY <1>8, <2>1, <2>2, <2>3 DEF LoadHolds
  <2>4. CASE k # "static"
    <3>1. /\ At(p, "static")' = At(p, "static") /\ Mi(p, "static")' = Mi(p, "static")
          /\ thread'[p]["static"] = thread[p]["static"]
        BY <1>9, <2>4 DEF Kinds, At, Mi
    <3>2. At(p, "static") \in {"notify", "attach"} =>
            /\ Mi(p, "static") \in 0..Len(modinits'[p])
            /\ thread[p]["static"].libs # {} => Mi(p, "static") # 0
        BY <1>2, <1>5 DEF LoadHolds
    <3>3. At(p, "static") = "running" /\ Len(modinits'[p]) <= 1 =>
            thread[p]["static"].libs \subseteq attached'[p] \cup refused'[p]
        BY <1>1, <1>2, <1>5 DEF LoadHolds
    <3>. QED BY <2>1, <2>2, <3>1, <3>2, <3>3 DEF LoadHolds
  <2>. QED BY <2>3, <2>4
<1>16. ASSUME refused'[p] = {}, NEW m \in 1..Len(modinits'[p]), NEW l \in Libs
       PROVE  ListedAtMostTwice(p, m, l)'
  <2>1. \A j \in Kinds \ {k} : /\ Loads(p, j, m, l)' = Loads(p, j, m, l)
                               /\ Marks(p, j, m, l)' = Marks(p, j, m, l)
      BY <1>9 DEF Loads, Marks, At, Fun, Lib, Mi
  <2>2. /\ Loads(p, k, m, l) = 0 /\ Loads(p, k, m, l)' = 0
        /\ Marks(p, k, m, l) = 0 /\ Marks(p, k, m, l)' = 0
      BY <1>1, <1>8 DEF Loads, Marks
  <2>3. CASE m = new
    <3>1. Occurrences(Data(p, m)', l) = 0
      <4>1. <<>> \in Seq(Libs) /\ l \notin ToSet(<<>>)
          BY DEF ToSet
      <4>2. Occurrences(<<>>, l) = 0
          BY <4>1, NoOccurrences
      <4>. QED BY <1>11, <2>3, <4>2
    <3>2. \A j \in Kinds \ {k} : Loads(p, j, m, l) = 0 /\ Marks(p, j, m, l) = 0
      <4>1. \A j \in Kinds : At(p, j) \in {"load", "start", "mark"} => Mi(p, j) # m
          BY <1>2, <2>3 DEF ProcessHolds, ThreadHolds
      <4>. QED BY <4>1 DEF Loads, Marks
    <3>. QED BY <1>1, <2>1, <2>2, <3>1, <3>2 DEF ListedAtMostTwice, Kinds
  <2>4. CASE m # new
    <3>1. m \in 1..Len(modinits[p])
        BY <1>2, <1>5, <2>4
    <3>2. ListedAtMostTwice(p, m, l) /\ Data(p, m)' = Data(p, m)
        BY <1>1, <1>11, <1>16, <3>1, Listed
    <3>. QED BY <1>1, <2>1, <2>2, <3>2 DEF ListedAtMostTwice, Kinds
  <2>. QED BY <2>3, <2>4
<1>17. ProcessHolds(p)'
    BY <1>4, <1>12, <1>13, <1>14, <1>15, <1>16 DEF ProcessHolds
<1>18. \A q \in Procs \ {p} : Untouched(q)
    BY <1>1, <1>4, <1>8 DEF Untouched
<1>19. \A q \in Procs : LockHolds(q)'
    BY <1>1, <1>8, LocksHold
<1>. QED BY <1>10, <1>17, <1>18, <1>19, OthersHold

(* A library that starts stays where it is; one that refuses is freed, and   *)
(* the IMTE it leaves is of no process that has the library.                 *)
LEMMA StartKeeps ==
  ASSUME ProcessesInv, NEW p \in Procs, NEW k \in Kinds, Start(p, k)
  PROVE  ProcessesInv'
<1>. PICK lib : lib = Lib(p, k)
    OBVIOUS
<1>1. /\ At(p, k) = "start" /\ UNCHANGED <<modinits, modinit>>
      /\ \/ /\ Attaches(p, lib)
            /\ To(p, k, "mark")
            /\ UNCHANGED <<base, uses, marked, refused, bound, krnl32lock>>
         \/ /\ Refuses(p, lib)
            /\ uses' = [uses EXCEPT ![p][lib] = @ - 1]
            /\ base' = [base EXCEPT ![p][lib] = IF uses[p][lib] = 1 THEN 0 ELSE @]
            /\ marked' = {m \in marked : IsLoaded(m[1], m[2])'}
            /\ NoAnswer(p, k)
            /\ UNCHANGED attached
    BY DEF Start
<1>2. /\ ProcessTypes /\ ProcessHolds(p) /\ ThreadHolds(p, k) /\ LoadHolds(p)
      /\ base \in [Procs -> [Libs -> Nat]] /\ uses \in [Procs -> [Libs -> Nat]]
      /\ attached \in [Procs -> SUBSET Libs] /\ refused \in [Procs -> SUBSET Libs]
      /\ DOMAIN bound = Procs
    BY Threads DEF ProcessTypes
<1>3. /\ lib \in Libs /\ Mi(p, k) \in 1..Len(modinits[p]) /\ lib \in ToSet(Data(p, Mi(p, k)))
      /\ Present(p, lib) /\ k = "dynamic" /\ base[p][lib] # 0
    BY <1>1, <1>2 DEF ThreadHolds
<1>4. CASE /\ Attaches(p, lib)
           /\ To(p, k, "mark")
           /\ UNCHANGED <<base, uses, marked, refused, bound, krnl32lock>>
  <2>. PICK libs : libs = thread[p][k].libs
      OBVIOUS
  <2>1. Goes(p, k, "mark", Fun(p, k), Mi(p, k), libs)
      BY <1>4, ThreadGoes
  <2>2. /\ At(p, k)' = "mark" /\ Lib(p, k)' = lib /\ Mi(p, k)' = Mi(p, k)
        /\ \A j \in Kinds \ {k} : At(p, j)' = At(p, j)
        /\ \A q \in Procs \ {p} :
             thread'[q] = thread[q] /\ At(q, "static")' = At(q, "static")
      BY <2>1, Moved DEF Lib
  <2>3. \A q \in Procs : LockHolds(q)'
      BY <1>3, <1>4, <2>2, LocksHold
  <2>4. /\ attached' \in [Procs -> SUBSET Libs] /\ attached[p] \subseteq attached'[p]
        /\ \A q \in Procs \ {p} : attached'[q] = attached[q]
      BY <1>2, <1>3, <1>4 DEF Attaches
  <2>5. ThreadHolds(p, k)'
      BY <1>1, <1>3, <1>4, <2>2 DEF ThreadHolds, Data, Present
  <2>6. ASSUME refused'[p] = {}, NEW m \in 1..Len(modinits[p]), NEW l \in Libs
        PROVE  ListedAtMostTwice(p, m, l)'
    <3>1. /\ ListedAtMostTwice(p, m, l) /\ Data(p, m)' = Data(p, m)
        BY <1>1, <1>4, <2>6, Listed DEF Data
    <3>2. \A j \in Kinds \ {k} : /\ Loads(p, j, m, l)' = Loads(p, j, m, l)
                                 /\ Marks(p, j, m, l)' = Marks(p, j, m, l)
      <4>1. ThreadShape
          BY Threads
      <4>2. \A j \in Kinds \ {k} : thread'[p][j] = thread[p][j]
          BY <2>1, <4>1, ThreadMoves
      <4>. QED BY <4>2 DEF Loads, Marks, At, Fun, Lib, Mi
    <3>3. /\ Loads(p, k, m, l)' = Loads(p, k, m, l) /\ Marks(p, k, m, l)' = Marks(p, k, m, l)
        BY <1>1, <2>2 DEF Loads, Marks
    <3>. QED BY <1>4, <3>1, <3>2, <3>3 DEF ListedAtMostTwice, Kinds
  <2>7. /\ UNCHANGED <<base, uses, modinits, modinit>> /\ DOMAIN bound' = Procs
        /\ \A b \in bound'[p] : b \in bound[p]
        /\ refused' \in [Procs -> SUBSET Libs] /\ refused[p] \subseteq refused'[p]
        /\ k # "static"
      BY <1>1, <1>2, <1>3, <1>4
  <2>8. ProcessTypes' /\ ProcessHolds(p)'
      BY <1>2, <2>1, <2>4, <2>5, <2>6, <2>7, ThreadStep
  <2>9. \A q \in Procs \ {p} : Untouched(q)
      BY <1>1, <1>4, <2>2, <2>4 DEF Untouched
  <2>. QED BY <2>3, <2>8, <2>9, OthersHold
<1>5. CASE /\ Refuses(p, lib)
           /\ uses' = [uses EXCEPT ![p][lib] = @ - 1]
           /\ base' = [base EXCEPT ![p][lib] = IF uses[p][lib] = 1 THEN 0 ELSE @]
           /\ marked' = {m \in marked : IsLoaded(m[1], m[2])'}
           /\ NoAnswer(p, k)
           /\ UNCHANGED attached
  <2>1. thread' = [thread EXCEPT ![p][k] = Idle] /\ UNCHANGED <<krnl32lock, bound>>
      BY <1>3, <1>5 DEF NoAnswer
  <2>2. Goes(p, k, "idle", Nowhere, 0, {})
      BY <2>1, ThreadGoes
  <2>3. /\ At(p, k)' = "idle" /\ thread'[p][k].libs = {}
        /\ \A j \in Kinds \ {k} : At(p, j)' = At(p, j)
        /\ \A q \in Procs \ {p} :
             thread'[q] = thread[q] /\ At(q, "static")' = At(q, "static")
      BY <2>2, Moved
  <2>4. ThreadShape' /\ \A j \in Kinds \ {k} : thread'[p][j] = thread[p][j]
    <3>1. ThreadShape
        BY Threads
    <3>. QED BY <2>2, <3>1, ThreadMoves
  <2>5. /\ uses[p][lib] \in Nat \ {0} /\ uses'[p][lib] = uses[p][lib] - 1
        /\ base'[p][lib] = IF uses[p][lib] = 1 THEN 0 ELSE base[p][lib]
        /\ \A l \in Libs \ {lib} : base'[p][l] = base[p][l] /\ uses'[p][l] = uses[p][l]
        /\ \A q \in Procs \ {p} : base'[q] = base[q] /\ uses'[q] = uses[q]
    <3>1. LibraryHolds(p, lib) /\ uses[p][lib] \in Nat
        BY <1>2, <1>3 DEF ProcessHolds
    <3>. QED BY <1>2, <1>3, <1>5, <3>1 DEF LibraryHolds
  <2>6. /\ base' \in [Procs -> [Libs -> Nat]] /\ uses' \in [Procs -> [Libs -> Nat]]
    <3>1. \A n \in Nat \ {0} : n - 1 \in Nat
        OBVIOUS
    <3>. QED BY <1>2, <1>3, <1>5, <2>5, <3>1
  <2>7. /\ refused'[p] = refused[p] \cup {lib} /\ refused' \in [Procs -> SUBSET Libs]
        /\ \A q \in Procs \ {p} : refused'[q] = refused[q]
      BY <1>2, <1>3, <1>5 DEF Refuses
  <2>8. ProcessTypes'
      BY <1>1, <1>2, <1>5, <2>1, <2>4, <2>6, <2>7 DEF ProcessTypes
  <2>9. \A l \in Libs : Present(p, l) => Present(p, l)'
      BY <2>5, <2>7 DEF Present
  <2>10. \A m : Data(p, m)' = Data(p, m)
      BY <1>1 DEF Data
  <2>11. ASSUME NEW l \in Libs PROVE LibraryHolds(p, l)'
    <3>1. LibraryHolds(p, l)
        BY <1>2 DEF ProcessHolds
    <3>2. CASE l = lib
        BY <2>5, <3>1, <3>2 DEF LibraryHolds
    <3>3. CASE l # lib
        BY <2>5, <3>1, <3>3 DEF LibraryHolds
    <3>. QED BY <3>2, <3>3
  <2>12. \A j \in Kinds : ThreadHolds(p, j)'
    <3>1. ASSUME NEW j \in Kinds \ {k} PROVE ThreadHolds(p, j)'
      <4>1. /\ ThreadHolds(p, j) /\ At(p, j)' = At(p, j) /\ Lib(p, j)' = Lib(p, j)
            /\ Mi(p, j)' = Mi(p, j) /\ j # "dynamic"
          BY <1>2, <1>3, <2>4 DEF ProcessHolds, At, Fun, Lib, Mi
      <4>. QED BY <1>1, <2>9, <2>10, <4>1 DEF ThreadHolds
    <3>2. ThreadHolds(p, k)'
        BY <2>3, IdleHolds
    <3>. QED BY <3>1, <3>2
  <2>13. /\ At(p, "static")' = At(p, "static") /\ Lib(p, "static")' = Lib(p, "static")
         /\ Mi(p, "static")' = Mi(p, "static")
         /\ thread'[p]["static"].libs = thread[p]["static"].libs
      BY <1>3, <2>4 DEF Kinds, At, Fun, Lib, Mi
  <2>14. ASSUME NEW m \in 1..Len(modinits'[p]) PROVE ListHolds(p, m)'
    <3>1. ListHolds(p, m) /\ ToSet(Data(p, m)) \subseteq Libs
      <4>1. m \in 1..Len(modinits[p])
          BY <1>1
      <4>. QED BY <4>1, Listed
    <3>. QED BY <1>1, <1>5, <2>7, <2>9, <2>10, <2>13, <3>1 DEF ListHolds
  <2>15. LoadHolds(p)'
      BY <1>1, <1>2, <1>5, <2>7, <2>10, <2>13 DEF LoadHolds
  <2>16. ASSUME NEW b \in bound'[p] PROVE Binds(p, b)'
    <3>1. Binds(p, b)
        BY <1>2, <2>1 DEF ProcessHolds
    <3>. QED BY <2>5, <2>7, <3>1 DEF Binds
  <2>17. ProcessHolds(p)'
    <3>1. refused'[p] # {} /\ modinit'[p] = Len(modinits'[p])
        BY <1>1, <1>2, <2>7 DEF ProcessHolds
    <3>. QED BY <2>11, <2>12, <2>14, <2>15, <2>16, <3>1 DEF ProcessHolds
  <2>18. ASSUME NEW q \in Procs \ {p} PROVE Untouched(q)
    <3>1. ASSUME NEW l \in Libs, <<l, base[q][l]>> \in marked
          PROVE  <<l, base[q][l]>> \in marked'
      <4>. PICK a : a = base[q][l]
          OBVIOUS
      <4>1. base'[q][l] = a
          BY <2>5
      <4>2. IsLoaded(l, a)'
          BY <4>1 DEF IsLoaded
      <4>. QED BY <1>5, <3>1, <4>2
    <3>. QED BY <1>1, <1>5, <2>1, <2>3, <2>5, <2>7, <3>1 DEF Untouched
  <2>19. \A q \in Procs : LockHolds(q)'
      BY <1>3, <2>1, <2>3, LocksHold
  <2>. QED BY <2>8, <2>17, <2>18, <2>19, OthersHold
<1>. QED BY <1>1, <1>4, <1>5

\* A list that a library is added to.
LEMMA AppendedList ==
  ASSUME NEW data \in Seq(Libs), NEW lib \in Libs
  PROVE  /\ Append(data, lib) \in Seq(Libs) /\ Len(Append(data, lib)) = Len(data) + 1
         /\ ToSet(Append(data, lib)) = ToSet(data) \cup {lib}
         /\ \A j \in 1..Len(data) : Append(data, lib)[j] = data[j]
<1>1. /\ Append(data, lib) \in Seq(Libs) /\ Len(Append(data, lib)) = Len(data) + 1
      /\ \A j \in 1..Len(data) : Append(data, lib)[j] = data[j]
      /\ Append(data, lib)[Len(data) + 1] = lib
      /\ DOMAIN data = 1..Len(data) /\ DOMAIN Append(data, lib) = 1..Len(data) + 1
      /\ Len(data) \in Nat
    OBVIOUS
<1>2. 1..Len(data) + 1 = 1..Len(data) \cup {Len(data) + 1}
  <2>1. \A n \in Nat : 1..n + 1 = 1..n \cup {n + 1}
      OBVIOUS
  <2>. QED BY <1>1, <2>1
<1>3. ToSet(Append(data, lib)) \subseteq ToSet(data) \cup {lib}
    BY <1>1, <1>2 DEF ToSet
<1>4. ToSet(data) \cup {lib} \subseteq ToSet(Append(data, lib))
    BY <1>1, <1>2 DEF ToSet
<1>. QED BY <1>1, <1>3, <1>4

\* A library is loaded, and listed.
Brings(p, lib, mi, a) ==
  /\ base' = [base EXCEPT ![p][lib] = a]
  /\ uses' = [uses EXCEPT ![p][lib] = @ + 1]
  /\ modinits' = [modinits EXCEPT ![p][mi].data = Append(@, lib)]

(* A library that is loaded is there from then on, and listed once more.     *)
LEMMA LoadedKeeps ==
  ASSUME ProcessesInv, NEW p \in Procs, NEW k \in Kinds, NEW lib \in Libs, lib = Lib(p, k),
         NEW mi \in 1..Len(modinits[p]), mi = Mi(p, k), At(p, k) = "load",
         krnl32lock = IF k = "static" THEN p ELSE Nobody,
         NEW a \in Bases \cup {Handle[lib]}, base[p][lib] \in {0, a},
         Brings(p, lib, mi, a),
         To(p, k, IF k = "static" THEN "mark" ELSE "start"),
         UNCHANGED <<marked, modinit, attached, refused, krnl32lock, bound>>
  PROVE  ProcessesInv'
<1>. PICK at \in {"start", "mark"} : at = IF k = "static" THEN "mark" ELSE "start"
    OBVIOUS
<1>. PICK libs : libs = thread[p][k].libs
    OBVIOUS
<1>1. /\ ProcessTypes /\ ProcessHolds(p) /\ ThreadHolds(p, k) /\ LoadHolds(p)
      /\ base \in [Procs -> [Libs -> Nat]] /\ uses \in [Procs -> [Libs -> Nat]]
      /\ modinits \in [Procs -> Seq(Lists)] /\ modinits[p] \in Seq(Lists)
      /\ Len(modinits[p]) \in Nat
      /\ a \in Nat /\ a # 0
    BY Threads, Places DEF ProcessTypes
<1>2. Goes(p, k, at, Fun(p, k), mi, libs)
  <2>1. To(p, k, at)
      OBVIOUS
  <2>. QED BY <2>1, ThreadGoes
<1>3. /\ At(p, k)' = at /\ Lib(p, k)' = lib /\ Mi(p, k)' = mi
      /\ thread'[p][k].libs = libs
      /\ \A j \in Kinds \ {k} : At(p, j)' = At(p, j)
      /\ \A q \in Procs \ {p} :
           thread'[q] = thread[q] /\ At(q, "static")' = At(q, "static")
    BY <1>2, Moved DEF Lib
<1>4. ThreadShape' /\ \A j \in Kinds \ {k} : thread'[p][j] = thread[p][j]
  <2>1. ThreadShape
      BY Threads
  <2>. QED BY <1>2, <2>1, ThreadMoves
<1>5. /\ base'[p][lib] = a /\ uses'[p][lib] = uses[p][lib] + 1
      /\ \A l \in Libs \ {lib} : base'[p][l] = base[p][l] /\ uses'[p][l] = uses[p][l]
      /\ \A q \in Procs \ {p} : base'[q] = base[q] /\ uses'[q] = uses[q]
      /\ base' \in [Procs -> [Libs -> Nat]] /\ uses' \in [Procs -> [Libs -> Nat]]
  <2>1. \A n \in Nat : n + 1 \in Nat
      OBVIOUS
  <2>2. /\ base' = [base EXCEPT ![p][lib] = a]
        /\ uses' = [uses EXCEPT ![p][lib] = @ + 1]
      BY DEF Brings
  <2>. QED BY <1>1, <2>1, <2>2
<1>6. PICK data \in Seq(Libs), init \in Nat :
        modinits[p][mi] = [data |-> data, init |-> init] /\ data = Data(p, mi)
  <2>1. modinits[p][mi] \in Lists
      BY <1>1, ListTypes
  <2>. QED BY <2>1 DEF Lists, Data
<1>7. PICK new \in Seq(Libs) :
        /\ new = Append(data, lib) /\ Len(new) = Len(data) + 1
        /\ ToSet(new) = ToSet(data) \cup {lib}
        /\ \A j \in 1..Len(data) : new[j] = data[j]
    BY AppendedList
<1>8. modinits' = [modinits EXCEPT ![p] = [modinits[p] EXCEPT ![mi] = [data |-> new, init |-> init]]]
  <2>1. [modinits[p][mi] EXCEPT !.data = Append(@, lib)] = [data |-> new, init |-> init]
    <3>1. modinits[p][mi] = [data |-> data, init |-> init]
        BY <1>6
    <3>2. PICK r : r = modinits[p][mi] /\ r = [data |-> data, init |-> init]
        BY <3>1
    <3>4. PICK x : x = Append(r.data, lib)
        OBVIOUS
    <3>5. x = new
        BY <1>7, <3>2, <3>4
    <3>6. [r EXCEPT !.data = x] = [data |-> x, init |-> init]
        BY <3>2
    <3>3. [r EXCEPT !.data = Append(r.data, lib)] = [data |-> Append(data, lib), init |-> init]
        BY <1>7, <3>4, <3>5, <3>6, Zenon
    <3>. QED BY <1>7, <3>2, <3>3
  <2>. QED BY <2>1 DEF Brings
<1>9. /\ modinits' \in [Procs -> Seq(Lists)] /\ Len(modinits'[p]) = Len(modinits[p])
      /\ modinits'[p][mi] = [data |-> new, init |-> init]
      /\ \A m \in 1..Len(modinits[p]) \ {mi} : modinits'[p][m] = modinits[p][m]
      /\ \A q \in Procs \ {p} : modinits'[q] = modinits[q]
  <2>1. PICK list \in Lists : list = [data |-> new, init |-> init]
      BY DEF Lists
  <2>2. Replaces(p, mi, list)
      BY <1>8, <2>1 DEF Replaces
  <2>3. modinits \in [Procs -> Seq(Lists)] /\ mi \in 1..Len(modinits[p])
      BY <1>1
  <2>. QED BY <2>1, <2>2, <2>3, OneListMoves
<1>10. /\ Data(p, mi)' = new /\ modinits'[p][mi].init = init
       /\ Data(p, mi) = data /\ modinits[p][mi].init = init
       /\ \A m \in 1..Len(modinits[p]) \ {mi} : Data(p, m)' = Data(p, m)
    BY <1>6, <1>9 DEF Data
<1>11. \A m \in 1..Len(modinits[p]) : ToSet(Data(p, m)) \subseteq ToSet(Data(p, m)')
    BY <1>7, <1>10
<1>12. ProcessTypes'
    BY <1>1, <1>4, <1>5, <1>9 DEF ProcessTypes
<1>13. /\ \A l \in Libs : base[p][l] # 0 => base'[p][l] = base[p][l]
       /\ \A l \in Libs : Present(p, l) => Present(p, l)'
       /\ Present(p, lib)'
    BY <1>1, <1>5 DEF Present
<1>14. ASSUME NEW l \in Libs PROVE LibraryHolds(p, l)'
  <2>1. LibraryHolds(p, l)
      BY <1>1 DEF ProcessHolds
  <2>2. CASE l = lib
    <3>1. uses[p][lib] + 1 # 0
        BY <1>1
    <3>. QED BY <1>1, <1>5, <2>2, <3>1 DEF LibraryHolds
  <2>3. CASE l # lib
      BY <1>5, <2>1, <2>3 DEF LibraryHolds
  <2>. QED BY <2>2, <2>3
<1>15. \A j \in Kinds : ThreadHolds(p, j)'
  <2>1. ASSUME NEW j \in Kinds \ {k} PROVE ThreadHolds(p, j)'
    <3>1. /\ ThreadHolds(p, j) /\ At(p, j)' = At(p, j) /\ Lib(p, j)' = Lib(p, j)
          /\ Mi(p, j)' = Mi(p, j)
        BY <1>1, <1>4 DEF ProcessHolds, At, Fun, Lib, Mi
    <3>. QED BY <1>9, <1>11, <1>13, <3>1 DEF ThreadHolds
  <2>2. ThreadHolds(p, k)'
    <3>1. lib \in ToSet(Data(p, mi)')
        BY <1>7, <1>10
    <3>2. Data(p, Mi(p, k))' = Data(p, mi)'
        BY <1>3 DEF Data
    <3>. QED BY <1>1, <1>3, <1>5, <1>9, <1>13, <3>1, <3>2 DEF ThreadHolds, Kinds
  <2>. QED BY <2>1, <2>2
<1>16. At(p, "static") = "attach" =>
         At(p, "static")' = "attach" /\ Lib(p, "static")' = Lib(p, "static")
    BY <1>4 DEF Kinds, At, Lib, Fun
<1>17. ASSUME NEW m \in 1..Len(modinits'[p]) PROVE ListHolds(p, m)'
  <2>1. m \in 1..Len(modinits[p])
      BY <1>9
  <2>2. ListHolds(p, m) /\ ToSet(Data(p, m)) \subseteq Libs
      BY <2>1, Listed
  <2>3. CASE m = mi
    <3>1. /\ init <= Len(data) /\ Len(data) \in Nat /\ init <= Len(new)
        BY <1>7, <1>10, <2>2, <2>3 DEF ListHolds
    <3>2. \A l \in ToSet(new) : Present(p, l)'
        BY <1>7, <1>10, <1>13, <2>2, <2>3 DEF ListHolds
    <3>3. ASSUME NEW j \in 1..init
          PROVE  \/ new[j] \in attached'[p] \cup refused'[p]
                 \/ At(p, "static")' = "attach" /\ Lib(p, "static")' = new[j]
      <4>1. new[j] = data[j]
          BY <1>7, <3>1
      <4>. QED BY <1>10, <1>16, <2>2, <2>3, <4>1 DEF ListHolds
    <3>. QED BY <1>10, <2>3, <3>1, <3>2, <3>3 DEF ListHolds
  <2>4. CASE m # mi
    <3>1. modinits'[p][m] = modinits[p][m] /\ Data(p, m)' = Data(p, m)
        BY <1>9, <1>10, <2>1, <2>4
    <3>. QED BY <1>13, <1>16, <2>2, <3>1 DEF ListHolds
  <2>. QED BY <2>3, <2>4
<1>18. LoadHolds(p)'
  <2>1. thread'[p]["static"].libs = thread[p]["static"].libs
      BY <1>3, <1>4 DEF Kinds
  <2>2. \A l \in thread[p]["static"].libs :
          \E m \in 1..Len(modinits'[p]) : l \in ToSet(Data(p, m)')
      BY <1>1, <1>9, <1>11 DEF LoadHolds
  <2>3. CASE k = "static"
      BY <1>3, <2>1, <2>2, <2>3 DEF LoadHolds
  <2>4. CASE k # "static"
    <3>1. /\ At(p, "static")' = At(p, "static") /\ Mi(p, "static")' = Mi(p, "static")
        BY <1>4, <2>4 DEF Kinds, At, Mi
    <3>. QED BY <1>1, <1>9, <2>1, <2>2, <3>1 DEF LoadHolds
  <2>. QED BY <2>3, <2>4
<1>19. ASSUME NEW b \in bound'[p] PROVE Binds(p, b)'
  <2>1. Binds(p, b)
      BY <1>1 DEF ProcessHolds
  <2>. QED BY <1>13, <2>1 DEF Binds
<1>20. ASSUME refused'[p] = {}, NEW m \in 1..Len(modinits'[p]), NEW l \in Libs
       PROVE  ListedAtMostTwice(p, m, l)'
  <2>1. m \in 1..Len(modinits[p]) /\ refused[p] = {}
      BY <1>9, <1>20
  <2>2. /\ ListedAtMostTwice(p, m, l) /\ Occurrences(Data(p, m), l) \in Nat
        /\ Occurrences(Data(p, m), l) = 0 <=> l \notin ToSet(Data(p, m))
        /\ \A x \in ToSet(Data(p, m)) : Present(p, x)
      BY <2>1, Listed
  <2>3. \A j \in Kinds \ {k} : /\ Loads(p, j, m, l)' = Loads(p, j, m, l)
                               /\ Marks(p, j, m, l)' = Marks(p, j, m, l)
      BY <1>4 DEF Loads, Marks, At, Fun, Lib, Mi
  <2>4. \A j \in Kinds : Loads(p, j, m, l) \in 0..1 /\ Marks(p, j, m, l) \in 0..1
      BY DEF Loads, Marks
  <2>5. /\ Loads(p, k, m, l)' = 0 /\ Marks(p, k, m, l) = 0
        /\ Loads(p, k, m, l) = IF mi = m /\ lib = l THEN 1 ELSE 0
        /\ Marks(p, k, m, l)' = IF mi = m /\ lib = l THEN 1 ELSE 0
      BY <1>3 DEF Loads, Marks
  <2>6. Occurrences(Data(p, m)', l) =
          IF mi = m /\ lib = l THEN Occurrences(Data(p, m), l) + 1
          ELSE Occurrences(Data(p, m), l)
    <3>1. CASE mi = m
      <4>1. Occurrences(new, l) = IF lib = l THEN Occurrences(data, l) + 1
                                  ELSE Occurrences(data, l)
          BY <1>7, OccursOnceMore
      <4>. QED BY <1>10, <3>1, <4>1
    <3>2. CASE mi # m
        BY <1>10, <2>1, <3>2
    <3>. QED BY <3>1, <3>2
  <2>7. PICK j \in Kinds \ {k} : Kinds = {k, j}
      BY DEF Kinds
  <2>8. /\ Occurrences(Data(p, m), l) + Loads(p, k, m, l) + Loads(p, j, m, l) <= 2
        /\ <<l, base[p][l]>> \notin marked =>
             Occurrences(Data(p, m), l) <= Marks(p, k, m, l) + Marks(p, j, m, l)
      BY <2>2, <2>4, <2>7 DEF ListedAtMostTwice, Kinds
  <2>9. Occurrences(Data(p, m)', l) + Loads(p, k, m, l)' + Loads(p, j, m, l)' <= 2
      BY <2>2, <2>3, <2>4, <2>5, <2>6, <2>7, <2>8
  <2>10. ASSUME <<l, base'[p][l]>> \notin marked'
         PROVE  Occurrences(Data(p, m)', l) <= Marks(p, k, m, l)' + Marks(p, j, m, l)'
    <3>1. Occurrences(Data(p, m), l) <= Marks(p, k, m, l) + Marks(p, j, m, l)
      <4>1. CASE base[p][l] # 0
        <5>1. <<l, base[p][l]>> \notin marked
          <6>1. base'[p][l] = base[p][l] /\ marked' = marked
              BY <1>13, <4>1
          <6>. QED BY <2>10, <6>1
        <5>. QED BY <2>8, <5>1
      <4>2. CASE base[p][l] = 0
        <5>1. Occurrences(Data(p, m), l) = 0
            BY <2>1, <2>2, <4>2 DEF Present
        <5>. QED BY <2>4, <2>7, <5>1
      <4>. QED BY <4>1, <4>2
    <3>. QED BY <2>2, <2>3, <2>4, <2>5, <2>6, <2>7, <3>1
  <2>11. /\ Loads(p, "static", m, l)' + Loads(p, "dynamic", m, l)'
             = Loads(p, k, m, l)' + Loads(p, j, m, l)'
         /\ Marks(p, "static", m, l)' + Marks(p, "dynamic", m, l)'
             = Marks(p, k, m, l)' + Marks(p, j, m, l)'
         /\ \A i \in Kinds : Loads(p, i, m, l)' \in 0..1
    <3>1. \A i \in Kinds : Loads(p, i, m, l)' \in 0..1 /\ Marks(p, i, m, l)' \in 0..1
        BY <2>3, <2>4, <2>5
    <3>. QED BY <2>7, <3>1 DEF Kinds
  <2>12. Occurrences(Data(p, m)', l) \in Nat
      BY <2>2, <2>6
  <2>. QED BY <2>7, <2>9, <2>10, <2>11, <2>12 DEF ListedAtMostTwice, Kinds
<1>21. ProcessHolds(p)'
  <2>1. modinit'[p] = Len(modinits'[p])
      BY <1>1, <1>9 DEF ProcessHolds
  <2>. QED BY <1>14, <1>15, <1>17, <1>18, <1>19, <1>20, <2>1 DEF ProcessHolds
<1>22. \A q \in Procs \ {p} : Untouched(q)
    BY <1>3, <1>5, <1>9 DEF Untouched
<1>23. \A q \in Procs : LockHolds(q)'
    BY <1>3, LocksHold
<1>. QED BY <1>12, <1>21, <1>22, <1>23, OthersHold

LEMMA LoadKeeps ==
  ASSUME ProcessesInv, NEW p \in Procs, NEW k \in Kinds, Load(p, k)
  PROVE  ProcessesInv'
<1> DEFINE lib == Lib(p, k)
<1>1. /\ At(p, k) = "load" /\ krnl32lock = (IF k = "static" THEN p ELSE Nobody)
      /\ UNCHANGED <<marked, modinit, attached, refused>>
    BY DEF Load
<1>2. lib \in Libs /\ Mi(p, k) \in 1..Len(modinits[p])
    BY <1>1, Threads DEF ThreadHolds
<1>3. CASE \E a \in Bases \cup {Handle[lib]} :
             /\ base[p][lib] \in {0, a}
             /\ Brings(p, lib, Mi(p, k), a)
             /\ To(p, k, IF k = "static" THEN "mark" ELSE "start")
             /\ UNCHANGED <<bound, krnl32lock>>
    BY <1>1, <1>2, <1>3, LoadedKeeps
<1>4. CASE NoAnswer(p, k) /\ UNCHANGED <<base, uses, modinits>>
  <2>1. /\ thread' = [thread EXCEPT ![p][k] = Idle] /\ UNCHANGED bound
        /\ krnl32lock' = (IF k = "static" THEN Nobody ELSE krnl32lock)
      BY <1>4 DEF NoAnswer
  <2>2. Goes(p, k, "idle", Nowhere, 0, {})
      BY <2>1, ThreadGoes
  <2>3. /\ At(p, k)' = "idle" /\ thread'[p][k].libs = {}
        /\ \A j \in Kinds \ {k} : At(p, j)' = At(p, j)
        /\ \A q \in Procs \ {p} : At(q, "static")' = At(q, "static")
      BY <2>2, Moved
  <2>4. ThreadHolds(p, k)' /\ (k = "static" => LoadHolds(p)')
      BY <2>3, IdleHolds
  <2>5. \A q \in Procs : LockHolds(q)'
    <3>1. CASE k = "static"
        BY <1>1, <2>1, <2>3, <3>1, LocksHold
    <3>2. CASE k # "static"
        BY <1>1, <2>1, <2>3, <3>2, LocksHold
    <3>. QED BY <3>1, <3>2
  <2>6. UNCHANGED processVars /\ DOMAIN bound' = Procs
      BY <1>1, <1>4, <2>1 DEF processVars, ProcessesInv, ProcessTypes
  <2>. QED BY <1>1, <2>1, <2>2, <2>4, <2>5, <2>6, QuietStep
<1>. QED BY <1>3, <1>4 DEF Load, Brings

(* The library that is taken from the list is the one being started.         *)
LEMMA InitializeKeeps ==
  ASSUME ProcessesInv, NEW p \in Procs, Initialize(p)
  PROVE  ProcessesInv'
<1>. PICK mi : mi = Mi(p, "static")
    OBVIOUS
<1>. PICK libs : libs = thread[p]["static"].libs
    OBVIOUS
<1>0. "static" \in Kinds
    BY DEF Kinds
<1>1. /\ At(p, "static") = "notify" /\ HasInitialize(p, mi)
      /\ modinits' = [modinits EXCEPT ![p][mi].init = @ + 1]
      /\ thread' = [thread EXCEPT ![p]["static"].at = "attach",
           ![p]["static"].fun = [in |-> Data(p, mi)[modinits[p][mi].init + 1], at |-> 0]]
      /\ UNCHANGED <<base, uses, marked, modinit, attached, refused, krnl32lock, bound>>
    BY DEF Initialize
<1>2. /\ ProcessTypes /\ ProcessHolds(p) /\ ThreadHolds(p, "static") /\ LoadHolds(p)
      /\ modinits \in [Procs -> Seq(Lists)] /\ modinits[p] \in Seq(Lists)
      /\ Len(modinits[p]) \in Nat
    BY <1>0, Threads DEF ProcessTypes
<1>3. mi \in 1..Len(modinits[p])
  <2>1. mi \in 0..Len(modinits[p]) /\ mi # 0
      BY <1>1, <1>2 DEF LoadHolds, HasInitialize
  <2>. QED BY <1>2, <2>1
<1>4. PICK data \in Seq(Libs), init \in Nat :
        modinits[p][mi] = [data |-> data, init |-> init] /\ data = Data(p, mi)
        /\ init = modinits[p][mi].init
  <2>1. modinits[p][mi] \in Lists
      BY <1>2, <1>3, ListTypes
  <2>. QED BY <2>1 DEF Lists, Data
<1>5. init < Len(data) /\ Len(data) \in Nat /\ init + 1 \in 1..Len(data)
  <2>1. init < Len(data)
      BY <1>1, <1>4 DEF HasInitialize, Data
  <2>. QED BY <2>1
<1>6. PICK lib : lib = data[init + 1]
    OBVIOUS
<1>7. lib \in Libs /\ lib \in ToSet(data) /\ Present(p, lib)
  <2>1. lib \in Libs /\ lib \in ToSet(data)
      BY <1>5, <1>6 DEF ToSet
  <2>. QED BY <1>3, <1>4, <2>1, Listed
<1>8. PICK fun : fun = [in |-> lib, at |-> 0]
    OBVIOUS
<1>9. Goes(p, "static", "attach", fun, mi, libs)
  <2>1. thread' = [thread EXCEPT ![p]["static"].at = "attach", ![p]["static"].fun = fun]
      BY <1>1, <1>4, <1>6, <1>8
  <2>. QED BY <1>0, <2>1, ThreadGoes
<1>10. /\ At(p, "static")' = "attach" /\ Lib(p, "static")' = lib /\ Mi(p, "static")' = mi
       /\ thread'[p]["static"].libs = libs
       /\ \A j \in Kinds \ {"static"} : At(p, j)' = At(p, j)
       /\ \A q \in Procs \ {p} :
            thread'[q] = thread[q] /\ At(q, "static")' = At(q, "static")
    BY <1>0, <1>8, <1>9, Moved DEF Lib
<1>11. ThreadShape' /\ \A j \in Kinds \ {"static"} : thread'[p][j] = thread[p][j]
  <2>1. ThreadShape
      BY <1>2 DEF ProcessTypes
  <2>. QED BY <1>0, <1>9, <2>1, ThreadMoves
<1>12. modinits' = [modinits EXCEPT ![p] =
                      [modinits[p] EXCEPT ![mi] = [data |-> data, init |-> init + 1]]]
  <2>1. PICK r : r = modinits[p][mi] /\ r = [data |-> data, init |-> init]
      BY <1>4
  <2>2. PICK x : x = r.init + 1
      OBVIOUS
  <2>3. x = init + 1
      BY <2>1, <2>2
  <2>4. [r EXCEPT !.init = x] = [data |-> data, init |-> x]
      BY <2>1
  <2>5. [r EXCEPT !.init = r.init + 1] = [data |-> data, init |-> init + 1]
      BY <2>2, <2>3, <2>4, Zenon
  <2>. QED BY <1>1, <2>1, <2>5
<1>13. /\ modinits' \in [Procs -> Seq(Lists)] /\ Len(modinits'[p]) = Len(modinits[p])
       /\ modinits'[p][mi] = [data |-> data, init |-> init + 1]
       /\ \A m \in 1..Len(modinits[p]) \ {mi} : modinits'[p][m] = modinits[p][m]
       /\ \A q \in Procs \ {p} : modinits'[q] = modinits[q]
  <2>1. PICK list \in Lists : list = [data |-> data, init |-> init + 1]
    <3>1. PICK next \in Nat : next = init + 1
        OBVIOUS
    <3>2. [data |-> data, init |-> next] \in Lists
        BY DEF Lists
    <3>. QED BY <3>1, <3>2
  <2>2. Replaces(p, mi, list)
      BY <1>12, <2>1 DEF Replaces
  <2>3. modinits \in [Procs -> Seq(Lists)] /\ mi \in 1..Len(modinits[p])
      BY <1>2, <1>3
  <2>. QED BY <2>1, <2>2, <2>3, OneListMoves
<1>14. /\ modinits'[p][mi].init = init + 1
       /\ \A m \in 1..Len(modinits[p]) : Data(p, m)' = Data(p, m)
  <2>1. PICK list : list = [data |-> data, init |-> init + 1] /\ modinits'[p][mi] = list
      BY <1>13
  <2>2. list.data = data /\ list.init = init + 1
      BY <2>1
  <2>3. ASSUME NEW m \in 1..Len(modinits[p]), m = mi PROVE Data(p, m)' = Data(p, m)
      BY <1>4, <2>1, <2>2, <2>3 DEF Data
  <2>4. ASSUME NEW m \in 1..Len(modinits[p]), m # mi PROVE Data(p, m)' = Data(p, m)
      BY <1>13, <2>4 DEF Data
  <2>. QED BY <2>1, <2>2, <2>3, <2>4
<1>15. ProcessTypes'
    BY <1>1, <1>2, <1>11, <1>13 DEF ProcessTypes
<1>16. \A l : Present(p, l)' <=> Present(p, l)
    BY <1>1 DEF Present
<1>17. (\A l \in Libs : LibraryHolds(p, l)') /\ \A b \in bound'[p] : Binds(p, b)'
    BY <1>1, <1>2 DEF ProcessHolds, LibraryHolds, Binds
<1>18. \A j \in Kinds : ThreadHolds(p, j)'
  <2>1. ASSUME NEW j \in Kinds \ {"static"} PROVE ThreadHolds(p, j)'
    <3>1. /\ ThreadHolds(p, j) /\ At(p, j)' = At(p, j) /\ Lib(p, j)' = Lib(p, j)
          /\ Mi(p, j)' = Mi(p, j)
        BY <1>2, <1>11 DEF ProcessHolds, At, Fun, Lib, Mi
    <3>2. Mi(p, j) \in 1..Len(modinits[p]) => Data(p, Mi(p, j))' = Data(p, Mi(p, j))
        BY <1>14, <3>1 DEF Data
    <3>. QED BY <1>1, <1>13, <1>16, <3>1, <3>2 DEF ThreadHolds
  <2>2. ThreadHolds(p, "static")'
      BY <1>3, <1>7, <1>10, <1>13, <1>16 DEF ThreadHolds
  <2>. QED BY <2>1, <2>2
<1>19. ASSUME NEW m \in 1..Len(modinits'[p]) PROVE ListHolds(p, m)'
  <2>1. m \in 1..Len(modinits[p])
      BY <1>13
  <2>2. ListHolds(p, m) /\ Data(p, m)' = Data(p, m)
      BY <1>14, <2>1, Listed
  <2>3. CASE m = mi
    <3>1. \A j \in 1..init + 1 : j \in 1..init \/ j = init + 1
        OBVIOUS
    <3>2. \A j \in 1..init : data[j] \in attached[p] \cup refused[p]
        BY <1>1, <1>4, <2>2, <2>3 DEF ListHolds
    <3>3. ASSUME NEW j \in 1..init + 1
          PROVE  \/ data[j] \in attached'[p] \cup refused'[p]
                 \/ At(p, "static")' = "attach" /\ Lib(p, "static")' = data[j]
        BY <1>1, <1>6, <1>10, <3>1, <3>2
    <3>4. init + 1 <= Len(data)
        BY <1>5
    <3>. QED BY <1>4, <1>14, <1>16, <2>2, <2>3, <3>3, <3>4 DEF ListHolds
  <2>4. CASE m # mi
    <3>1. modinits'[p][m] = modinits[p][m]
        BY <1>13, <2>1, <2>4
    <3>. QED BY <1>1, <1>16, <2>2, <3>1 DEF ListHolds
  <2>. QED BY <2>3, <2>4
<1>20. LoadHolds(p)'
  <2>1. /\ \A l \in libs : \E m \in 1..Len(modinits[p]) : l \in ToSet(Data(p, m))
        /\ mi \in 0..Len(modinits[p]) /\ mi # 0
      BY <1>2, <1>3 DEF LoadHolds
  <2>. QED BY <1>10, <1>13, <1>14, <2>1 DEF LoadHolds
<1>21. refused'[p] = {} =>
         \A m \in 1..Len(modinits[p]), l \in Libs : ListedAtMostTwice(p, m, l)'
  <2>1. /\ UNCHANGED <<base, refused>> /\ marked \subseteq marked'
        /\ \A m \in 1..Len(modinits[p]) : Data(p, m)' = Data(p, m)
      BY <1>1, <1>14
  <2>2. At(p, "static") \notin {"start", "mark"} /\ At(p, "static")' \notin {"load", "start", "mark"}
      BY <1>1, <1>10
  <2>. QED BY <1>0, <1>11, <2>1, <2>2, StillListed
<1>22. ProcessHolds(p)'
  <2>1. modinit'[p] = Len(modinits'[p])
      BY <1>1, <1>2, <1>13 DEF ProcessHolds
  <2>. QED BY <1>13, <1>17, <1>18, <1>19, <1>20, <1>21, <2>1 DEF ProcessHolds
<1>23. \A q \in Procs \ {p} : Untouched(q)
    BY <1>1, <1>10, <1>13 DEF Untouched
<1>24. \A q \in Procs : LockHolds(q)'
    BY <1>0, <1>1, <1>10, LocksHold
<1>. QED BY <1>15, <1>22, <1>23, <1>24, OthersHold

-----------------------------------------------------------------------------
(* All behaviours *)

LEMMA ProcessesInitially ==
  ASSUME ImportsInit
  PROVE  ProcessesInv
<1>1. /\ base = [p \in Procs |-> [lib \in Libs |-> 0]] /\ uses = base
      /\ modinits = [p \in Procs |-> <<>>] /\ modinit = [p \in Procs |-> 0]
      /\ attached = [p \in Procs |-> {}] /\ refused = [p \in Procs |-> {}]
      /\ thread = [p \in Procs |-> [k \in Kinds |-> Idle]]
      /\ krnl32lock = Nobody /\ bound = [p \in Procs |-> {}]
    BY DEF ImportsInit
<1>2. \A p \in Procs, k \in Kinds :
        At(p, k) = "idle" /\ Fun(p, k) = Nowhere /\ Mi(p, k) = 0 /\ thread[p][k].libs = {}
        /\ thread[p][k] = Idle
    BY <1>1 DEF At, Fun, Mi, Idle
<1>3. ThreadShape
    BY <1>1, <1>2 DEF ThreadShape, Idle
<1>4. <<>> \in Seq(Lists) /\ Len(<<>>) = 0 /\ 1..0 = {}
    OBVIOUS
<1>5. ProcessTypes
    BY <1>1, <1>3, <1>4 DEF ProcessTypes
<1>6. ASSUME NEW p \in Procs PROVE ProcessHolds(p) /\ LockHolds(p)
  <2>1. \A lib \in Libs : LibraryHolds(p, lib)
      BY <1>1 DEF LibraryHolds
  <2>2. \A k \in Kinds : ThreadHolds(p, k)
      BY <1>2 DEF ThreadHolds
  <2>3. LoadHolds(p)
      BY <1>2 DEF LoadHolds, Kinds
  <2>4. LockHolds(p)
      BY <1>1, <1>2, ImportsAssumption DEF LockHolds, Kinds
  <2>. QED BY <1>1, <1>4, <2>1, <2>2, <2>3, <2>4 DEF ProcessHolds
<1>. QED BY <1>5, <1>6 DEF ProcessesInv

LEMMA ProcessesStutter ==
  ASSUME ProcessesInv, UNCHANGED <<processVars, thread, krnl32lock, bound>>
  PROVE  ProcessesInv'
<1>1. UNCHANGED <<base, uses, marked, modinits, modinit, attached, refused, thread,
                  krnl32lock, bound>>
    BY DEF processVars
<1>2. /\ \A p, k : /\ At(p, k)' = At(p, k) /\ Fun(p, k)' = Fun(p, k) /\ Lib(p, k)' = Lib(p, k)
                   /\ Mi(p, k)' = Mi(p, k)
      /\ \A p, mi : Data(p, mi)' = Data(p, mi)
    BY <1>1 DEF At, Fun, Lib, Mi, Data
<1>3. ThreadShape => ThreadShape'
    BY <1>1, <1>2 DEF ThreadShape
<1>4. ProcessTypes'
    BY <1>1, <1>3 DEF ProcessTypes, ProcessesInv
<1>5. ASSUME NEW p \in Procs PROVE ProcessHolds(p)' /\ LockHolds(p)'
  <2>1. Untouched(p)
      BY <1>1 DEF Untouched
  <2>. QED BY <1>1, <1>2, <2>1, UntouchedHolds DEF ProcessesInv, LockHolds
<1>. QED BY <1>4, <1>5 DEF ProcessesInv

LEMMA ProcessesStep ==
  ASSUME ProcessesInv, [ImportsNext]_importsVars
  PROVE  ProcessesInv'
<1>1. CASE UNCHANGED importsVars
  <2>1. UNCHANGED <<processVars, thread, krnl32lock, bound>>
      BY <1>1 DEF importsVars
  <2>. QED BY <2>1, ProcessesStutter
<1>2. CASE TablesNext /\ UNCHANGED <<processVars, thread, krnl32lock, bound>>
    BY <1>2, ProcessesStutter
<1>3. ASSUME NEW p \in Procs, LoadModule(p) PROVE ProcessesInv'
    BY <1>3, BeginLoadKeeps, EndLoadKeeps, InitializeKeeps, AttachKeeps, RunKeeps, RanKeeps
       DEF LoadModule
<1>4. ASSUME NEW p \in Procs, NEW k \in Kinds, Resolve(p, k) PROVE ProcessesInv'
    BY <1>4, ImportKeeps, GetInstanceKeeps, MakeInstanceKeeps, ScanKeeps, LoadKeeps,
       StartKeeps, MarkKeeps DEF Resolve
<1>. QED BY <1>1, <1>2, <1>3, <1>4 DEF ImportsNext

(* The whole invariant of the processes: their types, what holds of each     *)
(* library and each list of libraries of a process, and who owns krnl32lock. *)
THEOREM Processes == ImportsSpec => []ProcessesInv
<1>1. ImportsInit => ProcessesInv
    BY ProcessesInitially
<1>2. ProcessesInv /\ [ImportsNext]_importsVars => ProcessesInv'
    BY ProcessesStep
<1>. QED BY <1>1, <1>2, PTL DEF ImportsSpec

(* "Valid address to function for calling process" (resolver.cpp, 189), of   *)
(* every import, in whatever process, wherever the libraries are loaded.     *)
THEOREM Bound == ImportsSpec => []BoundInProcess
<1>1. ProcessesInv => BoundInProcess
  <2>1. ASSUME ProcessesInv, NEW p \in Procs, NEW b \in bound[p], b.fun.in \notin refused[p]
        PROVE  base[p][b.fun.in] # 0 /\ b.address = base[p][b.fun.in] + b.fun.at
      BY <2>1 DEF ProcessesInv, ProcessHolds, Binds
  <2>. QED BY <2>1 DEF BoundInProcess
<1>. QED BY <1>1, Processes, PTL

(* A module runs only after the libraries that its imports led to have been  *)
(* started, or have refused to, if no initialiser of its process was lost.   *)
THEOREM Started == ImportsSpec => []StartedBeforeUse
<1>1. ProcessesInv => StartedBeforeUse
    BY DEF ProcessesInv, ProcessHolds, LoadHolds, StartedBeforeUse
<1>. QED BY <1>1, Processes, PTL

(* "first check if api library has already been loaded" (resolver.cpp, 209): *)
(* the list grows with the two imports of a process that may race, and no    *)
(* more, while all libraries start.                                          *)
THEOREM ListedOnce == ImportsSpec => []ListedOnceByEach
<1>1. ASSUME ProcessesInv PROVE ListedOnceByEach
  <2>1. ASSUME NEW p \in Procs, NEW mi \in DOMAIN modinits[p], refused[p] = {},
               NEW lib \in Libs
        PROVE  Occurrences(Data(p, mi), lib) <= 2
    <3>1. ProcessTypes /\ mi \in 1..Len(modinits[p])
      <4>1. modinits[p] \in Seq(Lists)
          BY <1>1 DEF ProcessesInv, ProcessTypes
      <4>2. DOMAIN modinits[p] = 1..Len(modinits[p])
          BY <4>1
      <4>. QED BY <1>1, <2>1, <4>2 DEF ProcessesInv
    <3>2. ListedAtMostTwice(p, mi, lib) /\ Occurrences(Data(p, mi), lib) \in Nat
        BY <1>1, <2>1, <3>1, Listed
    <3>3. \A k : Loads(p, k, mi, lib) \in 0..1
        BY DEF Loads
    <3>. QED BY <3>2, <3>3 DEF ListedAtMostTwice
  <2>. QED BY <2>1 DEF ListedOnceByEach, Occurrences
<1>. QED BY <1>1, Processes, PTL

(* Tables and processes keep their types; a library is somewhere in a        *)
(* process while it is used there, and krnl32lock is owned by the process    *)
(* that resolves the imports of a module, for any number of processes.       *)
THEOREM Types == ImportsSpec => []ImportsTypeOK
<1>1. TablesTypeOK /\ ProcessesInv => ImportsTypeOK
  <2> SUFFICES ASSUME TablesTypeOK, ProcessesInv PROVE ImportsTypeOK
      OBVIOUS
  <2>1. ProcessTypes /\ \A p \in Procs : ProcessHolds(p) /\ LockHolds(p)
      BY DEF ProcessesInv
  <2>2. ASSUME NEW p \in Procs, NEW lib \in Libs
        PROVE  /\ base[p][lib] \in Bases \cup {0, Handle[lib]} /\ uses[p][lib] \in Nat
               /\ base[p][lib] = 0 <=> uses[p][lib] = 0
    <3>1. LibraryHolds(p, lib)
        BY <2>1 DEF ProcessHolds
    <3>2. uses[p][lib] \in Nat
        BY <2>1 DEF ProcessTypes
    <3>. QED BY <3>1, <3>2 DEF LibraryHolds
  <2>3. \A p \in Procs : modinit[p] = Len(modinits[p])
      BY <2>1 DEF ProcessHolds
  <2>4. ASSUME NEW p \in Procs, NEW mi \in DOMAIN modinits[p]
        PROVE  modinits[p][mi].init \in 0..Len(Data(p, mi))
    <3>1. modinits[p] \in Seq(Lists)
        BY <2>1 DEF ProcessTypes
    <3>2. mi \in 1..Len(modinits[p])
        BY <3>1
    <3>3. modinits[p][mi] \in Lists
        BY <3>1, <3>2
    <3>4. modinits[p][mi].init \in Nat /\ Data(p, mi) \in Seq(Libs)
        BY <3>3 DEF Lists, Data
    <3>5. modinits[p][mi].init <= Len(Data(p, mi))
        BY <2>1, <3>2 DEF ProcessHolds, ListHolds
    <3>6. Len(Data(p, mi)) \in Nat
        BY <3>4
    <3>. QED BY <3>4, <3>5, <3>6
  <2>5. \A p \in Procs :
          krnl32lock = p <=> At(p, "static") \notin {"idle", "notify", "attach", "running"}
      BY <2>1 DEF LockHolds
  <2>. QED BY <2>2, <2>3, <2>4, <2>5 DEF ImportsTypeOK
<1>. QED BY <1>1, TypesOfTables, Processes, PTL

=============================================================================
