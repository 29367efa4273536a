----------------------------- MODULE GeometryProofs ---------------------------
(***************************************************************************)
(* The launch geometry and the local memory kernel, for every size.        *)
(***************************************************************************)
EXTENDS LaunchGeometry, TLAPS

\* Dividing down launches whole groups, at most the requested work items,
\* and leaves out less than one group.
THEOREM DivDownFacts ==
  ASSUME NEW g \in Nat, NEW l \in Nat \ {0}
  PROVE  /\ DivDown(g, l) \in Nat
         /\ DivDown(g, l) <= g
         /\ g - DivDown(g, l) < l
         /\ \E n \in Nat : DivDown(g, l) = n * l
  <1> DEFINE q == g \div l
  <1>1. q \in Nat /\ g = l * q + (g % l) /\ g % l \in 0 .. l - 1
    OBVIOUS
  <1>2. q * l = l * q /\ q * l \in Nat
    BY <1>1
  <1>3. DivDown(g, l) = q * l
    BY DEF DivDown
  <1>4. q * l <= g /\ g - q * l < l
    BY <1>1, <1>2
  <1> HIDE DEF q
  <1> QED
    BY <1>1, <1>2, <1>3, <1>4

\* The product of bounded factors: an index in a row-major layout is inside.
LEMMA RowMajor ==
  ASSUME NEW n \in Nat, NEW m \in Nat, NEW a \in 0 .. n - 1, NEW b \in 0 .. m - 1
  PROVE  a * m + b \in 0 .. n * m - 1
  <1>1. a + 1 <= n /\ a \in Nat /\ m \in Nat
    OBVIOUS
  <1>2. (a + 1) * m <= n * m
    BY <1>1
  <1>3. (a + 1) * m = a * m + m /\ a * m \in Nat /\ n * m \in Nat
    BY <1>1
  <1> QED
    BY <1>2, <1>3

\* By either addressing scheme the loads of the global memory kernels stay
\* inside the FETCH_PER_WI elements per launched work item.
THEOREM LoadsInBounds ==
  ASSUME NEW n \in Nat, NEW l \in Nat \ {0},
         NEW g \in 0 .. n - 1, NEW lid \in 0 .. l - 1,
         NEW k \in 0 .. FETCH_PER_WI - 1
  PROVE  /\ LocalOffset(g, lid, l, k)
              \in 0 .. n * (FETCH_PER_WI * l) - 1
         /\ GlobalOffset(g * l + lid, n * l, k)
              \in 0 .. FETCH_PER_WI * (n * l) - 1
  <1> DEFINE F == FETCH_PER_WI
  <1>0. F \in Nat
    BY DEF FETCH_PER_WI
  <1>1. k * l + lid \in 0 .. F * l - 1
    BY <1>0, RowMajor
  <1>2. g * (F * l) + (k * l + lid) \in 0 .. n * (F * l) - 1
    <2>1. F * l \in Nat
      BY <1>0
    <2> HIDE DEF F
    <2> DEFINE b == k * l + lid
               m == F * l
    <2>2. b \in 0 .. m - 1 /\ m \in Nat
      BY <1>1, <2>1
    <2> HIDE DEF b, m
    <2>3. g * m + b \in 0 .. n * m - 1
      BY <2>2, RowMajor
    <2> QED
      BY <2>3 DEF b, m
  <1>3. LocalOffset(g, lid, l, k) = g * (F * l) + (k * l + lid)
    <2>1. g \in Int /\ l \in Int /\ lid \in Int /\ k \in Int
      OBVIOUS
    <2>2. (g * l) * 16 = g * (16 * l)
      BY <2>1
    <2>3. k * l \in Int /\ g * (16 * l) \in Int
      BY <2>1
    <2> QED
      BY <2>1, <2>2, <2>3 DEF LocalOffset, FETCH_PER_WI
  <1>4. g * l + lid \in 0 .. n * l - 1
    BY RowMajor
  <1>5. n * l \in Nat
    OBVIOUS
  <1>6. k * (n * l) + (g * l + lid) \in 0 .. F * (n * l) - 1
    <2> DEFINE b == g * l + lid
               m == n * l
    <2>1. b \in 0 .. m - 1 /\ m \in Nat /\ k \in 0 .. F - 1
      BY <1>4, <1>5
    <2> HIDE DEF b, m, F
    <2>2. k * m + b \in 0 .. F * m - 1
      BY <2>1, <1>0, RowMajor
    <2> QED
      BY <2>2 DEF b, m
  <1>7. GlobalOffset(g * l + lid, n * l, k)
          = k * (n * l) + (g * l + lid)
    <2>1. g * l + lid \in Int /\ k * (n * l) \in Int
      OBVIOUS
    <2> QED
      BY <2>1 DEF GlobalOffset
  <1> QED
    BY <1>2, <1>3, <1>6, <1>7

\* Different work items never touch the same slot of the local buffer, and
\* all slots lie in the LOCAL_SLOTS * l that the host asked for.
THEOREM LocalSlotsDisjoint ==
  ASSUME NEW l \in Nat \ {0}, NEW x \in 0 .. l - 1, NEW y \in 0 .. l - 1,
         NEW j \in 0 .. LOCAL_SLOTS - 1, NEW k \in 0 .. LOCAL_SLOTS - 1
  PROVE  /\ LocalSlot(x, l, j) \in 0 .. LOCAL_SLOTS * l - 1
         /\ LocalSlot(x, l, j) = LocalSlot(y, l, k) => x = y /\ j = k
  <1> USE DEF LocalSlot, LOCAL_SLOTS
  <1>1. j * l + x \in 0 .. 6 * l - 1
    BY RowMajor
  <1>2. j * l \in Int /\ k * l \in Int
    OBVIOUS
  <1>3. ASSUME x + j * l = y + k * l, j < k PROVE FALSE
    <2>1. (j + 1) * l <= k * l
      BY <1>3
    <2>2. (j + 1) * l = j * l + l
      OBVIOUS
    <2> QED
      BY <1>2, <1>3, <2>1, <2>2
  <1>4. ASSUME x + j * l = y + k * l, k < j PROVE FALSE
    <2>1. (k + 1) * l <= j * l
      BY <1>4
    <2>2. (k + 1) * l = k * l + l
      OBVIOUS
    <2> QED
      BY <1>2, <1>4, <2>1, <2>2
  <1>5. x + j * l = y + k * l => j = k
    BY <1>3, <1>4
  <1> QED
    BY <1>1, <1>2, <1>5

\* max_wg_size is positive, whatever the device and the vendor.
THEOREM MaxWgSizePositive ==
  ASSUME NEW item \in Nat, NEW vendor
  PROVE  MaxWgSize(item, vendor) \in Nat \ {0}
  BY SizesAssumption DEF MaxWgSize, Larger, Smaller

-------------------------------------------------------------------------------
LEMMA U32Facts ==
  ASSUME NEW n \in Nat
  PROVE  U32(n) \in Nat /\ U32(n) < 2^W /\ U32(n) <= n /\ 2^W \in Nat \ {0}
  <1> DEFINE t == 2^W
  <1>1. t \in Nat \ {0}
    BY WidthAssumption, PowersAssumption
  <1> HIDE DEF t
  <1>2. n % t \in 0 .. t - 1 /\ n = t * (n \div t) + (n % t) /\ n \div t \in Nat
    BY <1>1
  <1>3. t * (n \div t) >= 0
    BY <1>1, <1>2
  <1>4. n % t \in Nat /\ n % t < t /\ n % t <= n
    BY <1>1, <1>2, <1>3
  <1> QED
    BY <1>1, <1>4 DEF U32, t

\* The power of two at or below n, or the one above where n is within its
\* margin; next to the width of the word that one is 2^W.
LEMMA RoundingCases ==
  ASSUME NEW n \in Nat \ {0}, NEW p \in RoundToPower2(n)
  PROVE  \E j \in 0 .. W - 1 :
           /\ 2^j \in Nat \ {0} /\ 2^(j + 1) = 2 * 2^j
           /\ 2^j <= n /\ n < 2^(j + 1) /\ Margin[j + 1] \in Nat
           /\ \/ p = 2^j
              \/ 2^(j + 1) - n <= Margin[j + 1] /\ p = 2^(j + 1)
              \/ 2^(j + 1) - n <= Margin[j + 1] /\ j + 1 = W /\ p \in {0, 2^W - 1}
  <1>1. PICK j \in {i \in 0 .. W - 1 : 2^i <= n /\ n < 2^(i + 1)} : p \in RoundedAt(n, j)
    BY DEF RoundToPower2
  <1>2. j \in 0 .. W - 1 /\ j \in 0 .. W /\ j + 1 \in 0 .. W
    BY WidthAssumption
  <1>3. 2^j \in Nat \ {0} /\ 2^(j + 1) = 2 * 2^j /\ Margin[j + 1] \in Nat
    BY <1>2, PowersAssumption, WidthAssumption
  <1> DEFINE a == 2^j
             b == 2^(j + 1)
             m == Margin[j + 1]
  <1>4. CASE b - n > m
    BY <1>1, <1>2, <1>3, <1>4 DEF RoundedAt
  <1>5. CASE ~(b - n > m)
    <2>1. b - n <= m
      <3>1. a \in Nat /\ b = 2 * a /\ m \in Nat
        BY <1>3
      <3> HIDE DEF a, b, m
      <3> QED
        BY <1>5, <3>1
    <2>2. CASE j + 1 < W
      BY <1>1, <1>2, <1>3, <1>5, <2>1, <2>2 DEF RoundedAt
    <2>3. CASE ~(j + 1 < W)
      <3>1. j + 1 = W
        BY <1>2, <2>3, WidthAssumption
      <3>2. p \in {0, 2^W - 1}
        BY <1>1, <1>5, <2>3 DEF RoundedAt
      <3> QED
        BY <1>1, <1>2, <1>3, <2>1, <3>1, <3>2
    <2> QED
      BY <2>2, <2>3
  <1> QED
    BY <1>4, <1>5

LEMMA RoundToPower2Nat ==
  ASSUME NEW n \in Nat, NEW p \in RoundToPower2(n)
  PROVE  p \in Nat
  <1>1. CASE n = 0
    BY <1>1 DEF RoundToPower2
  <1>2. CASE n # 0
    <2>1. 2^W \in Nat \ {0}
      BY WidthAssumption, PowersAssumption
    <2> QED
      BY <1>2, <2>1, RoundingCases
  <1> QED
    BY <1>1, <1>2

\* A buffer of the global memory runner fits the largest allocation, and is
\* empty only for under 8 bytes; two fit it, except in the margin of log2f.
LEMMA GlobalElemsFit ==
  ASSUME NEW n \in Nat, NEW e \in GlobalElems(n)
  PROVE  /\ e \in Nat /\ (e = 0 <=> U32(n) < 8) /\ e * 4 <= n
         /\ 2 * (e * 4) <= n \/ InMargin((U32(n) \div 4) \div 2)
  <1> DEFINE u == U32(n)
             x == (u \div 4) \div 2
  <1>1. u \in Nat /\ u < 2^W /\ u <= n /\ 2^W \in Nat
    BY U32Facts
  <1>2. e \in RoundToPower2(x)
    BY DEF GlobalElems
  <1> HIDE DEF u
  <1>3. x \in Nat /\ 8 * x <= u /\ (x = 0 <=> u < 8)
    BY <1>1
  <1> HIDE DEF x
  <1>4. CASE x = 0
    BY <1>1, <1>2, <1>3, <1>4 DEF RoundToPower2, u
  <1>5. CASE x # 0
    <2>1. PICK j \in 0 .. W - 1 :
            /\ 2^j \in Nat \ {0} /\ 2^(j + 1) = 2 * 2^j
            /\ 2^j <= x /\ x < 2^(j + 1)
            /\ \/ e = 2^j
               \/ 2^(j + 1) - x <= Margin[j + 1] /\ e = 2^(j + 1)
               \/ j + 1 = W
      BY <1>2, <1>3, <1>5, RoundingCases
    <2> DEFINE a == 2^j
    <2>2. j + 1 # W
      <3> SUFFICES ASSUME j + 1 = W PROVE FALSE
        OBVIOUS
      <3>1. 2^W = 2 * a /\ a \in Nat \ {0} /\ a <= x
        BY <2>1
      <3> HIDE DEF a
      <3> QED
        BY <1>1, <1>3, <3>1
    <2>3. e = a \/ (e = 2 * a /\ InMargin(x))
      <3>1. j + 1 \in 1 .. W /\ 2^(j + 1) > x
        BY <1>3, <2>1, WidthAssumption
      <3> QED
        BY <2>1, <2>2, <3>1 DEF InMargin
    <2>4. a \in Nat \ {0} /\ a <= x
      BY <2>1
    <2> HIDE DEF a
    <2>5. e \in Nat /\ e # 0 /\ e <= 2 * x /\ ~(u < 8) /\ (e <= x \/ InMargin(x))
      BY <1>3, <1>5, <2>3, <2>4
    <2>6. e * 4 <= n /\ (e <= x => 2 * (e * 4) <= n)
      BY <1>1, <1>3, <2>5
    <2> QED
      BY <2>5, <2>6 DEF u, x
  <1> QED
    BY <1>4, <1>5

\* The bytes that a compute runner wants are within the largest allocation.
LEMMA WantedBytesFit ==
  ASSUME NEW cus \in Nat, NEW wg \in Nat, NEW size \in {2, 4, 8}, NEW alloc \in Nat
  PROVE  WantedBytes(cus, wg, size, alloc) \in Nat /\ WantedBytes(cus, wg, size, alloc) <= alloc
  <1> DEFINE u == U32(cus * WI_PER_CU * wg)
             v == U32(alloc)
  <1>1. cus * WI_PER_CU * wg \in Nat
    BY SizesAssumption
  <1>2. u \in Nat /\ v \in Nat /\ v <= alloc
    BY <1>1, U32Facts
  <1> HIDE DEF u, v
  <1>3. u * size \in Nat
    BY <1>2
  <1>4. Smaller(u * size, v) \in Nat /\ Smaller(u * size, v) <= alloc
    BY <1>2, <1>3 DEF Smaller
  <1> QED
    BY <1>4 DEF WantedBytes, u, v

LEMMA CompElemsFit ==
  ASSUME NEW cus \in Nat, NEW wg \in Nat, NEW size \in {2, 4, 8}, NEW alloc \in Nat,
         NEW e \in CompElems(cus, wg, size, alloc)
  PROVE  LET b == WantedBytes(cus, wg, size, alloc) IN
         /\ e \in Nat
         /\ \/ e * size <= alloc
            \/ \E k \in 1 .. W : 2^k > b /\ 2^k - b <= Margin[k]
  <1> DEFINE b == WantedBytes(cus, wg, size, alloc)
  <1>1. b \in Nat /\ b <= alloc
    BY WantedBytesFit
  <1>2. PICK p \in RoundToPower2(b) : e = p \div size
    BY DEF CompElems
  <1> HIDE DEF b
  <1>3. p \in Nat
    BY <1>1, <1>2, RoundToPower2Nat
  <1>4. e \in Nat /\ e * size <= p
    BY <1>2, <1>3
  <1>5. p <= b \/ \E k \in 1 .. W : 2^k > b /\ 2^k - b <= Margin[k]
    <2>1. CASE b = 0
      BY <1>2, <2>1 DEF RoundToPower2
    <2>2. CASE b # 0
      <3>1. PICK j \in 0 .. W - 1 :
              /\ 2^j <= b /\ b < 2^(j + 1) /\ 2^(j + 1) \in Nat
              /\ p = 2^j \/ 2^(j + 1) - b <= Margin[j + 1]
        BY <1>1, <1>2, <2>2, RoundingCases
      <3>2. j + 1 \in 1 .. W
        BY WidthAssumption
      <3>3. 2^(j + 1) > b
        BY <1>1, <3>1
      <3> QED
        BY <3>1, <3>2, <3>3
    <2> QED
      BY <2>1, <2>2
  <1>6. p <= b => e * size <= alloc
    BY <1>1, <1>3, <1>4
  <1> QED
    BY <1>4, <1>5, <1>6 DEF b

-------------------------------------------------------------------------------
\* The compute kernels of every type and width have 4096 operations.
LEMMA WorkPerItem ==
  ASSUME NEW mads \in {compute_sp, compute_integer, compute_dp, compute_hp}, NEW v \in widths
  PROVE  mads[v] \in Nat /\ MAD_64(v) \in Nat /\ mads[v] * MAD_64(v) = 4096
  <1>1. v \in {1, 2, 4, 8, 16}
    BY DEF widths
  <1>2. mads[v] = CASE v = 1 -> 32 [] v = 2 -> 16 [] v = 4 -> 8 [] v = 8 -> 4 [] v = 16 -> 2
    BY <1>1 DEF widths, compute_sp, compute_integer, compute_dp, compute_hp
  <1>3. MAD_64(v) = 128 * v
    BY <1>1 DEF MAD_64
  <1> QED
    BY <1>1, <1>2, <1>3

\* What a compute runner claims for e work items, and what those launched do.
LEMMA CompFigure ==
  ASSUME NEW e \in Nat, NEW l \in Nat \ {0}, NEW v \in widths,
         NEW mads \in {compute_sp, compute_integer, compute_dp, compute_hp}
  PROVE  CompClaim(e) - DivDown(e, l) * mads[v] * MAD_64(v) \in 0 .. l * work_per_wi - 1
  <1> DEFINE d == DivDown(e, l)
             a == mads[v]
             b == MAD_64(v)
  <1>1. d \in Nat /\ d <= e /\ e - d < l
    BY DivDownFacts
  <1>2. a \in Nat /\ b \in Nat /\ a * b = 4096
    BY WorkPerItem
  <1> HIDE DEF a, b, d
  <1>3. d * a * b = d * (a * b)
    BY <1>1, <1>2
  <1>4. d * a * b = d * 4096
    BY <1>2, <1>3
  <1>5. e * 4096 - d * 4096 \in 0 .. l * 4096 - 1
    BY <1>1
  <1> QED
    BY <1>4, <1>5 DEF CompClaim, work_per_wi, a, b, d

\* What the global memory runner claims, and what its launched items load.
LEMMA GlobalFigure ==
  ASSUME NEW e \in Nat, NEW l \in Nat \ {0}, NEW v \in widths
  PROVE  LET item == FETCH_PER_WI * v * 4
         IN  GlobalClaim(e) - DivDown((e \div v) \div FETCH_PER_WI, l) * item
               \in 0 .. l * item - 1
  <1> DEFINE q == (e \div v) \div 16
             d == DivDown(q, l)
  <1>1. v \in {1, 2, 4, 8, 16}
    BY DEF widths
  <1>2. q \in Nat /\ 16 * v * q <= e /\ e <= 16 * v * q + 16 * v - 1
    BY <1>1
  <1> HIDE DEF q
  <1>3. d \in Nat /\ d <= q /\ q - d <= l - 1
    <2>1. d \in Nat /\ d <= q /\ q - d < l
      BY <1>2, DivDownFacts
    <2> HIDE DEF d
    <2> QED
      BY <1>2, <2>1
  <1> HIDE DEF d
  <1>4. e * 4 - d * (16 * v * 4) \in 0 .. l * (16 * v * 4) - 1
    BY <1>1, <1>2, <1>3
  <1> QED
    BY <1>4 DEF GlobalClaim, FETCH_PER_WI, q, d

\* What the local memory runner claims for n elements, and what its launched
\* items read and write.
LEMMA LocalFigure ==
  ASSUME NEW n \in Nat, NEW l \in Nat \ {0}, NEW v \in {1, 2, 4}
  PROVE  LET item == LastStep * v * 4
         IN  LocalClaim(n) - DivDown(n \div v, l) * item \in 0 .. l * item - 1
  <1> DEFINE q == n \div v
             d == DivDown(q, l)
  <1>1. q \in Nat /\ v * q <= n /\ n <= v * q + v - 1
    OBVIOUS
  <1> HIDE DEF q
  <1>2. d \in Nat /\ d <= q /\ q - d <= l - 1
    BY <1>1, DivDownFacts
  <1> HIDE DEF d
  <1>3. LastStep = 332
    BY DEF LastStep, SwapSteps, Swaps, TOTAL_ITERATIONS, LOCAL_SLOTS
  <1>4. 332 * n * 4 - d * (332 * v * 4) \in 0 .. l * (332 * v * 4) - 1
    BY <1>1, <1>2
  <1> QED
    BY <1>3, <1>4 DEF LocalClaim, q, d
-------------------------------------------------------------------------------
\* Quotient and remainder are the only ones.
LEMMA QuotientIs ==
  ASSUME NEW l \in Nat \ {0}, NEW q \in Nat, NEW r \in 0 .. l - 1
  PROVE  (q * l + r) \div l = q /\ (q * l + r) % l = r
  <1> DEFINE a == q * l + r
             p == a \div l
             s == a % l
  <1>1. a \in Nat /\ a = q * l + r
    OBVIOUS
  <1> HIDE DEF a
  <1>2. p \in Int /\ s \in 0 .. l - 1 /\ a = l * p + s
    BY <1>1
  <1> HIDE DEF p, s
  <1>3. l * (q - p) = s - r
    BY <1>1, <1>2
  <1>4. q - p >= 1 => l * (q - p) >= l
    BY <1>2
  <1>5. q - p <= -1 => l * (q - p) <= -l
    <2> SUFFICES ASSUME q - p <= -1 PROVE l * (q - p) <= -l
      OBVIOUS
    <2>1. p - q >= 1 /\ p - q \in Int
      BY <1>2
    <2>2. l * (p - q) >= l
      BY <2>1
    <2> QED
      BY <1>2, <2>2
  <1>6. q = p
    BY <1>2, <1>3, <1>4, <1>5
  <1> QED
    BY <1>1, <1>2, <1>6 DEF a, p, s

\* A number below a * b has its place in a row-major layout of a rows.
LEMMA RowAndColumn ==
  ASSUME NEW a \in Nat, NEW b \in Nat, NEW x \in 0 .. a * b - 1
  PROVE  /\ b # 0
         /\ x \div b \in 0 .. a - 1 /\ x % b \in 0 .. b - 1
         /\ x = (x \div b) * b + (x % b)
  <1>1. b # 0
    OBVIOUS
  <1> DEFINE q == x \div b
             r == x % b
  <1>2. q \in Nat /\ r \in 0 .. b - 1 /\ x = b * q + r
    BY <1>1
  <1> HIDE DEF q, r
  <1>3. q <= a - 1
    <2> SUFFICES ASSUME q >= a PROVE FALSE
      BY <1>2
    <2>1. b * q >= b * a
      BY <1>2
    <2> QED
      BY <1>2, <2>1
  <1>4. q \in 0 .. a - 1 /\ x = q * b + r
    BY <1>2, <1>3
  <1> QED
    BY <1>1, <1>2, <1>4 DEF q, r

\* A launch reads every element of what it covers, and nothing else, with both
\* addressing schemes, whatever the global and the local size.
THEOREM LaunchCoversOnce ==
  ASSUME NEW g \in Nat, NEW l \in Nat \ {0}
  PROVE  CoversOnce(g, l)
  <1> DEFINE gs == DivDown(g, l)
             loads == (0 .. gs - 1) \X (0 .. FETCH_PER_WI - 1)
             byGroup == {LocalOffset(x[1] \div l, x[1] % l, l, x[2]) : x \in loads}
             byGrid == {GlobalOffset(x[1], gs, x[2]) : x \in loads}
  <1>1. PICK n \in Nat : gs = n * l
    BY DivDownFacts
  <1>2. gs \in Nat
    BY DivDownFacts
  <1> HIDE DEF gs
  <1>3. ASSUME NEW x \in loads
        PROVE  /\ x[1] \div l \in 0 .. n - 1 /\ x[1] % l \in 0 .. l - 1
               /\ x[1] = (x[1] \div l) * l + (x[1] % l)
               /\ x[1] \in 0 .. gs - 1 /\ x[2] \in 0 .. 15
    <2>1. x[1] \in 0 .. gs - 1 /\ x[2] \in 0 .. 15
      BY DEF FETCH_PER_WI
    <2> QED
      BY <1>1, <2>1, RowAndColumn
  <1>4. n * (16 * l) = gs * 16 /\ 16 * (n * l) = gs * 16 /\ gs * 16 \in Nat
    BY <1>1
  <1>5. byGroup \subseteq 0 .. gs * 16 - 1
    <2> SUFFICES ASSUME NEW x \in loads
                 PROVE  LocalOffset(x[1] \div l, x[1] % l, l, x[2]) \in 0 .. gs * 16 - 1
      OBVIOUS
    <2> DEFINE h == x[1] \div l
               i == x[1] % l
    <2>1. h \in 0 .. n - 1 /\ i \in 0 .. l - 1 /\ x[2] \in 0 .. FETCH_PER_WI - 1
      BY <1>3 DEF FETCH_PER_WI
    <2> HIDE DEF h, i
    <2>2. LocalOffset(h, i, l, x[2]) \in 0 .. n * (FETCH_PER_WI * l) - 1
      BY <2>1, LoadsInBounds
    <2> QED
      BY <1>4, <2>2 DEF FETCH_PER_WI, h, i
  <1>6. byGrid \subseteq 0 .. gs * 16 - 1
    <2> SUFFICES ASSUME NEW x \in loads
                 PROVE  GlobalOffset(x[1], gs, x[2]) \in 0 .. gs * 16 - 1
      OBVIOUS
    <2>1. x[2] * gs + x[1] \in 0 .. 16 * gs - 1
      BY <1>2, <1>3, RowMajor
    <2>2. x[2] * gs \in Int /\ x[1] \in Int
      BY <1>2, <1>3
    <2> QED
      BY <1>2, <2>1, <2>2 DEF GlobalOffset
  <1>7. 0 .. gs * 16 - 1 \subseteq byGroup
    <2> SUFFICES ASSUME NEW a \in 0 .. gs * 16 - 1 PROVE a \in byGroup
      OBVIOUS
    <2> DEFINE b == 16 * l
               h == a \div b
               c == a % b
    <2>1. /\ b \in Nat /\ h \in 0 .. n - 1 /\ c \in 0 .. b - 1 /\ a = h * b + c
      <3>1. b \in Nat /\ a \in 0 .. n * b - 1
        BY <1>4
      <3> HIDE DEF b
      <3> QED
        BY <3>1, RowAndColumn
    <2> DEFINE k == c \div l
               i == c % l
    <2>3. b = 16 * l
      OBVIOUS
    <2> HIDE DEF b, h, c
    <2>2. k \in 0 .. 15 /\ i \in 0 .. l - 1 /\ c = k * l + i
      <3> DEFINE F == 16
      <3>1. c \in 0 .. F * l - 1 /\ F \in Nat /\ l \in Nat
        BY <2>1, <2>3
      <3> HIDE DEF F
      <3>2. /\ c \div l \in 0 .. F - 1 /\ c % l \in 0 .. l - 1
            /\ c = (c \div l) * l + (c % l)
        BY <3>1, RowAndColumn
      <3> QED
        BY <3>2 DEF F
    <2> HIDE DEF k, i
    <2>4. h * l + i \in 0 .. gs - 1
      BY <1>1, <2>1, <2>2, RowMajor
    <2>5. (h * l + i) \div l = h /\ (h * l + i) % l = i
      BY <2>1, <2>2, QuotientIs
    <2>6. LocalOffset(h, i, l, k) = a
      <3>1. h * b = h * l * 16 /\ k * l \in Int /\ h * l * 16 \in Int
        BY <2>1, <2>2, <2>3
      <3> QED
        BY <2>1, <2>2, <3>1 DEF LocalOffset, FETCH_PER_WI
    <2> DEFINE x == <<h * l + i, k>>
    <2>7. x \in loads /\ x[1] = h * l + i /\ x[2] = k
      BY <2>2, <2>4 DEF FETCH_PER_WI
    <2> QED
      BY <2>5, <2>6, <2>7
  <1>8. 0 .. gs * 16 - 1 \subseteq byGrid
    <2> SUFFICES ASSUME NEW a \in 0 .. gs * 16 - 1 PROVE a \in byGrid
      OBVIOUS
    <2> DEFINE k == a \div gs
               i == a % gs
    <2>1. k \in 0 .. 15 /\ i \in 0 .. gs - 1 /\ a = k * gs + i
      <3> DEFINE F == 16
      <3>1. a \in 0 .. F * gs - 1 /\ F \in Nat /\ gs \in Nat
        BY <1>2
      <3> HIDE DEF F
      <3>2. /\ a \div gs \in 0 .. F - 1 /\ a % gs \in 0 .. gs - 1
            /\ a = (a \div gs) * gs + (a % gs)
        BY <3>1, RowAndColumn
      <3> QED
        BY <3>2 DEF F
    <2> HIDE DEF k, i
    <2>2. GlobalOffset(i, gs, k) = a
      <3>1. k * gs \in Int
        BY <1>2, <2>1
      <3> QED
        BY <2>1, <3>1 DEF GlobalOffset
    <2> DEFINE x == <<i, k>>
    <2>3. x \in loads /\ x[1] = i /\ x[2] = k
      BY <2>1 DEF FETCH_PER_WI
    <2> QED
      BY <2>2, <2>3
  <1> HIDE DEF loads, byGroup, byGrid
  <1>9. byGroup = 0 .. gs * FETCH_PER_WI - 1 /\ byGrid = byGroup
    BY <1>5, <1>6, <1>7, <1>8 DEF FETCH_PER_WI
  <1> QED
    BY <1>9, Zenon DEF CoversOnce, gs, loads, byGroup, byGrid
-------------------------------------------------------------------------------
Places == 0 .. LOCAL_SLOTS - 1
Own(i) == {i} \X Places
Values == {UNSET} \cup (Nat \X Places)

\* The values in the six places of an item.
Held(i) == [k \in Places |-> shm_buffer[Slot(i, k)]]

KernelTyped ==
  /\ group \in Nat
  /\ group # 0 =>
       /\ shm_buffer \in [0 .. LOCAL_SLOTS * group - 1 -> Values]
       /\ step \in [GroupItems -> 0 .. LastStep]
       /\ tmp \in [GroupItems -> Values] /\ loaded \in [GroupItems -> Values]
       /\ reduced \in [GroupItems -> SUBSET Values]

Image(f, S) == {f[k] : k \in S}

\* What item i, at step s, holds in its places (f), in tmp (t) and on its way
\* (v), and has summed (r): a permutation of its six values, except that
\* between the writes of a swap one of them is in tmp alone.
ItemOK(i, f, s, t, v, r) ==
  /\ Image(f, Places) \subseteq Own(i) \cup {UNSET}
  /\ t \in Own(i) \cup {UNSET} /\ v \in Own(i) \cup {UNSET}
  /\ s <= LOCAL_SLOTS => \A k \in Places : k < s => f[k] = <<i, k>>
  /\ Swapping(s) /\ AccessAt(s) \in {1, 2} => t = f[SwapAt(s)[2]]
  /\ Swapping(s) /\ AccessAt(s) = 2 => v = f[SwapAt(s)[1]]
  /\ IF Swapping(s) /\ AccessAt(s) = 3
     THEN Image(f, Places \ {SwapAt(s)[1]}) \cup {t} = Own(i)
     ELSE s >= LOCAL_SLOTS => Image(f, Places) = Own(i)
  /\ r = Image(f, {k \in Places : LOCAL_SLOTS + SwapSteps + k < s})

KernelInv ==
  /\ KernelTyped
  /\ \A i \in GroupItems : ItemOK(i, Held(i), step[i], tmp[i], loaded[i], reduced[i])

LEMMA Steps == SwapSteps = 320 /\ LastStep = 332 /\ LOCAL_SLOTS = 6
  BY DEF LastStep, SwapSteps, Swaps, TOTAL_ITERATIONS, LOCAL_SLOTS

\* A swap is of two different places and takes four accesses.
LEMMA SwapFacts ==
  ASSUME NEW s \in Nat, Swapping(s)
  PROVE  /\ SwapAt(s)[1] \in Places /\ SwapAt(s)[2] \in Places /\ SwapAt(s)[1] # SwapAt(s)[2]
         /\ AccessAt(s) \in 0 .. 3
         /\ AccessAt(s) # 3 => /\ Swapping(s + 1) /\ SwapAt(s + 1) = SwapAt(s)
                               /\ AccessAt(s + 1) = AccessAt(s) + 1
         /\ AccessAt(s) = 3 => AccessAt(s + 1) = 0
         /\ s + 1 <= 326 /\ s >= 6
  <1>1. s \in 6 .. 325 /\ Len(Swaps) = 5
    BY Steps DEF Swapping, Swaps
  <1> DEFINE n == ((s - 6) \div 4) % 5
  <1>2. n \in 0 .. 4 /\ SwapAt(s) = Swaps[n + 1]
    BY <1>1, Steps DEF SwapAt
  <1> HIDE DEF n
  <1>3. SwapAt(s) \in {<<0, 1>>, <<2, 3>>, <<4, 5>>, <<1, 2>>, <<3, 4>>}
    BY <1>2 DEF Swaps
  <1>4. SwapAt(s)[1] \in 0 .. 5 /\ SwapAt(s)[2] \in 0 .. 5 /\ SwapAt(s)[1] # SwapAt(s)[2]
    BY <1>3
  <1>5. AccessAt(s) = (s - 6) % 4 /\ AccessAt(s + 1) = (s + 1 - 6) % 4
    BY Steps DEF AccessAt
  <1>6. ASSUME AccessAt(s) # 3
        PROVE  Swapping(s + 1) /\ SwapAt(s + 1) = SwapAt(s) /\ AccessAt(s + 1) = AccessAt(s) + 1
    <2>1. s + 1 \in 6 .. 325 /\ (s + 1 - 6) \div 4 = (s - 6) \div 4
      BY <1>1, <1>5, <1>6
    <2> QED
      BY <1>1, <1>5, <1>6, <2>1, Steps DEF Swapping, SwapAt
  <1> QED
    BY <1>1, <1>4, <1>5, <1>6, Steps DEF Places

LEMMA ImageAfter ==
  ASSUME NEW f, f = [k \in Places |-> f[k]], NEW p \in Places, NEW x, NEW g,
         g = [f EXCEPT ![p] = x]
  PROVE  Image(g, Places) = Image(f, Places \ {p}) \cup {x}
  <1>1. g[p] = x /\ \A k \in Places \ {p} : g[k] = f[k]
    OBVIOUS
  <1> QED
    BY <1>1 DEF Image

LEMMA NothingSummed ==
  ASSUME NEW s \in Nat, s <= 326, NEW f
  PROVE  Image(f, {k \in Places : LOCAL_SLOTS + SwapSteps + k < s}) = {}
  <1>1. {k \in Places : LOCAL_SLOTS + SwapSteps + k < s} = {}
    BY Steps DEF Places
  <1> QED
    BY <1>1 DEF Image

\* The six kinds of access, one lemma each.
LEMMA SetVectorOK ==
  ASSUME NEW i \in Nat, NEW f, f = [k \in Places |-> f[k]],
         NEW s \in Nat, s < LOCAL_SLOTS, NEW t, NEW v, NEW r, ItemOK(i, f, s, t, v, r)
  PROVE  ItemOK(i, [f EXCEPT ![s] = <<i, s>>], s + 1, t, v, r)
  <1> DEFINE g == [f EXCEPT ![s] = <<i, s>>]
  <1>1. s \in Places /\ s + 1 \in Nat /\ s <= 326 /\ s + 1 <= 326
        /\ ~Swapping(s) /\ (Swapping(s + 1) => AccessAt(s + 1) = 0)
    BY Steps DEF Places, Swapping, AccessAt
  <1>2. <<i, s>> \in Own(i)
    BY <1>1 DEF Own
  <1>3. Image(g, Places) = Image(f, Places \ {s}) \cup {<<i, s>>}
    <2>1. g = [f EXCEPT ![s] = <<i, s>>]
      OBVIOUS
    <2> HIDE DEF g
    <2> QED
      BY <1>1, <2>1, ImageAfter
  <1>4. Image(g, Places) \subseteq Own(i) \cup {UNSET}
    <2>1. Image(f, Places \ {s}) \subseteq Image(f, Places)
      BY DEF Image
    <2>2. Image(f, Places) \subseteq Own(i) \cup {UNSET}
      BY DEF ItemOK
    <2> HIDE DEF g
    <2> QED
      BY <1>2, <1>3, <2>1, <2>2
  <1>5. \A k \in Places : k < s + 1 => g[k] = <<i, k>>
    <2> SUFFICES ASSUME NEW k \in Places, k < s + 1 PROVE g[k] = <<i, k>>
      OBVIOUS
    <2>1. k < s \/ k = s
      BY DEF Places
    <2>2. k < s => f[k] = <<i, k>>
      BY Steps DEF ItemOK
    <2> QED
      BY <1>1, <2>1, <2>2
  <1>6. s + 1 >= LOCAL_SLOTS => Image(g, Places) = Own(i)
    <2> SUFFICES ASSUME s + 1 >= LOCAL_SLOTS PROVE Image(g, Places) = Own(i)
      OBVIOUS
    <2>1. \A k \in Places : g[k] = <<i, k>>
      BY <1>5, Steps DEF Places
    <2> HIDE DEF g
    <2>2. Image(g, Places) = {<<i, k>> : k \in Places}
      BY <2>1 DEF Image
    <2> QED
      BY <2>2 DEF Own
  <1>7. r = Image(g, {k \in Places : LOCAL_SLOTS + SwapSteps + k < s + 1})
    BY <1>1, NothingSummed DEF ItemOK
  <1> HIDE DEF g
  <1>8. ItemOK(i, g, s + 1, t, v, r)
    BY <1>1, <1>4, <1>5, <1>6, <1>7 DEF ItemOK
  <1> QED
    BY <1>8 DEF g

LEMMA ReadSecondOK ==
  ASSUME NEW i \in Nat, NEW f, NEW s \in Nat, Swapping(s), AccessAt(s) = 0,
         NEW t, NEW v, NEW r, ItemOK(i, f, s, t, v, r)
  PROVE  ItemOK(i, f, s + 1, f[SwapAt(s)[2]], v, r)
  <1>1. /\ SwapAt(s)[2] \in Places /\ Swapping(s + 1) /\ SwapAt(s + 1) = SwapAt(s)
        /\ AccessAt(s + 1) = 1 /\ s + 1 <= 326 /\ s >= 6
    BY SwapFacts
  <1>2. r = Image(f, {k \in Places : LOCAL_SLOTS + SwapSteps + k < s + 1})
    BY <1>1, NothingSummed DEF ItemOK
  <1>3. f[SwapAt(s)[2]] \in Own(i) \cup {UNSET} /\ Image(f, Places) = Own(i)
    BY <1>1, Steps DEF ItemOK, Image
  <1>4. ~(s + 1 <= LOCAL_SLOTS) /\ AccessAt(s + 1) # 2 /\ AccessAt(s + 1) # 3
    BY <1>1, Steps
  <1> QED
    BY <1>1, <1>2, <1>3, <1>4 DEF ItemOK

LEMMA ReadFirstOK ==
  ASSUME NEW i \in Nat, NEW f, NEW s \in Nat, Swapping(s), AccessAt(s) = 1,
         NEW t, NEW v, NEW r, ItemOK(i, f, s, t, v, r)
  PROVE  ItemOK(i, f, s + 1, t, f[SwapAt(s)[1]], r)
  <1>1. /\ SwapAt(s)[1] \in Places /\ Swapping(s + 1) /\ SwapAt(s + 1) = SwapAt(s)
        /\ AccessAt(s + 1) = 2 /\ s + 1 <= 326 /\ s >= 6
    BY SwapFacts
  <1>2. r = Image(f, {k \in Places : LOCAL_SLOTS + SwapSteps + k < s + 1})
    BY <1>1, NothingSummed DEF ItemOK
  <1>3. f[SwapAt(s)[1]] \in Own(i) \cup {UNSET} /\ Image(f, Places) = Own(i)
    BY <1>1, Steps DEF ItemOK, Image
  <1>4. ~(s + 1 <= LOCAL_SLOTS) /\ AccessAt(s + 1) # 3
    BY <1>1, Steps
  <1> QED
    BY <1>1, <1>2, <1>3, <1>4 DEF ItemOK

LEMMA WriteSecondOK ==
  ASSUME NEW i \in Nat, NEW f, f = [k \in Places |-> f[k]],
         NEW s \in Nat, Swapping(s), AccessAt(s) = 2,
         NEW t, NEW v, NEW r, ItemOK(i, f, s, t, v, r)
  PROVE  ItemOK(i, [f EXCEPT ![SwapAt(s)[2]] = v], s + 1, t, v, r)
  <1> DEFINE a == SwapAt(s)[1]
             b == SwapAt(s)[2]
             g == [f EXCEPT ![b] = v]
  <1>1. /\ a \in Places /\ b \in Places /\ a # b
        /\ Swapping(s + 1) /\ SwapAt(s + 1) = SwapAt(s)
        /\ AccessAt(s + 1) = 3 /\ s + 1 <= 326 /\ s >= 6
    BY SwapFacts
  <1>2. r = Image(g, {k \in Places : LOCAL_SLOTS + SwapSteps + k < s + 1})
    BY <1>1, NothingSummed DEF ItemOK
  <1>3. t = f[b] /\ v = f[a] /\ Image(f, Places) = Own(i)
    BY <1>1, Steps DEF ItemOK
  <1>g. g[b] = v /\ \A k \in Places \ {b} : g[k] = f[k]
    BY <1>1
  <1> HIDE DEF g, a, b
  <1>4. Image(g, Places) = Image(f, Places \ {b}) \cup {v}
    BY <1>1, <1>g DEF Image
  <1>5. Image(g, Places \ {a}) = Image(f, (Places \ {a}) \ {b}) \cup {v}
    BY <1>1, <1>g DEF Image
  <1>6. Image(g, Places) \subseteq Own(i) \cup {UNSET}
    BY <1>3, <1>4 DEF ItemOK, Image
  <1>7. Image(g, Places \ {a}) \cup {t} = Own(i)
    <2>1. Image(f, Places) = Image(f, (Places \ {a}) \ {b}) \cup {f[a]} \cup {f[b]}
      BY <1>1 DEF Image
    <2> QED
      BY <1>3, <1>5, <2>1
  <1>8. ~(s + 1 <= LOCAL_SLOTS) /\ AccessAt(s + 1) \notin {1, 2}
    BY <1>1, Steps
  <1>9. ItemOK(i, g, s + 1, t, v, r)
    BY <1>1, <1>2, <1>6, <1>7, <1>8 DEF ItemOK, a
  <1> QED
    BY <1>9 DEF g, b

LEMMA WriteFirstOK ==
  ASSUME NEW i \in Nat, NEW f, f = [k \in Places |-> f[k]],
         NEW s \in Nat, Swapping(s), AccessAt(s) = 3,
         NEW t, NEW v, NEW r, ItemOK(i, f, s, t, v, r)
  PROVE  ItemOK(i, [f EXCEPT ![SwapAt(s)[1]] = t], s + 1, t, v, r)
  <1> DEFINE a == SwapAt(s)[1]
             g == [f EXCEPT ![a] = t]
  <1>1. a \in Places /\ AccessAt(s + 1) = 0 /\ s + 1 <= 326 /\ s >= 6
    BY SwapFacts
  <1>2. r = Image(g, {k \in Places : LOCAL_SLOTS + SwapSteps + k < s + 1})
    BY <1>1, NothingSummed DEF ItemOK
  <1>3. Image(f, Places \ {a}) \cup {t} = Own(i)
    BY DEF ItemOK
  <1>4. Image(g, Places) = Image(f, Places \ {a}) \cup {t}
    <2>1. g = [f EXCEPT ![a] = t]
      OBVIOUS
    <2> HIDE DEF g, a
    <2> QED
      BY <1>1, <2>1, ImageAfter
  <1>5. ~(s + 1 <= LOCAL_SLOTS)
    BY <1>1, Steps
  <1> HIDE DEF g, a
  <1>6. t \in Own(i) \cup {UNSET} /\ v \in Own(i) \cup {UNSET} /\ Image(g, Places) = Own(i)
    BY <1>3, <1>4 DEF ItemOK
  <1>7. ItemOK(i, g, s + 1, t, v, r)
    BY <1>1, <1>2, <1>5, <1>6 DEF ItemOK
  <1> QED
    BY <1>7 DEF g, a

LEMMA ReduceOK ==
  ASSUME NEW i \in Nat, NEW f, NEW s \in Nat, NEW k \in Places,
         s = LOCAL_SLOTS + SwapSteps + k,
         NEW t, NEW v, NEW r, ItemOK(i, f, s, t, v, r)
  PROVE  ItemOK(i, f, s + 1, t, v, r \cup {f[k]})
  <1> DEFINE before == {j \in Places : LOCAL_SLOTS + SwapSteps + j < s}
             after == {j \in Places : LOCAL_SLOTS + SwapSteps + j < s + 1}
  <1>1. ~Swapping(s) /\ ~Swapping(s + 1) /\ s >= LOCAL_SLOTS /\ ~(s + 1 <= LOCAL_SLOTS)
    BY Steps DEF Swapping, Places
  <1>2. after = before \cup {k}
    BY Steps DEF Places
  <1>3. r = Image(f, before)
    BY DEF ItemOK
  <1> HIDE DEF before, after
  <1>4. r \cup {f[k]} = Image(f, after)
    BY <1>2, <1>3 DEF Image
  <1> QED
    BY <1>1, <1>4 DEF ItemOK, after
-------------------------------------------------------------------------------
\* A slot belongs to one place of one item.
LEMMA SlotFacts ==
  ASSUME group \in Nat, NEW i \in GroupItems, NEW p \in Places
  PROVE  /\ i \in Nat /\ group # 0 /\ Slot(i, p) \in 0 .. LOCAL_SLOTS * group - 1
         /\ \A j \in GroupItems, q \in Places : Slot(i, p) = Slot(j, q) => i = j /\ p = q
  <1>1. i \in 0 .. group - 1 /\ group \in Nat \ {0} /\ i \in Nat
    BY DEF GroupItems
  <1> QED
    BY <1>1, LocalSlotsDisjoint DEF GroupItems, Slot, Places

\* A store of an item changes one of its places and none of another's.
LEMMA HeldAfter ==
  ASSUME KernelTyped, NEW i \in GroupItems, NEW p \in Places, NEW x,
         shm_buffer' = [shm_buffer EXCEPT ![Slot(i, p)] = x], group' = group
  PROVE  /\ Held(i)' = [Held(i) EXCEPT ![p] = x]
         /\ \A j \in GroupItems \ {i} : Held(j)' = Held(j)
  <1>1. group \in Nat /\ group # 0
    BY DEF KernelTyped, GroupItems
  <1>2. DOMAIN shm_buffer = 0 .. LOCAL_SLOTS * group - 1
    BY <1>1 DEF KernelTyped
  <1>3. \A j \in GroupItems, q \in Places :
          shm_buffer'[Slot(j, q)] = IF j = i /\ q = p THEN x ELSE shm_buffer[Slot(j, q)]
    BY <1>1, <1>2, SlotFacts
  <1>4. \A j \in GroupItems : Held(j)' = [q \in Places |-> shm_buffer'[Slot(j, q)]]
    BY DEF Held, Slot
  <1>5. Held(i)' = [Held(i) EXCEPT ![p] = x]
    <2>1. \A q \in Places :
            shm_buffer'[Slot(i, q)] = IF q = p THEN x ELSE shm_buffer[Slot(i, q)]
      BY <1>3
    <2>2. Held(i)' = [q \in Places |-> IF q = p THEN x ELSE shm_buffer[Slot(i, q)]]
      BY <1>4, <2>1
    <2> QED
      BY <2>2 DEF Held
  <1>6. ASSUME NEW j \in GroupItems \ {i} PROVE Held(j)' = Held(j)
    <2>1. \A q \in Places : shm_buffer'[Slot(j, q)] = shm_buffer[Slot(j, q)]
      BY <1>3
    <2>2. Held(j)' = [q \in Places |-> shm_buffer[Slot(j, q)]]
      BY <1>4, <2>1
    <2> QED
      BY <2>2 DEF Held
  <1> QED
    BY <1>5, <1>6

\* It is enough to look at the item that takes the step.
LEMMA OnlyTheItem ==
  ASSUME KernelInv, KernelTyped', NEW i \in GroupItems, group' = group,
         step' = [step EXCEPT ![i] = @ + 1],
         \A j \in GroupItems \ {i} :
           /\ Held(j)' = Held(j)
           /\ tmp'[j] = tmp[j] /\ loaded'[j] = loaded[j] /\ reduced'[j] = reduced[j],
         ItemOK(i, Held(i)', step[i] + 1, tmp'[i], loaded'[i], reduced'[i])
  PROVE  KernelInv'
  <1>1. group # 0 /\ GroupItems' = GroupItems /\ step \in [GroupItems -> 0 .. LastStep]
    BY DEF KernelInv, KernelTyped, GroupItems
  <1>2. ASSUME NEW j \in GroupItems
        PROVE  ItemOK(j, Held(j)', step'[j], tmp'[j], loaded'[j], reduced'[j])
    <2>1. CASE j = i
      BY <1>1, <2>1
    <2>2. CASE j # i
      BY <1>1, <2>2 DEF KernelInv
    <2> QED
      BY <2>1, <2>2
  <1>3. ASSUME NEW j \in GroupItems
        PROVE  ItemOK(j, Held(j), step[j], tmp[j], loaded[j], reduced[j])'
    BY <1>2 DEF ItemOK, Own, Image, Places, LOCAL_SLOTS
  <1> QED
    BY <1>1, <1>3 DEF KernelInv

LEMMA ItemStep ==
  ASSUME KernelInv, NEW i \in GroupItems, Item(i)
  PROVE  KernelInv'
  <1> DEFINE n == step[i]
             f == Held(i)
  <1>1. /\ group \in Nat /\ group # 0 /\ i \in Nat
        /\ shm_buffer \in [0 .. LOCAL_SLOTS * group - 1 -> Values]
        /\ step \in [GroupItems -> 0 .. LastStep]
        /\ tmp \in [GroupItems -> Values] /\ loaded \in [GroupItems -> Values]
        /\ reduced \in [GroupItems -> SUBSET Values]
        /\ group' = group /\ GroupItems' = GroupItems /\ step' = [step EXCEPT ![i] = @ + 1]
    BY DEF KernelInv, KernelTyped, GroupItems, Item, SetVector, SwapReadSecond, SwapReadFirst,
           SwapWriteSecond, SwapWriteFirst, Reduce, Advances
  <1>2. n \in Nat /\ n \in 0 .. 332 /\ ItemOK(i, f, n, tmp[i], loaded[i], reduced[i])
    <2>1. n \in 0 .. LastStep /\ LastStep = 332
      BY <1>1, Steps
    <2> QED
      BY <2>1 DEF KernelInv
  <1>3. \A p \in Places : Slot(i, p) \in 0 .. LOCAL_SLOTS * group - 1
    BY <1>1, SlotFacts
  <1>4. f = [k \in Places |-> f[k]] /\ \A p \in Places : f[p] = shm_buffer[Slot(i, p)]
    BY DEF Held
  <1>5. \A p \in Places : <<i, p>> \in Values /\ f[p] \in Values
    BY <1>1, <1>3, <1>4 DEF Values
  <1>6. ASSUME NEW p \in Places, NEW x \in Values, n + 1 <= LastStep,
               shm_buffer' = [shm_buffer EXCEPT ![Slot(i, p)] = x],
               UNCHANGED <<tmp, loaded, reduced>>,
               ItemOK(i, [f EXCEPT ![p] = x], n + 1, tmp[i], loaded[i], reduced[i])
        PROVE  KernelInv'
    <2>1. Held(i)' = [f EXCEPT ![p] = x] /\ \A j \in GroupItems \ {i} : Held(j)' = Held(j)
      BY <1>1, <1>6, HeldAfter DEF KernelInv
    <2>2. step' \in [GroupItems -> 0 .. LastStep]
      <3>1. n + 1 \in 0 .. LastStep
        BY <1>2, <1>6, Steps
      <3> QED
        BY <1>1, <3>1
    <2>3. shm_buffer' \in [0 .. LOCAL_SLOTS * group - 1 -> Values]
      BY <1>1, <1>6
    <2>4. KernelTyped'
      BY <1>1, <1>6, <2>2, <2>3 DEF KernelTyped, Values, Places, LOCAL_SLOTS, LastStep
    <2> HIDE DEF f
    <2> QED
      BY <1>1, <1>6, <2>1, <2>4, OnlyTheItem
  <1>7. ASSUME n + 1 <= LastStep, UNCHANGED shm_buffer,
               tmp' \in [GroupItems -> Values], loaded' \in [GroupItems -> Values],
               reduced' \in [GroupItems -> SUBSET Values],
               \A j \in GroupItems \ {i} :
                 tmp'[j] = tmp[j] /\ loaded'[j] = loaded[j] /\ reduced'[j] = reduced[j],
               ItemOK(i, f, n + 1, tmp'[i], loaded'[i], reduced'[i])
        PROVE  KernelInv'
    <2>1. \A j \in GroupItems : Held(j)' = Held(j)
      BY <1>1, <1>7 DEF Held, Slot
    <2>2. step' \in [GroupItems -> 0 .. LastStep]
      <3>1. n + 1 \in 0 .. LastStep
        BY <1>2, <1>7, Steps
      <3> QED
        BY <1>1, <3>1
    <2>4. KernelTyped'
      BY <1>1, <1>7, <2>2 DEF KernelTyped, Values, Places, LOCAL_SLOTS, LastStep
    <2> QED
      BY <1>1, <1>7, <2>1, <2>4, OnlyTheItem
  <1> HIDE DEF f
  <1>8. CASE SetVector(i)
    <2>1. /\ n < LOCAL_SLOTS /\ n \in Places /\ n + 1 <= LastStep
          /\ shm_buffer' = [shm_buffer EXCEPT ![Slot(i, n)] = <<i, n>>]
          /\ UNCHANGED <<tmp, loaded, reduced>>
      BY <1>2, <1>8, Steps DEF SetVector, Places
    <2>2. ItemOK(i, [f EXCEPT ![n] = <<i, n>>], n + 1, tmp[i], loaded[i], reduced[i])
      BY <1>1, <1>2, <1>4, <2>1, SetVectorOK
    <2> QED
      BY <1>5, <1>6, <2>1, <2>2
  <1>9. ASSUME Swapping(n)
        PROVE  n + 1 <= LastStep /\ SwapAt(n)[1] \in Places /\ SwapAt(n)[2] \in Places
    BY <1>2, <1>9, SwapFacts, Steps
  <1>10. CASE SwapReadSecond(i)
    <2> DEFINE x == f[SwapAt(n)[2]]
    <2>1. /\ Swapping(n) /\ AccessAt(n) = 0 /\ tmp' = [tmp EXCEPT ![i] = x]
          /\ UNCHANGED <<shm_buffer, loaded, reduced>> /\ x \in Values
      BY <1>4, <1>5, <1>9, <1>10 DEF SwapReadSecond
    <2>2. ItemOK(i, f, n + 1, x, loaded[i], reduced[i])
      BY <1>1, <1>2, <2>1, ReadSecondOK
    <2> HIDE DEF x
    <2> QED
      BY <1>1, <1>7, <1>9, <2>1, <2>2
  <1>11. CASE SwapReadFirst(i)
    <2> DEFINE x == f[SwapAt(n)[1]]
    <2>1. /\ Swapping(n) /\ AccessAt(n) = 1 /\ loaded' = [loaded EXCEPT ![i] = x]
          /\ UNCHANGED <<shm_buffer, tmp, reduced>> /\ x \in Values
      BY <1>4, <1>5, <1>9, <1>11 DEF SwapReadFirst
    <2>2. ItemOK(i, f, n + 1, tmp[i], x, reduced[i])
      BY <1>1, <1>2, <2>1, ReadFirstOK
    <2> HIDE DEF x
    <2> QED
      BY <1>1, <1>7, <1>9, <2>1, <2>2
  <1>12. CASE SwapWriteSecond(i)
    <2>1. /\ Swapping(n) /\ AccessAt(n) = 2 /\ UNCHANGED <<tmp, loaded, reduced>>
          /\ shm_buffer' = [shm_buffer EXCEPT ![Slot(i, SwapAt(n)[2])] = loaded[i]]
      BY <1>12 DEF SwapWriteSecond
    <2>2. ItemOK(i, [f EXCEPT ![SwapAt(n)[2]] = loaded[i]], n + 1, tmp[i], loaded[i], reduced[i])
      BY <1>1, <1>2, <1>4, <2>1, WriteSecondOK
    <2> QED
      BY <1>1, <1>6, <1>9, <2>1, <2>2
  <1>13. CASE SwapWriteFirst(i)
    <2>1. /\ Swapping(n) /\ AccessAt(n) = 3 /\ UNCHANGED <<tmp, loaded, reduced>>
          /\ shm_buffer' = [shm_buffer EXCEPT ![Slot(i, SwapAt(n)[1])] = tmp[i]]
      BY <1>13 DEF SwapWriteFirst
    <2>2. ItemOK(i, [f EXCEPT ![SwapAt(n)[1]] = tmp[i]], n + 1, tmp[i], loaded[i], reduced[i])
      BY <1>1, <1>2, <1>4, <2>1, WriteFirstOK
    <2> QED
      BY <1>1, <1>6, <1>9, <2>1, <2>2
  <1>14. CASE Reduce(i)
    <2> DEFINE k == n - LOCAL_SLOTS - SwapSteps
    <2>1. /\ k \in Places /\ n = LOCAL_SLOTS + SwapSteps + k /\ n + 1 <= LastStep
          /\ reduced' = [reduced EXCEPT ![i] = @ \cup {f[k]}]
          /\ UNCHANGED <<shm_buffer, tmp, loaded>>
      <3>1. k \in Places /\ UNCHANGED <<shm_buffer, tmp, loaded>>
            /\ reduced' = [reduced EXCEPT ![i] = @ \cup {shm_buffer[Slot(i, k)]}]
        BY <1>14 DEF Reduce, Places
      <3>2. n = LOCAL_SLOTS + SwapSteps + k /\ n + 1 <= LastStep
        BY <1>2, <3>1, Steps DEF Places
      <3> HIDE DEF k
      <3> QED
        BY <1>4, <3>1, <3>2
    <2> HIDE DEF k
    <2>2. ItemOK(i, f, n + 1, tmp[i], loaded[i], reduced[i] \cup {f[k]})
      BY <1>1, <1>2, <2>1, ReduceOK
    <2>3. f[k] \in Values
      BY <1>5, <2>1
    <2> QED
      BY <1>1, <1>7, <2>1, <2>2, <2>3
  <1> QED
    BY <1>8, <1>10, <1>11, <1>12, <1>13, <1>14 DEF Item

LEMMA LaunchStep ==
  ASSUME NEW l \in Nat \ {0}, LaunchGroup(l)
  PROVE  KernelInv'
  <1> DEFINE g == LOCAL_SLOTS * l
  <1>1. /\ group' = l /\ GroupItems' = 0 .. l - 1
        /\ shm_buffer' = [s \in 0 .. g - 1 |-> UNSET]
        /\ step' = [i \in 0 .. l - 1 |-> 0]
        /\ tmp' = [i \in 0 .. l - 1 |-> UNSET] /\ loaded' = [i \in 0 .. l - 1 |-> UNSET]
        /\ reduced' = [i \in 0 .. l - 1 |-> {}]
    BY DEF LaunchGroup, GroupItems
  <1>2. KernelTyped'
    <2>1. 0 \in 0 .. LastStep /\ UNSET \in Values /\ {} \in SUBSET Values
      BY Steps DEF Values
    <2> QED
      BY <1>1, <2>1 DEF KernelTyped, Values, Places, LOCAL_SLOTS, LastStep
  <1>3. ASSUME NEW i \in GroupItems'
        PROVE  ItemOK(i, Held(i), step[i], tmp[i], loaded[i], reduced[i])'
    <2>1. i \in 0 .. l - 1
      BY <1>1, <1>3
    <2>2. \A q \in Places : LocalSlot(i, l, q) \in 0 .. g - 1
      BY <2>1, LocalSlotsDisjoint DEF Places
    <2>3. \A q \in Places : shm_buffer'[LocalSlot(i, l, q)] = UNSET
      <3> HIDE DEF g
      <3> QED
        BY <1>1, <2>2
    <2>4. Held(i)' = [q \in Places |-> UNSET]
      BY <1>1, <2>3 DEF Held, Slot
    <2>5. step'[i] = 0 /\ tmp'[i] = UNSET /\ loaded'[i] = UNSET /\ reduced'[i] = {}
      BY <1>1, <2>1
    <2>6. ~Swapping(0) /\ Image([q \in Places |-> UNSET], Places) \subseteq {UNSET}
      BY Steps DEF Swapping, Image
    <2>7. Image([q \in Places |-> UNSET], {k \in Places : LOCAL_SLOTS + SwapSteps + k < 0}) = {}
      BY NothingSummed
    <2>8. ~(0 >= LOCAL_SLOTS) /\ \A k \in Places : ~(k < 0)
      BY Steps DEF Places
    <2>9. ItemOK(i, [q \in Places |-> UNSET], 0, UNSET, UNSET, {})
      BY <2>6, <2>7, <2>8 DEF ItemOK
    <2>10. ItemOK(i, Held(i)', step'[i], tmp'[i], loaded'[i], reduced'[i])
      BY <2>4, <2>5, <2>9
    <2> QED
      BY <2>10 DEF ItemOK, Own, Image, Places, LOCAL_SLOTS
  <1> QED
    BY <1>2, <1>3 DEF KernelInv

-------------------------------------------------------------------------------
\* Where the scan stands: a size and a group size, which is never 0.
ScanInv == at \in [n : Nat, l : Nat \ {0}]

GeometryInv == ScanInv /\ KernelInv

LEMMA KernelSame ==
  ASSUME KernelInv, UNCHANGED kernelVars
  PROVE  KernelInv'
  <1>1. /\ group' = group /\ shm_buffer' = shm_buffer /\ step' = step
        /\ tmp' = tmp /\ loaded' = loaded /\ reduced' = reduced /\ GroupItems' = GroupItems
    BY DEF kernelVars, GroupItems
  <1>2. KernelTyped'
    BY <1>1 DEF KernelInv, KernelTyped, Values, Places, LOCAL_SLOTS, LastStep
  <1>3. ASSUME NEW i \in GroupItems
        PROVE  ItemOK(i, Held(i), step[i], tmp[i], loaded[i], reduced[i])'
    <2>1. Held(i)' = Held(i)
      BY <1>1 DEF Held, Slot
    <2>2. ItemOK(i, Held(i)', step'[i], tmp'[i], loaded'[i], reduced'[i])
      BY <1>1, <2>1 DEF KernelInv
    <2> QED
      BY <2>2 DEF ItemOK, Own, Image, Places, LOCAL_SLOTS
  <1> QED
    BY <1>1, <1>2, <1>3 DEF KernelInv

LEMMA GeometryInitInv == Start => GeometryInv
  <1> SUFFICES ASSUME Start PROVE GeometryInv
    OBVIOUS
  <1>1. group = 0 /\ at = [n |-> 0, l |-> 1]
    BY DEF Start, KernelIdle
  <1> QED
    BY <1>1 DEF GeometryInv, ScanInv, KernelInv, KernelTyped, GroupItems

LEMMA GeometryNextInv ==
  ASSUME GeometryInv, [Scan \/ Run]_<<at, kernelVars>>
  PROVE  GeometryInv'
  <1>1. CASE NextSize /\ UNCHANGED kernelVars
    <2>1. at' = [at EXCEPT !.n = @ + 1]
      BY <1>1 DEF NextSize
    <2> QED
      BY <1>1, <2>1, KernelSame DEF GeometryInv, ScanInv
  <1>2. CASE NextGroup /\ UNCHANGED kernelVars
    <2>1. at' = [at EXCEPT !.l = @ + 1]
      BY <1>2 DEF NextGroup
    <2> QED
      BY <1>2, <2>1, KernelSame DEF GeometryInv, ScanInv
  <1>3. CASE UNCHANGED at /\ LaunchGroup(at.l)
    BY <1>3, LaunchStep DEF GeometryInv, ScanInv
  <1>4. CASE UNCHANGED at /\ \E i \in GroupItems : Item(i)
    BY <1>4, ItemStep DEF GeometryInv, ScanInv
  <1>5. CASE UNCHANGED <<at, kernelVars>>
    BY <1>5, KernelSame DEF GeometryInv, ScanInv
  <1> QED
    BY <1>1, <1>2, <1>3, <1>4, <1>5 DEF Scan, Run

LEMMA GeometryInvariant == Enumerate => []GeometryInv
  BY GeometryInitInv, GeometryNextInv, PTL DEF Enumerate

\* Whatever the size of the group and the interleaving of its items, which
\* only fence their own accesses, no item ever finds a value of another in its
\* places, and each has in the end summed exactly the values it wrote.
THEOREM ItemsStayApart == Enumerate => []ItemsKeepApart
  <1>1. ASSUME GeometryInv PROVE ItemsKeepApart
    <2> SUFFICES ASSUME NEW i \in GroupItems
                 PROVE  /\ \A k \in Places : shm_buffer[Slot(i, k)] \in Own(i) \cup {UNSET}
                        /\ step[i] = LastStep => reduced[i] = Own(i)
      BY DEF ItemsKeepApart, Places, Own
    <2>1. ItemOK(i, Held(i), step[i], tmp[i], loaded[i], reduced[i])
      BY <1>1 DEF GeometryInv, KernelInv
    <2>2. \A k \in Places : Held(i)[k] = shm_buffer[Slot(i, k)]
      BY DEF Held
    <2>3. Image(Held(i), Places) \subseteq Own(i) \cup {UNSET}
      BY <2>1 DEF ItemOK
    <2>4. ASSUME step[i] = LastStep PROVE reduced[i] = Own(i)
      <3>1. {k \in Places : LOCAL_SLOTS + SwapSteps + k < LastStep} = Places
        BY Steps DEF Places
      <3>2. ~Swapping(LastStep) /\ LastStep >= LOCAL_SLOTS
        BY Steps DEF Swapping
      <3> QED
        BY <2>1, <2>4, <3>1, <3>2 DEF ItemOK
    <2> QED
      BY <2>2, <2>3, <2>4 DEF Image
  <1> QED
    BY <1>1, GeometryInvariant, PTL

\* For every width of a word and every margin of log2f: each buffer that the
\* bandwidth runner of common.cpp asks for fits the largest allocation; the
\* two together, and the buffer of a compute runner, fit it except within the
\* margin below a power of two.
THEOREM BuffersAlwaysFit == Enumerate => []BuffersFit
  <1>1. ASSUME ScanInv PROVE BuffersFit
    <2>1. at.n \in Nat /\ at.l \in Nat
      BY <1>1 DEF ScanInv
    <2>2. ASSUME NEW e \in GlobalElems(at.n)
          PROVE  /\ e = 0 <=> U32(at.n) < 8
                 /\ e * 4 <= at.n
                 /\ 2 * (e * 4) <= at.n \/ InMargin((U32(at.n) \div 4) \div 2)
      BY <2>1, GlobalElemsFit
    <2>3. ASSUME NEW size \in {2, 4, 8}, NEW cus \in {1, 3},
                 NEW e \in CompElems(cus, at.l, size, at.n)
          PROVE  e * size <= at.n \/ InMargin(WantedBytes(cus, at.l, size, at.n))
      BY <2>1, CompElemsFit DEF InMargin
    <2> QED
      BY <2>2, <2>3 DEF BuffersFit
  <1> QED
    BY <1>1, GeometryInvariant, PTL DEF GeometryInv

\* For every size of the problem and of the group, what a figure claims
\* exceeds what the launched items do by less than the work of one group.
THEOREM FiguresMatchTheWork == Enumerate => []FiguresMatchWork
  <1>1. ASSUME ScanInv PROVE FiguresMatchWork
    <2>1. at.n \in Nat /\ at.l \in Nat /\ at.l \in Nat \ {0}
      BY <1>1 DEF ScanInv
    <2>2. ASSUME NEW size \in {2, 4, 8}, NEW e \in CompElems(1, at.l, size, at.n),
                 NEW mads \in {compute_sp, compute_integer, compute_dp, compute_hp},
                 NEW v \in widths
          PROVE  CompClaim(e) - DivDown(e, at.l) * mads[v] * MAD_64(v)
                   \in 0 .. at.l * work_per_wi - 1
      <3>1. e \in Nat
        BY <2>1, CompElemsFit
      <3> QED
        BY <2>1, <3>1, CompFigure
    <2>3. ASSUME NEW e \in GlobalElems(at.n), NEW v \in widths
          PROVE  GlobalClaim(e) - DivDown((e \div v) \div FETCH_PER_WI, at.l)
                                    * (FETCH_PER_WI * v * 4)
                   \in 0 .. at.l * (FETCH_PER_WI * v * 4) - 1
      <3>1. e \in Nat
        BY <2>1, GlobalElemsFit
      <3> QED
        BY <2>1, <3>1, GlobalFigure
    <2>4. ASSUME NEW v \in {1, 2, 4}
          PROVE  LocalClaim(LOCAL_ELEMS) - DivDown(LOCAL_ELEMS \div v, at.l) * (LastStep * v * 4)
                   \in 0 .. at.l * (LastStep * v * 4) - 1
      BY <2>1, SizesAssumption, LocalFigure
    <2> QED
      BY <2>2, <2>3, <2>4 DEF FiguresMatchWork
  <1> QED
    BY <1>1, GeometryInvariant, PTL DEF GeometryInv

\* Either addressing scheme reads every element that a launch covers once.
THEOREM LoadsCoverOnce == Enumerate => []EachElementOnce
  <1>1. ASSUME ScanInv PROVE EachElementOnce
    <2>1. at.n % 32 \in Nat /\ at.l \in Nat \ {0}
      BY <1>1 DEF ScanInv
    <2> QED
      BY <2>1, LaunchCoversOnce DEF EachElementOnce
  <1> QED
    BY <1>1, GeometryInvariant, PTL DEF GeometryInv
===============================================================================
