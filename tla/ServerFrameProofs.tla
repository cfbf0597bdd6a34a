-------------------------- MODULE ServerFrameProofs --------------------------
(***************************************************************************)
(* Proofs about the frames of ServerFrame: what an intact frame is judged, *)
(* and that one damaged byte is noticed.  The checksum is a fold over the  *)
(* bytes; that it can be computed byte by byte is proved first, from the   *)
(* least number principle.                                                 *)
(***************************************************************************)
EXTENDS ServerFrame, WellFoundedInduction, SequenceTheorems, TLAPS

(***************************************************************************)
(* Folds.                                                                  *)
(***************************************************************************)
\* A set of numbers that is not empty has a least one.
LEMMA LeastNumber ==
    ASSUME NEW S \in SUBSET Nat, S # {}
    PROVE  \E x \in S : \A y \in S : y >= x
<1> DEFINE R == OpToRel(<, Nat)
<1>1. \E x \in S : \A y \in S : ~(<<y, x>> \in R)
  BY NatLessThanWellFounded, WFMin, Zenon
<1>2. R = {p \in Nat \X Nat : p[1] < p[2]}
  BY Zenon DEF OpToRel
<1> HIDE DEF R
<1>3. \A x, y \in Nat : <<y, x>> \in R <=> y < x
  BY <1>2
<1>4. PICK x \in S : \A y \in S : ~(<<y, x>> \in R)
  BY <1>1
<1>5. ASSUME NEW y \in S PROVE y >= x
  <2>1. x \in Nat /\ y \in Nat
    BY <1>4
  <2>2. ~(y < x)
    BY <1>3, <1>4, <2>1, Zenon
  <2>3. QED
    BY <2>1, <2>2
<1>6. QED
  BY <1>4, <1>5

\* The greatest of some positions.
LEMMA GreatestPosition ==
    ASSUME NEW n \in Nat, NEW s \in SUBSET (1..n), s # {}
    PROVE  /\ Max(s) \in s
           /\ \A y \in s : Max(s) >= y
           /\ n \in s => Max(s) = n
<1> DEFINE D == {n - y : y \in s}
<1>1. D \in SUBSET Nat /\ D # {}
  <2>1. \A y \in s : n - y \in Nat
    OBVIOUS
  <2>2. PICK y \in s : TRUE
    OBVIOUS
  <2>3. n - y \in D
    OBVIOUS
  <2>4. QED
    BY <2>1, <2>3
<1>2. PICK d \in D : \A e \in D : e >= d
  BY <1>1, LeastNumber, Zenon
<1>3. PICK x \in s : d = n - x
  BY <1>2
<1>4. \A y \in s : x >= y
  <2> TAKE y \in s
  <2>1. n - y \in D
    OBVIOUS
  <2>2. n - y >= n - x
    BY <1>2, <1>3, <2>1
  <2>3. QED
    BY <2>2
<1>5. Max(s) \in s /\ \A y \in s : Max(s) >= y
  BY <1>4, Zenon DEF Max
<1>6. \A m \in 1..n : n \in s /\ m >= n => m = n
  OBVIOUS
<1>7. QED
  BY <1>5, <1>6

\* The function by which a fold is defined exists.
Iterates(it, base, step, n) ==
    \A s \in SUBSET (1..n) :
        it[s] = IF s = {} THEN base ELSE step[it[s \ {Max(s)}]][Max(s)]

LEMMA FoldExists ==
    ASSUME NEW T, NEW base \in T, NEW N \in Nat, NEW step \in [T -> [1..N -> T]]
    PROVE  \E it \in [SUBSET (1..N) -> T] : Iterates(it, base, step, N)
<1> DEFINE Good(n) == \E it \in [SUBSET (1..n) -> T] : Iterates(it, base, step, n)
           Bad == {n \in 0..N : ~Good(n)}
<1>1. Good(0)
  <2> DEFINE it == [s \in SUBSET (1..0) |-> base]
  <2>1. it \in [SUBSET (1..0) -> T]
    OBVIOUS
  <2>2. \A s \in SUBSET (1..0) : s = {} /\ it[s] = base
    OBVIOUS
  <2> HIDE DEF it
  <2>3. Iterates(it, base, step, 0)
    BY <2>2 DEF Iterates
  <2>4. QED
    BY <2>1, <2>3
<1>2. ASSUME NEW m \in 1..N, Good(m - 1) PROVE Good(m)
  <2>1. PICK f \in [SUBSET (1..(m - 1)) -> T] : Iterates(f, base, step, m - 1)
    BY <1>2
  <2> DEFINE g == [s \in SUBSET (1..m) |->
                      IF m \in s THEN step[f[s \ {m}]][m] ELSE f[s]]
  <2>2. \A s \in SUBSET (1..m) : /\ s \ {m} \in SUBSET (1..(m - 1))
                                 /\ m \notin s => s \in SUBSET (1..(m - 1))
    OBVIOUS
  <2>3. g \in [SUBSET (1..m) -> T]
    <3>1. \A s \in SUBSET (1..m) :
             (IF m \in s THEN step[f[s \ {m}]][m] ELSE f[s]) \in T
      BY <2>1, <2>2
    <3>2. QED
      BY <3>1
  <2>4. \A s \in SUBSET (1..m) :
            g[s] = IF m \in s THEN step[f[s \ {m}]][m] ELSE f[s]
    OBVIOUS
  <2> HIDE DEF g
  <2>5. ASSUME NEW s \in SUBSET (1..m)
        PROVE  g[s] = IF s = {} THEN base ELSE step[g[s \ {Max(s)}]][Max(s)]
    <3>1. CASE m \in s
      <4>1. Max(s) = m
        BY <3>1, GreatestPosition
      <4>2. g[s \ {m}] = f[s \ {m}]
        BY <2>4, s \ {m} \in SUBSET (1..m), m \notin s \ {m}
      <4>3. QED
        BY <2>4, <3>1, <4>1, <4>2
    <3>2. CASE m \notin s /\ s # {}
      <4>1. s \in SUBSET (1..(m - 1)) /\ g[s] = f[s]
        BY <2>2, <2>4, <3>2
      <4>2. g[s \ {Max(s)}] = f[s \ {Max(s)}]
        <5>1. s \ {Max(s)} \in SUBSET (1..m) /\ m \notin s \ {Max(s)}
          BY <3>2
        <5>2. QED
          BY <2>4, <5>1
      <4>3. QED
        BY <2>1, <3>2, <4>1, <4>2 DEF Iterates
    <3>3. CASE s = {}
      BY <2>1, <2>2, <2>4, <3>3 DEF Iterates
    <3>4. QED
      BY <3>1, <3>2, <3>3
  <2>6. Iterates(g, base, step, m)
    BY <2>5, Zenon DEF Iterates
  <2>7. QED
    BY <2>3, <2>6
<1> HIDE DEF Good
<1>3. Bad = {}
  <2> SUFFICES ASSUME Bad # {} PROVE FALSE
    OBVIOUS
  <2>1. PICK m \in Bad : \A n \in Bad : n >= m
    BY LeastNumber, Bad \in SUBSET Nat, Zenon
  <2>2. m # 0
    BY <1>1
  <2>3. m \in 1..N /\ Good(m - 1)
    BY <2>1, <2>2
  <2>4. QED
    BY <1>2, <2>3
<1>4. Good(N)
  BY <1>3
<1>5. QED
  BY <1>4 DEF Good

(***************************************************************************)
(* The checksum.                                                           *)
(***************************************************************************)
\* The checksums of the first bytes of a text, from none to all of them.
Sums(bytes, n, sums) ==
    /\ sums \in [0..n -> Bytes]
    /\ sums[0] = 0
    /\ \A k \in 1..n : sums[k] = (sums[k - 1] + bytes[k]) % ByteValues

LEMMA ByteByByte ==
    ASSUME NEW n \in Nat, NEW bytes \in [1..n -> Bytes]
    PROVE  \E sums : Sums(bytes, n, sums) /\ Checksum(bytes) = sums[n]
<1> DEFINE step == [a \in Bytes |-> [k \in 1..n |-> (a + bytes[k]) % ByteValues]]
<1>1. 0 \in Bytes /\ \A a \in Int : a % ByteValues \in Bytes
  BY BytesAssumption DEF Bytes
<1>2. step \in [Bytes -> [1..n -> Bytes]]
  <2>1. \A a \in Bytes, k \in 1..n : (a + bytes[k]) % ByteValues \in Bytes
    <3> TAKE a \in Bytes, k \in 1..n
    <3>1. a + bytes[k] \in Int
      BY BytesAssumption DEF Bytes
    <3>2. QED
      BY <1>1, <3>1
  <2>2. QED
    BY <2>1
<1>3. \A a \in Bytes, k \in 1..n : step[a][k] = (a + bytes[k]) % ByteValues
  OBVIOUS
<1> HIDE DEF step
<1>4. PICK f \in [SUBSET (1..n) -> Bytes] : Iterates(f, 0, step, n)
  BY <1>1, <1>2, FoldExists, Zenon
<1> DEFINE IsFold(it) == it = [s \in SUBSET (DOMAIN bytes) |->
               IF s = {} THEN 0 ELSE (it[s \ {Max(s)}] + bytes[Max(s)]) % ByteValues]
           it == CHOOSE g : IsFold(g)
<1>5. IsFold(f)
  <2>1. DOMAIN bytes = 1..n
    OBVIOUS
  <2>2. \A s \in SUBSET (1..n) :
            f[s] = IF s = {} THEN 0 ELSE (f[s \ {Max(s)}] + bytes[Max(s)]) % ByteValues
    <3> SUFFICES ASSUME NEW s \in SUBSET (1..n)
                 PROVE  f[s] = IF s = {} THEN 0
                               ELSE (f[s \ {Max(s)}] + bytes[Max(s)]) % ByteValues
      OBVIOUS
    <3>1. f[s] = IF s = {} THEN 0 ELSE step[f[s \ {Max(s)}]][Max(s)]
      BY <1>4 DEF Iterates
    <3>2. s # {} => Max(s) \in 1..n /\ f[s \ {Max(s)}] \in Bytes
      BY GreatestPosition
    <3>3. QED
      BY <1>3, <3>1, <3>2
  <2>3. QED
    BY <2>1, <2>2
<1>6. IsFold(it)
  BY <1>5, Zenon
<1>7. Checksum(bytes) = it[DOMAIN bytes]
  BY Zenon DEF Checksum, FoldLeft, MapThenFoldSet
<1>8. /\ it = [s \in SUBSET (1..n) |->
                  IF s = {} THEN 0 ELSE (it[s \ {Max(s)}] + bytes[Max(s)]) % ByteValues]
      /\ Checksum(bytes) = it[1..n]
  BY <1>6, <1>7
<1> HIDE DEF it, IsFold
<1> DEFINE sums == [k \in 0..n |-> it[1..k]]
<1>9. sums[0] = 0
  <2>1. 1..0 = {} /\ 0 \in 0..n
    OBVIOUS
  <2>2. it[{}] = 0
    BY <1>8
  <2>3. QED
    BY <2>1, <2>2
<1>10. ASSUME NEW k \in 1..n
       PROVE  sums[k] = (sums[k - 1] + bytes[k]) % ByteValues
  <2>1. 1..k \in SUBSET (1..n) /\ k \in 1..k /\ k - 1 \in 0..n /\ k \in 0..n
    OBVIOUS
  <2>2. Max(1..k) = k
    <3>1. k \in Nat /\ 1..k \in SUBSET (1..k)
      OBVIOUS
    <3>2. QED
      BY <2>1, <3>1, GreatestPosition, Zenon
  <2>3. (1..k) \ {k} = 1..(k - 1)
    OBVIOUS
  <2>4. it[1..k] = (it[1..(k - 1)] + bytes[k]) % ByteValues
    BY <1>8, <2>1, <2>2, <2>3
  <2>5. QED
    BY <2>1, <2>4
<1>11. DOMAIN sums = 0..n /\ sums = [k \in 0..n |-> sums[k]] /\ sums[n] = it[1..n]
  OBVIOUS
<1> HIDE DEF sums
<1> DEFINE Wrong == {k \in 0..n : sums[k] \notin Bytes}
<1>12. Wrong = {}
  <2> SUFFICES ASSUME Wrong # {} PROVE FALSE
    OBVIOUS
  <2>1. PICK k \in Wrong : \A j \in Wrong : j >= k
    BY LeastNumber, Wrong \in SUBSET Nat, Zenon
  <2>2. k # 0
    BY <1>1, <1>9
  <2>3. k \in 1..n /\ k - 1 \in 0..n /\ k - 1 \notin Wrong
    BY <2>1, <2>2
  <2>4. sums[k - 1] + bytes[k] \in Int
    BY <2>3, BytesAssumption DEF Bytes
  <2>5. sums[k] \in Bytes
    BY <1>1, <1>10, <2>3, <2>4
  <2>6. QED
    BY <2>5
<1>13. Sums(bytes, n, sums)
  BY <1>9, <1>10, <1>11, <1>12 DEF Sums
<1>14. QED
  BY <1>8, <1>11, <1>13

\* To add a byte to a sum loses nothing.
LEMMA AddByte ==
    ASSUME NEW a \in Bytes, NEW b \in Bytes, NEW x \in Bytes, NEW y \in Bytes,
           (a + x) % ByteValues = (b + y) % ByteValues
    PROVE  (a = b) <=> (x = y)
<1> DEFINE B == ByteValues
<1>1. B \in Nat \ {0} /\ a \in 0..(B - 1) /\ b \in 0..(B - 1) /\ x \in 0..(B - 1) /\ y \in 0..(B - 1)
  BY BytesAssumption DEF Bytes
<1>2. \A v \in 0..(2 * B - 1) : v % B = IF v < B THEN v ELSE v - B
  <2> HIDE DEF B
  <2> TAKE v \in 0..(2 * B - 1)
  <2>1. B \in Nat \ {0}
    BY <1>1
  <2>2. QED
    BY <2>1
<1> HIDE DEF B
<1>3. a + x \in 0..(2 * B - 1) /\ b + y \in 0..(2 * B - 1)
  BY <1>1
<1>4. (a + x) % B = (b + y) % B
  BY DEF B
<1>5. QED
  BY <1>1, <1>2, <1>3, <1>4

\* One byte that changes changes the checksum.
LEMMA OneByte ==
    ASSUME NEW n \in Nat, NEW f \in [1..n -> Bytes], NEW k \in 1..n,
           NEW b \in Bytes \ {f[k]}
    PROVE  Checksum([f EXCEPT ![k] = b]) # Checksum(f)
<1> DEFINE g == [f EXCEPT ![k] = b]
<1>1. g \in [1..n -> Bytes] /\ g[k] # f[k] /\ \A i \in 1..n \ {k} : g[i] = f[i]
  OBVIOUS
<1> HIDE DEF g
<1>2. PICK F : Sums(f, n, F) /\ Checksum(f) = F[n]
  BY ByteByByte
<1>3. PICK G : Sums(g, n, G) /\ Checksum(g) = G[n]
  BY <1>1, ByteByByte
<1> DEFINE Wrong == {i \in 0..n : ~(F[i] = G[i] <=> i < k)}
<1>4. Wrong = {}
  <2> SUFFICES ASSUME Wrong # {} PROVE FALSE
    OBVIOUS
  <2>1. PICK i \in Wrong : \A j \in Wrong : j >= i
    BY LeastNumber, Wrong \in SUBSET Nat, Zenon
  <2>2. i # 0
    BY <1>2, <1>3, <2>1 DEF Sums
  <2>3. i \in 1..n /\ i - 1 \in 0..n /\ i - 1 \notin Wrong
    BY <2>1, <2>2
  <2>4. F[i - 1] = G[i - 1] <=> i - 1 < k
    BY <2>3
  <2>5. /\ F[i - 1] \in Bytes /\ G[i - 1] \in Bytes /\ f[i] \in Bytes /\ g[i] \in Bytes
        /\ F[i] = (F[i - 1] + f[i]) % ByteValues
        /\ G[i] = (G[i - 1] + g[i]) % ByteValues
    BY <1>1, <1>2, <1>3, <2>3 DEF Sums
  <2>6. f[i] = g[i] <=> i # k
    BY <1>1, <2>3
  <2>7. F[i] = G[i] => (F[i - 1] = G[i - 1] <=> f[i] = g[i])
    BY <2>5, AddByte
  <2>8. F[i] # G[i] => ~(F[i - 1] = G[i - 1] /\ f[i] = g[i])
    BY <2>5
  <2>9. F[i] = G[i] <=> i < k
    BY <2>3, <2>4, <2>6, <2>7, <2>8
  <2>10. QED
    BY <2>1, <2>9
<1>5. F[n] # G[n]
  <2>1. n \in 0..n /\ ~(n < k)
    OBVIOUS
  <2>2. QED
    BY <1>4, <2>1
<1>6. QED
  BY <1>2, <1>3, <1>5 DEF g

(***************************************************************************)
(* Frames.                                                                 *)
(***************************************************************************)
\* A length that two bytes can hold is held by them.
LEMMA TwoBytes ==
    ASSUME NEW v \in Nat, v < ByteValues * ByteValues
    PROVE  /\ v % ByteValues \in Bytes /\ v \div ByteValues \in Bytes
           /\ (v % ByteValues) + ByteValues * (v \div ByteValues) = v
<1> DEFINE B == ByteValues
           q == v \div B
           r == v - B * q
<1>1. B \in Nat /\ B > 0 /\ v < B * B
  BY BytesAssumption
<1> HIDE DEF B
<1>2. q \in Nat /\ q < B
  BY <1>1
<1>3. B * q \in Nat /\ B * q <= v /\ v < B * q + B
  BY <1>1
<1> HIDE DEF q
<1>4. r \in 0..(B - 1) /\ v = B * q + r
  BY <1>1, <1>3
<1> HIDE DEF r
<1>5. (B * q + r) % B = r
  BY <1>1, <1>2, <1>4
<1>6. v % B = r /\ r + B * q = v
  BY <1>1, <1>3, <1>4, <1>5
<1>7. q \in 0..(B - 1)
  BY <1>1, <1>2
<1>8. QED
  BY <1>4, <1>6, <1>7, Zenon DEF q, B, Bytes

\* What is where in a frame as it is built, before its n bytes are followed by the
\* checksum and the end byte.
Built(frm, n, control) ==
    /\ n \in Nat /\ n >= HeaderLength
    /\ frm \in [1..(n + 2) -> Bytes]
    /\ frm[1] = StartByte /\ frm[8] = StartByte
    /\ \A i \in 1..4 : frm[1 + i] = Identity[i]
    /\ frm[ControlAt] = control
    /\ frm[LengthAt] + ByteValues * frm[LengthAt + 1] = n - HeaderLength
    /\ frm[n + 1] = Checksum([i \in 1..n |-> frm[i]])
    /\ frm[n + 2] = EndByte

\* What is where when two texts are joined.
Joins(s, t) ==
    /\ s \o t \in Seq(Bytes) /\ Len(s \o t) = Len(s) + Len(t)
    /\ \A i \in 1..Len(s) : (s \o t)[i] = s[i]
    /\ \A i \in 1..Len(t) : (s \o t)[Len(s) + i] = t[i]

LEMMA Joined == ASSUME NEW s \in Seq(Bytes), NEW t \in Seq(Bytes) PROVE Joins(s, t)
BY ConcatProperties DEF Joins

\* A frame as it is built.
LEMMA FrameShape ==
    ASSUME NEW control \in Bytes, NEW data \in Seq(Bytes),
           Len(data) < ByteValues * ByteValues
    PROVE  Built(Frame(control, data), HeaderLength + Len(data), control)
<1> DEFINE lo == Len(data) % ByteValues
           hi == Len(data) \div ByteValues
           five == <<StartByte>> \o Identity
           nine == five \o <<0, 0, StartByte, control>>
           head == nine \o <<lo, hi>>
           body == head \o data
           n == 11 + Len(data)
<1>1. Len(data) \in Nat /\ lo \in Bytes /\ hi \in Bytes
      /\ lo + ByteValues * hi = Len(data)
  BY TwoBytes
<1>2. 0 \in Bytes /\ StartByte \in Bytes /\ EndByte \in Bytes
      /\ Identity \in [1..4 -> Bytes]
  BY BytesAssumption DEF Bytes
<1>3. Identity \in Seq(Bytes) /\ Len(Identity) = 4
  <2>1. Identity \in [1..4 -> Bytes] /\ 4 \in Nat
    BY <1>2
  <2>2. Identity \in Seq(Bytes)
    <3>1. \A k \in Nat : [1..k -> Bytes] \subseteq Seq(Bytes)
      BY SeqDef
    <3>2. QED
      BY <2>1, <3>1
  <2>3. DOMAIN Identity = 1..4 /\ DOMAIN Identity = 1..Len(Identity) /\ Len(Identity) \in Nat
    BY <2>1, <2>2, LenProperties
  <2>4. QED
    BY <2>2, <2>3
<1>4. Frame(control, data) = body \o <<Checksum(body), EndByte>>
  BY Zenon DEF Frame
<1> HIDE DEF lo, hi
<1>5. /\ head \in Seq(Bytes) /\ Len(head) = 11
      /\ head[1] = StartByte /\ head[8] = StartByte /\ head[9] = control
      /\ head[10] = lo /\ head[11] = hi
      /\ \A i \in 1..4 : head[1 + i] = Identity[i]
  <2> DEFINE one == <<StartByte>>
             four == <<0, 0, StartByte, control>>
             two == <<lo, hi>>
  <2>1. /\ one \in Seq(Bytes) /\ Len(one) = 1 /\ one[1] = StartByte
        /\ four \in Seq(Bytes) /\ Len(four) = 4 /\ four[3] = StartByte /\ four[4] = control
        /\ two \in Seq(Bytes) /\ Len(two) = 2 /\ two[1] = lo /\ two[2] = hi
    BY <1>1, <1>2
  <2>2. five = one \o Identity
    OBVIOUS
  <2>3. nine = five \o four
    OBVIOUS
  <2>4. head = nine \o two
    OBVIOUS
  <2> HIDE DEF one, four, two, five, nine, head
  <2>5. /\ five \in Seq(Bytes) /\ Len(five) = 5 /\ five[1] = StartByte
        /\ \A i \in 1..4 : five[1 + i] = Identity[i]
    <3>1. Joins(one, Identity)
      BY <1>3, <2>1, <2>2, Joined
    <3>2. QED
      BY <1>3, <2>1, <2>2, <3>1 DEF Joins
  <2>6. /\ nine \in Seq(Bytes) /\ Len(nine) = 9 /\ \A i \in 1..5 : nine[i] = five[i]
        /\ nine[8] = StartByte /\ nine[9] = control
    <3>1. Joins(five, four)
      BY <2>1, <2>5, <2>3, Joined
    <3>2. /\ nine \in Seq(Bytes) /\ Len(nine) = 5 + 4
          /\ \A i \in 1..5 : nine[i] = five[i]
          /\ \A i \in 1..4 : nine[5 + i] = four[i]
      BY <2>1, <2>5, <2>3, <3>1, Zenon DEF Joins
    <3>3. 1 \in 1..2 /\ 2 \in 1..2 /\ 3 \in 1..4 /\ 4 \in 1..4
      OBVIOUS
    <3>4. QED
      BY <2>1, <3>2, <3>3
  <2>7. /\ head \in Seq(Bytes) /\ Len(head) = 11 /\ \A i \in 1..9 : head[i] = nine[i]
        /\ head[10] = lo /\ head[11] = hi
    <3>1. Joins(nine, two)
      BY <2>1, <2>6, <2>4, Joined
    <3>2. /\ head \in Seq(Bytes) /\ Len(head) = 9 + 2
          /\ \A i \in 1..9 : head[i] = nine[i]
          /\ \A i \in 1..2 : head[9 + i] = two[i]
      BY <2>1, <2>6, <2>4, <3>1, Zenon DEF Joins
    <3>3. 1 \in 1..2 /\ 2 \in 1..2 /\ 3 \in 1..4 /\ 4 \in 1..4
      OBVIOUS
    <3>4. QED
      BY <2>1, <3>2, <3>3
  <2>8. \A i \in 1..4 : head[1 + i] = Identity[i]
    BY <2>5, <2>6, <2>7
  <2>9. QED
    BY <2>5, <2>6, <2>7, <2>8
<1> HIDE DEF head
<1>6. /\ body \in Seq(Bytes) /\ Len(body) = n /\ n \in Nat /\ n >= 11
      /\ \A i \in 1..11 : body[i] = head[i]
  <2>1. Joins(head, data)
    BY <1>5, Joined
  <2>2. QED
    BY <1>1, <1>5, <2>1 DEF Joins
<1>7. body \in [1..n -> Bytes]
  BY <1>6, LenProperties
<1> HIDE DEF body, n
<1>8. Checksum(body) \in Bytes
  <2>1. PICK sums : Sums(body, n, sums) /\ Checksum(body) = sums[n]
    BY <1>6, <1>7, ByteByByte
  <2>2. QED
    BY <1>6, <2>1 DEF Sums
<1> DEFINE frm == Frame(control, data)
<1>9. /\ frm \in Seq(Bytes) /\ Len(frm) = n + 2
      /\ \A i \in 1..n : frm[i] = body[i]
      /\ frm[n + 1] = Checksum(body) /\ frm[n + 2] = EndByte
  BY <1>2, <1>4, <1>6, <1>8
<1>10. frm \in [1..(n + 2) -> Bytes]
  BY <1>9, LenProperties
<1> HIDE DEF frm
<1>11. [i \in 1..n |-> frm[i]] = body
  BY <1>7, <1>9
<1>12. \A i \in 1..11 : frm[i] = head[i]
  BY <1>6, <1>9
<1>13. /\ frm[1] = StartByte /\ frm[8] = StartByte /\ frm[9] = control
       /\ frm[10] = lo /\ frm[11] = hi
       /\ \A i \in 1..4 : frm[1 + i] = Identity[i]
  BY <1>5, <1>12
<1>14. frm[10] + ByteValues * frm[10 + 1] = n - 11
  BY <1>1, <1>13 DEF n
<1>15. Built(frm, n, control)
  BY <1>6, <1>9, <1>10, <1>11, <1>13, <1>14 DEF Built, HeaderLength, ControlAt, LengthAt
<1>16. QED
  BY <1>15 DEF frm, n, HeaderLength

\* How a text that begins like a frame is judged.
LEMMA Judgement ==
    ASSUME NEW n \in Nat, n >= HeaderLength, NEW frm, DOMAIN frm = 1..(n + 2),
           frm[LengthAt] + ByteValues * frm[LengthAt + 1] = n - HeaderLength
    PROVE  /\ Announced(frm) = n - HeaderLength
           /\ Accepted(frm) <=>
                 /\ frm[1] = StartByte /\ frm[8] = StartByte
                 /\ \A i \in 1..4 : frm[1 + i] = Identity[i]
                 /\ n - HeaderLength <= MaxLength
                 /\ frm[n + 2] = EndByte
                 /\ Checksum([i \in 1..n |-> frm[i]]) = frm[n + 1]
<1>1. \A i \in 1..(n + 2) : At(frm, i) = frm[i]
  BY DEF At
<1>2. {1, 8, 10, 11, n + 1, n + 2} \subseteq 1..(n + 2) /\ \A i \in 1..4 : 1 + i \in 1..(n + 2)
  BY DEF HeaderLength
<1>3. Announced(frm) = n - HeaderLength
  BY <1>1, <1>2 DEF Announced, LengthAt
<1>4. /\ HeaderLength + Announced(frm) + 1 = n + 1
      /\ (n + 1) + 1 = n + 2 /\ (n + 1) - 1 = n
  BY <1>3 DEF HeaderLength
<1>5. [i \in 1..n |-> At(frm, i)] = [i \in 1..n |-> frm[i]]
  BY <1>1
<1>6. /\ At(frm, 1) = frm[1] /\ At(frm, 8) = frm[8] /\ At(frm, n + 1) = frm[n + 1]
      /\ At(frm, n + 2) = frm[n + 2] /\ \A i \in 1..4 : At(frm, 1 + i) = frm[1 + i]
  BY <1>1, <1>2
<1>7. Accepted(frm) <=>
          /\ At(frm, 1) = StartByte /\ At(frm, 8) = StartByte
          /\ \A i \in 1..4 : At(frm, 1 + i) = Identity[i]
          /\ Announced(frm) <= MaxLength
          /\ At(frm, n + 2) = EndByte
          /\ Checksum([i \in 1..n |-> At(frm, i)]) = At(frm, n + 1)
  BY <1>4, Zenon DEF Accepted
<1>8. QED
  BY <1>3, <1>5, <1>6, <1>7, Zenon

\* A frame that arrives as it was built is accepted just if it is not too long.
THEOREM IntactFrame ==
    ASSUME NEW control \in Bytes, NEW data \in Seq(Bytes),
           Len(data) < ByteValues * ByteValues
    PROVE  LET sent == Frame(control, data) IN
           /\ Announced(sent) = Len(data)
           /\ Accepted(sent) <=> Announced(sent) <= MaxLength
<1> DEFINE sent == Frame(control, data)
           n == HeaderLength + Len(data)
<1>1. Built(sent, n, control) /\ Len(data) \in Nat
  BY FrameShape
<1> HIDE DEF sent
<1>2. n \in Nat /\ n >= HeaderLength /\ DOMAIN sent = 1..(n + 2) /\ n - HeaderLength = Len(data)
  BY <1>1 DEF Built, HeaderLength
<1> HIDE DEF n
<1>3. Announced(sent) = n - HeaderLength /\ (Accepted(sent) <=> n - HeaderLength <= MaxLength)
  BY <1>1, <1>2, Judgement DEF Built
<1>4. QED
  BY <1>2, <1>3 DEF sent

\* One damaged byte is noticed, unless it is one of the two of the length.
THEOREM DamageNoticed ==
    ASSUME NEW control \in Bytes, NEW data \in Seq(Bytes),
           Len(data) < ByteValues * ByteValues,
           NEW k \in (1..Len(Frame(control, data))) \ {LengthAt, LengthAt + 1},
           NEW b \in Bytes \ {Frame(control, data)[k]}
    PROVE  ~Accepted([Frame(control, data) EXCEPT ![k] = b])
<1> DEFINE sent == Frame(control, data)
           n == HeaderLength + Len(data)
           frm == [sent EXCEPT ![k] = b]
<1>1. Built(sent, n, control) /\ Len(data) \in Nat
  BY FrameShape
<1>2. k \in 1..Len(sent) /\ k \notin {LengthAt, LengthAt + 1} /\ b \in Bytes \ {sent[k]}
  OBVIOUS
<1> HIDE DEF sent
<1>3. /\ n \in Nat /\ n >= HeaderLength /\ DOMAIN sent = 1..(n + 2)
      /\ sent \in [1..(n + 2) -> Bytes]
  BY <1>1 DEF Built, HeaderLength
<1> HIDE DEF n
<1>4. k \in 1..(n + 2)
  <2>1. \A j \in Nat : [1..j -> Bytes] \subseteq Seq(Bytes)
    BY SeqDef
  <2>2. sent \in Seq(Bytes)
    BY <1>3, <2>1
  <2>3. DOMAIN sent = 1..Len(sent)
    BY <2>2, LenProperties
  <2>4. QED
    BY <1>2, <1>3, <2>3
<1>5. /\ DOMAIN frm = 1..(n + 2) /\ frm[k] = b
      /\ \A i \in 1..(n + 2) \ {k} : frm[i] = sent[i]
  BY <1>3, <1>4
<1> HIDE DEF frm
<1>6. frm[LengthAt] + ByteValues * frm[LengthAt + 1] = n - HeaderLength
  BY <1>1, <1>2, <1>3, <1>5 DEF Built, LengthAt, HeaderLength
<1>7. SUFFICES ASSUME frm[n + 2] = EndByte,
                      Checksum([i \in 1..n |-> frm[i]]) = frm[n + 1]
               PROVE  FALSE
  <2>1. Accepted(frm) => /\ frm[n + 2] = EndByte
                         /\ Checksum([i \in 1..n |-> frm[i]]) = frm[n + 1]
    BY <1>3, <1>5, <1>6, Judgement
  <2>2. QED
    BY <1>7, <2>1 DEF frm, sent
<1> DEFINE f == [i \in 1..n |-> sent[i]]
           g == [i \in 1..n |-> frm[i]]
<1>8. sent[n + 1] = Checksum(f) /\ sent[n + 2] = EndByte
  BY <1>1 DEF Built
<1>9. k # n + 2
  BY <1>2, <1>5, <1>7, <1>8
<1>10. k # n + 1
  <2>1. k = n + 1 => f = g
    BY <1>3, <1>5
  <2>2. k = n + 1 => Checksum(g) = sent[k]
    BY <1>8, <2>1
  <2>3. QED
    BY <1>2, <1>5, <1>7, <2>2
<1>11. k \in 1..n /\ n + 1 \in 1..(n + 2) \ {k}
  BY <1>3, <1>4, <1>9, <1>10
<1>12. f \in [1..n -> Bytes] /\ b \in Bytes \ {f[k]} /\ g = [f EXCEPT ![k] = b]
  <2>1. \A i \in 1..n : i \in 1..(n + 2)
    BY <1>3
  <2>2. f \in [1..n -> Bytes] /\ f[k] = sent[k]
    BY <1>3, <1>11, <2>1
  <2>3. \A i \in 1..n : g[i] = IF i = k THEN b ELSE f[i]
    BY <1>5, <2>1
  <2>4. g = [f EXCEPT ![k] = b]
    BY <2>3
  <2>5. QED
    BY <1>2, <2>2, <2>4
<1> HIDE DEF f, g
<1>13. Checksum(g) # Checksum(f)
  BY <1>3, <1>11, <1>12, OneByte
<1>14. frm[n + 1] = sent[n + 1]
  BY <1>5, <1>11
<1>15. QED
  BY <1>7, <1>8, <1>13, <1>14 DEF g
=============================================================================
