--------------------------- MODULE EStringProofs ---------------------------
(***************************************************************************)
(* Proofs about EString, for every MIN_LEN, every set of MAX_LENs and every *)
(* string given to the constructor.                                        *)
(***************************************************************************)
EXTENDS EString, TLAPS

(* The array of every estring_t reaches up to its count.                    *)
LEMMA StorageReaches ==
  ASSUME NEW max \in Nat
  PROVE  StorageSize(max) \in Nat /\ max < StorageSize(max)
<1>1. CASE max < 4 BY <1>1, SMT DEF StorageSize
<1>2. CASE max \in 4 .. 7 BY <1>2, SMT DEF StorageSize
<1>3. CASE max \in 8 .. 15 BY <1>3, SMT DEF StorageSize
<1>4. CASE max > 15 BY <1>4, SMT DEF StorageSize
<1> QED BY <1>1, <1>2, <1>3, <1>4

(* What the constructor stores: bytes only, and the string can be read      *)
(* back.                                                                    *)
LEMMA StoreAndView ==
  ASSUME NEW max \in MaxLens, NEW s \in Inputs, Fits(s, max)
  PROVE  /\ Store(s, max) \in Storage(max)
         /\ View(Store(s, max), max) = s
<1>1. /\ max \in Nat /\ max <= Base - 1 /\ Base \in Nat
      /\ s \in Seq(0 .. Base - 1)
      /\ Len(s) \in Nat /\ Len(s) <= max
  BY EStringAssumption DEF Fits
<1>2. StorageSize(max) \in Nat /\ max < StorageSize(max)
  BY <1>1, StorageReaches
<1>3. Store(s, max) \in Storage(max)
  <2>1. ASSUME NEW i \in 0 .. StorageSize(max) - 1
        PROVE  (IF i < Len(s) THEN s[i + 1] ELSE IF i = max THEN max - Len(s) ELSE 0)
                 \in 0 .. Base - 1
    BY <1>1, <1>2
  <2> QED BY <2>1 DEF Store, Storage
<1>4. \A i \in 0 .. max :
        Store(s, max)[i] = IF i < Len(s) THEN s[i + 1] ELSE IF i = max THEN max - Len(s) ELSE 0
  BY <1>1, <1>2 DEF Store
<1>5. Length(Store(s, max), max) = Len(s)
  <2>1. Store(s, max)[max] = max - Len(s)
    BY <1>1, <1>4
  <2> QED BY <1>1, <2>1 DEF Length
<1>6. \A i \in 1 .. Len(s) : Store(s, max)[i - 1] = s[i]
  BY <1>1, <1>4
<1>7. View(Store(s, max), max) = [i \in 1 .. Len(s) |-> s[i]]
  BY <1>5, <1>6 DEF View
<1> QED BY <1>1, <1>3, <1>7

-----------------------------------------------------------------------------
(* The comparison as numbers.  Two arrays agree on their first k bytes, or  *)
(* one is less there: it is where they differ first.                        *)
Agree(v, w, k) == \A j \in 0 .. k - 1 : v[j] = w[j]
Less(v, w, k) == \E i \in 0 .. k - 1 : v[i] < w[i] /\ Agree(v, w, i)
SignsAgree(v, w) == v[0] >= Base \div 2 <=> w[0] >= Base \div 2

(* Numbers x and y compare as the first k bytes of v and w do.              *)
Compares(x, y, v, w, k) ==
  /\ x \in Int /\ y \in Int
  /\ x = y <=> Agree(v, w, k)
  /\ SignsAgree(v, w) => (x < y <=> Less(v, w, k))

(* One more digit decides only between equal numbers.                       *)
LEMMA OneMoreDigit ==
  ASSUME NEW x \in Int, NEW y \in Int, NEW a \in 0 .. Base - 1, NEW b \in 0 .. Base - 1
  PROVE  /\ x * Base + a \in Int /\ y * Base + b \in Int
         /\ x * Base + a = y * Base + b <=> x = y /\ a = b
         /\ x * Base + a < y * Base + b <=> x < y \/ (x = y /\ a < b)
<1>1. Base \in Nat /\ Base > 0
  BY EStringAssumption
<1>2. \A u, z \in Int : u < z => u * Base + Base <= z * Base
  <2> SUFFICES ASSUME NEW u \in Int, NEW z \in Int, u < z
               PROVE  u * Base + Base <= z * Base
    OBVIOUS
  <2>1. z - u - 1 >= 0 /\ (z - u - 1) * Base >= 0
    BY <1>1
  <2>2. (z - u - 1) * Base = z * Base - u * Base - Base
    BY <1>1
  <2>3. z * Base \in Int /\ u * Base \in Int
    BY <1>1
  <2> QED BY <1>1, <2>1, <2>2, <2>3
<1>3. a \in Int /\ b \in Int /\ 0 <= a /\ 0 <= b /\ a < Base /\ b < Base
  BY <1>1
<1>4. x * Base \in Int /\ y * Base \in Int
  BY <1>1
<1>5. CASE x < y
  <2>1. x * Base + Base <= y * Base
    BY <1>2, <1>5
  <2> QED BY <1>1, <1>3, <1>4, <1>5, <2>1
<1>6. CASE y < x
  <2>1. y * Base + Base <= x * Base
    BY <1>2, <1>6
  <2> QED BY <1>1, <1>3, <1>4, <1>6, <2>1
<1>7. CASE x = y
  BY <1>3, <1>4, <1>7
<1> QED BY <1>5, <1>6, <1>7

(* So numbers still compare as the bytes do when the next byte is added.    *)
LEMMA OneMoreByte ==
  ASSUME NEW x, NEW y, NEW v, NEW w, NEW k \in Nat, Compares(x, y, v, w, k),
         v[k] \in 0 .. Base - 1, w[k] \in 0 .. Base - 1
  PROVE  Compares(x * Base + v[k], y * Base + w[k], v, w, k + 1)
<1>1. /\ x \in Int /\ y \in Int
      /\ x = y <=> Agree(v, w, k)
      /\ SignsAgree(v, w) => (x < y <=> Less(v, w, k))
  BY DEF Compares
<1>2. /\ x * Base + v[k] \in Int /\ y * Base + w[k] \in Int
      /\ x * Base + v[k] = y * Base + w[k] <=> x = y /\ v[k] = w[k]
      /\ x * Base + v[k] < y * Base + w[k] <=> x < y \/ (x = y /\ v[k] < w[k])
  BY <1>1, OneMoreDigit
<1>3. \A j \in 0 .. (k + 1) - 1 : j \in 0 .. k - 1 \/ j = k
  OBVIOUS
<1>4. k \in 0 .. (k + 1) - 1 /\ \A j \in 0 .. k - 1 : j \in 0 .. (k + 1) - 1
  OBVIOUS
<1>5. Agree(v, w, k + 1) <=> Agree(v, w, k) /\ v[k] = w[k]
  BY <1>3, <1>4 DEF Agree
<1>6. Less(v, w, k + 1) <=> Less(v, w, k) \/ (Agree(v, w, k) /\ v[k] < w[k])
  BY <1>3, <1>4 DEF Less
<1> QED BY <1>1, <1>2, <1>5, <1>6 DEF Compares

(* And when the next four are.                                              *)
LEMMA FourMoreBytes ==
  ASSUME NEW x, NEW y, NEW v, NEW w, NEW k \in Nat, Compares(x, y, v, w, k),
         \A i \in k .. k + 3 : v[i] \in 0 .. Base - 1 /\ w[i] \in 0 .. Base - 1
  PROVE  Compares(Quad(x, v, k), Quad(y, w, k), v, w, k + 4)
<1>1. /\ k \in k .. k + 3 /\ k + 1 \in k .. k + 3 /\ k + 2 \in k .. k + 3 /\ k + 3 \in k .. k + 3
      /\ k + 1 \in Nat /\ k + 2 \in Nat /\ k + 3 \in Nat
      /\ (k + 1) + 1 = k + 2 /\ (k + 2) + 1 = k + 3 /\ (k + 3) + 1 = k + 4
  OBVIOUS
<1> DEFINE x1 == x * Base + v[k]
           y1 == y * Base + w[k]
           x2 == x1 * Base + v[k + 1]
           y2 == y1 * Base + w[k + 1]
           x3 == x2 * Base + v[k + 2]
           y3 == y2 * Base + w[k + 2]
<1>2. Compares(x1, y1, v, w, k + 1)
  BY <1>1, OneMoreByte
<1> HIDE DEF x1, y1
<1>3. Compares(x2, y2, v, w, k + 2)
  <2>1. Compares(x2, y2, v, w, (k + 1) + 1)
    BY <1>1, <1>2, OneMoreByte
  <2> QED BY <1>1, <2>1
<1> HIDE DEF x2, y2
<1>4. Compares(x3, y3, v, w, k + 3)
  <2>1. Compares(x3, y3, v, w, (k + 2) + 1)
    BY <1>1, <1>3, OneMoreByte
  <2> QED BY <1>1, <2>1
<1> HIDE DEF x3, y3
<1>5. Compares(x3 * Base + v[k + 3], y3 * Base + w[k + 3], v, w, k + 4)
  <2>1. Compares(x3 * Base + v[k + 3], y3 * Base + w[k + 3], v, w, (k + 3) + 1)
    BY <1>1, <1>4, OneMoreByte
  <2> QED BY <1>1, <2>1
<1> QED BY <1>5 DEF Quad, x1, y1, x2, y2, x3, y3

(* The first byte has the sign.                                             *)
LEMMA FirstByte ==
  ASSUME NEW v, NEW w, v[0] \in 0 .. Base - 1, w[0] \in 0 .. Base - 1
  PROVE  Compares(Signed(v[0]), Signed(w[0]), v, w, 1)
<1> DEFINE h == Base \div 2
<1>1. Base \in Nat /\ Base > 0 /\ h \in Int
  BY EStringAssumption
<1> HIDE DEF h
<1>2. \A i : i \in 0 .. 1 - 1 <=> i = 0
  OBVIOUS
<1>3. Agree(v, w, 1) <=> v[0] = w[0]
  BY <1>2 DEF Agree
<1>4. Less(v, w, 1) <=> v[0] < w[0]
  <2>1. Agree(v, w, 0)
    BY DEF Agree
  <2> QED BY <1>2, <2>1 DEF Less
<1>5. ASSUME NEW a \in 0 .. Base - 1, NEW b \in 0 .. Base - 1
      PROVE  /\ Signed(a) \in Int /\ Signed(b) \in Int
             /\ Signed(a) = Signed(b) <=> a = b
             /\ (a >= h <=> b >= h) => (Signed(a) < Signed(b) <=> a < b)
  BY <1>1 DEF Signed, h
<1> QED BY <1>3, <1>4, <1>5 DEF Compares, SignsAgree, h

(* So repr() of two arrays compares as the bytes of them, unless one of two *)
(* different first bytes is negative and the other is not.                  *)
LEMMA ReprCompares ==
  ASSUME NEW max \in Nat, max < 16, NEW v \in Storage(max), NEW w \in Storage(max)
  PROVE  Compares(Repr(v, max), Repr(w, max), v, w, StorageSize(max))
<1> DEFINE n == StorageSize(max)
<1>1. n \in {4, 8, 16} /\ (n = 4 <=> max < 4) /\ (n = 8 <=> max \in 4 .. 7)
  <2>1. CASE max < 4
    BY <2>1 DEF StorageSize
  <2>2. CASE max \in 4 .. 7
    BY <2>2 DEF StorageSize
  <2>3. CASE max \in 8 .. 15
    BY <2>3 DEF StorageSize
  <2> QED BY <2>1, <2>2, <2>3
<1>2. \A i \in 0 .. n - 1 : v[i] \in 0 .. Base - 1 /\ w[i] \in 0 .. Base - 1
  BY DEF Storage
<1> HIDE DEF n
<1>3. Compares(Int32(v), Int32(w), v, w, 4)
  <2>1. /\ v[0] \in 0 .. Base - 1 /\ w[0] \in 0 .. Base - 1
        /\ v[1] \in 0 .. Base - 1 /\ w[1] \in 0 .. Base - 1
        /\ v[2] \in 0 .. Base - 1 /\ w[2] \in 0 .. Base - 1
        /\ v[3] \in 0 .. Base - 1 /\ w[3] \in 0 .. Base - 1
    BY <1>1, <1>2
  <2> DEFINE x0 == Signed(v[0])
             y0 == Signed(w[0])
             x1 == x0 * Base + v[1]
             y1 == y0 * Base + w[1]
             x2 == x1 * Base + v[2]
             y2 == y1 * Base + w[2]
  <2>2. Compares(x0, y0, v, w, 1)
    BY <2>1, FirstByte
  <2> HIDE DEF x0, y0
  <2>3. Compares(x1, y1, v, w, 1 + 1)
    BY <2>1, <2>2, OneMoreByte
  <2> HIDE DEF x1, y1
  <2>4. Compares(x2, y2, v, w, 2 + 1)
    BY <2>1, <2>3, OneMoreByte
  <2> HIDE DEF x2, y2
  <2>5. Compares(x2 * Base + v[3], y2 * Base + w[3], v, w, 3 + 1)
    BY <2>1, <2>4, OneMoreByte
  <2> QED BY <2>5 DEF Int32, x0, y0, x1, y1, x2, y2
<1>4. CASE n = 4
  BY <1>1, <1>3, <1>4 DEF Repr, n
<1>5. ASSUME n \in {8, 16}
      PROVE  Compares(Quad(Int32(v), v, 4), Quad(Int32(w), w, 4), v, w, 4 + 4)
  <2>1. \A i \in 4 .. 4 + 3 : i \in 0 .. n - 1
    BY <1>5
  <2> QED BY <1>2, <1>3, <2>1, FourMoreBytes
<1>6. CASE n = 8
  BY <1>1, <1>5, <1>6 DEF Repr, n
<1>7. CASE n = 16
  <2> DEFINE x == Quad(Int32(v), v, 4)
             y == Quad(Int32(w), w, 4)
  <2>1. Compares(x, y, v, w, 8)
    BY <1>5, <1>7
  <2> HIDE DEF x, y
  <2>2. \A i \in 8 .. 8 + 3 : i \in 0 .. n - 1
    BY <1>7
  <2>3. Compares(Quad(x, v, 8), Quad(y, w, 8), v, w, 8 + 4)
    BY <1>2, <2>1, <2>2, FourMoreBytes
  <2>4. \A i \in 12 .. 12 + 3 : i \in 0 .. n - 1
    BY <1>7
  <2>5. Compares(Quad(Quad(x, v, 8), v, 12), Quad(Quad(y, w, 8), w, 12), v, w, 12 + 4)
    BY <1>2, <2>3, <2>4, FourMoreBytes
  <2>6. Repr(v, max) = Quad(Quad(x, v, 8), v, 12) /\ Repr(w, max) = Quad(Quad(y, w, 8), w, 12)
    BY <1>1, <1>7 DEF Repr, x, y
  <2> QED BY <1>7, <2>5, <2>6 DEF n
<1> QED BY <1>1, <1>4, <1>6, <1>7

(* A strict prefix is shorter, and the same as far as it goes.              *)
LEMMA StrictPrefix ==
  ASSUME NEW S, NEW s \in Seq(S), NEW t \in Seq(S)
  PROVE  IsStrictPrefix(s, t) <=>
           Len(s) < Len(t) /\ \A i \in 1 .. Len(s) : s[i] = t[i]
<1>1. Len(s) \in Nat /\ Len(t) \in Nat
  OBVIOUS
<1>2. ASSUME Len(s) <= Len(t)
      PROVE  SubSeq(s, 1, Len(s)) = SubSeq(t, 1, Len(s)) <=> \A i \in 1 .. Len(s) : s[i] = t[i]
  <2>1. /\ SubSeq(s, 1, Len(s)) = [i \in 1 .. Len(s) |-> s[i]]
        /\ SubSeq(t, 1, Len(s)) = [i \in 1 .. Len(s) |-> t[i]]
    BY <1>1, <1>2
  <2> QED BY <2>1
<1>3. ASSUME Len(s) = Len(t), \A i \in 1 .. Len(s) : s[i] = t[i]
      PROVE  s = t
  <2>1. s = [i \in 1 .. Len(s) |-> s[i]] /\ t = [i \in 1 .. Len(t) |-> t[i]]
    OBVIOUS
  <2> QED BY <1>3, <2>1
<1> QED BY <1>1, <1>2, <1>3 DEF IsStrictPrefix, IsPrefix

(* The bytes of a stored string.                                            *)
LEMMA StoreBytes ==
  ASSUME NEW max \in MaxLens, NEW s \in Inputs, Fits(s, max)
  PROVE  /\ max \in Nat /\ StorageSize(max) \in Nat /\ max < StorageSize(max)
         /\ s \in Seq(0 .. Base - 1) /\ Len(s) \in Nat /\ Len(s) <= max
         /\ \A i \in 1 .. Len(s) : s[i] \in Nat
         /\ \A i \in 0 .. StorageSize(max) - 1 :
              Store(s, max)[i] = IF i < Len(s) THEN s[i + 1] ELSE IF i = max THEN max - Len(s) ELSE 0
<1>1. max \in Nat /\ s \in Seq(0 .. Base - 1) /\ Base \in Nat
  BY EStringAssumption
<1>2. StorageSize(max) \in Nat /\ max < StorageSize(max)
  BY <1>1, StorageReaches
<1>3. Len(s) \in Nat /\ Len(s) <= max
  BY <1>1, EStringAssumption DEF Fits
<1>4. \A i \in 1 .. Len(s) : s[i] \in Nat
  BY <1>1
<1> QED BY <1>1, <1>2, <1>3, <1>4 DEF Store

(* Strings are stored as the same bytes only if they are the same.          *)
LEMMA StoreSame ==
  ASSUME NEW max \in MaxLens, NEW s \in Inputs, NEW t \in Inputs,
         Fits(s, max), Fits(t, max)
  PROVE  Agree(Store(s, max), Store(t, max), StorageSize(max)) <=> s = t
<1>1. ASSUME Agree(Store(s, max), Store(t, max), StorageSize(max))
      PROVE  s = t
  <2>1. Store(s, max) = Store(t, max)
    BY <1>1 DEF Agree, Store
  <2> QED BY <2>1, StoreAndView
<1> QED BY <1>1 DEF Agree

(* Without nulls in them, they are stored in their order: a prefix meets    *)
(* the null after its last character before the counts are reached.         *)
LEMMA StoreOrder ==
  ASSUME NEW max \in MaxLens, NEW s \in Inputs, NEW t \in Inputs,
         Fits(s, max), Fits(t, max), NoNulls(s), NoNulls(t)
  PROVE  Less(Store(s, max), Store(t, max), StorageSize(max)) <=> Before(s, t)
<1> DEFINE v == Store(s, max)
           w == Store(t, max)
           n == StorageSize(max)
           m == Len(s)
           k == Len(t)
<1>1. /\ max \in Nat /\ n \in Nat /\ max < n
      /\ m \in Nat /\ m <= max /\ k \in Nat /\ k <= max
      /\ s \in Seq(0 .. Base - 1) /\ t \in Seq(0 .. Base - 1)
  BY StoreBytes
<1>2. /\ \A i \in 1 .. m : s[i] \in Nat /\ s[i] > 0
      /\ \A i \in 1 .. k : t[i] \in Nat /\ t[i] > 0
  <2>1. DOMAIN s = 1 .. m /\ DOMAIN t = 1 .. k
    BY <1>1
  <2>2. (\A i \in 1 .. m : s[i] \in Nat) /\ (\A i \in 1 .. k : t[i] \in Nat)
    BY StoreBytes
  <2> QED BY <2>1, <2>2 DEF NoNulls
<1>3. \A i \in 0 .. n - 1 :
        /\ v[i] = IF i < m THEN s[i + 1] ELSE IF i = max THEN max - m ELSE 0
        /\ w[i] = IF i < k THEN t[i + 1] ELSE IF i = max THEN max - k ELSE 0
  BY StoreBytes
<1>4. Before(s, t) <=>
        \/ m < k /\ \A i \in 1 .. m : s[i] = t[i]
        \/ \E i \in 1 .. m : i <= k /\ s[i] < t[i] /\ \A j \in 1 .. i - 1 : s[j] = t[j]
  <2>1. \A i : i \in DOMAIN s \cap DOMAIN t <=> i \in 1 .. m /\ i <= k
    BY <1>1
  <2>2. IsStrictPrefix(s, t) <=> m < k /\ \A i \in 1 .. m : s[i] = t[i]
    BY <1>1, StrictPrefix
  <2> QED BY <2>1, <2>2 DEF Before
<1> HIDE DEF v, w, n, m, k
<1>5. \A i \in 0 .. n - 1 : i < m /\ i < k /\ Agree(v, w, i) =>
        \A j \in 1 .. i : s[j] = t[j]
  <2> SUFFICES ASSUME NEW i \in 0 .. n - 1, i < m, i < k, Agree(v, w, i), NEW j \in 1 .. i
               PROVE  s[j] = t[j]
    OBVIOUS
  <2>1. v[j - 1] = w[j - 1]
    BY <1>1 DEF Agree
  <2> QED BY <1>1, <1>3, <2>1
<1>6. ASSUME NEW i \in 0 .. n - 1, v[i] < w[i], Agree(v, w, i)
      PROVE  Before(s, t)
  <2>1. CASE i < m /\ i < k
    <3>1. i + 1 \in 1 .. m /\ i + 1 <= k /\ (i + 1) - 1 = i
      BY <1>1, <2>1
    <3>2. s[i + 1] < t[i + 1]
      BY <1>3, <1>6, <2>1
    <3>3. \A j \in 1 .. i : s[j] = t[j]
      BY <1>5, <1>6, <2>1
    <3> QED BY <1>4, <3>1, <3>2, <3>3
  <2>2. CASE m <= i /\ i < k
    <3>1. \A j \in 1 .. m : s[j] = t[j]
      <4> SUFFICES ASSUME NEW j \in 1 .. m PROVE s[j] = t[j]
        OBVIOUS
      <4>1. v[j - 1] = w[j - 1]
        BY <1>1, <1>6, <2>2 DEF Agree
      <4> QED BY <1>1, <1>3, <2>2, <4>1
    <3> QED BY <1>1, <1>4, <2>2, <3>1
  <2>3. CASE i < m /\ k <= i
    <3>1. i + 1 \in 1 .. m
      BY <1>1, <2>3
    <3>2. w[i] = 0 /\ v[i] = s[i + 1] /\ s[i + 1] \in Nat
      BY <1>1, <1>2, <1>3, <2>3, <3>1
    <3> QED BY <1>6, <3>2
  <2>4. CASE m <= i /\ k <= i
    <3>1. m # k
      <4>1. /\ v[i] = IF i = max THEN max - m ELSE 0
            /\ w[i] = IF i = max THEN max - k ELSE 0
        BY <1>1, <1>3, <2>4
      <4> QED BY <1>1, <1>6, <4>1
    <3>2. CASE m < k
      <4>1. m \in 0 .. n - 1 /\ m \in 0 .. i - 1 /\ m + 1 \in 1 .. k /\ m # max
        BY <1>1, <2>4, <3>2
      <4>2. v[m] = 0 /\ w[m] = t[m + 1]
        BY <1>1, <1>3, <3>2, <4>1
      <4>3. v[m] = w[m]
        BY <1>6, <4>1 DEF Agree
      <4>4. t[m + 1] > 0
        BY <1>2, <4>1
      <4> QED BY <4>2, <4>3, <4>4
    <3>3. CASE k < m
      <4>1. k \in 0 .. n - 1 /\ k \in 0 .. i - 1 /\ k + 1 \in 1 .. m /\ k # max
        BY <1>1, <2>4, <3>3
      <4>2. w[k] = 0 /\ v[k] = s[k + 1]
        BY <1>1, <1>3, <3>3, <4>1
      <4>3. v[k] = w[k]
        BY <1>6, <4>1 DEF Agree
      <4>4. s[k + 1] > 0
        BY <1>2, <4>1
      <4> QED BY <4>2, <4>3, <4>4
    <3>4. m < k \/ k < m
      BY <1>1, <3>1
    <3> QED BY <3>2, <3>3, <3>4
  <2> QED BY <1>1, <2>1, <2>2, <2>3, <2>4
<1>7. ASSUME m < k, \A i \in 1 .. m : s[i] = t[i]
      PROVE  Less(v, w, n)
  <2>1. m \in 0 .. n - 1
    BY <1>1
  <2>2. v[m] < w[m]
    BY <1>1, <1>2, <1>3, <1>7
  <2>3. Agree(v, w, m)
    BY <1>1, <1>3, <1>7 DEF Agree
  <2> QED BY <2>1, <2>2, <2>3 DEF Less
<1>8. ASSUME NEW i \in 1 .. m, i <= k, s[i] < t[i], \A j \in 1 .. i - 1 : s[j] = t[j]
      PROVE  Less(v, w, n)
  <2>1. i - 1 \in 0 .. n - 1
    BY <1>1
  <2>2. v[i - 1] < w[i - 1]
    BY <1>1, <1>3, <1>8
  <2>3. Agree(v, w, i - 1)
    BY <1>1, <1>3, <1>8 DEF Agree
  <2> QED BY <2>1, <2>2, <2>3 DEF Less
<1>9. Less(v, w, n) => Before(s, t)
  BY <1>6 DEF Less
<1>10. Before(s, t) => Less(v, w, n)
  BY <1>4, <1>7, <1>8
<1> QED BY <1>9, <1>10 DEF v, w, n

(* So the comparison tells the strings apart, and orders them as strings    *)
(* where the numbers can.                                                   *)
LEMMA ComparedRight ==
  ASSUME NEW max1 \in MaxLens, NEW max2 \in MaxLens,
         NEW s \in Inputs, NEW t \in Inputs, Fits(s, max1), Fits(t, max2)
  PROVE  LET result == Compared(Store(s, max1), max1, Store(t, max2), max2)
         IN  /\ result = "equal" <=> s = t
             /\ max1 # max2 \/ (NoNulls(s) /\ NoNulls(t) /\ SameSign(s, t))
                  => result = OrderOfStrings(s, t)
<1> DEFINE v == Store(s, max1)
           w == Store(t, max2)
<1>1. /\ v \in Storage(max1) /\ View(v, max1) = s
      /\ w \in Storage(max2) /\ View(w, max2) = t
  BY StoreAndView
<1>2. max1 \in Nat
  BY EStringAssumption
<1>3. CASE max1 >= 16 \/ max2 >= 16 \/ max1 # max2
  <2>1. Compared(v, max1, w, max2) = OrderOfStrings(s, t)
    BY <1>1, <1>3 DEF Compared
  <2> QED BY <2>1 DEF OrderOfStrings, ThreeWay
<1>4. CASE ~(max1 >= 16 \/ max2 >= 16 \/ max1 # max2)
  <2> DEFINE x == Repr(v, max1)
             y == Repr(w, max2)
             n == StorageSize(max1)
  <2>1. max1 < 16 /\ max1 = max2
    BY <1>2, <1>4
  <2>2. Compared(v, max1, w, max2) = ThreeWay(x < y, x = y)
    BY <1>4 DEF Compared
  <2>3. Compares(x, y, v, w, n)
    BY <1>1, <1>2, <2>1, ReprCompares
  <2>4. x = y <=> s = t
    BY <2>1, <2>3, StoreSame DEF Compares
  <2>5. ASSUME NoNulls(s), NoNulls(t), SameSign(s, t)
        PROVE  x < y <=> Before(s, t)
    <3>1. v[0] = s[1] /\ w[0] = t[1]
      <4>1. Len(s) > 0 /\ Len(t) > 0
        BY <2>5, StoreBytes DEF SameSign
      <4> QED BY <2>1, <4>1, StoreBytes
    <3>2. SignsAgree(v, w)
      BY <2>5, <3>1, Zenon DEF SameSign, SignsAgree
    <3> QED BY <2>1, <2>3, <2>5, <3>2, StoreOrder DEF Compares
  <2> HIDE DEF x, y, v, w
  <2>6. ThreeWay(x < y, x = y) = "equal" <=> s = t
    BY <2>4 DEF ThreeWay
  <2>7. NoNulls(s) /\ NoNulls(t) /\ SameSign(s, t)
          => ThreeWay(x < y, x = y) = OrderOfStrings(s, t)
    BY <2>4, <2>5 DEF ThreeWay, OrderOfStrings
  <2> QED BY <2>1, <2>2, <2>6, <2>7 DEF v, w
<1> QED BY <1>3, <1>4

-----------------------------------------------------------------------------
(* Each side holds what was stored for its source.                          *)
Sides ==
  /\ pc = "left" => source = <<>>
  /\ pc = "right" =>
       /\ Len(source) = 1
       /\ source[1] \in Inputs /\ Fits(source[1], left)
       /\ lhs = Store(source[1], left)
  /\ pc \in {"compare", "done"} =>
       /\ Len(source) = 2
       /\ source[1] \in Inputs /\ Fits(source[1], left)
       /\ source[2] \in Inputs /\ Fits(source[2], right)
       /\ lhs = Store(source[1], left)
       /\ rhs = Store(source[2], right)

(* The result is that of the two arrays, which do not change any more.      *)
Result == pc = "done" => order = Compared(lhs, left, rhs, right)

(* Between types of different MAX_LEN the order is that of the strings.     *)
Ordered ==
  pc = "done" /\ left # right => order = OrderOfStrings(source[1], source[2])

IInv == TypeOK /\ Sides /\ Result

(* The inductive invariant holds initially.                                 *)
LEMMA InitIInv == Init => IInv
BY DEF Init, IInv, TypeOK, Sides, Result

(* Every step, and every stutter, preserves the inductive invariant.        *)
LEMMA NextIInv == IInv /\ [Next]_vars => IInv'
<1> SUFFICES ASSUME IInv, [Next]_vars PROVE IInv'
  OBVIOUS
<1> USE DEF IInv, TypeOK, Sides, Result
<1>1. ASSUME NEW s \in Inputs, ConstructLeft(s) PROVE IInv'
  <2>1. Store(s, left) \in Storage(left)
    BY <1>1, StoreAndView DEF ConstructLeft
  <2> QED BY <1>1, <2>1 DEF ConstructLeft
<1>2. ASSUME NEW s \in Inputs, ConstructRight(s) PROVE IInv'
  <2>1. Store(s, right) \in Storage(right)
    BY <1>2, StoreAndView DEF ConstructRight
  <2>2. /\ source' = Append(source, s) /\ Len(source) = 1 /\ source \in Seq(Inputs)
        /\ pc = "right" /\ pc' = "compare" /\ rhs' = Store(s, right)
        /\ Fits(s, right) /\ UNCHANGED <<left, right, lhs, order>>
    BY <1>2 DEF ConstructRight
  <2>3. /\ source' \in Seq(Inputs) /\ Len(source') = 2
        /\ source'[1] = source[1] /\ source'[2] = s
    BY <2>2
  <2> QED BY <2>1, <2>2, <2>3
<1>3. ASSUME NEW s \in Inputs, ConstructThrows(s) PROVE IInv'
  BY <1>3 DEF ConstructThrows
<1>4. CASE Compare
  <2>1. order' \in {"less", "equal", "greater"}
    BY <1>4 DEF Compare, Compared, OrderOfStrings, ThreeWay
  <2> QED BY <1>4, <2>1 DEF Compare
<1>5. CASE UNCHANGED vars
  BY <1>5 DEF vars
<1> QED BY <1>1, <1>2, <1>3, <1>4, <1>5 DEF Next

(* The inductive invariant holds in every reachable state.                  *)
LEMMA Inductive == Spec => []IInv
BY InitIInv, NextIInv, PTL DEF Spec

(* Constructed strings are arrays of bytes, of the size of their type.      *)
THEOREM TypeCorrect == Spec => []TypeOK
<1>1. IInv => TypeOK BY DEF IInv
<1> QED BY <1>1, Inductive, PTL

(* length() and string_view give back the string, whatever it contains.     *)
THEOREM ViewFaithful == Spec => []ViewIsSource
<1>1. IInv => ViewIsSource
  <2> SUFFICES ASSUME IInv PROVE ViewIsSource
    OBVIOUS
  <2>1. pc \in {"right", "compare", "done"} => View(lhs, left) = source[1]
    BY StoreAndView DEF IInv, TypeOK, Sides
  <2>2. pc \in {"compare", "done"} => View(rhs, right) = source[2]
    BY StoreAndView DEF IInv, TypeOK, Sides
  <2> QED BY <2>1, <2>2 DEF ViewIsSource
<1> QED BY <1>1, Inductive, PTL

(* Two estring_t compare equal exactly when they hold the same string, and  *)
(* compare in the order of strings wherever the numbers repr() makes of     *)
(* them can: without nulls in them, and with first bytes of one sign.       *)
THEOREM ComparesRight == Spec => []ComparesLikeStrings
<1>1. IInv => ComparesLikeStrings
  <2> SUFFICES ASSUME IInv, pc = "done" PROVE ComparesLikeStrings
    BY DEF ComparesLikeStrings, EqualIffSame, OrderAgrees
  <2>1. /\ left \in MaxLens /\ right \in MaxLens
        /\ source[1] \in Inputs /\ Fits(source[1], left)
        /\ source[2] \in Inputs /\ Fits(source[2], right)
        /\ order = Compared(Store(source[1], left), left, Store(source[2], right), right)
    BY DEF IInv, TypeOK, Sides, Result
  <2>2. /\ order = "equal" <=> source[1] = source[2]
        /\ left # right \/ (NoNulls(source[1]) /\ NoNulls(source[2]) /\ SameSign(source[1], source[2]))
             => order = OrderOfStrings(source[1], source[2])
    BY <2>1, ComparedRight
  <2> QED BY <2>2 DEF ComparesLikeStrings, EqualIffSame, OrderAgrees
<1> QED BY <1>1, Inductive, PTL

(* Between types of different MAX_LEN the order is that of the strings,     *)
(* whatever is in them.                                                     *)
THEOREM OrderAcrossTypes == Spec => []Ordered
<1>1. ComparesLikeStrings => Ordered
  BY DEF ComparesLikeStrings, OrderAgrees, Ordered
<1> QED BY <1>1, ComparesRight, PTL
=============================================================================
