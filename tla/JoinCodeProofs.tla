----------------------------- MODULE JoinCodeProofs -----------------------------
(***************************************************************************)
(* For bytes, pools, alphabets and codes of any size and any number of     *)
(* refills, the characters of a join code are equally likely and come from *)
(* different random bytes.                                                 *)
(***************************************************************************)
EXTENDS JoinCode, FiniteSetTheorems, SequenceTheorems, TLAPS

\* generateJoinCode by itself.
CodeSpec == CodeInit /\ [][DrawByte]_codeVars

Places == Nat \X Nat

CodeTypes ==
  /\ alphabetLen \in AlphabetLens
  /\ codeLength \in CodeLengths
  /\ fills \in Nat
  /\ poolIndex \in 0..PoolSize
  /\ chars \in Seq([char : 0..(alphabetLen - 1), from : Places])

\* Every byte behind a character has been read, from this fill of the pool or an earlier one.
BytesRead ==
  \A i \in DOMAIN chars :
    \/ chars[i].from[1] < fills
    \/ chars[i].from[1] = fills /\ chars[i].from[2] < poolIndex

CodeInv == CodeTypes /\ BytesRead /\ CharsIndependent

LEMMA Sizes ==
  ASSUME CodeTypes
  PROVE  /\ PoolSize \in Nat \ {0} /\ alphabetLen \in 1..ByteValues
         /\ ByteValues \in Nat \ {0}
BY CodeAssumption DEF CodeTypes, PoolSize

\* A sequence and what is appended to it, by their indices.
LEMMA Appended ==
  ASSUME NEW S, NEW seq \in Seq(S), NEW e \in S
  PROVE  /\ Append(seq, e) \in Seq(S) /\ DOMAIN Append(seq, e) = 1..(Len(seq) + 1)
         /\ Append(seq, e)[Len(seq) + 1] = e
         /\ Len(seq) \in Nat /\ DOMAIN seq = 1..Len(seq)
         /\ \A i \in 1..Len(seq) : seq[i] \in S /\ Append(seq, e)[i] = seq[i]
BY AppendProperties, ElementOfSeq, LenProperties

LEMMA InitCode == CodeInit => CodeInv
<1> SUFFICES ASSUME CodeInit PROVE CodeInv
  OBVIOUS
<1>1. PoolSize \in Nat
  BY CodeAssumption DEF CodeInit, PoolSize
<1> QED
  BY <1>1 DEF CodeInit, CodeInv, CodeTypes, BytesRead, CharsIndependent

(***************************************************************************)
(* A turn of the loop reads the byte after the last one, inside the pool,  *)
(* and a byte of the pool is a number: what is not rejected has a          *)
(* character.                                                              *)
(***************************************************************************)
LEMMA NextCode == CodeInv /\ [DrawByte]_codeVars => CodeInv'
<1> SUFFICES ASSUME CodeInv, [DrawByte]_codeVars PROVE CodeInv'
  OBVIOUS
<1>1. CASE UNCHANGED codeVars
  BY <1>1 DEF codeVars, CodeInv, CodeTypes, BytesRead, CharsIndependent, PoolSize
<1>2. CASE DrawByte
  <2> DEFINE at == IF PoolEmpty(poolIndex) THEN 0 ELSE poolIndex
  <2>1. /\ PoolSize \in Nat \ {0} /\ poolIndex \in 0..PoolSize /\ fills \in Nat
        /\ alphabetLen \in Nat \ {0} /\ ByteValues \in Nat
    BY Sizes DEF CodeInv, CodeTypes
  <2>2. at \in 0..(PoolSize - 1)
    BY <2>1 DEF PoolEmpty
  <2>3. /\ fills' \in Nat /\ poolIndex' = at + 1
        /\ fills' = IF PoolEmpty(poolIndex) THEN fills + 1 ELSE fills
        /\ UNCHANGED <<alphabetLen, codeLength>>
    BY <1>2, <2>1 DEF DrawByte
  <2>4. PICK byte \in 0..(ByteValues - 1) :
          chars' = IF Rejected(byte) THEN chars
                   ELSE Append(chars, [char |-> CharAt(byte), from |-> <<fills', at>>])
    <3>1. \E byte \in IF at < PoolSize THEN 0..(ByteValues - 1) ELSE {Undefined} :
            chars' = IF Rejected(byte) THEN chars
                     ELSE Append(chars, [char |-> CharAt(byte), from |-> <<fills', at>>])
      BY <1>2 DEF DrawByte
    <3>2. at < PoolSize
      BY <2>1, <2>2
    <3> QED
      BY <3>1, <3>2
  <2> DEFINE new == [char |-> CharAt(byte), from |-> <<fills', at>>]
             n == Len(chars)
             Chars == [char : 0..(alphabetLen - 1), from : Places]
  <2>5. CharAt(byte) \in 0..(alphabetLen - 1)
    <3>1. byte # Undefined
      BY <2>1 DEF Undefined
    <3>2. byte % alphabetLen \in 0..(alphabetLen - 1)
      BY <2>1
    <3> QED
      BY <3>1, <3>2 DEF CharAt
  <2>6. new \in Chars /\ new.from[1] = fills' /\ new.from[2] = at
    BY <2>1, <2>2, <2>3, <2>5 DEF Places
  <2>7. chars \in Seq(Chars)
    BY DEF CodeInv, CodeTypes
  <2>8. chars' = chars \/ chars' = Append(chars, new)
    BY <2>4
  <2> HIDE DEF new, at, Chars
  <2>9. /\ Append(chars, new) \in Seq(Chars) /\ DOMAIN Append(chars, new) = 1..(n + 1)
        /\ Append(chars, new)[n + 1] = new
        /\ n \in Nat /\ DOMAIN chars = 1..n
        /\ \A i \in 1..n : chars[i] \in Chars /\ Append(chars, new)[i] = chars[i]
    BY <2>6, <2>7, Appended
  <2> HIDE DEF n
  <2>10. \A c \in Chars : c.from \in Places /\ c.from[1] \in Nat /\ c.from[2] \in Nat
    BY DEF Chars, Places
  <2>11. ASSUME NEW i \in 1..n
         PROVE  \/ chars[i].from[1] < fills'
                \/ chars[i].from[1] = fills' /\ chars[i].from[2] < at
    <3> DEFINE f == chars[i].from[1]
               a == chars[i].from[2]
    <3>1. f < fills \/ (f = fills /\ a < poolIndex)
      BY <2>9 DEF CodeInv, BytesRead
    <3>2. f \in Nat /\ a \in Nat
      BY <2>9, <2>10
    <3> HIDE DEF f, a
    <3>3. f < fills' \/ (f = fills' /\ a < at)
      BY <2>1, <2>3, <3>1, <3>2 DEF at, PoolEmpty
    <3> QED
      BY <3>3 DEF f, a
  <2>12. \A i \in 1..n : chars[i].from # new.from
    BY <2>2, <2>3, <2>6, <2>9, <2>10, <2>11
  <2>13. CodeTypes'
    <3>1. chars' \in Seq(Chars)
      BY <2>7, <2>8, <2>9
    <3>2. poolIndex' \in 0..PoolSize /\ PoolSize' = PoolSize
      BY <2>1, <2>2, <2>3 DEF PoolSize
    <3> QED
      BY <2>3, <3>1, <3>2 DEF CodeInv, CodeTypes, Chars
  <2>14. BytesRead'
    <3> SUFFICES ASSUME NEW i \in DOMAIN chars'
                 PROVE  \/ chars'[i].from[1] < fills'
                        \/ chars'[i].from[1] = fills' /\ chars'[i].from[2] < poolIndex'
      BY DEF BytesRead
    <3>1. CASE i \in 1..n
      <4>1. chars'[i] = chars[i]
        BY <2>8, <2>9, <3>1
      <4>2. chars[i].from[2] \in Nat
        BY <2>9, <2>10, <3>1
      <4>3. \/ chars[i].from[1] < fills'
            \/ chars[i].from[1] = fills' /\ chars[i].from[2] < at
        BY <2>11, <3>1
      <4> QED
        BY <2>2, <2>3, <4>1, <4>2, <4>3
    <3>2. CASE i \notin 1..n
      <4>1. chars'[i] = new
        BY <2>8, <2>9, <3>2
      <4> QED
        BY <2>2, <2>3, <2>6, <4>1
    <3> QED
      BY <3>1, <3>2
  <2>15. CharsIndependent'
    <3>1. \A i, j \in 1..n : i # j => chars[i].from # chars[j].from
      BY <2>9 DEF CodeInv, CharsIndependent
    <3>2. \A c \in Chars : c.char \in 0..(alphabetLen - 1)
      BY DEF Chars
    <3>3. CASE chars' = chars
      BY <2>3, <2>9, <3>1, <3>2, <3>3 DEF CharsIndependent
    <3>4. CASE chars' = Append(chars, new)
      <4>1. \A i \in 1..(n + 1) : chars'[i] \in Chars
        BY <2>6, <2>9, <3>4
      <4>2. \A i, j \in 1..(n + 1) : i # j => chars'[i].from # chars'[j].from
        BY <2>9, <2>12, <3>1, <3>4
      <4> QED
        BY <2>3, <2>9, <3>2, <3>4, <4>1, <4>2 DEF CharsIndependent
    <3> QED
      BY <2>8, <3>3, <3>4
  <2> QED
    BY <2>13, <2>14, <2>15 DEF CodeInv
<1> QED
  BY <1>1, <1>2

(***************************************************************************)
(* No two characters of a code come from one random byte, and each is in   *)
(* the alphabet, for every pool size and however many bytes are rejected   *)
(* (generateJoinCode).                                                     *)
(***************************************************************************)
THEOREM CharsStayIndependent == CodeSpec => []CharsIndependent
BY InitCode, NextCode, PTL DEF CodeSpec, CodeInv

-----------------------------------------------------------------------------
(* Bias.                                                                   *)

\* A number is its quotient and its remainder, and they are unique.
LEMMA Division ==
  ASSUME NEW n \in Nat \ {0}, NEW b \in Nat
  PROVE  b = n * (b \div n) + (b % n) /\ b \div n \in Nat /\ b % n \in 0..(n - 1)
OBVIOUS

LEMMA Remainder ==
  ASSUME NEW n \in Nat \ {0}, NEW k \in Nat, NEW r \in 0..(n - 1)
  PROVE  (n * k + r) % n = r
OBVIOUS

LEMMA Multiples ==
  ASSUME NEW n \in Nat \ {0}, NEW k \in Int, NEW m \in Int, k < m
  PROVE  n * k + n <= n * m
<1>1. m - k \in Nat \ {0}
  OBVIOUS
<1>2. \A d \in Nat \ {0} : n * d >= n
  OBVIOUS
<1>3. n * (m - k) = n * m - n * k
  OBVIOUS
<1> QED
  BY <1>1, <1>2, <1>3

\* The bytes that give character c.
Behind(c) == {b \in 0..(ByteValues - 1) : ~Rejected(b) /\ CharAt(b) = c}

LEMMA BytesBehind ==
  ASSUME alphabetLen \in 1..ByteValues, ByteValues \in Nat \ {0},
         NEW c \in 0..(alphabetLen - 1), NEW b
  PROVE  b \in Behind(c) <=>
           \E k \in 0..((ByteValues \div alphabetLen) - 1) : b = alphabetLen * k + c
<1> DEFINE n == alphabetLen
           q == ByteValues \div n
<1>1. /\ n \in Nat \ {0} /\ q \in Nat /\ ByteValues - (ByteValues % n) = n * q
      /\ n * q <= ByteValues /\ n * q \in Nat
  <2>1. n \in Nat \ {0}
    OBVIOUS
  <2>2. /\ ByteValues = n * q + (ByteValues % n) /\ q \in Nat
        /\ ByteValues % n \in 0..(n - 1)
    BY <2>1, Division
  <2> HIDE DEF n, q
  <2>3. n * q \in Nat
    BY <2>1, <2>2
  <2> QED
    BY <2>1, <2>2, <2>3
<1>2. ASSUME NEW x \in Nat PROVE (~Rejected(x) /\ CharAt(x) = c) <=> (x < n * q /\ x % n = c)
  BY <1>1 DEF Rejected, MaxSafeByte, CharAt, Undefined
<1>3. ASSUME b \in Behind(c) PROVE \E k \in 0..(q - 1) : b = n * k + c
  <2> DEFINE k == b \div n
  <2>1. b \in Nat /\ b < n * q /\ b % n = c
    BY <1>1, <1>2, <1>3 DEF Behind
  <2>2. b = n * k + c /\ k \in Nat
    BY <1>1, <2>1, Division
  <2>3. n * k \in Nat /\ n * k < n * q
    BY <1>1, <2>1, <2>2
  <2> HIDE DEF k
  <2>4. ~(q <= k)
    <3>1. CASE q = k
      BY <2>3, <3>1
    <3>2. CASE q < k
      BY <1>1, <2>2, <2>3, <3>2, Multiples
    <3> QED
      BY <3>1, <3>2, <1>1, <2>2
  <2> QED
    BY <1>1, <2>2, <2>4
<1>4. ASSUME NEW k \in 0..(q - 1), b = n * k + c PROVE b \in Behind(c)
  <2>1. n * k + n <= n * q /\ n * k \in Nat
    BY <1>1, Multiples
  <2>2. b \in Nat /\ b < n * q
    BY <1>1, <1>4, <2>1
  <2>3. b % n = c
    BY <1>1, <1>4, Remainder
  <2> QED
    BY <1>1, <1>2, <2>2, <2>3 DEF Behind
<1> QED
  BY <1>3, <1>4

\* As many bytes give one character as another: there is a bijection.
LEMMA EquallyMany ==
  ASSUME alphabetLen \in 1..ByteValues, ByteValues \in Nat \ {0},
         NEW c \in 0..(alphabetLen - 1), NEW d \in 0..(alphabetLen - 1)
  PROVE  Cardinality(Behind(c)) = Cardinality(Behind(d)) /\ Behind(c) # {}
<1> DEFINE n == alphabetLen
           q == ByteValues \div n
           f == [b \in Behind(c) |-> b - c + d]
<1>1. n \in Nat \ {0} /\ q \in Nat \ {0}
  <2>1. n \in Nat \ {0} /\ ByteValues \div n \in Nat
    BY Division
  <2>2. ByteValues \div n # 0
    BY <2>1, Division
  <2> QED
    BY <2>1, <2>2
<1>2. \A k \in 0..(q - 1) : n * k \in Nat
  BY <1>1
<1>3. \A b : b \in Behind(c) <=> \E k \in 0..(q - 1) : b = n * k + c
  BY BytesBehind
<1>4. \A b : b \in Behind(d) <=> \E k \in 0..(q - 1) : b = n * k + d
  BY BytesBehind
<1>5. \A b \in Behind(c) : b \in Int
  BY DEF Behind
<1> HIDE DEF q, n
<1>6. \A b \in Behind(c) : f[b] \in Behind(d)
  BY <1>2, <1>3, <1>4
<1>7. \A b \in Behind(d) : \E a \in Behind(c) : f[a] = b
  <2> SUFFICES ASSUME NEW b \in Behind(d) PROVE \E a \in Behind(c) : f[a] = b
    OBVIOUS
  <2>1. PICK k \in 0..(q - 1) : b = n * k + d
    BY <1>4
  <2>2. n * k + c \in Behind(c)
    BY <1>3
  <2>3. f[n * k + c] = b
    BY <1>2, <2>1, <2>2
  <2> QED
    BY <2>2, <2>3
<1>8. \A a, b \in Behind(c) : f[a] = f[b] => a = b
  BY <1>5
<1>9. ExistsBijection(Behind(c), Behind(d))
  <2>1. f \in [Behind(c) -> Behind(d)]
    BY <1>6
  <2> QED
    BY <2>1, <1>7, <1>8 DEF ExistsBijection, Bijection, Injection, Surjection, IsInjective
<1>10. IsFiniteSet(Behind(c))
  <2>1. IsFiniteSet(0..(ByteValues - 1))
    BY FS_Interval
  <2> QED
    BY <2>1, FS_Subset DEF Behind
<1>11. n * 0 + c \in Behind(c)
  <2>1. 0 \in 0..(q - 1)
    BY <1>1
  <2> QED
    BY <2>1, <1>3
<1> QED
  BY <1>9, <1>10, <1>11, FS_Bijection

(***************************************************************************)
(* No modulo bias, for every length of the alphabet up to the number of    *)
(* byte values: MAX_SAFE_BYTE leaves each character the same number of     *)
(* bytes, and at least one.                                                *)
(***************************************************************************)
THEOREM CodesUnbiased == CodeSpec => []Unbiased
<1>1. CodeInv => Unbiased
  <2> SUFFICES ASSUME CodeInv PROVE Unbiased
    OBVIOUS
  <2>1. alphabetLen \in 1..ByteValues /\ ByteValues \in Nat \ {0}
    BY Sizes DEF CodeInv
  <2> QED
    BY <2>1, EquallyMany DEF Unbiased, Behind
<1> QED
  BY <1>1, InitCode, NextCode, PTL DEF CodeSpec
=============================================================================
