-------------------------------- MODULE JoinCode --------------------------------
(***************************************************************************)
(* generateJoinCode (packages/shared/src/room.ts): rejection sampling of   *)
(* join codes from a pool of random bytes.  A byte of the pool is random   *)
(* until it is read: reading one is a choice of its value.  One step is    *)
(* one turn of the do loop.                                                *)
(***************************************************************************)
EXTENDS Integers, Sequences, FiniteSets

CONSTANTS
  ByteValues,    \* values of a byte: 256
  AlphabetLens,  \* lengths of ALPHABET to check: the code has one, and two in its comments
  CodeLengths,   \* values of the parameter length
  MinPool,       \* least size of the pool: 64
  MaxFills       \* bound: getRandomValues calls of one code

ASSUME CodeAssumption ==
  /\ {ByteValues, MinPool, MaxFills} \subseteq Nat \ {0}
  /\ CodeLengths \subseteq Nat \ {0}
  /\ AlphabetLens \subseteq 1..ByteValues

VARIABLES
  alphabetLen, codeLength,
  poolIndex,
  fills,   \* getRandomValues calls so far
  chars    \* each with the fill and the place in the pool of the byte behind it

codeVars == <<alphabetLen, codeLength, poolIndex, fills, chars>>

Undefined == -1

PoolSize == IF codeLength * 4 > MinPool THEN codeLength * 4 ELSE MinPool

\* Mutant: one byte too few is rejected.
MaxSafeByteOff(len) == ByteValues - (ByteValues % len) + 1

MaxSafeByte(len) == ByteValues - (ByteValues % len)

CodeInit ==
  /\ alphabetLen \in AlphabetLens
  /\ codeLength \in CodeLengths
  /\ poolIndex = PoolSize
  /\ fills = 0
  /\ chars = <<>>

\* Mutant: the pool is used one byte past its end.
PoolEmptyLate(index) == index > PoolSize

PoolEmpty(index) == index >= PoolSize

\* ALPHABET[byte % ALPHABET_LEN]; past the end of the pool there is no byte.
CharAt(byte) == IF byte = Undefined THEN Undefined ELSE byte % alphabetLen

\* A byte past the end is undefined: it compares as no number and is not rejected.
Rejected(byte) == byte >= MaxSafeByte(alphabetLen)

DrawByte ==
  LET refill == PoolEmpty(poolIndex)
      at == IF refill THEN 0 ELSE poolIndex
  IN /\ Len(chars) < codeLength
     /\ refill => fills < MaxFills
     /\ fills' = IF refill THEN fills + 1 ELSE fills
     /\ poolIndex' = at + 1
     /\ \E byte \in IF at < PoolSize THEN 0..(ByteValues - 1) ELSE {Undefined} :
          chars' = IF Rejected(byte) THEN chars
                   ELSE Append(chars, [char |-> CharAt(byte), from |-> <<fills', at>>])
     /\ UNCHANGED <<alphabetLen, codeLength>>

-----------------------------------------------------------------------------
\* Every character of the alphabet comes from equally many of the bytes that are not
\* rejected, and at least one byte is not: no modulo bias (MAX_SAFE_BYTE).
Unbiased ==
  LET From(c) == {b \in 0..(ByteValues - 1) : ~Rejected(b) /\ CharAt(b) = c}
  IN \A c, d \in 0..(alphabetLen - 1) :
       Cardinality(From(c)) = Cardinality(From(d)) /\ From(c) # {}

\* Every character is one of the alphabet, and no two come from the same random byte,
\* however often bytes are rejected and the pool is refilled (generateJoinCode).
CharsIndependent ==
  /\ \A i \in DOMAIN chars : chars[i].char \in 0..(alphabetLen - 1)
  /\ \A i, j \in DOMAIN chars : i # j => chars[i].from # chars[j].from
=============================================================================
