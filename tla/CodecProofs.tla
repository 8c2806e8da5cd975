---------------------------- MODULE CodecProofs -----------------------------
(***************************************************************************)
(* Theorems about the conversions: chain ids to bytes and back             *)
(* (ChainInfo), scripts of Bitcoin outputs to vault transactions           *)
(* (VaultParser).                                                          *)
(***************************************************************************)
EXTENDS NumberProofs, VaultParser, SequenceTheorems

-----------------------------------------------------------------------------
(* BigEndian: the function it is defined by exists, and so meets its       *)
(* equation.                                                               *)
Sums(bytes, n, f) ==
    f = [k \in 0..n |-> IF k = 0 THEN 0 ELSE f[k - 1] * ByteBase + bytes[k]]

LEMMA SumsExist ==
    ASSUME NEW bytes
    PROVE  \A n \in Nat : \E f : Sums(bytes, n, f)
<1> DEFINE S == {n \in Nat : \E f : Sums(bytes, n, f)}
<1>1. 0 \in S
  <2>1. Sums(bytes, 0, [k \in 0..0 |-> 0])
    BY DEF Sums
  <2> QED  BY <2>1
<1>2. ASSUME NEW n \in S PROVE n + 1 \in S
  <2>1. PICK f : Sums(bytes, n, f)
    OBVIOUS
  <2> DEFINE next == f[n] * ByteBase + bytes[n + 1]
             g == [k \in 0..(n + 1) |-> IF k = n + 1 THEN next ELSE f[k]]
  <2> HIDE DEF next
  <2>2. n \in Nat
    OBVIOUS
  <2>3. \A k \in 0..n : k \in 0..(n + 1) /\ k # n + 1
    BY <2>2
  <2>4. \A k \in 0..n : g[k] = f[k]
    BY <2>3
  <2>5. \A k \in 0..n : f[k] = IF k = 0 THEN 0 ELSE f[k - 1] * ByteBase + bytes[k]
    BY <2>1 DEF Sums
  <2>6. ASSUME NEW k \in 0..(n + 1)
        PROVE  g[k] = IF k = 0 THEN 0 ELSE g[k - 1] * ByteBase + bytes[k]
    <3>1. CASE k = n + 1
      <4>1. n \in 0..n /\ k - 1 = n /\ k # 0
        BY <2>2, <3>1
      <4>2. g[k - 1] = f[n]
        BY <4>1, <2>4
      <4>3. g[k] = next
        BY <3>1
      <4> HIDE DEF g
      <4> QED  BY <4>1, <4>2, <4>3, <3>1 DEF next
    <3>2. CASE k # n + 1
      <4>1. k \in 0..n
        BY <2>2, <3>2
      <4>2. k # 0 => k - 1 \in 0..n
        BY <2>2, <4>1
      <4>3. g[k] = f[k] /\ (k # 0 => g[k - 1] = f[k - 1])
        BY <4>1, <4>2, <2>4
      <4> HIDE DEF g
      <4> QED  BY <4>1, <4>3, <2>5
    <3> QED  BY <3>1, <3>2
  <2>7. g = [k \in 0..(n + 1) |-> g[k]]
    OBVIOUS
  <2>8. Sums(bytes, n + 1, g)
    <3> HIDE DEF g
    <3> QED  BY <2>6, <2>7 DEF Sums
  <2>9. n + 1 \in Nat
    BY <2>2
  <2> HIDE DEF g
  <2> QED  BY <2>8, <2>9
<1>3. S \in SUBSET Nat
  OBVIOUS
<1> HIDE DEF S
<1>4. S = Nat
  BY <1>1, <1>2, <1>3, SetInduction
<1> QED  BY <1>4 DEF S

LEMMA BigEndianUnfolds ==
    ASSUME NEW bytes, Len(bytes) \in Nat
    PROVE  \E f : Sums(bytes, Len(bytes), f) /\ BigEndian(bytes) = f[Len(bytes)]
<1> DEFINE c == CHOOSE f : Sums(bytes, Len(bytes), f)
<1>1. Sums(bytes, Len(bytes), c)
  BY SumsExist
<1>2. BigEndian(bytes) = c[Len(bytes)]
  BY DEF BigEndian, Sums
<1> QED  BY <1>1, <1>2

-----------------------------------------------------------------------------
(* The constants of ChainInfo.                                             *)
LEMMA Sizes ==
    /\ ByteBase \in Nat \ {0, 1} /\ ChainInfoBytesSize \in Nat \ {0}
    /\ \A k \in 0..ChainInfoBytesSize :
        ByteBase ^ k \in Nat \ {0} /\ ByteBase ^ (k + 1) = ByteBase * ByteBase ^ k
    /\ ByteBase ^ 0 = 1
  BY ChainInfoAssumption, PowersOfByteBase

(* Reading bytes that hold all but the first byte of an id: after byte k   *)
(* the sum is what the first k bytes of the id stand for, without the very *)
(* first of them.                                                          *)
LEMMA SumsOfId ==
    ASSUME NEW id \in Nat, NEW bytes, NEW f, Sums(bytes, ChainInfoBytesSize, f),
           bytes[1] = 0,
           \A k \in 2..ChainInfoBytesSize :
               bytes[k] = (id \div ByteBase ^ (ChainInfoBytesSize - k)) % ByteBase
    PROVE  f[ChainInfoBytesSize] = id % ByteBase ^ (ChainInfoBytesSize - 1)
<1> DEFINE N == ChainInfoBytesSize
           B == ByteBase
           Read(k) == f[k] = (id \div B ^ (N - k)) % B ^ (k - 1)
           S == {k \in Nat : k < N => Read(k + 1)}
<1>0. /\ B \in Nat \ {0} /\ N \in Nat \ {0} /\ B ^ 0 = 1
      /\ \A k \in 0..N : B ^ k \in Nat \ {0} /\ B ^ (k + 1) = B * B ^ k
  BY Sizes
<1>a. \A k \in 0..N : f[k] = IF k = 0 THEN 0 ELSE f[k - 1] * B + bytes[k]
  BY DEF Sums
<1> HIDE DEF N, B
<1>1. 0 \in S
  <2>1. f[0] = 0 /\ f[1] = f[0] * B + bytes[1]
    <3>1. 0 \in 0..N /\ 1 \in 0..N /\ 1 - 1 = 0
      BY <1>0
    <3> QED  BY <3>1, <1>a
  <2>2. f[1] = 0
    <3>1. 0 * B + 0 = 0
      BY <1>0
    <3> QED  BY <2>1, <3>1
  <2>3. (id \div B ^ (N - 1)) % B ^ 0 = 0
    <3>1. N - 1 \in 0..N
      BY <1>0
    <3>2. id \div B ^ (N - 1) \in Nat
      BY <3>1, <1>0, Division
    <3>3. \A x \in Nat : x % 1 = 0
      OBVIOUS
    <3> QED  BY <3>2, <3>3, <1>0
  <2>4. Read(0 + 1)
    BY <2>2, <2>3
  <2> QED  BY <2>4
<1>2. ASSUME NEW m \in S PROVE m + 1 \in S
  <2> SUFFICES ASSUME m + 1 < N PROVE Read((m + 1) + 1)
    OBVIOUS
  <2> DEFINE k == m + 1
             low == B ^ (N - (k + 1))
             y == id \div low
  <2>1. /\ m \in Nat /\ k \in 1..(N - 1) /\ k - 1 = m /\ k \in 0..N
        /\ m \in 0..N /\ k + 1 \in 2..N /\ k + 1 \in 0..N /\ (k + 1) - 1 = k
        /\ N - (k + 1) \in 0..N /\ (N - (k + 1)) + 1 = N - k
    BY <1>0
  <2>2. Read(k)
    BY <2>1, <1>0
  <2> HIDE DEF k
  <2>3. low \in Nat \ {0} /\ B ^ (N - k) = B * low
    BY <2>1, <1>0
  <2>4. B ^ m \in Nat \ {0} /\ B ^ k = B * B ^ m
    BY <2>1, <1>0 DEF k
  <2>5. y \in Nat
    BY <2>3, Division
  <2>6. bytes[k + 1] = y % B
    BY <2>1 DEF N, B
  <2> HIDE DEF low
  <2>7. f[k] = (id \div B ^ (N - k)) % B ^ m
    BY <2>1, <2>2
  <2>8. ((id \div B ^ (N - k)) % B ^ m) * B + (y % B) = y % B ^ k
    <3> DEFINE high == B ^ (N - k)
               p == B ^ m
               wide == B ^ k
    <3>1. IsProduct(high, B, low) /\ IsProduct(wide, B, p)
      BY <2>3, <2>4 DEF IsProduct
    <3>2. high \in Nat \ {0} /\ wide \in Nat \ {0} /\ p \in Nat \ {0}
      BY <2>1, <1>0
    <3>3. low \in Nat \ {0} /\ B \in Nat \ {0}
      BY <2>3, <1>0
    <3> HIDE DEF high, p, wide
    <3> DEFINE above == id \div high
    <3>4. above \in Nat /\ IsQuotient(above, id, high)
      BY <3>2, Division DEF IsQuotient
    <3>5. y \in Nat /\ IsQuotient(y, id, low)
      BY <3>3, Division DEF IsQuotient
    <3> HIDE DEF above, y
    <3>6. AddsDigit(above, p, B, y, wide)
      BY <3>1, <3>2, <3>3, <3>4, <3>5, NextDigit
    <3> QED  BY <3>6 DEF AddsDigit, above, high, p, wide
  <2>9. f[k + 1] = f[k] * B + bytes[k + 1]
    <3>1. k + 1 # 0
      BY <2>1
    <3> QED  BY <2>1, <3>1, <1>a
  <2>10. f[k + 1] = y % B ^ k
    BY <2>6, <2>7, <2>8, <2>9
  <2>11. Read(k + 1)
    BY <2>1, <2>10 DEF y, low
  <2> QED  BY <2>11 DEF k
<1>3. S \in SUBSET Nat
  OBVIOUS
<1> HIDE DEF S
<1>4. S = Nat
  BY <1>1, <1>2, <1>3, SetInduction
<1>5. N - 1 \in S /\ N - 1 < N /\ (N - 1) + 1 = N /\ N - N = 0
  BY <1>4, <1>0
<1>6. Read(N)
  BY <1>5 DEF S
<1>7. id \div B ^ (N - N) = id
  <2>1. id \div 1 = id
    OBVIOUS
  <2> QED  BY <2>1, <1>5, <1>0
<1> QED  BY <1>6, <1>7 DEF N, B

(* What <<type>> and all but the first byte of an id look like, and what   *)
(* ChainID reads from them.                                                *)
Packed(type, id) == <<type>> \o SubSeq(PutUint64(id), 2, ChainInfoBytesSize)

LEMMA PackedBytes ==
    ASSUME NEW type \in Nat, NEW id \in Nat
    PROVE  /\ Packed(type, id) \in Seq(Nat)
           /\ Len(Packed(type, id)) = ChainInfoBytesSize
           /\ Packed(type, id)[1] = type
           /\ \A k \in 2..ChainInfoBytesSize :
               Packed(type, id)[k] =
                 (id \div ByteBase ^ (ChainInfoBytesSize - k)) % ByteBase
<1> DEFINE N == ChainInfoBytesSize
           put == PutUint64(id)
           rest == SubSeq(put, 2, N)
           digit(k) == (id \div ByteBase ^ (N - k)) % ByteBase
<1>0. N \in Nat \ {0} /\ ByteBase \in Nat \ {0}
  BY Sizes
<1>1. \A k \in 2..N : put[k] = digit(k) /\ digit(k) \in Nat
  <2> SUFFICES ASSUME NEW k \in 2..N PROVE put[k] = digit(k) /\ digit(k) \in Nat
    OBVIOUS
  <2>1. k \in 1..N /\ N - k \in 0..N
    BY <1>0
  <2>2. put[k] = digit(k)
    BY <2>1 DEF PutUint64
  <2>3. ByteBase ^ (N - k) \in Nat \ {0}
    BY <2>1, Sizes
  <2>4. id \div ByteBase ^ (N - k) \in Nat
    BY <2>3, Division
  <2>5. \A x \in Nat : x % ByteBase \in Nat
    BY <1>0, Division
  <2> QED  BY <2>2, <2>4, <2>5
<1> HIDE DEF put, digit, N
<1>2. /\ rest \in Seq(Nat)
      /\ Len(rest) = IF 2 <= N THEN N - 2 + 1 ELSE 0
      /\ \A i \in 1..(N - 2 + 1) : rest[i] = put[2 + i - 1]
  BY <1>0, <1>1, SubSeqProperties
<1> HIDE DEF rest
<1>3. Len(rest) = N - 1
  BY <1>0, <1>2
<1>4. <<type>> \in Seq(Nat) /\ Len(<<type>>) = 1 /\ <<type>>[1] = type
  OBVIOUS
<1>5. /\ <<type>> \o rest \in Seq(Nat)
      /\ Len(<<type>> \o rest) = 1 + Len(rest)
      /\ \A i \in 1..(1 + Len(rest)) :
            (<<type>> \o rest)[i] = IF i <= 1 THEN <<type>>[i] ELSE rest[i - 1]
  BY <1>2, <1>4, ConcatProperties
<1>6. Packed(type, id) = <<type>> \o rest
  BY DEF Packed, rest, put, N
<1>7. Len(<<type>> \o rest) = N /\ 1 \in 1..(1 + Len(rest))
  BY <1>0, <1>3, <1>5
<1>8. (<<type>> \o rest)[1] = type
  BY <1>4, <1>5, <1>7
<1>9. ASSUME NEW k \in 2..N PROVE (<<type>> \o rest)[k] = digit(k)
  <2>1. k \in 1..(1 + Len(rest)) /\ ~(k <= 1) /\ k - 1 \in 1..(N - 2 + 1)
        /\ 2 + (k - 1) - 1 = k
    BY <1>0, <1>3
  <2>2. (<<type>> \o rest)[k] = rest[k - 1]
    BY <2>1, <1>5
  <2>3. rest[k - 1] = put[k]
    BY <2>1, <1>2
  <2> QED  BY <2>2, <2>3, <1>1
<1> QED  BY <1>5, <1>6, <1>7, <1>8, <1>9 DEF N, digit

LEMMA PackedId ==
    ASSUME NEW type \in Nat, NEW id \in Nat
    PROVE  ChainID(Packed(type, id)) = id % ByteBase ^ (ChainInfoBytesSize - 1)
<1> DEFINE N == ChainInfoBytesSize
           bytes == [Packed(type, id) EXCEPT ![1] = 0]
<1>0. N \in Nat \ {0}
  BY Sizes
<1>1. /\ Packed(type, id) \in Seq(Nat) /\ Len(Packed(type, id)) = N
      /\ \A k \in 2..N :
            Packed(type, id)[k] = (id \div ByteBase ^ (N - k)) % ByteBase
  BY PackedBytes
<1>2. /\ bytes \in Seq(Nat) /\ Len(bytes) = N
      /\ \A j \in 1..N : bytes[j] = IF j = 1 THEN 0 ELSE Packed(type, id)[j]
  <2>1. 1 \in 1..Len(Packed(type, id)) /\ 0 \in Nat
    BY <1>0, <1>1
  <2> QED  BY <1>1, <2>1, ExceptSeq
<1>3. ChainID(Packed(type, id)) = BigEndian(bytes)
  BY DEF ChainID
<1> HIDE DEF bytes
<1>4. PICK f : Sums(bytes, N, f) /\ BigEndian(bytes) = f[N]
  BY <1>0, <1>2, BigEndianUnfolds
<1>5. bytes[1] = 0
  BY <1>0, <1>2
<1>6. \A k \in 2..N : bytes[k] = (id \div ByteBase ^ (N - k)) % ByteBase
  <2>1. \A k \in 2..N : k \in 1..N /\ k # 1
    BY <1>0
  <2> QED  BY <2>1, <1>1, <1>2
<1>7. f[N] = id % ByteBase ^ (N - 1)
  BY <1>4, <1>5, <1>6, SumsOfId
<1> QED  BY <1>3, <1>4, <1>7

(* The names of the chain types are distinct and not empty.                *)
LEMMA NamesOfTypes ==
    ASSUME NEW type \in Nat
    PROVE  /\ ValidateChainType(type) <=> type \in 0..3
           /\ ValidateChainType(type) => TypeOfString(TypeString(type)) = {type}
           /\ ~ValidateChainType(type) => TypeOfString(TypeString(type)) = {}
<1>1. /\ Len(ChainTypes) = 4
      /\ ChainTypes[1] = "bitcoin" /\ ChainTypes[2] = "evm"
      /\ ChainTypes[3] = "solana" /\ ChainTypes[4] = "cosmos"
  BY DEF ChainTypes
<1>2. ValidateChainType(type) <=> type \in 0..3
  BY <1>1 DEF ValidateChainType
<1>3. 0..3 = {0, 1, 2, 3}
  OBVIOUS
<1>4. \A s : TypeOfString(s) = {t \in {0, 1, 2, 3} : ChainTypes[t + 1] = s}
  <2>1. Len(ChainTypes) - 1 = 3
    BY <1>1
  <2> QED  BY <2>1, <1>3 DEF TypeOfString
<1>5. /\ 0 + 1 = 1 /\ 1 + 1 = 2 /\ 2 + 1 = 3 /\ 3 + 1 = 4
  OBVIOUS
<1>6. ASSUME ValidateChainType(type) PROVE TypeOfString(TypeString(type)) = {type}
  <2>1. TypeString(type) = ChainTypes[type + 1]
    BY <1>6 DEF TypeString
  <2>2. type \in {0, 1, 2, 3}
    BY <1>2, <1>3, <1>6
  <2>3. \A t \in {0, 1, 2, 3} : ChainTypes[t + 1] = ChainTypes[type + 1] <=> t = type
    BY <1>1, <1>5, <2>2
  <2> QED  BY <1>4, <2>1, <2>2, <2>3
<1>7. ASSUME ~ValidateChainType(type) PROVE TypeOfString(TypeString(type)) = {}
  <2>1. TypeString(type) = ""
    BY <1>7 DEF TypeString
  <2>2. \A t \in {0, 1, 2, 3} : ChainTypes[t + 1] # ""
    BY <1>1, <1>5
  <2> QED  BY <1>4, <2>1, <2>2
<1> QED  BY <1>2, <1>6, <1>7

(* The round trips of one chain.                                           *)
LEMMA RoundTrip ==
    ASSUME NEW info \in ChainInfos
    PROVE  LET kept == [info EXCEPT !.id = @ % ByteBase ^ (ChainInfoBytesSize - 1)]
               want == IF ValidateChainType(info.type) THEN kept ELSE NoChain
           IN  /\ kept \in ChainInfos
               /\ NewChainInfoFromBytes(ToBytes(info)) = want
               /\ Parse(<<TypeString(info.type), info.id>>) = want
               /\ NewChainInfoFromBytes(Tail(ToBytes(info))) = NoChain
<1> DEFINE N == ChainInfoBytesSize
           type == info.type
           id == info.id
           short == id % ByteBase ^ (N - 1)
           kept == [info EXCEPT !.id = @ % ByteBase ^ (N - 1)]
           want == IF ValidateChainType(type) THEN kept ELSE NoChain
           bytes == Packed(type, id)
<1>0. N \in Nat \ {0} /\ ByteBase \in Nat \ {0} /\ ByteBase ^ N \in Nat \ {0}
  <2>1. N \in Nat \ {0} /\ N \in 0..N
    BY Sizes
  <2> QED  BY <2>1, Sizes
<1>1. /\ type \in 0..(ByteBase - 1) /\ id \in 0..(ByteBase ^ N - 1)
      /\ type \in Nat /\ id \in Nat
      /\ info = [type |-> type, id |-> id]
  BY <1>0 DEF ChainInfos, Bytes, Uint64s
<1>2. kept = [type |-> type, id |-> short]
  BY <1>1
<1>3. short \in 0..(ByteBase ^ N - 1)
  <2>1. N - 1 \in 0..N
    BY <1>0
  <2>2. ByteBase ^ (N - 1) \in Nat \ {0}
    BY <2>1, Sizes
  <2>3. \A x \in Nat, d \in Nat \ {0} : x % d \in Nat /\ x % d <= x
    <3> TAKE x \in Nat, d \in Nat \ {0}
    <3>1. x \div d \in Nat /\ x % d \in Nat /\ x = d * (x \div d) + (x % d)
      BY Division
    <3>2. \A q \in Nat : d * q >= 0
      OBVIOUS
    <3> QED  BY <3>1, <3>2
  <2>4. short \in Nat /\ short <= id
    BY <1>1, <2>2, <2>3
  <2> HIDE DEF short, id
  <2> QED  BY <1>0, <1>1, <2>4
<1>4. kept \in ChainInfos
  <2> HIDE DEF short
  <2> QED  BY <1>1, <1>2, <1>3 DEF ChainInfos, Bytes, Uint64s
<1>5. /\ bytes \in Seq(Nat) /\ Len(bytes) = N /\ bytes[1] = type
      /\ ChainID(bytes) = short
  BY <1>1, PackedBytes, PackedId
<1>6. ToBytes(info) = bytes
  BY DEF ToBytes, Packed
<1> HIDE DEF bytes
<1>7. NewChainInfoFromBytes(ToBytes(info)) = want
  <2> HIDE DEF short, type, kept
  <2> QED  BY <1>2, <1>5, <1>6 DEF NewChainInfoFromBytes
<1>8. NewChainInfoFromBytes(Tail(ToBytes(info))) = NoChain
  <2>1. bytes # << >>
    BY <1>0, <1>5
  <2>2. Len(Tail(bytes)) = N - 1
    BY <1>5, <2>1, HeadTailProperties
  <2>3. N - 1 # N
    BY <1>0
  <2> QED  BY <1>6, <2>2, <2>3 DEF NewChainInfoFromBytes
<1>9. Parse(<<TypeString(type), id>>) = want
  <2> DEFINE parts == <<TypeString(type), id>>
  <2>1. Len(parts) = 2 /\ parts[1] = TypeString(type) /\ parts[2] = id
    OBVIOUS
  <2>2. id \in Uint64s
    BY <1>1 DEF Uint64s
  <2> HIDE DEF parts
  <2>3. CASE ~ValidateChainType(type)
    <3>1. TypeOfString(parts[1]) = {}
      BY <1>1, <2>1, <2>3, NamesOfTypes
    <3>2. Parse(parts) = NoChain
      BY <3>1 DEF Parse
    <3> QED  BY <3>2, <2>3 DEF parts
  <2>4. CASE ValidateChainType(type)
    <3>1. TypeOfString(parts[1]) = {type}
      BY <1>1, <2>1, <2>4, NamesOfTypes
    <3>2. (CHOOSE t \in {type} : TRUE) = type
      OBVIOUS
    <3>3. Parse(parts) = [type |-> bytes[1], id |-> ChainID(bytes)]
      <4> HIDE DEF type, id
      <4> QED  BY <2>1, <2>2, <3>1, <3>2 DEF Parse, Packed, bytes
    <3> QED  BY <3>3, <2>4, <1>2, <1>5 DEF parts
  <2> QED  BY <2>3, <2>4
<1> QED  BY <1>4, <1>7, <1>8, <1>9

(* A chain of a known type comes back from its bytes and from its string   *)
(* with an id that differs from the original only in the byte that is      *)
(* dropped, a chain of an unknown type from neither (ChainInfo of          *)
(* pkg/types/chain_info.go), for every byte base and every size.           *)
THEOREM ChainsSurvive == ChainSpec => []ChainInfoSurvives
<1> DEFINE Typed == chainInfo \in ChainInfos
<1>1. ChainInit => Typed
  <2>1. ChainInfoBytesSize \in 0..ChainInfoBytesSize
    BY Sizes
  <2>2. ByteBase ^ ChainInfoBytesSize \in Nat \ {0}
    BY <2>1, Sizes
  <2> QED  BY <2>2, Sizes DEF ChainInit, ChainInfos, Bytes, Uint64s
<1>2. Typed /\ [ChainNext]_chainInfo => Typed'
  <2> SUFFICES ASSUME Typed, [ChainNext]_chainInfo PROVE Typed'
    OBVIOUS
  <2>1. ASSUME NEW info \in ChainInfos, FromJSON(info) PROVE Typed'
    BY <2>1 DEF FromJSON
  <2>2. CASE FromString(<<TypeString(chainInfo.type), chainInfo.id>>)
    <3>1. \/ Parse(<<TypeString(chainInfo.type), chainInfo.id>>) = NoChain
          \/ Parse(<<TypeString(chainInfo.type), chainInfo.id>>) \in ChainInfos
      BY RoundTrip
    <3> QED  BY <3>1, <2>2 DEF FromString
  <2>3. CASE UNCHANGED chainInfo
    BY <2>3
  <2> QED  BY <2>1, <2>2, <2>3 DEF ChainNext, Unmarshal
<1>3. Typed => ChainInfoSurvives
  BY RoundTrip DEF ChainInfoSurvives
<1> QED  BY <1>1, <1>2, <1>3, PTL DEF ChainSpec

-----------------------------------------------------------------------------
(* The other way round: the bytes can be told from what they stand for.    *)
LEMMA SumsAreNaturals ==
    ASSUME NEW n \in Nat, NEW bytes, \A k \in 1..n : bytes[k] \in Nat,
           NEW f, Sums(bytes, n, f)
    PROVE  \A k \in 0..n : f[k] \in Nat
<1> DEFINE S == {k \in Nat : k <= n => f[k] \in Nat}
<1>0. ByteBase \in Nat
  BY Sizes
<1>1. \A k \in 0..n : f[k] = IF k = 0 THEN 0 ELSE f[k - 1] * ByteBase + bytes[k]
  BY DEF Sums
<1>2. 0 \in S
  BY <1>1
<1>3. ASSUME NEW k \in S PROVE k + 1 \in S
  <2> SUFFICES ASSUME k + 1 <= n PROVE f[k + 1] \in Nat
    OBVIOUS
  <2>1. /\ k \in Nat /\ k <= n /\ k + 1 \in 0..n /\ k + 1 \in 1..n
        /\ k + 1 # 0 /\ (k + 1) - 1 = k
    OBVIOUS
  <2>2. f[k + 1] = f[k] * ByteBase + bytes[k + 1]
    BY <2>1, <1>1
  <2>3. f[k] \in Nat /\ bytes[k + 1] \in Nat
    BY <2>1
  <2> QED  BY <1>0, <2>2, <2>3
<1>4. S \in SUBSET Nat
  OBVIOUS
<1> HIDE DEF S
<1>5. S = Nat
  BY <1>2, <1>3, <1>4, SetInduction
<1> QED  BY <1>5 DEF S

LEMMA DigitsOfSums ==
    ASSUME NEW bytes, \A k \in 1..ChainInfoBytesSize : bytes[k] \in Bytes,
           NEW f, Sums(bytes, ChainInfoBytesSize, f)
    PROVE  /\ f[ChainInfoBytesSize] \in Nat
           /\ \A k \in 1..ChainInfoBytesSize :
               bytes[k] = (f[ChainInfoBytesSize] \div ByteBase ^ (ChainInfoBytesSize - k))
                            % ByteBase
<1> DEFINE N == ChainInfoBytesSize
           B == ByteBase
           id == f[N]
           S == {j \in Nat : j <= N => id \div B ^ j = f[N - j]}
<1>0. /\ B \in Nat \ {0} /\ N \in Nat \ {0} /\ B ^ 0 = 1
      /\ \A k \in 0..N : B ^ k \in Nat \ {0} /\ B ^ (k + 1) = B * B ^ k
  BY Sizes
<1>a. \A k \in 1..N : bytes[k] \in Nat /\ bytes[k] < B
  BY <1>0 DEF Bytes
<1>b. \A k \in 0..N : f[k] \in Nat
  BY <1>0, <1>a, SumsAreNaturals
<1>c. \A k \in 0..N : f[k] = IF k = 0 THEN 0 ELSE f[k - 1] * B + bytes[k]
  BY DEF Sums
<1>d. id \in Nat
  BY <1>0, <1>b
<1> HIDE DEF N, B, id
<1>1. ASSUME NEW k \in 1..N
      PROVE  f[k] \div B = f[k - 1] /\ f[k] % B = bytes[k]
  <2>1. k \in 0..N /\ k # 0 /\ k - 1 \in 0..N
    BY <1>0
  <2>2. f[k] \in Nat /\ f[k - 1] \in Nat /\ bytes[k] \in Nat /\ bytes[k] < B
    BY <2>1, <1>a, <1>b
  <2>3. f[k] = f[k - 1] * B + bytes[k]
    BY <2>1, <1>c
  <2>4. f[k] = B * f[k - 1] + bytes[k]
    BY <2>2, <2>3, <1>0
  <2> QED  BY <2>2, <2>4, <1>0, DivisionUnique
<1>2. 0 \in S
  <2>1. id \div 1 = id
    BY <1>d
  <2>2. id = f[N - 0]
    BY <1>0 DEF id
  <2> QED  BY <2>1, <2>2, <1>0
<1>3. ASSUME NEW j \in S PROVE j + 1 \in S
  <2> SUFFICES ASSUME j + 1 <= N PROVE id \div B ^ (j + 1) = f[N - (j + 1)]
    OBVIOUS
  <2>1. /\ j \in Nat /\ j \in 0..N /\ j + 1 \in 0..N /\ j <= N
        /\ N - j \in 1..N /\ N - j \in 0..N /\ (N - j) - 1 = N - (j + 1)
    BY <1>0
  <2>2. id \div B ^ j = f[N - j] /\ f[N - j] \in Nat
    BY <2>1, <1>b
  <2>3. /\ B ^ j \in Nat \ {0} /\ B ^ (j + 1) \in Nat \ {0}
        /\ IsProduct(B ^ (j + 1), B, B ^ j)
    BY <2>1, <1>0 DEF IsProduct
  <2>4. id \div B ^ (j + 1) = f[N - j] \div B
    <3>1. IsQuotient(f[N - j], id, B ^ j)
      BY <2>2 DEF IsQuotient
    <3> QED  BY <3>1, <2>2, <2>3, <1>0, <1>d, QuotientByProduct
  <2> QED  BY <2>1, <2>4, <1>1
<1>4. S \in SUBSET Nat
  OBVIOUS
<1> HIDE DEF S
<1>5. S = Nat
  BY <1>2, <1>3, <1>4, SetInduction
<1>6. ASSUME NEW k \in 1..N PROVE bytes[k] = (id \div B ^ (N - k)) % B
  <2>1. N - k \in Nat /\ N - k <= N /\ N - (N - k) = k
    BY <1>0
  <2>2. id \div B ^ (N - k) = f[k]
    BY <2>1, <1>5 DEF S
  <2> QED  BY <2>2, <1>1
<1> QED  BY <1>d, <1>6 DEF N, B, id

(* A chain read from bytes is written as the same bytes, and its id is 0   *)
(* only if all of its bytes are.                                           *)
LEMMA BytesReadBack ==
    ASSUME NEW b \in Seq(Bytes), Len(b) = ChainInfoBytesSize
    PROVE  /\ ChainID(b) \in Nat
           /\ Packed(b[1], ChainID(b)) = b
           /\ ChainID(b) = 0 <=> \A k \in 2..ChainInfoBytesSize : b[k] = 0
<1> DEFINE N == ChainInfoBytesSize
           c == [b EXCEPT ![1] = 0]
           id == ChainID(b)
<1>0. N \in Nat \ {0} /\ ByteBase \in Nat \ {0, 1} /\ 0 \in Bytes
  BY Sizes DEF Bytes
<1>1. \A k \in 1..N : b[k] \in Bytes /\ b[k] \in Nat
  <2>1. \A k \in 1..N : b[k] \in Bytes
    BY ElementOfSeq
  <2> QED  BY <2>1, <1>0 DEF Bytes
<1>2. /\ c \in Seq(Bytes) /\ Len(c) = N
      /\ \A j \in 1..N : c[j] = IF j = 1 THEN 0 ELSE b[j]
  <2>1. 1 \in 1..Len(b)
    BY <1>0
  <2> QED  BY <1>0, <2>1, ExceptSeq
<1>3. id = BigEndian(c)
  BY DEF ChainID
<1> HIDE DEF c
<1>4. PICK f : Sums(c, N, f) /\ BigEndian(c) = f[N]
  BY <1>0, <1>2, BigEndianUnfolds
<1>5. \A k \in 1..N : c[k] \in Bytes
  BY <1>2, ElementOfSeq
<1>6. /\ id \in Nat
      /\ \A k \in 1..N : c[k] = (id \div ByteBase ^ (N - k)) % ByteBase
  BY <1>3, <1>4, <1>5, DigitsOfSums
<1> HIDE DEF id
<1>7. Packed(b[1], id) = b
  <2>1. b[1] \in Nat /\ b[1] \in Bytes
    BY <1>0, <1>1
  <2>2. /\ Packed(b[1], id) \in Seq(Nat) /\ Len(Packed(b[1], id)) = N
        /\ Packed(b[1], id)[1] = b[1]
        /\ \A k \in 2..N : Packed(b[1], id)[k] = (id \div ByteBase ^ (N - k)) % ByteBase
    BY <2>1, <1>6, PackedBytes
  <2>3. \A k \in 1..N : Packed(b[1], id)[k] = b[k]
    <3>1. \A k \in 1..N : k = 1 \/ (k # 1 /\ k \in 2..N)
      BY <1>0
    <3> QED  BY <3>1, <2>2, <1>2, <1>6
  <2>4. b \in Seq(Nat)
    <3>1. Bytes \subseteq Nat
      BY <1>0 DEF Bytes
    <3> QED  BY <3>1, SeqMonotonic
  <2> HIDE DEF N
  <2> QED  BY <2>2, <2>3, <2>4, SeqEqual DEF N
<1>8. ASSUME id = 0 PROVE \A k \in 2..N : b[k] = 0
  <2> TAKE k \in 2..N
  <2>1. k \in 1..N /\ k # 1 /\ N - k \in 0..N
    BY <1>0
  <2>2. ByteBase ^ (N - k) \in Nat \ {0}
    BY <2>1, Sizes
  <2>3. \A d \in Nat \ {0} : 0 \div d = 0 /\ 0 % d = 0
    <3> TAKE d \in Nat \ {0}
    <3>1. 0 = d * 0 + 0
      OBVIOUS
    <3> QED  BY <3>1, DivisionUnique
  <2>4. c[k] = 0
    BY <1>0, <1>6, <1>8, <2>1, <2>2, <2>3
  <2> QED  BY <2>1, <2>4, <1>2
<1>9. ASSUME \A k \in 2..N : b[k] = 0 PROVE id = 0
  <2>1. c[1] = 0 /\ \A k \in 2..N : k \in 1..N /\ k # 1 /\ N - k \in 0..N
    BY <1>0, <1>2
  <2>2. \A d \in Nat \ {0} : 0 \div d = 0 /\ 0 % d = 0
    <3> TAKE d \in Nat \ {0}
    <3>1. 0 = d * 0 + 0
      OBVIOUS
    <3> QED  BY <3>1, DivisionUnique
  <2>3. \A k \in 2..N : ByteBase ^ (N - k) \in Nat \ {0}
    BY <2>1, Sizes
  <2>4. \A k \in 2..N : c[k] = (0 \div ByteBase ^ (N - k)) % ByteBase
    BY <1>0, <1>2, <1>9, <2>1, <2>2, <2>3
  <2>5. f[N] = 0 % ByteBase ^ (N - 1)
    BY <2>1, <2>4, <1>4, SumsOfId
  <2>6. N - 1 \in 0..N
    BY <1>0
  <2>7. ByteBase ^ (N - 1) \in Nat \ {0}
    BY <2>6, Sizes
  <2> QED  BY <1>3, <1>4, <2>2, <2>5, <2>7
<1> QED  BY <1>6, <1>7, <1>8, <1>9 DEF id

-----------------------------------------------------------------------------
(* What is left of a sequence after its first c elements, and the          *)
(* subsequences of that.                                                   *)
LEMMA RestOfSeq ==
    ASSUME NEW S, NEW s \in Seq(S), NEW c \in 0..Len(s),
           NEW t, t = SubSeq(s, c + 1, Len(s))
    PROVE  /\ t \in Seq(S) /\ Len(t) = Len(s) - c
           /\ \A j \in 1..Len(t) : t[j] = s[c + j]
           /\ \A m \in 1..(Len(t) + 1), n \in 0..Len(t) :
               SubSeq(t, m, n) = SubSeq(s, c + m, c + n)
<1>0. Len(s) \in Nat /\ c \in Nat /\ c <= Len(s)
  BY LenProperties
<1>1. \A i \in 1..Len(s) : s[i] \in S
  BY ElementOfSeq
<1>2. \A i \in (c + 1)..Len(s) : s[i] \in S
  BY <1>0, <1>1
<1>3. /\ t \in Seq(S)
      /\ Len(t) = IF c + 1 <= Len(s) THEN Len(s) - (c + 1) + 1 ELSE 0
      /\ \A i \in 1..(Len(s) - (c + 1) + 1) : t[i] = s[(c + 1) + i - 1]
  BY <1>0, <1>2, SubSeqProperties
<1>4. Len(t) = Len(s) - c
  BY <1>0, <1>3
<1>5. \A j \in 1..Len(t) : t[j] = s[c + j]
  <2> TAKE j \in 1..Len(t)
  <2>1. j \in 1..(Len(s) - (c + 1) + 1) /\ (c + 1) + j - 1 = c + j
    BY <1>0, <1>4
  <2> QED  BY <2>1, <1>3
<1>6. ASSUME NEW m \in 1..(Len(t) + 1), NEW n \in 0..Len(t)
      PROVE  SubSeq(t, m, n) = SubSeq(s, c + m, c + n)
  <2> DEFINE u == SubSeq(t, m, n)
             v == SubSeq(s, c + m, c + n)
  <2>0. /\ m \in Int /\ n \in Int /\ c + m \in Int /\ c + n \in Int
        /\ Len(t) \in Nat
    BY <1>0, <1>4
  <2>1. \A i \in m..n : t[i] \in S /\ i \in 1..Len(t)
    <3> TAKE i \in m..n
    <3>1. i \in 1..Len(t)
      BY <2>0
    <3> QED  BY <3>1, <1>3, ElementOfSeq
  <2>2. \A i \in (c + m)..(c + n) : s[i] \in S
    <3> TAKE i \in (c + m)..(c + n)
    <3>1. i \in 1..Len(s)
      BY <1>0, <1>4, <2>0
    <3> QED  BY <3>1, <1>1
  <2>3. /\ u \in Seq(S) /\ Len(u) = IF m <= n THEN n - m + 1 ELSE 0
        /\ \A i \in 1..(n - m + 1) : u[i] = t[m + i - 1]
    BY <2>0, <2>1, SubSeqProperties
  <2>4. /\ v \in Seq(S)
        /\ Len(v) = IF c + m <= c + n THEN (c + n) - (c + m) + 1 ELSE 0
        /\ \A i \in 1..((c + n) - (c + m) + 1) : v[i] = s[(c + m) + i - 1]
    BY <2>0, <2>2, SubSeqProperties
  <2> HIDE DEF u, v
  <2>5. Len(u) = Len(v)
    BY <1>0, <2>0, <2>3, <2>4
  <2>6. \A i \in 1..Len(u) : u[i] = v[i]
    <3> TAKE i \in 1..Len(u)
    <3>1. /\ i \in 1..(n - m + 1) /\ i \in 1..((c + n) - (c + m) + 1)
          /\ m + i - 1 \in 1..Len(t)
          /\ c + (m + i - 1) = (c + m) + i - 1
      BY <1>0, <2>0, <2>3
    <3>2. u[i] = t[m + i - 1] /\ v[i] = s[(c + m) + i - 1]
      BY <3>1, <2>3, <2>4
    <3>3. t[m + i - 1] = s[c + (m + i - 1)]
      BY <3>1, <1>5
    <3> QED  BY <3>1, <3>2, <3>3
  <2>7. u = v
    BY <2>3, <2>4, <2>5, <2>6, SeqEqual
  <2> QED  BY <2>7 DEF u, v
<1> QED  BY <1>3, <1>4, <1>5, <1>6

(* The beginning of a sequence.                                            *)
LEMMA BeginningOfSeq ==
    ASSUME NEW S, NEW s \in Seq(S), NEW n \in 0..Len(s),
           NEW t, t = SubSeq(s, 1, n)
    PROVE  /\ t \in Seq(S) /\ Len(t) = n
           /\ \A j \in 1..n : t[j] = s[j]
           /\ \A m \in 1..n, k \in 0..n : SubSeq(t, m, k) = SubSeq(s, m, k)
<1>0. Len(s) \in Nat /\ n \in Nat /\ n <= Len(s)
  BY LenProperties
<1>1. \A i \in 1..Len(s) : s[i] \in S
  BY ElementOfSeq
<1>2. \A i \in 1..n : s[i] \in S
  BY <1>0, <1>1
<1>3. /\ t \in Seq(S) /\ Len(t) = IF 1 <= n THEN n - 1 + 1 ELSE 0
      /\ \A i \in 1..(n - 1 + 1) : t[i] = s[1 + i - 1]
  BY <1>0, <1>2, SubSeqProperties
<1>4. Len(t) = n /\ n - 1 + 1 = n /\ \A j \in 1..n : 1 + j - 1 = j
  BY <1>0, <1>3
<1>5. \A j \in 1..n : t[j] = s[j]
  BY <1>3, <1>4
<1>6. ASSUME NEW m \in 1..n, NEW k \in 0..n
      PROVE  SubSeq(t, m, k) = SubSeq(s, m, k)
  <2> DEFINE u == SubSeq(t, m, k)
             v == SubSeq(s, m, k)
  <2>1. \A i \in m..k : i \in 1..n
    BY <1>0
  <2>2. \A i \in m..k : t[i] \in S /\ s[i] \in S
    BY <2>1, <1>2, <1>5
  <2>3. m \in Int /\ k \in Int
    BY <1>0
  <2>4. /\ u \in Seq(S) /\ Len(u) = IF m <= k THEN k - m + 1 ELSE 0
        /\ \A i \in 1..(k - m + 1) : u[i] = t[m + i - 1]
    BY <2>2, <2>3, SubSeqProperties
  <2>5. /\ v \in Seq(S) /\ Len(v) = IF m <= k THEN k - m + 1 ELSE 0
        /\ \A i \in 1..(k - m + 1) : v[i] = s[m + i - 1]
    BY <2>2, <2>3, SubSeqProperties
  <2> HIDE DEF u, v
  <2>6. Len(u) = Len(v)
    BY <2>4, <2>5
  <2>7. \A i \in 1..Len(u) : u[i] = v[i]
    <3> TAKE i \in 1..Len(u)
    <3>1. i \in 1..(k - m + 1) /\ m + i - 1 \in 1..n
      BY <1>0, <2>3, <2>4
    <3> QED  BY <3>1, <2>4, <2>5, <1>5
  <2>8. u = v
    BY <2>4, <2>5, <2>6, <2>7, SeqEqual
  <2> QED  BY <2>8 DEF u, v
<1> QED  BY <1>3, <1>4, <1>5, <1>6

(* The sizes of types.go.                                                  *)
LEMMA VaultSizes ==
    /\ TagSize \in Nat /\ ServiceTagSize \in Nat /\ SequenceSize \in Nat
    /\ HashSize \in Nat /\ AddressSize \in Nat /\ ChainInfoBytesSize \in Nat \ {0}
  BY VaultAssumption, Sizes

(* Where the token of a staking output is in the script, and its           *)
(* destination.                                                            *)
TokenAt == ChainAt + ChainInfoBytesSize
Destination(s) == SubSeq(s, ChainAt + 1, TokenAt)

(* The staking output that the script holds.                               *)
Staking(tag, s) ==
    [tag |-> tag, type |-> "staking",
     chain |-> [type |-> s[ChainAt + 1], id |-> ChainID(Destination(s))],
     quorum    |-> s[ChainAt],
     service   |-> SubSeq(s, FlagsAt + 1, FlagsAt + ServiceTagSize),
     sequence  |-> Zero, group |-> Zero,
     token     |-> SubSeq(s, TokenAt + 1, TokenAt + AddressSize),
     recipient |-> SubSeq(s, TokenAt + AddressSize + 1, StakingSize)]

LEMMA StakingParsed ==
    ASSUME NEW s \in Seq(Bytes), FlagsAt <= Len(s),
           NEW rest, rest = SubSeq(s, FlagsAt + 1, Len(s)), NEW tag
    PROVE  ParseStaking(tag, rest) =
             IF Len(s) >= StakingSize /\ ValidateChainType(s[ChainAt + 1])
             THEN Staking(tag, s) ELSE Rejected
<1> DEFINE F == FlagsAt
           G == ServiceTagSize
           N == ChainInfoBytesSize
           A == AddressSize
           at == G + 1
           R == Len(rest)
           destination == NewChainInfoFromBytes(Slice(rest, at, N))
<1>0. /\ F \in Nat /\ G \in Nat /\ N \in Nat \ {0} /\ A \in Nat /\ Len(s) \in Nat
      /\ F <= Len(s) /\ F \in 0..Len(s)
  BY VaultSizes, LenProperties DEF FlagsAt
<1>1. /\ rest \in Seq(Bytes) /\ Len(rest) = Len(s) - F
      /\ \A j \in 1..Len(rest) : rest[j] = s[F + j]
      /\ \A m \in 1..(Len(rest) + 1), n \in 0..Len(rest) :
            SubSeq(rest, m, n) = SubSeq(s, F + m, F + n)
  BY <1>0, RestOfSeq
<1>2. /\ ChainAt = F + G + 1 /\ TokenAt = F + G + 1 + N
      /\ StakingSize = F + G + 1 + N + 2 * A
  BY DEF ChainAt, TokenAt, StakingSize
<1>a. R = Len(s) - F
  BY <1>1
<1> HIDE DEF F, G, N, A, R
<1>3. CASE Len(s) < StakingSize
  <2>1. R < at + N + 2 * A
    BY <1>0, <1>a, <1>2, <1>3
  <2>2. ParseStaking(tag, rest) = Rejected
    BY <2>1 DEF ParseStaking, G, N, A, R
  <2>3. ~(Len(s) >= StakingSize)
    BY <1>0, <1>2, <1>3
  <2> QED  BY <2>2, <2>3
<1>4. CASE Len(s) >= StakingSize
  <2>0. R \in Nat /\ R >= at + N + 2 * A
    BY <1>0, <1>a, <1>2, <1>4
  <2>1. ASSUME NEW a \in Nat, NEW n \in Nat, a + n <= at + N + 2 * A
        PROVE  Slice(rest, a, n) = SubSeq(s, F + (a + 1), F + (a + n))
    <3>1. a + n <= R
      BY <1>0, <2>0, <2>1
    <3>2. a + 1 \in 1..(R + 1) /\ a + n \in 0..R
      BY <2>0, <3>1
    <3> QED  BY <3>1, <3>2, <1>1 DEF Slice, R
  <2>2. Slice(rest, at, N) = Destination(s)
    <3>1. at \in Nat /\ at + N <= at + N + 2 * A
      BY <1>0
    <3>2. F + (at + 1) = ChainAt + 1 /\ F + (at + N) = TokenAt
      BY <1>0, <1>2
    <3> QED  BY <3>1, <3>2, <1>0, <2>1 DEF Destination
  <2>3. Slice(rest, 0, G) = SubSeq(s, FlagsAt + 1, FlagsAt + ServiceTagSize)
    <3>1. 0 + G <= at + N + 2 * A /\ F + (0 + 1) = F + 1 /\ F + (0 + G) = F + G
      BY <1>0
    <3> QED  BY <3>1, <1>0, <2>1 DEF F, G
  <2>4. Slice(rest, at + N, A) = SubSeq(s, TokenAt + 1, TokenAt + AddressSize)
    <3>1. /\ at + N \in Nat /\ (at + N) + A <= at + N + 2 * A
          /\ F + ((at + N) + 1) = TokenAt + 1 /\ F + ((at + N) + A) = TokenAt + A
      BY <1>0, <1>2
    <3> QED  BY <3>1, <1>0, <2>1 DEF A
  <2>5. Slice(rest, at + N + A, A) = SubSeq(s, TokenAt + AddressSize + 1, StakingSize)
    <3>1. /\ at + N + A \in Nat /\ (at + N + A) + A <= at + N + 2 * A
          /\ F + ((at + N + A) + 1) = TokenAt + A + 1
          /\ F + ((at + N + A) + A) = StakingSize
      BY <1>0, <1>2
    <3> QED  BY <3>1, <1>0, <2>1 DEF A
  <2>6. rest[G + 1] = s[ChainAt]
    <3>1. G + 1 \in 1..R /\ F + (G + 1) = ChainAt
      BY <1>0, <1>2, <2>0
    <3> QED  BY <3>1, <1>1 DEF R
  <2>7. Len(Destination(s)) = N /\ Destination(s)[1] = s[ChainAt + 1]
    <3>1. /\ ChainAt + 1 \in Int /\ TokenAt \in Int
          /\ \A i \in (ChainAt + 1)..TokenAt : i \in 1..Len(s)
      BY <1>0, <1>2, <1>4
    <3>2. \A i \in (ChainAt + 1)..TokenAt : s[i] \in Bytes
      BY <3>1, ElementOfSeq
    <3>3. /\ Len(Destination(s)) =
               IF ChainAt + 1 <= TokenAt THEN TokenAt - (ChainAt + 1) + 1 ELSE 0
          /\ \A i \in 1..(TokenAt - (ChainAt + 1) + 1) :
               Destination(s)[i] = s[(ChainAt + 1) + i - 1]
      BY <3>1, <3>2, SubSeqProperties DEF Destination
    <3>4. /\ ChainAt + 1 <= TokenAt /\ TokenAt - (ChainAt + 1) + 1 = N
          /\ 1 \in 1..(TokenAt - (ChainAt + 1) + 1) /\ (ChainAt + 1) + 1 - 1 = ChainAt + 1
      BY <1>0, <1>2
    <3> QED  BY <3>3, <3>4
  <2>8. destination = IF ValidateChainType(s[ChainAt + 1])
                      THEN [type |-> s[ChainAt + 1], id |-> ChainID(Destination(s))]
                      ELSE NoChain
    BY <2>2, <2>7 DEF NewChainInfoFromBytes, N
  <2>9. \A i : [type |-> s[ChainAt + 1], id |-> i] # NoChain
    <3>1. ChainAt + 1 \in 1..Len(s)
      BY <1>0, <1>2, <1>4
    <3>2. s[ChainAt + 1] \in Bytes
      BY <3>1, ElementOfSeq
    <3>3. s[ChainAt + 1] # ByteBase
      BY <3>2, Sizes DEF Bytes
    <3> QED  BY <3>3 DEF NoChain
  <2>10. ~(R < at + N + 2 * A)
    BY <1>0, <2>0
  <2>11. ParseStaking(tag, rest) =
           IF destination = NoChain THEN Rejected
           ELSE [tag |-> tag, type |-> "staking", chain |-> destination,
                 quorum    |-> rest[G + 1],
                 service   |-> Slice(rest, 0, G),
                 sequence  |-> Zero, group |-> Zero,
                 token     |-> Slice(rest, at + N, A),
                 recipient |-> Slice(rest, at + N + A, A)]
    BY <2>10 DEF ParseStaking, G, N, A, R
  <2> HIDE DEF destination
  <2> QED  BY <1>4, <2>3, <2>4, <2>5, <2>6, <2>8, <2>9, <2>11 DEF Staking
<1>5. Len(s) < StakingSize \/ Len(s) >= StakingSize
  BY <1>0, <1>2
<1> QED  BY <1>3, <1>4, <1>5

(* The first fields of the script, up to the flags and the service tag.    *)
Opens(s) ==
    /\ Len(s) >= FlagsAt + ServiceTagSize
    /\ SubSeq(s, 3, 2 + TagSize) = VaultTag
    /\ s[FlagsAt - 2] = VaultVersion

LEMMA OutputParsed ==
    ASSUME NEW s \in Seq(Bytes), Len(s) >= 2,
           NEW o, o = ParseVaultReturnTxOutput(SubSeq(s, 3, Len(s)))
    PROVE  /\ ~Opens(s) => o = Rejected
           /\ Opens(s) /\ s[FlagsAt] \in {PoolRedeem, UpcRedeem} =>
                o = Rejected \/ o.chain = NoChain
           /\ Opens(s) /\ s[FlagsAt] \notin {PoolRedeem, UpcRedeem} =>
                o = ParseStaking(VaultTag, SubSeq(s, FlagsAt + 1, Len(s)))
<1> DEFINE data == SubSeq(s, 3, Len(s))
           T == TagSize
           G == ServiceTagSize
           D == Len(data)
           L == Len(s)
           rest == SubSeq(data, T + 4, D)
<1>0. T \in Nat /\ G \in Nat /\ L \in Nat /\ L >= 2 /\ 2 \in 0..L /\ 2 + 1 = 3
  BY VaultSizes, LenProperties
<1>1. FlagsAt = T + 5
  BY <1>0 DEF FlagsAt
<1>2. /\ D = L - 2
      /\ \A j \in 1..D : data[j] = s[2 + j]
      /\ \A m \in 1..(D + 1), n \in 0..D : SubSeq(data, m, n) = SubSeq(s, 2 + m, 2 + n)
  <2>1. PICK c \in 0..Len(s) : c = 2
    BY <1>0
  <2>2. PICK t : t = SubSeq(s, c + 1, Len(s))
    OBVIOUS
  <2>3. data = t
    BY <1>0, <2>1, <2>2
  <2> HIDE DEF data, D, L, T, G, rest
  <2>4. Len(t) = Len(s) - c
    BY <2>2, RestOfSeq
  <2>5. ASSUME NEW j \in 1..Len(t)  PROVE  t[j] = s[c + j]
    BY <2>2, RestOfSeq
  <2>6. ASSUME NEW m \in 1..(Len(t) + 1), NEW n \in 0..Len(t)
        PROVE  SubSeq(t, m, n) = SubSeq(s, c + m, c + n)
    BY <2>2, RestOfSeq
  <2> QED  BY <2>1, <2>3, <2>4, <2>5, <2>6 DEF D, L
<1> DEFINE tag == Slice(data, 0, T)
<1>3. o = IF D < T + 3 + G THEN Rejected
          ELSE IF tag # VaultTag THEN Rejected
          ELSE IF data[T + 1] # VaultVersion THEN Rejected
          ELSE IF data[T + 3] = PoolRedeem THEN ParsePoolRedeem(tag, rest)
          ELSE IF data[T + 3] = UpcRedeem THEN ParseUpcRedeem(tag, rest)
          ELSE ParseStaking(tag, rest)
  <2>1. PoolRedeem # UpcRedeem
    BY VaultAssumption
  <2> HIDE DEF data
  <2> QED  BY <2>1 DEF ParseVaultReturnTxOutput, data
<1> HIDE DEF T, G, D, L, data
<1>4. CASE D < T + 3 + G
  <2>1. ~(L >= FlagsAt + G)
    BY <1>0, <1>1, <1>2, <1>4
  <2>2. ~Opens(s)
    BY <2>1 DEF Opens, L, G
  <2> QED  BY <1>3, <1>4, <2>2
<1>5. CASE ~(D < T + 3 + G)
  <2>0. D \in Nat /\ D >= T + 3 + G /\ L >= FlagsAt + G
    BY <1>0, <1>1, <1>2, <1>5
  <2>1. tag = SubSeq(s, 3, 2 + TagSize)
    <3>1. /\ 0 + T <= D /\ 0 + 1 = 1 /\ 0 + T = T /\ 1 \in 1..(D + 1) /\ T \in 0..D
      BY <1>0, <2>0
    <3>2. Slice(data, 0, T) = SubSeq(data, 1, T)
      BY <3>1 DEF Slice, D
    <3>3. SubSeq(data, 1, T) = SubSeq(s, 2 + 1, 2 + T)
      BY <3>1, <1>2
    <3> QED  BY <3>2, <3>3, <1>0 DEF T
  <2>2. data[T + 1] = s[FlagsAt - 2] /\ data[T + 3] = s[FlagsAt]
    <3>1. /\ T + 1 \in 1..D /\ T + 3 \in 1..D
          /\ 2 + (T + 1) = FlagsAt - 2 /\ 2 + (T + 3) = FlagsAt
      BY <1>0, <1>1, <2>0
    <3> QED  BY <3>1, <1>2
  <2>3. rest = SubSeq(s, FlagsAt + 1, Len(s))
    <3>1. /\ T + 4 \in 1..(D + 1) /\ D \in 0..D
          /\ 2 + (T + 4) = FlagsAt + 1 /\ 2 + D = L
      BY <1>0, <1>1, <1>2, <2>0
    <3> QED  BY <3>1, <1>2 DEF L
  <2> HIDE DEF rest, tag
  <2>4. Opens(s) <=> tag = VaultTag /\ data[T + 1] = VaultVersion
    BY <2>0, <2>1, <2>2 DEF Opens, L, G
  <2>5. \/ ParsePoolRedeem(tag, rest) = Rejected
        \/ ParsePoolRedeem(tag, rest).chain = NoChain
    BY DEF ParsePoolRedeem
  <2>6. \/ ParseUpcRedeem(tag, rest) = Rejected
        \/ ParseUpcRedeem(tag, rest).chain = NoChain
    BY DEF ParseUpcRedeem
  <2> QED  BY <1>3, <1>5, <2>2, <2>3, <2>4, <2>5, <2>6
<1> QED  BY <1>4, <1>5

(* The scripts that are stored: complete staking outputs of this tag and   *)
(* version, for a chain of a known type and an id other than 0.            *)
Stored(s) ==
    /\ Len(s) >= StakingSize /\ s[1] = OpReturn /\ Opens(s)
    /\ s[FlagsAt] \notin {PoolRedeem, UpcRedeem}
    /\ ValidateChainType(s[ChainAt + 1])
    /\ ChainID(Destination(s)) # 0

(* The record of such a script.                                            *)
StakingRecord ==
    LET output == Staking(VaultTag, script)
    IN  [type |-> "staking", serviceTag |-> VaultTag, quorum |-> output.quorum,
         destination |-> output.chain.id,
         token |-> output.token, recipient |-> output.recipient,
         sequence |-> Zero, group |-> Zero, scriptPubkey |-> script,
         amount |-> values[2],
         change |-> IF Len(values) >= 3 THEN values[3] ELSE 0]

LEMMA TxParsed ==
    ASSUME script \in Seq(Bytes), values \in Seq(Nat)
    PROVE  ParseVaultTx =
             IF Stored(script) /\ Len(values) >= 2 /\ previous = "found"
             THEN StakingRecord
             ELSE Rejected
<1> DEFINE L == Len(script)
           V == Len(values)
           o == ParseVaultReturnTxOutput(SubSeq(script, 3, Len(script)))
<1>0. L \in Nat /\ V \in Nat
  BY LenProperties
<1>1. FlagsAt \in Nat /\ FlagsAt >= 5 /\ StakingSize \in Nat /\ StakingSize >= FlagsAt
      /\ FlagsAt + ServiceTagSize >= FlagsAt /\ FlagsAt + ServiceTagSize \in Nat
  BY VaultSizes DEF FlagsAt, StakingSize, ChainAt
<1> HIDE DEF L, V, o
<1>2. CASE V < 2 \/ L < 2 \/ script[1] # OpReturn
  <2>1. ParseVaultTx = Rejected
    BY <1>2 DEF ParseVaultTx, L, V
  <2>2. ~(Stored(script) /\ Len(values) >= 2)
    <3>1. L < 2 => ~(L >= StakingSize)
      BY <1>0, <1>1
    <3>2. V < 2 => ~(V >= 2)
      BY <1>0
    <3> QED  BY <1>2, <3>1, <3>2 DEF Stored, L, V
  <2> QED  BY <2>1, <2>2
<1>3. CASE ~(V < 2 \/ L < 2 \/ script[1] # OpReturn)
  <2>0. V >= 2 /\ L >= 2 /\ script[1] = OpReturn
    BY <1>0, <1>3
  <2>1. ParseVaultTx = IF o = Rejected THEN Rejected
                       ELSE IF o.chain.id = 0 THEN Rejected
                       ELSE ParseVaultTransactionData(o)
    BY <1>3 DEF ParseVaultTx, L, V, o
  <2>2. /\ ~Opens(script) => o = Rejected
        /\ Opens(script) /\ script[FlagsAt] \in {PoolRedeem, UpcRedeem} =>
             o = Rejected \/ o.chain = NoChain
        /\ Opens(script) /\ script[FlagsAt] \notin {PoolRedeem, UpcRedeem} =>
             o = ParseStaking(VaultTag, SubSeq(script, FlagsAt + 1, Len(script)))
    BY <2>0, OutputParsed DEF o, L
  <2>3. NoChain.id = 0
    BY DEF NoChain
  <2>4. CASE ~(Opens(script) /\ script[FlagsAt] \notin {PoolRedeem, UpcRedeem})
    <3>1. ParseVaultTx = Rejected
      BY <2>1, <2>2, <2>3, <2>4
    <3> QED  BY <3>1, <2>4 DEF Stored
  <2>5. CASE Opens(script) /\ script[FlagsAt] \notin {PoolRedeem, UpcRedeem}
    <3>1. FlagsAt <= Len(script)
      <4>1. L >= FlagsAt + ServiceTagSize
        BY <2>5 DEF Opens, L
      <4>2. FlagsAt <= L
        BY <4>1, <1>0, <1>1
      <4> QED  BY <4>2 DEF L
    <3>2. o = IF Len(script) >= StakingSize /\ ValidateChainType(script[ChainAt + 1])
              THEN Staking(VaultTag, script) ELSE Rejected
      BY <2>2, <2>5, <3>1, StakingParsed
    <3>3. CASE ~(Len(script) >= StakingSize /\ ValidateChainType(script[ChainAt + 1]))
      <4>1. ParseVaultTx = Rejected
        BY <2>1, <3>2, <3>3
      <4> QED  BY <4>1, <3>3 DEF Stored
    <3>4. CASE Len(script) >= StakingSize /\ ValidateChainType(script[ChainAt + 1])
      <4>1. o = Staking(VaultTag, script)
        BY <3>2, <3>4
      <4>2. /\ o.type = "staking" /\ o.chain.id = ChainID(Destination(script))
            /\ o.tag = VaultTag /\ o.sequence = Zero /\ o.group = Zero
        BY <4>1 DEF Staking
      <4>3. Rejected.type = "rejected"
        BY DEF Rejected
      <4>4. o # Rejected
        BY <4>2, <4>3
      <4>5. Stored(script) <=> ChainID(Destination(script)) # 0
        BY <2>0, <2>5, <3>4 DEF Stored
      <4>6. ParseVaultTransactionData(o) =
              IF previous # "found" THEN Rejected ELSE StakingRecord
        BY <4>1, <4>2 DEF ParseVaultTransactionData, StakingRecord
      <4> QED  BY <2>0, <2>1, <4>2, <4>4, <4>5, <4>6 DEF V
    <3> QED  BY <3>3, <3>4
  <2> QED  BY <2>4, <2>5
<1> QED  BY <1>2, <1>3

(* The destination of a complete staking output.                           *)
LEMMA DestinationBytes ==
    ASSUME NEW s \in Seq(Bytes), Len(s) >= StakingSize
    PROVE  /\ Destination(s) \in Seq(Bytes)
           /\ Len(Destination(s)) = ChainInfoBytesSize
           /\ \A k \in 1..ChainInfoBytesSize : Destination(s)[k] = s[ChainAt + k]
<1> DEFINE N == ChainInfoBytesSize
           C == ChainAt
           L == Len(s)
<1>0. C \in Nat /\ N \in Nat \ {0} /\ L \in Nat /\ TokenAt = C + N /\ C + N <= L
  BY VaultSizes, LenProperties DEF ChainAt, FlagsAt, StakingSize, TokenAt
<1> HIDE DEF N, C, L
<1>1. \A i \in (C + 1)..TokenAt : i \in 1..L
  BY <1>0
<1>2. \A i \in (C + 1)..TokenAt : s[i] \in Bytes
  BY <1>1, ElementOfSeq DEF L
<1>3. C + 1 \in Int /\ TokenAt \in Int
  BY <1>0
<1>4. /\ Destination(s) \in Seq(Bytes)
      /\ Len(Destination(s)) = IF C + 1 <= TokenAt THEN TokenAt - (C + 1) + 1 ELSE 0
      /\ \A i \in 1..(TokenAt - (C + 1) + 1) : Destination(s)[i] = s[(C + 1) + i - 1]
  BY <1>2, <1>3, SubSeqProperties DEF Destination, C
<1>5. /\ C + 1 <= TokenAt /\ TokenAt - (C + 1) + 1 = N
      /\ \A k \in 1..N : (C + 1) + k - 1 = C + k
  BY <1>0
<1> QED  BY <1>4, <1>5 DEF N, C

(* Writing the fields one after the other gives back the script.           *)
LEMMA FieldsReadBack ==
    ASSUME NEW s \in Seq(Bytes), Len(s) >= StakingSize
    PROVE  SubSeq(s, ChainAt, StakingSize) =
             <<s[ChainAt]>>
               \o ToBytes([type |-> s[ChainAt + 1], id |-> ChainID(Destination(s))])
               \o SubSeq(s, TokenAt + 1, TokenAt + AddressSize)
               \o SubSeq(s, TokenAt + AddressSize + 1, StakingSize)
<1> DEFINE A == AddressSize
           C == ChainAt
           M == TokenAt
           Z == StakingSize
           L == Len(s)
           N == ChainInfoBytesSize
           b == Destination(s)
           token == SubSeq(s, TokenAt + 1, TokenAt + AddressSize)
           recipient == SubSeq(s, TokenAt + AddressSize + 1, StakingSize)
           packed == ToBytes([type |-> s[ChainAt + 1], id |-> ChainID(b)])
<1>0. /\ A \in Nat /\ L \in Nat /\ N \in Nat \ {0} /\ C \in Nat \ {0}
      /\ M = C + N /\ Z = M + 2 * A /\ L >= Z
  BY VaultSizes, LenProperties DEF ChainAt, FlagsAt, StakingSize, TokenAt
<1>1. b \in Seq(Bytes) /\ Len(b) = N /\ b[1] = s[C + 1]
  <2>1. 1 \in 1..N
    BY <1>0
  <2> QED  BY <2>1, DestinationBytes
<1>2. packed = b
  <2>1. packed = Packed(b[1], ChainID(b))
    BY <1>1 DEF ToBytes, Packed
  <2> QED  BY <1>1, <2>1, BytesReadBack
<1>3. /\ token = SubSeq(s, M + 1, M + A) /\ recipient = SubSeq(s, M + A + 1, Z)
      /\ b = SubSeq(s, C + 1, M)
  BY DEF Destination
<1> HIDE DEF A, C, M, Z, L, N, b, token, recipient, packed
<1>4. <<s[C]>> = SubSeq(s, C, C)
  <2>1. C \in 1..L /\ C \in C..L /\ C < C + 1 /\ C + 1 \in Int /\ C \in Int
    BY <1>0
  <2>2. SubSeq(s, C, C) = <<s[C]>> \o SubSeq(s, C + 1, C)
    BY <2>1, SubSeqRecursiveFirst DEF L
  <2>3. SubSeq(s, C + 1, C) = << >>
    BY <2>1, SubSeqEmpty
  <2>4. <<s[C]>> \in Seq(Bytes)
    <3>1. s[C] \in Bytes
      BY <2>1, ElementOfSeq DEF L
    <3> QED  BY <3>1
  <2>5. <<s[C]>> \o << >> = <<s[C]>>
    BY <2>4, ConcatEmptySeq
  <2> QED  BY <2>2, <2>3, <2>5
<1>5. ASSUME NEW k \in Nat, NEW n \in Nat, C <= k, k <= n, n <= L
      PROVE  SubSeq(s, C, k) \o SubSeq(s, k + 1, n) = SubSeq(s, C, n)
  <2>1. C \in 1..(L + 1) /\ k \in (C - 1)..L /\ n \in k..L
    BY <1>0, <1>5
  <2> QED  BY <2>1, ConcatAdjacentSubSeq DEF L
<1>6. /\ C \in Nat /\ C <= C /\ C <= L
      /\ M \in Nat /\ C <= M /\ M <= L
      /\ M + A \in Nat /\ C <= M + A /\ M <= M + A /\ M + A <= L
      /\ Z \in Nat /\ M + A <= Z /\ Z <= L
  BY <1>0
<1>7. SubSeq(s, C, C) \o SubSeq(s, C + 1, M) = SubSeq(s, C, M)
  BY <1>5, <1>6
<1>8. SubSeq(s, C, M) \o SubSeq(s, M + 1, M + A) = SubSeq(s, C, M + A)
  BY <1>5, <1>6
<1>9. SubSeq(s, C, M + A) \o SubSeq(s, M + A + 1, Z) = SubSeq(s, C, Z)
  BY <1>5, <1>6
<1>10. <<s[C]>> \o packed = SubSeq(s, C, M)
  BY <1>2, <1>3, <1>4, <1>7, Zenon
<1>11. SubSeq(s, C, M) \o token \o recipient = SubSeq(s, C, Z)
  BY <1>3, <1>8, <1>9, Zenon
<1> QED  BY <1>10, <1>11, Zenon DEF C, Z, b, token, recipient, packed

LEMMA ReadBackOfTyped ==
    ASSUME script \in Seq(Bytes), values \in Seq(Nat), Len(values) <= 3
    PROVE  StakingReadBack
<1> DEFINE s == script
           N == ChainInfoBytesSize
           V == Len(values)
           staking == /\ Len(s) >= StakingSize /\ OpensStaking
                      /\ ValidateChainType(s[ChainAt + 1])
                      /\ \E i \in 2..N : s[ChainAt + i] # 0
<1>0. /\ StakingSize \in Nat /\ FlagsAt + ServiceTagSize \in Nat
      /\ StakingSize >= FlagsAt + ServiceTagSize
      /\ N \in Nat \ {0} /\ V \in Nat /\ Len(s) \in Nat
  BY VaultSizes, LenProperties DEF FlagsAt, StakingSize, ChainAt
<1>1. Stored(s) <=> staking
  <2>1. CASE ~(Len(s) >= StakingSize)
    BY <2>1 DEF Stored
  <2>2. CASE Len(s) >= StakingSize
    <3>1. Len(s) >= FlagsAt + ServiceTagSize
      BY <1>0, <2>2
    <3>5. /\ Destination(s) \in Seq(Bytes) /\ Len(Destination(s)) = N
          /\ \A k \in 1..N : Destination(s)[k] = s[ChainAt + k]
      BY <2>2, DestinationBytes
    <3>6. ChainID(Destination(s)) = 0 <=> \A k \in 2..N : Destination(s)[k] = 0
      BY <3>5, BytesReadBack
    <3>7. \A k \in 2..N : k \in 1..N
      BY <1>0
    <3>8. ChainID(Destination(s)) # 0 <=> \E i \in 2..N : s[ChainAt + i] # 0
      <4> HIDE DEF N
      <4> QED  BY <3>5, <3>6, <3>7
    <3> QED  BY <2>2, <3>1, <3>8 DEF Stored, Opens, OpensStaking
  <2> QED  BY <2>1, <2>2
<1>2. ParseVaultTx = IF Stored(s) /\ V >= 2 /\ previous = "found"
                     THEN StakingRecord ELSE Rejected
  BY TxParsed
<1>3. /\ StakingRecord.quorum = s[ChainAt]
      /\ StakingRecord.destination = ChainID(Destination(s))
      /\ StakingRecord.token = SubSeq(s, TokenAt + 1, TokenAt + AddressSize)
      /\ StakingRecord.recipient = SubSeq(s, TokenAt + AddressSize + 1, StakingSize)
      /\ StakingRecord.scriptPubkey = s /\ StakingRecord.amount = values[2]
      /\ StakingRecord.change = IF V >= 3 THEN values[3] ELSE 0
      /\ StakingRecord.type = "staking"
  BY DEF StakingRecord, Staking
<1>4. StakingRecord # Rejected
  <2>1. Rejected.type = "rejected"
    BY DEF Rejected
  <2> QED  BY <1>3, <2>1
<1> HIDE DEF staking
<1>5. ParseVaultTx # Rejected <=> staking /\ Len(values) >= 2 /\ previous = "found"
  BY <1>1, <1>2, <1>4
<1>6. ASSUME NEW tx, tx = ParseVaultTx, tx # Rejected
      PROVE  /\ SubSeq(s, ChainAt, StakingSize) =
                  <<tx.quorum>>
                    \o ToBytes([type |-> s[ChainAt + 1], id |-> tx.destination])
                    \o tx.token \o tx.recipient
             /\ tx.scriptPubkey = s
             /\ tx.amount = values[2]
             /\ tx.change = IF Len(values) = 3 THEN values[3] ELSE 0
  <2>1. tx = StakingRecord /\ Len(s) >= StakingSize
    BY <1>2, <1>6 DEF Stored
  <2>2. SubSeq(s, ChainAt, StakingSize) =
          <<s[ChainAt]>>
            \o ToBytes([type |-> s[ChainAt + 1], id |-> ChainID(Destination(s))])
            \o SubSeq(s, TokenAt + 1, TokenAt + AddressSize)
            \o SubSeq(s, TokenAt + AddressSize + 1, StakingSize)
    BY <2>1, FieldsReadBack
  <2>3. V >= 3 <=> V = 3
    <3>1. V \in Nat /\ V <= 3
      BY <1>0
    <3> HIDE DEF V
    <3> QED  BY <3>1
  <2>4. SubSeq(s, ChainAt, StakingSize) =
          <<tx.quorum>>
            \o ToBytes([type |-> s[ChainAt + 1], id |-> tx.destination])
            \o tx.token \o tx.recipient
    BY <1>3, <2>1, <2>2, Zenon
  <2> QED  BY <1>3, <2>1, <2>3, <2>4
<1> QED  BY <1>5, <1>6, Zenon DEF StakingReadBack, staking

(* The types behind StakingReadBack.                                       *)
VaultTyped == script \in Seq(Bytes) /\ values \in Seq(Nat) /\ Len(values) <= 3

(* A transaction is stored exactly when its first output is a complete     *)
(* staking output for a known chain with a known staker, and the quorum,   *)
(* destination, token and recipient of the stored record are those of its  *)
(* script (ParseVaultTxRawResult, ParseVaultReturnTxOutput and             *)
(* parseVaultTransactionData of parser.go), for any sizes, tag and scripts.*)
THEOREM StakingIsReadBack == VaultSpec => []StakingReadBack
<1>1. VaultInit => VaultTyped
  BY DEF VaultInit, VaultTyped
<1>2. VaultTyped /\ [VaultNext]_vaultVars => VaultTyped'
  <2> SUFFICES ASSUME VaultTyped, [VaultNext]_vaultVars PROVE VaultTyped'
    OBVIOUS
  <2>0. Len(script) \in Nat /\ Len(values) \in Nat
    BY LenProperties DEF VaultTyped
  <2>1. ASSUME Len(script) < Len(ByteAt), NEW byte \in ByteAt[Len(script) + 1],
               script' = Append(script, byte), UNCHANGED <<values, previous>>
        PROVE  VaultTyped'
    <3>1. ByteAt \in Seq(SUBSET Bytes) /\ Len(ByteAt) \in Nat
      BY VaultAssumption, LenProperties
    <3>2. Len(script) + 1 \in 1..Len(ByteAt)
      BY <2>0, <2>1, <3>1
    <3>3. ByteAt[Len(script) + 1] \in SUBSET Bytes
      BY <3>1, <3>2, ElementOfSeq
    <3>4. byte \in Bytes
      BY <3>3
    <3>5. script' \in Seq(Bytes)
      BY <2>1, <3>4, AppendProperties DEF VaultTyped
    <3> QED  BY <2>1, <3>5 DEF VaultTyped
  <2>2. ASSUME Len(values) < 3, values' = Append(values, Len(values) + 1),
               UNCHANGED <<script, previous>>
        PROVE  VaultTyped'
    <3>1. Len(values) + 1 \in Nat
      BY <2>0
    <3>2. values' \in Seq(Nat) /\ Len(values') = Len(values) + 1
      BY <2>2, <3>1, AppendProperties DEF VaultTyped
    <3>3. Len(values') <= 3
      BY <2>0, <2>2, <3>2
    <3> QED  BY <2>2, <3>2, <3>3 DEF VaultTyped
  <2>3. CASE UNCHANGED vaultVars
    BY <2>3 DEF VaultTyped, vaultVars
  <2> QED  BY <2>1, <2>2, <2>3 DEF VaultNext
<1>3. VaultTyped => StakingReadBack
  BY ReadBackOfTyped DEF VaultTyped
<1> QED  BY <1>1, <1>2, <1>3, PTL DEF VaultSpec
=============================================================================
