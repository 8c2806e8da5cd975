---------------------------- MODULE NumberProofs ----------------------------
(***************************************************************************)
(* Induction and division of natural numbers, and the two parts of the     *)
(* system that count in powers of two: the delays between attempts to      *)
(* connect (Backoff), for durations of any width, any base delay and cap   *)
(* that fit it and any number of attempts; and Merkle proofs (MerkleProof) *)
(* of blocks of any size.                                                  *)
(***************************************************************************)
EXTENDS Backoff, MerkleProof, WellFoundedInduction, TLAPS

-----------------------------------------------------------------------------
(* Induction over the natural numbers, for a set in the place of a         *)
(* predicate: the provers do not instantiate operator parameters.          *)
LessThan == {p \in Nat \X Nat : p[1] < p[2]}

LEMMA LessThanWellFounded == IsWellFoundedOn(LessThan, Nat)
<1>1. OpToRel(<, Nat) = {p \in Nat \X Nat : p[1] < p[2]}
  BY Zenon DEF OpToRel
<1>2. OpToRel(<, Nat) = LessThan
  BY <1>1, Zenon DEF LessThan
<1> QED  BY <1>2, NatLessThanWellFounded, Zenon

LEMMA SetInduction ==
    ASSUME NEW S \in SUBSET Nat, 0 \in S, \A n \in S : n + 1 \in S
    PROVE  S = Nat
<1> DEFINE T == Nat \ S
<1> SUFFICES ASSUME T # {} PROVE FALSE
  OBVIOUS
<1> HIDE DEF T
<1>1. PICK x \in T : \A y \in T : ~ (<<y, x>> \in LessThan)
  <2>1. T \subseteq Nat
    BY DEF T
  <2> QED  BY <2>1, LessThanWellFounded, WFMin
<1>2. x \in Nat /\ x # 0
  BY <1>1 DEF T
<1>3. x - 1 \in S
  <2>1. x - 1 \notin T
    <3>1. <<x - 1, x>> \in LessThan
      BY <1>2 DEF LessThan
    <3> QED  BY <3>1, <1>1
  <2> QED  BY <2>1, <1>2 DEF T
<1>4. (x - 1) + 1 = x
  BY <1>2
<1> QED  BY <1>1, <1>3, <1>4 DEF T

-----------------------------------------------------------------------------
(* Division of natural numbers.                                            *)
LEMMA Division ==
    ASSUME NEW x \in Nat, NEW d \in Nat \ {0}
    PROVE  /\ x \div d \in Nat /\ x % d \in Nat /\ x % d < d
           /\ x = d * (x \div d) + (x % d)
<1>1. x \div d \in Nat
  OBVIOUS
<1>2. x % d \in 0..(d - 1)
  OBVIOUS
<1>3. x = d * (x \div d) + (x % d)
  OBVIOUS
<1> QED  BY <1>1, <1>2, <1>3

LEMMA DivisionUnique ==
    ASSUME NEW x \in Nat, NEW d \in Nat \ {0}, NEW q \in Nat, NEW r \in Nat,
           r < d, x = d * q + r
    PROVE  x \div d = q /\ x % d = r
<1>1. x \div d = q
  OBVIOUS
<1>2. x % d = r
  OBVIOUS
<1> QED  BY <1>1, <1>2

(* Names for two equations; the provers match them where they would not    *)
(* match a product or a quotient.                                          *)
IsProduct(d, b, p) == d = b * p
IsQuotient(y, x, d) == y = x \div d

(* A remainder below p, times b, plus one below b, is below the product.   *)
LEMMA BelowProduct ==
    ASSUME NEW b \in Nat \ {0}, NEW p \in Nat \ {0},
           NEW m \in Nat, m < p, NEW n \in Nat, n < b
    PROVE  m * b + n \in Nat /\ m * b + n < b * p
<1>1. m + 1 <= p
  OBVIOUS
<1>2. b * (m + 1) <= b * p
  BY <1>1
<1>3. b * (m + 1) = m * b + b
  OBVIOUS
<1> QED  BY <1>2, <1>3

(* The remainder of a division by a product.                               *)
LEMMA RemainderByProduct ==
    ASSUME NEW y \in Nat, NEW b \in Nat \ {0}, NEW p \in Nat \ {0},
           NEW d \in Nat \ {0}, IsProduct(d, b, p)
    PROVE  y % d = ((y \div b) % p) * b + (y % b)
<1> DEFINE z == y \div b
           q == z \div p
           r == (z % p) * b + (y % b)
<1>1. /\ z \in Nat /\ y % b \in Nat /\ y % b < b
      /\ y = b * z + (y % b)
  BY Division
<1>2. /\ q \in Nat /\ z % p \in Nat /\ z % p < p
      /\ z = p * q + (z % p)
  BY <1>1, Division
<1>3. d = b * p
  BY DEF IsProduct
<1>4. r \in Nat /\ r < b * p
  BY <1>1, <1>2, BelowProduct
<1>5. y = (b * p) * q + r
  <2>1. \A k, m, n \in Nat : b * (p * k + m) + n = (b * p) * k + (m * b + n)
    OBVIOUS
  <2> HIDE DEF z, q
  <2>2. b * (p * q + (z % p)) + (y % b) = (b * p) * q + ((z % p) * b + (y % b))
    BY <2>1, <1>1, <1>2
  <2>3. y = b * (p * q + (z % p)) + (y % b)
    BY <1>1, <1>2
  <2> QED  BY <2>2, <2>3
<1> HIDE DEF z, q, r
<1>6. y % d = r
  BY <1>2, <1>3, <1>4, <1>5, DivisionUnique
<1> QED  BY <1>6 DEF z, q, r

(* To divide by a product is to divide by one factor and then the other.   *)
LEMMA QuotientByProduct ==
    ASSUME NEW x \in Nat, NEW b \in Nat \ {0}, NEW low \in Nat \ {0},
           NEW high \in Nat \ {0}, IsProduct(high, b, low),
           NEW y \in Nat, IsQuotient(y, x, low)
    PROVE  x \div high = y \div b
<1> DEFINE z == y \div b
           r == (y % b) * low + (x % low)
<1>1. x % low \in Nat /\ x % low < low /\ x = low * y + (x % low)
  BY Division DEF IsQuotient
<1>2. z \in Nat /\ y % b \in Nat /\ y % b < b /\ y = b * z + (y % b)
  BY Division
<1>3. high = low * b
  BY DEF IsProduct
<1>4. r \in Nat /\ r < low * b
  BY <1>1, <1>2, BelowProduct
<1>5. x = (low * b) * z + r
  <2>1. \A k, m, n \in Nat : low * (b * k + m) + n = (low * b) * k + (m * low + n)
    OBVIOUS
  <2> HIDE DEF z
  <2>2. low * (b * z + (y % b)) + (x % low) = (low * b) * z + r
    BY <2>1, <1>1, <1>2
  <2>3. x = low * (b * z + (y % b)) + (x % low)
    BY <1>1, <1>2
  <2> QED  BY <2>2, <2>3
<1> HIDE DEF z, r
<1>6. x \div high = z
  BY <1>2, <1>3, <1>4, <1>5, DivisionUnique
<1> QED  BY <1>6 DEF z

(* One more digit: low is the place value of the digit that is added, high *)
(* the one of the digit before; above and upTo are what is left of x from  *)
(* these places on.                                                        *)
AddsDigit(above, p, b, upTo, wide) == (above % p) * b + (upTo % b) = upTo % wide

LEMMA NextDigit ==
    ASSUME NEW x \in Nat, NEW b \in Nat \ {0}, NEW low \in Nat \ {0},
           NEW p \in Nat \ {0},
           NEW high \in Nat \ {0}, IsProduct(high, b, low),
           NEW wide \in Nat \ {0}, IsProduct(wide, b, p),
           NEW above \in Nat, IsQuotient(above, x, high),
           NEW upTo \in Nat, IsQuotient(upTo, x, low)
    PROVE  AddsDigit(above, p, b, upTo, wide)
<1>1. x \div high = upTo \div b
  BY QuotientByProduct
<1>2. above = upTo \div b
  BY <1>1 DEF IsQuotient
<1>3. upTo % wide = ((upTo \div b) % p) * b + (upTo % b)
  BY RemainderByProduct
<1> QED  BY <1>2, <1>3 DEF AddsDigit

-----------------------------------------------------------------------------
(* The delays between attempts to connect.                                 *)
BackoffInv ==
    /\ reconnectAttempts \in 0..MaxAttempts
    /\ delay \in Int /\ delay <= MaxDelay

(* The word, its positive half, and twice the cap.                         *)
LEMMA WordBounds ==
    /\ 2 ^ DurationBits \in Nat \ {0} /\ 2 ^ (DurationBits - 1) \in Nat \ {0}
    /\ 2 ^ DurationBits = 2 * 2 ^ (DurationBits - 1)
    /\ 2 * MaxDelay < 2 ^ (DurationBits - 1)
<1>1. DurationBits \in Nat \ {0, 1} /\ MaxAttempts \in Nat /\ MaxDelay \in Nat
    BY BackoffAssumption
<1>2. /\ DurationBits - 2 \in 0..(DurationBits + MaxAttempts)
      /\ DurationBits - 1 \in 0..(DurationBits + MaxAttempts)
      /\ DurationBits \in 0..(DurationBits + MaxAttempts)
      /\ (DurationBits - 2) + 1 = DurationBits - 1 /\ (DurationBits - 1) + 1 = DurationBits
    BY <1>1
<1>3. /\ 2 ^ (DurationBits - 2) \in Nat \ {0}
      /\ 2 ^ (DurationBits - 1) = 2 * 2 ^ (DurationBits - 2)
    BY <1>2, PowersOfTwo
<1>4. /\ 2 ^ (DurationBits - 1) \in Nat \ {0}
      /\ 2 ^ DurationBits = 2 * 2 ^ (DurationBits - 1)
      /\ 2 ^ DurationBits \in Nat \ {0}
    BY <1>2, PowersOfTwo
<1>5. MaxDelay < 2 ^ (DurationBits - 2)
    BY BackoffAssumption
<1>6. \A half, quarter, cap \in Nat :
        half = 2 * quarter /\ cap < quarter => 2 * cap < half
    OBVIOUS
<1> QED
    BY <1>1, <1>3, <1>4, <1>5, <1>6

(* A number that fits the word is its own duration.                        *)
LEMMA DurationType == ASSUME NEW n \in Int PROVE Duration(n) \in Int
<1>1. n % 2 ^ DurationBits \in Int
    BY WordBounds
<1> QED
    BY <1>1, WordBounds DEF Duration

LEMMA DurationFits ==
    ASSUME NEW n \in Nat, n < 2 ^ (DurationBits - 1)
    PROVE  Duration(n) = n
<1>1. \A word, half \in Nat \ {0} : word = 2 * half /\ n < half => n % word = n
    OBVIOUS
<1>2. n % 2 ^ DurationBits = n
    BY <1>1, WordBounds
<1> QED
    BY <1>2 DEF Duration

LEMMA ReconnectCapped ==
    ASSUME reconnectAttempts \in 0..MaxAttempts
    PROVE  ReconnectDelay \in Int /\ ReconnectDelay <= MaxDelay
<1>1. MaxDelay \in Nat /\ BaseDelay \in Nat /\ reconnectAttempts \in Nat
    BY BackoffAssumption
<1> DEFINE shifted == Duration(2 ^ reconnectAttempts)
           wanted  == Duration(BaseDelay * shifted)
<1>2. shifted \in Int
    BY <1>1, DurationType
<1>3. wanted \in Int
    BY <1>1, <1>2, DurationType
<1>4. ReconnectDelay = IF wanted > MaxDelay THEN MaxDelay ELSE wanted
    BY DEF ReconnectDelay
<1> HIDE DEF wanted
<1> QED
    BY <1>1, <1>3, <1>4

LEMMA ReconnectIsIdeal ==
    ASSUME reconnectAttempts \in 0..MaxAttempts,
           BaseDelay * 2 ^ reconnectAttempts < 2 ^ (DurationBits - 1)
    PROVE  ReconnectDelay = LET ideal == BaseDelay * 2 ^ reconnectAttempts
                            IN  IF ideal > MaxDelay THEN MaxDelay ELSE ideal
<1> DEFINE power == 2 ^ reconnectAttempts
<1>1. power \in Nat \ {0}
  <2>1. reconnectAttempts \in 0..(DurationBits + MaxAttempts)
    BY BackoffAssumption
  <2> QED
    BY <2>1, PowersOfTwo
<1>2. BaseDelay * power < 2 ^ (DurationBits - 1)
    OBVIOUS
<1>3. ReconnectDelay = LET wanted == Duration(BaseDelay * Duration(power))
                       IN  IF wanted > MaxDelay THEN MaxDelay ELSE wanted
    BY DEF ReconnectDelay
<1> HIDE DEF power
<1>4. BaseDelay \in Nat \ {0}
    BY BackoffAssumption
<1>5. /\ BaseDelay * power \in Nat
      /\ power <= BaseDelay * power /\ BaseDelay <= BaseDelay * power
    BY <1>1, <1>4
<1>6. power < 2 ^ (DurationBits - 1)
    BY <1>1, <1>2, <1>5, WordBounds
<1>7. Duration(power) = power
    BY <1>1, <1>6, DurationFits
<1>8. Duration(BaseDelay * power) = BaseDelay * power
    BY <1>2, <1>5, DurationFits
<1> QED
    BY <1>3, <1>7, <1>8 DEF power

(* While the word holds the shifted delay, Reconnect sleeps exactly for    *)
(* the base delay doubled for every failed attempt, up to the cap, which   *)
(* it never passes, for any width, delays and number of attempts.          *)
THEOREM DelaysStayBounded == BackoffSpec => []ReconnectBacksOff
<1>1. BackoffInit => BackoffInv
    BY BackoffAssumption DEF BackoffInit, BackoffInv
<1>2. ASSUME BackoffInv, [BackoffNext]_backoffVars
      PROVE  BackoffInv'
  <2>1. ASSUME NEW ok \in BOOLEAN, ReconnectAfter(ok)
        PROVE  BackoffInv'
    <3>1. reconnectAttempts' \in 0..MaxAttempts
      <4>1. CASE ok
        <5>1. reconnectAttempts' = 0
            BY <2>1, <4>1 DEF ReconnectAfter
        <5> QED
            BY <5>1, BackoffAssumption
      <4>2. CASE ~ok
        <5>1. reconnectAttempts < MaxAttempts /\ reconnectAttempts' = reconnectAttempts + 1
            BY <2>1, <4>2 DEF ReconnectAfter
        <5> QED
            BY <1>2, <5>1, BackoffAssumption DEF BackoffInv
      <4> QED
        BY <4>1, <4>2
    <3>2. delay' \in Int /\ delay' <= MaxDelay
        BY <1>2, <2>1, ReconnectCapped DEF ReconnectAfter, BackoffInv
    <3> QED
        BY <1>2, <2>1, <3>1, <3>2 DEF ReconnectAfter, BackoffInv
  <2>2. ASSUME NEW ok \in BOOLEAN, SubscribeAllEvents(ok)
        PROVE  BackoffInv'
    BY <1>2, <2>2 DEF SubscribeAllEvents, BackoffInv
  <2>3. CASE ConnectFails
    BY <1>2, <2>3 DEF ConnectFails, BackoffInv
  <2>4. CASE UNCHANGED backoffVars
    BY <1>2, <2>4 DEF backoffVars, BackoffInv
  <2> QED
    BY <1>2, <2>1, <2>2, <2>3, <2>4 DEF BackoffNext
<1>3. BackoffInv => ReconnectBacksOff
    BY ReconnectIsIdeal DEF BackoffInv, ReconnectBacksOff
<1> QED
    BY <1>1, <1>2, <1>3, PTL DEF BackoffSpec

-----------------------------------------------------------------------------
(* Merkle proofs.  WidthOf, IsTree and IsFold say of a number of           *)
(* transactions, a position and a path what Width, Node and                *)
(* VerifyMerkleProof say of the state.                                     *)
WidthOf(count, height) == (count + 2 ^ height - 1) \div 2 ^ height

Right(count, height, p) ==
    IF 2 * p + 1 < WidthOf(count, height) THEN 2 * p + 1 ELSE 2 * p

TreeAt(count, f, h) ==
    [p \in 0..(WidthOf(count, h) - 1) |->
        IF h = 0 THEN Tx(p)
        ELSE <<f[h - 1][2 * p], f[h - 1][Right(count, h - 1, p)]>>]

IsTree(count, height, f) == f = [h \in 0..height |-> TreeAt(count, f, h)]

(* The hashes are a level of the block's tree.                             *)
IsLevel(count, height, hashes) ==
    /\ \E S : hashes \in Seq(S)
    /\ Len(hashes) = WidthOf(count, height)
    /\ \E f : IsTree(count, height, f)
    /\ \A f : IsTree(count, height, f) =>
        \A i \in 1..Len(hashes) : hashes[i] = f[height][i - 1]

PaddedOf(hashes) ==
    IF Len(hashes) % 2 # 0 THEN Append(hashes, hashes[Len(hashes)]) ELSE hashes

(* The nodes of a level are half of those below, rounded up.               *)
LEMMA WidthHalves ==
    ASSUME NEW count \in Nat \ {0}, NEW h \in 0..MaxTxs
    PROVE  /\ WidthOf(count, h) \in Nat
           /\ WidthOf(count, h + 1) = (WidthOf(count, h) + 1) \div 2
<1> DEFINE P == 2 ^ h
           high == 2 ^ (h + 1)
           y == (count + P - 1) \div P
           x == count + high - 1
<1>1. P \in Nat \ {0} /\ high = 2 * P
  BY LevelPowers
<1>a. IsProduct(high, 2, P)
  BY <1>1 DEF IsProduct
<1> HIDE DEF P, high
<1>2. high \in Nat \ {0} /\ count + P - 1 \in Nat /\ x \in Nat /\ x = (count + P - 1) + P
  BY <1>1
<1>3. y \in Nat
  BY <1>1, <1>2, Division
<1>4. IsQuotient(y + 1, x, P)
  <2> DEFINE z == count + P - 1
             r == z % P
  <2>1. r \in Nat /\ r < P /\ z = P * y + r
    BY <1>1, <1>2, Division
  <2>2. x = P * y + r + P
    BY <2>1, <1>2
  <2> HIDE DEF y, x, z, r
  <2>3. P * (y + 1) + r = P * y + r + P
    BY <1>1, <1>3, <2>1
  <2>4. x = P * (y + 1) + r /\ y + 1 \in Nat
    BY <2>2, <2>3, <1>3
  <2>5. x \div P = y + 1
    BY <2>1, <2>4, <1>1, <1>2, DivisionUnique
  <2> QED  BY <2>5 DEF IsQuotient
<1> HIDE DEF x, y
<1>5. y + 1 \in Nat /\ 2 \in Nat \ {0}
  BY <1>3
<1>6. x \div high = (y + 1) \div 2
  BY <1>1, <1>2, <1>4, <1>5, <1>a, QuotientByProduct
<1> QED  BY <1>3, <1>6 DEF WidthOf, x, y, P, high

(* A tree stays one when its top level is taken off, and can be given one. *)
LEMMA TreeLower ==
    ASSUME NEW count, NEW h \in Nat, NEW f, IsTree(count, h + 1, f)
    PROVE  IsTree(count, h, [k \in 0..h |-> f[k]])
<1> DEFINE g == [k \in 0..h |-> f[k]]
<1>1. \A k \in 0..(h + 1) : f[k] = TreeAt(count, f, k)
  BY DEF IsTree
<1>2. ASSUME NEW k \in 0..h PROVE g[k] = TreeAt(count, g, k)
  <2>1. k \in 0..(h + 1) /\ (k # 0 => k - 1 \in 0..h)
    OBVIOUS
  <2>2. k # 0 => g[k - 1] = f[k - 1]
    BY <2>1
  <2>3. TreeAt(count, g, k) = TreeAt(count, f, k)
    <3> HIDE DEF g
    <3>1. CASE k = 0
      BY <3>1 DEF TreeAt
    <3>2. CASE k # 0
      BY <3>2, <2>2 DEF TreeAt
    <3> QED  BY <3>1, <3>2
  <2>4. g[k] = f[k]
    OBVIOUS
  <2> HIDE DEF g
  <2> QED  BY <2>1, <2>3, <2>4, <1>1
<1>3. g = [k \in 0..h |-> g[k]]
  OBVIOUS
<1> HIDE DEF g
<1>4. g = [k \in 0..h |-> TreeAt(count, g, k)]
  BY <1>2, <1>3
<1>5. IsTree(count, h, g)
  BY <1>4 DEF IsTree
<1> QED  BY <1>5 DEF g

LEMMA TreeHigher ==
    ASSUME NEW count, NEW h \in Nat, NEW f, IsTree(count, h, f)
    PROVE  \E g : IsTree(count, h + 1, g)
<1> DEFINE top == TreeAt(count, f, h + 1)
           g == [k \in 0..(h + 1) |-> IF k = h + 1 THEN top ELSE f[k]]
<1> HIDE DEF top
<1>1. \A k \in 0..h : f[k] = TreeAt(count, f, k)
  BY DEF IsTree
<1>2. \A k \in 0..h : k \in 0..(h + 1) /\ k # h + 1
  OBVIOUS
<1>3. \A k \in 0..h : g[k] = f[k]
  BY <1>2
<1>4. ASSUME NEW k \in 0..(h + 1) PROVE g[k] = TreeAt(count, g, k)
  <2>1. k # 0 => k - 1 \in 0..h
    OBVIOUS
  <2>2. k # 0 => g[k - 1] = f[k - 1]
    BY <2>1, <1>3
  <2>3. g[k] = TreeAt(count, f, k)
    <3>1. CASE k = h + 1
      BY <3>1 DEF top
    <3>2. CASE k # h + 1
      <4>1. k \in 0..h
        BY <3>2
      <4> QED  BY <4>1, <1>1, <1>3
    <3> QED  BY <3>1, <3>2
  <2> HIDE DEF g
  <2>4. TreeAt(count, g, k) = TreeAt(count, f, k)
    <3>1. CASE k = 0
      BY <3>1 DEF TreeAt
    <3>2. CASE k # 0
      BY <3>2, <2>2 DEF TreeAt
    <3> QED  BY <3>1, <3>2
  <2> QED  BY <2>3, <2>4
<1>5. g = [k \in 0..(h + 1) |-> g[k]]
  OBVIOUS
<1> HIDE DEF g
<1>6. g = [k \in 0..(h + 1) |-> TreeAt(count, g, k)]
  BY <1>4, <1>5
<1> QED  BY <1>6 DEF IsTree

(* An odd level is padded with its last hash.                              *)
LEMMA PaddedHashes ==
    ASSUME NEW S, NEW w \in Seq(S), NEW W \in Nat \ {0}, W = Len(w)
    PROVE  /\ PaddedOf(w) \in Seq(S)
           /\ Len(PaddedOf(w)) = 2 * ((W + 1) \div 2)
           /\ \A i \in 1..W : PaddedOf(w)[i] = w[i]
           /\ W % 2 # 0 => PaddedOf(w)[W + 1] = w[W]
<1>1. w[W] \in S
  OBVIOUS
<1>2. CASE W % 2 # 0
  <2> DEFINE last == w[W]
             p == Append(w, last)
  <2>1. PaddedOf(w) = p
    BY <1>2 DEF PaddedOf
  <2> HIDE DEF last
  <2>2. last \in S
    BY <1>1 DEF last
  <2>3. /\ p \in Seq(S) /\ Len(p) = W + 1
        /\ \A i \in 1..W : p[i] = w[i]
        /\ p[W + 1] = last
    BY <2>2
  <2>4. W + 1 = 2 * ((W + 1) \div 2)
    BY <1>2
  <2> HIDE DEF p
  <2> QED  BY <2>1, <2>3, <2>4 DEF last
<1>3. CASE W % 2 = 0
  <2>1. PaddedOf(w) = w
    BY <1>3 DEF PaddedOf
  <2>2. W = 2 * ((W + 1) \div 2)
    BY <1>3
  <2> QED  BY <2>1, <2>2, <1>3
<1> QED  BY <1>2, <1>3

(* A round of the loop turns a level of the tree into the one above.       *)
LEMMA LevelAbove ==
    ASSUME NEW count \in Nat \ {0}, NEW h \in 0..MaxTxs, NEW w, IsLevel(count, h, w),
           Len(w) \in Nat \ {0}
    PROVE  /\ IsLevel(count, h + 1, NextLevel(PaddedOf(w)))
           /\ Len(NextLevel(PaddedOf(w))) = (Len(w) + 1) \div 2
<1> DEFINE p == PaddedOf(w)
           next == NextLevel(p)
           W == Len(w)
           half == (W + 1) \div 2
<1>1. PICK S : w \in Seq(S)
  BY DEF IsLevel
<1>2. W \in Nat \ {0} /\ W = Len(w) /\ W = WidthOf(count, h)
  BY DEF IsLevel
<1> HIDE DEF W
<1>3. /\ p \in Seq(S) /\ Len(p) = 2 * half
      /\ \A i \in 1..W : p[i] = w[i]
      /\ W % 2 # 0 => p[W + 1] = w[W]
  BY <1>1, <1>2, PaddedHashes
<1> HIDE DEF p
<1>4. half \in Nat /\ (2 * half) \div 2 = half /\ W <= 2 * half /\ 2 * half <= W + 1
  <2>1. half \in Nat /\ W <= 2 * half /\ 2 * half <= W + 1
    BY <1>2
  <2> HIDE DEF half
  <2>2. \A n \in Nat : (2 * n) \div 2 = n
    OBVIOUS
  <2>3. (2 * half) \div 2 = half
    BY <2>1, <2>2
  <2> QED  BY <2>1, <2>3
<1>5. half = WidthOf(count, h + 1)
  BY <1>2, WidthHalves
<1> HIDE DEF half
<1>6. next = [i \in 1..half |-> <<p[2 * i - 1], p[2 * i]>>]
  BY <1>3, <1>4 DEF NextLevel
<1>7. next \in Seq(S \X S) /\ Len(next) = half
  <2>1. \A i \in 1..half : 2 * i - 1 \in 1..(2 * half) /\ 2 * i \in 1..(2 * half)
    BY <1>4
  <2>2. \A i \in 1..half : <<p[2 * i - 1], p[2 * i]>> \in S \X S
    BY <2>1, <1>3
  <2> HIDE DEF next
  <2> QED  BY <2>2, <1>6, <1>4
<1> HIDE DEF next
<1>8. \E f : IsTree(count, h + 1, f)
  <2>1. PICK f : IsTree(count, h, f)
    BY DEF IsLevel
  <2> QED  BY <2>1, TreeHigher
<1>9. ASSUME NEW f, IsTree(count, h + 1, f), NEW i \in 1..half
      PROVE  next[i] = f[h + 1][i - 1]
  <2> DEFINE g == [k \in 0..h |-> f[k]]
             q == i - 1
             right == Right(count, h, q)
  <2>1. IsTree(count, h, g)
    BY <1>9, TreeLower
  <2>2. h \in 0..h /\ g[h] = f[h]
    OBVIOUS
  <2> HIDE DEF g
  <2>3. \A j \in 1..W : w[j] = f[h][j - 1]
    BY <2>1, <2>2, <1>2 DEF IsLevel
  <2>4. f[h + 1] = TreeAt(count, f, h + 1)
    BY <1>9 DEF IsTree
  <2>5. q \in 0..(half - 1) /\ h + 1 # 0 /\ (h + 1) - 1 = h
    BY <1>4
  <2>6. f[h + 1][q] = <<f[h][2 * q], f[h][right]>>
    BY <2>4, <2>5, <1>5 DEF TreeAt
  <2>7. next[i] = <<p[2 * i - 1], p[2 * i]>>
    BY <1>6
  <2>8. p[2 * i - 1] = f[h][2 * q]
    <3>1. 2 * i - 1 \in 1..W /\ (2 * i - 1) - 1 = 2 * q
      BY <1>2, <1>4
    <3> QED  BY <3>1, <2>3, <1>3
  <2>9. p[2 * i] = f[h][right]
    <3>1. CASE 2 * i <= W
      <4>1. 2 * i \in 1..W /\ 2 * i - 1 = 2 * q + 1 /\ 2 * q + 1 < W
        BY <3>1, <1>2, <1>4
      <4>2. right = 2 * q + 1
        BY <4>1, <1>2 DEF Right
      <4> HIDE DEF q, right
      <4> QED  BY <4>1, <4>2, <2>3, <1>3
    <3>2. CASE ~ 2 * i <= W
      <4>1. 2 * i = W + 1 /\ W = 2 * q + 1 /\ W \in 1..W /\ W - 1 = 2 * q /\ W % 2 # 0
        BY <3>2, <1>2, <1>4
      <4>2. right = 2 * q
        BY <4>1, <1>2 DEF Right
      <4>3. p[W + 1] = w[W]
        BY <4>1, <1>3
      <4>4. w[W] = f[h][W - 1]
        BY <4>1, <2>3
      <4> HIDE DEF q, right
      <4> QED  BY <4>1, <4>2, <4>3, <4>4
    <3> QED  BY <3>1, <3>2
  <2> QED  BY <2>6, <2>7, <2>8, <2>9
<1>10. IsLevel(count, h + 1, next)
  BY <1>5, <1>7, <1>8, <1>9 DEF IsLevel
<1> QED  BY <1>7, <1>10 DEF next, p, half, W

(* The hashes VerifyMerkleProof computes from a transaction up the path.   *)
FoldAt(position, t, path, c, i) ==
    IF i = 0 THEN Tx(t)
    ELSE IF (position \div 2 ^ (i - 1)) % 2 = 0
         THEN <<c[i - 1], path[i]>>
         ELSE <<path[i], c[i - 1]>>

IsFold(position, t, path, n, c) ==
    c = [i \in 0..n |-> FoldAt(position, t, path, c, i)]

(* The path leads from the transaction at the position to the hash, and    *)
(* from no other.                                                          *)
LeadsTo(count, position, path, n, hash) ==
    \A t \in 0..(count - 1) :
        /\ \E c : IsFold(position, t, path, n, c)
        /\ \A c : IsFold(position, t, path, n, c) => (c[n] = hash <=> t = position)

(* The hash of a node and its sibling, in the order of the bit.            *)
Parent(bit, hash, sibling) ==
    IF bit = 0 THEN <<hash, sibling>> ELSE <<sibling, hash>>

LEMMA LeadsFurther ==
    ASSUME NEW count, NEW position, NEW S, NEW path \in Seq(S), NEW hash, NEW sibling,
           NEW n \in Nat, n = Len(path), LeadsTo(count, position, path, n, hash)
    PROVE  LeadsTo(count, position, Append(path, sibling), n + 1,
                   Parent((position \div 2 ^ n) % 2, hash, sibling))
<1> DEFINE long == Append(path, sibling)
           bit == (position \div 2 ^ n) % 2
           up == Parent(bit, hash, sibling)
<1>1. (\A i \in 1..n : long[i] = path[i]) /\ long[n + 1] = sibling
  <2>1. path \in Seq(S \cup {sibling})
    OBVIOUS
  <2> QED  BY <2>1
<1> HIDE DEF long, bit, up
<1>2. SUFFICES ASSUME NEW t \in 0..(count - 1)
               PROVE  /\ \E c : IsFold(position, t, long, n + 1, c)
                      /\ \A c : IsFold(position, t, long, n + 1, c) =>
                            (c[n + 1] = up <=> t = position)
  BY DEF LeadsTo, long, bit, up
<1>3. \A c, d : \A i \in 0..n :
        (i # 0 => c[i - 1] = d[i - 1]) =>
            FoldAt(position, t, long, c, i) = FoldAt(position, t, path, d, i)
  <2> SUFFICES ASSUME NEW c, NEW d, NEW i \in 0..n, i # 0 => c[i - 1] = d[i - 1]
               PROVE  FoldAt(position, t, long, c, i) = FoldAt(position, t, path, d, i)
    OBVIOUS
  <2>1. CASE i = 0
    BY <2>1 DEF FoldAt
  <2>2. CASE i # 0
    <3>1. i \in 1..n
      BY <2>2
    <3>2. long[i] = path[i] /\ c[i - 1] = d[i - 1]
      BY <3>1, <2>2, <1>1
    <3> QED  BY <3>2, <2>2 DEF FoldAt
  <2> QED  BY <2>1, <2>2
<1>4. \E c : IsFold(position, t, long, n + 1, c)
  <2>1. PICK d : IsFold(position, t, path, n, d)
    BY DEF LeadsTo
  <2> DEFINE top == FoldAt(position, t, long, d, n + 1)
             c == [i \in 0..(n + 1) |-> IF i = n + 1 THEN top ELSE d[i]]
  <2> HIDE DEF top
  <2>2. \A i \in 0..n : d[i] = FoldAt(position, t, path, d, i)
    BY <2>1 DEF IsFold
  <2>3. \A i \in 0..n : i \in 0..(n + 1) /\ i # n + 1
    OBVIOUS
  <2>4. \A i \in 0..n : c[i] = d[i]
    BY <2>3
  <2>5. ASSUME NEW i \in 0..(n + 1) PROVE c[i] = FoldAt(position, t, long, c, i)
    <3>1. i # 0 => i - 1 \in 0..n
      OBVIOUS
    <3>2. i # 0 => c[i - 1] = d[i - 1]
      BY <3>1, <2>4
    <3>3. CASE i = n + 1
      <4>1. c[i] = top /\ i # 0
        BY <3>3
      <4> HIDE DEF c
      <4>2. FoldAt(position, t, long, c, i) = FoldAt(position, t, long, d, i)
        BY <4>1, <3>2 DEF FoldAt
      <4> QED  BY <4>1, <4>2, <3>3 DEF top
    <3>4. CASE i # n + 1
      <4>1. i \in 0..n
        BY <3>4
      <4>2. c[i] = d[i]
        BY <4>1, <2>4
      <4> HIDE DEF c
      <4>3. FoldAt(position, t, long, c, i) = FoldAt(position, t, path, d, i)
        BY <4>1, <3>2, <1>3
      <4> QED  BY <4>1, <4>2, <4>3, <2>2
    <3> QED  BY <3>3, <3>4
  <2>6. c = [i \in 0..(n + 1) |-> c[i]]
    OBVIOUS
  <2> HIDE DEF c
  <2>7. c = [i \in 0..(n + 1) |-> FoldAt(position, t, long, c, i)]
    BY <2>5, <2>6
  <2> QED  BY <2>7 DEF IsFold
<1>5. ASSUME NEW c, IsFold(position, t, long, n + 1, c)
      PROVE  c[n + 1] = up <=> t = position
  <2> DEFINE d == [i \in 0..n |-> c[i]]
  <2>1. \A i \in 0..(n + 1) : c[i] = FoldAt(position, t, long, c, i)
    BY <1>5 DEF IsFold
  <2>2. ASSUME NEW i \in 0..n PROVE d[i] = FoldAt(position, t, path, d, i)
    <3>1. i \in 0..(n + 1) /\ (i # 0 => i - 1 \in 0..n)
      OBVIOUS
    <3>2. d[i] = c[i] /\ (i # 0 => c[i - 1] = d[i - 1])
      BY <3>1
    <3> HIDE DEF d
    <3>3. FoldAt(position, t, long, c, i) = FoldAt(position, t, path, d, i)
      BY <3>2, <1>3
    <3> QED  BY <3>1, <3>2, <3>3, <2>1
  <2>3. d = [i \in 0..n |-> d[i]] /\ d[n] = c[n]
    OBVIOUS
  <2> HIDE DEF d
  <2>4. d = [i \in 0..n |-> FoldAt(position, t, path, d, i)]
    BY <2>2, <2>3
  <2>5. IsFold(position, t, path, n, d)
    BY <2>4 DEF IsFold
  <2>6. c[n] = hash <=> t = position
    BY <2>3, <2>5 DEF LeadsTo
  <2>7. c[n + 1] = Parent(bit, c[n], sibling)
    <3>1. n + 1 \in 0..(n + 1) /\ n + 1 # 0 /\ (n + 1) - 1 = n
      OBVIOUS
    <3>2. c[n + 1] = FoldAt(position, t, long, c, n + 1)
      BY <3>1, <2>1
    <3> QED  BY <3>1, <3>2, <1>1 DEF FoldAt, Parent, bit
  <2>8. Parent(bit, c[n], sibling) = Parent(bit, hash, sibling) <=> c[n] = hash
    BY DEF Parent
  <2> QED  BY <2>6, <2>7, <2>8 DEF up
<1> QED  BY <1>4, <1>5

(* A round replaces a node's hash by its parent's.                         *)
LEMMA ParentAbove ==
    ASSUME NEW S, NEW w \in Seq(S), NEW W \in Nat \ {0}, W = Len(w),
           NEW index \in 0..(W - 1)
    PROVE  /\ Sibling(index) \in Nat
           /\ Sibling(index) \div 2 = index \div 2
           /\ index \div 2 \in 0..((W + 1) \div 2 - 1)
           /\ NextLevel(PaddedOf(w))[index \div 2 + 1] =
                Parent(index % 2, w[index + 1], PaddedOf(w)[Sibling(index) + 1])
<1> DEFINE p == PaddedOf(w)
           q == index \div 2
           half == (W + 1) \div 2
<1>1. index \in Nat /\ q \in Nat /\ half \in Nat
  OBVIOUS
<1>2. \/ index % 2 = 0 /\ index = 2 * q
      \/ index % 2 = 1 /\ index = 2 * q + 1
  BY <1>1
<1>3. q \in 0..(half - 1) /\ q + 1 \in 1..half
  BY <1>1
<1>4. Sibling(index) \in Nat /\ Sibling(index) \div 2 = q
  <2>1. CASE index % 2 = 0
    BY <2>1, <1>1 DEF Sibling
  <2>2. CASE index % 2 = 1
    BY <2>2, <1>1 DEF Sibling
  <2> QED  BY <2>1, <2>2, <1>2
<1>5. Len(p) = 2 * half /\ \A i \in 1..W : p[i] = w[i]
  BY PaddedHashes
<1>6. \A n \in Nat : (2 * n) \div 2 = n
  OBVIOUS
<1> HIDE DEF p, half
<1>7. NextLevel(p) = [i \in 1..half |-> <<p[2 * i - 1], p[2 * i]>>]
  BY <1>1, <1>5, <1>6 DEF NextLevel
<1>8. index + 1 \in 1..W /\ p[index + 1] = w[index + 1]
  BY <1>5
<1> HIDE DEF q
<1>9. NextLevel(p)[q + 1] = <<p[2 * q + 1], p[2 * q + 2]>>
  <2>1. 2 * (q + 1) - 1 = 2 * q + 1 /\ 2 * (q + 1) = 2 * q + 2
    BY <1>1
  <2> QED  BY <2>1, <1>3, <1>7
<1>10. NextLevel(p)[q + 1] = Parent(index % 2, w[index + 1], p[Sibling(index) + 1])
  <2>1. CASE index % 2 = 0 /\ index = 2 * q
    <3>1. Sibling(index) + 1 = 2 * q + 2 /\ index + 1 = 2 * q + 1
      BY <2>1, <1>1 DEF Sibling
    <3> QED  BY <2>1, <3>1, <1>8, <1>9 DEF Parent
  <2>2. CASE index % 2 = 1 /\ index = 2 * q + 1
    <3>1. Sibling(index) + 1 = 2 * q + 1 /\ index + 1 = 2 * q + 2
      BY <2>2, <1>1 DEF Sibling
    <3> QED  BY <2>2, <3>1, <1>8, <1>9 DEF Parent
  <2> QED  BY <2>1, <2>2, <1>2
<1> QED  BY <1>3, <1>4, <1>10 DEF p, q, half

(* What every round keeps: the hashes are a level of the tree, the index   *)
(* is the place of the transaction's ancestor in it, and the path so far   *)
(* leads there from the transaction and from no other.                     *)
MerkleInv ==
    /\ txCount \in 1..MaxTxs /\ txPosition \in 0..(txCount - 1)
    /\ \E S : merkle \in Seq(S)
    /\ Len(workingHashes) \in Nat \ {0}
    /\ Len(merkle) + Len(workingHashes) <= txCount
    /\ workingIndex = txPosition \div 2 ^ Len(merkle)
    /\ workingIndex \in 0..(Len(workingHashes) - 1)
    /\ IsLevel(txCount, Len(merkle), workingHashes)
    /\ LeadsTo(txCount, txPosition, merkle, Len(merkle), workingHashes[workingIndex + 1])

LEMMA MerkleInitially == MerkleInit => MerkleInv
<1> SUFFICES ASSUME MerkleInit PROVE MerkleInv
  OBVIOUS
<1>1. /\ txCount \in 1..MaxTxs /\ txPosition \in 0..(txCount - 1)
      /\ workingHashes = [i \in 1..txCount |-> Tx(i - 1)]
      /\ workingIndex = txPosition /\ merkle = << >>
  BY DEF MerkleInit
<1>2. MaxTxs \in Nat /\ 2 ^ 0 = 1
  BY MerkleAssumption, LevelPowers
<1>3. merkle \in Seq({}) /\ Len(merkle) = 0
  BY <1>1
<1>4. workingHashes \in Seq({Tx(k) : k \in Nat}) /\ Len(workingHashes) = txCount
  <2>1. \A i \in 1..txCount : Tx(i - 1) \in {Tx(k) : k \in Nat}
    BY <1>1, <1>2
  <2> QED  BY <2>1, <1>1, <1>2
<1>5. txPosition \div 2 ^ 0 = txPosition /\ WidthOf(txCount, 0) = txCount
  <2>1. \A n \in Nat : n \div 1 = n
    OBVIOUS
  <2>2. txCount \in Nat /\ txPosition \in Nat /\ (txCount + 1) - 1 = txCount
    BY <1>1, <1>2
  <2> QED  BY <2>1, <2>2, <1>2 DEF WidthOf
<1>6. IsLevel(txCount, 0, workingHashes)
  <2>1. IsTree(txCount, 0, [h \in 0..0 |-> [p \in 0..(txCount - 1) |-> Tx(p)]])
    <3> DEFINE f == [h \in 0..0 |-> [p \in 0..(txCount - 1) |-> Tx(p)]]
    <3>1. \A h \in 0..0 : h = 0
      OBVIOUS
    <3>2. TreeAt(txCount, f, 0) = [p \in 0..(txCount - 1) |-> Tx(p)]
      BY <1>5 DEF TreeAt
    <3> QED  BY <3>1, <3>2 DEF IsTree
  <2>2. ASSUME NEW f, IsTree(txCount, 0, f), NEW i \in 1..txCount
        PROVE  workingHashes[i] = f[0][i - 1]
    <3>1. f[0] = TreeAt(txCount, f, 0)
      BY <2>2 DEF IsTree
    <3>2. i - 1 \in 0..(txCount - 1)
      BY <1>1, <1>2
    <3>3. f[0][i - 1] = Tx(i - 1)
      BY <3>1, <3>2, <1>5 DEF TreeAt
    <3> QED  BY <3>3, <1>1
  <2> QED  BY <2>1, <2>2, <1>4, <1>5 DEF IsLevel
<1>7. LeadsTo(txCount, txPosition, merkle, 0, workingHashes[workingIndex + 1])
  <2> SUFFICES ASSUME NEW t \in 0..(txCount - 1)
               PROVE  /\ \E c : IsFold(txPosition, t, merkle, 0, c)
                      /\ \A c : IsFold(txPosition, t, merkle, 0, c) =>
                            (c[0] = workingHashes[workingIndex + 1] <=> t = txPosition)
    BY DEF LeadsTo
  <2>1. workingHashes[workingIndex + 1] = Tx(txPosition)
    <3>1. txPosition + 1 \in 1..txCount /\ (txPosition + 1) - 1 = txPosition
      BY <1>1, <1>2
    <3> QED  BY <3>1, <1>1
  <2>2. IsFold(txPosition, t, merkle, 0, [i \in 0..0 |-> Tx(t)])
    <3> DEFINE c == [i \in 0..0 |-> Tx(t)]
    <3>1. \A i \in 0..0 : FoldAt(txPosition, t, merkle, c, i) = Tx(t)
      BY DEF FoldAt
    <3> QED  BY <3>1 DEF IsFold
  <2>3. ASSUME NEW c, IsFold(txPosition, t, merkle, 0, c) PROVE c[0] = Tx(t)
    BY <2>3 DEF IsFold, FoldAt
  <2>4. Tx(t) = Tx(txPosition) <=> t = txPosition
    BY DEF Tx
  <2> QED  BY <2>1, <2>2, <2>3, <2>4
<1>8. Len(workingHashes) \in Nat \ {0} /\ 0 + txCount <= txCount
  BY <1>1, <1>2, <1>4
<1> QED  BY <1>1, <1>3, <1>4, <1>5, <1>6, <1>7, <1>8 DEF MerkleInv

LEMMA MerkleLevelKeeps == MerkleInv /\ MerkleLevel => MerkleInv'
<1> SUFFICES ASSUME MerkleInv, MerkleLevel PROVE MerkleInv'
  OBVIOUS
<1> DEFINE h == Len(merkle)
           w == workingHashes
           W == Len(w)
           hash == w[workingIndex + 1]
           sibling == PaddedOf(w)[Sibling(workingIndex) + 1]
           half == (W + 1) \div 2
<1>1. /\ txCount \in 1..MaxTxs /\ txPosition \in 0..(txCount - 1)
      /\ W \in Nat \ {0} /\ W > 1 /\ h + W <= txCount
      /\ workingIndex = txPosition \div 2 ^ h /\ workingIndex \in 0..(W - 1)
      /\ IsLevel(txCount, h, w)
      /\ LeadsTo(txCount, txPosition, merkle, h, hash)
  BY DEF MerkleInv, MerkleLevel
<1>2. /\ merkle' = Append(merkle, sibling)
      /\ workingIndex' = Sibling(workingIndex) \div 2
      /\ workingHashes' = NextLevel(PaddedOf(w))
      /\ txCount' = txCount /\ txPosition' = txPosition
  BY DEF MerkleLevel, Padded, PaddedOf
<1>3. PICK S : merkle \in Seq(S)
  BY DEF MerkleInv
<1>4. PICK T : w \in Seq(T)
  BY <1>1 DEF IsLevel
<1>5. W = Len(w)
  OBVIOUS
<1> HIDE DEF hash, sibling
<1>6. merkle' \in Seq(S \cup {sibling}) /\ Len(merkle') = h + 1
  <2>1. merkle \in Seq(S \cup {sibling}) /\ sibling \in S \cup {sibling}
    BY <1>3
  <2> QED  BY <2>1, <1>2
<1>7. h \in Nat /\ h \in 0..MaxTxs /\ txCount \in Nat \ {0} /\ txPosition \in Nat
  BY <1>1, <1>3, MerkleAssumption
<1> HIDE DEF h, W, w
<1>8. /\ IsLevel(txCount, h + 1, NextLevel(PaddedOf(w)))
      /\ Len(NextLevel(PaddedOf(w))) = half
  BY <1>1, <1>5, <1>7, LevelAbove
<1>9. /\ Sibling(workingIndex) \div 2 = workingIndex \div 2
      /\ workingIndex \div 2 \in 0..(half - 1)
      /\ NextLevel(PaddedOf(w))[workingIndex \div 2 + 1] =
           Parent(workingIndex % 2, hash, sibling)
  <2>1. /\ Sibling(workingIndex) \div 2 = workingIndex \div 2
        /\ workingIndex \div 2 \in 0..((W + 1) \div 2 - 1)
        /\ NextLevel(PaddedOf(w))[workingIndex \div 2 + 1] =
             Parent(workingIndex % 2, w[workingIndex + 1],
                    PaddedOf(w)[Sibling(workingIndex) + 1])
    <3> DEFINE index == workingIndex
    <3>1. index \in 0..(W - 1) /\ W \in Nat \ {0}
      BY <1>1
    <3> HIDE DEF index
    <3>2. /\ Sibling(index) \div 2 = index \div 2
          /\ index \div 2 \in 0..((W + 1) \div 2 - 1)
          /\ NextLevel(PaddedOf(w))[index \div 2 + 1] =
               Parent(index % 2, w[index + 1], PaddedOf(w)[Sibling(index) + 1])
      BY <3>1, <1>4, <1>5, ParentAbove
    <3> QED  BY <3>2 DEF index
  <2> QED  BY <2>1 DEF hash, sibling
<1>10. half \in Nat \ {0} /\ (h + 1) + half <= txCount
  BY <1>1, <1>7
<1>11. workingIndex \div 2 = txPosition \div 2 ^ (h + 1)
  <2> DEFINE low == 2 ^ h
             high == 2 ^ (h + 1)
  <2>1. low \in Nat \ {0} /\ high = 2 * low
    BY <1>7, LevelPowers
  <2>2. IsProduct(high, 2, low)
    BY <2>1 DEF IsProduct
  <2>3. IsQuotient(workingIndex, txPosition, low)
    BY <1>1 DEF IsQuotient
  <2> HIDE DEF low, high
  <2>4. high \in Nat \ {0} /\ workingIndex \in Nat /\ 2 \in Nat \ {0}
    BY <1>1, <2>1
  <2>5. txPosition \div high = workingIndex \div 2
    BY <1>7, <2>1, <2>2, <2>3, <2>4, QuotientByProduct
  <2> QED  BY <2>5 DEF high
<1>12. LeadsTo(txCount, txPosition, Append(merkle, sibling), h + 1,
               Parent(workingIndex % 2, hash, sibling))
  BY <1>1, <1>3, <1>7, LeadsFurther DEF h
<1> HIDE DEF half
<1>13. workingIndex' = workingIndex \div 2 /\ Len(workingHashes') = half
  BY <1>2, <1>8, <1>9
<1>14. /\ IsLevel(txCount', Len(merkle'), workingHashes')
       /\ LeadsTo(txCount', txPosition', merkle', Len(merkle'),
                  workingHashes'[workingIndex' + 1])
  <2>1. workingHashes'[workingIndex' + 1] = Parent(workingIndex % 2, hash, sibling)
    BY <1>2, <1>9, <1>13
  <2> QED  BY <1>2, <1>6, <1>8, <1>12, <2>1
<1>15. /\ workingIndex' = txPosition' \div 2 ^ Len(merkle')
       /\ workingIndex' \in 0..(Len(workingHashes') - 1)
       /\ Len(workingHashes') \in Nat \ {0}
       /\ Len(merkle') + Len(workingHashes') <= txCount'
  BY <1>2, <1>6, <1>9, <1>10, <1>11, <1>13
<1>16. txCount' \in 1..MaxTxs /\ txPosition' \in 0..(txCount' - 1)
  BY <1>1, <1>2
<1> QED  BY <1>6, <1>14, <1>15, <1>16 DEF MerkleInv

(* Node and VerifyMerkleProof are defined by functions that exist.         *)
LEMMA NodeOfLevel ==
    ASSUME NEW h \in Nat, IsLevel(txCount, h, workingHashes)
    PROVE  \A i \in 1..Len(workingHashes) : workingHashes[i] = Node(h, i - 1)
<1> DEFINE f == CHOOSE g : IsTree(txCount, h, g)
<1>1. IsTree(txCount, h, f)
  BY DEF IsLevel
<1>2. ASSUME NEW p PROVE Node(h, p) = f[h][p]
  BY DEF Node, IsTree, TreeAt, Right, Width, WidthOf
<1> HIDE DEF f
<1> QED  BY <1>1, <1>2 DEF IsLevel

LEMMA VerifiesWhatLeads ==
    ASSUME NEW hash, LeadsTo(txCount, txPosition, merkle, Len(merkle), hash),
           NEW t \in 0..(txCount - 1)
    PROVE  VerifyMerkleProof(Tx(t), merkle, hash) <=> t = txPosition
<1> DEFINE n == Len(merkle)
           c == CHOOSE d : IsFold(txPosition, t, merkle, n, d)
<1>1. IsFold(txPosition, t, merkle, n, c)
  BY DEF LeadsTo
<1>2. VerifyMerkleProof(Tx(t), merkle, hash) <=> c[n] = hash
  BY DEF VerifyMerkleProof, IsFold, FoldAt
<1> HIDE DEF c
<1> QED  BY <1>1, <1>2 DEF LeadsTo

(* For a block of any size and a transaction at any position, at every     *)
(* round of createMerkleBranchAndRoot the hashes are that level of the     *)
(* block's Merkle tree and the index the place of the transaction's        *)
(* ancestor; the finished proof verifies the transaction at txPosition and *)
(* no other (calculateMerkleProofPath, VerifyMerkleProof).                 *)
THEOREM ProofsVerify == MerkleSpec => []ProofVerifies
<1>1. MerkleInv => ProofVerifies
  <2> SUFFICES ASSUME MerkleInv PROVE ProofVerifies
    OBVIOUS
  <2> DEFINE h == Len(merkle)
  <2>1. PICK S : merkle \in Seq(S)
    BY DEF MerkleInv
  <2>2. h \in Nat
    BY <2>1
  <2>3. IsLevel(txCount, h, workingHashes)
    BY DEF MerkleInv
  <2>4. \A i \in 1..Len(workingHashes) : workingHashes[i] = Node(h, i - 1)
    BY <2>2, <2>3, NodeOfLevel
  <2>5. Len(workingHashes) = Width(h)
    BY <2>3 DEF IsLevel, Width, WidthOf
  <2>6. ASSUME Len(workingHashes) = 1, NEW t \in 0..(txCount - 1)
        PROVE  VerifyMerkleProof(Tx(t), merkle, workingHashes[1]) <=> t = txPosition
    <3>1. workingIndex + 1 = 1
      BY <2>6 DEF MerkleInv
    <3>2. LeadsTo(txCount, txPosition, merkle, Len(merkle), workingHashes[1])
      BY <3>1 DEF MerkleInv
    <3> QED  BY <3>2, VerifiesWhatLeads
  <2>7. workingIndex = txPosition \div 2 ^ h
    BY DEF MerkleInv
  <2> QED  BY <2>4, <2>5, <2>6, <2>7 DEF ProofVerifies
<1>2. MerkleInv /\ [MerkleLevel]_merkleVars => MerkleInv'
  <2>1. MerkleInv /\ UNCHANGED merkleVars => MerkleInv'
    BY DEF MerkleInv, merkleVars
  <2> QED  BY <2>1, MerkleLevelKeeps
<1> QED  BY <1>1, <1>2, MerkleInitially, PTL DEF MerkleSpec
=============================================================================
