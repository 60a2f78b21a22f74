------------------------------ MODULE TextProofs ------------------------------
(***************************************************************************)
(* Proofs about the two parts that read texts, for texts of any length.    *)
(* PageToken, for integers of any width: a token leads back to the         *)
(* position it was made from, and whatever a client sends, the token it is *)
(* taken for is what it sent but for line breaks; ParseInt undoes          *)
(* FormatInt for every number, by induction.  ThoughtFilter: a loop that   *)
(* looks for one tag after the other keeps what the reference keeps, by    *)
(* induction over what is left of the text.                                *)
(***************************************************************************)
EXTENDS PageToken, ThoughtFilter, Recursion

\* Everything that may stand between two dots.
Fields == Numbers \cup Pieces \cup {Version} \cup {FormatInt(n) : n \in Int64}

TokenTypeOK == presented \in [text : Seq(Fields), form : Forms]

-----------------------------------------------------------------------------
\* A sequence of at least two is its first two, and the rest.
LEMMA FirstTwo ==
  ASSUME NEW F, NEW raw \in Seq(F), Len(raw) >= 3
  PROVE  <<raw[1], raw[2]>> \o SubSeq(raw, 3, Len(raw)) = raw
<1> DEFINE rest == SubSeq(raw, 3, Len(raw))
           all == <<raw[1], raw[2]>> \o rest
<1>1. raw[1] \in F /\ raw[2] \in F /\ rest \in Seq(F) /\ Len(rest) = Len(raw) - 2
  OBVIOUS
<1>2. \A i \in 1 .. Len(rest) : rest[i] = raw[i + 2]
  OBVIOUS
<1>3. all \in Seq(F) /\ Len(all) = Len(raw)
  BY <1>1
<1>4. ASSUME NEW i \in 1 .. Len(raw) PROVE all[i] = raw[i]
  <2>1. CASE i \in {1, 2}
    BY <2>1, <1>1
  <2>2. CASE i > 2
    <3>1. all[i] = rest[i - 2]
      BY <2>2, <1>1
    <3>2. i - 2 \in 1 .. Len(rest) /\ (i - 2) + 2 = i
      BY <2>2, <1>1
    <3> QED
      BY <3>1, <3>2, <1>2
  <2> QED
    BY <2>1, <2>2
<1> QED
  BY <1>3, <1>4

\* Decode accepts a text only if Encode writes it (cursor.go:52-68).
LEMMA DecodedIsEncoded ==
  ASSUME NEW F, NEW raw \in Seq(F), Valid(raw)
  PROVE  TextOf([createdAt |-> ParseInt(raw[2]), id |-> SubSeq(raw, 3, Len(raw))]) = raw
<1>1. Len(raw) >= 3 /\ raw[1] = Version /\ FormatInt(ParseInt(raw[2])) = raw[2]
  BY DEF Valid
<1> QED
  BY <1>1, FirstTwo DEF TextOf

\* The two answers without a position are none.
LEMMA NoPositions == FirstPage \notin Positions /\ Invalid \notin Positions
<1>1. \A p \in Positions : DOMAIN p = {"createdAt", "id"}
  BY DEF Positions
<1>2. DOMAIN FirstPage = {"first"} /\ DOMAIN Invalid = {"invalid"}
  BY DEF FirstPage, Invalid
<1> QED
  BY <1>1, <1>2

-----------------------------------------------------------------------------
\* Whatever is presented is a sequence of fields in some form.
LEMMA TokenTypes == TokenSpec => []TokenTypeOK
<1>1. TokenInit => TokenTypeOK
  BY DEF TokenInit, TokenTypeOK, Nothing, Forms, Fields, Pieces, Empty
<1>2. TokenTypeOK /\ [TokenNext]_tokenVars => TokenTypeOK'
  <2> SUFFICES ASSUME TokenTypeOK, [TokenNext]_tokenVars PROVE TokenTypeOK'
    OBVIOUS
  <2>0. \A id \in Ids \cup {<<Empty>>} : id \in Seq(Fields)
    <3>1. Pieces \subseteq Fields /\ Empty \in Fields
      BY DEF Fields, Pieces
    <3>2. \A n \in 1 .. MaxPieces : \A s \in [1 .. n -> Pieces] : s \in Seq(Fields)
      BY <3>1
    <3>3. <<Empty>> \in Seq(Fields)
      BY <3>1
    <3> QED
      BY <3>2, <3>3 DEF Ids
  <2>1. CASE \E p \in Positions : HandOut(p)
    <3>1. PICK p \in Positions : HandOut(p)
      BY <2>1
    <3>2. p.createdAt \in Int64 /\ p.id \in Ids
      BY DEF Positions
    <3>3. <<Version, FormatInt(p.createdAt)>> \in Seq(Fields)
      BY <3>2 DEF Fields
    <3> QED
      BY <2>0, <3>1, <3>2, <3>3 DEF HandOut, Encode, TextOf, Forms, TokenTypeOK
  <2>2. \A form \in Forms : \A raw \in Seq(Fields) : Present(raw, form) => TokenTypeOK'
    BY DEF Present, TokenTypeOK
  <2>4. \A name \in Names : <<name>> \in Seq(Fields)
    BY DEF Fields, Names
  <2>5. \A head \in Names \X Numbers : head \in Seq(Fields)
    <3> TAKE head \in Names \X Numbers
    <3>1. PICK name \in Names, n \in Numbers : head = <<name, n>>
      BY Z3
    <3>2. <<name, n>> \in Seq(Fields)
      BY DEF Fields, Names
    <3> QED
      BY <3>1, <3>2
  <2>6. \A head \in Names \X Numbers : \A id \in Ids \cup {<<Empty>>} : head \o id \in Seq(Fields)
    BY <2>0, <2>5
  <2>3. CASE UNCHANGED tokenVars
    BY <2>3 DEF tokenVars, TokenTypeOK
  <2> QED
    BY <2>1, <2>2, <2>3, <2>4, <2>5, <2>6 DEF TokenNext
<1> QED
  BY <1>1, <1>2, PTL DEF TokenSpec

\* "Only the canonical spelling" (cursor.go:63), of the whole token but for its
\* line breaks, and for integers of any width.
THEOREM TokensCanonical == TokenSpec => []OnlyLineBreaksDiffer
<1>1. TokenTypeOK => OnlyLineBreaksDiffer
  <2> DEFINE p == Decode(presented)
             raw == presented.text
  <2> SUFFICES ASSUME TokenTypeOK, p \in Positions
               PROVE  presented \in {Encode(p), [Encode(p) EXCEPT !.form = "wrapped"]}
    BY DEF OnlyLineBreaksDiffer
  <2>1. /\ Decodes(presented.form) /\ Valid(raw)
        /\ p = [createdAt |-> ParseInt(raw[2]), id |-> SubSeq(raw, 3, Len(raw))]
    BY NoPositions DEF Decode
  <2>2. TextOf(p) = raw
    BY <2>1, DecodedIsEncoded DEF TokenTypeOK
  <2> HIDE DEF p
  <2>3. presented = [text |-> TextOf(p), form |-> presented.form]
    BY <2>2 DEF TokenTypeOK
  <2>4. Encode(p) = [text |-> TextOf(p), form |-> "plain"]
    BY DEF Encode
  <2>5. [Encode(p) EXCEPT !.form = "wrapped"] = [text |-> TextOf(p), form |-> "wrapped"]
    BY <2>4
  <2>6. presented.form \in {"plain", "wrapped"}
    BY <2>1 DEF Decodes
  <2> QED
    BY <2>3, <2>4, <2>5, <2>6, Zenon
<1> QED
  BY <1>1, TokenTypes, PTL

-----------------------------------------------------------------------------
(***************************************************************************)
(* A position survives its token: what FormatInt writes, ParseInt reads.   *)
(***************************************************************************)
\* What a number is written with.
Chars == {"+", "-", "0", "1"}
Bits == {"0", "1"}

\* Size reads its field from left to right.
LEMMA SizeIsFold ==
  ASSUME NEW s \in Seq(Chars)
  PROVE  \E acc \in [0 .. Len(s) -> Nat] :
           /\ acc[0] = 0 /\ acc[Len(s)] = Size(s)
           /\ \A k \in 1 .. Len(s) : acc[k] = Shift(acc[k - 1], s[k])
<1> DEFINE N == Len(s)
           step == [x \in Nat \X (1 .. N) |-> Shift(x[1], s[x[2]])]
<1>1. N \in Nat /\ DOMAIN s = 1 .. N
  OBVIOUS
<1>2. \A n \in Nat, k \in 1 .. N : Shift(n, s[k]) \in Nat
  BY DEF Shift
<1>3. step \in [Nat \X (1 .. N) -> Nat]
  BY <1>2
<1>4. PICK f : IsFold(f, Nat, 0, N, step)
  <2> HIDE DEF N, step
  <2>1. 0 \in Nat
    OBVIOUS
  <2> QED
    BY <1>1, <1>3, <2>1, FoldExists, Zenon
<1>5. /\ f \in [SUBSET (1 .. N) -> Nat]
      /\ \A d \in SUBSET (1 .. N) : f[d] = IF d = {} THEN 0 ELSE step[<<f[d \ {Max(d)}], Max(d)>>]
  <2> HIDE DEF N, step
  <2> QED
    BY <1>4, Zenon DEF IsFold
<1>6. f = [d \in SUBSET (1 .. N) |-> IF d = {} THEN 0 ELSE Shift(f[d \ {Max(d)}], s[Max(d)])]
  <2> SUFFICES ASSUME NEW d \in SUBSET (1 .. N), d # {}
               PROVE  step[<<f[d \ {Max(d)}], Max(d)>>] = Shift(f[d \ {Max(d)}], s[Max(d)])
    BY <1>5
  <2>1. Max(d) \in 1 .. N
    BY <1>1, MaxOfSome
  <2> QED
    BY <1>5, <2>1
<1> DEFINE iter == CHOOSE g : g = [d \in SUBSET DOMAIN s |->
                                  IF d = {} THEN 0 ELSE Shift(g[d \ {Max(d)}], s[Max(d)])]
<1>7. iter = [d \in SUBSET DOMAIN s |-> IF d = {} THEN 0 ELSE Shift(iter[d \ {Max(d)}], s[Max(d)])]
  <2> HIDE DEF N, step
  <2> QED
    BY <1>1, <1>6
<1>8. Size(s) = iter[DOMAIN s]
  BY DEF Size, FoldLeft, MapThenFoldSet
<1> DEFINE acc == [k \in 0 .. N |-> iter[1 .. k]]
<1>9. /\ acc = [k \in 0 .. N |-> acc[k]]
      /\ acc[0] = 0 /\ acc[N] = Size(s)
  <2> HIDE DEF iter
  <2>1. 1 .. 0 = {} /\ 0 \in 0 .. N /\ N \in 0 .. N
    BY <1>1
  <2> QED
    BY <1>1, <1>7, <1>8, <2>1
<1>10. ASSUME NEW k \in 1 .. N
       PROVE  acc[k] = Shift(acc[k - 1], s[k])
  <2>1. Max(1 .. k) = k /\ (1 .. k) \ {k} = 1 .. k - 1
    BY FirstNumbers
  <2>2. 1 .. k \in SUBSET DOMAIN s /\ 1 .. k # {} /\ k \in 0 .. N /\ k - 1 \in 0 .. N
    <3> HIDE DEF N
    <3>1. k \in 1 .. k /\ \A j \in 1 .. k : j \in 1 .. N
      BY <1>1
    <3> QED
      BY <1>1, <3>1
  <2> HIDE DEF iter
  <2> QED
    BY <1>7, <2>1, <2>2
<1>11. IsRun(acc, Nat, 0, N, step)
  <2>1. \A k \in 1 .. N : acc[k - 1] \in Nat => acc[k] = step[<<acc[k - 1], k>>]
    <3> HIDE DEF acc
    <3> QED
      BY <1>10
  <2>2. 0 \in Nat
    OBVIOUS
  <2> HIDE DEF acc, N, step
  <2> QED
    BY <1>1, <1>3, <1>9, <2>1, <2>2, StepsAreRun
<1> HIDE DEF acc
<1> QED
  BY <1>1, <1>9, <1>10, <1>11 DEF IsRun

\* What Digits writes last.
LastBit(n) == IF n % 2 = 0 THEN "0" ELSE "1"

\* A number is twice its half, and its last bit.
LEMMA Halves ==
  ASSUME NEW n \in Nat
  PROVE  /\ n \div 2 \in Nat /\ n % 2 \in {0, 1}
         /\ n = 2 * (n \div 2) + (n % 2)
         /\ n > 0 => n \div 2 < n
  OBVIOUS

\* What FormatInt writes is what its recursion says, and made of bits.
LEMMA DigitsOfHalf ==
  ASSUME NEW n \in Nat
  PROVE  /\ Digits[n] \in Seq(Bits)
         /\ Digits[n] = IF n < 2 THEN <<LastBit(n)>> ELSE Append(Digits[n \div 2], LastBit(n))
<1> DEFINE stop == {k \in Nat : k < 2}
           size == [k \in Nat |-> k]
           prev == [k \in Nat |-> k \div 2]
           base == [k \in Nat |-> <<LastBit(k)>>]
           step == [x \in Nat \X Seq(Bits) |-> Append(x[2], LastBit(x[1]))]
<1>0. \A k \in Nat : LastBit(k) \in Bits
  BY DEF LastBit, Bits
<1>1. size \in [Nat -> Nat] /\ prev \in [Nat -> Nat] /\ \A k \in Nat : k \notin stop => size[prev[k]] < size[k]
  BY Halves
<1>2. base \in [Nat -> Seq(Bits)] /\ step \in [Nat \X Seq(Bits) -> Seq(Bits)]
  <2> HIDE DEF Bits
  <2>1. \A k \in Nat : <<LastBit(k)>> \in Seq(Bits)
    BY <1>0
  <2>2. \A k \in Nat, s \in Seq(Bits) : Append(s, LastBit(k)) \in Seq(Bits)
    BY <1>0
  <2> QED
    BY <2>1, <2>2
<1>3. PICK f : IsRecursion(f, Nat, Seq(Bits), stop, prev, base, step)
  <2> HIDE DEF stop, size, prev, base, step
  <2> QED
    BY <1>1, <1>2, RecursionExists
<1>4. f = [k \in Nat |-> IF k < 2 THEN <<LastBit(k)>> ELSE Append(f[k \div 2], LastBit(k))]
  <2>1. /\ f \in [Nat -> Seq(Bits)]
        /\ \A k \in Nat : f[k] = IF k \in stop THEN base[k] ELSE step[<<k, f[prev[k]]>>]
    <3> HIDE DEF stop, size, prev, base, step
    <3> QED
      BY <1>3 DEF IsRecursion
  <2>2. ASSUME NEW k \in Nat
        PROVE  f[k] = IF k < 2 THEN <<LastBit(k)>> ELSE Append(f[k \div 2], LastBit(k))
    <3>1. k \div 2 \in Nat /\ f[k \div 2] \in Seq(Bits)
      BY <2>1, Halves
    <3>2. prev[k] = k \div 2 /\ step[<<k, f[k \div 2]>>] = Append(f[k \div 2], LastBit(k))
      BY <3>1
    <3>3. k \in stop <=> k < 2
      OBVIOUS
    <3> HIDE DEF stop, prev, step
    <3> QED
      BY <2>1, <3>2, <3>3
  <2> QED
    BY <2>1, <2>2
<1>5. Digits = CHOOSE d : d = [k \in Nat |-> IF k < 2 THEN <<LastBit(k)>> ELSE Append(d[k \div 2], LastBit(k))]
  BY DEF Digits, LastBit
<1>6. Digits = [k \in Nat |-> IF k < 2 THEN <<LastBit(k)>> ELSE Append(Digits[k \div 2], LastBit(k))]
  BY <1>4, <1>5
<1> DEFINE P == {k \in Nat : Digits[k] \in Seq(Bits)}
<1>9. \A k \in Nat : Digits[k] = IF k < 2 THEN <<LastBit(k)>> ELSE Append(Digits[k \div 2], LastBit(k))
  BY <1>6, Zenon
<1>7. ASSUME NEW k \in Nat, \A j \in Nat : j < k => j \in P
      PROVE  k \in P
  <2>1. LastBit(k) \in Bits
    BY DEF LastBit, Bits
  <2>2. CASE k < 2
    <3>1. Digits[k] = <<LastBit(k)>>
      BY <1>9, <2>2, Zenon
    <3>2. <<LastBit(k)>> \in Seq(Bits)
      BY <2>1
    <3> QED
      BY <3>1, <3>2, Zenon
  <2>3. CASE k >= 2
    <3>1. k \div 2 \in Nat /\ k \div 2 < k
      BY <2>3, Halves
    <3>2. Digits[k \div 2] \in Seq(Bits)
      BY <1>7, <3>1
    <3>3. Digits[k] = Append(Digits[k \div 2], LastBit(k))
      <4>1. ~ k < 2
        BY <2>3
      <4> QED
        BY <1>9, <4>1, Zenon
    <3>4. Append(Digits[k \div 2], LastBit(k)) \in Seq(Bits)
      BY <2>1, <3>2
    <3> QED
      BY <3>3, <3>4, Zenon
  <2> QED
    BY <2>2, <2>3
<1>8. n \in P
  <2> HIDE DEF P
  <2> QED
    BY <1>7, StrongInduction
<1> QED
  BY <1>9, <1>8

\* One more character shifts the number that was read so far.
LEMMA SizeAppend ==
  ASSUME NEW s \in Seq(Chars), NEW c \in Chars
  PROVE  Size(Append(s, c)) = Shift(Size(s), c)
<1> DEFINE t == Append(s, c)
           N == Len(s)
<1>1. t \in Seq(Chars) /\ Len(t) = N + 1 /\ t[N + 1] = c /\ N \in Nat
  OBVIOUS
<1>0. \A k \in 1 .. N : t[k] = s[k]
  OBVIOUS
<1>2. PICK a \in [0 .. N -> Nat] :
        /\ a[0] = 0 /\ a[N] = Size(s)
        /\ \A k \in 1 .. N : a[k] = Shift(a[k - 1], s[k])
  BY SizeIsFold
<1> HIDE DEF t, N
<1>3. PICK b \in [0 .. N + 1 -> Nat] :
        /\ b[0] = 0 /\ b[N + 1] = Size(t)
        /\ \A k \in 1 .. N + 1 : b[k] = Shift(b[k - 1], t[k])
  BY <1>1, SizeIsFold
<1> DEFINE P == {k \in Nat : k <= N => a[k] = b[k]}
<1>4. 0 \in P
  BY <1>2, <1>3
<1>5. ASSUME NEW k \in Nat, k \in P PROVE k + 1 \in P
  <2> SUFFICES ASSUME k + 1 <= N PROVE a[k + 1] = b[k + 1]
    OBVIOUS
  <2>1. k + 1 \in 1 .. N /\ k + 1 \in 1 .. N + 1 /\ (k + 1) - 1 = k /\ a[k] = b[k]
    BY <1>1, <1>5
  <2>2. a[k + 1] = Shift(a[k], s[k + 1])
    BY <1>2, <2>1
  <2>3. b[k + 1] = Shift(b[k], t[k + 1])
    BY <1>3, <2>1
  <2> QED
    BY <2>1, <2>2, <2>3, <1>0
<1>6. a[N] = b[N]
  <2> HIDE DEF P
  <2>1. N \in P
    BY <1>1, <1>4, <1>5, Induction
  <2> QED
    BY <2>1, <1>1 DEF P
<1>7. N + 1 \in 1 .. N + 1 /\ (N + 1) - 1 = N
  BY <1>1
<1>8. b[N + 1] = Shift(b[N], t[N + 1])
  BY <1>3, <1>7
<1> QED
  BY <1>1, <1>2, <1>3, <1>6, <1>8 DEF t

\* The sign adds nothing.
LEMMA SizeMinus ==
  ASSUME NEW s \in Seq(Chars)
  PROVE  Size(<<"-">> \o s) = Size(s)
<1> DEFINE t == <<"-">> \o s
           N == Len(s)
<1>1. t \in Seq(Chars) /\ Len(t) = N + 1 /\ t[1] = "-" /\ N \in Nat
  BY DEF Chars
<1>0. \A k \in 1 .. N : t[k + 1] = s[k]
  OBVIOUS
<1>2. PICK a \in [0 .. N -> Nat] :
        /\ a[0] = 0 /\ a[N] = Size(s)
        /\ \A k \in 1 .. N : a[k] = Shift(a[k - 1], s[k])
  BY SizeIsFold
<1> HIDE DEF t, N
<1>3. PICK b \in [0 .. N + 1 -> Nat] :
        /\ b[0] = 0 /\ b[N + 1] = Size(t)
        /\ \A k \in 1 .. N + 1 : b[k] = Shift(b[k - 1], t[k])
  BY <1>1, SizeIsFold
<1> DEFINE P == {k \in Nat : k <= N => a[k] = b[k + 1]}
<1>4. 0 \in P
  <2>1. 1 \in 1 .. N + 1 /\ 1 - 1 = 0
    BY <1>1
  <2>2. b[1] = Shift(b[0], "-")
    BY <1>3, <2>1, <1>1
  <2> QED
    BY <1>2, <1>3, <2>2 DEF Shift
<1>5. ASSUME NEW k \in Nat, k \in P PROVE k + 1 \in P
  <2> SUFFICES ASSUME k + 1 <= N PROVE a[k + 1] = b[(k + 1) + 1]
    OBVIOUS
  <2>1. /\ k + 1 \in 1 .. N /\ (k + 1) + 1 \in 1 .. N + 1
        /\ (k + 1) - 1 = k /\ ((k + 1) + 1) - 1 = k + 1 /\ a[k] = b[k + 1]
    BY <1>1, <1>5
  <2>2. a[k + 1] = Shift(a[k], s[k + 1])
    BY <1>2, <2>1
  <2>3. b[(k + 1) + 1] = Shift(b[k + 1], t[(k + 1) + 1])
    BY <1>3, <2>1
  <2>4. t[(k + 1) + 1] = s[k + 1]
    BY <1>0, <2>1
  <2> QED
    BY <2>1, <2>2, <2>3, <2>4
<1>6. a[N] = b[N + 1]
  <2> HIDE DEF P
  <2>1. N \in P
    BY <1>1, <1>4, <1>5, Induction
  <2> QED
    BY <2>1, <1>1 DEF P
<1> QED
  BY <1>2, <1>3, <1>6 DEF t

\* The digits of a number are read as that number.
LEMMA SizeOfDigits ==
  ASSUME NEW n \in Nat
  PROVE  Size(Digits[n]) = n
<1> DEFINE P == {k \in Nat : Size(Digits[k]) = k}
<1>1. ASSUME NEW k \in Nat, \A j \in Nat : j < k => j \in P
      PROVE  k \in P
  <2> DEFINE c == LastBit(k)
  <2>1. c \in Chars /\ c = (IF k % 2 = 1 THEN "1" ELSE "0")
    BY Halves DEF LastBit, Chars
  <2>2. CASE k < 2
    <3>1. Digits[k] = Append(<<>>, c)
      <4>1. Digits[k] = <<c>>
        BY <2>2, DigitsOfHalf
      <4> QED
        BY <4>1
    <3>2. <<>> \in Seq(Chars) /\ Size(<<>>) = 0
      <4>1. <<>> \in Seq(Chars) /\ Len(<<>>) = 0
        OBVIOUS
      <4> QED
        BY <4>1, SizeIsFold
    <3>3. Size(Digits[k]) = Shift(0, c)
      BY <2>1, <3>1, <3>2, SizeAppend
    <3>4. Shift(0, c) = k
      BY <2>1, <2>2 DEF Shift
    <3> QED
      BY <3>3, <3>4, Zenon
  <2>3. CASE k >= 2
    <3>1. /\ k \div 2 \in Nat /\ k \div 2 < k /\ ~ k < 2
          /\ k % 2 \in {0, 1} /\ k = 2 * (k \div 2) + (k % 2)
      BY <2>3, Halves
    <3>2. Size(Digits[k \div 2]) = k \div 2
      BY <1>1, <3>1
    <3>3. Digits[k \div 2] \in Seq(Chars) /\ Digits[k] = Append(Digits[k \div 2], c)
      <4>1. Digits[k \div 2] \in Seq(Bits)
        BY <3>1, DigitsOfHalf
      <4>2. Seq(Bits) \subseteq Seq(Chars)
        BY DEF Bits, Chars
      <4> QED
        BY <3>1, <4>1, <4>2, DigitsOfHalf
    <3>4. Size(Digits[k]) = Shift(k \div 2, c)
      BY <2>1, <3>2, <3>3, SizeAppend
    <3>5. Shift(k \div 2, c) = k
      BY <2>1, <3>1 DEF Shift
    <3> QED
      BY <3>4, <3>5, Zenon
  <2> QED
    BY <2>2, <2>3
<1>2. n \in P
  <2> HIDE DEF P
  <2> QED
    BY <1>1, StrongInduction
<1> QED
  BY <1>2

\* ParseInt reads what FormatInt writes, for every number.
LEMMA FormattedIsParsed ==
  ASSUME NEW n \in Int
  PROVE  FormatInt(n) \in Seq(Chars) /\ IsInteger(FormatInt(n)) /\ ParseInt(FormatInt(n)) = n
<1>1. ASSUME NEW k \in Nat
      PROVE  /\ Digits[k] \in Seq(Bits) /\ Digits[k] # <<>> /\ Digits[k] \in Seq(Chars)
             /\ \A i \in DOMAIN Digits[k] : Digits[k][i] \in {"0", "1"}
  <2>1. Digits[k] \in Seq(Bits)
    BY DigitsOfHalf
  <2>2. Digits[k] # <<>>
    <3>1. CASE k < 2
      <4>1. Digits[k] = <<LastBit(k)>>
        BY <3>1, DigitsOfHalf
      <4> QED
        BY <4>1
    <3>2. CASE ~ k < 2
      <4>1. k \div 2 \in Nat
        BY Halves
      <4>2. Digits[k \div 2] \in Seq(Bits) /\ Digits[k] = Append(Digits[k \div 2], LastBit(k))
        BY <3>2, <4>1, DigitsOfHalf
      <4> QED
        BY <4>2
    <3> QED
      BY <3>1, <3>2
  <2>3. Seq(Bits) \subseteq Seq(Chars)
    BY DEF Bits, Chars
  <2>4. \A i \in DOMAIN Digits[k] : Digits[k][i] \in Bits
    BY <2>1, ElementOfSeq
  <2> QED
    BY <2>1, <2>2, <2>3, <2>4 DEF Bits
<1>2. CASE n < 0
  <2> DEFINE d == Digits[- n]
  <2>1. /\ - n \in Nat /\ FormatInt(n) = <<"-">> \o d
        /\ d \in Seq(Chars) /\ d # <<>> /\ \A i \in DOMAIN d : d[i] \in {"0", "1"}
    BY <1>1, <1>2 DEF FormatInt
  <2>2. Size(<<"-">> \o d) = - n
    BY <2>1, SizeMinus, SizeOfDigits
  <2> HIDE DEF d
  <2>3. <<"-">> \o d \in Seq(Chars) /\ (<<"-">> \o d)[1] = "-" /\ Tail(<<"-">> \o d) = d /\ <<"-">> \o d # <<>>
    BY <2>1 DEF Chars
  <2>4. IsInteger(<<"-">> \o d)
    BY <2>1, <2>3, Zenon DEF IsInteger
  <2>5. ParseInt(<<"-">> \o d) = n
    BY <2>2, <2>3 DEF ParseInt
  <2> QED
    BY <2>1, <2>3, <2>4, <2>5
<1>3. CASE n >= 0
  <2> DEFINE d == Digits[n]
  <2>1. /\ n \in Nat /\ FormatInt(n) = d
        /\ d \in Seq(Chars) /\ d # <<>> /\ \A i \in DOMAIN d : d[i] \in {"0", "1"}
    BY <1>1, <1>3 DEF FormatInt
  <2>2. Size(d) = n
    BY <2>1, SizeOfDigits
  <2> HIDE DEF d
  <2>3. d[1] \in {"0", "1"}
    BY <2>1
  <2>4. IsInteger(d) /\ ParseInt(d) = n
    BY <2>1, <2>2, <2>3 DEF IsInteger, ParseInt
  <2> QED
    BY <2>1, <2>4
<1> QED
  BY <1>2, <1>3

\* Decode takes a token that Encode made for its position.
LEMMA EncodedIsDecoded ==
  ASSUME NEW p \in Positions
  PROVE  Decode(Encode(p)) = p
<1> DEFINE raw == TextOf(p)
           t == p.createdAt
<1>1. t \in Int64 /\ t \in Int /\ p.id \in Ids /\ p = [createdAt |-> t, id |-> p.id]
  BY DEF Positions, Int64
<1>2. p.id \in Seq(Pieces) /\ p.id # <<>> /\ p.id # <<Empty>>
  <2>1. PICK m \in 1 .. MaxPieces : p.id \in [1 .. m -> Pieces]
    BY <1>1 DEF Ids
  <2>2. m \in Nat /\ m > 0
    BY WidthAssumption
  <2>3. p.id \in Seq(Pieces) /\ Len(p.id) = m
    BY <2>1, <2>2
  <2>4. p.id # <<Empty>>
    BY <1>1 DEF Ids
  <2>5. p.id # <<>>
    BY <2>2, <2>3
  <2> QED
    BY <2>3, <2>4, <2>5
<1>3. FormatInt(t) \in Seq(Chars) /\ IsInteger(FormatInt(t)) /\ ParseInt(FormatInt(t)) = t
  BY <1>1, FormattedIsParsed
<1> DEFINE S == {Version, FormatInt(t)} \cup Pieces
<1> HIDE DEF t
<1>4. /\ raw \in Seq(S) /\ Len(raw) >= 3 /\ raw[1] = Version /\ raw[2] = FormatInt(t)
      /\ SubSeq(raw, 3, Len(raw)) = p.id
  <2> DEFINE id == p.id
  <2>1. raw = <<Version, FormatInt(t)>> \o id
    BY DEF TextOf, t
  <2>2. id \in Seq(S) /\ Len(id) >= 1
    <3>1. Seq(Pieces) \subseteq Seq(S)
      OBVIOUS
    <3> QED
      BY <1>2, <3>1
  <2>3. <<Version, FormatInt(t)>> \in Seq(S)
    OBVIOUS
  <2> HIDE DEF id, raw, S
  <2>4. raw \in Seq(S) /\ Len(raw) = Len(id) + 2 /\ raw[1] = Version /\ raw[2] = FormatInt(t)
    BY <2>1, <2>2, <2>3
  <2>5. \A i \in 1 .. Len(id) : raw[i + 2] = id[i]
    BY <2>1, <2>2, <2>3
  <2>6. SubSeq(raw, 3, Len(raw)) \in Seq(S) /\ Len(SubSeq(raw, 3, Len(raw))) = Len(id)
    BY <2>2, <2>4
  <2>7. \A i \in 1 .. Len(id) : SubSeq(raw, 3, Len(raw))[i] = id[i]
    BY <2>2, <2>4, <2>5
  <2>8. SubSeq(raw, 3, Len(raw)) = id
    BY <2>2, <2>6, <2>7
  <2> QED
    BY <2>2, <2>4, <2>8 DEF id
<1> HIDE DEF raw, S
<1>5. Encode(p) = [text |-> raw, form |-> "plain"] /\ raw # <<Empty>>
  BY <1>4 DEF Encode, raw
<1>6. Valid(raw)
  BY <1>1, <1>2, <1>3, <1>4, ZenonT(60) DEF Valid
<1>7. Decode(Encode(p)) = [createdAt |-> t, id |-> p.id]
  <2>1. Encode(p).text = raw /\ Decodes(Encode(p).form) /\ Encode(p) # Nothing
    BY <1>5 DEF Decodes, Nothing
  <2> QED
    BY <1>3, <1>4, <1>6, <2>1, Zenon DEF Decode
<1> QED
  BY <1>1, <1>7

\* A client that follows a page's token continues after that page's last row,
\* whatever its time and its id.
THEOREM TokensReturnPositions == TokenSpec => []TokensReturn
<1> DEFINE Inv == position # NoPosition => position \in Positions /\ presented = Encode(position)
<1>1. TokenInit => Inv
  BY DEF TokenInit
<1>2. Inv /\ [TokenNext]_tokenVars => Inv'
  BY DEF TokenNext, HandOut, Present, tokenVars
<1>3. Inv => TokensReturn
  BY EncodedIsDecoded DEF TokensReturn
<1> QED
  BY <1>1, <1>2, <1>3, PTL DEF TokenSpec

-----------------------------------------------------------------------------
(***************************************************************************)
(* The thought filter.                                                     *)
(***************************************************************************)
\* The tag that a text within a thought, or outside of one, is searched for.
Tag(in) == IF in THEN Closing ELSE Opening

\* It stands at j.
TagAt(text, j, in) == text[j] = (IF in THEN "</th" ELSE "<th") /\ text[j + 1] = "ink>"

\* The search compares two atoms.
LEMMA TagIsAt ==
  ASSUME NEW text \in Seq(Atoms), NEW in \in BOOLEAN, NEW j \in 1 .. Len(text) - 1
  PROVE  SubSeq(text, j, j + 1) = Tag(in) <=> TagAt(text, j, in)
<1>1. \A i \in j .. j + 1 : text[i] \in Atoms
  OBVIOUS
<1>2. /\ SubSeq(text, j, j + 1) \in Seq(Atoms)
      /\ Len(SubSeq(text, j, j + 1)) = 2
      /\ SubSeq(text, j, j + 1)[1] = text[j]
      /\ SubSeq(text, j, j + 1)[2] = text[j + 1]
  <2>1. j \in Int /\ j + 1 \in Int
    OBVIOUS
  <2> QED
    BY <1>1, <2>1, SubSeqProperties
<1> DEFINE s == SubSeq(text, j, j + 1)
<1>3. \A t \in Seq(Atoms) : Len(t) = 2 /\ Len(s) = 2 /\ s \in Seq(Atoms) => (s = t <=> s[1] = t[1] /\ s[2] = t[2])
  <2> HIDE DEF s
  <2> QED
    OBVIOUS
<1>4. /\ Tag(in) \in Seq(Atoms) /\ Len(Tag(in)) = 2
      /\ Tag(in)[1] = (IF in THEN "</th" ELSE "<th") /\ Tag(in)[2] = "ink>"
  <2>0. \A x, y \in Atoms : <<x, y>> \in Seq(Atoms) /\ Len(<<x, y>>) = 2
    OBVIOUS
  <2>3. "<th" \in Atoms /\ "</th" \in Atoms /\ "ink>" \in Atoms
    BY DEF Atoms
  <2>1. CASE in
    BY <2>0, <2>1, <2>3 DEF Tag, Closing
  <2>2. CASE ~ in
    BY <2>0, <2>2, <2>3 DEF Tag, Opening
  <2> QED
    BY <2>1, <2>2
<1> HIDE DEF s
<1>5. s = Tag(in) <=> s[1] = Tag(in)[1] /\ s[2] = Tag(in)[2]
  BY <1>2, <1>3, <1>4 DEF s
<1> QED
  BY <1>2, <1>4, <1>5 DEF s, TagAt

\* What strings.Index promises: the first place of the tag, or that there is none.
Finds(text, in, i) ==
  IF i = 0 THEN \A j \in 1 .. Len(text) - 1 : ~ TagAt(text, j, in)
  ELSE TagAt(text, i, in) /\ \A j \in 1 .. i - 1 : ~ TagAt(text, j, in)

\* It finds that.
LEMMA IndexFinds ==
  ASSUME NEW text \in Seq(Atoms), NEW in \in BOOLEAN
  PROVE  /\ Index(text, Tag(in)) = 0 \/ Index(text, Tag(in)) \in 1 .. Len(text) - 1
         /\ Finds(text, in, Index(text, Tag(in)))
<1> DEFINE at == {j \in 1 .. Len(text) - 1 : SubSeq(text, j, j + 1) = Tag(in)}
<1>1. at = {j \in 1 .. Len(text) - 1 : TagAt(text, j, in)}
  BY TagIsAt
<1>2. Index(text, Tag(in)) = IF at = {} THEN 0 ELSE Min(at)
  BY DEF Index
<1>3. CASE at = {}
  BY <1>1, <1>2, <1>3 DEF Finds
<1>4. CASE at # {}
  <2>1. PICK m \in at : \A j \in at : m <= j
    <3>1. at \subseteq Nat
      OBVIOUS
    <3> HIDE DEF at
    <3> QED
      BY <1>4, <3>1, LeastNat
  <2>2. Min(at) \in at /\ \A j \in at : Min(at) <= j
    <3> HIDE DEF at
    <3>1. \E x \in at : \A y \in at : x <= y
      BY <2>1
    <3> QED
      BY <3>1, Zenon DEF Min
  <2> DEFINE i == Index(text, Tag(in))
  <2>3. i \in at /\ \A j \in at : i <= j
    <3> HIDE DEF at
    <3> QED
      BY <1>2, <1>4, <2>2
  <2>4. i \in 1 .. Len(text) - 1 /\ TagAt(text, i, in)
    BY <1>1, <2>3
  <2>5. ASSUME NEW j \in 1 .. i - 1 PROVE ~ TagAt(text, j, in)
    <3>1. j \in 1 .. Len(text) - 1 /\ ~ i <= j
      BY <2>4
    <3> HIDE DEF i
    <3> QED
      BY <1>1, <2>3, <3>1
  <2> HIDE DEF i
  <2>6. i # 0
    BY <2>4
  <2>7. Finds(text, in, i)
    BY <2>4, <2>5, <2>6 DEF Finds
  <2> QED
    BY <2>4, <2>7 DEF i
<1> QED
  BY <1>3, <1>4

-----------------------------------------------------------------------------
\* One round of the loop, f being the rest of it.
FilterStep(f, left) ==
  LET in == left.inThought
      i == Index(left.text, Tag(in))
      rest == f[[text |-> Rest(left.text, i), inThought |-> ~ in]]
  IN
  IF i = 0 THEN [text |-> IF in THEN <<>> ELSE left.text, inThought |-> in]
  ELSE [text |-> (IF in THEN <<>> ELSE SubSeq(left.text, 1, i - 1)) \o rest.text,
        inThought |-> rest.inThought]

\* What follows the first tag is shorter.
LEMMA RestIsShorter ==
  ASSUME NEW text \in Seq(Atoms), NEW i \in 1 .. Len(text) - 1
  PROVE  /\ Rest(text, i) \in Seq(Atoms) /\ Len(Rest(text, i)) = Len(text) - (i + 1)
         /\ SubSeq(text, 1, i - 1) \in Seq(Atoms)
<1>1. /\ \A j \in i + 2 .. Len(text) : text[j] \in Atoms
      /\ \A j \in 1 .. i - 1 : text[j] \in Atoms
  OBVIOUS
<1>2. i + 2 \in Int /\ Len(text) \in Int /\ 1 \in Int /\ i - 1 \in Int
  OBVIOUS
<1>3. /\ Rest(text, i) \in Seq(Atoms)
      /\ Len(Rest(text, i)) = IF i + 2 <= Len(text) THEN Len(text) - (i + 2) + 1 ELSE 0
  BY <1>1, <1>2, SubSeqProperties DEF Rest
<1>4. SubSeq(text, 1, i - 1) \in Seq(Atoms)
  BY <1>1, <1>2, SubSeqProperties, Zenon
<1> QED
  BY <1>3, <1>4

\* The loop ends, whatever the delta.
LEMMA FilteredUnfolds ==
  ASSUME NEW left \in Deltas
  PROVE  Filtered[left] = FilterStep(Filtered, left)
<1> DEFINE I(d) == Index(d.text, Tag(d.inThought))
           stop == {d \in Deltas : I(d) = 0}
           size == [d \in Deltas |-> Len(d.text)]
           prev == [d \in Deltas |->
                      IF d \in stop THEN d ELSE [text |-> Rest(d.text, I(d)), inThought |-> ~ d.inThought]]
           base == [d \in Deltas |->
                      [text |-> IF d.inThought THEN <<>> ELSE d.text, inThought |-> d.inThought]]
           step == [x \in Deltas \X Deltas |->
                      [text |-> (IF x[1].inThought THEN <<>> ELSE SubSeq(x[1].text, 1, I(x[1]) - 1)) \o x[2].text,
                       inThought |-> x[2].inThought]]
<1>1. size \in [Deltas -> Nat]
  BY DEF Deltas
<1>2. \A d \in Deltas : d.text \in Seq(Atoms) /\ d.inThought \in BOOLEAN
  BY DEF Deltas
<1>3. ASSUME NEW d \in Deltas, d \notin stop
      PROVE  I(d) \in 1 .. Len(d.text) - 1
  BY <1>2, <1>3, IndexFinds
<1>4. ASSUME NEW d \in Deltas
      PROVE  prev[d] \in Deltas /\ (d \notin stop => size[prev[d]] < size[d])
  <2>1. CASE d \in stop
    BY <2>1
  <2>2. CASE d \notin stop
    <3>1. /\ Rest(d.text, I(d)) \in Seq(Atoms)
          /\ Len(Rest(d.text, I(d))) = Len(d.text) - (I(d) + 1)
          /\ I(d) \in 1 .. Len(d.text) - 1
      <4> HIDE DEF I, stop
      <4> QED
        BY <1>2, <1>3, <2>2, RestIsShorter
    <3> DEFINE r == [text |-> Rest(d.text, I(d)), inThought |-> ~ d.inThought]
    <3>2. prev[d] = r
      BY <2>2
    <3> HIDE DEF I, stop, prev
    <3>3. r \in Deltas /\ r.text = Rest(d.text, I(d))
      BY <1>2, <3>1 DEF Deltas
    <3>4. size[prev[d]] = Len(Rest(d.text, I(d))) /\ size[d] = Len(d.text)
      BY <3>2, <3>3
    <3>5. Len(d.text) \in Nat
      BY <1>2
    <3> QED
      BY <3>1, <3>2, <3>3, <3>4, <3>5
  <2> QED
    BY <2>1, <2>2
<1>5. prev \in [Deltas -> Deltas]
  BY <1>4
<1>6. base \in [Deltas -> Deltas]
  BY DEF Deltas
<1>7. step \in [Deltas \X Deltas -> Deltas]
  <2> SUFFICES ASSUME NEW d \in Deltas, NEW r \in Deltas
               PROVE  [text |-> (IF d.inThought THEN <<>> ELSE SubSeq(d.text, 1, I(d) - 1)) \o r.text,
                       inThought |-> r.inThought] \in Deltas
    OBVIOUS
  <2>1. SubSeq(d.text, 1, I(d) - 1) \in Seq(Atoms)
    <3>1. I(d) = 0 \/ I(d) \in 1 .. Len(d.text) - 1
      BY <1>2, IndexFinds
    <3> HIDE DEF I
    <3>2. \A j \in 1 .. I(d) - 1 : d.text[j] \in Atoms
      BY <1>2, <3>1
    <3>3. 1 \in Int /\ I(d) - 1 \in Int
      BY <3>1
    <3> QED
      BY <3>2, <3>3, SubSeqProperties, Zenon
  <2> HIDE DEF I
  <2>2. (IF d.inThought THEN <<>> ELSE SubSeq(d.text, 1, I(d) - 1)) \o r.text \in Seq(Atoms)
    BY <1>2, <2>1
  <2> QED
    BY <1>2, <2>2 DEF Deltas
<1>8. PICK f : IsRecursion(f, Deltas, Deltas, stop, prev, base, step)
  <2> HIDE DEF stop, size, prev, base, step
  <2> QED
    BY <1>1, <1>4, <1>5, <1>6, <1>7, RecursionExists
<1>9. ASSUME NEW d \in Deltas PROVE f[d] = FilterStep(f, d)
  <2>1. /\ f \in [Deltas -> Deltas]
        /\ f[d] = IF d \in stop THEN base[d] ELSE step[<<d, f[prev[d]]>>]
    <3> HIDE DEF stop, size, prev, base, step
    <3> QED
      BY <1>8 DEF IsRecursion
  <2>2. CASE d \in stop
    BY <2>1, <2>2 DEF FilterStep
  <2>3. CASE d \notin stop
    <3> DEFINE p == [text |-> Rest(d.text, I(d)), inThought |-> ~ d.inThought]
    <3>1. prev[d] = p /\ prev[d] \in Deltas
      BY <1>4, <2>3
    <3>2. f[p] \in Deltas
      <4> HIDE DEF p, prev
      <4> QED
        BY <2>1, <3>1
    <3>3. f[d] = step[<<d, f[p]>>]
      <4> HIDE DEF p, prev, step, stop, base
      <4> QED
        BY <2>1, <2>3, <3>1
    <3>4. step[<<d, f[p]>>] = [text |-> (IF d.inThought THEN <<>> ELSE SubSeq(d.text, 1, I(d) - 1)) \o f[p].text,
                               inThought |-> f[p].inThought]
      <4> HIDE DEF p, I
      <4> QED
        BY <3>2
    <3>5. I(d) # 0
      BY <2>3
    <3> QED
      BY <3>3, <3>4, <3>5 DEF FilterStep
  <2> QED
    BY <2>2, <2>3
<1>10. f = [d \in Deltas |-> FilterStep(f, d)]
  <2>1. f \in [Deltas -> Deltas]
    <3> HIDE DEF stop, size, prev, base, step
    <3> QED
      BY <1>8 DEF IsRecursion
  <2> QED
    BY <1>9, <2>1
<1>11. Filtered = CHOOSE g : g = [d \in Deltas |-> FilterStep(g, d)]
  BY DEF Filtered, FilterStep, Tag
<1>12. Filtered = [d \in Deltas |-> FilterStep(Filtered, d)]
  BY <1>10, <1>11, Zenon
<1> QED
  BY <1>12

\* How the reference reads a text: whether it is in a thought, and what it has
\* kept, after each atom.
IsReading(text, begins, in, kept) ==
  /\ in \in [0 .. Len(text) -> BOOLEAN] /\ in[0] = begins
  /\ \A k \in 1 .. Len(text) : in[k] = After(text, k, in[k - 1])
  /\ kept \in [0 .. Len(text) -> Seq(Atoms)] /\ kept[0] = <<>>
  /\ \A k \in 1 .. Len(text) : kept[k] = IF Kept(text, k, in) THEN Append(kept[k - 1], text[k]) ELSE kept[k - 1]

\* It is such a reading.
LEMMA InsideAndStripped ==
  ASSUME NEW text \in Seq(Atoms), NEW begins \in BOOLEAN
  PROVE  \E kept : IsReading(text, begins, Inside(text, begins), kept) /\ Stripped(text, begins) = kept[Len(text)]
<1> DEFINE N == Len(text)
           in == Inside(text, begins)
           after == [x \in BOOLEAN \X (1 .. N) |-> After(text, x[2], x[1])]
<1>1. N \in Nat
  OBVIOUS
<1>2. after \in [BOOLEAN \X (1 .. N) -> BOOLEAN]
  BY DEF After
<1>3. PICK acc : IsRun(acc, BOOLEAN, begins, N, after)
  <2> HIDE DEF after, N
  <2> QED
    BY <1>1, <1>2, RunExists, Zenon
<1>4. acc = [k \in 0 .. N |-> IF k = 0 THEN begins ELSE After(text, k, acc[k - 1])]
  <2>1. acc \in [0 .. N -> BOOLEAN] /\ acc[0] = begins
    BY <1>3 DEF IsRun
  <2>2. ASSUME NEW k \in 1 .. N PROVE acc[k] = After(text, k, acc[k - 1])
    <3>1. acc[k] = after[<<acc[k - 1], k>>] /\ acc[k - 1] \in BOOLEAN
      <4>1. k - 1 \in 0 .. N
        OBVIOUS
      <4> HIDE DEF after, N
      <4> QED
        BY <1>3, <2>1, <4>1 DEF IsRun
    <3> HIDE DEF N
    <3> QED
      BY <3>1
  <2> HIDE DEF N
  <2> QED
    BY <1>1, <2>1, <2>2
<1>5. in = CHOOSE f : f = [k \in 0 .. N |-> IF k = 0 THEN begins ELSE After(text, k, f[k - 1])]
  BY DEF Inside
<1>6. in = [k \in 0 .. N |-> IF k = 0 THEN begins ELSE After(text, k, in[k - 1])]
  <2> HIDE DEF in, N
  <2> QED
    BY <1>4, <1>5, Zenon
<1> HIDE DEF in
<1>7. IsRun(in, BOOLEAN, begins, N, after)
  <2>1. in = [k \in 0 .. N |-> in[k]] /\ in[0] = begins
    BY <1>6
  <2>2. \A k \in 1 .. N : in[k - 1] \in BOOLEAN => in[k] = after[<<in[k - 1], k>>]
    BY <1>6
  <2> HIDE DEF after, N
  <2> QED
    BY <1>1, <1>2, <2>1, <2>2, StepsAreRun
<1>8. /\ in \in [0 .. N -> BOOLEAN] /\ in[0] = begins
      /\ \A k \in 1 .. N : in[k] = After(text, k, in[k - 1])
  <2>1. in \in [0 .. N -> BOOLEAN] /\ in[0] = begins
    BY <1>7 DEF IsRun
  <2>2. ASSUME NEW k \in 1 .. N PROVE in[k] = After(text, k, in[k - 1])
    <3>1. k \in 0 .. N /\ k # 0
      OBVIOUS
    <3> QED
      BY <1>6, <3>1, Zenon
  <2> QED
    BY <2>1, <2>2
<1> DEFINE S == Seq(Atoms)
           Next1(f, k) == IF Kept(text, k, in) THEN Append(f[k - 1], text[k]) ELSE f[k - 1]
           next == [x \in S \X (1 .. N) |-> IF Kept(text, x[2], in) THEN Append(x[1], text[x[2]]) ELSE x[1]]
<1>9. next \in [S \X (1 .. N) -> S]
  <2>1. \A k \in 1 .. N : text[k] \in Atoms
    OBVIOUS
  <2> HIDE DEF N
  <2> QED
    BY <2>1
<1>10. PICK run : IsRun(run, S, <<>>, N, next)
  <2>1. <<>> \in S
    OBVIOUS
  <2> HIDE DEF next, N, S
  <2> QED
    BY <1>1, <1>9, <2>1, RunExists, Zenon
<1>11. run = [k \in 0 .. N |-> IF k = 0 THEN <<>> ELSE Next1(run, k)]
  <2>1. run \in [0 .. N -> S] /\ run[0] = <<>>
    BY <1>10 DEF IsRun
  <2>2. ASSUME NEW k \in 1 .. N
        PROVE  run[k] = Next1(run, k)
    <3>1. run[k] = next[<<run[k - 1], k>>] /\ run[k - 1] \in S
      <4>1. k - 1 \in 0 .. N
        OBVIOUS
      <4> HIDE DEF next, N, S
      <4> QED
        BY <1>10, <2>1, <4>1 DEF IsRun
    <3> HIDE DEF N, S
    <3> QED
      BY <3>1
  <2> HIDE DEF N, S, next, Next1
  <2> QED
    BY <1>1, <2>1, <2>2
<1> DEFINE kept == CHOOSE f : f = [k \in 0 .. N |-> IF k = 0 THEN <<>> ELSE Next1(f, k)]
<1>12. kept = [k \in 0 .. N |-> IF k = 0 THEN <<>> ELSE Next1(kept, k)]
  <2> HIDE DEF N
  <2> QED
    BY <1>11, Zenon
<1>13. Stripped(text, begins) = kept[N]
  BY DEF Stripped, in
<1> HIDE DEF kept
<1>16. ASSUME NEW k \in 1 .. N PROVE kept[k] = Next1(kept, k)
  <2>1. k \in 0 .. N /\ k # 0
    OBVIOUS
  <2> HIDE DEF Next1
  <2> QED
    BY <1>12, <2>1, Zenon
<1>14. IsRun(kept, S, <<>>, N, next)
  <2>1. kept = [k \in 0 .. N |-> kept[k]] /\ kept[0] = <<>> /\ <<>> \in S
    <3> HIDE DEF Next1
    <3> QED
      BY <1>12
  <2>2. \A k \in 1 .. N : kept[k - 1] \in S => kept[k] = next[<<kept[k - 1], k>>]
    BY <1>16
  <2> HIDE DEF next, N, S
  <2> QED
    BY <1>1, <1>9, <2>1, <2>2, StepsAreRun
<1>15. /\ kept \in [0 .. N -> S] /\ kept[0] = <<>>
       /\ \A k \in 1 .. N : kept[k] = IF Kept(text, k, in) THEN Append(kept[k - 1], text[k]) ELSE kept[k - 1]
  <2>1. kept \in [0 .. N -> S] /\ kept[0] = <<>>
    BY <1>14 DEF IsRun
  <2> QED
    BY <1>16, <2>1
<1> QED
  BY <1>8, <1>13, <1>15 DEF IsReading, in

-----------------------------------------------------------------------------
\* An atom ends a tag.
LEMMA AfterTag ==
  ASSUME NEW text \in Seq(Atoms), NEW k \in 1 .. Len(text), NEW in \in BOOLEAN
  PROVE  After(text, k, in) = IF k > 1 /\ TagAt(text, k - 1, in) THEN ~ in ELSE in
<1>1. CASE k = 1
  BY <1>1 DEF After
<1>2. CASE k # 1
  <2>1. k > 1 /\ k - 1 \in 1 .. Len(text) - 1 /\ (k - 1) + 1 = k
    BY <1>2
  <2>2. SubSeq(text, k - 1, k) = Tag(in) <=> TagAt(text, k - 1, in)
    BY <2>1, TagIsAt
  <2> QED
    BY <2>1, <2>2 DEF After, Tag
<1> QED
  BY <1>1, <1>2

\* Where no tag ends, a thought neither begins nor ends.
LEMMA InsideThrough ==
  ASSUME NEW text \in Seq(Atoms), NEW begins, NEW in, NEW kept, IsReading(text, begins, in, kept),
         NEW p \in 0 .. Len(text), NEW m \in p .. Len(text),
         \A k \in p + 1 .. m : k > 1 => ~ TagAt(text, k - 1, in[p])
  PROVE  \A k \in p .. m : in[k] = in[p]
<1> DEFINE P == {j \in Nat : p + j <= m => in[p + j] = in[p]}
<1>1. 0 \in P
  OBVIOUS
<1>2. ASSUME NEW j \in Nat, j \in P PROVE j + 1 \in P
  <2> SUFFICES ASSUME p + (j + 1) <= m PROVE in[p + (j + 1)] = in[p]
    OBVIOUS
  <2> DEFINE k == p + (j + 1)
  <2>1. k \in p + 1 .. m /\ k \in 1 .. Len(text) /\ k - 1 = p + j /\ p + j <= m
    OBVIOUS
  <2> HIDE DEF k
  <2>2. in[k - 1] = in[p]
    BY <1>2, <2>1
  <2>3. in[k] = After(text, k, in[k - 1]) /\ in[p] \in BOOLEAN
    BY <2>1 DEF IsReading
  <2>4. After(text, k, in[p]) = in[p]
    BY <2>1, <2>3, AfterTag
  <2> QED
    BY <2>2, <2>3, <2>4 DEF k
<1>3. Nat \subseteq P
  <2> HIDE DEF P
  <2> QED
    BY <1>1, <1>2, Induction
<1>4. ASSUME NEW k \in p .. m PROVE in[k] = in[p]
  <2>1. k - p \in Nat /\ p + (k - p) = k /\ k <= m
    OBVIOUS
  <2>2. k - p \in P
    BY <1>3, <2>1
  <2> QED
    BY <2>1, <2>2
<1> QED
  BY <1>4

\* Atoms that are all kept, or none of them.
Keeps(text, in, kept, p, m) ==
  /\ (\A k \in p + 1 .. m : Kept(text, k, in)) => kept[m] = kept[p] \o SubSeq(text, p + 1, m)
  /\ (\A k \in p + 1 .. m : ~ Kept(text, k, in)) => kept[m] = kept[p]

\* The reference keeps them so.
LEMMA KeptThrough ==
  ASSUME NEW text \in Seq(Atoms), NEW begins, NEW in, NEW kept, IsReading(text, begins, in, kept),
         NEW p \in 0 .. Len(text), NEW m \in p .. Len(text)
  PROVE  Keeps(text, in, kept, p, m)
<1> SUFFICES ASSUME NEW all \in BOOLEAN, \A k \in p + 1 .. m : Kept(text, k, in) <=> all
             PROVE  kept[m] = kept[p] \o (IF all THEN SubSeq(text, p + 1, m) ELSE <<>>)
  <2> DEFINE C(all) == (\A k \in p + 1 .. m : Kept(text, k, in) <=> all)
                       => kept[m] = kept[p] \o (IF all THEN SubSeq(text, p + 1, m) ELSE <<>>)
  <2>1. ASSUME NEW all \in BOOLEAN PROVE C(all)
    BY Zenon
  <2>2. C(TRUE) /\ C(FALSE)
    <3> HIDE DEF C
    <3> QED
      BY <2>1
  <2>3. kept[p] \o <<>> = kept[p]
    BY DEF IsReading
  <2> QED
    BY <2>2, <2>3 DEF Keeps
<1> DEFINE Part(n) == IF all THEN SubSeq(text, p + 1, n) ELSE <<>>
           Good(n) == kept[n] = kept[p] \o Part(n)
<1>0. \A k \in 0 .. Len(text) : kept[k] \in Seq(Atoms)
  BY DEF IsReading
<1>1. Good(p)
  <2>1. SubSeq(text, p + 1, p) = <<>>
    OBVIOUS
  <2>2. kept[p] = kept[p] \o <<>>
    BY <1>0
  <2>3. Part(p) = <<>>
    BY <2>1
  <2> HIDE DEF Part
  <2> QED
    BY <2>2, <2>3
<1>2. ASSUME NEW k \in p + 1 .. m, Good(k - 1) PROVE Good(k)
  <2>1. k \in 1 .. Len(text) /\ k - 1 \in 0 .. Len(text)
    OBVIOUS
  <2>2. kept[k] = IF Kept(text, k, in) THEN Append(kept[k - 1], text[k]) ELSE kept[k - 1]
    BY <2>1 DEF IsReading
  <2>3. CASE ~ all
    BY <1>2, <2>2, <2>3
  <2>4. CASE all
    <3> DEFINE s == SubSeq(text, p + 1, k - 1)
               one == <<text[k]>>
    <3>1. p + 1 \in 1 .. Len(text) /\ k \in p + 1 .. Len(text)
      BY <2>1
    <3>2. Part(k) = s \o one
      BY <2>4, <3>1, SubSeqRecursiveSecond
    <3>3. s \in Seq(Atoms) /\ text[k] \in Atoms /\ one \in Seq(Atoms)
      BY <2>1, <3>1
    <3>4. kept[k] = Append(kept[p] \o s, text[k])
      BY <1>2, <2>2, <2>4
    <3> HIDE DEF s, Part
    <3>5. kept[p] \in Seq(Atoms) /\ kept[p] \o s \in Seq(Atoms)
      BY <1>0, <3>3
    <3>6. Append(kept[p] \o s, text[k]) = (kept[p] \o s) \o one
      BY <3>3, <3>5, AppendIsConcat
    <3> HIDE DEF one
    <3>7. \A u, v, w \in Seq(Atoms) : (u \o v) \o w = u \o (v \o w)
      BY ConcatAssociative
    <3>8. (kept[p] \o s) \o one = kept[p] \o (s \o one)
      BY <3>3, <3>5, <3>7, Zenon
    <3> QED
      BY <3>2, <3>4, <3>6, <3>8
  <2> QED
    BY <2>3, <2>4
<1> HIDE DEF Good
<1> DEFINE P == {j \in Nat : p + j <= m => Good(p + j)}
<1>3. 0 \in P
  BY <1>1
<1>4. ASSUME NEW j \in Nat, j \in P PROVE j + 1 \in P
  <2> SUFFICES ASSUME p + (j + 1) <= m PROVE Good(p + (j + 1))
    OBVIOUS
  <2>1. p + (j + 1) \in p + 1 .. m /\ (p + (j + 1)) - 1 = p + j /\ p + j <= m
    OBVIOUS
  <2> QED
    BY <1>2, <1>4, <2>1
<1>5. m - p \in Nat /\ p + (m - p) = m
  OBVIOUS
<1>6. m - p \in P
  <2> HIDE DEF P
  <2> QED
    BY <1>3, <1>4, <1>5, Induction
<1> QED
  <2>1. kept[m] = kept[p] \o Part(m)
    <3> HIDE DEF Part
    <3> QED
      BY <1>5, <1>6 DEF Good
  <2> HIDE DEF P
  <2> QED
    BY <2>1

\* What is left of a text after its first p atoms.
LEMMA LeftOf ==
  ASSUME NEW text \in Seq(Atoms), NEW p \in 0 .. Len(text)
  PROVE  LET left == SubSeq(text, p + 1, Len(text)) IN
         /\ left \in Seq(Atoms) /\ Len(left) = Len(text) - p
         /\ \A j \in 1 .. Len(left) : left[j] = text[p + j]
<1> DEFINE left == SubSeq(text, p + 1, Len(text))
<1>1. p + 1 \in Int /\ Len(text) \in Int /\ Len(text) \in Nat
  OBVIOUS
<1>2. \A j \in p + 1 .. Len(text) : text[j] \in Atoms
  OBVIOUS
<1>3. /\ left \in Seq(Atoms)
      /\ Len(left) = IF p + 1 <= Len(text) THEN Len(text) - (p + 1) + 1 ELSE 0
      /\ \A j \in 1 .. Len(text) - (p + 1) + 1 : left[j] = text[(p + 1) + j - 1]
  BY <1>1, <1>2, SubSeqProperties
<1>4. Len(left) = Len(text) - p
  BY <1>1, <1>3
<1>5. ASSUME NEW j \in 1 .. Len(left) PROVE left[j] = text[p + j]
  <2> HIDE DEF left
  <2>1. j \in 1 .. Len(text) - (p + 1) + 1 /\ (p + 1) + j - 1 = p + j
    BY <1>1, <1>4
  <2> QED
    BY <1>3, <2>1
<1> QED
  BY <1>3, <1>4, <1>5

\* A part of what is left is a part of the text.
LEMMA PartOfLeft ==
  ASSUME NEW text \in Seq(Atoms), NEW p \in 0 .. Len(text),
         NEW a \in 1 .. Len(text) - p + 1, NEW b \in a - 1 .. Len(text) - p
  PROVE  SubSeq(SubSeq(text, p + 1, Len(text)), a, b) = SubSeq(text, p + a, p + b)
<1> DEFINE left == SubSeq(text, p + 1, Len(text))
           s == SubSeq(left, a, b)
           t == SubSeq(text, p + a, p + b)
<1>1. left \in Seq(Atoms) /\ Len(left) = Len(text) - p /\ \A j \in 1 .. Len(left) : left[j] = text[p + j]
  BY LeftOf
<1> HIDE DEF left
<1>2. /\ a \in Int /\ b \in Int /\ p + a \in Int /\ p + b \in Int /\ p \in Nat
      /\ \A j \in a .. b : j \in 1 .. Len(left)
      /\ \A j \in p + a .. p + b : j \in 1 .. Len(text)
  BY <1>1
<1>3. /\ \A j \in a .. b : left[j] \in Atoms
      /\ \A j \in p + a .. p + b : text[j] \in Atoms
  BY <1>1, <1>2
<1>4. /\ s \in Seq(Atoms) /\ Len(s) = IF a <= b THEN b - a + 1 ELSE 0
      /\ \A j \in 1 .. b - a + 1 : s[j] = left[a + j - 1]
  BY <1>2, <1>3, SubSeqProperties
<1>5. /\ t \in Seq(Atoms) /\ Len(t) = IF p + a <= p + b THEN (p + b) - (p + a) + 1 ELSE 0
      /\ \A j \in 1 .. (p + b) - (p + a) + 1 : t[j] = text[(p + a) + j - 1]
  BY <1>2, <1>3, SubSeqProperties
<1>6. Len(s) = b - a + 1 /\ Len(t) = b - a + 1 /\ (p + b) - (p + a) + 1 = b - a + 1
  BY <1>2, <1>4, <1>5
<1> HIDE DEF s, t
<1>7. ASSUME NEW j \in 1 .. b - a + 1 PROVE s[j] = t[j]
  <2>1. a + j - 1 \in 1 .. Len(left) /\ p + (a + j - 1) = (p + a) + j - 1
    BY <1>2
  <2>2. s[j] = left[a + j - 1] /\ t[j] = text[(p + a) + j - 1]
    BY <1>4, <1>5, <1>6
  <2> QED
    BY <1>1, <2>1, <2>2
<1>8. s = t
  BY <1>4, <1>5, <1>6, <1>7, SeqEqual
<1> QED
  BY <1>8 DEF s, t, left

-----------------------------------------------------------------------------
\* No tag of the text goes on past its first p atoms.
Uncut(text, p) == p = 0 \/ p = Len(text) \/ \A in \in BOOLEAN : ~ TagAt(text, p, in)

\* The loop on what is left after p atoms keeps what the reference keeps of it.
Agrees(text, in, kept, p, r) ==
  /\ r.text \in Seq(Atoms) /\ r.inThought = in[Len(text)]
  /\ kept[Len(text)] = kept[p] \o r.text

\* It does from wherever no tag is cut: either no tag is left, or what follows
\* the first one is shorter, and begins where no tag is cut.
LEMMA FilterAgrees ==
  ASSUME NEW text \in Seq(Atoms), NEW begins, NEW in, NEW kept, IsReading(text, begins, in, kept),
         NEW p \in 0 .. Len(text), Uncut(text, p)
  PROVE  Agrees(text, in, kept, p, Filtered[[text |-> SubSeq(text, p + 1, Len(text)), inThought |-> in[p]]])
<1> DEFINE N == Len(text)
           Left(q) == [text |-> SubSeq(text, q + 1, N), inThought |-> in[q]]
           Good(q) == Agrees(text, in, kept, q, Filtered[Left(q)])
           P == {n \in Nat : \A q \in 0 .. N : N - q = n /\ Uncut(text, q) => Good(q)}
<1>0. N \in Nat /\ \A k \in 0 .. N : kept[k] \in Seq(Atoms) /\ in[k] \in BOOLEAN
  BY DEF IsReading
<1>1. ASSUME NEW q \in 0 .. N, Uncut(text, q),
             \A k \in 0 .. N : N - k < N - q /\ Uncut(text, k) => Good(k)
      PROVE  Good(q)
  <2> DEFINE left == SubSeq(text, q + 1, N)
             i == Index(left, Tag(in[q]))
  <2>1. left \in Seq(Atoms) /\ Len(left) = N - q /\ \A j \in 1 .. Len(left) : left[j] = text[q + j]
    BY LeftOf
  <2>2. Left(q) \in Deltas /\ Left(q).text = left /\ Left(q).inThought = in[q]
    <3> HIDE DEF left
    <3>1. Left(q) = [text |-> left, inThought |-> in[q]]
      BY DEF left
    <3> QED
      BY <1>0, <2>1, <3>1 DEF Deltas
  <2>3. Filtered[Left(q)] = FilterStep(Filtered, Left(q))
    <3> HIDE DEF Left
    <3> QED
      BY <2>2, FilteredUnfolds
  <2>4. (i = 0 \/ i \in 1 .. Len(left) - 1) /\ Finds(left, in[q], i)
    <3> HIDE DEF left
    <3> QED
      BY <1>0, <2>1, IndexFinds
  <2> HIDE DEF left
  <2>5. \A j \in 1 .. Len(left) - 1 : TagAt(left, j, in[q]) <=> TagAt(text, q + j, in[q])
    <3> TAKE j \in 1 .. Len(left) - 1
    <3>1. j \in 1 .. Len(left) /\ j + 1 \in 1 .. Len(left) /\ q + (j + 1) = (q + j) + 1
      BY <2>1
    <3>2. left[j] = text[q + j] /\ left[j + 1] = text[(q + j) + 1]
      BY <2>1, <3>1
    <3> QED
      BY <3>2 DEF TagAt
  <2> HIDE DEF i
  <2>6. CASE i = 0
    <3>1. ASSUME NEW k \in q + 1 .. N, k > 1 PROVE ~ TagAt(text, k - 1, in[q])
      <4>1. CASE k = q + 1
        BY <1>0, <1>1, <3>1, <4>1 DEF Uncut
      <4>2. CASE k # q + 1
        <5>1. k - 1 - q \in 1 .. Len(left) - 1 /\ q + (k - 1 - q) = k - 1
          BY <1>0, <2>1, <4>2
        <5>2. ~ TagAt(left, k - 1 - q, in[q])
          BY <2>4, <2>6, <5>1 DEF Finds
        <5> QED
          BY <2>5, <5>1, <5>2
      <4> QED
        BY <4>1, <4>2
    <3>2. \A k \in q .. N : in[k] = in[q]
      <4> DEFINE m == N
      <4>1. m \in q .. N
        BY <1>0
      <4> HIDE DEF m
      <4>2. \A k \in q + 1 .. m : k > 1 => ~ TagAt(text, k - 1, in[q])
        BY <3>1 DEF m
      <4>3. \A k \in q .. m : in[k] = in[q]
        BY <4>1, <4>2, InsideThrough
      <4> QED
        BY <4>3 DEF m
    <3>3. ASSUME NEW k \in q + 1 .. N PROVE Kept(text, k, in) <=> ~ in[q]
      <4>1. k - 1 \in q .. N /\ k \in q .. N /\ (k < N => k + 1 \in q .. N)
        BY <1>0
      <4> QED
        BY <1>0, <3>2, <4>1 DEF Kept
    <3>4. kept[N] = kept[q] \o (IF ~ in[q] THEN left ELSE <<>>)
      <4>1. N \in q .. N
        BY <1>0
      <4>2. Keeps(text, in, kept, q, N)
        BY <4>1, KeptThrough
      <4>3. kept[q] \o <<>> = kept[q]
        BY <1>0
      <4> QED
        BY <3>3, <4>2, <4>3 DEF left, Keeps
    <3>5. Filtered[Left(q)] = [text |-> IF in[q] THEN <<>> ELSE left, inThought |-> in[q]]
      <4> HIDE DEF Left
      <4> QED
        BY <2>2, <2>3, <2>6 DEF FilterStep, i
    <3>6. in[N] = in[q]
      BY <1>0, <3>2
    <3> DEFINE r == Filtered[Left(q)]
    <3>7. r.text = (IF in[q] THEN <<>> ELSE left) /\ r.inThought = in[q]
      <4> HIDE DEF Left
      <4> QED
        BY <3>5
    <3> HIDE DEF r
    <3>8. Agrees(text, in, kept, q, r)
      <4>1. CASE in[q]
        BY <1>0, <2>1, <3>4, <3>6, <3>7, <4>1 DEF Agrees
      <4>2. CASE ~ in[q]
        BY <1>0, <2>1, <3>4, <3>6, <3>7, <4>2 DEF Agrees
      <4> QED
        BY <4>1, <4>2
    <3> QED
      BY <3>8 DEF r
  <2>7. CASE i # 0
    <3> DEFINE e == q + i
               t == e + 1
               x == IF in[q] THEN <<>> ELSE SubSeq(left, 1, i - 1)
    <3>0. i \in 1 .. Len(left) - 1 /\ i \in Nat
      BY <2>4, <2>7
    <3>1. e \in q + 1 .. N - 1 /\ t \in 1 .. N /\ N - t < N - q
      BY <1>0, <2>1, <3>0
    <3>2. TagAt(text, e, in[q]) /\ \A j \in q + 1 .. e - 1 : ~ TagAt(text, j, in[q])
      <4>1. TagAt(text, e, in[q])
        BY <2>4, <2>5, <2>7, <3>0 DEF Finds
      <4>2. ASSUME NEW j \in q + 1 .. e - 1 PROVE ~ TagAt(text, j, in[q])
        <5>1. j - q \in 1 .. i - 1 /\ j - q \in 1 .. Len(left) - 1 /\ q + (j - q) = j
          BY <2>1, <3>0
        <5> QED
          BY <2>4, <2>5, <2>7, <5>1 DEF Finds
      <4> QED
        BY <4>1, <4>2
    <3> HIDE DEF e
    <3>3. \A k \in q .. e : in[k] = in[q]
      <4>1. ASSUME NEW k \in q + 1 .. e, k > 1 PROVE ~ TagAt(text, k - 1, in[q])
        <5>1. CASE k = q + 1
          BY <1>0, <1>1, <3>1, <4>1, <5>1 DEF Uncut
        <5>2. CASE k # q + 1
          <6>1. k - 1 \in q + 1 .. e - 1
            BY <3>1, <5>2
          <6> QED
            BY <3>2, <6>1
        <5> QED
          BY <5>1, <5>2
      <4>2. e \in q .. N
        BY <1>0, <3>1
      <4> QED
        BY <4>1, <4>2, InsideThrough
    <3>4. in[t] = ~ in[q]
      <4>1. in[e] = in[q] /\ t - 1 = e /\ t > 1
        BY <3>1, <3>3
      <4>2. in[t] = After(text, t, in[t - 1])
        BY <3>1 DEF IsReading
      <4>3. After(text, t, in[q]) = ~ in[q]
        BY <1>0, <3>1, <3>2, <4>1, AfterTag
      <4> QED
        BY <4>1, <4>2, <4>3
    <3> HIDE DEF t
    <3>5. t = e + 1
      BY DEF t
    <3>6. kept[e - 1] = kept[q] \o (IF ~ in[q] THEN SubSeq(text, q + 1, e - 1) ELSE <<>>)
      <4>1. ASSUME NEW k \in q + 1 .. e - 1 PROVE Kept(text, k, in) <=> ~ in[q]
        <5>1. k - 1 \in q .. e /\ k \in q .. e /\ k + 1 \in q .. e
          BY <3>1
        <5> QED
          BY <1>0, <3>3, <5>1 DEF Kept
      <4> DEFINE m == e - 1
      <4>2. m \in q .. N
        BY <1>0, <3>1
      <4> HIDE DEF m
      <4>3. Keeps(text, in, kept, q, m)
        BY <4>2, KeptThrough
      <4>4. kept[q] \o <<>> = kept[q]
        BY <1>0
      <4> QED
        BY <4>1, <4>3, <4>4 DEF m, Keeps
    <3>7. kept[t] = kept[e - 1]
      <4> DEFINE d == e - 1
      <4>1. ASSUME NEW k \in d + 1 .. t PROVE ~ Kept(text, k, in)
        <5>1. CASE k = e
          <6>1. k - 1 \in q .. e /\ k < N /\ k + 1 = t
            BY <3>1, <3>5, <5>1
          <6>2. in[k - 1] = in[q]
            BY <3>3, <6>1
          <6> QED
            BY <1>0, <3>4, <6>1, <6>2 DEF Kept
        <5>2. CASE k = t
          <6>1. k - 1 \in q .. e
            BY <3>1, <3>5, <5>2
          <6> QED
            BY <1>0, <3>3, <3>4, <5>2, <6>1 DEF Kept
        <5> QED
          BY <3>1, <3>5, <5>1, <5>2
      <4>2. d \in 0 .. N /\ t \in d .. N
        BY <1>0, <3>1, <3>5
      <4> HIDE DEF d
      <4>3. Keeps(text, in, kept, d, t)
        BY <4>2, KeptThrough
      <4> QED
        BY <4>1, <4>3 DEF d, Keeps
    <3>8. SubSeq(left, 1, i - 1) = SubSeq(text, q + 1, e - 1) /\ Rest(left, i) = SubSeq(text, t + 1, N)
      <4>1. /\ 1 \in 1 .. N - q + 1 /\ i - 1 \in 1 - 1 .. N - q /\ q + (i - 1) = e - 1
            /\ i + 2 \in 1 .. N - q + 1 /\ N - q \in (i + 2) - 1 .. N - q
            /\ q + (i + 2) = t + 1 /\ q + (N - q) = N
        BY <1>0, <2>1, <3>0 DEF e, t
      <4>2. SubSeq(left, 1, i - 1) = SubSeq(text, q + 1, q + (i - 1))
        BY <4>1, PartOfLeft DEF left
      <4>3. SubSeq(left, i + 2, N - q) = SubSeq(text, q + (i + 2), q + (N - q))
        BY <4>1, PartOfLeft DEF left
      <4> QED
        BY <2>1, <4>1, <4>2, <4>3 DEF Rest
    <3>9. Uncut(text, t)
      <4>1. text[t] = "ink>"
        BY <3>2, <3>5 DEF TagAt
      <4>2. \A b \in BOOLEAN : ~ TagAt(text, t, b)
        BY <4>1 DEF TagAt
      <4> QED
        BY <4>2 DEF Uncut
    <3> DEFINE r == Filtered[Left(t)]
    <3>10. Agrees(text, in, kept, t, r)
      <4>1. t \in 0 .. N
        BY <3>1
      <4> HIDE DEF Left
      <4> QED
        BY <1>1, <3>1, <3>9, <4>1
    <3>11. Filtered[Left(q)] = [text |-> x \o r.text, inThought |-> r.inThought]
      <4>1. [text |-> Rest(left, i), inThought |-> ~ in[q]] = Left(t)
        BY <3>4, <3>8
      <4> HIDE DEF Left
      <4> QED
        BY <2>2, <2>3, <2>7, <4>1 DEF FilterStep, i
    <3> HIDE DEF r
    <3>12. x \in Seq(Atoms) /\ kept[e - 1] \in Seq(Atoms) /\ kept[q] \in Seq(Atoms) /\ r.text \in Seq(Atoms)
      <4>1. SubSeq(left, 1, i - 1) \in Seq(Atoms)
        BY <2>1, <3>0, RestIsShorter
      <4>2. e - 1 \in 0 .. N
        BY <1>0, <3>1
      <4> QED
        BY <1>0, <3>10, <4>1, <4>2 DEF Agrees
    <3>13. kept[t] = kept[q] \o x
      <4>1. CASE in[q]
        BY <3>6, <3>7, <4>1
      <4>2. CASE ~ in[q]
        BY <3>6, <3>7, <3>8, <4>2
      <4> QED
        BY <4>1, <4>2
    <3> HIDE DEF x
    <3>14. kept[N] = kept[q] \o (x \o r.text)
      <4>1. \A u, v, w \in Seq(Atoms) : (u \o v) \o w = u \o (v \o w)
        BY ConcatAssociative
      <4>2. kept[N] = (kept[q] \o x) \o r.text
        BY <3>10, <3>13 DEF Agrees
      <4> QED
        BY <3>12, <4>1, <4>2, Zenon
    <3>15. x \o r.text \in Seq(Atoms)
      BY <3>12
    <3> DEFINE rq == Filtered[Left(q)]
    <3>16. rq.text = x \o r.text /\ rq.inThought = r.inThought
      <4> HIDE DEF Left
      <4> QED
        BY <3>11
    <3> HIDE DEF rq
    <3>17. Agrees(text, in, kept, q, rq)
      BY <3>10, <3>14, <3>15, <3>16 DEF Agrees
    <3> QED
      BY <3>17 DEF rq
  <2> QED
    BY <2>6, <2>7
<1> HIDE DEF Good
<1>2. ASSUME NEW n \in Nat, \A m \in Nat : m < n => m \in P
      PROVE  n \in P
  <2> SUFFICES ASSUME NEW q \in 0 .. N, N - q = n, Uncut(text, q) PROVE Good(q)
    OBVIOUS
  <2>1. ASSUME NEW k \in 0 .. N, N - k < N - q, Uncut(text, k) PROVE Good(k)
    <3>1. N - k \in Nat /\ N - k < n
      BY <1>0, <2>1
    <3>2. N - k \in P
      <4> HIDE DEF P
      <4> QED
        BY <1>2, <3>1
    <3> QED
      BY <2>1, <3>2
  <2> QED
    BY <1>1, <2>1
<1>3. Nat \subseteq P
  <2> HIDE DEF P
  <2> QED
    BY <1>2, StrongInduction
<1>4. N - p \in Nat
  BY <1>0
<1>5. Good(p)
  BY <1>3, <1>4
<1> QED
  BY <1>5 DEF Good

\* A delta that cuts no tag leaves the reading of what came before as it was.
LEMMA ReadingContinues ==
  ASSUME NEW u \in Seq(Atoms), NEW v \in Seq(Atoms), NEW begins,
         NEW inU, NEW keptU, IsReading(u, begins, inU, keptU),
         NEW inW, NEW keptW, IsReading(u \o v, begins, inW, keptW),
         Uncut(u \o v, Len(u))
  PROVE  inW[Len(u)] = inU[Len(u)] /\ keptW[Len(u)] = keptU[Len(u)]
<1> DEFINE w == u \o v
           n == Len(u)
<1>1. /\ w \in Seq(Atoms) /\ n \in Nat /\ Len(w) \in Nat /\ n <= Len(w)
      /\ \A k \in 1 .. n : w[k] = u[k]
  BY ConcatProperties
<1> HIDE DEF w, n
<1>2. IsReading(w, begins, inW, keptW) /\ IsReading(u, begins, inU, keptU) /\ Uncut(w, n) /\ n = Len(u)
  BY DEF w, n
<1> DEFINE P == {k \in Nat : k <= n => inW[k] = inU[k]}
<1>3. 0 \in P
  BY <1>2 DEF IsReading
<1>4. ASSUME NEW k \in Nat, k \in P PROVE k + 1 \in P
  <2> SUFFICES ASSUME k + 1 <= n PROVE inW[k + 1] = inU[k + 1]
    OBVIOUS
  <2> DEFINE j == k + 1
  <2>1. j \in 1 .. n /\ j \in 1 .. Len(w) /\ j - 1 = k /\ j - 1 \in 0 .. n /\ k <= n
    BY <1>1
  <2> HIDE DEF j
  <2>2. inW[j - 1] = inU[j - 1] /\ inU[j - 1] \in BOOLEAN
    BY <1>2, <1>4, <2>1 DEF IsReading
  <2>3. inW[j] = After(w, j, inW[j - 1]) /\ inU[j] = After(u, j, inU[j - 1])
    BY <1>2, <2>1 DEF IsReading
  <2>4. j > 1 => (TagAt(w, j - 1, inU[j - 1]) <=> TagAt(u, j - 1, inU[j - 1]))
    <3> SUFFICES ASSUME j > 1
                 PROVE  TagAt(w, j - 1, inU[j - 1]) <=> TagAt(u, j - 1, inU[j - 1])
      OBVIOUS
    <3>1. j - 1 \in 1 .. n /\ (j - 1) + 1 = j
      BY <2>1
    <3> QED
      BY <1>1, <2>1, <3>1 DEF TagAt
  <2>5. After(w, j, inU[j - 1]) = After(u, j, inU[j - 1])
    BY <1>1, <1>2, <2>1, <2>2, <2>4, AfterTag
  <2> QED
    BY <2>2, <2>3, <2>5 DEF j
<1>5. \A k \in 0 .. n : inW[k] = inU[k]
  <2>1. Nat \subseteq P
    <3> HIDE DEF P
    <3> QED
      BY <1>3, <1>4, Induction
  <2> QED
    BY <2>1
<1>6. ASSUME NEW k \in 1 .. n PROVE Kept(w, k, inW) <=> Kept(u, k, inU)
  <2>1. inW[k - 1] = inU[k - 1] /\ inW[k] = inU[k]
    BY <1>1, <1>5
  <2>2. CASE k < n
    <3>1. k < Len(w) /\ inW[k + 1] = inU[k + 1]
      BY <1>1, <1>5, <2>2
    <3> QED
      BY <1>2, <2>1, <2>2, <3>1 DEF Kept
  <2>3. CASE k = n
    <3>1. CASE n = Len(w)
      BY <1>2, <2>1, <2>3, <3>1 DEF Kept
    <3>2. CASE n < Len(w)
      <4>1. k + 1 \in 1 .. Len(w) /\ (k + 1) - 1 = k /\ k \in 0 .. Len(w)
        BY <1>1, <2>3, <3>2
      <4>2. inW[k] \in BOOLEAN /\ inW[k + 1] = After(w, k + 1, inW[k])
        BY <1>2, <4>1 DEF IsReading
      <4>3. ~ TagAt(w, k, inW[k])
        BY <1>1, <1>2, <2>3, <3>2, <4>2 DEF Uncut
      <4>4. inW[k + 1] = inW[k]
        BY <1>1, <4>1, <4>2, <4>3, AfterTag
      <4> QED
        BY <1>2, <2>1, <2>3, <4>4 DEF Kept
    <3> QED
      BY <1>1, <3>1, <3>2
  <2> QED
    BY <1>1, <2>2, <2>3
<1> DEFINE Q == {k \in Nat : k <= n => keptW[k] = keptU[k]}
<1>7. 0 \in Q
  BY <1>2 DEF IsReading
<1>8. ASSUME NEW k \in Nat, k \in Q PROVE k + 1 \in Q
  <2> SUFFICES ASSUME k + 1 <= n PROVE keptW[k + 1] = keptU[k + 1]
    OBVIOUS
  <2> DEFINE j == k + 1
  <2>1. j \in 1 .. n /\ j \in 1 .. Len(w) /\ j - 1 = k /\ k <= n
    BY <1>1
  <2> HIDE DEF j
  <2>2. keptW[j - 1] = keptU[j - 1]
    BY <1>8, <2>1
  <2>3. /\ keptW[j] = IF Kept(w, j, inW) THEN Append(keptW[j - 1], w[j]) ELSE keptW[j - 1]
        /\ keptU[j] = IF Kept(u, j, inU) THEN Append(keptU[j - 1], u[j]) ELSE keptU[j - 1]
    BY <1>2, <2>1 DEF IsReading
  <2>4. keptW[j] = keptU[j]
    BY <1>1, <1>6, <2>1, <2>2, <2>3
  <2> QED
    BY <2>4 DEF j
<1>9. n \in Q
  <2> HIDE DEF Q
  <2> QED
    BY <1>1, <1>7, <1>8, Induction
<1> QED
  BY <1>1, <1>5, <1>9 DEF n

\* A delta as filterThought leaves it.
LEMMA FilteredTyped ==
  ASSUME NEW text \in Seq(Atoms), NEW in \in BOOLEAN
  PROVE  FilterThought(text, in).text \in Seq(Atoms) /\ FilterThought(text, in).inThought \in BOOLEAN
<1> DEFINE inside == Inside(text, in)
<1>1. PICK kept : IsReading(text, in, inside, kept)
  BY InsideAndStripped
<1> HIDE DEF inside
<1>2. 0 \in 0 .. Len(text) /\ Uncut(text, 0) /\ Len(text) \in 0 .. Len(text)
  BY DEF Uncut
<1> DEFINE r == Filtered[[text |-> SubSeq(text, 0 + 1, Len(text)), inThought |-> inside[0]]]
<1>3. Agrees(text, inside, kept, 0, r)
  BY <1>1, <1>2, FilterAgrees
<1>4. SubSeq(text, 0 + 1, Len(text)) = text /\ inside[0] = in
  BY <1>1 DEF IsReading
<1>5. r = FilterThought(text, in)
  BY <1>4 DEF FilterThought
<1> HIDE DEF r
<1>6. r.text \in Seq(Atoms) /\ r.inThought \in BOOLEAN
  BY <1>1, <1>2, <1>3 DEF Agrees, IsReading
<1> QED
  BY <1>5, <1>6

\* What every delta preserves.
FilterInv ==
  /\ whole \in Seq(Atoms) /\ shown \in Seq(Atoms) /\ inThought \in BOOLEAN /\ intact \in BOOLEAN
  /\ FilterIsExact

\* Before the first delta nothing is shown.
LEMMA InitFilter == Init => FilterInv
<1> SUFFICES ASSUME Init PROVE FilterInv
  OBVIOUS
<1>1. whole = <<>> /\ shown = <<>> /\ inThought = FALSE /\ intact = TRUE
  BY DEF Init
<1>2. PICK kept : IsReading(<<>>, FALSE, Inside(<<>>, FALSE), kept) /\ Stripped(<<>>, FALSE) = kept[Len(<<>>)]
  <2>1. <<>> \in Seq(Atoms)
    OBVIOUS
  <2> QED
    BY <2>1, InsideAndStripped
<1>3. Stripped(<<>>, FALSE) = <<>> /\ Inside(<<>>, FALSE)[Len(<<>>)] = FALSE
  <2>1. Len(<<>>) = 0
    OBVIOUS
  <2> QED
    BY <1>2, <2>1 DEF IsReading
<1>4. FilterIsExact
  BY <1>1, <1>3, Zenon DEF FilterIsExact
<1>5. <<>> \in Seq(Atoms) /\ FALSE \in BOOLEAN /\ TRUE \in BOOLEAN
  OBVIOUS
<1> QED
  BY <1>1, <1>4, <1>5, Zenon DEF FilterInv

\* The delta is filtered as the whole answer would be.
LEMMA NextFilter == FilterInv /\ [Next]_vars => FilterInv'
<1> SUFFICES ASSUME FilterInv, [Next]_vars PROVE FilterInv'
  OBVIOUS
<1>1. CASE UNCHANGED vars
  BY <1>1 DEF vars, FilterInv, FilterIsExact
<1>2. ASSUME NEW n \in 1 .. MaxLength - Len(whole), NEW text \in [1 .. n -> Atoms], TextDelta(text)
      PROVE  FilterInv'
  <2> DEFINE filtered == FilterThought(text, inThought)
             w == whole \o text
             p == Len(whole)
  <2>1. /\ whole' = w /\ shown' = shown \o filtered.text
        /\ inThought' = filtered.inThought /\ intact' = (intact /\ ~ Cuts(text))
    BY <1>2 DEF TextDelta
  <2>2. text \in Seq(Atoms) /\ Len(text) = n /\ n >= 1 /\ n \in Nat
    OBVIOUS
  <2>3. whole \in Seq(Atoms) /\ shown \in Seq(Atoms) /\ inThought \in BOOLEAN /\ intact \in BOOLEAN
    BY DEF FilterInv
  <2>4. filtered.text \in Seq(Atoms) /\ filtered.inThought \in BOOLEAN
    BY <2>2, <2>3, FilteredTyped
  <2>5. whole' \in Seq(Atoms) /\ shown' \in Seq(Atoms) /\ inThought' \in BOOLEAN /\ intact' \in BOOLEAN
    <3> HIDE DEF filtered
    <3> QED
      BY <2>1, <2>2, <2>3, <2>4
  <2>6. ASSUME intact, ~ Cuts(text)
        PROVE  shown' = Stripped(w, FALSE) /\ inThought' = Inside(w, FALSE)[Len(w)]
    <3>1. /\ w \in Seq(Atoms) /\ Len(w) = p + n /\ p \in Nat
          /\ \A k \in 1 .. p : w[k] = whole[k]
          /\ \A k \in 1 .. n : w[p + k] = text[k]
      <4>1. whole \in Seq(Atoms) /\ text \in Seq(Atoms) /\ Len(text) = n
        BY <2>2, <2>3
      <4> DEFINE v == text
      <4> HIDE DEF v
      <4>2. /\ whole \o v \in Seq(Atoms) /\ Len(whole \o v) = Len(whole) + Len(v)
            /\ \A k \in 1 .. Len(whole) + Len(v) : (whole \o v)[k] = IF k <= Len(whole) THEN whole[k] ELSE v[k - Len(whole)]
        BY <4>1, ConcatProperties DEF v
      <4> HIDE DEF w, p
      <4>3. w = whole \o v /\ p = Len(whole) /\ Len(v) = n /\ p \in Nat /\ v = text
        BY <4>1 DEF v, w, p
      <4>4. Len(w) = p + n /\ \A k \in 1 .. p + n : w[k] = IF k <= p THEN whole[k] ELSE text[k - p]
        BY <4>2, <4>3
      <4>5. /\ \A k \in 1 .. p : k \in 1 .. p + n /\ k <= p
            /\ \A k \in 1 .. n : p + k \in 1 .. p + n /\ ~ p + k <= p /\ (p + k) - p = k
        BY <2>2, <4>3
      <4> QED
        BY <4>2, <4>3, <4>4, <4>5
    <3>2. Uncut(w, p)
      <4> SUFFICES ASSUME p # 0, NEW in \in BOOLEAN, TagAt(w, p, in) PROVE FALSE
        BY DEF Uncut
      <4>1. w[p] = whole[p] /\ w[p + 1] = text[1]
        BY <2>2, <3>1
      <4>2. Last(whole) = whole[p] /\ Head(text) = text[1] /\ whole # <<>>
        BY <2>2, <2>3 DEF Last
      <4>3. <<whole[p], text[1]>> = Tag(in)
        BY <4>1 DEF TagAt, Tag, Opening, Closing
      <4> QED
        BY <2>6, <4>2, <4>3 DEF Cuts, Tag
    <3> DEFINE inU == Inside(whole, FALSE)
               inW == Inside(w, FALSE)
    <3>3. PICK keptU : IsReading(whole, FALSE, inU, keptU) /\ Stripped(whole, FALSE) = keptU[p]
      BY <2>3, InsideAndStripped
    <3>4. PICK keptW : IsReading(w, FALSE, inW, keptW) /\ Stripped(w, FALSE) = keptW[Len(w)]
      <4> HIDE DEF w
      <4> QED
        BY <3>1, InsideAndStripped
    <3>5. shown = Stripped(whole, FALSE) /\ inThought = inU[p]
      BY <2>6 DEF FilterInv, FilterIsExact
    <3> HIDE DEF inU, inW
    <3>6. inW[p] = inU[p] /\ keptW[p] = keptU[p]
      <4> DEFINE u == whole
                 v == text
                 b == FALSE
      <4>1. u \in Seq(Atoms) /\ v \in Seq(Atoms)
        BY <2>2, <2>3
      <4>2. IsReading(u, b, inU, keptU) /\ IsReading(u \o v, b, inW, keptW) /\ Uncut(u \o v, Len(u))
        BY <3>2, <3>3, <3>4
      <4> HIDE DEF u, v, b
      <4>3. inW[Len(u)] = inU[Len(u)] /\ keptW[Len(u)] = keptU[Len(u)]
        BY <4>1, <4>2, ReadingContinues
      <4> QED
        BY <4>3 DEF u
    <3> HIDE DEF w, p
    <3> DEFINE r == Filtered[[text |-> SubSeq(w, p + 1, Len(w)), inThought |-> inW[p]]]
    <3>7. Agrees(w, inW, keptW, p, r)
      <4>1. p \in 0 .. Len(w)
        BY <2>2, <3>1
      <4> QED
        BY <3>1, <3>2, <3>4, <4>1, FilterAgrees
    <3>8. SubSeq(w, p + 1, Len(w)) = text
      <4> DEFINE s == SubSeq(w, p + 1, Len(w))
      <4>1. s \in Seq(Atoms) /\ Len(s) = Len(w) - p /\ \A j \in 1 .. Len(s) : s[j] = w[p + j]
        <5>1. p \in 0 .. Len(w)
          BY <2>2, <3>1
        <5> QED
          BY <3>1, <5>1, LeftOf
      <4> HIDE DEF s
      <4>2. Len(s) = n /\ \A j \in 1 .. n : s[j] = text[j]
        BY <2>2, <3>1, <4>1
      <4>3. s = text
        BY <2>2, <4>1, <4>2, SeqEqual
      <4> QED
        BY <4>3 DEF s
    <3>9. r = filtered
      BY <3>5, <3>6, <3>8 DEF FilterThought
    <3> HIDE DEF r, filtered
    <3>10. r.inThought = inW[Len(w)] /\ keptW[Len(w)] = keptW[p] \o r.text
      BY <3>7 DEF Agrees
    <3> QED
      BY <2>1, <3>3, <3>4, <3>5, <3>6, <3>9, <3>10 DEF inW
  <2> HIDE DEF filtered, w
  <2>7. FilterIsExact'
    BY <2>1, <2>3, <2>6 DEF FilterIsExact
  <2> QED
    BY <2>5, <2>7 DEF FilterInv
<1> QED
  BY <1>1, <1>2 DEF Next, Done

\* The client has been sent what the reference keeps of the answer, throughout.
THEOREM FilterInvariant == Spec => []FilterInv
<1> QED
  BY InitFilter, NextFilter, PTL DEF Spec

\* Deltas filtered one by one show what the whole answer would, for answers of
\* any length, cut anywhere but within a tag (filterThought, agent_stream.go:432).
THEOREM FilterExact == Spec => []FilterIsExact
<1>1. FilterInv => FilterIsExact
  BY DEF FilterInv
<1> QED
  BY <1>1, FilterInvariant, PTL
=============================================================================
