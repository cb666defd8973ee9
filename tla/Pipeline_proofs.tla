-------------------------- MODULE Pipeline_proofs --------------------------
(***************************************************************************)
(* Proofs about the loops that turn the body of a package into code, for   *)
(* every size of the buffers, of the reads, of the sectors and of the      *)
(* packages.                                                               *)
(***************************************************************************)
EXTENDS Pipeline, TLAPS, SequenceTheorems

-----------------------------------------------------------------------------
(* Arithmetic.                                                             *)

\* Division, with the quotient and the rest as numbers of their own.
LEMMA Division ==
    ASSUME NEW n \in Int, NEW u \in Int, u > 0
    PROVE  \E k \in Int, r \in 0 .. u - 1 : n % u = r /\ n = u * k + r
<1>1. n % u \in 0 .. u - 1 /\ n \div u \in Int
  OBVIOUS
<1>2. n = u * (n \div u) + (n % u)
  BY SMTT(60)
<1> QED BY <1>1, <1>2, Zenon

LEMMA Distribute ==
    ASSUME NEW a \in Int, NEW b \in Int, NEW u \in Int
    PROVE  u * (a + b) = u * a + u * b /\ u * (a - b) = u * a - u * b
  OBVIOUS

\* There is one way to divide.
LEMMA OneRest ==
    ASSUME NEW u \in Int, u > 0, NEW k \in Int, NEW j \in Int,
           NEW r \in 0 .. u - 1, NEW s \in 0 .. u - 1, u * k + r = u * j + s
    PROVE  r = s
<1>1. u * k \in Int /\ u * j \in Int
  OBVIOUS
<1>2. u * (j - k) = r - s
  <2>1. u * (j - k) = u * j - u * k BY Distribute
  <2> QED BY <1>1, <2>1
<1>3. CASE j - k >= 1
  <2>1. u * (j - k) >= u BY <1>3
  <2> QED BY <1>2, <2>1
<1>4. CASE j - k <= -1
  <2>1. u * (j - k) <= - u BY <1>4
  <2> QED BY <1>2, <2>1
<1>5. CASE j = k
  <2>1. u * j = u * k BY <1>5
  <2> QED BY <1>1, <2>1
<1> QED BY <1>3, <1>4, <1>5

\* The rest of a sum, when the quotient of it is known.
LEMMA RestIs ==
    ASSUME NEW u \in Int, u > 0, NEW k \in Int, NEW r \in 0 .. u - 1
    PROVE  (u * k + r) % u = r
<1>1. u * k + r \in Int
  OBVIOUS
<1>2. PICK j \in Int, s \in 0 .. u - 1 : (u * k + r) % u = s /\ u * k + r = u * j + s
  BY <1>1, Division, Zenon
<1>3. u * k + r = u * j + s
  BY <1>2, Zenon
<1>4. r = s
  BY <1>3, OneRest
<1> QED BY <1>2, <1>4, Zenon

\* A positive number divides its multiples, and only them.
LEMMA MultipleIff ==
    ASSUME NEW a \in Int, NEW u \in Int, u > 0
    PROVE  a % u = 0 <=> \E k \in Int : a = u * k
<1>1. ASSUME a % u = 0 PROVE \E k \in Int : a = u * k
  <2>1. PICK k \in Int, r \in 0 .. u - 1 : a % u = r /\ a = u * k + r
    BY Division, Zenon
  <2>2. r = 0 /\ a = u * k + r
    BY <1>1, <2>1, Zenon
  <2>3. a = u * k
    BY <2>2
  <2> QED BY <2>3
<1>2. ASSUME NEW k \in Int, a = u * k PROVE a % u = 0
  <2>1. 0 \in 0 .. u - 1 /\ a = u * k + 0
    BY <1>2
  <2> QED BY <2>1, RestIs, Zenon
<1> QED BY <1>1, <1>2

\* Rounding up adds less than a unit and yields a multiple.
LEMMA RoundUpFacts ==
    ASSUME NEW n \in Nat, NEW u \in Nat \ {0}
    PROVE  /\ RoundUp(n, u) \in Nat /\ RoundUp(n, u) >= n /\ RoundUp(n, u) < n + u
           /\ \E m \in Int : RoundUp(n, u) = u * m
<1> DEFINE m == (n + u - 1) \div u
<1>1. m \in Nat /\ n + u - 1 >= m * u /\ n + u - 1 < m * u + u
  OBVIOUS
<1>2. RoundUp(n, u) = m * u
  BY Zenon DEF RoundUp
<1> HIDE DEF m
<1>3. m * u \in Nat /\ m * u = u * m /\ m * u >= n /\ m * u < n + u
  BY <1>1
<1> QED BY <1>1, <1>2, <1>3

\* The rest of a division.
LEMMA RestFacts ==
    ASSUME NEW n \in Nat, NEW u \in Nat \ {0}
    PROVE  /\ n % u \in 0 .. u - 1 /\ n % u <= n
           /\ n - (n % u) \in Nat /\ (n - (n % u)) % u = 0
<1>1. n \in Int /\ u \in Int /\ u > 0
  OBVIOUS
<1>2. PICK k \in Int, r \in 0 .. u - 1 : n % u = r /\ n = u * k + r
  BY <1>1, Division, Zenon
<1>3. n = u * k + r
  BY <1>2, Zenon
<1>4. r <= n /\ n - r \in Nat /\ n - r = u * k
  <2>1. k >= 0
    <3> SUFFICES ASSUME k <= -1 PROVE FALSE
      OBVIOUS
    <3>1. u * k <= - u
      OBVIOUS
    <3> QED BY <1>3, <3>1
  <2>2. u * k >= 0
    BY <2>1
  <2> QED BY <1>3, <2>2
<1>5. (n - r) % u = 0
  BY <1>1, <1>4, MultipleIff
<1>6. r \in 0 .. u - 1 /\ r <= n /\ n - r \in Nat /\ (n - r) % u = 0
  BY <1>4, <1>5, Zenon
<1>7. n % u = r
  BY <1>2, Zenon
<1>8. n % u \in 0 .. u - 1
  BY <1>6, <1>7, Zenon
<1>9. n % u <= n
  BY <1>6, <1>7, Zenon
<1>10. n - (n % u) \in Nat
  BY <1>6, <1>7, Zenon
<1>11. (n - (n % u)) % u = 0
  BY <1>6, <1>7, Zenon
<1> QED BY <1>8, <1>9, <1>10, <1>11, Zenon

\* Sums with a multiple.
LEMMA SumOfMultiples ==
    ASSUME NEW u \in Nat \ {0}, NEW a \in Nat, a % u = 0, NEW b \in Nat, b % u = 0
    PROVE  (a + b) % u = 0
<1>0. u \in Int /\ u > 0 /\ a \in Int /\ b \in Int
  OBVIOUS
<1>1. PICK k \in Int : a = u * k
  BY <1>0, MultipleIff, Zenon
<1>2. PICK j \in Int : b = u * j
  BY <1>0, MultipleIff, Zenon
<1>3. a + b = u * (k + j) /\ a + b \in Int /\ k + j \in Int
  BY <1>1, <1>2, Distribute
<1> QED BY <1>0, <1>3, MultipleIff, Zenon

LEMMA RestOfSum ==
    ASSUME NEW u \in Nat \ {0}, NEW a \in Nat, a % u = 0, NEW y \in 0 .. u - 1
    PROVE  (a + y) % u = y
<1>0. u \in Int /\ u > 0 /\ a \in Int
  OBVIOUS
<1>1. PICK k \in Int : a = u * k
  BY <1>0, MultipleIff, Zenon
<1>2. (u * k + y) % u = y
  BY RestIs
<1> QED BY <1>1, <1>2, Zenon

LEMMA UnitIsMultiple ==
    ASSUME NEW u \in Nat \ {0} PROVE u % u = 0
<1>1. u = u * 1
  OBVIOUS
<1> QED BY <1>1, MultipleIff

\* A whole read that starts before the end of the code ends within the sectors
\* that the code needs, because a sector is a whole number of reads.
LEMMA ReadWithinSectors ==
    ASSUME NEW read \in Nat \ {0}, NEW sector \in Nat \ {0}, sector % read = 0,
           NEW p \in Nat, p % read = 0, NEW raw \in Nat, p < raw
    PROVE  p + read <= RoundUp(raw, sector)
<1>0. read \in Int /\ read > 0 /\ p \in Int /\ sector \in Int
  OBVIOUS
<1>1. PICK k \in Int : p = read * k
  BY <1>0, MultipleIff, Zenon
<1>2. PICK j \in Int : sector = read * j
  BY <1>0, MultipleIff, Zenon
<1>3. PICK m \in Int : RoundUp(raw, sector) = sector * m
  BY RoundUpFacts
<1>4. RoundUp(raw, sector) = read * (j * m) /\ j * m \in Int
  BY <1>2, <1>3
<1>5. read * (j * m) > read * k
  <2>1. RoundUp(raw, sector) >= raw /\ RoundUp(raw, sector) \in Nat
    BY RoundUpFacts
  <2> QED BY <1>1, <1>4, <2>1
<1> DEFINE d == j * m - k
<1>6. d \in Int /\ read * d = read * (j * m) - read * k
  BY <1>4, Distribute
<1>7. read * d > 0
  <2>1. read * (j * m) \in Int /\ read * k \in Int
    BY <1>4
  <2> QED BY <1>5, <1>6, <2>1
<1> HIDE DEF d
<1>8. d >= 1
  <2> SUFFICES ASSUME d <= 0 PROVE FALSE
    BY <1>6
  <2>1. read * d <= 0
    BY <1>6
  <2> QED BY <1>6, <1>7, <2>1
<1>9. read * d >= read
  BY <1>6, <1>8
<1>10. RoundUp(raw, sector) = p + read * d
  BY <1>1, <1>4, <1>6
<1> QED BY <1>6, <1>9, <1>10

-----------------------------------------------------------------------------
(* Rows and stretches of units.                                            *)

LEMMA LenType == ASSUME NEW S, NEW s \in Seq(S) PROVE Len(s) \in Nat
  BY LenProperties

LEMMA RowFacts ==
    ASSUME NEW a \in Nat, NEW n \in Nat
    PROVE  /\ Row(a, n) \in Seq(Units) /\ Len(Row(a, n)) = n
           /\ \A i \in 1 .. n : Row(a, n)[i] = a + i - 1
<1>1. \A i \in 1 .. n : a + i - 1 \in Units
  BY DEF Units
<1>2. Row(a, n) \in [1 .. n -> Units]
  BY <1>1 DEF Row
<1> QED BY <1>2 DEF Row

LEMMA FirstFacts ==
    ASSUME NEW S, NEW s \in Seq(S), NEW n \in Nat, n <= Len(s)
    PROVE  /\ First(s, n) \in Seq(S) /\ Len(First(s, n)) = n
           /\ \A i \in 1 .. n : First(s, n)[i] = s[i]
<1>1. Len(s) \in Nat
  BY LenProperties
<1>2. \A i \in 1 .. n : s[i] \in S
  BY <1>1, ElementOfSeq
<1>3. /\ SubSeq(s, 1, n) \in Seq(S)
      /\ Len(SubSeq(s, 1, n)) = IF 1 <= n THEN n - 1 + 1 ELSE 0
      /\ \A i \in 1 .. n - 1 + 1 : SubSeq(s, 1, n)[i] = s[1 + i - 1]
  BY <1>2, SubSeqProperties
<1> QED BY <1>3 DEF First

LEMMA FromFacts ==
    ASSUME NEW S, NEW s \in Seq(S), NEW n \in Nat, n <= Len(s)
    PROVE  /\ From(s, n) \in Seq(S) /\ Len(From(s, n)) = Len(s) - n
           /\ \A i \in 1 .. Len(s) - n : From(s, n)[i] = s[n + i]
<1>1. Len(s) \in Nat
  BY LenProperties
<1> DEFINE m == n + 1
           l == Len(s)
<1>2. \A i \in m .. l : s[i] \in S
  BY <1>1, ElementOfSeq
<1>3. m \in Int /\ l \in Int
  BY <1>1
<1>4. /\ SubSeq(s, m, l) \in Seq(S)
      /\ Len(SubSeq(s, m, l)) = IF m <= l THEN l - m + 1 ELSE 0
      /\ \A i \in 1 .. l - m + 1 : SubSeq(s, m, l)[i] = s[m + i - 1]
  BY <1>2, <1>3, SubSeqProperties
<1> QED BY <1>1, <1>4 DEF From

\* Rows of numbers that follow each other make one row.
LEMMA RowsJoin ==
    ASSUME NEW s \in Seq(Units), NEW t \in Seq(Units), NEW a \in Int,
           \A i \in 1 .. Len(s) : s[i] = a + i - 1,
           \A i \in 1 .. Len(t) : t[i] = a + Len(s) + i - 1
    PROVE  /\ s \o t \in Seq(Units) /\ Len(s \o t) = Len(s) + Len(t)
           /\ \A i \in 1 .. Len(s) + Len(t) : (s \o t)[i] = a + i - 1
<1>1. Len(s) \in Nat /\ Len(t) \in Nat
  BY LenProperties
<1>2. /\ s \o t \in Seq(Units) /\ Len(s \o t) = Len(s) + Len(t)
      /\ \A i \in 1 .. Len(s) + Len(t) :
            (s \o t)[i] = IF i <= Len(s) THEN s[i] ELSE t[i - Len(s)]
  BY ConcatProperties
<1>3. ASSUME NEW i \in 1 .. Len(s) + Len(t) PROVE (s \o t)[i] = a + i - 1
  <2>1. CASE i <= Len(s)
    BY <1>1, <1>2, <2>1
  <2>2. CASE i > Len(s)
    <3>1. i - Len(s) \in 1 .. Len(t) /\ (s \o t)[i] = t[i - Len(s)]
      BY <1>1, <1>2, <2>2
    <3>2. t[i - Len(s)] = a + Len(s) + (i - Len(s)) - 1
      BY <3>1
    <3> QED BY <1>1, <3>1, <3>2
  <2> QED BY <1>1, <2>1, <2>2
<1> QED BY <1>2, <1>3

-----------------------------------------------------------------------------
(* Writing to the destination.                                             *)

Content == [0 .. DstLen - 1 -> Units]

\* A write changes what it covers, and yields the units on erased flash.
LEMMA WrittenFacts ==
    ASSUME NEW d \in Content, NEW a \in Nat, NEW units \in Seq(Units)
    PROVE  /\ Written(d, a, units) \in Content
           /\ \A x \in 0 .. DstLen - 1 : x \notin a .. a + Len(units) - 1 =>
                    Written(d, a, units)[x] = d[x]
           /\ \A x \in 0 .. DstLen - 1 : x \in a .. a + Len(units) - 1 =>
                    /\ d[x] = Erased => Written(d, a, units)[x] = units[x - a + 1]
                    /\ units[x - a + 1] = Erased => Written(d, a, units)[x] = d[x]
<1>1. Len(units) \in Nat
  BY LenProperties
<1>2. \A x \in a .. a + Len(units) - 1 : units[x - a + 1] \in Units
  <2> TAKE x \in a .. a + Len(units) - 1
  <2>1. x - a + 1 \in 1 .. Len(units)
    BY <1>1
  <2> QED BY <2>1, ElementOfSeq
<1>3. DOMAIN d = 0 .. DstLen - 1
  BY DEF Content
<1>4. Written(d, a, units) \in Content
  BY <1>2, <1>3 DEF Written, Content, Units
<1>5. ASSUME NEW x \in 0 .. DstLen - 1, x \notin a .. a + Len(units) - 1
      PROVE  Written(d, a, units)[x] = d[x]
  BY <1>3, <1>5 DEF Written
<1>6. ASSUME NEW x \in 0 .. DstLen - 1, x \in a .. a + Len(units) - 1
      PROVE  /\ d[x] = Erased => Written(d, a, units)[x] = units[x - a + 1]
             /\ units[x - a + 1] = Erased => Written(d, a, units)[x] = d[x]
  BY <1>3, <1>6 DEF Written
<1> QED BY <1>4, <1>5, <1>6

\* What the destination looks like when the code is there up to e.
InOrder(d, e, raw, erased) ==
    /\ \A a \in 0 .. raw - 1 : a < e => d[a] = a
    /\ \A a \in e .. erased - 1 : d[a] = Erased

\* Writing the next units of the code at e moves e on; what is written beyond the
\* end of the code does no harm.
LEMMA WriteNext ==
    ASSUME NEW d \in Content, NEW e \in Nat, NEW units \in Seq(Units),
           NEW raw \in Nat, NEW erased \in Nat, raw <= erased, erased <= DstLen, DstLen \in Nat,
           InOrder(d, e, raw, erased),
           \A i \in 1 .. Len(units) : e + i - 1 < raw => units[i] = e + i - 1
    PROVE  InOrder(Written(d, e, units), e + Len(units), raw, erased)
<1> DEFINE w == Written(d, e, units)
<1>1. Len(units) \in Nat
  BY LenProperties
<1>2. ASSUME NEW a \in 0 .. raw - 1, a < e + Len(units) PROVE w[a] = a
  <2>0. a \in 0 .. DstLen - 1
    OBVIOUS
  <2>1. CASE a < e
    <3>1. a \notin e .. e + Len(units) - 1
      BY <2>1
    <3>2. d[a] = a
      BY <2>1 DEF InOrder
    <3>3. w[a] = d[a]
      BY <2>0, <3>1, WrittenFacts
    <3> QED BY <3>2, <3>3
  <2>2. CASE a >= e
    <3>1. a \in e .. e + Len(units) - 1 /\ a - e + 1 \in 1 .. Len(units)
      BY <1>1, <1>2, <2>2
    <3>2. d[a] = Erased
      BY <2>2 DEF InOrder
    <3>3. units[a - e + 1] = e + (a - e + 1) - 1
      BY <3>1
    <3>4. e + (a - e + 1) - 1 = a
      OBVIOUS
    <3>5. w[a] = units[a - e + 1]
      BY <2>0, <3>1, <3>2, WrittenFacts
    <3> QED BY <3>3, <3>4, <3>5
  <2> QED BY <2>1, <2>2
<1>3. ASSUME NEW a \in e + Len(units) .. erased - 1 PROVE w[a] = Erased
  <2>1. a \in 0 .. DstLen - 1 /\ a \notin e .. e + Len(units) - 1 /\ a \in e .. erased - 1
    BY <1>1
  <2> QED BY ZenonT(40), <2>1, WrittenFacts DEF InOrder
<1> QED BY <1>2, <1>3 DEF InOrder

\* Nothing is programmed twice, as long as what lies behind the erased flash is
\* not reached or is left blank.
LEMMA WriteClean ==
    ASSUME NEW d \in Content, NEW e \in Nat, NEW units \in Seq(Units), NEW erased \in Nat,
           \A a \in e .. erased - 1 : d[a] = Erased,
           \A a \in 0 .. DstLen - 1 : d[a] # Torn,
           \A i \in 1 .. Len(units) :
                units[i] # Torn /\ (e + i - 1 >= erased => units[i] = Erased)
    PROVE  \A a \in 0 .. DstLen - 1 : Written(d, e, units)[a] # Torn
<1> SUFFICES ASSUME NEW a \in 0 .. DstLen - 1 PROVE Written(d, e, units)[a] # Torn
  OBVIOUS
<1>1. Len(units) \in Nat
  BY LenProperties
<1>2. CASE a \notin e .. e + Len(units) - 1
  BY <1>2, WrittenFacts
<1>3. CASE a \in e .. e + Len(units) - 1
  <2>1. a - e + 1 \in 1 .. Len(units) /\ e + (a - e + 1) - 1 = a
    BY <1>1, <1>3
  <2>2. CASE a < erased
    <3>1. d[a] = Erased
      BY <1>3, <2>2
    <3> QED BY <1>3, <2>1, <3>1, WrittenFacts
  <2>3. CASE a >= erased
    <3>1. units[a - e + 1] = Erased
      BY <2>1, <2>3
    <3> QED BY <1>3, <3>1, WrittenFacts
  <2> QED BY <2>2, <2>3
<1> QED BY <1>2, <1>3

-----------------------------------------------------------------------------
(* The inductive invariant.                                                *)

Active == {"loop", "none", "gzip", "block"}
Sectors == RoundUp(pkg.raw, SECTOR)

\* Unit x of the body, once it is decrypted.
BodyUnit(x) == IF x < pkg.stream THEN x ELSE Filler

\* The buffer holds the last units that were read, and the chain of the
\* decryption is as long as what was read.
StreamOK == pc \in Active =>
    /\ pkg.crypt => ivpos = src
    /\ src <= pkg.size /\ Len(cbuf) <= src
    /\ \A i \in 1 .. Len(cbuf) : cbuf[i] = BodyUnit(src - Len(cbuf) + i - 1)
    /\ pc \in {"loop", "none"} => wlen = 0
    /\ pc # "loop" => pc = pkg.cmprs /\ pos < pkg.raw
    /\ pc = "loop" /\ pkg.cmprs # "block" => cbuf = <<>>

\* Without compression all reads but the last are whole, so each of them starts
\* at a multiple of READ_SIZE.
NoneOK == pc \in Active /\ pkg.cmprs = "none" =>
    /\ pc = "none" => /\ pos = src - Len(cbuf) /\ pos % READ_SIZE = 0
                      /\ Len(cbuf) <= READ_SIZE
                      /\ Len(cbuf) = READ_SIZE \/ src = pkg.size
    /\ pc = "loop" => pos >= pkg.raw \/ (pos = src /\ pos % READ_SIZE = 0)

\* What inflate has delivered is written or waits in gzip_remain_buf, and what is
\* written is a multiple of REMAIN_SIZE, until the remainder is flushed: then
\* everything has been written.
GzipOK == pc \in Active /\ pkg.cmprs = "gzip" =>
    /\ zmax <= pkg.raw /\ (~zlive => zmax = 0)
    /\ pc = "gzip" => /\ zlive /\ src >= pkg.stream => zmax = pkg.raw
                      /\ Len(cbuf) < READ_SIZE => src >= pkg.stream
    /\ Len(remain) <= zout
    /\ \A i \in 1 .. Len(remain) : remain[i] = zout - Len(remain) + i - 1
    /\ pos + wlen = zout - Len(remain) \/ (pc = "loop" /\ pos >= pkg.raw)
    /\ (pos + wlen) % REMAIN_SIZE = 0 \/ (job = "crc" /\ pc = "loop" /\ pos >= pkg.raw)

\* Where block k starts in the body and in the code.
AtOf(k) == IF k <= Len(pkg.blocks) THEN pkg.blocks[k].at ELSE pkg.stream
StartOf(k) == IF k <= Len(pkg.blocks) THEN pkg.blocks[k].start ELSE pkg.raw

\* The front of the buffer is the front of a block, and the code of the blocks
\* before it is written.
BlockOK == pc \in Active /\ pkg.cmprs = "block" =>
    \E k \in 1 .. Len(pkg.blocks) + 1 :
        src - Len(cbuf) = AtOf(k) /\ pos + wlen = StartOf(k)

\* The remainder was lost by the write that nobody checks.
TailLost ==
    /\ pc \in {"loop", "done"} /\ pos >= pkg.raw /\ "flush" \in fault /\ pkg.cmprs = "gzip"
    /\ \A a \in 0 .. pkg.raw - 1 :
            dst[a] = a \/ (dst[a] = Erased /\ a >= pkg.raw - (pkg.raw % REMAIN_SIZE))
    /\ \A a \in pos + wlen .. Sectors - 1 : dst[a] = Erased

ReleaseOK == job = "release" /\ pc # "idle" =>
    /\ InOrder(dst, pos + wlen, pkg.raw, Sectors) \/ TailLost
    /\ pc = "done" => pos >= pkg.raw

CrcOK == job = "crc" /\ pc \in Active =>
    /\ pos + wlen <= pkg.raw
    /\ Len(crc) = pos + wlen
    /\ \A i \in 1 .. Len(crc) : crc[i] = i - 1

NeverTorn == \A a \in 0 .. DstLen - 1 : dst[a] # Torn

Inv == /\ TypeOK /\ StreamOK /\ NoneOK /\ GzipOK /\ BlockOK
       /\ ReleaseOK /\ CrcOK /\ NeverTorn /\ NoFalseAlarm

-----------------------------------------------------------------------------
(* Consequences of the assumptions.                                        *)

\* The constants are numbers.
LEMMA Sizes ==
    /\ READ_SIZE \in Nat \ {0} /\ BUF_SIZE \in Nat \ {0} /\ REMAIN_SIZE \in Nat \ {0}
    /\ HDR_SIZE \in Nat \ {0} /\ SECTOR \in Nat \ {0} /\ REMAIN_SIZE < BUF_SIZE
    /\ MaxJobs \in Nat /\ DstLen \in Nat
  BY PipelineAssumption

\* The package, and the flash that is erased for it.
LEMMA PackageFacts ==
    ASSUME NEW q \in Packages
    PROVE  /\ q.cmprs \in {"none", "gzip", "block"} /\ q.crypt \in BOOLEAN
           /\ q.raw \in Nat \ {0} /\ q.stream \in Nat \ {0} /\ q.size \in Nat \ {0}
           /\ q.stream <= q.size /\ (q.cmprs = "none" => q.stream = q.raw)
           /\ q.cmprs = "block" => Tiled(q)
           /\ q.blocks \in Seq(Block) /\ Len(q.blocks) \in Nat
           /\ RoundUp(q.raw, SECTOR) \in Nat
           /\ q.raw <= RoundUp(q.raw, SECTOR) /\ RoundUp(q.raw, SECTOR) <= DstLen
<1>1. /\ q \in Package /\ q.stream <= q.size /\ q.raw + SECTOR <= DstLen
      /\ q.cmprs = "none" => q.stream = q.raw
      /\ q.cmprs = "block" => Tiled(q)
  BY PipelineAssumption
<1>2. /\ q.cmprs \in {"none", "gzip", "block"} /\ q.crypt \in BOOLEAN
      /\ q.raw \in Nat \ {0} /\ q.stream \in Nat \ {0} /\ q.size \in Nat \ {0}
      /\ q.blocks \in Seq(Block)
  BY <1>1 DEF Package
<1>3. Len(q.blocks) \in Nat
  BY <1>2, LenProperties
<1>4. /\ RoundUp(q.raw, SECTOR) \in Nat
      /\ RoundUp(q.raw, SECTOR) >= q.raw /\ RoundUp(q.raw, SECTOR) < q.raw + SECTOR
  BY <1>2, Sizes, RoundUpFacts
<1> QED BY <1>1, <1>2, <1>3, <1>4, Sizes

-----------------------------------------------------------------------------
(* The start and the end of a job.                                         *)

LEMMA InitInv == Init => Inv
<1> SUFFICES ASSUME Init PROVE Inv
  OBVIOUS
<1>1. pkg \in Packages
  BY PipelineAssumption DEF Init
<1>2. <<>> \in Seq(Units) /\ Len(<<>>) = 0
  OBVIOUS
<1>d. dst \in [0 .. DstLen - 1 -> Units]
  BY DEF Init, Units
<1>z. /\ pc = "idle" /\ job = "release" /\ jobs = 0 /\ fault = {} /\ zlive = FALSE
      /\ src = 0 /\ ivpos = 0 /\ pos = 0 /\ wlen = 0 /\ zmax = 0 /\ zout = 0
  BY DEF Init
<1>p. /\ pc \in Pc /\ job \in {"crc", "release"} /\ jobs \in 0 .. MaxJobs /\ fault \subseteq Faults
      /\ src \in Nat /\ ivpos \in Nat /\ pos \in Nat /\ wlen \in Nat
      /\ zmax \in Nat /\ zout \in 0 .. zmax
  BY <1>z, Sizes DEF Pc
<1>q. zlive \in BOOLEAN
  BY <1>z
<1>b. /\ cbuf \in Seq(Units) /\ crc \in Seq(Units)
      /\ remain \in Seq(Units) /\ Len(remain) < REMAIN_SIZE
  BY <1>2, Sizes DEF Init
<1>3. TypeOK
  BY <1>1, <1>d, <1>p, <1>q, <1>b DEF TypeOK
<1>4. NeverTorn
  BY DEF Init, NeverTorn, Old, Torn
<1>5. StreamOK /\ NoneOK /\ GzipOK /\ BlockOK /\ ReleaseOK /\ CrcOK /\ NoFalseAlarm
  BY DEF Init, StreamOK, NoneOK, GzipOK, BlockOK, ReleaseOK, CrcOK, NoFalseAlarm, Active
<1> QED BY <1>3, <1>4, <1>5 DEF Inv

\* The positions, the buffers and the destination are set up; what belongs to
\* another algorithm is left as it was, and is not looked at.
LEMMA StartStep ==
    ASSUME Inv, NEW q \in Packages, NEW j \in {"crc", "release"}, Start(q, j)
    PROVE  Inv'
<1> USE DEF Inv
<1>1. /\ pc' = "loop" /\ job' = j /\ pkg' = q /\ jobs' = jobs + 1 /\ jobs < MaxJobs
      /\ src' = 0 /\ cbuf' = <<>> /\ pos' = 0 /\ wlen' = 0 /\ crc' = <<>>
      /\ dst' = IF j = "release" THEN ErasedFor(q) ELSE dst
  BY DEF Start
<1>2. /\ fault' \subseteq Faults
      /\ zlive' \in BOOLEAN /\ zmax' \in Nat /\ zout' \in 0 .. zmax'
      /\ remain' \in Seq(Units) /\ Len(remain') < REMAIN_SIZE
      /\ q.cmprs = "gzip" => zmax' = 0 /\ zout' = 0 /\ remain' = <<>>
  <2>1. CASE q.cmprs = "gzip"
    BY <2>1, Sizes DEF Start, DecompressInit
  <2>2. CASE q.cmprs # "gzip"
    BY <2>2 DEF Start, DecompressInit, TypeOK
  <2> QED BY <2>1, <2>2
<1>3. ivpos' \in Nat /\ (q.crypt => ivpos' = 0)
  BY DEF Start, DecryptInit, TypeOK
<1>4. /\ dst' \in Content
      /\ j = "release" => \A a \in 0 .. RoundUp(q.raw, SECTOR) - 1 : dst'[a] = Erased
      /\ \A a \in 0 .. DstLen - 1 : dst'[a] \in {dst[a], Erased}
  <2>1. dst \in Content
    BY DEF TypeOK, Content
  <2>2. RoundUp(q.raw, SECTOR) \in Nat /\ RoundUp(q.raw, SECTOR) <= DstLen /\ DstLen \in Nat
    BY PackageFacts, Sizes
  <2>3. CASE j = "release"
    BY <1>1, <2>1, <2>2, <2>3 DEF ErasedFor, Content, Units
  <2>4. CASE j # "release"
    BY <1>1, <2>1, <2>4
  <2> QED BY <2>3, <2>4
<1>5. <<>> \in Seq(Units) /\ Len(<<>>) = 0
  OBVIOUS
<1>6. /\ q.raw \in Nat \ {0} /\ q.size \in Nat
      /\ q.cmprs = "block" => Tiled(q) /\ Len(q.blocks) \in Nat
  BY PackageFacts
<1>7. TypeOK'
  BY <1>1, <1>2, <1>3, <1>4, <1>5, Sizes DEF TypeOK, Pc, Content
<1>8. StreamOK'
  BY <1>1, <1>3, <1>5, <1>6 DEF StreamOK
<1>9. NoneOK'
  <2>1. 0 % READ_SIZE = 0
    BY Sizes
  <2> QED BY <1>1, <2>1 DEF NoneOK
<1>10. GzipOK'
  <2>1. 0 % REMAIN_SIZE = 0
    BY Sizes
  <2>2. (0 + 0) % REMAIN_SIZE = 0
    BY <2>1
  <2>3. q.cmprs = "gzip" => (pos' + wlen') % REMAIN_SIZE = 0
    BY <1>1, <2>2
  <2> SUFFICES ASSUME q.cmprs = "gzip" PROVE GzipOK'
    BY <1>1 DEF GzipOK
  <2>4. zmax' = 0 /\ zout' = 0 /\ remain' = <<>> /\ Len(remain') = 0
    BY <1>2, <1>5
  <2>a. pos' = 0 /\ wlen' = 0
    BY <1>1
  <2>b. zout' = 0 /\ Len(remain') = 0
    BY <2>4
  <2>5. pos' + wlen' = zout' - Len(remain')
    BY <2>a, <2>b
  <2>6. \A i \in 1 .. Len(remain') : FALSE
    BY <2>4
  <2>7. 0 <= q.raw
    BY <1>6
  <2> QED BY <1>1, <2>3, <2>4, <2>5, <2>6, <2>7 DEF GzipOK
<1>11. BlockOK'
  <2> SUFFICES ASSUME q.cmprs = "block"
               PROVE  (src - Len(cbuf) = AtOf(1) /\ pos + wlen = StartOf(1))'
                        /\ 1 \in 1 .. Len(q.blocks) + 1
    BY <1>1 DEF BlockOK
  <2>1. Len(q.blocks) \in Nat /\ Len(q.blocks) > 0 /\ q.blocks[1].at = 0 /\ q.blocks[1].start = 0
    BY <1>6 DEF Tiled
  <2>2. AtOf(1)' = 0 /\ StartOf(1)' = 0
    BY <1>1, <2>1 DEF AtOf, StartOf
  <2>a. Len(cbuf') = 0
    BY <1>1, <1>5, Zenon
  <2>b. src' = 0 /\ pos' = 0 /\ wlen' = 0
    BY <1>1
  <2>3. src' - Len(cbuf') = 0 /\ pos' + wlen' = 0
    BY <2>a, <2>b
  <2> QED BY <2>1, <2>2, <2>3
<1>12. ReleaseOK'
  BY <1>1, <1>4 DEF ReleaseOK, InOrder, Sectors
<1>13. CrcOK'
  BY <1>1, <1>5, <1>6 DEF CrcOK
<1>14. NeverTorn' /\ NoFalseAlarm'
  BY <1>1, <1>4 DEF NeverTorn, NoFalseAlarm, Erased, Torn
<1> QED BY <1>7, <1>8, <1>9, <1>10, <1>11, <1>12, <1>13, <1>14

\* A job that gives up because something failed leaves the destination as it is.
LEMMA FailStep ==
    ASSUME Inv, NEW what \in {"read", "write", "memory"}, Fail(what),
           pc \in Active, pos < pkg.raw, cbuf' \in {cbuf, <<>>},
           zout' \in 0 .. zmax, remain' \in Seq(Units), Len(remain') < REMAIN_SIZE,
           UNCHANGED <<job, pkg, jobs, src, ivpos, pos, wlen, zlive, zmax, dst, crc>>
    PROVE  Inv'
<1> USE DEF Inv
<1>1. pc' = "failed" /\ fault' = fault \cup {what} /\ what \in Faults
  BY DEF Fail
<1>2. TypeOK'
  <2>1. <<>> \in Seq(Units)
    OBVIOUS
  <2> QED BY <1>1, <2>1 DEF TypeOK, Pc
<1>3. ReleaseOK'
  <2>1. pkg.raw \in Nat /\ pos \in Nat
    BY PackageFacts DEF TypeOK
  <2>2. job = "release" => InOrder(dst, pos + wlen, pkg.raw, Sectors)
    BY <2>1 DEF ReleaseOK, TailLost, Active
  <2> QED BY <1>1, <2>2 DEF ReleaseOK, InOrder, Sectors
<1>4. NeverTorn' /\ NoFalseAlarm'
  BY <1>1 DEF NeverTorn, NoFalseAlarm
<1>5. StreamOK' /\ NoneOK' /\ GzipOK' /\ BlockOK' /\ CrcOK'
  BY <1>1 DEF StreamOK, NoneOK, GzipOK, BlockOK, CrcOK, Active
<1> QED BY <1>2, <1>3, <1>4, <1>5

\* No unit is ever decrypted out of step.
LEMMA NeverGarbled ==
    ASSUME Inv, pc \in Active PROVE ~Garbled
<1>1. /\ Len(cbuf) \in Nat /\ DOMAIN cbuf = 1 .. Len(cbuf) /\ src \in Nat /\ Len(cbuf) <= src
      /\ \A i \in 1 .. Len(cbuf) : cbuf[i] = BodyUnit(src - Len(cbuf) + i - 1)
  BY LenProperties DEF Inv, TypeOK, StreamOK
<1>2. \A i \in 1 .. Len(cbuf) : cbuf[i] # Garbage
  BY <1>1 DEF BodyUnit, Filler, Garbage
<1> QED BY <1>1, <1>2 DEF Garbled

LEMMA GiveUpStep ==
    ASSUME Inv, ReadFails \/ GzipFails PROVE Inv'
<1>0. zout \in 0 .. zmax /\ remain \in Seq(Units) /\ Len(remain) < REMAIN_SIZE
  BY DEF Inv, TypeOK
<1>1. CASE ReadFails
  BY <1>0, <1>1, FailStep DEF ReadFails, Active
<1>2. CASE GzipFails
  <2>1. pc = "gzip" /\ pos < pkg.raw /\ ~Garbled
    BY <1>2, NeverGarbled DEF GzipFails, Active, Inv, StreamOK
  <2> QED BY <1>0, <1>2, <2>1, FailStep DEF GzipFails, Active
<1> QED BY <1>1, <1>2

\* When the loop is left, the CRC is that of the code.
LEMMA LeaveStep ==
    ASSUME Inv, Leave PROVE Inv'
<1> USE DEF Inv
<1>1. /\ pc = "loop" /\ pos >= pkg.raw
      /\ UNCHANGED <<job, pkg, jobs, fault, src, ivpos, cbuf, pos, wlen, zlive, zmax, zout,
                     remain, dst, crc>>
      /\ pc' = IF job = "crc" /\ crc # Row(0, pkg.raw) THEN "failed" ELSE "done"
  BY DEF Leave
<1>2. pkg.raw \in Nat /\ pos \in Nat /\ wlen = 0 /\ crc \in Seq(Units)
  BY <1>1, PackageFacts DEF TypeOK, StreamOK, Active
<1>3. job = "crc" => crc = Row(0, pkg.raw)
  <2> SUFFICES ASSUME job = "crc" PROVE crc = Row(0, pkg.raw)
    OBVIOUS
  <2>1. Len(crc) = pkg.raw /\ \A i \in 1 .. Len(crc) : crc[i] = i - 1
    BY <1>1, <1>2 DEF CrcOK, Active
  <2>2. /\ Row(0, pkg.raw) \in Seq(Units) /\ Len(Row(0, pkg.raw)) = pkg.raw
        /\ \A i \in 1 .. pkg.raw : Row(0, pkg.raw)[i] = 0 + i - 1
    BY <1>2, RowFacts
  <2>3. \A i \in 1 .. Len(crc) : crc[i] = Row(0, pkg.raw)[i]
    BY <1>2, <2>1, <2>2
  <2> QED BY <1>2, <2>1, <2>2, <2>3, SeqEqual
<1>4. pc' = "done"
  BY <1>1, <1>3
<1>5. TypeOK'
  BY <1>1, <1>4 DEF TypeOK, Pc
<1>6. ReleaseOK'
  <2>1. CASE job = "release" /\ TailLost
    BY <1>1, <1>4, <2>1 DEF ReleaseOK, TailLost, Sectors
  <2>2. CASE job = "release" /\ InOrder(dst, pos + wlen, pkg.raw, Sectors)
    BY <1>1, <1>4, <2>2 DEF ReleaseOK, InOrder, Sectors
  <2> QED BY <1>1, <2>1, <2>2 DEF ReleaseOK
<1>7. NeverTorn' /\ NoFalseAlarm'
  BY <1>1, <1>4 DEF NeverTorn, NoFalseAlarm
<1>8. StreamOK' /\ NoneOK' /\ GzipOK' /\ BlockOK' /\ CrcOK'
  BY <1>4 DEF StreamOK, NoneOK, GzipOK, BlockOK, CrcOK, Active
<1> QED BY <1>5, <1>6, <1>7, <1>8

-----------------------------------------------------------------------------
(* Reading.                                                                *)

\* One read yields the next units of the body, in step with the decryption.
LEMMA PkgReadFacts ==
    ASSUME Inv, pc = "loop"
    PROVE  /\ ReadLen \in Nat /\ ReadLen <= READ_SIZE /\ src + ReadLen <= pkg.size
           /\ ReadLen = READ_SIZE \/ src + ReadLen = pkg.size
           /\ qbt_fw_pkg_read \in Seq(Units) /\ Len(qbt_fw_pkg_read) = ReadLen
           /\ \A i \in 1 .. ReadLen : qbt_fw_pkg_read[i] = BodyUnit(src + i - 1)
<1>1. /\ src \in Nat /\ pkg.size \in Nat /\ src <= pkg.size /\ READ_SIZE \in Nat \ {0}
      /\ pkg.stream \in Nat /\ (pkg.crypt => ivpos = src)
  BY PackageFacts, Sizes DEF Inv, TypeOK, StreamOK, Active
<1>2. /\ ReadLen \in Nat /\ ReadLen <= READ_SIZE /\ src + ReadLen <= pkg.size
      /\ ReadLen = READ_SIZE \/ src + ReadLen = pkg.size
  BY <1>1 DEF ReadLen, Least
<1> DEFINE n == ReadLen
<1> HIDE DEF n
<1>3. qbt_fw_pkg_read = [i \in 1 .. n |-> BodyUnit(src + i - 1)]
  BY <1>1 DEF qbt_fw_pkg_read, BodyUnit, n
<1>4. \A i \in 1 .. n : BodyUnit(src + i - 1) \in Units
  BY <1>1, <1>2 DEF BodyUnit, Units, n
<1>5. n \in Nat
  BY <1>2 DEF n
<1>6. qbt_fw_pkg_read \in Seq(Units) /\ Len(qbt_fw_pkg_read) = n
  BY <1>3, <1>4, <1>5
<1>7. \A i \in 1 .. n : qbt_fw_pkg_read[i] = BodyUnit(src + i - 1)
  BY <1>3
<1> QED BY <1>2, <1>6, <1>7 DEF n

LEMMA ReadStep ==
    ASSUME Inv, Read PROVE Inv'
<1> USE DEF Inv
<1> DEFINE r == qbt_fw_pkg_read
<1>1. /\ pc = "loop" /\ pos < pkg.raw
      /\ src' = src + ReadLen /\ ivpos' = (IF pkg.crypt THEN ivpos + ReadLen ELSE ivpos)
      /\ cbuf' = cbuf \o r
      /\ UNCHANGED <<job, pkg, jobs, fault, pos, wlen, zlive, zout, remain, dst, crc>>
  BY DEF Read
<1>2. /\ ReadLen \in Nat /\ ReadLen <= READ_SIZE /\ src + ReadLen <= pkg.size
      /\ ReadLen = READ_SIZE \/ src + ReadLen = pkg.size
      /\ r \in Seq(Units) /\ Len(r) = ReadLen
      /\ \A i \in 1 .. ReadLen : r[i] = BodyUnit(src + i - 1)
  BY <1>1, PkgReadFacts
<1> HIDE DEF r
<1>3. /\ pkg \in Packages /\ pkg.raw \in Nat \ {0} /\ pkg.size \in Nat /\ pkg.stream \in Nat
      /\ pkg.stream <= pkg.size /\ pkg.cmprs \in {"none", "gzip", "block"}
      /\ pos \in Nat /\ src \in Nat /\ cbuf \in Seq(Units) /\ Len(cbuf) \in Nat
      /\ READ_SIZE \in Nat \ {0} /\ zmax \in Nat
  BY PackageFacts, LenProperties, Sizes DEF TypeOK
<1>4. /\ pc' = pkg.cmprs
      /\ pkg.cmprs # "gzip" => zmax' = zmax
      /\ pkg.cmprs = "gzip" => zmax' \in Inflatable(src')
  BY <1>3 DEF Read
<1>5. /\ pkg.crypt => ivpos = src
      /\ Len(cbuf) <= src /\ wlen = 0
      /\ \A i \in 1 .. Len(cbuf) : cbuf[i] = BodyUnit(src - Len(cbuf) + i - 1)
      /\ pkg.cmprs # "block" => Len(cbuf) = 0
  <2>1. <<>> \in Seq(Units) /\ Len(<<>>) = 0
    OBVIOUS
  <2>2. pkg.cmprs # "block" => cbuf = <<>>
    BY <1>1 DEF StreamOK, Active
  <2>3. pkg.cmprs # "block" => Len(cbuf) = 0
    BY <2>1, <2>2, Zenon
  <2> QED BY <1>1, <2>3 DEF StreamOK, Active
<1>6. /\ cbuf' \in Seq(Units) /\ Len(cbuf') = Len(cbuf) + ReadLen
      /\ \A i \in 1 .. Len(cbuf) + ReadLen :
            cbuf'[i] = IF i <= Len(cbuf) THEN cbuf[i] ELSE r[i - Len(cbuf)]
  BY <1>1, <1>2, <1>3, ConcatProperties
<1>7. \A i \in 1 .. Len(cbuf') : cbuf'[i] = BodyUnit(src' - Len(cbuf') + i - 1)
  <2> SUFFICES ASSUME NEW i \in 1 .. Len(cbuf) + ReadLen
               PROVE  cbuf'[i] = BodyUnit(src' - Len(cbuf') + i - 1)
    BY <1>6
  <2>1. src' - Len(cbuf') + i - 1 = src - Len(cbuf) + i - 1
    BY <1>1, <1>2, <1>3, <1>6
  <2>2. CASE i <= Len(cbuf)
    <3>1. i \in 1 .. Len(cbuf) /\ cbuf'[i] = cbuf[i]
      BY <1>3, <1>6, <2>2
    <3> QED BY <1>5, <2>1, <3>1
  <2>3. CASE i > Len(cbuf)
    <3>1. i - Len(cbuf) \in 1 .. ReadLen /\ cbuf'[i] = r[i - Len(cbuf)]
      BY <1>2, <1>3, <1>6, <2>3
    <3>2. r[i - Len(cbuf)] = BodyUnit(src + (i - Len(cbuf)) - 1)
      BY <1>2, <3>1
    <3>3. src + (i - Len(cbuf)) - 1 = src' - Len(cbuf') + i - 1
      BY <1>3, <2>1
    <3> QED BY <3>1, <3>2, <3>3
  <2> QED BY <1>3, <2>2, <2>3
<1>8. StreamOK'
  <2>1. (\A i \in 1 .. Len(cbuf) : cbuf[i] = BodyUnit(src - Len(cbuf) + i - 1))'
    BY <1>1, <1>7 DEF BodyUnit
  <2>2. pkg.crypt => ivpos' = src'
    BY <1>1, <1>5
  <2>3. src' <= pkg.size /\ Len(cbuf') <= src'
    BY <1>1, <1>2, <1>3, <1>5, <1>6
  <2> QED BY <1>1, <1>3, <1>4, <1>5, <2>1, <2>2, <2>3 DEF StreamOK
<1>9. NoneOK'
  <2> SUFFICES ASSUME pkg.cmprs = "none" PROVE NoneOK'
    BY <1>1 DEF NoneOK
  <2>1. pos = src /\ pos % READ_SIZE = 0
    BY <1>1, <1>3 DEF NoneOK, Active
  <2>2. Len(cbuf') = ReadLen /\ src' - Len(cbuf') = pos
    BY <1>1, <1>2, <1>3, <1>5, <1>6, <2>1
  <2> QED BY <1>1, <1>2, <1>4, <2>1, <2>2 DEF NoneOK
<1>10. zmax' \in Nat /\ zmax <= zmax'
       /\ (pkg.cmprs = "gzip" => /\ zmax' <= pkg.raw /\ (~zlive => zmax' = 0)
                                 /\ (zlive /\ src' >= pkg.stream => zmax' = pkg.raw))
  <2>1. CASE pkg.cmprs # "gzip"
    BY <1>3, <1>4, <2>1
  <2>2. CASE pkg.cmprs = "gzip"
    <3>1. zmax <= pkg.raw /\ (~zlive => zmax = 0)
      BY <1>1, <2>2 DEF GzipOK, Active
    <3>2. src' \in Nat
      BY <1>1, <1>2, <1>3
    <3> QED BY <1>3, <1>4, <2>2, <3>1, <3>2 DEF Inflatable
  <2> QED BY <2>1, <2>2
<1>11. GzipOK'
  <2> SUFFICES ASSUME pkg.cmprs = "gzip" PROVE GzipOK'
    BY <1>1 DEF GzipOK
  <2>1. Len(cbuf') < READ_SIZE => src' >= pkg.stream
    BY <1>1, <1>2, <1>3, <1>5, <1>6
  <2>2. /\ Len(remain) <= zout
        /\ \A i \in 1 .. Len(remain) : remain[i] = zout - Len(remain) + i - 1
        /\ pos + wlen = zout - Len(remain) /\ (pos + wlen) % REMAIN_SIZE = 0
    <3>1. ~ (pos >= pkg.raw)
      BY <1>1, <1>3
    <3> QED BY <1>1, <3>1 DEF GzipOK, Active
  <2> QED BY <1>1, <1>4, <1>10, <2>1, <2>2 DEF GzipOK
<1>12. BlockOK'
  <2> SUFFICES ASSUME pkg.cmprs = "block" PROVE BlockOK'
    BY <1>1 DEF BlockOK
  <2>1. PICK k \in 1 .. Len(pkg.blocks) + 1 : src - Len(cbuf) = AtOf(k) /\ pos + wlen = StartOf(k)
    BY <1>1 DEF BlockOK, Active
  <2>2. src' - Len(cbuf') = src - Len(cbuf)
    BY <1>1, <1>2, <1>3, <1>6
  <2> QED BY <1>1, <2>1, <2>2 DEF BlockOK, AtOf, StartOf
<1>13. ReleaseOK'
  <2>1. job = "release" => InOrder(dst, pos + wlen, pkg.raw, Sectors)
    BY <1>1, <1>3 DEF ReleaseOK, TailLost
  <2> QED BY <1>1, <1>3, <1>4, <2>1 DEF ReleaseOK, InOrder, Sectors
<1>14. CrcOK' /\ NeverTorn' /\ NoFalseAlarm'
  BY <1>1, <1>3, <1>4 DEF CrcOK, NeverTorn, NoFalseAlarm, Active
<1>15. TypeOK'
  <2>1. pc' \in Pc /\ src' \in Nat /\ ivpos' \in Nat
    BY <1>1, <1>2, <1>3, <1>4 DEF TypeOK, Pc
  <2>2. zout \in 0 .. zmax'
    BY <1>10 DEF TypeOK
  <2> QED BY <1>1, <1>6, <1>10, <2>1, <2>2 DEF TypeOK
<1> QED BY <1>8, <1>9, <1>11, <1>12, <1>13, <1>14, <1>15

-----------------------------------------------------------------------------
(* Writing.                                                                *)

\* Units are cut off only beyond the end of the code.
LEMMA ClampedFacts ==
    ASSUME pkg.raw \in Nat, pos \in Nat, pos <= pkg.raw, NEW units \in Seq(Units)
    PROVE  /\ Clamped(units) \in Seq(Units)
           /\ Len(Clamped(units)) = Least(Len(units), pkg.raw - pos)
           /\ \A i \in 1 .. Len(Clamped(units)) : Clamped(units)[i] = units[i]
<1> DEFINE n == Least(Len(units), pkg.raw - pos)
<1>1. Len(units) \in Nat
  BY LenProperties
<1>2. n \in Nat /\ n <= Len(units)
  BY <1>1 DEF Least
<1>3. Clamped(units) = First(units, n)
  BY DEF Clamped
<1> HIDE DEF n
<1>4. /\ First(units, n) \in Seq(Units) /\ Len(First(units, n)) = n
      /\ \A i \in 1 .. n : First(units, n)[i] = units[i]
  BY <1>2, FirstFacts
<1> QED BY <1>3, <1>4 DEF n

\* Units of code go to the CRC behind those that went there before.
LEMMA CrcNext ==
    ASSUME NEW c \in Seq(Units), NEW units \in Seq(Units),
           \A i \in 1 .. Len(c) : c[i] = i - 1,
           \A i \in 1 .. Len(units) : units[i] = Len(c) + i - 1
    PROVE  /\ c \o units \in Seq(Units) /\ Len(c \o units) = Len(c) + Len(units)
           /\ \A i \in 1 .. Len(c \o units) : (c \o units)[i] = i - 1
<1>1. \A i \in 1 .. Len(c) : c[i] = 0 + i - 1
  OBVIOUS
<1>2. Len(c) \in Nat
  BY LenProperties
<1>3. \A i \in 1 .. Len(units) : units[i] = 0 + Len(c) + i - 1
  BY <1>2
<1>4. /\ c \o units \in Seq(Units) /\ Len(c \o units) = Len(c) + Len(units)
      /\ \A i \in 1 .. Len(c) + Len(units) : (c \o units)[i] = 0 + i - 1
  BY <1>1, <1>3, RowsJoin
<1> QED BY <1>4

\* The next units of the code are put where they belong: to the destination, or
\* into the CRC.
LEMMA PutStep ==
    ASSUME Inv, pc \in {"none", "block"}, NEW units \in Seq(Units), Put(units),
           UNCHANGED <<job, pkg>>,
           \A i \in 1 .. Len(units) : units[i] # Torn,
           \A i \in 1 .. Len(units) : pos + wlen + i - 1 < pkg.raw => units[i] = pos + wlen + i - 1,
           pos + wlen + Len(units) <= Sectors,
           wlen = 0 \/ pos + wlen + Len(units) <= pkg.raw
    PROVE  /\ Counted(units) \in Nat
           /\ Counted(units) = Len(units) \/ (wlen = 0 /\ pos + Counted(units) = pkg.raw)
           /\ dst' \in Content /\ crc' \in Seq(Units) /\ NeverTorn'
           /\ job = "release" => InOrder(dst', pos + wlen + Counted(units), pkg.raw, Sectors)
           /\ job = "crc" => /\ pos + wlen + Counted(units) <= pkg.raw
                             /\ Len(crc') = pos + wlen + Counted(units)
                             /\ \A i \in 1 .. Len(crc') : crc'[i] = i - 1
<1>1. /\ pos \in Nat /\ wlen \in Nat /\ pkg.raw \in Nat /\ pos < pkg.raw
      /\ pkg.raw <= Sectors /\ Sectors <= DstLen /\ Sectors \in Nat /\ DstLen \in Nat
      /\ dst \in Content /\ crc \in Seq(Units) /\ job \in {"crc", "release"}
  BY PackageFacts, Sizes DEF Inv, TypeOK, Content, Sectors, StreamOK, Active
<1>2. Len(units) \in Nat
  BY LenProperties
<1> DEFINE e == pos + wlen
<1>3. CASE job = "release"
  <2>1. dst' = Written(dst, e, units) /\ crc' = crc /\ Counted(units) = Len(units)
    BY <1>3 DEF Put, Counted
  <2>2. InOrder(dst, e, pkg.raw, Sectors)
    BY <1>1, <1>3 DEF Inv, ReleaseOK, TailLost
  <2>3. e \in Nat
    BY <1>1
  <2> HIDE DEF e
  <2>4. InOrder(dst', e + Len(units), pkg.raw, Sectors)
    <3>1. \A i \in 1 .. Len(units) : e + i - 1 < pkg.raw => units[i] = e + i - 1
      BY DEF e
    <3>2. InOrder(Written(dst, e, units), e + Len(units), pkg.raw, Sectors)
      BY <1>1, <2>2, <2>3, <3>1, WriteNext
    <3> QED BY <2>1, <3>2
  <2>5. \A a \in 0 .. DstLen - 1 : dst'[a] # Torn
    <3>1. \A a \in 0 .. DstLen - 1 : dst[a] # Torn
      BY DEF Inv, NeverTorn
    <3>2. \A i \in 1 .. Len(units) : units[i] # Torn /\ (e + i - 1 >= Sectors => units[i] = Erased)
      BY <1>1, <1>2, <2>3 DEF e
    <3>3. \A a \in e .. Sectors - 1 : dst[a] = Erased
      BY <2>2 DEF InOrder
    <3>4. \A a \in 0 .. DstLen - 1 : Written(dst, e, units)[a] # Torn
      BY <1>1, <2>3, <3>1, <3>2, <3>3, WriteClean
    <3> QED BY <2>1, <3>4
  <2>6. dst' \in Content
    BY <1>1, <2>1, <2>3, WrittenFacts
  <2>7. NeverTorn'
    BY <2>5 DEF NeverTorn
  <2> QED BY <1>1, <1>2, <1>3, <2>1, <2>4, <2>6, <2>7 DEF e
<1>4. CASE job = "crc"
  <2>1. dst' = dst /\ crc' = crc \o Clamped(units) /\ Counted(units) = Len(Clamped(units))
    BY <1>4 DEF Put, Counted
  <2>2. /\ Clamped(units) \in Seq(Units)
        /\ Len(Clamped(units)) = Least(Len(units), pkg.raw - pos)
        /\ \A i \in 1 .. Len(Clamped(units)) : Clamped(units)[i] = units[i]
    <3>1. pkg.raw \in Nat /\ pos \in Nat /\ pos <= pkg.raw
      BY <1>1
    <3> QED BY <3>1, ClampedFacts, Zenon
  <2> DEFINE cl == Clamped(units)
             n == Len(cl)
  <2>3. /\ n \in Nat /\ n <= Len(units) /\ e + n <= pkg.raw
        /\ n = Len(units) \/ (wlen = 0 /\ pos + n = pkg.raw)
    <3>1. n = Least(Len(units), pkg.raw - pos)
      BY <2>2
    <3> HIDE DEF n, cl
    <3>2. CASE Len(units) <= pkg.raw - pos
      <4>1. n = Len(units)
        BY <3>1, <3>2 DEF Least
      <4>2. e + n <= pkg.raw
        BY <1>1, <1>2, <3>2, <4>1
      <4> QED BY <1>1, <1>2, <4>1, <4>2
    <3>3. CASE Len(units) > pkg.raw - pos
      <4>1. n = pkg.raw - pos
        BY <1>1, <1>2, <3>1, <3>3 DEF Least
      <4>2. wlen = 0
        BY <1>1, <1>2, <3>3
      <4>3. n \in Nat /\ n <= Len(units) /\ pos + n = pkg.raw
        BY SMTT(30), <1>1, <1>2, <3>3, <4>1
      <4>4. e = pos
        BY <1>1, <4>2
      <4> QED BY <1>1, <4>2, <4>3, <4>4
    <3> QED BY <1>1, <1>2, <3>2, <3>3
  <2>4. Len(crc) = e /\ \A i \in 1 .. Len(crc) : crc[i] = i - 1
    BY <1>4 DEF Inv, CrcOK, Active
  <2> HIDE DEF cl
  <2>5. \A i \in 1 .. Len(cl) : cl[i] = Len(crc) + i - 1
    <3> SUFFICES ASSUME NEW i \in 1 .. n PROVE cl[i] = e + i - 1
      BY <2>4
    <3>1. cl[i] = units[i]
      BY <2>2 DEF cl
    <3>2. i \in 1 .. Len(units) /\ e + i - 1 < pkg.raw
      BY <1>1, <1>2, <2>3
    <3> QED BY <3>1, <3>2
  <2>6. /\ crc \o cl \in Seq(Units) /\ Len(crc \o cl) = Len(crc) + Len(cl)
        /\ \A i \in 1 .. Len(crc \o cl) : (crc \o cl)[i] = i - 1
    BY <1>1, <2>2, <2>4, <2>5, CrcNext DEF cl
  <2>7. /\ crc' \in Seq(Units) /\ Len(crc') = e + n
        /\ \A i \in 1 .. Len(crc') : crc'[i] = i - 1
    BY <2>1, <2>4, <2>6 DEF cl
  <2>8. NeverTorn'
    BY <2>1 DEF Inv, NeverTorn
  <2> QED BY <1>1, <1>4, <2>1, <2>3, <2>7, <2>8 DEF cl
<1> QED BY <1>1, <1>3, <1>4

\* Without compression the units that were read are those of the code, and the
\* filler behind the last of them stays within the sectors that are erased.
LEMMA CopyOutStep ==
    ASSUME Inv, CopyOut PROVE Inv'
<1> USE DEF Inv
<1> DEFINE n == Counted(cbuf)
<1>1. /\ pc = "none" /\ Put(cbuf) /\ cbuf' = <<>>
      /\ pc' = "loop" /\ pos' = pos + n /\ wlen' = 0
      /\ UNCHANGED <<job, pkg, jobs, fault, src, ivpos, zlive, zmax, zout, remain>>
  BY DEF CopyOut, CallReturns
<1> HIDE DEF n
<1>2. /\ pkg.cmprs = "none" /\ pkg.raw \in Nat /\ pkg.stream = pkg.raw
      /\ pkg.stream <= pkg.size /\ pkg.size \in Nat
      /\ Sectors = RoundUp(pkg.raw, SECTOR)
      /\ pos \in Nat /\ wlen = 0 /\ pos < pkg.raw /\ src \in Nat
      /\ cbuf \in Seq(Units) /\ Len(cbuf) \in Nat
      /\ READ_SIZE \in Nat \ {0} /\ SECTOR \in Nat \ {0} /\ SECTOR % READ_SIZE = 0
      /\ job \in {"crc", "release"}
  BY <1>1, PackageFacts, LenProperties, Sizes, PipelineAssumption
     DEF TypeOK, StreamOK, Active, Sectors
<1>3. /\ pos = src - Len(cbuf) /\ pos % READ_SIZE = 0 /\ Len(cbuf) <= READ_SIZE
      /\ Len(cbuf) = READ_SIZE \/ src = pkg.size
  BY <1>1, <1>2 DEF NoneOK, Active
<1>4. \A i \in 1 .. Len(cbuf) : cbuf[i] = BodyUnit(pos + i - 1)
  BY <1>1, <1>3 DEF StreamOK, Active
<1>5. pos + READ_SIZE <= Sectors
  BY <1>2, <1>3, ReadWithinSectors
<1>6. \A i \in 1 .. Len(cbuf) : cbuf[i] # Torn
  BY <1>2, <1>4 DEF BodyUnit, Filler, Torn
<1>7. \A i \in 1 .. Len(cbuf) : pos + wlen + i - 1 < pkg.raw => cbuf[i] = pos + wlen + i - 1
  BY <1>2, <1>4 DEF BodyUnit
<1>8. pos + wlen + Len(cbuf) <= Sectors
  <2>1. Sectors \in Nat
    BY PackageFacts DEF TypeOK, Sectors
  <2> QED BY <1>2, <1>3, <1>5, <2>1
<1>9. /\ n \in Nat
      /\ n = Len(cbuf) \/ (wlen = 0 /\ pos + n = pkg.raw)
      /\ dst' \in Content /\ crc' \in Seq(Units) /\ NeverTorn'
      /\ job = "release" => InOrder(dst', pos + wlen + n, pkg.raw, Sectors)
      /\ job = "crc" => /\ pos + wlen + n <= pkg.raw
                        /\ Len(crc') = pos + wlen + n
                        /\ \A i \in 1 .. Len(crc') : crc'[i] = i - 1
  <2>1. pc \in {"none", "block"} /\ UNCHANGED <<job, pkg>>
    BY <1>1
  <2> QED BY <1>1, <1>2, <1>6, <1>7, <1>8, <2>1, PutStep DEF n
<1>10. pos + wlen + n = pos' + wlen' /\ pos' \in Nat
  BY <1>1, <1>2, <1>9
<1>11. <<>> \in Seq(Units) /\ Len(<<>>) = 0
  OBVIOUS
<1>12. cbuf' \in Seq(Units) /\ Len(cbuf') = 0
  BY <1>1, <1>11, Zenon
<1>13. TypeOK'
  BY <1>1, <1>9, <1>10, <1>12 DEF TypeOK, Pc, Content
<1>14. StreamOK'
  BY <1>1, <1>2, <1>12 DEF StreamOK, Active
<1>15. NoneOK'
  <2>1. CASE n = Len(cbuf) /\ Len(cbuf) = READ_SIZE
    <3>1. pos' = src'
      BY <1>1, <1>2, <1>3, <2>1
    <3>2. READ_SIZE % READ_SIZE = 0
      BY <1>2, UnitIsMultiple
    <3>3. (pos + READ_SIZE) % READ_SIZE = 0
      BY <1>2, <1>3, <3>2, SumOfMultiples
    <3>4. pos' % READ_SIZE = 0
      BY <1>1, <2>1, <3>3
    <3> QED BY <1>1, <3>1, <3>4 DEF NoneOK
  <2>2. CASE n = Len(cbuf) /\ src = pkg.size
    <3>1. pos' >= pkg.raw
      BY <1>1, <1>2, <1>3, <2>2
    <3> QED BY <1>1, <3>1 DEF NoneOK
  <2>3. CASE pos + n = pkg.raw
    <3>1. pos' >= pkg.raw
      BY <1>1, <1>2, <2>3
    <3> QED BY <1>1, <3>1 DEF NoneOK
  <2> QED BY <1>3, <1>9, <2>1, <2>2, <2>3
<1>16. GzipOK' /\ BlockOK'
  BY <1>1, <1>2 DEF GzipOK, BlockOK
<1>17. ReleaseOK'
  <2>1. Sectors' = Sectors
    BY <1>1 DEF Sectors
  <2>2. job' = "release" => InOrder(dst', pos' + wlen', pkg'.raw, Sectors')
    BY <1>1, <1>9, <1>10, <2>1
  <2> QED BY <1>1, <2>2 DEF ReleaseOK
<1>18. CrcOK'
  BY <1>1, <1>9, <1>10 DEF CrcOK
<1>19. NoFalseAlarm'
  BY <1>1 DEF NoFalseAlarm
<1> QED BY <1>9, <1>13, <1>14, <1>15, <1>16, <1>17, <1>18, <1>19

-----------------------------------------------------------------------------
(* QuickLZ and FastLZ.                                                     *)

\* The sizes of a block are positive, and blocks end within body and code.
LEMMA BlockFacts ==
    ASSUME pkg \in Packages, pkg.cmprs = "block", NEW k \in 1 .. Len(pkg.blocks)
    PROVE  /\ pkg.blocks[k].at \in Nat /\ pkg.blocks[k].size \in Nat \ {0}
           /\ pkg.blocks[k].start \in Nat /\ pkg.blocks[k].len \in Nat \ {0}
           /\ AtOf(k) = pkg.blocks[k].at /\ StartOf(k) = pkg.blocks[k].start
           /\ AtOf(k + 1) = pkg.blocks[k].at + HDR_SIZE + pkg.blocks[k].size
           /\ StartOf(k + 1) = pkg.blocks[k].start + pkg.blocks[k].len
           /\ AtOf(k + 1) <= pkg.stream /\ StartOf(k + 1) <= pkg.raw
           /\ pkg.blocks[k].at < pkg.stream
<1>1. pkg.blocks \in Seq(Block) /\ Len(pkg.blocks) \in Nat /\ Tiled(pkg) /\ pkg.stream \in Nat
  BY PackageFacts
<1>2. pkg.blocks[k] \in Block
  BY <1>1, ElementOfSeq
<1>3. /\ pkg.blocks[k].at \in Nat /\ pkg.blocks[k].size \in Nat \ {0}
      /\ pkg.blocks[k].start \in Nat /\ pkg.blocks[k].len \in Nat \ {0}
  BY <1>2 DEF Block
<1>4. /\ pkg.blocks[k].at + HDR_SIZE + pkg.blocks[k].size <= pkg.stream
      /\ pkg.blocks[k].start + pkg.blocks[k].len <= pkg.raw
  BY <1>1 DEF Tiled
<1>5. AtOf(k) = pkg.blocks[k].at /\ StartOf(k) = pkg.blocks[k].start
  BY <1>1 DEF AtOf, StartOf
<1>6. /\ AtOf(k + 1) = pkg.blocks[k].at + HDR_SIZE + pkg.blocks[k].size
      /\ StartOf(k + 1) = pkg.blocks[k].start + pkg.blocks[k].len
  <2>1. CASE k < Len(pkg.blocks)
    <3>1. k \in 1 .. Len(pkg.blocks) - 1 /\ k + 1 <= Len(pkg.blocks)
      BY <1>1, <2>1
    <3> QED BY <1>1, <3>1 DEF Tiled, AtOf, StartOf
  <2>2. CASE k = Len(pkg.blocks)
    <3>1. ~ (k + 1 <= Len(pkg.blocks))
      BY <1>1, <2>2
    <3> QED BY <1>1, <2>2, <3>1 DEF Tiled, AtOf, StartOf
  <2> QED BY <1>1, <2>1, <2>2
<1>7. pkg.blocks[k].at < pkg.stream
  BY <1>1, <1>3, <1>4, Sizes
<1> QED BY <1>3, <1>4, <1>5, <1>6, <1>7

\* What is at the front of the buffer is the block that comes next, or filler:
\* no other block can be taken for it.
LEMMA HeadIsNext ==
    ASSUME Inv, pc = "block", NEW h \in HeadBlocks
    PROVE  /\ h \in 1 .. Len(pkg.blocks)
           /\ HDR_SIZE + pkg.blocks[h].size <= Len(cbuf)
           /\ src - Len(cbuf) = AtOf(h) /\ pos + wlen = StartOf(h)
<1>1. /\ pkg \in Packages /\ pkg.cmprs = "block" /\ pkg.blocks \in Seq(Block)
      /\ Len(pkg.blocks) \in Nat /\ Tiled(pkg) /\ pkg.stream \in Nat
      /\ src \in Nat /\ cbuf \in Seq(Units) /\ Len(cbuf) \in Nat
  BY PackageFacts, LenProperties DEF Inv, TypeOK, StreamOK, Active
<1>2. /\ h \in DOMAIN pkg.blocks
      /\ HDR_SIZE + pkg.blocks[h].size <= Len(cbuf)
      /\ First(cbuf, HDR_SIZE + pkg.blocks[h].size)
            = Row(pkg.blocks[h].at, HDR_SIZE + pkg.blocks[h].size)
  BY DEF HeadBlocks
<1>3. h \in 1 .. Len(pkg.blocks)
  BY <1>1, <1>2, LenProperties
<1>4. /\ pkg.blocks[h].at \in Nat /\ pkg.blocks[h].size \in Nat \ {0}
      /\ pkg.blocks[h].at < pkg.stream
  BY <1>1, <1>3, BlockFacts
<1> DEFINE n == HDR_SIZE + pkg.blocks[h].size
<1>5. n \in Nat /\ n >= 1 /\ n <= Len(cbuf)
  BY <1>2, <1>4, Sizes
<1>6. First(cbuf, n)[1] = cbuf[1] /\ Row(pkg.blocks[h].at, n)[1] = pkg.blocks[h].at + 1 - 1
  <2> HIDE DEF n
  <2>1. 1 \in 1 .. n
    BY <1>5
  <2> QED BY ZenonT(40), <1>1, <1>4, <1>5, <2>1, FirstFacts, RowFacts
<1>7. cbuf[1] = pkg.blocks[h].at
  BY <1>2, <1>4, <1>6
<1>8. PICK k \in 1 .. Len(pkg.blocks) + 1 : src - Len(cbuf) = AtOf(k) /\ pos + wlen = StartOf(k)
  BY <1>1 DEF Inv, BlockOK, Active
<1>9. cbuf[1] = BodyUnit(AtOf(k))
  <2>1. 1 \in 1 .. Len(cbuf) /\ src - Len(cbuf) + 1 - 1 = AtOf(k)
    BY <1>1, <1>5, <1>8
  <2>2. cbuf[1] = BodyUnit(src - Len(cbuf) + 1 - 1)
    BY <2>1 DEF Inv, StreamOK, Active
  <2> QED BY <2>1, <2>2
<1>10. k <= Len(pkg.blocks)
  <2> SUFFICES ASSUME ~ (k <= Len(pkg.blocks)) PROVE FALSE
    OBVIOUS
  <2>1. AtOf(k) = pkg.stream
    BY DEF AtOf
  <2>2. cbuf[1] = Filler
    BY <1>1, <1>9, <2>1 DEF BodyUnit
  <2> QED BY <1>4, <1>7, <2>2 DEF Filler
<1>11. k \in 1 .. Len(pkg.blocks) /\ AtOf(k) = pkg.blocks[k].at /\ pkg.blocks[k].at < pkg.stream
  <2>1. k \in 1 .. Len(pkg.blocks)
    BY <1>1, <1>10
  <2> QED BY <1>1, <2>1, BlockFacts
<1>12. cbuf[1] = pkg.blocks[k].at
  BY <1>9, <1>11 DEF BodyUnit
<1>13. h = k
  BY <1>1, <1>3, <1>7, <1>11, <1>12 DEF Tiled
<1> QED BY <1>2, <1>3, <1>8, <1>13

\* A block is taken from the front of the buffer, and its code is put.
LEMMA BlockRoundStep ==
    ASSUME Inv, BlockRound PROVE Inv'
<1> USE DEF Inv
<1>1. PICK h \in HeadBlocks :
        /\ Put(Row(pkg.blocks[h].start, pkg.blocks[h].len))
        /\ wlen' = wlen + Counted(Row(pkg.blocks[h].start, pkg.blocks[h].len))
        /\ cbuf' = From(cbuf, HDR_SIZE + pkg.blocks[h].size)
  BY DEF BlockRound
<1>2. /\ pc = "block"
      /\ UNCHANGED <<pc, job, pkg, jobs, fault, src, ivpos, pos, zlive, zmax, zout, remain>>
  BY DEF BlockRound
<1> DEFINE b == pkg.blocks[h]
           units == Row(b.start, b.len)
           n == HDR_SIZE + b.size
<1>3. /\ pkg \in Packages /\ pkg.cmprs = "block" /\ pkg.raw \in Nat /\ pkg.stream \in Nat
      /\ pkg.raw <= Sectors /\ Sectors \in Nat
      /\ pos \in Nat /\ wlen \in Nat /\ src \in Nat /\ pos < pkg.raw
      /\ cbuf \in Seq(Units) /\ Len(cbuf) \in Nat /\ Len(cbuf) <= src /\ HDR_SIZE \in Nat
      /\ job \in {"crc", "release"} /\ Len(pkg.blocks) \in Nat
  BY <1>2, PackageFacts, LenProperties, Sizes DEF TypeOK, StreamOK, Active, Sectors
<1>4. /\ h \in 1 .. Len(pkg.blocks) /\ n <= Len(cbuf)
      /\ src - Len(cbuf) = AtOf(h) /\ pos + wlen = StartOf(h)
  BY <1>2, HeadIsNext
<1>5. /\ b.at \in Nat /\ b.size \in Nat \ {0} /\ b.start \in Nat /\ b.len \in Nat \ {0}
      /\ AtOf(h) = b.at /\ StartOf(h) = b.start
      /\ AtOf(h + 1) = b.at + HDR_SIZE + b.size /\ StartOf(h + 1) = b.start + b.len
      /\ StartOf(h + 1) <= pkg.raw
  BY <1>3, <1>4, BlockFacts, Zenon
<1> HIDE DEF b
<1>n. n \in Nat /\ AtOf(h + 1) = b.at + n
  <2>1. \A x, y, z \in Int : x + y + z = x + (y + z)
    OBVIOUS
  <2>2. AtOf(h + 1) = b.at + HDR_SIZE + b.size
    BY <1>5, Zenon
  <2>3. b.at \in Nat /\ HDR_SIZE \in Nat /\ b.size \in Nat
    BY <1>3, <1>5
  <2>4. n \in Nat
    BY <2>3
  <2>5. b.at + HDR_SIZE + b.size = b.at + n
    BY <2>1, <2>3
  <2> QED BY <2>2, <2>4, <2>5
<1> HIDE DEF n
<1>6. /\ units \in Seq(Units) /\ Len(units) = b.len
      /\ \A i \in 1 .. b.len : units[i] = b.start + i - 1
  BY <1>5, RowFacts
<1> HIDE DEF units
<1>7. /\ \A i \in 1 .. Len(units) : units[i] # Torn
      /\ \A i \in 1 .. Len(units) : pos + wlen + i - 1 < pkg.raw => units[i] = pos + wlen + i - 1
      /\ pos + wlen + Len(units) <= pkg.raw /\ pos + wlen + Len(units) <= Sectors
      /\ pos + wlen + Len(units) = StartOf(h + 1)
  <2>1. pos + wlen = b.start
    BY <1>4, <1>5
  <2>2. \A i \in 1 .. Len(units) : units[i] # Torn
    BY <1>5, <1>6 DEF Torn
  <2>3. \A i \in 1 .. Len(units) : units[i] = pos + wlen + i - 1
    BY <1>6, <2>1
  <2>4. pos + wlen + Len(units) = StartOf(h + 1)
    BY <1>5, <1>6, <2>1
  <2>5. StartOf(h + 1) <= pkg.raw /\ StartOf(h + 1) <= Sectors /\ StartOf(h + 1) \in Nat
    BY SMTT(30), <1>3, <1>5
  <2> QED BY <2>2, <2>3, <2>4, <2>5
<1> DEFINE c == Counted(units)
<1>8. /\ c \in Nat
      /\ c = Len(units) \/ (wlen = 0 /\ pos + c = pkg.raw)
      /\ dst' \in Content /\ crc' \in Seq(Units) /\ NeverTorn'
      /\ job = "release" => InOrder(dst', pos + wlen + c, pkg.raw, Sectors)
      /\ job = "crc" => /\ pos + wlen + c <= pkg.raw
                        /\ Len(crc') = pos + wlen + c
                        /\ \A i \in 1 .. Len(crc') : crc'[i] = i - 1
  <2>1. pc \in {"none", "block"} /\ UNCHANGED <<job, pkg>> /\ Put(units)
    BY <1>1, <1>2 DEF units, b
  <2> QED BY <1>2, <1>6, <1>7, <2>1, PutStep
<1> HIDE DEF c
<1>9. wlen' = wlen + c /\ pos' = pos /\ wlen' \in Nat
      /\ pos' + wlen' = pos + wlen + c /\ pos' + wlen' = StartOf(h + 1)
  <2>1. wlen' = wlen + c
    BY <1>1 DEF c, units, b
  <2>2. wlen + c <= pkg.raw /\ pos + wlen + c = StartOf(h + 1)
    <3>1. CASE c = Len(units)
      <4>1. pos + wlen + c = StartOf(h + 1) /\ pos + wlen + c <= pkg.raw
        BY <1>7, <3>1
      <4> QED BY <1>3, <1>8, <4>1
    <3>2. CASE c # Len(units)
      <4>1. wlen = 0 /\ pos + c = pkg.raw
        BY <1>8, <3>2
      <4>2. job = "release" => c = Len(units)
        BY DEF c, Counted
      <4>3. job = "crc"
        BY <1>3, <3>2, <4>2
      <4>4. c <= Len(units)
        <5>1. c = Len(Clamped(units))
          BY <4>3 DEF c, Counted
        <5>2. pkg.raw \in Nat /\ pos \in Nat /\ pos <= pkg.raw /\ Len(units) \in Nat
          BY <1>3, <1>5, <1>6
        <5>3. Len(Clamped(units)) = Least(Len(units), pkg.raw - pos)
          BY <1>6, <5>2, ClampedFacts, Zenon
        <5> QED BY <5>1, <5>2, <5>3 DEF Least
      <4>5. pos + wlen + Len(units) <= pkg.raw
        BY <1>7
      <4>6. Len(units) \in Nat
        BY <1>5, <1>6
      <4> QED BY <1>3, <1>8, <3>2, <4>1, <4>4, <4>5, <4>6
    <3> QED BY <3>1, <3>2
  <2> QED BY <1>2, <1>3, <1>8, <2>1, <2>2
<1>10. /\ cbuf' \in Seq(Units) /\ Len(cbuf') = Len(cbuf) - n
       /\ \A i \in 1 .. Len(cbuf) - n : cbuf'[i] = cbuf[n + i]
  <2>1. n \in Nat
    BY <1>n
  <2>2. cbuf' = From(cbuf, n)
    BY <1>1 DEF n, b
  <2>3. n <= Len(cbuf)
    BY <1>4
  <2>4. /\ From(cbuf, n) \in Seq(Units) /\ Len(From(cbuf, n)) = Len(cbuf) - n
        /\ \A i \in 1 .. Len(cbuf) - n : From(cbuf, n)[i] = cbuf[n + i]
    BY <1>3, <2>1, <2>3, FromFacts
  <2> QED BY <2>2, <2>4, Zenon
<1>11. Len(cbuf') \in Nat /\ Len(cbuf') <= src /\ src - Len(cbuf') = AtOf(h + 1)
  <2> DEFINE l == Len(cbuf')
             m == Len(cbuf)
  <2>1. l = m - n /\ n <= m /\ m \in Nat /\ m <= src /\ src - m = AtOf(h)
    BY <1>3, <1>4, <1>10
  <2> HIDE DEF l, m
  <2>2. l \in Nat /\ l <= src /\ src - l = AtOf(h + 1)
    BY <1>3, <1>5, <1>n, <2>1
  <2> QED BY <2>2 DEF l
<1>12. TypeOK'
  BY <1>2, <1>8, <1>9, <1>10 DEF TypeOK, Pc, Content
<1>13. StreamOK'
  <2>1. (\A i \in 1 .. Len(cbuf) : cbuf[i] = BodyUnit(src - Len(cbuf) + i - 1))'
    <3> SUFFICES ASSUME NEW i \in 1 .. Len(cbuf) - n
                 PROVE  cbuf'[i] = BodyUnit(src - Len(cbuf') + i - 1)
      BY <1>2, <1>10 DEF BodyUnit
    <3>1. n + i \in 1 .. Len(cbuf)
      BY <1>3, <1>n
    <3>2. cbuf[n + i] = BodyUnit(src - Len(cbuf) + (n + i) - 1)
      BY <1>2, <3>1 DEF StreamOK, Active
    <3>3. src - Len(cbuf) + (n + i) - 1 = src - Len(cbuf') + i - 1
      <4> DEFINE l == Len(cbuf')
                 m == Len(cbuf)
      <4>1. l = m - n /\ m \in Nat /\ i \in Int
        BY <1>3, <1>10
      <4> HIDE DEF l, m
      <4>2. src - m + (n + i) - 1 = src - l + i - 1
        BY <1>3, <1>n, <4>1
      <4> QED BY <4>2 DEF l, m
    <3>4. cbuf'[i] = cbuf[n + i]
      BY <1>10
    <3> QED BY <3>2, <3>3, <3>4
  <2> QED BY <1>2, <1>3, <1>11, <2>1 DEF StreamOK, Active
<1>14. NoneOK' /\ GzipOK'
  BY <1>2, <1>3 DEF NoneOK, GzipOK
<1>15. BlockOK'
  <2>1. h + 1 \in 1 .. Len(pkg.blocks) + 1
    BY <1>3, <1>4
  <2>2. AtOf(h + 1)' = AtOf(h + 1) /\ StartOf(h + 1)' = StartOf(h + 1)
    BY <1>2 DEF AtOf, StartOf
  <2> QED BY <1>2, <1>9, <1>11, <2>1, <2>2 DEF BlockOK
<1>16. ReleaseOK'
  <2>1. Sectors' = Sectors
    BY <1>2 DEF Sectors
  <2>2. job' = "release" => InOrder(dst', pos' + wlen', pkg'.raw, Sectors')
    BY <1>2, <1>8, <1>9, <2>1
  <2> QED BY <1>2, <2>2 DEF ReleaseOK
<1>17. CrcOK'
  BY <1>2, <1>8, <1>9 DEF CrcOK
<1>18. NoFalseAlarm'
  BY <1>2 DEF NoFalseAlarm
<1> QED BY <1>8, <1>12, <1>13, <1>14, <1>15, <1>16, <1>17, <1>18

\* The call returns when no whole block is left.
LEMMA BlockEndStep ==
    ASSUME Inv, BlockEnd PROVE Inv'
<1> USE DEF Inv
<1>1. /\ pc = "block" /\ pc' = "loop" /\ pos' = pos + wlen /\ wlen' = 0
      /\ UNCHANGED <<job, pkg, jobs, fault, src, ivpos, cbuf, zlive, zmax, zout, remain, dst, crc>>
  BY DEF BlockEnd, CallReturns
<1>2. /\ pkg.cmprs = "block" /\ pos \in Nat /\ wlen \in Nat /\ pkg.raw \in Nat
  BY <1>1, PackageFacts DEF TypeOK, StreamOK, Active
<1>3. pos' \in Nat /\ pos' + wlen' = pos + wlen
  BY <1>1, <1>2
<1>4. TypeOK'
  BY <1>1, <1>2, <1>3 DEF TypeOK, Pc
<1>5. StreamOK'
  <2>1. (\A i \in 1 .. Len(cbuf) : cbuf[i] = BodyUnit(src - Len(cbuf) + i - 1))'
    BY <1>1 DEF StreamOK, Active, BodyUnit
  <2> QED BY <1>1, <1>2, <2>1 DEF StreamOK, Active
<1>6. NoneOK' /\ GzipOK'
  BY <1>1, <1>2 DEF NoneOK, GzipOK
<1>7. BlockOK'
  <2>1. PICK k \in 1 .. Len(pkg.blocks) + 1 : src - Len(cbuf) = AtOf(k) /\ pos + wlen = StartOf(k)
    BY <1>1, <1>2 DEF BlockOK, Active
  <2>2. AtOf(k)' = AtOf(k) /\ StartOf(k)' = StartOf(k)
    BY <1>1 DEF AtOf, StartOf
  <2> QED BY <1>1, <1>3, <2>1, <2>2 DEF BlockOK
<1>8. ReleaseOK'
  <2>1. job = "release" => InOrder(dst, pos + wlen, pkg.raw, Sectors)
    BY <1>1 DEF ReleaseOK, TailLost
  <2>2. Sectors' = Sectors
    BY <1>1 DEF Sectors
  <2>3. job' = "release" => InOrder(dst', pos' + wlen', pkg'.raw, Sectors')
    BY <1>1, <1>3, <2>1, <2>2
  <2> QED BY <1>1, <2>3 DEF ReleaseOK
<1>9. CrcOK'
  BY <1>1, <1>3 DEF CrcOK, Active
<1>10. NeverTorn' /\ NoFalseAlarm'
  BY <1>1 DEF NeverTorn, NoFalseAlarm
<1> QED BY <1>4, <1>5, <1>6, <1>7, <1>8, <1>9, <1>10

-----------------------------------------------------------------------------
(* gzip.                                                                   *)

\* Nothing is cut off within the code.
LEMMA ClampedAll ==
    ASSUME pkg.raw \in Nat, pos \in Nat, NEW units \in Seq(Units), pos + Len(units) <= pkg.raw
    PROVE  Clamped(units) = units
<1>1. Len(units) \in Nat
  BY LenProperties
<1>2. pos <= pkg.raw /\ Least(Len(units), pkg.raw - pos) = Len(units)
  BY <1>1 DEF Least
<1>3. /\ Clamped(units) \in Seq(Units)
      /\ Len(Clamped(units)) = Len(units)
      /\ \A i \in 1 .. Len(Clamped(units)) : Clamped(units)[i] = units[i]
  BY <1>2, ClampedFacts
<1> QED BY <1>3, SeqEqual

\* What is gathered is the next stretch of the code.
LEMMA GatheredFacts ==
    ASSUME Inv, pc = "gzip"
    PROVE  /\ Inflated \in Nat /\ zout + Inflated <= zmax
           /\ IsEnd => zout + Inflated = zmax
           /\ Gathered \in Seq(Units) /\ Len(Gathered) \in Nat
           /\ pos + wlen + Len(Gathered) = zout + Inflated
           /\ \A i \in 1 .. Len(Gathered) : Gathered[i] = pos + wlen + i - 1
<1>1. /\ zout \in Nat /\ zmax \in Nat /\ zout <= zmax /\ BUF_SIZE \in Nat /\ REMAIN_SIZE \in Nat
      /\ remain \in Seq(Units) /\ Len(remain) \in Nat /\ Len(remain) < REMAIN_SIZE
      /\ REMAIN_SIZE < BUF_SIZE /\ pos \in Nat /\ wlen \in Nat
  BY Sizes, LenProperties DEF Inv, TypeOK
<1>2. /\ Len(remain) <= zout /\ pos + wlen = zout - Len(remain)
      /\ \A i \in 1 .. Len(remain) : remain[i] = zout - Len(remain) + i - 1
  BY DEF Inv, GzipOK, StreamOK, Active
<1>3. Inflated \in Nat /\ zout + Inflated <= zmax /\ (IsEnd => zout + Inflated = zmax)
  BY <1>1 DEF Space, Inflated, IsEnd, Least
<1> DEFINE n == Inflated
<1> HIDE DEF n
<1>4. /\ Row(zout, n) \in Seq(Units) /\ Len(Row(zout, n)) = n
      /\ \A i \in 1 .. n : Row(zout, n)[i] = zout + i - 1
  BY <1>1, <1>3, RowFacts DEF n
<1> DEFINE e == zout - Len(remain)
           t == Row(zout, n)
<1>5. /\ e \in Int /\ e + Len(remain) = zout
  BY <1>1
<1> HIDE DEF e, t
<1>6. /\ \A i \in 1 .. Len(remain) : remain[i] = e + i - 1
      /\ \A i \in 1 .. Len(t) : t[i] = e + Len(remain) + i - 1
  BY <1>2, <1>4, <1>5 DEF e, t
<1>7. t \in Seq(Units)
  BY <1>4 DEF t
<1>8. /\ remain \o t \in Seq(Units) /\ Len(remain \o t) = Len(remain) + Len(t)
      /\ \A i \in 1 .. Len(remain) + Len(t) : (remain \o t)[i] = e + i - 1
  BY <1>1, <1>5, <1>6, <1>7, RowsJoin
<1>9. Gathered = remain \o t
  BY DEF Gathered, t, n
<1>10. Len(t) = n /\ n \in Nat
  BY <1>3, <1>4 DEF t, n
<1>11. /\ Gathered \in Seq(Units) /\ Len(Gathered) = Len(remain) + n
       /\ \A i \in 1 .. Len(Gathered) : Gathered[i] = e + i - 1
  BY <1>8, <1>9, <1>10, Zenon
<1>12. pos + wlen = e
  BY <1>2 DEF e
<1>13. /\ Len(Gathered) \in Nat
       /\ pos + wlen + Len(Gathered) = zout + n
  <2> DEFINE l == Len(Gathered)
  <2>1. l = Len(remain) + n
    BY <1>11
  <2> HIDE DEF l
  <2>2. l \in Nat /\ e + l = zout + n
    BY <1>1, <1>5, <1>10, <2>1
  <2> QED BY <1>12, <2>2 DEF l
<1>14. \A i \in 1 .. Len(Gathered) : Gathered[i] = pos + wlen + i - 1
  BY <1>11, <1>12
<1> QED BY <1>3, <1>11, <1>13, <1>14 DEF n

\* It is cut into whole units of REMAIN_SIZE and a rest that is smaller.  When
\* the rest is flushed, the code is complete with it.
LEMMA CutFacts ==
    ASSUME Inv, pc = "gzip", NEW e, e = pos + wlen, NEW n, n = Len(Whole), NEW r, r = Len(Rest)
    PROVE  /\ e \in Nat /\ n \in Nat /\ r \in Nat /\ r < REMAIN_SIZE
           /\ Whole \in Seq(Units) /\ Rest \in Seq(Units)
           /\ \A i \in 1 .. n : Whole[i] = e + i - 1
           /\ \A i \in 1 .. r : Rest[i] = e + n + i - 1
           /\ (e + n) % REMAIN_SIZE = 0
           /\ e + n + r = zout + Inflated /\ zout + Inflated <= pkg.raw
           /\ Flushes => e + n + r = pkg.raw /\ r = pkg.raw % REMAIN_SIZE
<1>1. /\ Inflated \in Nat /\ zout + Inflated <= zmax
      /\ IsEnd => zout + Inflated = zmax
      /\ Gathered \in Seq(Units) /\ Len(Gathered) \in Nat
      /\ pos + wlen + Len(Gathered) = zout + Inflated
      /\ \A i \in 1 .. Len(Gathered) : Gathered[i] = pos + wlen + i - 1
  BY GatheredFacts
<1>2. /\ zmax \in Nat /\ zout \in Nat /\ REMAIN_SIZE \in Nat \ {0} /\ pkg.raw \in Nat
      /\ pos \in Nat /\ wlen \in Nat /\ e \in Nat /\ src \in Nat
  BY Sizes, PackageFacts DEF Inv, TypeOK
<1>3. /\ zmax <= pkg.raw /\ (~zlive => zmax = 0)
      /\ zlive /\ src >= pkg.stream => zmax = pkg.raw
      /\ Len(cbuf) < READ_SIZE => src >= pkg.stream
      /\ e % REMAIN_SIZE = 0
  BY <1>2 DEF Inv, GzipOK, StreamOK, Active
<1> DEFINE g == Gathered
           l == Len(g)
           m == l % REMAIN_SIZE
           k == l - m
<1>4. l \in Nat /\ e + l = zout + Inflated /\ \A i \in 1 .. l : g[i] = e + i - 1
  BY <1>1
<1> HIDE DEF l
<1>5. m \in 0 .. REMAIN_SIZE - 1 /\ m <= l /\ k \in Nat /\ k % REMAIN_SIZE = 0
  BY <1>2, <1>4, RestFacts
<1>6. Whole = First(g, k)
  BY DEF Whole, k, m, l, g
<1> HIDE DEF k, m
<1>7. k + m = l /\ k <= l
  BY <1>4, <1>5 DEF k
<1>8. g \in Seq(Units) /\ Len(g) = l
  BY <1>1 DEF l, g
<1> HIDE DEF g
<1>9. /\ Whole \in Seq(Units) /\ n = k
      /\ \A i \in 1 .. k : Whole[i] = g[i]
  <2>1. k <= Len(g)
    BY <1>7, <1>8
  <2>2. /\ First(g, k) \in Seq(Units) /\ Len(First(g, k)) = k
        /\ \A i \in 1 .. k : First(g, k)[i] = g[i]
    BY <1>5, <1>8, <2>1, FirstFacts
  <2> QED BY <1>6, <2>2
<1>10. /\ Rest \in Seq(Units) /\ r = m
       /\ \A i \in 1 .. m : Rest[i] = g[k + i]
  <2>1. k <= Len(g) /\ Len(g) - k = m
    BY <1>4, <1>5, <1>7, <1>8
  <2>2. /\ From(g, k) \in Seq(Units) /\ Len(From(g, k)) = m
        /\ \A i \in 1 .. m : From(g, k)[i] = g[k + i]
    BY <1>5, <1>8, <2>1, FromFacts
  <2>3. Rest = From(g, k)
    BY <1>9 DEF Rest, g
  <2> QED BY <2>2, <2>3
<1>11. /\ \A i \in 1 .. n : Whole[i] = e + i - 1
       /\ \A i \in 1 .. r : Rest[i] = e + n + i - 1
  <2>1. ASSUME NEW i \in 1 .. k PROVE Whole[i] = e + i - 1
    <3>1. i \in 1 .. l
      BY <1>4, <1>5, <1>7
    <3> QED BY <1>4, <1>9, <3>1
  <2>2. ASSUME NEW i \in 1 .. m PROVE Rest[i] = e + k + i - 1
    <3>1. k + i \in 1 .. l
      BY <1>5, <1>7
    <3>2. g[k + i] = e + (k + i) - 1
      BY <1>4, <3>1
    <3> QED BY <1>2, <1>5, <1>10, <3>2
  <2> QED BY <1>9, <1>10, <2>1, <2>2
<1>12. (e + n) % REMAIN_SIZE = 0
  <2>1. (e + k) % REMAIN_SIZE = 0
    BY <1>2, <1>3, <1>5, SumOfMultiples
  <2> QED BY <1>9, <2>1, Zenon
<1>13. e + n + r = zout + Inflated
  BY <1>2, <1>4, <1>5, <1>7, <1>9, <1>10
<1>14. ASSUME Flushes PROVE e + n + r = pkg.raw /\ r = pkg.raw % REMAIN_SIZE
  <2>1. IsEnd /\ src >= pkg.stream /\ r > 0
    BY <1>3, <1>14 DEF Flushes
  <2>2. zout + Inflated = zmax
    BY <1>1, <2>1
  <2>3. zlive
    <3> SUFFICES ASSUME ~zlive PROVE FALSE
      OBVIOUS
    <3>1. zmax = 0
      BY <1>3
    <3> QED BY <1>2, <1>5, <1>9, <1>10, <1>13, <2>1, <2>2, <3>1
  <2>4. e + n + r = pkg.raw
    BY <1>3, <1>13, <2>1, <2>2, <2>3
  <2> DEFINE b == e + n
  <2>5. b \in Nat /\ b % REMAIN_SIZE = 0 /\ r \in 0 .. REMAIN_SIZE - 1
    BY <1>2, <1>5, <1>9, <1>10, <1>12
  <2> HIDE DEF b
  <2>6. (b + r) % REMAIN_SIZE = r
    BY <1>2, <2>5, RestOfSum
  <2>7. b + r = pkg.raw
    BY <2>4 DEF b
  <2> QED BY <2>4, <2>6, <2>7
<1>15. zout + Inflated <= pkg.raw
  BY <1>1, <1>2, <1>3
<1> QED BY <1>2, <1>5, <1>9, <1>10, <1>11, <1>12, <1>13, <1>14, <1>15

\* The filler that completes the last unit is blank.
LEMMA FilledUpFacts ==
    ASSUME NEW units \in Seq(Units), Len(units) < REMAIN_SIZE
    PROVE  /\ FilledUp(units) \in Seq(Units) /\ Len(FilledUp(units)) = REMAIN_SIZE
           /\ \A i \in 1 .. REMAIN_SIZE :
                FilledUp(units)[i] = IF i <= Len(units) THEN units[i] ELSE Erased
<1> DEFINE n == REMAIN_SIZE - Len(units)
           fill == [i \in 1 .. n |-> Erased]
<1>1. Len(units) \in Nat /\ REMAIN_SIZE \in Nat /\ n \in Nat /\ Len(units) + n = REMAIN_SIZE
  BY LenProperties, Sizes
<1> HIDE DEF n
<1>2. fill \in Seq(Units) /\ Len(fill) = n /\ \A i \in 1 .. n : fill[i] = Erased
  BY <1>1 DEF Units
<1>3. FilledUp(units) = units \o fill
  BY DEF FilledUp, n
<1> HIDE DEF fill
<1>4. /\ units \o fill \in Seq(Units) /\ Len(units \o fill) = Len(units) + Len(fill)
      /\ \A i \in 1 .. Len(units) + Len(fill) :
            (units \o fill)[i] = IF i <= Len(units) THEN units[i] ELSE fill[i - Len(units)]
  BY <1>2, ConcatProperties
<1>5. ASSUME NEW i \in 1 .. REMAIN_SIZE
      PROVE  FilledUp(units)[i] = IF i <= Len(units) THEN units[i] ELSE Erased
  <2>1. (units \o fill)[i] = IF i <= Len(units) THEN units[i] ELSE fill[i - Len(units)]
    BY <1>1, <1>2, <1>4
  <2>2. CASE i <= Len(units)
    BY <1>3, <2>1, <2>2
  <2>3. CASE ~ (i <= Len(units))
    <3>1. i - Len(units) \in 1 .. n
      BY <1>1, <2>3
    <3> QED BY <1>2, <1>3, <2>1, <2>3, <3>1
  <2> QED BY <2>2, <2>3
<1>6. FilledUp(units) \in Seq(Units) /\ Len(FilledUp(units)) = REMAIN_SIZE
  BY <1>1, <1>2, <1>3, <1>4
<1> QED BY <1>5, <1>6

\* What a round of the gzip path does to the destination: the whole units are
\* written, and behind them the rest if it is flushed, unless its write fails.
LEMMA GzipRelease ==
    ASSUME Inv, GzipRound, job = "release", NEW e, e = pos + wlen, NEW n, n = Len(Whole)
    PROVE  /\ dst' \in Content /\ NeverTorn' /\ fault' \subseteq Faults /\ fault \subseteq fault'
           /\ ~Flushes => InOrder(dst', e + n, pkg.raw, Sectors)
           /\ Flushes => \/ InOrder(dst', e + n + REMAIN_SIZE, pkg.raw, Sectors)
                         \/ "flush" \in fault' /\ InOrder(dst', e + n, pkg.raw, Sectors)
<1> USE DEF Inv
<1> DEFINE r == Len(Rest)
           d == Written(dst, e, Whole)
           f == Written(d, e + n, FilledUp(Rest))
<1>1. /\ pc = "gzip"
      /\ IF Flushes THEN \/ dst' = f /\ fault' = fault
                         \/ "flush" \in Faults /\ dst' = d /\ fault' = fault \cup {"flush"}
                    ELSE dst' = d /\ fault' = fault
  BY DEF GzipRound, Flushed
<1>2. /\ e \in Nat /\ n \in Nat /\ r \in Nat /\ r < REMAIN_SIZE
      /\ Whole \in Seq(Units) /\ Rest \in Seq(Units)
      /\ \A i \in 1 .. n : Whole[i] = e + i - 1
      /\ \A i \in 1 .. r : Rest[i] = e + n + i - 1
      /\ e + n + r <= pkg.raw
      /\ Flushes => e + n + r = pkg.raw
  BY <1>1, CutFacts
<1>3. /\ pkg.raw \in Nat /\ pkg.raw <= Sectors /\ Sectors <= DstLen /\ Sectors \in Nat
      /\ DstLen \in Nat /\ dst \in Content /\ fault \subseteq Faults /\ REMAIN_SIZE \in Nat
  BY PackageFacts, Sizes DEF TypeOK, Content, Sectors
<1>4. InOrder(dst, e, pkg.raw, Sectors)
  BY <1>1 DEF ReleaseOK, TailLost
<1> HIDE DEF r
<1>5. d \in Content /\ InOrder(d, e + n, pkg.raw, Sectors)
  <2>1. \A i \in 1 .. Len(Whole) : e + i - 1 < pkg.raw => Whole[i] = e + i - 1
    BY <1>2
  <2>2. InOrder(Written(dst, e, Whole), e + Len(Whole), pkg.raw, Sectors)
    BY <1>2, <1>3, <1>4, <2>1, WriteNext
  <2> QED BY <1>2, <1>3, <2>2, WrittenFacts
<1>6. \A a \in 0 .. DstLen - 1 : d[a] # Torn
  <2>1. \A a \in 0 .. DstLen - 1 : dst[a] # Torn
    BY DEF NeverTorn
  <2>2. \A i \in 1 .. Len(Whole) : Whole[i] # Torn /\ (e + i - 1 >= Sectors => Whole[i] = Erased)
    BY SMTT(30), <1>2, <1>3 DEF Torn
  <2>3. \A a \in e .. Sectors - 1 : dst[a] = Erased
    BY <1>4 DEF InOrder
  <2> QED BY <1>2, <1>3, <2>1, <2>2, <2>3, WriteClean
<1> HIDE DEF d
<1>7. ASSUME Flushes
      PROVE  /\ f \in Content /\ InOrder(f, e + n + REMAIN_SIZE, pkg.raw, Sectors)
             /\ \A a \in 0 .. DstLen - 1 : f[a] # Torn
  <2> DEFINE u == FilledUp(Rest)
             b == e + n
  <2>1. /\ u \in Seq(Units) /\ Len(u) = REMAIN_SIZE
        /\ \A i \in 1 .. REMAIN_SIZE : u[i] = IF i <= r THEN Rest[i] ELSE Erased
    BY <1>2, FilledUpFacts DEF r
  <2> HIDE DEF u
  <2>2. b \in Nat /\ b + r = pkg.raw /\ \A i \in 1 .. r : Rest[i] = b + i - 1
    BY <1>2, <1>7
  <2> HIDE DEF b
  <2>3. ASSUME NEW i \in 1 .. REMAIN_SIZE
        PROVE  /\ b + i - 1 < pkg.raw => u[i] = b + i - 1
               /\ u[i] # Torn /\ (b + i - 1 >= Sectors => u[i] = Erased)
    <3>1. CASE i <= r
      <4>0. i \in 1 .. r
        BY <1>2, <3>1
      <4>1. u[i] = b + i - 1
        BY <2>1, <2>2, <3>1, <4>0
      <4>2. b + i - 1 < pkg.raw /\ b + i - 1 \in Nat
        BY <1>2, <2>2, <3>1
      <4> QED BY <1>3, <4>1, <4>2 DEF Torn
    <3>2. CASE ~ (i <= r)
      <4>1. u[i] = Erased
        BY <2>1, <3>2
      <4>2. b + i - 1 >= pkg.raw
        BY <1>2, <2>2, <3>2
      <4> QED BY <1>2, <1>3, <2>2, <4>1, <4>2 DEF Torn, Erased
    <3> QED BY <3>1, <3>2
  <2>4. InOrder(Written(d, b, u), b + Len(u), pkg.raw, Sectors)
    <3>1. \A i \in 1 .. Len(u) : b + i - 1 < pkg.raw => u[i] = b + i - 1
      BY <2>1, <2>3
    <3>2. InOrder(d, b, pkg.raw, Sectors)
      BY <1>5 DEF b
    <3> QED BY <1>3, <1>5, <2>1, <2>2, <3>1, <3>2, WriteNext
  <2>5. \A a \in 0 .. DstLen - 1 : Written(d, b, u)[a] # Torn
    <3>1. \A i \in 1 .. Len(u) : u[i] # Torn /\ (b + i - 1 >= Sectors => u[i] = Erased)
      BY <2>1, <2>3
    <3>2. \A a \in b .. Sectors - 1 : d[a] = Erased
      BY <1>5 DEF InOrder, b
    <3> QED BY <1>3, <1>5, <1>6, <2>1, <2>2, <3>1, <3>2, WriteClean
  <2>6. Written(d, b, u) \in Content
    BY <1>5, <2>1, <2>2, WrittenFacts
  <2>7. f = Written(d, b, u) /\ b + Len(u) = e + n + REMAIN_SIZE
    BY <2>1 DEF b, u
  <2> QED BY <2>4, <2>5, <2>6, <2>7
<1> HIDE DEF f
<1>8. fault' \subseteq Faults /\ fault \subseteq fault'
  BY <1>1, <1>3
<1>9. CASE ~Flushes
  <2>1. dst' = d
    BY <1>1, <1>9
  <2> QED BY <1>5, <1>6, <1>8, <1>9, <2>1 DEF NeverTorn
<1>10. CASE Flushes /\ dst' = f
  BY <1>7, <1>8, <1>10 DEF NeverTorn
<1>11. CASE Flushes /\ "flush" \in fault' /\ dst' = d
  BY <1>5, <1>6, <1>8, <1>11 DEF NeverTorn
<1> QED BY <1>1, <1>9, <1>10, <1>11

\* What a round of the gzip path adds to the CRC: the same, without the filler.
LEMMA GzipCrc ==
    ASSUME Inv, GzipRound, job = "crc", NEW e, e = pos + wlen, NEW n, n = Len(Whole),
           NEW k, k = IF Flushes THEN e + n + Len(Rest) ELSE e + n
    PROVE  /\ dst' = dst /\ fault' = fault /\ remain' = Rest
           /\ Flushes => Len(Clamped(Rest)) = Len(Rest)
           /\ Len(Clamped(Whole)) = n
           /\ crc' \in Seq(Units) /\ Len(crc') = k
           /\ \A i \in 1 .. Len(crc') : crc'[i] = i - 1
<1> USE DEF Inv
<1> DEFINE r == Len(Rest)
<1>1. /\ pc = "gzip" /\ dst' = dst /\ fault' = fault
      /\ remain' = IF Flushes THEN Clamped(Rest) ELSE Rest
      /\ crc' = crc \o Clamped(Whole) \o (IF Flushes THEN Clamped(Rest) ELSE <<>>)
  BY DEF GzipRound
<1>2. /\ e \in Nat /\ n \in Nat /\ r \in Nat
      /\ Whole \in Seq(Units) /\ Rest \in Seq(Units)
      /\ \A i \in 1 .. n : Whole[i] = e + i - 1
      /\ \A i \in 1 .. r : Rest[i] = e + n + i - 1
      /\ e + n + r <= pkg.raw
  <2>1. zout + Inflated <= pkg.raw /\ e + n + r = zout + Inflated
    BY <1>1, CutFacts
  <2> QED BY <1>1, <2>1, CutFacts
<1>3. /\ pkg.raw \in Nat /\ pos \in Nat /\ wlen \in Nat /\ crc \in Seq(Units)
      /\ Len(crc) = e /\ \A i \in 1 .. Len(crc) : crc[i] = i - 1
  BY <1>1, PackageFacts DEF TypeOK, CrcOK, Active
<1> HIDE DEF r
<1>4. Clamped(Whole) = Whole
  <2>1. pos + Len(Whole) <= pkg.raw
    BY <1>2, <1>3
  <2> QED BY <1>2, <1>3, <2>1, ClampedAll
<1>5. Clamped(Rest) = Rest
  <2>1. pos + Len(Rest) <= pkg.raw
    BY <1>2, <1>3 DEF r
  <2> QED BY <1>2, <1>3, <2>1, ClampedAll
<1> DEFINE c == crc \o Whole
<1>6. /\ c \in Seq(Units) /\ Len(c) = e + n
      /\ \A i \in 1 .. Len(c) : c[i] = i - 1
  <2>1. \A i \in 1 .. Len(Whole) : Whole[i] = Len(crc) + i - 1
    BY <1>2, <1>3
  <2>2. /\ c \in Seq(Units) /\ Len(c) = Len(crc) + Len(Whole)
        /\ \A i \in 1 .. Len(c) : c[i] = i - 1
    BY <1>2, <1>3, <2>1, CrcNext
  <2> QED BY <1>3, <2>2
<1> HIDE DEF c
<1>7. CASE Flushes
  <2>1. crc' = c \o Rest
    BY <1>1, <1>4, <1>5, <1>7 DEF c
  <2>2. \A i \in 1 .. Len(Rest) : Rest[i] = Len(c) + i - 1
    BY <1>2, <1>6 DEF r
  <2>3. /\ crc' \in Seq(Units) /\ Len(crc') = Len(c) + Len(Rest)
        /\ \A i \in 1 .. Len(crc') : crc'[i] = i - 1
    BY <1>2, <1>6, <2>1, <2>2, CrcNext
  <2> QED BY <1>1, <1>4, <1>5, <1>6, <1>7, <2>3
<1>8. CASE ~Flushes
  <2>1. crc' = c \o <<>>
    BY <1>1, <1>4, <1>8 DEF c
  <2>2. crc' = c
    BY <1>6, <2>1
  <2> QED BY <1>1, <1>4, <1>6, <1>8, <2>2
<1> QED BY <1>7, <1>8

LEMMA GzipRoundStep ==
    ASSUME Inv, GzipRound PROVE Inv'
<1> USE DEF Inv
<1> DEFINE e == pos + wlen
           n == Len(Whole)
           r == Len(Rest)
           f == IF ~Flushes THEN 0 ELSE IF job = "release" THEN REMAIN_SIZE ELSE r
           z == zout + Inflated
<1>1. /\ e \in Nat /\ n \in Nat /\ r \in Nat /\ r < REMAIN_SIZE
      /\ Rest \in Seq(Units)
      /\ \A i \in 1 .. r : Rest[i] = e + n + i - 1
      /\ e + n + r = z /\ z <= pkg.raw
      /\ Flushes => e + n + r = pkg.raw
  <2> HIDE DEF e, n, r
  <2>1. e = pos + wlen /\ n = Len(Whole) /\ r = Len(Rest) /\ pc = "gzip"
    BY DEF e, n, r, GzipRound
  <2> QED BY <2>1, CutFacts
<1>m. (e + n) % REMAIN_SIZE = 0 /\ (Flushes => r = pkg.raw % REMAIN_SIZE)
  <2> HIDE DEF e, n, r
  <2>1. e = pos + wlen /\ n = Len(Whole) /\ r = Len(Rest) /\ pc = "gzip"
    BY DEF e, n, r, GzipRound
  <2> QED BY <2>1, CutFacts
<1>2. /\ pc = "gzip" /\ pkg.cmprs = "gzip" /\ pkg \in Packages /\ pkg.raw \in Nat
      /\ pkg.raw <= Sectors
      /\ pos \in Nat /\ wlen \in Nat /\ pos < pkg.raw /\ zmax \in Nat /\ Sectors \in Nat
      /\ job \in {"crc", "release"} /\ REMAIN_SIZE \in Nat
  BY PackageFacts, Sizes DEF GzipRound, TypeOK, StreamOK, Active, Sectors
<1>3. /\ z \in Nat /\ z <= zmax
  BY <1>2, GatheredFacts DEF TypeOK
<1>4. /\ zout' = z /\ UNCHANGED <<job, pkg, jobs, src, ivpos, zlive, zmax>>
      /\ job = "release" => crc' = crc
  BY DEF GzipRound
<1>5. remain' = Rest
  <2>1. CASE job = "crc"
    BY <2>1, GzipCrc
  <2>2. CASE job = "release"
    BY <2>2 DEF GzipRound
  <2> QED BY <1>2, <2>1, <2>2
<1>6. Flushes => IsEnd
  BY DEF Flushes
<1>7. /\ IsEnd => pc' = "loop" /\ pos' = e + n + f /\ wlen' = 0 /\ cbuf' = <<>>
      /\ ~IsEnd => pc' = pc /\ pos' = pos /\ wlen' = wlen + n /\ cbuf' = cbuf
  <2>1. CASE job = "release"
    <3>1. f = IF ~Flushes THEN 0 ELSE REMAIN_SIZE
      BY <2>1
    <3>2. /\ IsEnd => pc' = "loop" /\ pos' = pos + (wlen + n + f) /\ wlen' = 0 /\ cbuf' = <<>>
          /\ ~IsEnd => pc' = pc /\ pos' = pos /\ wlen' = wlen + n + f /\ cbuf' = cbuf
      BY <2>1, <3>1 DEF GzipRound, CallReturns
    <3> HIDE DEF n
    <3>3. f \in Nat /\ (~IsEnd => f = 0)
      BY <1>2, <1>6, <3>1
    <3> HIDE DEF f
    <3> QED BY <1>1, <1>2, <3>2, <3>3
  <2>2. CASE job = "crc"
    <3>1. Len(Clamped(Whole)) = n /\ (Flushes => Len(Clamped(Rest)) = r)
      BY <2>2, GzipCrc
    <3>2. f = IF ~Flushes THEN 0 ELSE r
      BY <2>2
    <3>a. f = IF ~Flushes THEN 0 ELSE Len(Clamped(Rest))
      BY <3>1, <3>2
    <3> HIDE DEF n, f, r
    <3>3. /\ IsEnd => /\ pc' = "loop" /\ pos' = pos + (wlen + Len(Clamped(Whole)) + f)
                      /\ wlen' = 0 /\ cbuf' = <<>>
          /\ ~IsEnd => /\ pc' = pc /\ pos' = pos /\ wlen' = wlen + Len(Clamped(Whole)) + f
                       /\ cbuf' = cbuf
      BY <2>2, <3>a DEF GzipRound, CallReturns
    <3>4. f \in Nat /\ (~IsEnd => f = 0)
      BY <1>1, <1>6, <3>2
    <3>5. /\ IsEnd => pc' = "loop" /\ pos' = pos + (wlen + n + f) /\ wlen' = 0 /\ cbuf' = <<>>
          /\ ~IsEnd => pc' = pc /\ pos' = pos /\ wlen' = wlen + n + f /\ cbuf' = cbuf
      BY <3>1, <3>3
    <3> QED BY <1>1, <1>2, <3>4, <3>5
  <2> QED BY <1>2, <2>1, <2>2
<1>8. /\ f \in Nat /\ (~Flushes => f = 0)
      /\ Flushes => e + n + f >= pkg.raw /\ pc' = "loop" /\ (job = "crc" => e + n + f = pkg.raw)
  <2> HIDE DEF e, n, r, z
  <2>1. f \in Nat /\ (~Flushes => f = 0)
    BY <1>1, <1>2
  <2>2. Flushes => f = REMAIN_SIZE \/ (job = "release" /\ f = REMAIN_SIZE) \/ f = r
    OBVIOUS
  <2>3. Flushes /\ job = "crc" => f = r
    OBVIOUS
  <2> HIDE DEF f
  <2>4. Flushes => e + n + f >= pkg.raw
    BY <1>1, <1>2, <2>2
  <2> QED BY <1>1, <1>6, <1>7, <2>1, <2>3, <2>4
<1> HIDE DEF f, e, n, r, z
<1>9. pos' \in Nat /\ wlen' \in Nat /\ pos' + wlen' = e + n + f /\ pc' \in {"loop", "gzip"}
      /\ (pc' = "loop" => wlen' = 0 /\ pos' = e + n + f /\ cbuf' = <<>>)
      /\ (pc' = "gzip" => ~IsEnd /\ pos' = pos /\ cbuf' = cbuf)
  <2>1. CASE IsEnd
    BY <1>1, <1>7, <1>8, <2>1
  <2>2. CASE ~IsEnd
    <3>1. f = 0
      BY <1>6, <1>8, <2>2
    <3>2. e + n + f = pos + (wlen + n)
      BY <1>1, <1>2, <3>1 DEF e
    <3> QED BY <1>1, <1>2, <1>7, <2>2, <3>2
  <2> QED BY <2>1, <2>2
<1>10. <<>> \in Seq(Units) /\ Len(<<>>) = 0
  OBVIOUS
<1>s. /\ e + n \in Nat /\ e + n <= pkg.raw
      /\ ~Flushes => pos' + wlen' = e + n
      /\ pos' + wlen' >= e + n /\ pos' + wlen' \in Nat
  <2>1. e \in Nat /\ n \in Nat /\ r \in Nat /\ f \in Nat /\ pkg.raw \in Nat /\ e + n + r <= pkg.raw
    BY <1>1, <1>2, <1>8
  <2>2. e + n \in Nat /\ e + n <= pkg.raw /\ e + n + f >= e + n /\ e + n + f \in Nat
    BY <2>1
  <2>3. ASSUME ~Flushes PROVE e + n + f = e + n
    <3>1. f = 0
      BY <1>8, <2>3
    <3> QED BY <2>1, <3>1
  <2>4. pos' + wlen' = e + n + f
    BY <1>9
  <2> QED BY <2>2, <2>3, <2>4
<1>11. Len(remain') = r
  BY <1>5 DEF r
<1>12. /\ dst' \in Content /\ NeverTorn' /\ fault' \subseteq Faults
       /\ crc' \in Seq(Units)
  <2>1. CASE job = "crc"
    <3>1. dst' = dst /\ fault' = fault /\ crc' \in Seq(Units)
      BY <2>1, GzipCrc
    <3> QED BY <3>1 DEF TypeOK, NeverTorn, Content
  <2>2. CASE job = "release"
    <3>1. dst' \in Content /\ NeverTorn' /\ fault' \subseteq Faults
      BY <2>2, GzipRelease
    <3> QED BY <1>4, <2>2, <3>1 DEF TypeOK
  <2> QED BY <1>2, <2>1, <2>2
<1>13. TypeOK'
  <2>1. cbuf' \in Seq(Units)
    BY <1>9, <1>10 DEF TypeOK
  <2>2. remain' \in Seq(Units) /\ Len(remain') < REMAIN_SIZE
    BY <1>1, <1>5, <1>11
  <2>3. zmax' \in Nat /\ zout' \in 0 .. zmax'
    BY <1>2, <1>3, <1>4
  <2> QED BY <1>4, <1>9, <1>12, <2>1, <2>2, <2>3 DEF TypeOK, Pc, Content
<1>14. StreamOK'
  <2>1. CASE pc' = "loop"
    <3>1. cbuf' = <<>> /\ Len(cbuf') = 0 /\ wlen' = 0
      BY <1>9, <1>10, <2>1, Zenon
    <3>2. src' = src /\ src \in Nat /\ pkg' = pkg /\ ivpos' = ivpos
      BY <1>4 DEF TypeOK
    <3> QED BY <1>2, <2>1, <3>1, <3>2 DEF StreamOK, Active
  <2>2. CASE pc' = "gzip"
    <3>1. (\A i \in 1 .. Len(cbuf) : cbuf[i] = BodyUnit(src - Len(cbuf) + i - 1))'
      BY <1>2, <1>4, <1>9, <2>2 DEF StreamOK, Active, BodyUnit
    <3> QED BY <1>2, <1>4, <1>9, <2>2, <3>1 DEF StreamOK, Active
  <2> QED BY <1>9, <2>1, <2>2
<1>15. NoneOK' /\ BlockOK'
  BY <1>2, <1>4 DEF NoneOK, BlockOK
<1>16. GzipOK'
  <2>1. zmax' <= pkg'.raw /\ (~zlive' => zmax' = 0)
    BY <1>2, <1>4 DEF GzipOK, Active
  <2>2. pc' = "gzip" => /\ zlive' /\ src' >= pkg'.stream => zmax' = pkg'.raw
                        /\ Len(cbuf') < READ_SIZE => src' >= pkg'.stream
    BY <1>2, <1>4, <1>9 DEF GzipOK, Active
  <2>3. e + n = z - r /\ r <= z
    BY <1>1, <1>3
  <2>4. Len(remain') <= zout'
    BY <1>4, <1>11, <2>3
  <2>5. \A i \in 1 .. Len(remain') : remain'[i] = zout' - Len(remain') + i - 1
    <3> SUFFICES ASSUME NEW i \in 1 .. r PROVE Rest[i] = z - r + i - 1
      BY <1>4, <1>5, <1>11
    <3> QED BY <1>1, <2>3
  <2>6. /\ pos' + wlen' = zout' - Len(remain') \/ (pc' = "loop" /\ pos' >= pkg'.raw)
        /\ (pos' + wlen') % REMAIN_SIZE = 0 \/ (job' = "crc" /\ pc' = "loop" /\ pos' >= pkg'.raw)
    <3>1. CASE Flushes
      <4>1. pc' = "loop" /\ pos' >= pkg'.raw
        BY <1>4, <1>8, <1>9, <3>1
      <4>2. CASE job = "release"
        <5> DEFINE b == e + n
        <5>1. b \in Nat /\ b % REMAIN_SIZE = 0
          BY <1>m, <1>s
        <5> HIDE DEF b
        <5>2. (b + REMAIN_SIZE) % REMAIN_SIZE = 0
          BY <5>1, SumOfMultiples, UnitIsMultiple, Sizes
        <5>3. pos' + wlen' = b + REMAIN_SIZE
          BY <1>9, <3>1, <4>2 DEF f, b
        <5> QED BY <4>1, <5>2, <5>3
      <4>3. CASE job = "crc"
        BY <1>4, <4>1, <4>3
      <4> QED BY <1>2, <4>2, <4>3
    <3>2. CASE ~Flushes
      <4>1. pos' + wlen' = e + n
        BY <1>s, <3>2
      <4>2. zout' - Len(remain') = e + n
        BY <1>4, <1>11, <2>3
      <4>3. (pos' + wlen') % REMAIN_SIZE = 0
        BY <1>m, <4>1
      <4> QED BY <4>1, <4>2, <4>3
    <3> QED BY <3>1, <3>2
  <2> QED BY <2>1, <2>2, <2>4, <2>5, <2>6 DEF GzipOK
<1>17. ReleaseOK'
  <2> SUFFICES ASSUME job = "release"
               PROVE  (InOrder(dst, pos + wlen, pkg.raw, Sectors) \/ TailLost)'
    BY <1>4, <1>9 DEF ReleaseOK
  <2>0. Sectors' = Sectors /\ pkg' = pkg
    BY <1>4 DEF Sectors
  <2>1. /\ ~Flushes => InOrder(dst', e + n, pkg.raw, Sectors)
        /\ Flushes => \/ InOrder(dst', e + n + REMAIN_SIZE, pkg.raw, Sectors)
                      \/ "flush" \in fault' /\ InOrder(dst', e + n, pkg.raw, Sectors)
    BY GzipRelease DEF e, n
  <2>2. CASE ~Flushes
    <3>1. pos' + wlen' = e + n
      BY <1>s, <2>2
    <3> QED BY <2>0, <2>1, <2>2, <3>1
  <2>3. CASE Flushes /\ InOrder(dst', e + n + REMAIN_SIZE, pkg.raw, Sectors)
    <3>1. pos' + wlen' = e + n + REMAIN_SIZE
      BY <1>9, <2>3 DEF f
    <3> QED BY <2>0, <2>3, <3>1
  <2>4. CASE Flushes /\ "flush" \in fault' /\ InOrder(dst', e + n, pkg.raw, Sectors)
    <3>1. e + n = pkg.raw - (pkg.raw % REMAIN_SIZE)
      <4>1. e + n + r = pkg.raw /\ r = pkg.raw % REMAIN_SIZE
        BY <1>1, <1>m, <2>4
      <4>2. e + n = pkg.raw - r
        BY <1>1, <1>2, <4>1
      <4> QED BY <4>1, <4>2, Zenon
    <3> DEFINE t == pkg.raw - (pkg.raw % REMAIN_SIZE)
    <3>2. t \in Nat /\ t = e + n
      BY <1>1, <3>1
    <3> HIDE DEF t
    <3>3. \A a \in 0 .. pkg.raw - 1 : dst'[a] = a \/ (dst'[a] = Erased /\ a >= t)
      BY <1>2, <2>4, <3>2 DEF InOrder
    <3>4. \A a \in pos' + wlen' .. Sectors - 1 : dst'[a] = Erased
      <4>1. pos' + wlen' >= e + n /\ pos' + wlen' \in Nat /\ e + n \in Nat
        BY <1>s
      <4> QED BY <1>2, <2>4, <4>1 DEF InOrder
    <3>5. pc' = "loop" /\ pos' >= pkg.raw
      BY <1>8, <1>9, <2>4
    <3>6. TailLost'
      BY <1>2, <2>0, <2>4, <3>3, <3>4, <3>5 DEF TailLost, t
    <3> QED BY <3>6
  <2> QED BY <2>1, <2>2, <2>3, <2>4
<1>18. CrcOK'
  <2> SUFFICES ASSUME job = "crc"
               PROVE  (/\ pos + wlen <= pkg.raw
                       /\ Len(crc) = pos + wlen
                       /\ \A i \in 1 .. Len(crc) : crc[i] = i - 1)'
    BY <1>4 DEF CrcOK
  <2> DEFINE k == IF Flushes THEN e + n + r ELSE e + n
  <2>1. Len(crc') = k /\ \A i \in 1 .. Len(crc') : crc'[i] = i - 1
    <3> HIDE DEF k
    <3>1. k = IF Flushes THEN e + n + Len(Rest) ELSE e + n
      BY DEF k, r
    <3>2. e = pos + wlen /\ n = Len(Whole)
      BY DEF e, n
    <3> QED BY <3>1, <3>2, GzipCrc
  <2>2. k = pos' + wlen' /\ k <= pkg.raw
    <3>1. CASE Flushes
      BY <1>1, <1>8, <1>9, <3>1
    <3>2. CASE ~Flushes
      <4>1. k = e + n
        BY <3>2
      <4> QED BY <1>s, <3>2, <4>1
    <3> QED BY <3>1, <3>2
  <2>3. pkg' = pkg
    BY <1>4
  <2> HIDE DEF k
  <2> QED BY <2>1, <2>2, <2>3
<1>19. NoFalseAlarm'
  BY <1>9 DEF NoFalseAlarm
<1> QED BY <1>12, <1>13, <1>14, <1>15, <1>16, <1>17, <1>18, <1>19

\* A write fails after the code that was to be written was cut: the destination
\* stays as it is, and the new remainder is as short as any.
LEMMA WriteFailsStep ==
    ASSUME Inv, WriteFails PROVE Inv'
<1>1. /\ pc \in {"none", "gzip", "block"} /\ pos < pkg.raw /\ Fail("write")
      /\ cbuf' \in {cbuf, <<>>}
      /\ UNCHANGED <<job, pkg, jobs, src, ivpos, pos, wlen, zlive, zmax, dst, crc>>
  BY DEF WriteFails, Active, Inv, StreamOK
<1>2. zout' \in 0 .. zmax /\ remain' \in Seq(Units) /\ Len(remain') < REMAIN_SIZE
  <2>1. zout \in 0 .. zmax /\ zmax \in Nat /\ remain \in Seq(Units) /\ Len(remain) < REMAIN_SIZE
    BY DEF Inv, TypeOK
  <2>2. CASE pc # "gzip"
    <3>1. zout' = zout /\ remain' = remain
      BY <2>2 DEF WriteFails
    <3> QED BY <2>1, <3>1
  <2>3. CASE pc = "gzip"
    <3>1. zout' = zout + Inflated /\ remain' = Rest
      BY <2>3 DEF WriteFails
    <3>2. Inflated \in Nat /\ zout + Inflated <= zmax
      BY <2>3, GatheredFacts
    <3>3. Rest \in Seq(Units) /\ Len(Rest) < REMAIN_SIZE
      BY <2>3, CutFacts
    <3>4. zout + Inflated \in 0 .. zmax
      BY <2>1, <3>2
    <3> QED BY <3>1, <3>3, <3>4
  <2> QED BY <2>2, <2>3
<1> QED BY <1>1, <1>2, FailStep DEF Active

-----------------------------------------------------------------------------
(* Every step keeps the invariant.                                         *)

LEMMA NextInv ==
    ASSUME Inv, [Next]_vars PROVE Inv'
<1>1. CASE \E q \in Packages, j \in {"crc", "release"} : Start(q, j)
  BY <1>1, StartStep
<1>2. CASE Work
  BY <1>2, GiveUpStep, WriteFailsStep, ReadStep, LeaveStep, CopyOutStep, GzipRoundStep, BlockRoundStep,
     BlockEndStep DEF Work
<1>3. CASE UNCHANGED vars
  BY <1>3 DEF vars, Inv, TypeOK, StreamOK, NoneOK, GzipOK, BlockOK, ReleaseOK, CrcOK, NeverTorn,
     NoFalseAlarm, TailLost, InOrder, Sectors, BodyUnit, AtOf, StartOf, Active
<1> QED BY <1>1, <1>2, <1>3 DEF Next

LEMMA AlwaysInv == Spec => []Inv
<1> QED BY InitInv, NextInv, PTL DEF Spec

\* The variables keep their types: no write leaves the destination, and never is
\* as much as REMAIN_SIZE kept back.
THEOREM PipelineTypes == Spec => []TypeOK
<1>1. Inv => TypeOK
  BY DEF Inv
<1> QED BY <1>1, AlwaysInv, PTL

\* Whatever the sizes and whatever fails, the release puts every unit of the
\* code at its place, once and in order; a release that counts as done is whole,
\* but for the remainder whose write nobody checks.
THEOREM ReleasesInOrder == Spec => []ReleasedInOrder
<1>1. Inv => ReleasedInOrder
  <2> SUFFICES ASSUME Inv, job = "release", pc # "idle"
               PROVE  /\ pc = "done" => pos >= pkg.raw
                      /\ \A a \in 0 .. Least(pos + wlen, pkg.raw) - 1 : dst[a] = a \/ Lost(a)
                      /\ \A a \in pos + wlen .. Sectors - 1 : dst[a] \in {Erased, Torn}
    BY DEF ReleasedInOrder, Sectors
  <2>1. (InOrder(dst, pos + wlen, pkg.raw, Sectors) \/ TailLost) /\ (pc = "done" => pos >= pkg.raw)
    BY DEF Inv, ReleaseOK
  <2>2. pos \in Nat /\ wlen \in Nat /\ pkg.raw \in Nat
    BY PackageFacts DEF Inv, TypeOK
  <2>3. CASE InOrder(dst, pos + wlen, pkg.raw, Sectors)
    <3> DEFINE e == pos + wlen
    <3>1. e \in Nat
      BY <2>2
    <3> HIDE DEF e
    <3>2. \A a \in 0 .. Least(e, pkg.raw) - 1 : dst[a] = a
      BY <2>2, <2>3, <3>1 DEF InOrder, Least, e
    <3> QED BY <2>1, <2>3, <3>2 DEF InOrder, e
  <2>4. CASE TailLost
    <3> DEFINE t == pkg.raw - (pkg.raw % REMAIN_SIZE)
               e == pos + wlen
    <3>1. e \in Nat /\ e >= pkg.raw
      BY <2>2, <2>4 DEF TailLost
    <3>2. \A a \in 0 .. pkg.raw - 1 : dst[a] = a \/ (dst[a] = Erased /\ a >= t)
      BY <2>4 DEF TailLost
    <3>3. \A a \in 0 .. pkg.raw - 1 : dst[a] = a \/ Lost(a)
      BY <2>4, <3>2 DEF TailLost, Lost
    <3>4. Least(e, pkg.raw) = pkg.raw
      <4> HIDE DEF e
      <4> QED BY <2>2, <3>1 DEF Least
    <3>5. \A a \in e .. Sectors - 1 : dst[a] = Erased
      BY <2>4 DEF TailLost
    <3> QED BY <2>1, <3>3, <3>4, <3>5
  <2> QED BY <2>1, <2>3, <2>4
<1> QED BY <1>1, AlwaysInv, PTL

\* Nothing is programmed twice, although reads and remainders are filled up and
\* only the sectors of the code itself are erased.
THEOREM WritesErasedOnly == Spec => []WritesOnErased
<1>1. Inv => WritesOnErased
  <2> SUFFICES ASSUME Inv PROVE WritesOnErased
    OBVIOUS
  <2>1. DOMAIN dst = 0 .. DstLen - 1
    BY DEF Inv, TypeOK
  <2> QED BY <2>1 DEF Inv, NeverTorn, WritesOnErased
<1> QED BY <1>1, AlwaysInv, PTL

\* Nothing of the package that was handled before, nor of a job that failed,
\* makes the next one fail.
THEOREM FailsForAFault == Spec => []NoFalseAlarm
<1>1. Inv => NoFalseAlarm
  BY DEF Inv
<1> QED BY <1>1, AlwaysInv, PTL

\* The gzip path writes at multiples of REMAIN_SIZE only.
THEOREM WritesAligned == Spec => AlignedWrites
<1>1. ASSUME Inv, [Next]_vars, pc = "gzip", dst' # dst
      PROVE  (pos + wlen) % REMAIN_SIZE = 0 /\ (pos + wlen)' % REMAIN_SIZE = 0
  <2>1. GzipRound
    <3>1. ~ (\E q \in Packages, j \in {"crc", "release"} : Start(q, j)) /\ ~ UNCHANGED vars
      BY <1>1 DEF Start, vars
    <3> QED BY <1>1, <3>1 DEF Next, Work, ReadFails, Read, Leave, CopyOut, GzipFails, BlockRound,
               BlockEnd, WriteFails
  <2>2. pkg.cmprs = "gzip" /\ (pos + wlen) % REMAIN_SIZE = 0
    BY <1>1 DEF Inv, StreamOK, GzipOK, Active
  <2>3. job' = "release" /\ pc' \in Active /\ pkg' = pkg
    BY <1>1, <2>1 DEF GzipRound, CallReturns, Active, Inv, TypeOK
  <2>4. GzipOK'
    BY <1>1, NextInv DEF Inv
  <2>5. (pos' + wlen') % REMAIN_SIZE = 0
    BY <2>2, <2>3, <2>4 DEF GzipOK
  <2> QED BY <2>2, <2>5
<1> QED BY <1>1, AlwaysInv, PTL DEF Spec, AlignedWrites

-----------------------------------------------------------------------------
(* The size of cmprs_buf.                                                  *)

\* No block is larger than what is read at once beyond the read size.
BlocksFit ==
    \A q \in Packages : q.cmprs = "block" =>
        \A k \in 1 .. Len(q.blocks) : HDR_SIZE + q.blocks[k].size <= BUF_SIZE + 1

\* At the head of the loop there is room for one more read.
BufOK == /\ Len(cbuf) <= BUF_SIZE + READ_SIZE
         /\ pc = "loop" => Len(cbuf) <= BUF_SIZE \/ pos >= pkg.raw

\* A block that is whole in the buffer is recognised, so less than the next
\* block is kept when a call returns.
LEMMA KeptIsShort ==
    ASSUME BlocksFit, Inv, pc = "block", HeadBlocks = {}
    PROVE  Len(cbuf) <= BUF_SIZE \/ pos + wlen >= pkg.raw
<1>1. /\ pkg \in Packages /\ pkg.cmprs = "block" /\ Len(pkg.blocks) \in Nat
      /\ pkg.blocks \in Seq(Block) /\ pkg.raw \in Nat /\ pkg.stream \in Nat
      /\ src \in Nat /\ cbuf \in Seq(Units) /\ Len(cbuf) \in Nat
      /\ HDR_SIZE \in Nat /\ BUF_SIZE \in Nat
  BY PackageFacts, LenProperties, Sizes DEF Inv, TypeOK, StreamOK, Active
<1>2. PICK k \in 1 .. Len(pkg.blocks) + 1 : src - Len(cbuf) = AtOf(k) /\ pos + wlen = StartOf(k)
  BY <1>1 DEF Inv, BlockOK, Active
<1>3. CASE k = Len(pkg.blocks) + 1
  <2>1. StartOf(k) = pkg.raw
    BY <1>1, <1>3 DEF StartOf
  <2> QED BY <1>1, <1>2, <2>1
<1>4. CASE k \in 1 .. Len(pkg.blocks)
  <2> DEFINE b == pkg.blocks[k]
             n == HDR_SIZE + b.size
  <2>1. /\ b.at \in Nat /\ b.size \in Nat /\ AtOf(k) = b.at
        /\ AtOf(k + 1) = b.at + HDR_SIZE + b.size /\ AtOf(k + 1) <= pkg.stream
    BY <1>1, <1>4, BlockFacts
  <2>2. n \in Nat /\ n <= BUF_SIZE + 1
    <3>1. n <= BUF_SIZE + 1
      BY <1>1, <1>4, Zenon DEF BlocksFit
    <3>2. n \in Nat
      BY SMTT(30), <1>1, <2>1
    <3> QED BY <3>1, <3>2, Zenon
  <2>3. b.at + n <= pkg.stream
    <3>1. \A x, y, z \in Int : x + y + z = x + (y + z)
      OBVIOUS
    <3>2. b.at + HDR_SIZE + b.size = b.at + n
      BY SMTT(30), <1>1, <2>1, <3>1
    <3> QED BY <2>1, <3>2
  <2> HIDE DEF n
  <2>4. n > Len(cbuf)
    <3> SUFFICES ASSUME n <= Len(cbuf) PROVE FALSE
      BY <1>1, <2>2
    <3>1. /\ First(cbuf, n) \in Seq(Units) /\ Len(First(cbuf, n)) = n
          /\ \A i \in 1 .. n : First(cbuf, n)[i] = cbuf[i]
      BY <1>1, <2>2, FirstFacts
    <3>2. /\ Row(b.at, n) \in Seq(Units) /\ Len(Row(b.at, n)) = n
          /\ \A i \in 1 .. n : Row(b.at, n)[i] = b.at + i - 1
      BY <2>1, <2>2, RowFacts
    <3>3. ASSUME NEW i \in 1 .. n PROVE First(cbuf, n)[i] = Row(b.at, n)[i]
      <4>1. i \in 1 .. Len(cbuf)
        BY <1>1, <2>2
      <4>2. cbuf[i] = BodyUnit(src - Len(cbuf) + i - 1)
        BY <4>1 DEF Inv, StreamOK, Active
      <4>3. src - Len(cbuf) + i - 1 = b.at + i - 1
        BY <1>2, <2>1
      <4>4. b.at + i - 1 < pkg.stream
        <5> DEFINE x == b.at
                   y == pkg.stream
        <5>1. x \in Nat /\ y \in Nat /\ x + n <= y
          BY <1>1, <2>1, <2>3
        <5> HIDE DEF x, y
        <5>2. x + i - 1 < y
          BY <2>2, <5>1
        <5> QED BY <5>2 DEF x, y
      <4>5. cbuf[i] = b.at + i - 1
        BY <4>2, <4>3, <4>4 DEF BodyUnit
      <4> QED BY <3>1, <3>2, <4>5
    <3>4. First(cbuf, n) = Row(b.at, n)
      BY <3>1, <3>2, <3>3, SeqEqual
    <3>5. k \in DOMAIN pkg.blocks
      BY <1>1, <1>4, LenProperties
    <3>6. k \in HeadBlocks
      BY <3>4, <3>5 DEF HeadBlocks, n
    <3> QED BY <3>6
  <2> QED BY <1>1, <2>2, <2>4
<1> QED BY <1>1, <1>3, <1>4

LEMMA BufStep ==
    ASSUME BlocksFit, Inv, BufOK, [Next]_vars PROVE BufOK'
<1>1. Len(cbuf) \in Nat /\ BUF_SIZE \in Nat /\ READ_SIZE \in Nat
  BY LenProperties, Sizes DEF Inv, TypeOK
<1>2. ASSUME cbuf' = <<>> PROVE BufOK'
  <2>1. <<>> \in Seq(Units) /\ Len(<<>>) = 0
    OBVIOUS
  <2>2. Len(cbuf') = 0
    BY <1>2, <2>1, Zenon
  <2> QED BY <1>1, <2>2 DEF BufOK
<1>3. ASSUME cbuf' = cbuf, pc' # "loop" PROVE BufOK'
  BY <1>3 DEF BufOK
<1>4. CASE \E q \in Packages, j \in {"crc", "release"} : Start(q, j)
  BY <1>2, <1>4 DEF Start
<1>5. CASE ReadFails \/ WriteFails \/ Leave
  <2>1. cbuf' = <<>> \/ (cbuf' = cbuf /\ pc' # "loop")
    BY <1>5 DEF ReadFails, WriteFails, Leave, Fail
  <2> QED BY <1>2, <1>3, <2>1
<1>6. CASE GzipFails \/ CopyOut
  BY <1>2, <1>6 DEF GzipFails, CopyOut
<1>7. CASE GzipRound
  <2>1. cbuf' = <<>> \/ (cbuf' = cbuf /\ pc' = "gzip")
    BY <1>7 DEF GzipRound
  <2> QED BY <1>2, <1>3, <2>1
<1>8. CASE Read
  <2>1. /\ pc = "loop" /\ pos < pkg.raw /\ cbuf' = cbuf \o qbt_fw_pkg_read
        /\ pc' = pkg.cmprs /\ pkg.cmprs \in {"none", "gzip", "block"}
    BY <1>8, PackageFacts DEF Read, Inv, TypeOK
  <2>2. ReadLen \in Nat /\ ReadLen <= READ_SIZE /\ qbt_fw_pkg_read \in Seq(Units)
        /\ Len(qbt_fw_pkg_read) = ReadLen
    BY <2>1, PkgReadFacts
  <2>3. Len(cbuf') = Len(cbuf) + ReadLen
    BY <2>1, <2>2, ConcatProperties DEF Inv, TypeOK
  <2>4. pos \in Nat /\ pkg.raw \in Nat
    BY PackageFacts DEF Inv, TypeOK
  <2>5. Len(cbuf) <= BUF_SIZE
    BY <2>1, <2>4 DEF BufOK
  <2>6. Len(cbuf') <= BUF_SIZE + READ_SIZE
    BY <1>1, <2>2, <2>3, <2>5
  <2> QED BY <2>1, <2>6 DEF BufOK
<1>9. CASE BlockRound
  <2>1. PICK h \in HeadBlocks : cbuf' = From(cbuf, HDR_SIZE + pkg.blocks[h].size)
    BY <1>9 DEF BlockRound
  <2>2. pc = "block" /\ pc' = pc
    BY <1>9 DEF BlockRound
  <2>3. h \in 1 .. Len(pkg.blocks) /\ HDR_SIZE + pkg.blocks[h].size <= Len(cbuf)
    BY <2>2, HeadIsNext
  <2> DEFINE n == HDR_SIZE + pkg.blocks[h].size
  <2>4. n \in Nat
    <3>1. pkg \in Packages /\ pkg.cmprs = "block"
      BY <2>2 DEF Inv, TypeOK, StreamOK, Active
    <3>2. pkg.blocks[h].size \in Nat
      BY <2>3, <3>1, BlockFacts
    <3> QED BY <3>2, Sizes
  <2> HIDE DEF n
  <2>5. Len(From(cbuf, n)) = Len(cbuf) - n
    <3>1. cbuf \in Seq(Units) /\ n <= Len(cbuf)
      BY <2>3 DEF n, Inv, TypeOK
    <3> QED BY <2>4, <3>1, FromFacts
  <2>6. Len(cbuf') <= Len(cbuf)
    BY <1>1, <2>1, <2>4, <2>5 DEF n
  <2>7. Len(cbuf') <= BUF_SIZE + READ_SIZE
    <3> DEFINE l == Len(cbuf')
    <3>1. l = Len(cbuf) - n
      BY <2>1, <2>5 DEF n
    <3> HIDE DEF l
    <3>2. l <= BUF_SIZE + READ_SIZE
      BY <1>1, <2>4, <3>1 DEF BufOK
    <3> QED BY <3>2 DEF l
  <2> QED BY <2>2, <2>7 DEF BufOK
<1>10. CASE BlockEnd
  <2>1. pc = "block" /\ HeadBlocks = {} /\ cbuf' = cbuf /\ pos' = pos + wlen /\ pkg' = pkg
    BY <1>10 DEF BlockEnd, CallReturns
  <2>2. Len(cbuf) <= BUF_SIZE \/ pos + wlen >= pkg.raw
    BY <2>1, KeptIsShort
  <2> QED BY <2>1, <2>2 DEF BufOK
<1>11. CASE UNCHANGED vars
  BY <1>11 DEF BufOK, vars
<1> QED BY <1>4, <1>5, <1>6, <1>7, <1>8, <1>9, <1>10, <1>11 DEF Next, Work

\* cmprs_buf is never overrun, as long as no block with its header is larger
\* than QBOOT_BUF_SIZE + 1.
THEOREM BufferSuffices == ASSUME BlocksFit PROVE Spec => []BufferHolds
<1>1. Init => BufOK
  <2>1. <<>> \in Seq(Units) /\ Len(<<>>) = 0
    OBVIOUS
  <2>2. ASSUME Init PROVE Len(cbuf) = 0 /\ pc = "idle"
    BY <2>1, <2>2 DEF Init
  <2> QED BY <2>2, Sizes DEF BufOK
<1>2. Inv /\ BufOK /\ [Next]_vars => BufOK'
  BY BufStep
<1>3. BufOK => BufferHolds
  BY DEF BufOK, BufferHolds, CMPRS_BUF_SIZE
<1> QED BY <1>1, <1>2, <1>3, AlwaysInv, PTL DEF Spec

=============================================================================
